---------------------------- MODULE BlockScript ----------------------------
(***************************************************************************)
(* A script that crackle carries out on a block image: libcrackle/src/     *)
(* DiskImage.c and BlockDiskImage.c.                                       *)
(*                                                                         *)
(* Each line names an object file and a place.  The file is read anew, the *)
(* place is computed (from the line, from the header snap wrote, or from   *)
(* the BLOCK line before), both are validated, and the data is copied.  A  *)
(* line in error is reported, and the script goes on.  The image is the    *)
(* sequence of the copies made to it: the last one that covers a byte is   *)
(* what the byte holds.                                                    *)
(***************************************************************************)
EXTENDS Integers, SequencesExt

CONSTANTS
    Objects,  \* object files
    Lines,    \* lines the script may have
    Word,     \* 2^32, the width of the fields and of their sums
    MaxLines  \* bound: lines of the script

BlockSize == 512
PageSize == 256
PagesPerBlock == 2
PagesPerTrack == 18
BytesPerTrack == PagesPerTrack * PageSize
TracksPerSide == 35
ImageSize == 1600 * BlockSize
Sides == {169, 173, 121}
TableAddress == 24576

(***************************************************************************)
(* An object file.  Its length is that in the header of a SAV or USR file, *)
(* or else the size of the file; the header of a USR file also has a place *)
(* for RW18.  One that is missing, or shorter than it says, is unreadable. *)
(* Of an image table, count is the first byte and addresses the words that *)
(* follow, as many as there are.                                           *)
(***************************************************************************)
Field == 0 .. Word - 1

Address == 0 .. 65535

Object == [readable : BOOLEAN, length : Field, side : Field, track : Field,
           offset : Field, count : 0 .. 255, addresses : Seq(Address)]

Star == -1    \* the field *
NoTable == -1 \* the image table address of a line without one

(* The fields of a line; an op "other" is a line that is blank, unknown or *)
(* has too few or too many fields.                                         *)
Line == [op : {"comment", "other", "block", "rwts16", "rwts16cp", "rw18"},
         object : Objects, from : Field, length : Star .. Word - 1,
         block : Star .. Word - 1, intra : Field,
         side : Star .. Word - 1, track : Star .. Word - 1,
         offset : Star .. Word - 1, table : Address \cup {NoTable}]

ASSUME ScriptAssumption ==
    /\ Word \in Nat /\ Word > 2 * ImageSize /\ Word % BlockSize = 0
    /\ Objects \subseteq Object
    /\ \A o \in Objects :
          o.length >= 1 + 2 * (o.count + 1) => o.count + 1 \in DOMAIN o.addresses
    /\ Lines \subseteq Line
    /\ MaxLines \in Nat

VARIABLES
    image,      \* the copies made to the image
    line,       \* the line processed last
    outcome,    \* "placed", "error", "none" or "crashed": what became of it
    lastBlock,  \* DiskImageScriptEngine.lastBlock
    lastLength, \* DiskImageScriptEngine.lastLength
    lineNumber, \* DiskImageScriptEngine.lineNumber
    phase       \* "script" and, when the image has been written, "done"

vars == <<image, line, outcome, lastBlock, lastLength, lineNumber, phase>>

-----------------------------------------------------------------------------
(***************************************************************************)
(* The place of a line.                                                    *)
(***************************************************************************)
(* parseFieldWhichSupportsAsteriskForDefaulValue *)
OrDefault(field, default) == IF field = Star THEN default ELSE field

(* Mutant: the length of the last insertion is forgotten. *)
LastBlockOnly == (lastBlock * BlockSize) % Word

LastOffset == (lastBlock * BlockSize + lastLength) % Word

BlockInsert(l) ==
    [from   |-> l.from,
     length |-> OrDefault(l.length, l.object.length),
     block  |-> OrDefault(l.block, LastOffset \div BlockSize),
     intra  |-> IF l.block = Star THEN LastOffset % BlockSize ELSE l.intra]

(* startBlockForSide takes the side as a short.  A block is free between   *)
(* the first two sides.                                                    *)
SideOf(p) == p.side % 65536

StartBlock(side) ==
    IF side = 169 THEN 16
    ELSE IF side = 173 THEN 16 + 315 + 1
    ELSE 16 + 315 + 1 + 315

Rw18Place(l) ==
    [side   |-> OrDefault(l.side, l.object.side),
     track  |-> OrDefault(l.track, l.object.track),
     offset |-> OrDefault(l.offset, l.object.offset)]

(* validateRW18InsertionProperties, and the default of startBlockForSide *)
IsRw18Place(p) ==
    p.track < TracksPerSide /\ p.offset < BytesPerTrack /\ SideOf(p) \in Sides

PageWithinSide(p) == (p.track * PagesPerTrack) + (p.offset \div PageSize)

(* Mutant: the page within its block is left out. *)
WholeBlocks(p) ==
    [block |-> StartBlock(SideOf(p)) + PageWithinSide(p) \div PagesPerBlock,
     intra |-> p.offset % PageSize]

(* convertRW18SideTrackSectorToBlockAndOffset *)
ToBlockAndOffset(p) ==
    [block |-> StartBlock(SideOf(p)) + PageWithinSide(p) \div PagesPerBlock,
     intra |-> ((PageWithinSide(p) % PagesPerBlock) * PageSize) + (p.offset % PageSize)]

-----------------------------------------------------------------------------
(***************************************************************************)
(* Image tables: a count, and the addresses of its images and of the end   *)
(* of the last, for a table loaded at TableAddress.                        *)
(***************************************************************************)
(* validateObjectFileHasValidImageTableHeader *)
HasTableHeader(object) ==
    /\ object.length >= 3
    /\ object.addresses[1] = TableAddress + 1 + (object.count + 1) * 2

(* updateImageTableAddresses counts the addresses in a byte, which never   *)
(* reaches 256: with 255 images it goes on to the end of the object.       *)
HasTableAddresses(object) ==
    object.count < 255 /\ object.length >= 1 + 2 * (object.count + 1)

IsTable(object) == HasTableHeader(object) /\ HasTableAddresses(object)

Relocated(address, table) == (address - TableAddress + table) % 65536

(* getImageTableObjectSize *)
TableSize(object, table) ==
    (Relocated(object.addresses[object.count + 1], table) - table) % 65536

Rw18Insert(l) ==
    LET length == OrDefault(l.length, l.object.length)
        place  == ToBlockAndOffset(Rw18Place(l))
        IsLonger == l.table # NoTable /\ length > TableSize(l.object, l.table)
    IN  [from   |-> l.from,
         length |-> IF IsLonger THEN TableSize(l.object, l.table) ELSE length,
         block  |-> place.block,
         intra  |-> place.intra]

-----------------------------------------------------------------------------
(***************************************************************************)
(* Validation and copying.                                                 *)
(***************************************************************************)
(* roundUpLengthToBlockSize: the size of the object's buffer *)
BufferSize(object) ==
    (((object.length + BlockSize - 1) % Word) \div BlockSize) * BlockSize

(* validateSourceObjectParameters *)
IsSourceValid(ins, object) ==
    /\ ins.from < object.length
    /\ (ins.from + ins.length) % Word <= BufferSize(object)

Offset(ins) == (ins.block * BlockSize + ins.intra) % Word

(* Mutant: only the start must be in the image. *)
StartsInImage(ins) == ins.intra < BlockSize /\ Offset(ins) < ImageSize

(* validateImageOffsets *)
IsInImage(ins) ==
    /\ ins.intra < BlockSize
    /\ Offset(ins) < ImageSize
    /\ (Offset(ins) + ins.length) % Word <= ImageSize

(* memcpy reaches beyond the buffers when a sum above has wrapped. *)
IsOutOfBounds(ins, object) ==
    ins.from + ins.length > BufferSize(object) \/ Offset(ins) + ins.length > ImageSize

Copy(ins, l) ==
    [line |-> l, from |-> ins.from, length |-> ins.length, at |-> Offset(ins)]

Process(l) ==
    /\ phase = "script"
    /\ outcome # "crashed"
    /\ lineNumber <= MaxLines
    /\ line' = l
    /\ lineNumber' = lineNumber + 1
    /\ UNCHANGED phase

(* reportScriptLineException *)
Report == outcome' = "error" /\ UNCHANGED image

InsertBlockData(ins, l) ==
    \/ ~IsInImage(ins) /\ Report
    \/ IsInImage(ins) /\ IsOutOfBounds(ins, l.object)
       /\ outcome' = "crashed" /\ UNCHANGED image
    \/ IsInImage(ins) /\ ~IsOutOfBounds(ins, l.object)
       /\ outcome' = "placed" /\ image' = Append(image, Copy(ins, l))

InsertObjectFile(ins, l) ==
    IF IsSourceValid(ins, l.object) THEN InsertBlockData(ins, l) ELSE Report

(* The block of the line is remembered before it is validated. *)
Remember(ins) ==
    /\ lastBlock' = ins.block
    /\ lastLength' = ins.length

Comment(l) ==
    /\ Process(l)
    /\ l.op = "comment"
    /\ outcome' = "none"
    /\ UNCHANGED <<image, lastBlock, lastLength>>

(* processNextScriptLine *)
OtherLine(l) ==
    /\ Process(l)
    /\ l.op = "other"
    /\ Report
    /\ UNCHANGED <<lastBlock, lastLength>>

(* BlockDiskImage_InsertData: the places of a block image are blocks, and  *)
(* those of a side turned into blocks.                                     *)
TakesType(op) == op \in {"block", "rw18"}

(* processRWTS16ScriptLine.  Whatever its object and its fields, the image *)
(* refuses the type of the line in the end.                                *)
RWTS16Line(l) ==
    /\ Process(l)
    /\ l.op = "rwts16" /\ ~TakesType(l.op)
    /\ Report
    /\ UNCHANGED <<lastBlock, lastLength>>

(* processRWTS16CPScriptLine has no object. *)
RWTS16CPLine(l) ==
    /\ Process(l)
    /\ l.op = "rwts16cp" /\ ~TakesType(l.op)
    /\ Report
    /\ UNCHANGED <<lastBlock, lastLength>>

(* readObjectFile throws. *)
UnreadableObject(l) ==
    /\ Process(l)
    /\ TakesType(l.op)
    /\ ~l.object.readable
    /\ Report
    /\ UNCHANGED <<lastBlock, lastLength>>

(* processBlockScriptLine *)
BlockLine(l) ==
    /\ Process(l)
    /\ l.op = "block"
    /\ l.object.readable
    /\ Remember(BlockInsert(l))
    /\ InsertObjectFile(BlockInsert(l), l)

(* processRW18ScriptLine *)
Rw18Line(l) ==
    /\ Process(l)
    /\ l.op = "rw18"
    /\ l.object.readable
    /\ IsRw18Place(Rw18Place(l))
    /\ l.table # NoTable => IsTable(l.object)
    /\ InsertObjectFile(Rw18Insert(l), l)
    /\ UNCHANGED <<lastBlock, lastLength>>

Rw18Invalid(l) ==
    /\ Process(l)
    /\ l.op = "rw18"
    /\ l.object.readable
    /\ ~IsRw18Place(Rw18Place(l)) \/ (l.table # NoTable /\ ~IsTable(l.object))
    /\ Report
    /\ UNCHANGED <<lastBlock, lastLength>>

(* The image is written whatever the lines reported. *)
WriteImage ==
    /\ phase = "script"
    /\ outcome # "crashed"
    /\ phase' = "done"
    /\ UNCHANGED <<image, line, outcome, lastBlock, lastLength, lineNumber>>

Init ==
    /\ image = <<>>
    /\ line \in {l \in Lines : l.op = "comment"}
    /\ outcome = "none"
    /\ lastBlock = 0
    /\ lastLength = 0
    /\ lineNumber = 1
    /\ phase = "script"

Next ==
    \/ WriteImage
    \/ \E l \in Lines :
           \/ Comment(l)
           \/ OtherLine(l)
           \/ RWTS16Line(l)
           \/ RWTS16CPLine(l)
           \/ UnreadableObject(l)
           \/ BlockLine(l)
           \/ Rw18Line(l)
           \/ Rw18Invalid(l)

Spec == Init /\ [][Next]_vars

-----------------------------------------------------------------------------
(***************************************************************************)
(* Safety.                                                                 *)
(***************************************************************************)
(* What is remembered of a line fits in 32 bits.                           *)
TypeOK ==
    /\ image \in Seq([line : Lines, from : Field, length : Field, at : Field])
    /\ line \in Lines
    /\ outcome \in {"placed", "error", "none", "crashed"}
    /\ lastBlock \in Field
    /\ lastLength \in Field
    /\ lineNumber \in 1 .. MaxLines + 1
    /\ phase \in {"script", "done"}

(* Whatever a line says, what is copied comes out of the buffer of its     *)
(* object and stays within the image, unless one of the sums that are      *)
(* compared is 2^32 or more and wraps.                                     *)
Wraps(ins) ==
    \/ ins.from + ins.length >= Word
    \/ ins.block * BlockSize + ins.intra + ins.length >= Word

OnlyWrappedSumsEscape ==
    [][outcome' = "crashed" =>
          Wraps(IF line'.op = "block" THEN BlockInsert(line') ELSE Rw18Insert(line'))]_vars

(* On a side, tracks follow each other without a gap: the split into pages *)
(* and blocks is the identity on the bytes of a side.                      *)
SideOffset(p) == p.track * BytesPerTrack + p.offset

TracksAreContiguous ==
    \A i \in DOMAIN image : image[i].line.op = "rw18" =>
        LET p == Rw18Place(image[i].line)
        IN  image[i].at = StartBlock(SideOf(p)) * BlockSize + SideOffset(p)

IsOnItsSide(copy) ==
    /\ copy.line.op = "rw18"
    /\ SideOffset(Rw18Place(copy.line)) + copy.length <= TracksPerSide * BytesPerTrack

AreApart(c, d) == c.at + c.length <= d.at \/ d.at + d.length <= c.at

AreSidesApart ==
    \A i, j \in DOMAIN image :
        (/\ IsOnItsSide(image[i])
         /\ IsOnItsSide(image[j])
         /\ SideOf(Rw18Place(image[i].line)) # SideOf(Rw18Place(image[j].line)))
        => AreApart(image[i], image[j])

(* The data of a side is on the tracks of the side, one behind the other,  *)
(* and what is inserted within one side never reaches another.             *)
SidesAreApart == TracksAreContiguous /\ AreSidesApart

(* A line with * goes on where the line before ended, if that was a BLOCK  *)
(* line whose data began with a block.                                     *)
IsContinued ==
    /\ line.op = "block" /\ outcome = "placed"
    /\ line'.op = "block" /\ line'.block = Star /\ outcome' = "placed"
    /\ image' # image

EndOf(copy) == copy.at + copy.length

StarContinuesABlock ==
    [][IsContinued /\ Last(image).at % BlockSize = 0
       => Last(image').at = EndOf(Last(image))]_vars

(***************************************************************************)
(* What the documentation promises and the code does not do.               *)
(***************************************************************************)
(* notes/crackle.creole: data with * is inserted where the data from the   *)
(* previous script line ended, back to back.  The offset in the block is   *)
(* not remembered, so the third of three files overwrites the second.      *)
StarContinues ==
    [][IsContinued => Last(image').at = EndOf(Last(image))]_vars
=============================================================================
