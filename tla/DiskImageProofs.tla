-------------------------- MODULE DiskImageProofs ---------------------------
(***************************************************************************)
(* Proofs about BlockScript, for every script, every object and every      *)
(* width of the fields that is a multiple of a block and holds two images. *)
(*                                                                         *)
(* IInv says of each copy of an RW18 line that its place was validated and *)
(* is the byte of its side that the line names, and of the line processed  *)
(* last that what is remembered is what was copied.  The sums that wrap    *)
(* are the matter of three lemmas on remainders.                           *)
(*                                                                         *)
(* The last section is about what a nibble image promises to hold,         *)
(* DiskContents, for every size of disk.                                   *)
(***************************************************************************)
EXTENDS BlockScript, SequenceTheorems, TLAPS

USE DEF BlockSize, PageSize, PagesPerBlock, PagesPerTrack,
    BytesPerTrack, TracksPerSide, ImageSize, Star

Copies == [line : Lines, from : Field, length : Field, at : Field]

(* A copy of an RW18 line is where the line says. *)
IsAtItsPlace(copy) ==
    copy.line.op = "rw18" =>
        LET p == Rw18Place(copy.line)
        IN  /\ IsRw18Place(p)
            /\ copy.at = StartBlock(SideOf(p)) * BlockSize + SideOffset(p)

CopiesAreAtTheirPlaces == \A i \in DOMAIN image : IsAtItsPlace(image[i])

(* The copy of a BLOCK line is what is remembered of it. *)
LastIsRemembered ==
    line.op = "block" /\ outcome = "placed" =>
        /\ image # <<>>
        /\ Last(image).length = lastLength
        /\ Last(image).at + lastLength <= ImageSize
        /\ \E intra \in Field : /\ intra < BlockSize
                                /\ Last(image).at = (lastBlock * BlockSize + intra) % Word

IInv == TypeOK /\ CopiesAreAtTheirPlaces /\ LastIsRemembered

-----------------------------------------------------------------------------
(* Remainders. *)

LEMMA WordFacts ==
    /\ Word \in Nat /\ Word > 2 * ImageSize /\ Word % BlockSize = 0
  BY ScriptAssumption

LEMMA FieldIsNat == Field \subseteq Nat
  BY WordFacts, SMT DEF Field

LEMMA SmallRemainder ==
    ASSUME NEW w \in Nat, NEW x \in Nat, x < w PROVE x % w = x
  BY SMT

LEMMA RemainderIsField ==
    ASSUME NEW x \in Nat PROVE x % Word \in Field
  BY WordFacts, SMT DEF Field

LEMMA Quotient ==
    ASSUME NEW w \in Nat, w > 0, NEW x \in Nat
    PROVE  x \div w \in Nat /\ x % w \in Nat /\ x = w * (x \div w) + (x % w)
  BY SMT

(* A remainder is the only one. *)
LEMMA RemainderOfSum ==
    ASSUME NEW w \in Nat, NEW k \in Nat, NEW r \in Nat, r < w
    PROVE  (w * k + r) % w = r
  <1> DEFINE x == w * k + r
             q == x \div w
             s == x % w
  <1>1. x \in Nat
    BY SMT
  <1>2. q \in Nat /\ s \in Nat /\ s < w /\ w * k + r = (w * q) + s
    BY <1>1, SMT
  <1> HIDE DEF q, s
  <1>3. CASE q > k
    <2>1. PICK d \in Nat : q = k + 1 + d
      <3>1. q - k - 1 \in Nat /\ q = k + 1 + (q - k - 1)
        BY <1>2, <1>3, SMT
      <3> QED BY <3>1
    <2>2. w * q = w * k + w + w * d /\ w * d \in Nat /\ w * k \in Nat
      BY <2>1, SMT
    <2> QED BY <1>2, <2>2, SMT
  <1>4. CASE q < k
    <2>1. PICK d \in Nat : k = q + 1 + d
      <3>1. k - q - 1 \in Nat /\ k = q + 1 + (k - q - 1)
        BY <1>2, <1>4, SMT
      <3> QED BY <3>1
    <2>2. w * k = w * q + w + w * d /\ w * d \in Nat /\ w * q \in Nat
      BY <1>2, <2>1, SMT
    <2> QED BY <1>2, <2>2, SMT
  <1>5. CASE q = k
    <2>1. s = r
      BY <1>2, <1>5, SMT
    <2> QED BY <2>1 DEF s
  <1> QED BY <1>2, <1>3, <1>4, <1>5, SMT

-----------------------------------------------------------------------------
(* What lines and their insertions are made of. *)

LEMMA LineFacts ==
    ASSUME NEW l \in Lines
    PROVE  /\ l \in Line
           /\ l.object \in Object
           /\ l.object.length \in Field
           /\ l.object.track \in Field /\ l.object.offset \in Field
           /\ l.from \in Field /\ l.intra \in Field
           /\ l.length = Star \/ l.length \in Field
           /\ l.block = Star \/ l.block \in Field
           /\ l.side = Star \/ l.side \in Field
           /\ l.track = Star \/ l.track \in Field
           /\ l.offset = Star \/ l.offset \in Field
           /\ l.table \in Int
  <1>1. l \in Line /\ l.object \in Objects
    BY ScriptAssumption DEF Line
  <1>2. l.object \in Object
    BY <1>1, ScriptAssumption
  <1>3. /\ l.object.length \in Field
        /\ l.object.track \in Field /\ l.object.offset \in Field
    BY <1>2 DEF Object
  <1>4. /\ l.from \in Field /\ l.intra \in Field
        /\ l.length \in Star .. Word - 1 /\ l.block \in Star .. Word - 1
        /\ l.side \in Star .. Word - 1 /\ l.track \in Star .. Word - 1
        /\ l.offset \in Star .. Word - 1 /\ l.table \in Address \cup {NoTable}
    BY <1>1 DEF Line
  <1>5. \A x \in Star .. Word - 1 : x = Star \/ x \in Field
    BY WordFacts, SMT DEF Field
  <1>6. l.table \in Int
    <2>1. \A t \in Address \cup {NoTable} : t \in Int
      BY SMT DEF Address, NoTable
    <2> QED BY <1>4, <2>1
  <1> QED BY <1>1, <1>2, <1>3, <1>4, <1>5, <1>6

LEMMA PlaceFacts ==
    ASSUME NEW l \in Lines
    PROVE  Rw18Place(l).track \in Nat /\ Rw18Place(l).offset \in Nat
  <1>1. OrDefault(l.track, l.object.track) \in Field
    BY LineFacts DEF OrDefault
  <1>2. OrDefault(l.offset, l.object.offset) \in Field
    BY LineFacts DEF OrDefault
  <1> QED BY <1>1, <1>2, FieldIsNat DEF Rw18Place

LEMMA CopyFacts ==
    ASSUME NEW c \in Copies
    PROVE  c.line \in Lines /\ c.length \in Nat /\ c.at \in Nat
  BY FieldIsNat DEF Copies

LEMMA BlockInsertType ==
    ASSUME TypeOK, NEW l \in Lines
    PROVE  BlockInsert(l) \in [from : Field, length : Field, block : Field, intra : Field]
  <1>1. LastOffset \in Field
    <2>1. lastBlock * 512 + lastLength \in Nat
      BY WordFacts, SMT DEF TypeOK, Field
    <2> QED BY <2>1, RemainderIsField DEF LastOffset
  <1>2. LastOffset \div 512 \in Field /\ LastOffset % 512 \in Field
    <2> DEFINE x == LastOffset
    <2> HIDE DEF x
    <2>1. x \in Field => x \div 512 \in Field /\ x % 512 \in Field
      BY WordFacts, SMT DEF Field
    <2> QED BY <1>1, <2>1 DEF x
  <1>3. OrDefault(l.length, l.object.length) \in Field
    BY LineFacts DEF OrDefault
  <1>4. OrDefault(l.block, LastOffset \div BlockSize) \in Field
    BY LineFacts, <1>2 DEF OrDefault
  <1>5. (IF l.block = Star THEN LastOffset % BlockSize ELSE l.intra) \in Field
    BY LineFacts, <1>2
  <1> QED BY LineFacts, <1>3, <1>4, <1>5 DEF BlockInsert

LEMMA TableSizeType ==
    ASSUME NEW l \in Lines, IsTable(l.object), l.table # NoTable
    PROVE  TableSize(l.object, l.table) \in Field
  <1> DEFINE o == l.object
  <1>1. o \in Objects /\ o \in Object
    BY LineFacts, ScriptAssumption DEF Line
  <1>2. o.count + 1 \in DOMAIN o.addresses
    BY <1>1, ScriptAssumption DEF IsTable, HasTableAddresses
  <1>3. o.addresses[o.count + 1] \in Int
    <2>1. o.addresses \in Seq(Address)
      BY <1>1 DEF Object
    <2>2. Address \subseteq Int
      BY SMT DEF Address
    <2>3. o.count + 1 \in 1 .. Len(o.addresses)
      BY <1>2, <2>1, LenProperties
    <2> HIDE DEF o
    <2>4. o.addresses[o.count + 1] \in Address
      BY <2>1, <2>3, ElementOfSeq
    <2> QED BY <2>2, <2>4
  <1>4. l.table \in Int
    BY LineFacts
  <1>5. Relocated(o.addresses[o.count + 1], l.table) \in Int
    BY <1>3, <1>4, SMT DEF Relocated, TableAddress
  <1> QED BY <1>4, <1>5, WordFacts, SMT DEF TableSize, Field

LEMMA Rw18InsertFacts ==
    ASSUME NEW l \in Lines, NEW p, NEW ins,
           p = Rw18Place(l), ins = Rw18Insert(l), IsRw18Place(p),
           l.table # NoTable => IsTable(l.object)
    PROVE  /\ ins.from \in Field /\ ins.length \in Field
           /\ ins.block \in Nat /\ ins.intra \in Nat
           /\ ins.block * BlockSize + ins.intra
                  = StartBlock(SideOf(p)) * BlockSize + SideOffset(p)
           /\ StartBlock(SideOf(p)) * BlockSize + SideOffset(p) \in Nat
           /\ StartBlock(SideOf(p)) * BlockSize + SideOffset(p) <= ImageSize
  <1> DEFINE start == StartBlock(SideOf(p))
             pages == PageWithinSide(p)
  <1>1. p.track \in Nat /\ p.offset \in Nat
    BY PlaceFacts
  <1>2. p.track < 35 /\ p.offset < 4608
    BY SMT DEF IsRw18Place
  <1>3. start \in {16, 332, 647}
    BY SMT DEF StartBlock
  <1>5. ins.from \in Field /\ ins.length \in Field
    <2>1. OrDefault(l.length, l.object.length) \in Field
      BY LineFacts DEF OrDefault
    <2>2. ins.length \in Field
      BY <2>1, TableSizeType DEF Rw18Insert
    <2> QED BY <2>2, LineFacts DEF Rw18Insert
  <1>6. /\ ins.block = start + (pages \div 2)
        /\ ins.intra = ((pages % 2) * 256) + (p.offset % 256)
    BY DEF Rw18Insert, ToBlockAndOffset
  <1>7. pages = (p.track * 18) + (p.offset \div 256)
    BY DEF PageWithinSide
  <1>8. SideOffset(p) = (p.track * (18 * 256)) + p.offset
    BY DEF SideOffset
  <1>9. /\ ins.block \in Nat /\ ins.intra \in Nat
        /\ (ins.block * 512) + ins.intra = (start * 512) + SideOffset(p)
        /\ (start * 512) + SideOffset(p) \in Nat
        /\ (start * 512) + SideOffset(p) <= 1600 * 512
    <2> DEFINE t == p.track
               o == p.offset
               b == ins.block
               n == ins.intra
               side == SideOffset(p)
    <2>1. /\ t \in Nat /\ o \in Nat /\ t < 35 /\ o < 4608
          /\ pages = (t * 18) + (o \div 256) /\ b = start + (pages \div 2)
          /\ n = ((pages % 2) * 256) + (o % 256) /\ side = (t * (18 * 256)) + o
      BY <1>1, <1>2, <1>6, <1>7, <1>8
    <2> HIDE DEF start, pages, t, o, b, n, side
    <2>2. pages \in Nat /\ start \in Nat /\ start <= 647 /\ b \in Nat /\ n \in Nat /\ side \in Nat
      BY <1>3, <2>1, SMT
    <2>3. /\ (b * 512) + n = (start * 512) + (256 * pages) + (o % 256)
          /\ (256 * pages) + (o % 256) = side
      BY <2>1, <2>2, SMT
    <2>4. side < 35 * 4608
      BY <2>1, SMT
    <2>5. (start * 512) + side \in Nat /\ (start * 512) + side <= 1600 * 512
      BY <2>2, <2>4, SMT
    <2>6. (b * 512) + n = (start * 512) + side
      BY <2>1, <2>2, <2>3, SMT
    <2> QED BY <2>2, <2>5, <2>6 DEF t, o, b, n, side
  <1> QED BY <1>5, <1>9 DEF start

-----------------------------------------------------------------------------
(* An insertion is placed, or nothing is copied. *)
LEMMA Insertion ==
    ASSUME TypeOK, NEW l \in Lines, NEW ins,
           ins.from \in Field, ins.length \in Field,
           ins.block \in Nat, ins.intra \in Nat,
           InsertObjectFile(ins, l)
    PROVE  \/ outcome' \in {"error", "crashed"} /\ image' = image
           \/ /\ outcome' = "placed"
              /\ Copy(ins, l) \in Copies
              /\ image' = Append(image, Copy(ins, l))
              /\ ins.intra < BlockSize
              /\ Offset(ins) \in Field
              /\ Offset(ins) + ins.length <= ImageSize
  <1>1. Offset(ins) \in Field
    <2>1. ins.block * BlockSize + ins.intra \in Nat
      BY SMT
    <2> QED BY <2>1, RemainderIsField DEF Offset
  <1>2. Copy(ins, l) \in Copies
    BY <1>1 DEF Copy, Copies
  <1>3. Offset(ins) + ins.length \in Int
    BY <1>1, SMT DEF Field
  <1> DEFINE end == Offset(ins) + ins.length
  <1>4. CASE ~IsSourceValid(ins, l.object)
    BY <1>4 DEF InsertObjectFile, Report
  <1>5. CASE IsSourceValid(ins, l.object)
    <2>1. InsertBlockData(ins, l)
      BY <1>5 DEF InsertObjectFile
    <2>2. CASE Report
      BY <2>2 DEF Report
    <2>3. CASE outcome' = "crashed" /\ UNCHANGED image
      BY <2>3
    <2>4. CASE /\ IsInImage(ins) /\ ~IsOutOfBounds(ins, l.object)
               /\ outcome' = "placed" /\ image' = Append(image, Copy(ins, l))
      <3>1. ~(end > ImageSize)
        BY <2>4 DEF IsOutOfBounds
      <3>2. end <= ImageSize
        BY <3>1, <1>3, SMT
      <3>3. ins.intra < BlockSize
        BY <2>4 DEF IsInImage
      <3> QED BY <1>1, <1>2, <2>4, <3>2, <3>3
    <2> QED BY <2>1, <2>2, <2>3, <2>4 DEF InsertBlockData
  <1> QED BY <1>4, <1>5

(* One more copy. *)
LEMMA Appended ==
    ASSUME NEW s \in Seq(Copies), NEW c \in Copies
    PROVE  /\ Append(s, c) \in Seq(Copies)
           /\ Append(s, c) # <<>>
           /\ Last(Append(s, c)) = c
           /\ \A i \in DOMAIN Append(s, c) :
                  (i \in DOMAIN s /\ Append(s, c)[i] = s[i]) \/ Append(s, c)[i] = c
  <1>1. /\ Append(s, c) \in Seq(Copies)
        /\ Len(Append(s, c)) = Len(s) + 1
        /\ \A i \in 1 .. Len(s) : Append(s, c)[i] = s[i]
        /\ Append(s, c)[Len(s) + 1] = c
    BY AppendProperties
  <1>2. Len(s) \in Nat /\ DOMAIN s = 1 .. Len(s)
        /\ DOMAIN Append(s, c) = 1 .. Len(s) + 1
    BY <1>1, LenProperties
  <1>3. Append(s, c) # <<>>
    BY <1>1, <1>2, EmptySeq, SMT
  <1>4. Last(Append(s, c)) = c
    BY <1>1 DEF Last
  <1>5. ASSUME NEW i \in DOMAIN Append(s, c)
        PROVE  (i \in DOMAIN s /\ Append(s, c)[i] = s[i]) \/ Append(s, c)[i] = c
    <2>1. i \in 1 .. Len(s) \/ i = Len(s) + 1
      BY <1>2, <1>5, SMT
    <2> QED BY <1>1, <1>2, <2>1
  <1> QED BY <1>1, <1>3, <1>4, <1>5

LEMMA ProcessFacts ==
    ASSUME TypeOK, NEW l \in Lines, Process(l)
    PROVE  line' = l /\ lineNumber' \in 1 .. MaxLines + 1 /\ phase' = phase
  BY ScriptAssumption, SMT DEF TypeOK, Process

(* A line that copies nothing and remembers nothing. *)
LEMMA NothingPlaced ==
    ASSUME IInv, NEW l \in Lines, Process(l), outcome' \in {"error", "none"},
           UNCHANGED <<image, lastBlock, lastLength>>
    PROVE  IInv'
  <1>1. TypeOK'
    BY ProcessFacts, Zenon DEF IInv, TypeOK
  <1>2. CopiesAreAtTheirPlaces'
    BY Zenon DEF IInv, CopiesAreAtTheirPlaces, IsAtItsPlace
  <1>3. LastIsRemembered'
    BY DEF LastIsRemembered
  <1> QED BY <1>1, <1>2, <1>3 DEF IInv

LEMMA BlockLineKeeps == ASSUME IInv, NEW l \in Lines, BlockLine(l) PROVE IInv'
  <1> DEFINE ins == BlockInsert(l)
  <1>1. TypeOK /\ Process(l)
    BY DEF IInv, BlockLine
  <1>2. ins \in [from : Field, length : Field, block : Field, intra : Field]
    BY <1>1, BlockInsertType
  <1>3. /\ ins.from \in Field /\ ins.length \in Field
        /\ ins.block \in Field /\ ins.intra \in Field
        /\ ins.block \in Nat /\ ins.intra \in Nat
    BY <1>2, SMT DEF Field
  <1>4. lastBlock' = ins.block /\ lastLength' = ins.length
    BY DEF BlockLine, Remember
  <1>5. \/ outcome' \in {"error", "crashed"} /\ image' = image
        \/ /\ outcome' = "placed"
           /\ Copy(ins, l) \in Copies
           /\ image' = Append(image, Copy(ins, l))
           /\ ins.intra < BlockSize
           /\ Offset(ins) + ins.length <= ImageSize
    <2>1. InsertObjectFile(ins, l)
      BY DEF BlockLine
    <2> QED BY <1>1, <1>3, <2>1, Insertion
  <1>6. /\ Copy(ins, l).at = Offset(ins) /\ Copy(ins, l).length = ins.length
        /\ Copy(ins, l).line = l
    BY DEF Copy
  <1>7. l.op = "block" /\ line' = l
    BY <1>1, ProcessFacts DEF BlockLine
  <1>8. Offset(ins) = (ins.block * BlockSize + ins.intra) % Word
    BY DEF Offset
  <1> HIDE DEF ins
  <1>9. image \in Seq(Copies)
    BY <1>1 DEF TypeOK, Copies
  <1>10. TypeOK'
    <2>1. image' \in Seq(Copies)
      BY <1>5, <1>9, Appended
    <2>2. outcome' \in {"placed", "error", "none", "crashed"}
      BY <1>5
    <2> QED BY <1>1, <1>3, <1>4, <2>1, <2>2, ProcessFacts DEF TypeOK, Copies
  <1>11. CopiesAreAtTheirPlaces'
    <2> SUFFICES ASSUME NEW i \in DOMAIN image' PROVE IsAtItsPlace(image'[i])
      BY DEF CopiesAreAtTheirPlaces, IsAtItsPlace
    <2>1. \/ i \in DOMAIN image /\ image'[i] = image[i]
          \/ image'[i] = Copy(ins, l)
      BY <1>5, <1>9, Appended
    <2>2. IsAtItsPlace(Copy(ins, l))
      BY <1>6, <1>7 DEF IsAtItsPlace
    <2> QED BY <2>1, <2>2 DEF IInv, CopiesAreAtTheirPlaces
  <1>12. LastIsRemembered'
    <2> SUFFICES ASSUME outcome' = "placed"
                 PROVE  /\ image' # <<>>
                        /\ Last(image').length = lastLength'
                        /\ Last(image').at + lastLength' <= ImageSize
                        /\ \E intra \in Field :
                              /\ intra < BlockSize
                              /\ Last(image').at = (lastBlock' * BlockSize + intra) % Word
      BY DEF LastIsRemembered
    <2>1. /\ Copy(ins, l) \in Copies
          /\ image' = Append(image, Copy(ins, l))
          /\ ins.intra < BlockSize
          /\ Offset(ins) + ins.length <= ImageSize
      BY <1>5
    <2>2. image' # <<>> /\ Last(image') = Copy(ins, l)
      BY <1>9, <2>1, Appended
    <2> QED BY <1>3, <1>4, <1>6, <1>8, <2>1, <2>2
  <1> QED BY <1>10, <1>11, <1>12 DEF IInv

LEMMA Rw18LineKeeps == ASSUME IInv, NEW l \in Lines, Rw18Line(l) PROVE IInv'
  <1> DEFINE ins == Rw18Insert(l)
             p == Rw18Place(l)
             place == StartBlock(SideOf(p)) * BlockSize + SideOffset(p)
  <1>1. TypeOK /\ Process(l) /\ l.op = "rw18" /\ UNCHANGED <<lastBlock, lastLength>>
    BY DEF IInv, Rw18Line
  <1>2. IsRw18Place(p)
    BY DEF Rw18Line
  <1>3. /\ ins.from \in Field /\ ins.length \in Field
        /\ ins.block \in Nat /\ ins.intra \in Nat
        /\ ins.block * BlockSize + ins.intra = place
        /\ place \in Nat /\ place <= ImageSize
    <2>1. l.table # NoTable => IsTable(l.object)
      BY DEF Rw18Line
    <2> QED BY <1>2, <2>1, Rw18InsertFacts
  <1>4. \/ outcome' \in {"error", "crashed"} /\ image' = image
        \/ /\ outcome' = "placed"
           /\ Copy(ins, l) \in Copies
           /\ image' = Append(image, Copy(ins, l))
    <2>1. InsertObjectFile(ins, l)
      BY DEF Rw18Line
    <2> HIDE DEF ins
    <2> QED BY <1>1, <1>3, <2>1, Insertion
  <1>5. Offset(ins) = place
    <2> HIDE DEF ins, place
    <2>1. Offset(ins) = place % Word
      BY <1>3 DEF Offset
    <2>2. place \in Nat /\ place < Word
      BY <1>3, WordFacts, SMT
    <2> QED BY <2>1, <2>2, WordFacts, SmallRemainder
  <1>6. Copy(ins, l).at = place /\ Copy(ins, l).line = l
    BY <1>5 DEF Copy
  <1>7. image \in Seq(Copies)
    BY <1>1 DEF TypeOK, Copies
  <1>8. IsAtItsPlace(Copy(ins, l))
    BY <1>2, <1>6 DEF IsAtItsPlace
  <1> HIDE DEF ins, p, place
  <1>9. TypeOK'
    <2>1. image' \in Seq(Copies)
      BY <1>4, <1>7, Appended
    <2>2. outcome' \in {"placed", "error", "none", "crashed"}
      BY <1>4
    <2> QED BY <1>1, <2>1, <2>2, ProcessFacts DEF TypeOK, Copies
  <1>10. CopiesAreAtTheirPlaces'
    <2> SUFFICES ASSUME NEW i \in DOMAIN image' PROVE IsAtItsPlace(image'[i])
      BY DEF CopiesAreAtTheirPlaces, IsAtItsPlace
    <2>1. \/ i \in DOMAIN image /\ image'[i] = image[i]
          \/ image'[i] = Copy(ins, l)
      BY <1>4, <1>7, Appended
    <2> QED BY <1>8, <2>1 DEF IInv, CopiesAreAtTheirPlaces
  <1>11. LastIsRemembered'
    BY <1>1, ProcessFacts DEF LastIsRemembered
  <1> QED BY <1>9, <1>10, <1>11 DEF IInv

LEMMA InitEstablishes == ASSUME Init PROVE IInv
  <1>1. image = <<>> /\ outcome = "none" /\ line \in Lines
    BY DEF Init
  <1>2. TypeOK
    <2>1. 0 \in Field /\ 1 \in 1 .. MaxLines + 1
      BY ScriptAssumption, SMT DEF Field
    <2>2. image \in Seq([line : Lines, from : Field, length : Field, at : Field])
      BY <1>1
    <2> QED BY <1>1, <2>1, <2>2 DEF Init, TypeOK
  <1> QED BY <1>1, <1>2 DEF IInv, CopiesAreAtTheirPlaces, LastIsRemembered

LEMMA StepKeeps == ASSUME IInv, [Next]_vars PROVE IInv'
  <1>1. CASE UNCHANGED vars
    BY <1>1 DEF vars, IInv, TypeOK, CopiesAreAtTheirPlaces, IsAtItsPlace, LastIsRemembered
  <1>2. CASE WriteImage
    BY <1>2 DEF WriteImage, IInv, TypeOK, CopiesAreAtTheirPlaces, IsAtItsPlace, LastIsRemembered
  <1>3. ASSUME NEW l \in Lines,
               Comment(l) \/ OtherLine(l) \/ RWTS16Line(l) \/ RWTS16CPLine(l)
                   \/ UnreadableObject(l) \/ Rw18Invalid(l)
        PROVE  IInv'
    <2>1. Process(l) /\ outcome' \in {"error", "none"} /\ UNCHANGED <<image, lastBlock, lastLength>>
      BY <1>3, Zenon DEF Comment, OtherLine, RWTS16Line, RWTS16CPLine, UnreadableObject,
                  Rw18Invalid, Report
    <2> QED BY <2>1, NothingPlaced
  <1>4. ASSUME NEW l \in Lines, BlockLine(l) PROVE IInv'
    BY <1>4, BlockLineKeeps
  <1>5. ASSUME NEW l \in Lines, Rw18Line(l) PROVE IInv'
    BY <1>5, Rw18LineKeeps
  <1> QED BY <1>1, <1>2, <1>3, <1>4, <1>5 DEF Next

-----------------------------------------------------------------------------
(* The inductive invariant holds of every script. *)
THEOREM Invariance == Spec => []IInv
  <1> QED BY InitEstablishes, StepKeeps, PTL DEF Spec

(* What is remembered of a line fits in the 32 bits of its fields. *)
THEOREM TypeCorrectness == Spec => []TypeOK
  <1>1. IInv => TypeOK
    BY DEF IInv
  <1> QED BY <1>1, Invariance, PTL

-----------------------------------------------------------------------------
(* Copies at their places follow each other on the tracks, and those of    *)
(* two sides are apart: a side has 315 blocks, and so many are between two *)
(* starts.                                                                 *)
LEMMA PlacesKeepSidesApart == ASSUME IInv PROVE SidesAreApart
  <1>1. TracksAreContiguous
    BY DEF IInv, CopiesAreAtTheirPlaces, IsAtItsPlace, TracksAreContiguous
  <1>2. AreSidesApart
    <2> SUFFICES ASSUME NEW i \in DOMAIN image, NEW j \in DOMAIN image,
                        IsOnItsSide(image[i]), IsOnItsSide(image[j]),
                        SideOf(Rw18Place(image[i].line)) # SideOf(Rw18Place(image[j].line))
                 PROVE  AreApart(image[i], image[j])
      BY DEF AreSidesApart
    <2> DEFINE c == image[i]
               d == image[j]
               p == Rw18Place(c.line)
               q == Rw18Place(d.line)
               start1 == StartBlock(SideOf(p))
               start2 == StartBlock(SideOf(q))
               offset1 == SideOffset(p)
               offset2 == SideOffset(q)
    <2>1. c \in Copies /\ d \in Copies
      <3>1. image \in Seq(Copies)
        BY DEF IInv, TypeOK, Copies
      <3>2. i \in 1 .. Len(image) /\ j \in 1 .. Len(image)
        BY <3>1, LenProperties
      <3> QED BY <3>1, <3>2, ElementOfSeq
    <2>2. c.length \in Nat /\ d.length \in Nat
      BY <2>1, CopyFacts
    <2>3. /\ IsRw18Place(p) /\ c.at = start1 * 512 + offset1
          /\ IsRw18Place(q) /\ d.at = start2 * 512 + offset2
      BY DEF IInv, CopiesAreAtTheirPlaces, IsAtItsPlace, IsOnItsSide
    <2>4. /\ start1 \in {16, 332, 647} /\ start2 \in {16, 332, 647}
          /\ start1 # start2
      BY <2>3, SMT DEF IsRw18Place, StartBlock, Sides
    <2>5. offset1 \in Nat /\ offset2 \in Nat
      <3>1. p.track \in Nat /\ p.offset \in Nat /\ q.track \in Nat /\ q.offset \in Nat
        <4>1. c.line \in Lines /\ d.line \in Lines
          BY <2>1, CopyFacts
        <4> QED BY <4>1, PlaceFacts
      <3> HIDE DEF p, q
      <3> QED BY <3>1, SMT DEF SideOffset
    <2>6. /\ offset1 + c.length <= 35 * (18 * 256)
          /\ offset2 + d.length <= 35 * (18 * 256)
      BY DEF IsOnItsSide
    <2> HIDE DEF c, d, start1, start2, offset1, offset2
    <2>7. c.at + c.length <= d.at \/ d.at + d.length <= c.at
      BY <2>2, <2>3, <2>4, <2>5, <2>6, SMT
    <2> QED BY <2>7 DEF AreApart, c, d
  <1> QED BY <1>1, <1>2 DEF SidesAreApart

(* Where * goes on: a block at a multiple of its size is remembered whole, *)
(* though the sum was taken modulo Word.                                   *)
LEMMA StarGoesOn ==
    ASSUME IInv, line.op = "block", outcome = "placed",
           NEW at, at = Last(image).at, at % 512 = 0
    PROVE  LastOffset = at + lastLength
  <1>0. lastBlock \in Nat /\ lastLength \in Nat
    BY FieldIsNat DEF IInv, TypeOK
  <1> PICK intra \in Nat : intra < 512 /\ at = (lastBlock * 512 + intra) % Word
    BY FieldIsNat DEF IInv, LastIsRemembered
  <1> DEFINE sum == lastBlock * 512 + intra
             k == sum \div Word
             wk == Word * k
  <1>1. sum \in Nat /\ Word \in Nat /\ Word > 0
    BY <1>0, WordFacts, SMT
  <1>2. k \in Nat /\ at \in Nat /\ sum = wk + at
    <2> HIDE DEF sum
    <2> QED BY <1>1, Quotient DEF sum
  <1>3. PICK v \in Nat : Word = 512 * v
    <2>1. Word \div 512 \in Nat /\ Word = 512 * (Word \div 512)
      BY WordFacts, SMT
    <2> QED BY <2>1
  <1> DEFINE m == v * k
  <1> HIDE DEF sum, k
  <1>4. wk \in Nat /\ m \in Nat /\ wk = 512 * m
    BY <1>2, <1>3, SMT
  <1> HIDE DEF wk, m
  <1>5. PICK n \in Nat : at = 512 * n
    <2>1. at \div 512 \in Nat /\ at = 512 * (at \div 512)
      BY <1>2, SMT
    <2> QED BY <2>1
  <1>6. intra = 0 /\ lastBlock * 512 = wk + at
    <2>1. (lastBlock * 512) + intra = (m * 512) + (n * 512) /\ wk + at = (m * 512) + (n * 512)
      BY <1>2, <1>4, <1>5, SMT DEF sum
    <2>2. CASE lastBlock < m + n
      <3>1. lastBlock + 1 <= m + n
        BY <1>0, <1>4, <2>2, SMT
      <3> QED BY <1>0, <1>4, <2>1, <3>1, SMT
    <2>3. CASE lastBlock > m + n
      <3>1. lastBlock >= m + n + 1
        BY <1>0, <1>4, <2>3, SMT
      <3> QED BY <1>0, <1>4, <2>1, <3>1, SMT
    <2>4. CASE lastBlock = m + n
      BY <1>4, <2>1, <2>4, SMT
    <2> QED BY <1>0, <1>4, <2>2, <2>3, <2>4, SMT
  <1> DEFINE end == at + lastLength
  <1>7. end \in Nat /\ end < Word
    <2>1. at + lastLength <= ImageSize
      BY DEF IInv, LastIsRemembered
    <2> QED BY <1>0, <1>2, <2>1, WordFacts, SMT
  <1>8. lastBlock * 512 + lastLength = (Word * k) + end
    BY <1>0, <1>2, <1>4, <1>6, SMT DEF wk
  <1> HIDE DEF end
  <1>9. ((Word * k) + end) % Word = end
    BY <1>1, <1>2, <1>7, RemainderOfSum
  <1> QED BY <1>8, <1>9 DEF LastOffset, end

LEMMA StarStep ==
    ASSUME IInv, IInv', Next, IsContinued, Last(image).at % BlockSize = 0
    PROVE  Last(image').at = EndOf(Last(image))
  <1>1. /\ line.op = "block" /\ outcome = "placed"
        /\ line'.op = "block" /\ line'.block = Star /\ outcome' = "placed"
        /\ image' # image
    BY DEF IsContinued
  <1>2. PICK l \in Lines : BlockLine(l)
    <2>1. ~WriteImage
      BY <1>1 DEF WriteImage
    <2>2. ASSUME NEW l \in Lines,
                 Comment(l) \/ OtherLine(l) \/ RWTS16Line(l) \/ RWTS16CPLine(l)
                     \/ UnreadableObject(l) \/ Rw18Invalid(l)
          PROVE  FALSE
      BY <1>1, <2>2, Zenon DEF Comment, OtherLine, RWTS16Line, RWTS16CPLine, UnreadableObject,
                     Rw18Invalid, Report
    <2>3. ASSUME NEW l \in Lines, Rw18Line(l) PROVE FALSE
      BY <1>1, <2>3 DEF Rw18Line, Process
    <2> QED BY <2>1, <2>2, <2>3 DEF Next
  <1> DEFINE ins == BlockInsert(l)
             copy == Copy(ins, l)
             last == Last(image)
  <1>3. l.block = Star
    BY <1>1, <1>2 DEF BlockLine, Process
  <1>4. ins.block = LastOffset \div 512 /\ ins.intra = LastOffset % 512
    BY <1>3 DEF BlockInsert, OrDefault
  <1>5. Last(image') = copy
    <2>1. ins \in [from : Field, length : Field, block : Field, intra : Field]
      BY BlockInsertType DEF IInv
    <2>2. /\ ins.from \in Field /\ ins.length \in Field
          /\ ins.block \in Nat /\ ins.intra \in Nat
      BY <2>1, FieldIsNat
    <2>3. InsertObjectFile(ins, l)
      BY <1>2 DEF BlockLine
    <2> HIDE DEF ins
    <2>4. copy \in Copies /\ image' = Append(image, copy)
      BY <1>1, <2>2, <2>3, Insertion DEF IInv
    <2>5. image \in Seq(Copies)
      BY DEF IInv, TypeOK, Copies
    <2> QED BY <2>4, <2>5, Appended
  <1>6. copy.at = Offset(ins)
    BY DEF Copy
  <1>7. last.length = lastLength
    BY <1>1 DEF IInv, LastIsRemembered
  <1>8. lastBlock \in Nat /\ lastLength \in Nat
    BY FieldIsNat DEF IInv, TypeOK
  <1>10. LastOffset = last.at + lastLength
    BY <1>1, StarGoesOn
  <1>11. Offset(ins) = LastOffset
    <2> DEFINE x == LastOffset
    <2>1. x \in Field
      <3>1. lastBlock * 512 + lastLength \in Nat
        BY <1>8, SMT
      <3> QED BY <3>1, RemainderIsField DEF LastOffset
    <2> HIDE DEF x
    <2>2. x \in Nat /\ x < Word
      BY <2>1, WordFacts, SMT DEF Field
    <2>2a. ((x \div 512) * 512) + (x % 512) = x
      BY <2>2, SMT
    <2>3. x % Word = x
      BY <2>2, WordFacts, SmallRemainder
    <2>4. Offset(ins) = (((x \div 512) * 512) + (x % 512)) % Word
      BY <1>4 DEF Offset, x
    <2> QED BY <2>2a, <2>3, <2>4 DEF x
  <1> HIDE DEF ins, copy
  <1> QED BY <1>5, <1>6, <1>7, <1>10, <1>11 DEF EndOf

(* What leaves the buffers passed a comparison with a sum that wrapped.    *)
LEMMA EscapeWraps ==
    ASSUME NEW l \in Lines, NEW ins,
           ins.from \in Nat, ins.length \in Nat, ins.block \in Nat, ins.intra \in Nat,
           InsertObjectFile(ins, l), outcome' = "crashed"
    PROVE  Wraps(ins)
  <1> SUFFICES ASSUME ~Wraps(ins) PROVE FALSE
    OBVIOUS
  <1> DEFINE from == ins.from + ins.length
             start == ins.block * 512 + ins.intra
             buffer == BufferSize(l.object)
  <1>1. /\ IsSourceValid(ins, l.object) /\ IsInImage(ins) /\ IsOutOfBounds(ins, l.object)
    BY DEF InsertObjectFile, InsertBlockData, Report
  <1>2. /\ from % Word <= buffer
        /\ ((start % Word) + ins.length) % Word <= ImageSize
        /\ from > buffer \/ (start % Word) + ins.length > ImageSize
    BY <1>1 DEF IsSourceValid, IsInImage, IsOutOfBounds, Offset
  <1>3. from \in Nat /\ start \in Nat /\ ~(from >= Word) /\ ~(start + ins.length >= Word)
    BY SMT DEF Wraps
  <1>4. buffer \in Int
    <2>1. l.object.length + 511 \in Nat
      <3>1. l.object.length \in Nat
        BY LineFacts, FieldIsNat
      <3> QED BY <3>1, SMT
    <2>2. (l.object.length + 512 - 1) % Word \in Int
      BY <2>1, WordFacts, SMT
    <2> DEFINE x == (l.object.length + 512 - 1) % Word
    <2>3. buffer = (x \div 512) * 512
      BY DEF BufferSize
    <2> HIDE DEF x, buffer
    <2> QED BY <2>2, <2>3, SMT DEF x
  <1> DEFINE length == ins.length
  <1> HIDE DEF from, start, buffer, length
  <1>5. from % Word = from /\ start % Word = start
    <2>1. from < Word /\ start < Word
      BY <1>3, WordFacts, SMT DEF length
    <2> QED BY <1>3, <2>1, WordFacts, SmallRemainder
  <1>6. (start + length) % Word = start + length
    <2> DEFINE end == start + length
    <2>1. end \in Nat /\ end < Word
      BY <1>3, WordFacts, SMT DEF length
    <2> HIDE DEF end
    <2> QED BY <2>1, WordFacts, SmallRemainder DEF end
  <1>7. /\ from <= buffer /\ start + length <= ImageSize
        /\ from > buffer \/ start + length > ImageSize
    BY <1>2, <1>5, <1>6 DEF length
  <1> QED BY <1>3, <1>4, <1>7, SMT DEF length

LEMMA CrashStep ==
    ASSUME IInv, [Next]_vars, outcome' = "crashed"
    PROVE  \/ outcome = "crashed" /\ UNCHANGED vars
           \/ Wraps(IF line'.op = "block" THEN BlockInsert(line') ELSE Rw18Insert(line'))
  <1>1. CASE UNCHANGED vars
    BY <1>1 DEF vars
  <1>2. CASE WriteImage
    BY <1>2 DEF WriteImage
  <1>3. ASSUME NEW l \in Lines,
               Comment(l) \/ OtherLine(l) \/ RWTS16Line(l) \/ RWTS16CPLine(l)
                   \/ UnreadableObject(l) \/ Rw18Invalid(l)
        PROVE  FALSE
    BY <1>3, Zenon DEF Comment, OtherLine, RWTS16Line, RWTS16CPLine, UnreadableObject,
                Rw18Invalid, Report
  <1>4. ASSUME NEW l \in Lines, BlockLine(l)
        PROVE  line'.op = "block" /\ Wraps(BlockInsert(line'))
    <2> DEFINE ins == BlockInsert(l)
    <2>1. line' = l /\ l.op = "block" /\ InsertObjectFile(ins, l)
      BY <1>4 DEF BlockLine, Process
    <2>2. ins \in [from : Field, length : Field, block : Field, intra : Field]
      BY BlockInsertType DEF IInv
    <2>3. ins.from \in Nat /\ ins.length \in Nat /\ ins.block \in Nat /\ ins.intra \in Nat
      BY <2>2, FieldIsNat
    <2>4. Wraps(ins)
      <3> HIDE DEF ins
      <3> QED BY <2>1, <2>3, EscapeWraps
    <2>5. BlockInsert(line') = ins
      BY <2>1
    <2> QED BY <2>1, <2>4, <2>5
  <1>5. ASSUME NEW l \in Lines, Rw18Line(l)
        PROVE  line'.op # "block" /\ Wraps(Rw18Insert(line'))
    <2> DEFINE ins == Rw18Insert(l)
               p == Rw18Place(l)
    <2>1. line' = l /\ l.op = "rw18" /\ InsertObjectFile(ins, l)
      BY <1>5 DEF Rw18Line, Process
    <2>2. ins.from \in Field /\ ins.length \in Field /\ ins.block \in Nat /\ ins.intra \in Nat
      <3>1. IsRw18Place(p) /\ (l.table # NoTable => IsTable(l.object))
        BY <1>5 DEF Rw18Line
      <3> QED BY <3>1, Rw18InsertFacts
    <2>3. ins.from \in Nat /\ ins.length \in Nat /\ ins.block \in Nat /\ ins.intra \in Nat
      BY <2>2, FieldIsNat
    <2>4. Wraps(ins)
      <3> HIDE DEF ins
      <3> QED BY <2>1, <2>3, EscapeWraps
    <2> QED BY <2>1, <2>4
  <1> QED BY <1>1, <1>2, <1>3, <1>4, <1>5 DEF Next

-----------------------------------------------------------------------------
(* Tracks are laid out one behind the other on their sides, and what is    *)
(* inserted within a side never reaches another, for scripts of any length *)
(* and objects of any size.                                                *)
THEOREM SidesStayApart == Spec => []SidesAreApart
  <1> QED BY Invariance, PlacesKeepSidesApart, PTL

(* A line with * goes on where the line before it ended, if that began     *)
(* with a block, whatever sums wrapped on the way.                         *)
THEOREM StarContinuesWholeBlocks == Spec => StarContinuesABlock
  <1>1. ASSUME IInv, IInv', [Next]_vars
        PROVE  [IsContinued /\ Last(image).at % BlockSize = 0
                    => Last(image').at = EndOf(Last(image))]_vars
    BY <1>1, StarStep
  <1> QED BY <1>1, Invariance, PTL DEF Spec, StarContinuesABlock

(* The copy leaves its buffers only when a sum of 32 bits wrapped.         *)
THEOREM EscapesAreWrapped == Spec => OnlyWrappedSumsEscape
  <1>1. ASSUME IInv, [Next]_vars
        PROVE  [outcome' = "crashed" =>
                   Wraps(IF line'.op = "block" THEN BlockInsert(line')
                         ELSE Rw18Insert(line'))]_vars
    BY <1>1, CrashStep
  <1> QED BY <1>1, Invariance, PTL DEF Spec, OnlyWrappedSumsEscape

-----------------------------------------------------------------------------
(***************************************************************************)
(* The contents of a nibble image: no intact RW18 track holds a sector.    *)
(***************************************************************************)
CONSTANTS Tracks, Sectors, SectorSize, TrackSize, NoSide, NoSector, Protected

VARIABLES sectors, sides, bytes, worn, todo

Disk == INSTANCE DiskContents

(* The invariant is inductive once the functions' domains are known. *)
DiskShape ==
    /\ sectors = [p \in 0 .. Tracks * Sectors - 1 |-> sectors[p]]
    /\ sides = [t \in 0 .. Tracks - 1 |-> sides[t]]

DiskInv == DiskShape /\ Disk!OneFormatPerTrack

(* Every sector is on a track of the disk. *)
LEMMA TrackOfSector ==
    ASSUME Tracks \in Nat, Sectors \in Nat \ {0},
           NEW p \in 0 .. Tracks * Sectors - 1
    PROVE  p \div Sectors \in 0 .. Tracks - 1
  <1> DEFINE q == p \div Sectors
  <1>1. q \in Nat /\ Sectors * q <= p
    BY SMT
  <1>2. Sectors * q < Sectors * Tracks
    BY <1>1, SMT
  <1>3. q < Tracks
    BY <1>1, <1>2, SMT
  <1> QED BY <1>1, <1>3, SMT

(* A sector put on a track wears the track, and other tracks stay.         *)
LEMMA WearKeepsFormats ==
    ASSUME Tracks \in Nat, Sectors \in Nat \ {0}, DiskInv,
           NEW at \in 0 .. Tracks * Sectors - 1, NEW content,
           sectors' = [sectors EXCEPT ![at] = content],
           Disk!Wear(at \div Sectors)
    PROVE  DiskInv'
  <1> DEFINE track == at \div Sectors
  <1>1. track \in 0 .. Tracks - 1
    BY TrackOfSector
  <1>2. /\ \/ sides' = sides
           \/ sides' = [sides EXCEPT ![track] = NoSide]
        /\ worn' = {t \in worn \cup {track} : sides'[t] # NoSide}
    BY DEF Disk!Wear
  <1> HIDE DEF track
  <1>3. DiskShape'
    BY <1>1, <1>2 DEF DiskInv, DiskShape
  <1>4. ASSUME NEW t \in 0 .. Tracks - 1, sides[t] = NoSide
        PROVE  sides'[t] = NoSide
    BY <1>1, <1>2, <1>4 DEF DiskInv, DiskShape
  <1>5. ASSUME NEW p \in 0 .. Tracks * Sectors - 1
        PROVE  \/ sectors'[p] = NoSector
               \/ sides'[p \div Sectors] = NoSide
               \/ p \div Sectors \in worn'
    <2>1. p \div Sectors \in 0 .. Tracks - 1
      BY TrackOfSector
    <2>2. CASE p = at
      BY <1>2, <2>2 DEF track
    <2>3. CASE p # at
      <3>1. sectors'[p] = sectors[p]
        BY <2>3 DEF DiskInv, DiskShape
      <3>2. \/ sectors[p] = NoSector
            \/ sides[p \div Sectors] = NoSide
            \/ p \div Sectors \in worn
        BY DEF DiskInv, Disk!OneFormatPerTrack
      <3> QED BY <1>2, <1>4, <2>1, <3>1, <3>2
    <2> QED BY <2>2, <2>3
  <1> QED BY <1>3, <1>5 DEF DiskInv, Disk!OneFormatPerTrack

(* An RW18 track leaves no sector of its track, and its neighbours are     *)
(* what they were.                                                         *)
LEMMA PutTrackKeepsFormats ==
    ASSUME Tracks \in Nat, Sectors \in Nat \ {0}, DiskInv, Disk!PutTrack
    PROVE  DiskInv'
  <1> DEFINE track == todo.at \div TrackSize
  <1>1. /\ sides' = [sides EXCEPT ![track] = todo.side]
        /\ worn' = worn \ {track}
        /\ sectors' = [p \in DOMAIN sectors |->
                          IF p \div Sectors = track THEN NoSector ELSE sectors[p]]
    BY DEF Disk!PutTrack
  <1> HIDE DEF track
  <1>2. DOMAIN sectors = 0 .. Tracks * Sectors - 1
    BY DEF DiskInv, DiskShape
  <1>3. DiskShape'
    BY <1>1, <1>2 DEF DiskInv, DiskShape
  <1>4. ASSUME NEW p \in 0 .. Tracks * Sectors - 1
        PROVE  \/ sectors'[p] = NoSector
               \/ sides'[p \div Sectors] = NoSide
               \/ p \div Sectors \in worn'
    <2>1. p \div Sectors \in 0 .. Tracks - 1
      BY TrackOfSector
    <2>2. CASE p \div Sectors = track
      BY <1>1, <1>2, <2>2
    <2>3. CASE p \div Sectors # track
      <3>1. sectors'[p] = sectors[p]
        BY <1>1, <1>2, <2>3
      <3>2. sides'[p \div Sectors] = sides[p \div Sectors]
        BY <1>1, <2>1, <2>3 DEF DiskInv, DiskShape
      <3>3. \/ sectors[p] = NoSector
            \/ sides[p \div Sectors] = NoSide
            \/ p \div Sectors \in worn
        BY DEF DiskInv, Disk!OneFormatPerTrack
      <3> QED BY <1>1, <2>3, <3>1, <3>2, <3>3
    <2> QED BY <2>2, <2>3
  <1> QED BY <1>3, <1>4 DEF DiskInv, Disk!OneFormatPerTrack

(* Whatever was inserted, and in whatever order, a track that reads as     *)
(* RW18 with its checksums right holds no sector                           *)
(* (writeRWTS16Sector and writeRW18Track of NibbleDiskImage.c).            *)
THEOREM FormatsStayApart ==
    ASSUME Tracks \in Nat, Sectors \in Nat \ {0}
    PROVE  Disk!Spec => []Disk!OneFormatPerTrack
  <1>1. Disk!Init => DiskInv
    BY DEF Disk!Init, DiskInv, DiskShape, Disk!OneFormatPerTrack
  <1>2. DiskInv /\ [Disk!Next]_Disk!vars => DiskInv'
    <2> SUFFICES ASSUME DiskInv, [Disk!Next]_Disk!vars PROVE DiskInv'
      OBVIOUS
    <2>1. CASE Disk!Begin
      BY <2>1 DEF Disk!Begin, DiskInv, DiskShape, Disk!OneFormatPerTrack
    <2>2. CASE Disk!PutSector
      <3>1. todo.at \in 0 .. Tracks * Sectors - 1
        BY <2>2 DEF Disk!PutSector, Disk!IsSector
      <3> QED BY <2>2, <3>1, WearKeepsFormats DEF Disk!PutSector
    <2>3. CASE Disk!PutProtected
      <3>1. todo.at \in 0 .. Tracks * Sectors - 1
        BY <2>3 DEF Disk!PutProtected, Disk!IsSector
      <3> QED BY <2>3, <3>1, WearKeepsFormats DEF Disk!PutProtected
    <2>4. CASE Disk!PutTrack
      BY <2>4, PutTrackKeepsFormats
    <2>5. CASE Disk!Stop
      BY <2>5 DEF Disk!Stop, DiskInv, DiskShape, Disk!OneFormatPerTrack
    <2>6. CASE UNCHANGED Disk!vars
      BY <2>6 DEF Disk!vars, DiskInv, DiskShape, Disk!OneFormatPerTrack
    <2> QED BY <2>1, <2>2, <2>3, <2>4, <2>5, <2>6 DEF Disk!Next
  <1>3. DiskInv => Disk!OneFormatPerTrack
    BY DEF DiskInv
  <1> QED BY <1>1, <1>2, <1>3, PTL DEF Disk!Spec
=============================================================================
