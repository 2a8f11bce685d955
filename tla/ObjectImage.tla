---------------------------- MODULE ObjectImage ----------------------------
(***************************************************************************)
(* How snap places machine code in its object and dummy buffers and saves  *)
(* parts of the object buffer to files (libsnap/src/BinaryBuffer.c and the *)
(* ORG, DUM, DEND, DS, DB, SAV and USR handlers of Assembler.c).           *)
(*                                                                         *)
(* The program counter says at which address a byte is meant to run, the   *)
(* buffer's pCurrent says where the byte is kept.  ORG restarts the image: *)
(* baseAddress and pBase tie an address to a place in the buffer.  DUM     *)
(* leads the code to a buffer that is never saved, until DEND.  SAV and    *)
(* USR queue what the object buffer holds since pBase; the queue is        *)
(* written by the second pass, if no error was reported.                   *)
(***************************************************************************)
EXTENDS Integers, SequencesExt

CONSTANTS
    BufferSize, \* SIZE_OF_OBJECT_AND_DUMMY_BUFFERS
    LineSizes,  \* the machine code sizes of the source lines
    Addresses,  \* operands of ORG and DUM
    MaxLines    \* bound: the number of source lines

(* The values of a 16-bit word. *)
Word == {n \in Nat : n < 65536}

ASSUME SizesAssumption ==
    /\ BufferSize \in Nat
    /\ LineSizes \subseteq Word
    /\ Addresses \subseteq Word
    /\ MaxLines \in Nat

VARIABLES
    lines,       \* each line's machine code: its buffer, place and address
    object,      \* the object buffer
    dummy,       \* the dummy buffer
    inDUM,       \* pCurrentBuffer is the dummy buffer
    pc,          \* programCounter
    pcBeforeDUM, \* programCounterBeforeDUM
    queue,       \* the files to be written, in order
    waiting,     \* directives whose operand is a symbol still to be defined
    label,       \* that symbol's value, or Undefined
    phase,       \* where the assembler is in the current line
    failed,      \* errorCount > 0
    results,     \* for each file tried so far, whether it was written
    repeated     \* history: a directive has been executed a second time

vars == <<lines, object, dummy, inDUM, pc, pcBeforeDUM, queue, waiting, label,
          phase, failed, results, repeated>>

Undefined == -1

DefaultOrigin == 32768

(* pCurrent and pBase as offsets into the buffer, and baseAddress. *)
Buffer == [current : Nat, base : Nat, origin : Word]

EmptyBuffer == [current |-> 0, base |-> 0, origin |-> 0]

CurrentBuffer == IF inDUM THEN dummy ELSE object

(* A LineInfo: where its machine code is, and the address it was given. *)
Line == [dum : BOOLEAN, at : Nat, size : Word, address : Word]

(* A FileWriteEntry: the buffer range it saves and the header in front.    *)
Entry == [kind : {"sav", "usr"}, base : Nat, length : Nat,
          address : Word, headerLength : Word]

-----------------------------------------------------------------------------
(***************************************************************************)
(* The directives.  One whose operand is still undefined is executed with  *)
(* the value 0, and a second time, in the middle of another line, when the *)
(* symbol is defined.                                                      *)
(***************************************************************************)
(* BinaryBuffer_SetOrigin *)
SetOrigin(buffer, v) == [buffer EXCEPT !.origin = v, !.base = buffer.current]

Org(v) ==
    /\ pc' = v
    /\ IF inDUM
       THEN dummy' = SetOrigin(dummy, v) /\ UNCHANGED object
       ELSE object' = SetOrigin(object, v) /\ UNCHANGED dummy
    /\ UNCHANGED <<inDUM, pcBeforeDUM, queue>>

(* Mutant: a DUM within DUM saves the program counter again. *)
DumSavesAgain(v) ==
    /\ pcBeforeDUM' = pc
    /\ pc' = v
    /\ inDUM' = TRUE
    /\ UNCHANGED <<object, dummy, queue>>

Dum(v) ==
    /\ pcBeforeDUM' = IF inDUM THEN pcBeforeDUM ELSE pc
    /\ pc' = v
    /\ inDUM' = TRUE
    /\ UNCHANGED <<object, dummy, queue>>

(* Mutant: the length counts from the start of the buffer.                 *)
QueueWriteFromStart(kind) ==
    /\ queue' = Append(queue,
           [kind |-> kind, base |-> object.base, length |-> object.current,
            address |-> object.origin,
            headerLength |-> object.current % 65536])
    /\ UNCHANGED <<object, dummy, inDUM, pc, pcBeforeDUM>>

(* queueWriteToFile: SAV's header holds the address, USR's does not; both  *)
(* hold the length as an unsigned short.                                   *)
QueueWrite(kind) ==
    /\ queue' = Append(queue,
           [kind |-> kind, base |-> object.base,
            length |-> object.current - object.base,
            address |-> object.origin,
            headerLength |-> (object.current - object.base) % 65536])
    /\ UNCHANGED <<object, dummy, inDUM, pc, pcBeforeDUM>>

Execute(directive, v) ==
    \/ directive = "org" /\ Org(v)
    \/ directive = "dum" /\ Dum(v)
    \/ directive = "usr" /\ QueueWrite("usr")

-----------------------------------------------------------------------------
NewLine(size) ==
    [dum |-> inDUM, at |-> CurrentBuffer.current, size |-> size, address |-> pc]

(* Every line starts with a LineInfo at the program counter. *)
StartLine(size) ==
    /\ phase = "read"
    /\ Len(lines) < MaxLines
    /\ lines' = Append(lines, NewLine(size))
    /\ phase' = "line"
    /\ UNCHANGED <<label, results>>

(* Mutant: an allocation that does not fit is cut to the buffer's end. *)
AlwaysFits(size) == TRUE

(* BinaryBuffer_Alloc throws when the buffer has not enough bytes left. *)
Fits(size) == size <= BufferSize - CurrentBuffer.current

Alloc(buffer, size) == [buffer EXCEPT !.current = @ + size]

(* An instruction, DS or data line.  A data line grows byte by byte with   *)
(* BinaryBuffer_Realloc, each time from the start of its last allocation.  *)
EmitCode(size) ==
    /\ Fits(size)
    /\ StartLine(size)
    /\ IF inDUM
       THEN dummy' = Alloc(dummy, size) /\ UNCHANGED object
       ELSE object' = Alloc(object, size) /\ UNCHANGED dummy
    /\ UNCHANGED <<inDUM, pc, pcBeforeDUM, queue, waiting, failed, repeated>>

(* No room, or an operand in error: a data line gives its bytes back.      *)
FailLine ==
    /\ StartLine(0)
    /\ failed' = TRUE
    /\ UNCHANGED <<object, dummy, inDUM, pc, pcBeforeDUM, queue, waiting,
                   repeated>>

(* ORG, DUM or USR whose operand can be evaluated. *)
KnownDirective(directive, v) ==
    /\ StartLine(0)
    /\ Execute(directive, v)
    /\ UNCHANGED <<waiting, failed, repeated>>

(* ORG, DUM or USR of the symbol that a later line defines. *)
ForwardDirective(directive) ==
    /\ label = Undefined
    /\ StartLine(0)
    /\ Execute(directive, 0)
    /\ waiting' = <<directive>> \o waiting
    /\ UNCHANGED <<failed, repeated>>

(* handleSAV *)
Sav ==
    /\ StartLine(0)
    /\ QueueWrite("sav")
    /\ UNCHANGED <<waiting, failed, repeated>>

(* handleDEND: an error without a DUM before it. *)
HandleDEND ==
    IF inDUM
    THEN /\ pc' = pcBeforeDUM
         /\ inDUM' = FALSE
         /\ UNCHANGED failed
    ELSE /\ failed' = TRUE
         /\ UNCHANGED <<pc, inDUM>>

Dend ==
    /\ StartLine(0)
    /\ HandleDEND
    /\ UNCHANGED <<object, dummy, pcBeforeDUM, queue, waiting, repeated>>

(* The line defines the symbol, as the program counter it started with.    *)
DefineLabel ==
    /\ phase = "line"
    /\ label = Undefined
    /\ label' = Last(lines).address
    /\ phase' = "update"
    /\ UNCHANGED <<lines, object, dummy, inDUM, pc, pcBeforeDUM, queue,
                   waiting, failed, results, repeated>>

(* updateLineWithForwardReference, the line that came last first. *)
RepeatDirective ==
    /\ phase = "update"
    /\ waiting # <<>>
    /\ Execute(Head(waiting), label)
    /\ waiting' = Tail(waiting)
    /\ repeated' = TRUE
    /\ UNCHANGED <<lines, label, phase, failed, results>>

NextProgramCounter(size) == (pc + size) % 65536

FinishLine ==
    /\ phase = "line" \/ (phase = "update" /\ waiting = <<>>)
    /\ pc' = NextProgramCounter(Last(lines).size)
    /\ phase' = "read"
    /\ UNCHANGED <<lines, object, dummy, inDUM, pcBeforeDUM, queue, waiting,
                   label, failed, results, repeated>>

(* A symbol that is still undefined is an error, and any error keeps the   *)
(* second pass from writing.                                               *)
EndOfSource ==
    /\ phase = "read"
    /\ failed' = (failed \/ waiting # <<>>)
    /\ phase' = IF failed' THEN "done" ELSE "write"
    /\ UNCHANGED <<lines, object, dummy, inDUM, pc, pcBeforeDUM, queue,
                   waiting, label, results, repeated>>

(* BinaryBuffer_ProcessWriteFileQueue tries the next file; fopen or fwrite *)
(* may fail, and the files behind it are tried all the same.               *)
WriteFile(written) ==
    /\ phase = "write"
    /\ Len(results) < Len(queue)
    /\ results' = Append(results, written)
    /\ UNCHANGED <<lines, object, dummy, inDUM, pc, pcBeforeDUM, queue,
                   waiting, label, phase, failed, repeated>>

(* Mutant: the outcome of the last file is the one reported. *)
LastWriteFailed == results # <<>> /\ ~Last(results)

SomeWriteFailed == FALSE \in Range(results)

(* The end of the second pass reports a failure of any file. *)
FinishWriting ==
    /\ phase = "write"
    /\ Len(results) = Len(queue)
    /\ failed' = SomeWriteFailed
    /\ phase' = "done"
    /\ UNCHANGED <<lines, object, dummy, inDUM, pc, pcBeforeDUM, queue,
                   waiting, label, results, repeated>>

Init ==
    /\ lines = <<>>
    /\ object = [EmptyBuffer EXCEPT !.origin = DefaultOrigin]
    /\ dummy = EmptyBuffer
    /\ inDUM = FALSE
    /\ pc = DefaultOrigin
    /\ pcBeforeDUM = 0
    /\ queue = <<>>
    /\ waiting = <<>>
    /\ label = Undefined
    /\ phase = "read"
    /\ failed = FALSE
    /\ results = <<>>
    /\ repeated = FALSE

Next ==
    \/ \E size \in LineSizes : EmitCode(size)
    \/ FailLine
    \/ \E directive \in {"org", "dum", "usr"}, v \in Addresses :
           KnownDirective(directive, v)
    \/ \E directive \in {"org", "dum", "usr"} : ForwardDirective(directive)
    \/ Sav
    \/ Dend
    \/ DefineLabel
    \/ RepeatDirective
    \/ FinishLine
    \/ EndOfSource
    \/ \E written \in BOOLEAN : WriteFile(written)
    \/ FinishWriting

Spec == Init /\ [][Next]_vars

-----------------------------------------------------------------------------
TypeOK ==
    /\ lines \in Seq(Line)
    /\ object \in Buffer /\ dummy \in Buffer
    /\ inDUM \in BOOLEAN
    /\ pc \in Word /\ pcBeforeDUM \in Word
    /\ queue \in Seq(Entry)
    /\ waiting \in Seq({"org", "dum", "usr"})
    /\ label \in Word \cup {Undefined}
    /\ phase \in {"read", "line", "update", "write", "done"}
    /\ failed \in BOOLEAN
    /\ results \in Seq(BOOLEAN)
    /\ repeated \in BOOLEAN

(***************************************************************************)
(* Safety.                                                                 *)
(***************************************************************************)
(* The lines' machine code fills each buffer without a gap or an overlap,  *)
(* in source order, however the sections alternate: no line's code is      *)
(* overwritten by another's, and none lies beyond the buffer's end.        *)
IsLaidOut(dum, buffer) ==
    /\ buffer.base <= buffer.current
    /\ buffer.current <= BufferSize
    /\ \A i \in DOMAIN lines : lines[i].dum = dum =>
           /\ lines[i].at + lines[i].size <= buffer.current
           /\ \A j \in DOMAIN lines : j > i /\ lines[j].dum = dum =>
                  lines[i].at + lines[i].size <= lines[j].at

CodeIsLaidOut == IsLaidOut(FALSE, object) /\ IsLaidOut(TRUE, dummy)

(* The address of an offset of the object buffer, for an origin at base.   *)
AddressOf(address, base, at) == (address + (at - base)) % 65536

(* A byte of a SAV file loads at the address its line was assembled for,   *)
(* whatever ORGs, DUM sections, failures and files came before, as long as *)
(* no directive had to be executed a second time.                          *)
IsSavedAtItsAddress(entry) ==
    \A i \in DOMAIN lines :
        /\ ~lines[i].dum
        /\ lines[i].size > 0
        /\ entry.base <= lines[i].at
        /\ lines[i].at < entry.base + entry.length
        => lines[i].address = AddressOf(entry.address, entry.base, lines[i].at)

SavedCodeLoadsAtItsAddress ==
    ~repeated => \A e \in DOMAIN queue : IsSavedAtItsAddress(queue[e])

(* A file never cuts a line in two, nor reaches beyond the code that was   *)
(* assembled when it was queued.                                           *)
FilesHoldWholeLines ==
    \A e \in DOMAIN queue :
        LET start == queue[e].base
            end   == queue[e].base + queue[e].length
        IN  /\ end <= object.current
            /\ \A i \in DOMAIN lines : ~lines[i].dum =>
                   \/ lines[i].at + lines[i].size <= start
                   \/ start <= lines[i].at /\ lines[i].at + lines[i].size <= end
                   \/ end <= lines[i].at

(* The run ends without an error only when every queued file was tried and *)
(* written; a failure does not hide behind a later success.                *)
SuccessMeansAllWritten ==
    phase = "done" /\ ~failed =>
        /\ Len(results) = Len(queue)
        /\ \A e \in DOMAIN results : results[e]

(***************************************************************************)
(* What the documentation promises and the code does not do.               *)
(***************************************************************************)
(* notes/snap.creole: ORG tells the assembler the target address.  An ORG  *)
(* or DUM of a forward reference takes effect again where its symbol is    *)
(* defined, and the code behind it is saved under a wrong address.         *)
ForwardOriginsHold ==
    phase = "write" => \A e \in DOMAIN queue : IsSavedAtItsAddress(queue[e])

(* notes/snap.creole: the header holds the length of the image.  The field *)
(* has 16 bits, and the buffer can hold one byte more than that counts.    *)
HeaderHoldsLength ==
    phase = "write" => \A e \in DOMAIN queue :
        queue[e].headerLength = queue[e].length
=============================================================================
