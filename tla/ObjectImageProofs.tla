------------------------- MODULE ObjectImageProofs -------------------------
(***************************************************************************)
(* Proofs about ObjectImage, for every buffer size, line size and origin:  *)
(* type correctness, the layout of the buffers, and that a saved byte      *)
(* loads at the address its line was assembled for.                        *)
(***************************************************************************)
EXTENDS ObjectImage, SequenceTheorems, TLAPS

USE SizesAssumption DEF Undefined

-----------------------------------------------------------------------------
(***************************************************************************)
(* The strengthening that is inductive.                                    *)
(***************************************************************************)
InLine == phase \in {"line", "update"}

(* The machine code that the program counter does not count yet.           *)
Pending == IF InLine THEN Last(lines).size ELSE 0

(* The program counter of the object buffer, which DUM sets aside.         *)
ObjectPC == IF inDUM THEN pcBeforeDUM ELSE (pc + Pending) % 65536

(* The origin ties the end of the object buffer to the program counter,    *)
(* and every line since the last ORG to its address.                       *)
OriginOK ==
    ~repeated =>
        /\ ObjectPC = AddressOf(object.origin, object.base, object.current)
        /\ \A i \in DOMAIN lines :
               ~lines[i].dum /\ lines[i].size > 0 /\ object.base <= lines[i].at
               => lines[i].address =
                      AddressOf(object.origin, object.base, lines[i].at)

(* An ORG falls between two lines. *)
BaseIsBetweenLines ==
    \A i \in DOMAIN lines : ~lines[i].dum =>
        \/ lines[i].at + lines[i].size <= object.base
        \/ object.base <= lines[i].at

PhaseOK ==
    /\ InLine => lines # <<>>
    /\ phase = "update" => label \in Word

IInv ==
    /\ TypeOK
    /\ PhaseOK
    /\ CodeIsLaidOut
    /\ BaseIsBetweenLines
    /\ FilesHoldWholeLines
    /\ OriginOK
    /\ SavedCodeLoadsAtItsAddress

-----------------------------------------------------------------------------
(***************************************************************************)
(* Arithmetic of 16-bit addresses.                                         *)
(***************************************************************************)
LEMMA ModIsWord == ASSUME NEW n \in Int PROVE n % 65536 \in Word
  BY DEF Word

LEMMA ModOfWord == ASSUME NEW n \in Word PROVE n % 65536 = n
  BY DEF Word

LEMMA ModOfSum ==
    ASSUME NEW a \in Int, NEW b \in Int
    PROVE  ((a % 65536) + b) % 65536 = (a + b) % 65536
  OBVIOUS

(* Where the code ends after `size' more bytes.                            *)
LEMMA AddressAdvances ==
    ASSUME NEW origin \in Int, NEW base \in Int, NEW at \in Int,
           NEW size \in Int
    PROVE  (AddressOf(origin, base, at) + size) % 65536
               = AddressOf(origin, base, at + size)
  <1>1. origin + (at - base) + size = origin + (at + size - base)
    OBVIOUS
  <1> QED
    BY <1>1, ModOfSum DEF AddressOf

-----------------------------------------------------------------------------
(***************************************************************************)
(* What a directive does, to whichever buffer is current.                  *)
(***************************************************************************)
(* A new entry of the queue covers the object buffer since the last ORG.   *)
QueueGrows ==
    \A e \in DOMAIN queue' :
        \/ e \in DOMAIN queue /\ queue'[e] = queue[e]
        \/ /\ queue'[e] \in Entry
           /\ queue'[e].base = object.base
           /\ queue'[e].base + queue'[e].length = object.current
           /\ queue'[e].address = object.origin

(* The object buffer's program counter moves only with an ORG of it.       *)
OriginStep ==
    \/ /\ object' = object
       /\ (IF inDUM' THEN pcBeforeDUM' ELSE pc')
              = (IF inDUM THEN pcBeforeDUM ELSE pc)
    \/ /\ object' = SetOrigin(object, pc')
       /\ ~inDUM'

(* What a line or a directive leaves of the layout.                        *)
PlacesAreKept ==
    /\ object' \in Buffer /\ dummy' \in Buffer
    /\ object'.current = object.current
    /\ dummy'.current = dummy.current
    /\ object'.base \in {object.base, object.current}
    /\ dummy'.base \in {dummy.base, dummy.current}

LEMMA QueueWriteEffect ==
    ASSUME TypeOK, CodeIsLaidOut, NEW kind \in {"sav", "usr"}, QueueWrite(kind)
    PROVE  queue' \in Seq(Entry) /\ QueueGrows
  <1> DEFINE n == object.current - object.base
             entry == [kind |-> kind, base |-> object.base, length |-> n,
                       address |-> object.origin, headerLength |-> n % 65536]
  <1>1. n \in Nat /\ n % 65536 \in Word /\ object.base + n = object.current
    BY ModIsWord DEF CodeIsLaidOut, IsLaidOut, TypeOK, Buffer
  <1>2. queue' = Append(queue, entry)
    BY DEF QueueWrite
  <1> HIDE DEF n
  <1>3. /\ entry \in Entry /\ entry.base = object.base
        /\ entry.base + entry.length = object.current
        /\ entry.address = object.origin
    BY <1>1 DEF TypeOK, Buffer, Entry
  <1>4. queue \in Seq(Entry)
    BY DEF TypeOK
  <1> HIDE DEF entry
  <1>5. /\ queue' \in Seq(Entry) /\ Len(queue') = Len(queue) + 1
        /\ \A e \in 1 .. Len(queue) : queue'[e] = queue[e]
        /\ queue'[Len(queue) + 1] = entry
    BY <1>2, <1>3, <1>4, AppendProperties
  <1>6. /\ Len(queue) \in Nat /\ DOMAIN queue = 1 .. Len(queue)
        /\ DOMAIN queue' = 1 .. Len(queue) + 1
    BY <1>4, <1>5
  <1>7. ASSUME NEW e \in DOMAIN queue'
        PROVE  \/ e \in DOMAIN queue /\ queue'[e] = queue[e]
               \/ queue'[e] = entry
    BY <1>5, <1>6
  <1> QED
    BY <1>3, <1>5, <1>7 DEF QueueGrows

LEMMA ExecuteEffect ==
    ASSUME TypeOK, CodeIsLaidOut, NEW directive, NEW v \in Word,
           Execute(directive, v)
    PROVE  /\ PlacesAreKept /\ OriginStep /\ QueueGrows
           /\ inDUM' \in BOOLEAN /\ pc' \in Word /\ pcBeforeDUM' \in Word
           /\ queue' \in Seq(Entry)
  <1>1. CASE directive = "org" /\ Org(v)
    BY <1>1 DEF Org, SetOrigin, TypeOK, Buffer, PlacesAreKept, OriginStep,
                QueueGrows
  <1>2. CASE directive = "dum" /\ Dum(v)
    BY <1>2 DEF Dum, TypeOK, Buffer, PlacesAreKept, OriginStep, QueueGrows
  <1>3. CASE QueueWrite("usr")
    <2>1. queue' \in Seq(Entry) /\ QueueGrows
      BY <1>3, QueueWriteEffect
    <2> QED
      BY <1>3, <2>1 DEF QueueWrite, TypeOK, PlacesAreKept, OriginStep
  <1> QED
    BY <1>1, <1>2, <1>3 DEF Execute

(* A line of the source: the ones before it are still there. *)
LEMMA AppendLine ==
    ASSUME TypeOK, NEW size \in Word, lines' = Append(lines, NewLine(size))
    PROVE  /\ lines' \in Seq(Line)
           /\ Len(lines) \in Nat /\ Len(lines') = Len(lines) + 1
           /\ DOMAIN lines = 1 .. Len(lines)
           /\ DOMAIN lines' = 1 .. Len(lines) + 1
           /\ \A i \in DOMAIN lines : lines[i] \in Line /\ lines'[i] = lines[i]
           /\ lines'[Len(lines) + 1] = NewLine(size)
           /\ Last(lines') = NewLine(size)
           /\ lines' # <<>>
  <1>1. NewLine(size) \in Line
    BY DEF NewLine, Line, CurrentBuffer, TypeOK, Buffer
  <1>2. lines \in Seq(Line)
    BY DEF TypeOK
  <1> HIDE DEF NewLine
  <1>3. /\ lines' \in Seq(Line)
        /\ Len(lines') = Len(lines) + 1
        /\ \A i \in 1 .. Len(lines) : lines'[i] = lines[i]
        /\ lines'[Len(lines) + 1] = NewLine(size)
    BY <1>1, <1>2, AppendProperties
  <1>4. Len(lines) \in Nat /\ DOMAIN lines = 1 .. Len(lines)
    BY <1>2
  <1>5. Last(lines') = NewLine(size)
    BY <1>3, <1>4 DEF Last
  <1>6. \A i \in DOMAIN lines : lines[i] \in Line
    BY <1>2, <1>4, ElementOfSeq
  <1>7. lines' # <<>>
    BY <1>3, <1>4
  <1>8. DOMAIN lines' = 1 .. Len(lines) + 1
    BY <1>3
  <1> QED
    BY <1>3, <1>4, <1>5, <1>6, <1>7, <1>8

(* IsLaidOut of any sequence of lines. *)
AreLaidOut(ls, dum, buffer) ==
    /\ buffer.base <= buffer.current
    /\ buffer.current <= BufferSize
    /\ \A i \in DOMAIN ls : ls[i].dum = dum =>
           /\ ls[i].at + ls[i].size <= buffer.current
           /\ \A j \in DOMAIN ls : j > i /\ ls[j].dum = dum =>
                  ls[i].at + ls[i].size <= ls[j].at

LEMMA CodeAreLaidOut ==
    /\ CodeIsLaidOut
           <=> AreLaidOut(lines, FALSE, object) /\ AreLaidOut(lines, TRUE, dummy)
    /\ CodeIsLaidOut'
           <=> AreLaidOut(lines', FALSE, object') /\ AreLaidOut(lines', TRUE, dummy')
  BY DEF CodeIsLaidOut, IsLaidOut, AreLaidOut

(* One buffer's layout after a line, whether or not it is the current one. *)
LEMMA LineIsLaidOut ==
    ASSUME TypeOK, NEW size \in Word, lines' = Append(lines, NewLine(size)),
           NEW dum \in BOOLEAN, NEW old \in Buffer, NEW new \in Buffer,
           AreLaidOut(lines, dum, old), new.base <= new.current,
           inDUM = dum => /\ old = CurrentBuffer
                          /\ size <= BufferSize - old.current
                          /\ new.current = old.current + size,
           inDUM # dum => new.current = old.current
    PROVE  AreLaidOut(lines', dum, new)
  <1>1. new.current >= old.current /\ new.current <= BufferSize
    <2>1. old.current \in Nat /\ size \in Nat /\ old.current <= BufferSize
      BY DEF Buffer, Word, AreLaidOut
    <2>2. CASE inDUM = dum
      BY <2>1, <2>2
    <2>3. CASE inDUM # dum
      BY <2>1, <2>3
    <2> QED
      BY <2>2, <2>3
  <1>2. ASSUME NEW i \in DOMAIN lines', lines'[i].dum = dum
        PROVE  lines'[i].at + lines'[i].size <= new.current
    <2>1. CASE i = Len(lines) + 1
      <3>1. lines'[i] = NewLine(size)
        BY <2>1, AppendLine
      <3>2. inDUM = dum /\ lines'[i].at = old.current /\ lines'[i].size = size
        BY <1>2, <3>1 DEF NewLine
      <3> QED
        BY <3>2 DEF Buffer, Word
    <2>2. CASE i # Len(lines) + 1
      <3>1. i \in DOMAIN lines /\ lines'[i] = lines[i] /\ lines[i] \in Line
        BY <2>2, AppendLine
      <3>2. lines[i].at + lines[i].size <= old.current
        BY <1>2, <3>1 DEF AreLaidOut
      <3> QED
        BY <1>1, <3>1, <3>2 DEF Line, Word, Buffer
    <2> QED
      BY <2>1, <2>2
  <1>3. ASSUME NEW i \in DOMAIN lines', lines'[i].dum = dum,
               NEW j \in DOMAIN lines', j > i, lines'[j].dum = dum
        PROVE  lines'[i].at + lines'[i].size <= lines'[j].at
    <2>1. i \in DOMAIN lines /\ lines'[i] = lines[i]
      BY <1>3, AppendLine
    <2>2. CASE j = Len(lines) + 1
      <3>1. lines'[j] = NewLine(size)
        BY <2>2, AppendLine
      <3>2. lines'[j].at = old.current
        BY <1>3, <3>1 DEF NewLine
      <3> QED
        BY <1>3, <2>1, <3>2 DEF AreLaidOut
    <2>3. CASE j # Len(lines) + 1
      <3>1. j \in DOMAIN lines /\ lines'[j] = lines[j]
        BY <2>3, AppendLine
      <3> QED
        BY <1>3, <2>1, <3>1 DEF AreLaidOut
    <2> QED
      BY <2>2, <2>3
  <1> QED
    BY <1>1, <1>2, <1>3 DEF AreLaidOut

(* Lines before the object buffer's end keep their place among the files   *)
(* and the origins; a new line comes behind them all.                      *)
LEMMA LineKeepsFiles ==
    ASSUME TypeOK, CodeIsLaidOut, FilesHoldWholeLines, BaseIsBetweenLines,
           OriginOK, SavedCodeLoadsAtItsAddress,
           NEW size \in Word,
           lines' = lines \/ lines' = Append(lines, NewLine(size)),
           QueueGrows, object'.current \in Nat, repeated => repeated',
           object'.current >= object.current,
           object'.base \in {object.base, object.current}
    PROVE  /\ FilesHoldWholeLines'
           /\ BaseIsBetweenLines'
           /\ SavedCodeLoadsAtItsAddress'
  <1>1. ASSUME NEW i \in DOMAIN lines', ~lines'[i].dum
        PROVE  \/ i \in DOMAIN lines /\ lines'[i] = lines[i] /\ lines[i] \in Line
               \/ lines'[i].at = object.current
    <2>1. CASE lines' = lines
      BY <2>1, ElementOfSeq DEF TypeOK
    <2>2. CASE lines' = Append(lines, NewLine(size)) /\ i = Len(lines) + 1
      BY <1>1, <2>2, AppendLine DEF NewLine, CurrentBuffer
    <2>3. CASE lines' = Append(lines, NewLine(size)) /\ i # Len(lines) + 1
      BY <2>3, AppendLine
    <2> QED
      BY <2>1, <2>2, <2>3
  <1>2. object.base \in Nat /\ object.current \in Nat /\ object.base <= object.current
    BY DEF TypeOK, Buffer, CodeIsLaidOut, IsLaidOut
  <1>3. \A e \in DOMAIN queue : queue[e] \in Entry
    BY ElementOfSeq DEF TypeOK
  <1>4. FilesHoldWholeLines'
    <2> SUFFICES ASSUME NEW e \in DOMAIN queue'
                 PROVE  LET start == queue'[e].base
                            end   == queue'[e].base + queue'[e].length
                        IN  /\ end <= object'.current
                            /\ \A i \in DOMAIN lines' : ~lines'[i].dum =>
                                  \/ lines'[i].at + lines'[i].size <= start
                                  \/ /\ start <= lines'[i].at
                                     /\ lines'[i].at + lines'[i].size <= end
                                  \/ end <= lines'[i].at
      BY DEF FilesHoldWholeLines
    <2>1. /\ queue'[e].base \in Nat /\ queue'[e].length \in Nat
          /\ queue'[e].base + queue'[e].length <= object.current
      BY <1>2, <1>3 DEF Entry, FilesHoldWholeLines, QueueGrows
    <2>2. ASSUME NEW i \in DOMAIN lines', ~lines'[i].dum
          PROVE  \/ lines'[i].at + lines'[i].size <= queue'[e].base
                 \/ /\ queue'[e].base <= lines'[i].at
                    /\ lines'[i].at + lines'[i].size
                           <= queue'[e].base + queue'[e].length
                 \/ queue'[e].base + queue'[e].length <= lines'[i].at
      <3>1. CASE i \in DOMAIN lines /\ lines'[i] = lines[i]
        <4>1. CASE e \in DOMAIN queue /\ queue'[e] = queue[e]
          BY <2>2, <3>1, <4>1 DEF FilesHoldWholeLines
        <4>2. CASE /\ queue'[e].base = object.base
                   /\ queue'[e].base + queue'[e].length = object.current
          <5>1. lines[i].at + lines[i].size <= object.current
            BY <2>2, <3>1 DEF CodeIsLaidOut, IsLaidOut
          <5> QED
            BY <2>2, <3>1, <4>2, <5>1 DEF BaseIsBetweenLines
        <4> QED
          BY <4>1, <4>2 DEF QueueGrows
      <3>2. CASE lines'[i].at = object.current
        BY <2>1, <3>2
      <3> QED
        BY <1>1, <2>2, <3>1, <3>2
    <2> QED
      BY <1>2, <2>1, <2>2
  <1>5. BaseIsBetweenLines'
    <2> SUFFICES ASSUME NEW i \in DOMAIN lines', ~lines'[i].dum
                 PROVE  \/ lines'[i].at + lines'[i].size <= object'.base
                        \/ object'.base <= lines'[i].at
      BY DEF BaseIsBetweenLines
    <2>1. CASE i \in DOMAIN lines /\ lines'[i] = lines[i]
      <3>1. lines[i].at + lines[i].size <= object.current
        BY <2>1 DEF CodeIsLaidOut, IsLaidOut
      <3> QED
        BY <2>1, <3>1 DEF BaseIsBetweenLines
    <2>2. CASE lines'[i].at = object.current
      BY <1>2, <2>2
    <2> QED
      BY <1>1, <2>1, <2>2
  <1>6. SavedCodeLoadsAtItsAddress'
    <2> SUFFICES ASSUME ~repeated, NEW e \in DOMAIN queue',
                        NEW i \in DOMAIN lines', ~lines'[i].dum,
                        lines'[i].size > 0, queue'[e].base <= lines'[i].at,
                        lines'[i].at < queue'[e].base + queue'[e].length
                 PROVE  lines'[i].address = AddressOf(queue'[e].address,
                                                queue'[e].base, lines'[i].at)
      BY DEF SavedCodeLoadsAtItsAddress, IsSavedAtItsAddress
    <2>1. queue'[e].base + queue'[e].length <= object.current
      BY <1>2 DEF FilesHoldWholeLines, QueueGrows
    <2>2. queue'[e].base + queue'[e].length \in Nat
      BY <1>3 DEF Entry, QueueGrows
    <2>3. i \in DOMAIN lines /\ lines'[i] = lines[i]
      BY <1>1, <1>2, <2>1, <2>2
    <2>4. CASE e \in DOMAIN queue /\ queue'[e] = queue[e]
      BY <2>3, <2>4 DEF SavedCodeLoadsAtItsAddress, IsSavedAtItsAddress
    <2>5. CASE queue'[e].base = object.base /\ queue'[e].address = object.origin
      BY <2>3, <2>5 DEF OriginOK
    <2> QED
      BY <2>4, <2>5 DEF QueueGrows
  <1> QED
    BY <1>4, <1>5, <1>6

-----------------------------------------------------------------------------
(***************************************************************************)
(* Each action keeps the invariant.                                        *)
(***************************************************************************)
LEMMA InitEstablishes == Init => IInv
  <1> SUFFICES ASSUME Init PROVE IInv
    OBVIOUS
  <1>1. DefaultOrigin \in Word /\ 0 \in Word /\ ~InLine
    BY DEF DefaultOrigin, Word, InLine, Init
  <1>2. TypeOK
    <2>1. object \in Buffer /\ dummy \in Buffer
      BY <1>1 DEF Init, EmptyBuffer, Buffer
    <2>2. /\ lines \in Seq(Line) /\ queue \in Seq(Entry)
          /\ waiting \in Seq({"org", "dum", "usr"}) /\ results \in Seq(BOOLEAN)
      BY DEF Init
    <2> QED
      BY <1>1, <2>1, <2>2 DEF Init, TypeOK
  <1>3. CodeIsLaidOut /\ BaseIsBetweenLines
    BY DEF Init, CodeIsLaidOut, IsLaidOut, BaseIsBetweenLines, EmptyBuffer
  <1>4. FilesHoldWholeLines /\ SavedCodeLoadsAtItsAddress
    BY DEF Init, FilesHoldWholeLines, SavedCodeLoadsAtItsAddress
  <1>5. OriginOK
    <2>1. ObjectPC = DefaultOrigin
      BY <1>1, ModOfWord DEF Init, ObjectPC, Pending, Word, DefaultOrigin
    <2>2. AddressOf(object.origin, object.base, object.current) = DefaultOrigin
      BY <1>1, ModOfWord DEF Init, EmptyBuffer, AddressOf, Word, DefaultOrigin
    <2> QED
      BY <2>1, <2>2 DEF Init, OriginOK
  <1> QED
    BY <1>1, <1>2, <1>3, <1>4, <1>5 DEF IInv, PhaseOK, Init

(* A line of machine code goes behind the current buffer's end. *)
LEMMA EmitCodeKeeps ==
    ASSUME IInv, NEW size \in LineSizes, EmitCode(size)
    PROVE  IInv'
  <1>1. /\ size \in Word /\ Fits(size)
        /\ phase = "read" /\ phase' = "line"
        /\ lines' = Append(lines, NewLine(size))
        /\ UNCHANGED <<inDUM, pc, pcBeforeDUM, queue, waiting, failed,
                       repeated, label, results>>
    BY DEF EmitCode, StartLine
  <1>2. object \in Buffer /\ dummy \in Buffer /\ size \in Nat /\ pc \in Word
    BY <1>1 DEF IInv, TypeOK, Word
  <1>3. /\ object' \in Buffer /\ dummy' \in Buffer
        /\ object'.base = object.base /\ dummy'.base = dummy.base
        /\ object'.origin = object.origin
        /\ object'.current = IF inDUM THEN object.current ELSE object.current + size
        /\ dummy'.current = IF inDUM THEN dummy.current + size ELSE dummy.current
    <2>1. \A b \in Buffer : /\ Alloc(b, size) \in Buffer
                            /\ Alloc(b, size).base = b.base
                            /\ Alloc(b, size).origin = b.origin
                            /\ Alloc(b, size).current = b.current + size
      BY <1>2 DEF Alloc, Buffer
    <2> QED
      BY <1>2, <2>1 DEF EmitCode
  <1>4. /\ object.base \in Nat /\ object.current \in Nat
        /\ dummy.base \in Nat /\ dummy.current \in Nat
        /\ object.base <= object.current /\ dummy.base <= dummy.current
    BY <1>2 DEF Buffer, IInv, CodeIsLaidOut, IsLaidOut
  <1>5. /\ lines' \in Seq(Line) /\ lines' # <<>>
        /\ Last(lines') = NewLine(size)
    BY <1>1, AppendLine DEF IInv
  <1>6. TypeOK' /\ PhaseOK'
    BY <1>1, <1>3, <1>5 DEF IInv, TypeOK, PhaseOK, InLine
  <1>7. CodeIsLaidOut'
    <2>1. /\ AreLaidOut(lines, FALSE, object)
          /\ AreLaidOut(lines, TRUE, dummy) /\ TypeOK
      BY CodeAreLaidOut DEF IInv
    <2>2. size <= BufferSize - CurrentBuffer.current
      BY <1>1 DEF Fits
    <2>3. object'.base <= object'.current /\ dummy'.base <= dummy'.current
      BY <1>2, <1>3, <1>4
    <2>4. inDUM \in BOOLEAN
      BY DEF IInv, TypeOK
    <2>5. AreLaidOut(lines', FALSE, object')
      BY <1>1, <1>2, <1>3, <2>1, <2>2, <2>3, <2>4, LineIsLaidOut
         DEF CurrentBuffer
    <2>6. AreLaidOut(lines', TRUE, dummy')
      BY <1>1, <1>2, <1>3, <2>1, <2>2, <2>3, <2>4, LineIsLaidOut
         DEF CurrentBuffer
    <2> QED
      BY <2>5, <2>6, CodeAreLaidOut
  <1>8. /\ FilesHoldWholeLines'
        /\ BaseIsBetweenLines'
        /\ SavedCodeLoadsAtItsAddress'
    <2>1. QueueGrows
      BY <1>1 DEF QueueGrows
    <2>2. object'.current \in Nat /\ object'.current >= object.current
      BY <1>2, <1>3, <1>4
    <2> QED
      BY <1>1, <1>3, <2>1, <2>2, LineKeepsFiles DEF IInv
  <1>9. OriginOK'
    <2> SUFFICES ASSUME ~repeated PROVE OriginOK'
      BY <1>1 DEF OriginOK
    <2>1. ObjectPC = AddressOf(object.origin, object.base, object.current)
      BY DEF IInv, OriginOK
    <2>2. /\ object.origin \in Int /\ object.base \in Int
          /\ object.current \in Int /\ size \in Int
      BY <1>2, <1>4 DEF Buffer, Word
    <2>3. Pending = 0 /\ Pending' = size
      BY <1>1, <1>5 DEF Pending, InLine, NewLine
    <2>4. ~inDUM => pc = AddressOf(object.origin, object.base, object.current)
      BY <1>2, <2>1, <2>3, ModOfWord DEF ObjectPC, Word
    <2>5. ObjectPC' = AddressOf(object'.origin, object'.base, object'.current)
      <3>1. CASE inDUM
        BY <1>1, <1>3, <2>1, <3>1 DEF ObjectPC
      <3>2. CASE ~inDUM
        <4>1. ObjectPC' = (pc + size) % 65536
          BY <1>1, <2>3, <3>2 DEF ObjectPC
        <4>2. object'.current = object.current + size
          BY <1>3, <3>2
        <4>3. (AddressOf(object.origin, object.base, object.current) + size)
                  % 65536
              = AddressOf(object.origin, object.base, object.current + size)
          <5> DEFINE o == object.origin
                     b == object.base
                     c == object.current
          <5>1. o \in Int /\ b \in Int /\ c \in Int /\ size \in Int
            BY <2>2
          <5> HIDE DEF o, b, c
          <5>2. (AddressOf(o, b, c) + size) % 65536 = AddressOf(o, b, c + size)
            BY <5>1, AddressAdvances
          <5> QED
            BY <5>2 DEF o, b, c
        <4> QED
          BY <1>3, <2>4, <3>2, <4>1, <4>2, <4>3
      <3> QED
        BY <3>1, <3>2
    <2>6. ASSUME NEW i \in DOMAIN lines', ~lines'[i].dum, lines'[i].size > 0,
                 object'.base <= lines'[i].at
          PROVE  lines'[i].address =
                     AddressOf(object'.origin, object'.base, lines'[i].at)
      <3>1. CASE i = Len(lines) + 1
        <4>1. lines'[i] = NewLine(size)
          BY <1>1, <3>1, AppendLine DEF IInv
        <4>2. ~inDUM /\ lines'[i].at = object.current /\ lines'[i].address = pc
          BY <2>6, <4>1 DEF NewLine, CurrentBuffer
        <4> QED
          BY <1>3, <2>4, <4>2
      <3>2. CASE i # Len(lines) + 1
        <4>1. i \in DOMAIN lines /\ lines'[i] = lines[i]
          BY <1>1, <3>2, AppendLine DEF IInv
        <4> QED
          BY <1>3, <2>6, <4>1 DEF IInv, OriginOK
      <3> QED
        BY <3>1, <3>2
    <2> QED
      BY <2>5, <2>6 DEF OriginOK
  <1> QED
    BY <1>6, <1>7, <1>8, <1>9 DEF IInv

(* A line without machine code, whatever its directive does. *)
LEMMA EmptyLineKeeps ==
    ASSUME IInv, StartLine(0), PlacesAreKept, OriginStep, QueueGrows,
           inDUM' \in BOOLEAN, pc' \in Word, pcBeforeDUM' \in Word,
           queue' \in Seq(Entry), waiting' \in Seq({"org", "dum", "usr"}),
           failed' \in BOOLEAN, repeated' = repeated
    PROVE  IInv'
  <1>1. /\ 0 \in Word
        /\ phase = "read" /\ phase' = "line"
        /\ lines' = Append(lines, NewLine(0))
        /\ label' = label /\ results' = results
    BY DEF StartLine, Word
  <1>2. /\ object \in Buffer /\ dummy \in Buffer
        /\ inDUM \in BOOLEAN /\ pc \in Word /\ pcBeforeDUM \in Word
    BY DEF IInv, TypeOK
  <1>3. /\ object.base \in Nat /\ object.current \in Nat
        /\ dummy.base \in Nat /\ dummy.current \in Nat
        /\ object.base <= object.current /\ dummy.base <= dummy.current
        /\ object.current <= BufferSize /\ dummy.current <= BufferSize
    BY <1>2 DEF Buffer, IInv, CodeIsLaidOut, IsLaidOut
  <1>4. /\ lines' \in Seq(Line) /\ lines' # <<>>
        /\ Last(lines') = NewLine(0)
    BY <1>1, AppendLine DEF IInv
  <1>5. TypeOK' /\ PhaseOK'
    BY <1>1, <1>4 DEF IInv, TypeOK, PhaseOK, InLine, PlacesAreKept
  <1>6. CodeIsLaidOut'
    <2>1. /\ AreLaidOut(lines, FALSE, object)
          /\ AreLaidOut(lines, TRUE, dummy) /\ TypeOK
      BY CodeAreLaidOut DEF IInv
    <2>2. 0 <= BufferSize - CurrentBuffer.current
      BY <1>3 DEF CurrentBuffer
    <2>3. /\ object'.base <= object'.current /\ dummy'.base <= dummy'.current
          /\ object'.current = object.current + 0
          /\ dummy'.current = dummy.current + 0
      BY <1>3 DEF PlacesAreKept
    <2>4. AreLaidOut(lines', FALSE, object')
      BY <1>1, <1>2, <2>1, <2>2, <2>3, LineIsLaidOut
         DEF CurrentBuffer, PlacesAreKept
    <2>5. AreLaidOut(lines', TRUE, dummy')
      BY <1>1, <1>2, <2>1, <2>2, <2>3, LineIsLaidOut
         DEF CurrentBuffer, PlacesAreKept
    <2> QED
      BY <2>4, <2>5, CodeAreLaidOut
  <1>7. /\ FilesHoldWholeLines'
        /\ BaseIsBetweenLines'
        /\ SavedCodeLoadsAtItsAddress'
    <2>1. object'.current \in Nat /\ object'.current >= object.current
      BY <1>3 DEF PlacesAreKept
    <2> QED
      BY <1>1, <2>1, LineKeepsFiles DEF IInv, PlacesAreKept
  <1>8. OriginOK'
    <2> SUFFICES ASSUME ~repeated PROVE OriginOK'
      BY DEF OriginOK
    <2>1. Pending = 0 /\ Pending' = 0
      BY <1>1, <1>4 DEF Pending, InLine, NewLine
    <2>2. ObjectPC = IF inDUM THEN pcBeforeDUM ELSE pc
      BY <1>2, <2>1, ModOfWord DEF ObjectPC, Word
    <2>3. ObjectPC' = IF inDUM' THEN pcBeforeDUM' ELSE pc'
      BY <2>1, ModOfWord DEF ObjectPC, Word
    <2>4. ObjectPC = AddressOf(object.origin, object.base, object.current)
      BY DEF IInv, OriginOK
    <2>5. ASSUME NEW i \in DOMAIN lines', lines'[i].size > 0
          PROVE  i \in DOMAIN lines /\ lines'[i] = lines[i] /\ lines[i] \in Line
      <3>1. CASE i = Len(lines) + 1
        BY <1>1, <2>5, <3>1, AppendLine DEF NewLine, IInv
      <3>2. CASE i # Len(lines) + 1
        BY <1>1, <3>2, AppendLine DEF IInv
      <3> QED
        BY <3>1, <3>2
    <2>6. CASE /\ object' = object
               /\ (IF inDUM' THEN pcBeforeDUM' ELSE pc')
                      = (IF inDUM THEN pcBeforeDUM ELSE pc)
      <3>1. ObjectPC' = AddressOf(object'.origin, object'.base, object'.current)
        BY <2>2, <2>3, <2>4, <2>6
      <3>2. ASSUME NEW i \in DOMAIN lines', ~lines'[i].dum, lines'[i].size > 0,
                   object'.base <= lines'[i].at
            PROVE  lines'[i].address =
                       AddressOf(object'.origin, object'.base, lines'[i].at)
        BY <2>5, <2>6, <3>2 DEF IInv, OriginOK
      <3> QED
        BY <3>1, <3>2 DEF OriginOK
    <2>7. CASE object' = SetOrigin(object, pc') /\ ~inDUM'
      <3>1. /\ object'.origin = pc' /\ object'.base = object.current
            /\ object'.current = object.current
        BY <1>2, <2>7 DEF SetOrigin, Buffer
      <3>2. pc' + (object.current - object.current) = pc' /\ pc' \in Nat
        BY <1>3 DEF Word
      <3>3. pc' = AddressOf(object'.origin, object'.base, object'.current)
        BY <3>1, <3>2, ModOfWord DEF AddressOf
      <3>4. ASSUME NEW i \in DOMAIN lines', ~lines'[i].dum, lines'[i].size > 0,
                   object'.base <= lines'[i].at
            PROVE  FALSE
        <4>1. lines[i].at + lines[i].size <= object.current
          BY <2>5, <3>4 DEF IInv, CodeIsLaidOut, IsLaidOut
        <4>2. lines[i].at \in Nat /\ lines[i].size \in Nat
          BY <2>5, <3>4 DEF Line, Word
        <4> QED
          BY <1>3, <2>5, <3>1, <3>4, <4>1, <4>2
      <3>5. ObjectPC' = pc'
        BY <2>3, <2>7
      <3> QED
        BY <3>3, <3>4, <3>5 DEF OriginOK
    <2> QED
      BY <2>6, <2>7 DEF OriginStep
  <1> QED
    BY <1>5, <1>6, <1>7, <1>8 DEF IInv

LEMMA FailLineKeeps == ASSUME IInv, FailLine PROVE IInv'
  <1>1. PlacesAreKept /\ OriginStep /\ QueueGrows
    BY DEF FailLine, PlacesAreKept, OriginStep, QueueGrows, IInv, TypeOK
  <1> QED
    BY <1>1, EmptyLineKeeps DEF FailLine, IInv, TypeOK

LEMMA KnownDirectiveKeeps ==
    ASSUME IInv, NEW directive, NEW v \in Addresses, KnownDirective(directive, v)
    PROVE  IInv'
  <1>1. TypeOK /\ CodeIsLaidOut /\ v \in Word
    BY DEF IInv
  <1> QED
    BY <1>1, ExecuteEffect, EmptyLineKeeps DEF KnownDirective, TypeOK

LEMMA ForwardDirectiveKeeps ==
    ASSUME IInv, NEW directive \in {"org", "dum", "usr"},
           ForwardDirective(directive)
    PROVE  IInv'
  <1>1. TypeOK /\ CodeIsLaidOut /\ 0 \in Word
    BY DEF IInv, Word
  <1>2. /\ StartLine(0) /\ Execute(directive, 0)
        /\ waiting' = <<directive>> \o waiting
        /\ failed' = failed /\ repeated' = repeated
    BY DEF ForwardDirective
  <1>3. waiting' \in Seq({"org", "dum", "usr"})
    <2>1. <<directive>> \in Seq({"org", "dum", "usr"})
      OBVIOUS
    <2> QED
      BY <1>1, <1>2, <2>1, ConcatProperties DEF TypeOK
  <1>4. failed \in BOOLEAN
    BY <1>1 DEF TypeOK
  <1> QED
    BY <1>1, <1>2, <1>3, <1>4, ExecuteEffect, EmptyLineKeeps

LEMMA SavKeeps == ASSUME IInv, Sav PROVE IInv'
  <1>1. TypeOK /\ CodeIsLaidOut
    BY DEF IInv
  <1>2. PlacesAreKept /\ OriginStep
    BY <1>1 DEF Sav, QueueWrite, PlacesAreKept, OriginStep, TypeOK
  <1>3. queue' \in Seq(Entry) /\ QueueGrows
    BY <1>1, QueueWriteEffect DEF Sav
  <1> QED
    BY <1>1, <1>2, <1>3, EmptyLineKeeps DEF Sav, QueueWrite, TypeOK

LEMMA DendKeeps == ASSUME IInv, Dend PROVE IInv'
  <1>1. TypeOK
    BY DEF IInv
  <1>2. PlacesAreKept /\ OriginStep /\ QueueGrows
    BY <1>1 DEF Dend, HandleDEND, PlacesAreKept, OriginStep, QueueGrows, TypeOK
  <1> QED
    BY <1>1, <1>2, EmptyLineKeeps DEF Dend, HandleDEND, TypeOK

(* The steps that neither move code nor queue a file leave the files and   *)
(* the layout alone.                                                       *)
LEMMA UnchangedLayout ==
    ASSUME IInv, UNCHANGED <<lines, object, dummy, queue, repeated>>
    PROVE  /\ CodeIsLaidOut' /\ BaseIsBetweenLines'
           /\ FilesHoldWholeLines' /\ SavedCodeLoadsAtItsAddress'
  <1>1. CodeIsLaidOut'
    BY DEF IInv, CodeIsLaidOut, IsLaidOut
  <1>2. BaseIsBetweenLines'
    BY DEF IInv, BaseIsBetweenLines
  <1>3. FilesHoldWholeLines'
    BY DEF IInv, FilesHoldWholeLines
  <1>4. SavedCodeLoadsAtItsAddress'
    BY DEF IInv, SavedCodeLoadsAtItsAddress, IsSavedAtItsAddress
  <1> QED
    BY <1>1, <1>2, <1>3, <1>4

(* ... and those within a line, or outside one, the origin as well.        *)
LEMMA UnchangedOrigin ==
    ASSUME IInv, InLine' = InLine,
           UNCHANGED <<lines, object, inDUM, pc, pcBeforeDUM, repeated>>
    PROVE  OriginOK'
  <1>1. Pending' = Pending
    BY DEF Pending
  <1>2. ObjectPC' = ObjectPC
    BY <1>1 DEF ObjectPC
  <1> QED
    BY <1>2 DEF IInv, OriginOK

LEMMA DefineLabelKeeps == ASSUME IInv, DefineLabel PROVE IInv'
  <1>1. phase = "line" /\ phase' = "update" /\ label' = Last(lines).address
    BY DEF DefineLabel
  <1>2. label' \in Word
    <2>1. lines \in Seq(Line) /\ lines # <<>>
      BY <1>1 DEF IInv, TypeOK, PhaseOK, InLine
    <2>2. Last(lines) \in Line
      BY <2>1, ElementOfSeq DEF Last
    <2> QED
      BY <1>1, <2>2 DEF Line
  <1>3. TypeOK' /\ PhaseOK'
    BY <1>1, <1>2 DEF DefineLabel, IInv, TypeOK, PhaseOK, InLine
  <1>4. OriginOK'
    BY <1>1, UnchangedOrigin DEF DefineLabel, InLine
  <1> QED
    BY <1>3, <1>4, UnchangedLayout DEF DefineLabel, IInv

(* A directive executed again may move the origin, never the code.         *)
LEMMA RepeatDirectiveKeeps == ASSUME IInv, RepeatDirective PROVE IInv'
  <1>1. /\ TypeOK /\ CodeIsLaidOut /\ label \in Word
        /\ waiting # <<>> /\ waiting' = Tail(waiting) /\ repeated' = TRUE
        /\ Execute(Head(waiting), label)
        /\ UNCHANGED <<lines, label, phase, failed, results>>
    BY DEF IInv, PhaseOK, RepeatDirective
  <1>2. /\ PlacesAreKept /\ QueueGrows
        /\ inDUM' \in BOOLEAN /\ pc' \in Word /\ pcBeforeDUM' \in Word
        /\ queue' \in Seq(Entry)
    BY <1>1, ExecuteEffect
  <1>3. waiting' \in Seq({"org", "dum", "usr"})
    BY <1>1, HeadTailProperties DEF TypeOK
  <1>4. TypeOK' /\ PhaseOK'
    BY <1>1, <1>2, <1>3 DEF IInv, TypeOK, PhaseOK, InLine, PlacesAreKept
  <1>5. CodeIsLaidOut'
    <2>1. AreLaidOut(lines, FALSE, object) /\ AreLaidOut(lines, TRUE, dummy)
      BY CodeAreLaidOut DEF IInv
    <2>2. object.current \in Nat /\ dummy.current \in Nat
      BY <1>1 DEF TypeOK, Buffer
    <2>3. AreLaidOut(lines', FALSE, object') /\ AreLaidOut(lines', TRUE, dummy')
      BY <1>1, <1>2, <2>1, <2>2 DEF AreLaidOut, PlacesAreKept
    <2> QED
      BY <2>3, CodeAreLaidOut
  <1>6. /\ FilesHoldWholeLines'
        /\ BaseIsBetweenLines'
        /\ SavedCodeLoadsAtItsAddress'
    <2>1. object'.current \in Nat /\ object'.current >= object.current
      BY <1>1, <1>2 DEF PlacesAreKept, TypeOK, Buffer
    <2>2. 0 \in Word
      BY DEF Word
    <2> QED
      BY <1>1, <1>2, <2>1, <2>2, LineKeepsFiles DEF IInv, PlacesAreKept
  <1>7. OriginOK'
    BY <1>1 DEF OriginOK
  <1> QED
    BY <1>4, <1>5, <1>6, <1>7 DEF IInv

(* The program counter takes in the line's machine code.                   *)
LEMMA FinishLineKeeps == ASSUME IInv, FinishLine PROVE IInv'
  <1>1. /\ InLine /\ phase' = "read"
        /\ pc' = (pc + Last(lines).size) % 65536
        /\ UNCHANGED <<lines, object, dummy, inDUM, pcBeforeDUM, queue, waiting,
                       label, failed, results, repeated>>
    BY DEF FinishLine, NextProgramCounter, InLine
  <1>2. lines \in Seq(Line) /\ lines # <<>> /\ pc \in Word
    BY <1>1 DEF IInv, TypeOK, PhaseOK
  <1>3. Last(lines) \in Line
    BY <1>2, ElementOfSeq DEF Last
  <1>4. Last(lines).size \in Nat /\ pc \in Nat
    BY <1>2, <1>3 DEF Line, Word
  <1>5. pc' \in Word
    BY <1>1, <1>4, ModIsWord
  <1>6. TypeOK' /\ PhaseOK'
    BY <1>1, <1>5 DEF IInv, TypeOK, PhaseOK, InLine
  <1>7. OriginOK'
    <2>1. Pending = Last(lines).size /\ Pending' = 0
      BY <1>1 DEF Pending, InLine
    <2>2. (pc' + 0) % 65536 = pc'
      <3>1. \A n \in Word : (n + 0) % 65536 = n
        BY DEF Word
      <3> QED
        BY <1>5, <3>1
    <2>3. ObjectPC' = ObjectPC
      BY <1>1, <2>1, <2>2 DEF ObjectPC
    <2> QED
      BY <1>1, <2>3 DEF IInv, OriginOK
  <1> QED
    BY <1>1, <1>6, <1>7, UnchangedLayout DEF IInv

LEMMA EndOfSourceKeeps == ASSUME IInv, EndOfSource PROVE IInv'
  <1>1. failed' \in BOOLEAN /\ phase = "read" /\ phase' \in {"write", "done"}
    BY DEF EndOfSource, IInv, TypeOK
  <1>2. TypeOK' /\ PhaseOK'
    BY <1>1 DEF EndOfSource, IInv, TypeOK, PhaseOK, InLine
  <1>3. OriginOK'
    BY <1>1, UnchangedOrigin DEF EndOfSource, InLine
  <1> QED
    BY <1>2, <1>3, UnchangedLayout DEF EndOfSource, IInv

LEMMA WriteFileKeeps ==
    ASSUME IInv, NEW written \in BOOLEAN, WriteFile(written)
    PROVE  IInv'
  <1>1. results' \in Seq(BOOLEAN)
    BY AppendProperties DEF WriteFile, IInv, TypeOK
  <1>2. TypeOK' /\ PhaseOK'
    BY <1>1 DEF WriteFile, IInv, TypeOK, PhaseOK, InLine
  <1>3. OriginOK'
    BY UnchangedOrigin DEF WriteFile, InLine
  <1> QED
    BY <1>2, <1>3, UnchangedLayout DEF WriteFile, IInv

LEMMA FinishWritingKeeps == ASSUME IInv, FinishWriting PROVE IInv'
  <1>1. failed' \in BOOLEAN /\ phase = "write" /\ phase' = "done"
    BY DEF FinishWriting, SomeWriteFailed
  <1>2. TypeOK' /\ PhaseOK'
    BY <1>1 DEF FinishWriting, IInv, TypeOK, PhaseOK, InLine
  <1>3. OriginOK'
    BY <1>1, UnchangedOrigin DEF FinishWriting, InLine
  <1> QED
    BY <1>2, <1>3, UnchangedLayout DEF FinishWriting, IInv

LEMMA StutterKeeps == ASSUME IInv, UNCHANGED vars PROVE IInv'
  <1>1. TypeOK' /\ PhaseOK'
    BY DEF vars, IInv, TypeOK, PhaseOK, InLine
  <1>2. OriginOK'
    BY UnchangedOrigin DEF vars, InLine
  <1> QED
    BY <1>1, <1>2, UnchangedLayout DEF vars, IInv

LEMMA StepKeeps == IInv /\ [Next]_vars => IInv'
  <1> SUFFICES ASSUME IInv, [Next]_vars PROVE IInv'
    OBVIOUS
  <1>1. CASE \E size \in LineSizes : EmitCode(size)
    BY <1>1, EmitCodeKeeps
  <1>2. CASE FailLine
    BY <1>2, FailLineKeeps
  <1>3. CASE \E directive \in {"org", "dum", "usr"}, v \in Addresses :
                 KnownDirective(directive, v)
    BY <1>3, KnownDirectiveKeeps
  <1>4. CASE \E directive \in {"org", "dum", "usr"} : ForwardDirective(directive)
    BY <1>4, ForwardDirectiveKeeps
  <1>5. CASE Sav
    BY <1>5, SavKeeps
  <1>6. CASE Dend
    BY <1>6, DendKeeps
  <1>7. CASE DefineLabel
    BY <1>7, DefineLabelKeeps
  <1>8. CASE RepeatDirective
    BY <1>8, RepeatDirectiveKeeps
  <1>9. CASE FinishLine
    BY <1>9, FinishLineKeeps
  <1>10. CASE EndOfSource
    BY <1>10, EndOfSourceKeeps
  <1>11. CASE \E written \in BOOLEAN : WriteFile(written)
    BY <1>11, WriteFileKeeps
  <1>12. CASE FinishWriting
    BY <1>12, FinishWritingKeeps
  <1>13. CASE UNCHANGED vars
    BY <1>13, StutterKeeps
  <1> QED
    BY <1>1, <1>2, <1>3, <1>4, <1>5, <1>6, <1>7, <1>8, <1>9, <1>10, <1>11,
       <1>12, <1>13 DEF Next

-----------------------------------------------------------------------------
(***************************************************************************)
(* The theorems.                                                           *)
(***************************************************************************)
(* The strengthened invariant holds in every state of an assembly. *)
THEOREM Invariance == Spec => []IInv
  BY InitEstablishes, StepKeeps, PTL DEF Spec

(* Every variable keeps its type; the program counters stay 16-bit words. *)
THEOREM TypeCorrectness == Spec => []TypeOK
  <1>1. IInv => TypeOK
    BY DEF IInv
  <1> QED
    BY <1>1, Invariance, PTL

(* BinaryBuffer_Alloc never overlaps two lines' machine code nor passes    *)
(* the buffer's end, for any buffer size and any line sizes.               *)
THEOREM CodeNeverOverlaps == Spec => []CodeIsLaidOut
  <1>1. IInv => CodeIsLaidOut
    BY DEF IInv
  <1> QED
    BY <1>1, Invariance, PTL

(* Without forward directives, the address and the base that handleSAV     *)
(* writes agree with the address of every byte it saves.                   *)
THEOREM FilesLoadWhereAssembled == Spec => []SavedCodeLoadsAtItsAddress
  <1>1. IInv => SavedCodeLoadsAtItsAddress
    BY DEF IInv
  <1> QED
    BY <1>1, Invariance, PTL

(* A queued file holds each line's machine code whole or not at all, even  *)
(* when its directive or an ORG was executed in the middle of a line.      *)
THEOREM FilesNeverCutALine == Spec => []FilesHoldWholeLines
  <1>1. IInv => FilesHoldWholeLines
    BY DEF IInv
  <1> QED
    BY <1>1, Invariance, PTL

-----------------------------------------------------------------------------
(***************************************************************************)
(* The queue of writes.  No file is written before the end of the source,  *)
(* and then each of the queue once, as far as the writing has come.        *)
(***************************************************************************)
ResultsFollowTheQueue ==
    /\ phase \in {"read", "line", "update"} => results = <<>>
    /\ phase = "write" => Len(results) <= Len(queue)

WritingInv == TypeOK /\ ResultsFollowTheQueue /\ SuccessMeansAllWritten

(* Before the end of the source nothing is written. *)
LEMMA AssemblingKeepsResults ==
    ASSUME WritingInv, phase \in {"read", "line", "update"},
           phase' \in {"read", "line", "update"}, results' = results
    PROVE  ResultsFollowTheQueue' /\ SuccessMeansAllWritten'
  BY DEF WritingInv, ResultsFollowTheQueue, SuccessMeansAllWritten

(* The end of the source stops at an error, and starts writing otherwise. *)
LEMMA EndOfSourceKeepsResults ==
    ASSUME WritingInv, EndOfSource
    PROVE  ResultsFollowTheQueue' /\ SuccessMeansAllWritten'
  <1>1. results' = <<>> /\ queue' = queue /\ queue \in Seq(Entry)
    BY DEF EndOfSource, WritingInv, ResultsFollowTheQueue, TypeOK
  <1>2. Len(results') = 0 /\ Len(queue') \in Nat
    BY <1>1
  <1>3. phase' = IF failed' THEN "done" ELSE "write"
    BY DEF EndOfSource
  <1> QED
    BY <1>2, <1>3 DEF ResultsFollowTheQueue, SuccessMeansAllWritten

(* A write adds its outcome. *)
LEMMA WriteFileKeepsResults ==
    ASSUME WritingInv, NEW written \in BOOLEAN, WriteFile(written)
    PROVE  ResultsFollowTheQueue' /\ SuccessMeansAllWritten'
  <1>1. /\ results \in Seq(BOOLEAN) /\ queue \in Seq(Entry)
        /\ Len(results) < Len(queue) /\ queue' = queue
        /\ results' = Append(results, written)
        /\ phase = "write" /\ phase' = "write"
    BY DEF WriteFile, WritingInv, TypeOK
  <1>2. Len(results') = Len(results) + 1 /\ Len(results) \in Nat /\ Len(queue) \in Nat
    BY <1>1
  <1> QED
    BY <1>1, <1>2 DEF ResultsFollowTheQueue, SuccessMeansAllWritten

(* The end of writing looks at all outcomes. *)
LEMMA FinishWritingKeepsResults ==
    ASSUME WritingInv, FinishWriting
    PROVE  ResultsFollowTheQueue' /\ SuccessMeansAllWritten'
  <1>1. /\ results \in Seq(BOOLEAN) /\ results' = results /\ queue' = queue
        /\ Len(results) = Len(queue) /\ phase' = "done"
        /\ failed' = SomeWriteFailed
    BY DEF FinishWriting, WritingInv, TypeOK
  <1>2. ~failed' => \A e \in DOMAIN results : results[e]
    <2> SUFFICES ASSUME ~failed', NEW e \in DOMAIN results PROVE results[e]
      OBVIOUS
    <2>1. FALSE \notin Range(results)
      BY <1>1 DEF SomeWriteFailed
    <2>2. results[e] \in Range(results)
      BY DEF Range
    <2>3. results[e] \in BOOLEAN
      BY <1>1
    <2> QED
      BY <2>1, <2>2, <2>3, Zenon
  <1> QED
    BY <1>1, <1>2 DEF ResultsFollowTheQueue, SuccessMeansAllWritten

LEMMA StepKeepsResults == IInv /\ WritingInv /\ [Next]_vars /\ IInv' => WritingInv'
  <1> SUFFICES ASSUME IInv, WritingInv, [Next]_vars, IInv' PROVE WritingInv'
    OBVIOUS
  <1> SUFFICES ResultsFollowTheQueue' /\ SuccessMeansAllWritten'
    BY DEF IInv, WritingInv
  <1>1. ASSUME NEW size, StartLine(size)
        PROVE  ResultsFollowTheQueue' /\ SuccessMeansAllWritten'
    BY <1>1, AssemblingKeepsResults DEF StartLine
  <1>2. CASE \E size \in LineSizes : EmitCode(size)
    BY <1>1, <1>2 DEF EmitCode
  <1>3. CASE FailLine \/ Sav \/ Dend
    BY <1>1, <1>3 DEF FailLine, Sav, Dend
  <1>4. CASE \E directive \in {"org", "dum", "usr"}, v \in Addresses :
                 KnownDirective(directive, v)
    BY <1>1, <1>4 DEF KnownDirective
  <1>5. CASE \E directive \in {"org", "dum", "usr"} : ForwardDirective(directive)
    BY <1>1, <1>5 DEF ForwardDirective
  <1>6. CASE DefineLabel \/ RepeatDirective \/ FinishLine
    BY <1>6, AssemblingKeepsResults DEF DefineLabel, RepeatDirective, FinishLine
  <1>7. CASE EndOfSource
    BY <1>7, EndOfSourceKeepsResults
  <1>8. CASE \E written \in BOOLEAN : WriteFile(written)
    BY <1>8, WriteFileKeepsResults
  <1>9. CASE FinishWriting
    BY <1>9, FinishWritingKeepsResults
  <1>10. CASE UNCHANGED vars
    BY <1>10 DEF vars, WritingInv, ResultsFollowTheQueue, SuccessMeansAllWritten
  <1> QED
    BY <1>2, <1>3, <1>4, <1>5, <1>6, <1>7, <1>8, <1>9, <1>10 DEF Next

(* Success is reported only when every queued file was tried and written:  *)
(* BinaryBuffer_ProcessWriteFileQueue goes on behind a failure, and the    *)
(* second pass does not forget it.                                         *)
THEOREM SuccessIsComplete == Spec => []SuccessMeansAllWritten
  <1>1. Init => WritingInv
    BY InitEstablishes
       DEF Init, IInv, WritingInv, ResultsFollowTheQueue, SuccessMeansAllWritten
  <1>2. WritingInv => SuccessMeansAllWritten
    BY DEF WritingInv
  <1> QED
    BY <1>1, <1>2, StepKeepsResults, Invariance, PTL DEF Spec
=============================================================================
