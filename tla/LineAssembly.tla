----------------------------- MODULE LineAssembly ----------------------------
(***************************************************************************)
(* How snap turns the text of a line into machine code                     *)
(* (libsnap/src/Assembler.c, firstPassAssembleLine and the handlers of     *)
(* opcodes and data directives), on a first run and on the second run that *)
(* follows when a symbol the line names is defined.  Text is read by       *)
(* Operands, opcodes are those of InstructionSets.                         *)
(*                                                                         *)
(* A line owns the bytes of its last allocation in the object buffer.  A   *)
(* data directive grows its allocation byte by byte; a directive that      *)
(* throws gives its bytes back, which only works while they are the last   *)
(* allocation.  On a second run they are not, and the throw goes through   *)
(* to the line that defines the symbol, past the code that restores        *)
(* pLineInfo.                                                              *)
(***************************************************************************)
EXTENDS Operands, InstructionSets

CONSTANTS
    Texts(_),       \* the lines that a source can go on with
    StartAddresses, \* the program counter at the first line
    BufferSize,     \* SIZE_OF_OBJECT_AND_DUMMY_BUFFERS
    MaxHexBytes,    \* the values of a HEX directive: 32
    MaxLines        \* bound: the number of source lines

ASSUME LineAssemblyAssumption ==
    /\ StartAddresses \subseteq 0 .. 65535
    /\ BufferSize \in Nat /\ MaxHexBytes \in Nat /\ MaxLines \in Nat

VARIABLES
    lines,          \* the LineInfo records, in the order they were read
    next,           \* pNext of the list's head, 0, and of each line
    current,        \* pLineInfo: the line being assembled
    buffer,         \* the object buffer
    instructionSet, \* that of the lines to come: 1, 2 or 3
    long,           \* longA and longXY
    pc,             \* programCounter
    symbols,        \* what each label is defined as
    refs,           \* pLineReferences of each label, the latest line first
    cursor,         \* the lines that are still to be run again
    phase,          \* where parseLine is in the current line
    failed          \* errorCount > 0

vars == <<lines, next, current, buffer, instructionSet, long, pc, symbols,
          refs, cursor, phase, failed>>

Null == -1

(* What a handler sees and changes.  end is "ok"; "throw" while an         *)
(* exception is on its way; "escape" when it has left the handler; "crash" *)
(* when the program has ended.                                             *)
Context(line) ==
    [line |-> line, parsed |-> ParseLine(line.text), buffer |-> buffer,
     already |-> line.at # Null, \* alreadyAllocated
     set |-> instructionSet, long |-> long, failed |-> failed, refs |-> {},
     end |-> "ok"]

Env == [pc |-> pc, symbols |-> symbols]

Throw(c) == [c EXCEPT !.end = "throw", !.failed = TRUE]

(* LOG_ERROR, without a throw. *)
Error(c) == [c EXCEPT !.failed = TRUE]

Catch(c) == IF c.end = "throw" THEN [c EXCEPT !.end = "ok"] ELSE c

(* An expression was evaluated: its references stay, however it ended.     *)
Evaluated(c, e) ==
    [c EXCEPT !.refs = @ \cup e.refs,
              !.failed = @ \/ e.end # "value",
              !.end = IF e.end = "value" THEN @ ELSE e.end]

-----------------------------------------------------------------------------
(***************************************************************************)
(* The bytes of a line.                                                    *)
(***************************************************************************)
(* BinaryBuffer_Alloc, from pCurrent. *)
Alloc(c, size) ==
    IF BufferSize - c.buffer.current < size
    THEN Throw([c EXCEPT !.line.size = 0])
    ELSE [c EXCEPT !.line.at = c.buffer.current,
                   !.line.size = size,
                   !.buffer.lastAlloc = c.buffer.current,
                   !.buffer.current = @ + size]

(* reallocLineInfoMachineCodeBytes and BinaryBuffer_Realloc: only the last *)
(* allocation can change its size.                                         *)
Realloc(c, size) ==
    IF c.line.at = Null THEN Alloc(c, size)
    ELSE IF c.line.at # c.buffer.lastAlloc
         THEN Throw([c EXCEPT !.line.size = 0])
         ELSE Alloc([c EXCEPT !.buffer.current = c.buffer.lastAlloc], size)

(* Mutant: a second run takes new bytes if it needs another size. *)
AllocateAgain(c, size) ==
    IF c.line.at # Null /\ c.line.size = size
    THEN c
    ELSE Alloc(c, size)

(* allocateLineInfoMachineCodeBytes: a second run must need the same size. *)
AllocateMachineCode(c, size) ==
    IF c.line.at = Null THEN Realloc(c, size)
    ELSE IF c.line.size # size THEN Throw(c) ELSE c

Written(bytes, at, new) ==
    SubSeq(bytes, 1, at) \o new \o SubSeq(bytes, at + Len(new) + 1, Len(bytes))

(* Bytes are written from place i of the line's code on, whatever its size *)
(* is.  Behind the buffer is memory of others.                             *)
Write(c, i, bytes) ==
    IF c.line.at + i + Len(bytes) > BufferSize
    THEN [c EXCEPT !.end = "crash"]
    ELSE [c EXCEPT !.buffer.bytes = Written(@, c.line.at + i, bytes)]

(* emitSingleByteInstruction and its like. *)
WriteIfAllocated(c, i, bytes) ==
    IF c.end = "ok" THEN Write(c, i, bytes) ELSE c

Emit(c, bytes) ==
    Catch(WriteIfAllocated(AllocateMachineCode(c, Len(bytes)), 0, bytes))

Low(v) == v % 256
High(v) == (v \div 256) % 256
Highest(v) == (v \div 65536) % 256

-----------------------------------------------------------------------------
(***************************************************************************)
(* Instructions.                                                           *)
(***************************************************************************)
EmitTwo(c, opcode, value) ==
    IF opcode = XX THEN Error(c) ELSE Emit(c, <<opcode, Low(value)>>)

(* handleZeroPageOrAbsoluteAddressingModes *)
EmitZeroPageOrAbsolute(c, e, zeroPage, absolute) ==
    IF e.type = "zeropage" /\ zeroPage \notin {XX, LL}
    THEN Emit(c, <<zeroPage, Low(e.value)>>)
    ELSE IF absolute = XX THEN Error(c)
         ELSE IF zeroPage = LL
              THEN Emit(c, <<absolute, Low(e.value), High(e.value), Highest(e.value)>>)
              ELSE Emit(c, <<absolute, Low(e.value), High(e.value)>>)

(* As an int. *)
Signed(v) == IF v >= WordSize \div 2 THEN v - WordSize ELSE v

(* Mutant: the offset counts from the branch itself. *)
OffsetFromBranch(c, e) == Signed(e.value) - c.line.address

BranchOffset(c, e) == Signed(e.value) - ((c.line.address + 2) % 65536)

(* handleRelativeAddressingMode *)
EmitRelative(c, e, opcode) ==
    IF ~e.forward /\ BranchOffset(c, e) \notin -128 .. 127
    THEN Error(c)
    ELSE Emit(c, <<opcode, BranchOffset(c, e) % 256>>)

(* handleZeroPageAbsoluteOrRelativeAddressingMode *)
EmitAbsolute(c, e, entry) ==
    IF Opcode(entry, "rel") # XX /\ Opcode(entry, "zp") # LL
    THEN EmitRelative(c, e, Opcode(entry, "rel"))
    ELSE EmitZeroPageOrAbsolute(c, e, Opcode(entry, "zp"), Opcode(entry, "abs"))

EmitImplied(c, opcode) == IF opcode = XX THEN Error(c) ELSE Emit(c, <<opcode>>)

(* handleOpcode.  An immediate is one byte, also where handleThreeByte-    *)
(* AddressingMode takes it for a long one.                                 *)
EmitMode(c, e, mode, entry) ==
    LET code(m) == Opcode(entry, m)
    IN  CASE mode = "impl" -> EmitImplied(c, code("impl"))
          [] mode \in {"imm", "izy"} -> EmitTwo(c, code(mode), e.value)
          [] mode = "abs" -> EmitAbsolute(c, e, entry)
          [] mode = "izx" -> EmitZeroPageOrAbsolute(c, e, code("izx"), code("iax"))
          [] mode = "abx" -> EmitZeroPageOrAbsolute(c, e, code("zpx"), code("abx"))
          [] mode = "aby" -> EmitZeroPageOrAbsolute(c, e, code("zpy"), code("aby"))
          [] mode = "ind" -> EmitZeroPageOrAbsolute(c, e, code("izp"), code("ind"))

EmitInstruction(c, mode, entry) ==
    CASE mode.end = "value" -> EmitMode(c, mode.expression, mode.mode, entry)
      [] mode.end = "throw" -> Catch(Throw(c))
      [] mode.end = "crash" -> [c EXCEPT !.end = "crash"]

HandleInstruction(c, mode, entry) ==
    EmitInstruction([c EXCEPT !.refs = mode.expression.refs], mode, entry)

-----------------------------------------------------------------------------
(***************************************************************************)
(* Data.  A first run takes the bytes of each value as it comes; a second  *)
(* run trusts that it needs as many as the first one took.                 *)
(***************************************************************************)
IsRunning(c) == c.end = "ok"

Store(c, i, bytes) ==
    WriteIfAllocated(IF c.already THEN c ELSE Realloc(c, i + Len(bytes)), i, bytes)

(* The __catch of a data directive.  What it throws itself leaves it. *)
Escape(c) == IF c.end = "throw" THEN [c EXCEPT !.end = "escape"] ELSE c

GiveBack(c) == IF c.end = "throw" THEN Escape(Realloc(Catch(c), 0)) ELSE c

Bytes(value, width) == IF width = 1 THEN <<Low(value)>> ELSE <<Low(value), High(value)>>

RECURSIVE StoreExpressions(_, _, _, _), StoreHexData(_, _, _)

StoreExpression(c, e, i, width) ==
    IF e.end = "value"
    THEN Store(Evaluated(c, e), i, Bytes(e.value, width))
    ELSE Evaluated(c, e)

StoreExpressions(c, list, i, width) ==
    IF list = <<>> \/ ~IsRunning(c) THEN c
    ELSE StoreExpressions(
             StoreExpression(c, ExpressionEval(Before(list, ","), Env), i, width),
             After(list, ","), i + width, width)

(* handleDB and handleDA *)
HandleValues(c, width) ==
    GiveBack(IF c.parsed.operands = <<>> THEN Throw(c)
             ELSE StoreExpressions(c, c.parsed.operands, 0, width))

Nibbles == <<"0", "1", "2", "3", "4", "5", "6", "7",
             "8", "9", "A", "B", "C", "D", "E", "F">>

Nibble(digit) == (CHOOSE n \in DOMAIN Nibbles : Nibbles[n] = digit) - 1

(* parseHexData: a comma may stand before each byte.  White space ends the *)
(* data, and half a byte in front of it is dropped.                        *)
StoreHexData(c, s, i) ==
    IF s = <<>> \/ ~IsRunning(c) THEN c
    ELSE LET d == IF Head(s) = "," THEN Tail(s) ELSE s
             IsDigit(n) == n <= Len(d) /\ d[n] \in Range(Nibbles)
             IsBlank(n) == n <= Len(d) /\ d[n] = " "
         IN  IF IsBlank(1) \/ (IsDigit(1) /\ IsBlank(2)) THEN c
             ELSE IF IsDigit(1) /\ IsDigit(2)
             THEN StoreHexData(Store(c, i, <<16 * Nibble(d[1]) + Nibble(d[2])>>),
                               SubSeq(d, 3, Len(d)), i + 1)
             ELSE [c EXCEPT !.end = "throw"]

EndHEX(c) ==
    CASE c.end = "throw" -> GiveBack(Error(c))
      [] c.end = "ok" /\ c.line.size > MaxHexBytes -> GiveBack(Error(Realloc(c, MaxHexBytes)))
      [] OTHER -> c

(* handleHEX *)
HandleHEX(c) ==
    EndHEX(IF c.parsed.operands = <<>> THEN Throw(c)
           ELSE StoreHexData(c, c.parsed.operands, 0))

RECURSIVE StoreText(_, _, _, _)

StoreText(c, s, i, mask) ==
    IF s = <<>> \/ ~IsRunning(c) THEN c
    ELSE StoreText(Store(c, i, <<Characters[Head(s)] | mask>>), Tail(s), i + 1, mask)

(* handleASC: the text, then hex data, in all that is left of the line.    *)
(* Without text the last byte read is not initialized, and it may be the   *)
(* delimiter.  Of hex data it cannot read it says nothing.                 *)
StoreASC(c, s, close, lucky) ==
    LET mask == IF Characters[s[1]] < 39 THEN 128 ELSE 0
        text == IF close > Len(s) /\ ~(Len(s) = 1 /\ lucky) THEN Error(c) ELSE c
    IN  StoreHexData(StoreText(text, SubSeq(s, 2, close - 1), 0, mask),
                     SubSeq(s, close + 1, Len(s)), close - 2)

HandleASC(c, lucky) ==
    LET s == c.parsed.toTheEnd
    IN  GiveBack(IF s = <<>> THEN Throw(c) ELSE StoreASC(c, s, NextIn(s, {s[1]}, 2), lucky))

(* handleREV: without an allocation the reversal ends before address 0.    *)
ReverseMachineCode(c) ==
    CASE ~IsRunning(c) -> c
      [] IsRunning(c) /\ c.line.at = Null -> [c EXCEPT !.end = "crash"]
      [] IsRunning(c) /\ c.line.at # Null ->
            Write(c, 0, Reverse(SubSeq(c.buffer.bytes, c.line.at + 1,
                                       c.line.at + c.line.size)))

(* getAbsoluteExpression: an immediate expression is an error. *)
AbsoluteExpression(c, e) ==
    IF e.end = "value" /\ e.type = "immediate"
    THEN Throw(Evaluated(c, e))
    ELSE Evaluated(c, e)

BytesLeftInPage == (0 - pc) % 256

CountExpression(s) ==
    IF s = <<"\\">> THEN Absolute(BytesLeftInPage, <<>>) ELSE ExpressionEval(s, Env)

FillExpression(s) == IF s = <<>> THEN Absolute(0, <<>>) ELSE ExpressionEval(s, Env)

(* The fill value is only evaluated if there is a count. *)
SaveDS(c, count, fill) ==
    IF IsRunning(c) /\ IsRunning(AbsoluteExpression(c, fill))
    THEN Emit(AbsoluteExpression(c, fill),
              [i \in 1 .. count.value % 65536 |-> Low(fill.value)])
    ELSE Catch(IF IsRunning(c) THEN AbsoluteExpression(c, fill) ELSE c)

(* handleDS *)
HandleDS(c, count, fill) ==
    IF c.parsed.operands = <<>> THEN Error(c)
    ELSE SaveDS(AbsoluteExpression(c, count), count, fill)

-----------------------------------------------------------------------------
(***************************************************************************)
(* What changes the lines to come.                                         *)
(***************************************************************************)
HandleXC(c) ==
    IF c.parsed.operands = <<"OFF">> THEN [c EXCEPT !.set = 1]
    ELSE IF c.set = Len(InstructionSetTable) THEN Error(c)
         ELSE [c EXCEPT !.set = @ + 1]

Bit(value, n) == (value \div n) % 2 = 1

EmitStatus(c, opcode, value, flag) ==
    IF ~IsRunning(c) THEN Catch(c)
    ELSE [Emit(c, <<opcode, Low(value)>>) EXCEPT
             !.long.XY = IF Bit(value, 16) THEN flag ELSE @,
             !.long.A = IF Bit(value, 32) THEN flag ELSE @]

(* handleREP and handleSEP *)
HandleStatus(c, opcode, e, flag) ==
    IF c.parsed.operands = <<>> THEN Error(c)
    ELSE EmitStatus(AbsoluteExpression(c, e), opcode, e.value, flag)

HandleXCE(c) == [Emit(c, <<\hFB>>) EXCEPT !.long = [A |-> FALSE, XY |-> FALSE]]

(* getNextCommaSeparatedLongArgument: what is left of c by the argument in *)
(* front of the first comma of s.                                          *)
NextLongArgument(c, s) ==
    CASE ~IsRunning(c) -> c
      [] IsRunning(c) /\ Before(s, ",") = <<>> -> Throw(c)
      [] IsRunning(c) /\ Before(s, ",") # <<>> ->
            Evaluated(c, ExpressionEval(Before(s, ","), Env))

EmitMove(c, opcode, dest, source, rest) ==
    IF ~IsRunning(c) THEN Catch(c)
    ELSE IF rest # <<>> THEN Error(c)
         ELSE Emit(c, <<opcode, Highest(dest.value), Highest(source.value)>>)

(* handleMVx *)
HandleMove(c, opcode) ==
    LET s    == c.parsed.operands
        rest == After(s, ",")
    IN  EmitMove(NextLongArgument(NextLongArgument(c, s), rest), opcode,
                 ExpressionEval(Before(s, ","), Env),
                 ExpressionEval(Before(rest, ","), Env), After(rest, ","))

(* handleOpcode.  No table has a handler for MX but the one that ignores.  *)
HandleOpcode(c, entry, lucky) ==
    CASE entry.handler = "opcode" ->
            HandleInstruction(c, AddressingModeEval(c.parsed.operands, Env), entry)
      [] entry.handler = "ignore" -> c
      [] entry.handler = "DB" -> HandleValues(c, 1)
      [] entry.handler = "DA" -> HandleValues(c, 2)
      [] entry.handler = "HEX" -> HandleHEX(c)
      [] entry.handler = "ASC" -> HandleASC(c, lucky)
      [] entry.handler = "REV" -> ReverseMachineCode(HandleASC(c, lucky))
      [] entry.handler = "DS" ->
            HandleDS(c, CountExpression(Before(c.parsed.operands, ",")),
                     FillExpression(After(c.parsed.operands, ",")))
      [] entry.handler = "XC" -> HandleXC(c)
      [] entry.handler = "REP" -> 
            HandleStatus(c, \hC2, ExpressionEval(c.parsed.operands, Env), FALSE)
      [] entry.handler = "SEP" -> 
            HandleStatus(c, \hE2, ExpressionEval(c.parsed.operands, Env), TRUE)
      [] entry.handler = "XCE" -> HandleXCE(c)
      [] entry.handler = "MVN" -> HandleMove(c, \h54)
      [] entry.handler = "MVP" -> HandleMove(c, \h44)

FirstPassAssembleLine(c, table, lucky) ==
    CASE c.parsed.op = <<>> -> c
      [] c.parsed.op # <<>> /\ Head(c.parsed.op) \in DOMAIN table ->
            HandleOpcode(c, table[Head(c.parsed.op)], lucky)
      [] OTHER -> Error(c)

(* What can come of a line: more than one thing where an uninitialized     *)
(* byte decides.                                                           *)
Outcomes(line) ==
    {FirstPassAssembleLine(Context(line), InstructionSetTable[line.set], lucky) :
        lucky \in BOOLEAN}

-----------------------------------------------------------------------------
Init ==
    /\ lines = <<>>
    /\ next = [i \in {0} |-> 0]
    /\ current = 0
    /\ buffer = [bytes |-> [i \in 1 .. BufferSize |-> 0], current |-> 0,
                 lastAlloc |-> 0]
    /\ instructionSet = 1
    /\ long = [A |-> FALSE, XY |-> FALSE]
    /\ pc \in StartAddresses
    /\ symbols = [l \in Labels |-> Undefined]
    /\ refs = [l \in Labels |-> <<>>]
    /\ cursor = <<>>
    /\ phase = "read"
    /\ failed = FALSE

(* Mutant: pLineInfo stays on the line that was updated. *)
UpdatedLineStays(i, end) == i

(* updateLineWithForwardReference restores pLineInfo, unless an exception  *)
(* passes it.                                                              *)
RestoredLine(i, end) == IF end = "escape" THEN i ELSE current

(* What the context c leaves behind, line i having been run.               *)
Leave(c, i, lns, rs) ==
    /\ lines' = [lns EXCEPT ![i] = c.line]
    /\ buffer' = c.buffer
    /\ instructionSet' = c.set
    /\ long' = c.long
    /\ failed' = c.failed
    /\ refs' = [l \in Labels |-> IF l \in c.refs /\ i \notin Range(rs[l])
                                 THEN <<i>> \o rs[l]
                                 ELSE rs[l]]

LabelOf(line) == ParseLine(line.text).label

(* prepareLineInfoForThisLine *)
LinkedBehindCurrent(n) ==
    [i \in 0 .. n |-> IF i = n THEN 0 ELSE IF i = current THEN n ELSE next[i]]

(* parseLine, up to the label. *)
AssembleSourceLine(text) ==
    LET n    == Len(lines) + 1
        line == [text |-> text, address |-> pc, set |-> instructionSet,
                 at |-> Null, size |-> 0]
    IN  /\ phase = "read"
        /\ n <= MaxLines
        /\ next' = LinkedBehindCurrent(n)
        /\ current' = n
        /\ \E c \in Outcomes(line) :
              /\ Leave(c, n, Append(lines, line), refs)
              /\ phase' = IF c.end = "crash" THEN "crashed" ELSE "label"
        /\ UNCHANGED <<pc, symbols, cursor>>

(* addUnhandledLabel: the label of the line just read is its address, and  *)
(* the lines that wait for it are to be updated.                           *)
DefineLabel ==
    LET label == LabelOf(lines[current])
    IN  /\ phase = "label"
        /\ IF label = <<>> \/ symbols[Head(label)] # Undefined
           THEN /\ failed' = (failed \/ label # <<>>)
                /\ phase' = "advance"
                /\ UNCHANGED <<symbols, cursor>>
           ELSE /\ symbols' = [symbols EXCEPT ![Head(label)] = lines[current].address]
                /\ cursor' = refs[Head(label)]
                /\ phase' = "update"
                /\ UNCHANGED failed
        /\ UNCHANGED <<lines, next, current, buffer, instructionSet, long, pc, refs>>

(* updateLineWithForwardReference: the next line that waits for the label  *)
(* of the current line is taken off the symbol's list and run again.       *)
UpdateLine ==
    /\ phase = "update"
    /\ cursor # <<>>
    /\ \E i \in {Head(cursor)} : \E c \in Outcomes(lines[i]) :
          LET label == Head(LabelOf(lines[current]))
          IN  /\ Leave(c, i, lines, [refs EXCEPT ![label] = SelectSeq(@, LAMBDA j : j # i)])
              /\ current' = RestoredLine(i, c.end)
              /\ cursor' = IF c.end = "ok" THEN Tail(cursor) ELSE <<>>
              /\ phase' = CASE c.end = "ok" -> "update"
                            [] c.end = "escape" -> "advance"
                            [] c.end = "crash" -> "crashed"
    /\ UNCHANGED <<next, pc, symbols>>

(* The end of parseLine.  The size is that of the line pLineInfo is at.    *)
Advance ==
    /\ phase = "advance" \/ (phase = "update" /\ cursor = <<>>)
    /\ pc' = (pc + lines[current].size) % 65536
    /\ phase' = "read"
    /\ UNCHANGED <<lines, next, current, buffer, instructionSet, long, symbols,
                   refs, cursor, failed>>

(* Assembler_Run, behind the first pass: checkForUndefinedSymbols. *)
EndOfSource ==
    /\ phase = "read"
    /\ failed' = (failed \/ \E l \in Labels : refs[l] # <<>>)
    /\ phase' = "done"
    /\ UNCHANGED <<lines, next, current, buffer, instructionSet, long, pc,
                   symbols, refs, cursor>>

-----------------------------------------------------------------------------
(***************************************************************************)
(* The listing of the second pass.                                         *)
(***************************************************************************)
(* fillMachineCodeBuffer: up to three of the bytes that are not listed yet. *)
RowCode(code, listed) ==
    SubSeq(code, listed + 1, IF listed + 3 < Len(code) THEN listed + 3 ELSE Len(code))

(* Each row behind the first adds three to an address of 16 bits.          *)
RowAddress(line, r) == (line.address + 3 * (r - 1)) % 65536

(* ListFile_OutputLine: up to three bytes of code in a row, of which the   *)
(* first has the line's number and, if there is code, its address.         *)
Rows(i) ==
    LET line == lines[i]
        code == SubSeq(buffer.bytes, line.at + 1, line.at + line.size)
    IN  IF line.size = 0
        THEN <<[number |-> i, address |-> Null, code |-> <<>>]>>
        ELSE [r \in 1 .. (line.size + 2) \div 3 |->
                [number  |-> IF r = 1 THEN i ELSE 0,
                 address |-> RowAddress(line, r),
                 code    |-> RowCode(code, 3 * (r - 1))]]

(* outputListFile: the rows of the lines that the list's head leads to.    *)
Listing ==
    LET from[i \in DOMAIN next] ==
            IF next[i] = 0 THEN <<>> ELSE Rows(next[i]) \o from[next[i]]
    IN  from[0]

Next ==
    \/ \E text \in Texts([i \in DOMAIN lines |-> lines[i].text]) :
          AssembleSourceLine(text)
    \/ DefineLabel
    \/ UpdateLine
    \/ Advance
    \/ EndOfSource

Spec == Init /\ [][Next]_vars
=============================================================================
