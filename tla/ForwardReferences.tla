------------------------- MODULE ForwardReferences -------------------------
(***************************************************************************)
(* The single pass of the snap assembler over its source lines and the     *)
(* update of the lines that referred to a symbol before it was defined     *)
(* (libsnap/src/Assembler.c, SymbolTable.c, ExpressionEval.c).             *)
(*                                                                         *)
(* snap reads each line once.  An operand that names an undefined symbol   *)
(* is assembled with the value 0 and the line is linked into the symbol's  *)
(* list of line references.  When a line defines the symbol, every line on *)
(* that list is taken off it and assembled again, in the middle of the     *)
(* defining line, with the program counter and the global label of that    *)
(* moment.  A line assembled again may itself define a symbol (EQU), and   *)
(* then the update nests: `calls' is the stack of symbols being updated.   *)
(***************************************************************************)
EXTENDS Integers, FiniteSets, SequencesExt

CONSTANTS
    GlobalNames,    \* labels such as   loop
    LocalNames,     \* labels such as   :loop, scoped by the last global label
    VariableNames,  \* labels such as   ]loop, which may be assigned again
    NoName,         \* an empty label; also the global label at the start
    Statements,     \* the source lines that may be read
    StartAddresses, \* the program counter after the file's leading ORG
    MaxLines        \* bound: the number of source lines

Names == GlobalNames \cup LocalNames \cup VariableNames

(* The values of a 16-bit word. *)
Word == {n \in Nat : n < 65536}

Instructions == {"inst", "imm", "branch"}

(***************************************************************************)
(* A source line: a label, an operator and an operand.  "inst" stands for  *)
(* an instruction with a zero page and an absolute form, "imm" for one     *)
(* with an immediate operand, "branch" for a relative one.  The operand is *)
(* the sum of a constant, of `*' when here holds, and of at most two       *)
(* symbols, evaluated from left to right.                                  *)
(***************************************************************************)
Operand == [const : Nat, here : BOOLEAN,
            first : Names \cup {NoName}, second : Names \cup {NoName}]

Statement == [label : Names \cup {NoName},
              op : Instructions \cup {"none", "equ"}, operand : Operand]

ASSUME NamesAssumption ==
    /\ GlobalNames \cap LocalNames = {}
    /\ GlobalNames \cap VariableNames = {}
    /\ LocalNames \cap VariableNames = {}
    /\ NoName \notin Names

ASSUME StatementsAssumption == Statements \subseteq Statement

ASSUME BoundsAssumption ==
    /\ StartAddresses \subseteq Word
    /\ MaxLines \in Nat

VARIABLES
    lines,       \* the LineInfo list: one record for each line read so far
    symbols,     \* the symbol table: what each key is defined as
    refs,        \* pLineReferences of each symbol, the latest line first
    cursor,      \* pEnumLineReference of each symbol: the references to come
    calls,       \* the symbols being updated, the innermost last
    globalLabel, \* the global label that scopes local ones
    pc,          \* programCounter
    phase,       \* where parseLine is in the current line
    failed,      \* errorCount > 0
    written      \* the second pass has written the output files

vars == <<lines, symbols, refs, cursor, calls, globalLabel, pc, phase,
          failed, written>>

-----------------------------------------------------------------------------
(***************************************************************************)
(* Symbols.  A key is a pair <<global part, local part>>.                  *)
(***************************************************************************)
Keys == ((GlobalNames \cup VariableNames) \X {NoName})
            \cup (GlobalNames \X LocalNames)

(* `line' is the line that defined the symbol, 0 while it is undefined. *)
Symbol == [line : 0 .. MaxLines, value : Nat, zp : BOOLEAN, fwd : BOOLEAN]

UndefinedSymbol == [line |-> 0, value |-> 0, zp |-> FALSE, fwd |-> FALSE]

IsDefined(k) == symbols[k].line # 0

(* The key of a name under a global label. *)
KeyOf(name, scope) ==
    IF name \in LocalNames THEN <<scope, name>> ELSE <<name, NoName>>

(* validateLabelFormat: a local label needs a global one before it. *)
IsValidName(name) == name \in LocalNames => globalLabel # NoName

(***************************************************************************)
(* Evaluating the operand of line i.  An invalid name throws out of the    *)
(* evaluation; the names before it have been looked up by then.            *)
(***************************************************************************)
OperandNames(operand) == {operand.first, operand.second} \ {NoName}

IsEvaluated(operand) == \A n \in OperandNames(operand) : IsValidName(n)

NamesLookedUp(operand) ==
    IF IsValidName(operand.first)
    THEN {n \in OperandNames(operand) : IsValidName(n)}
    ELSE {}

KeysLookedUp(operand) ==
    {KeyOf(n, globalLabel) : n \in NamesLookedUp(operand)}

(* What a name contributes to the expression it occurs in. *)
Term(name) ==
    IF name = NoName
    THEN [value |-> 0, zp |-> TRUE, fwd |-> FALSE]
    ELSE LET s == symbols[KeyOf(name, globalLabel)]
         IN  [value |-> s.value, zp |-> s.zp, fwd |-> s.fwd \/ s.line = 0]

(* Mutant: the flags of the two sides are combined with & instead of |=. *)
EvaluateForgettingFlags(operand) ==
    LET x    == Term(operand.first)
        y    == Term(operand.second)
        here == IF operand.here THEN pc ELSE 0
        sum  == operand.const + here + x.value + y.value
    IN  [value |-> sum,
         zp    |-> x.zp /\ y.zp /\ sum <= 255,
         fwd   |-> x.fwd /\ y.fwd]

(* The sum of the operand's terms, its size class and its forward flag. *)
Evaluate(operand) ==
    LET x    == Term(operand.first)
        y    == Term(operand.second)
        here == IF operand.here THEN pc ELSE 0
        sum  == operand.const + here + x.value + y.value
    IN  [value |-> sum,
         zp    |-> x.zp /\ y.zp /\ sum <= 255,
         fwd   |-> x.fwd \/ y.fwd]

(* Mutant: the line is linked only when the symbol is new to the table.  *)
LineReferenceAddOnce(i, keys, rs) ==
    [k \in Keys |-> IF k \in keys /\ ~IsDefined(k) /\ rs[k] = <<>>
                    THEN <<i>>
                    ELSE rs[k]]

(* Mutant: lines are linked into symbols that are defined, too. *)
LineReferenceAddAlways(i, keys, rs) ==
    [k \in Keys |-> IF k \in keys /\ i \notin Range(rs[k])
                    THEN <<i>> \o rs[k]
                    ELSE rs[k]]

(* Assembler_FindLabel links line i into each undefined symbol it names. *)
LineReferenceAdd(i, keys, rs) ==
    [k \in Keys |-> IF k \in keys /\ ~IsDefined(k) /\ i \notin Range(rs[k])
                    THEN <<i>> \o rs[k]
                    ELSE rs[k]]

(* Mutant: a line that is assembled again stays on the list. *)
LineReferenceKeep(i, list) == list

(* Symbol_LineReferenceRemove: a line is on a list at most once. *)
LineReferenceRemove(i, list) ==
    IF i \in Range(list)
    THEN RemoveAt(list, CHOOSE j \in DOMAIN list : list[j] = i)
    ELSE list

(* Mutant: the enumeration does not move on. *)
CursorStuck(k) == cursor

(* Symbol_LineReferenceEnumNext: the cursor after it returned its line. *)
LineReferenceEnumNext(k) == [cursor EXCEPT ![k] = Tail(@)]

-----------------------------------------------------------------------------
(***************************************************************************)
(* Machine code: its size and its operand bytes (the opcode is left out).  *)
(***************************************************************************)
CodeSize(op, expr) == IF op = "inst" /\ ~expr.zp THEN 3 ELSE 2

BranchOffset(address, value) == value - ((address + 2) % 65536)

IsInReach(offset) == -128 <= offset /\ offset <= 127

CodeBytes(op, address, expr) ==
    IF op = "branch" THEN BranchOffset(address, expr.value) % 256
    ELSE IF CodeSize(op, expr) = 3 THEN expr.value % 65536
    ELSE expr.value % 256

(* handleRelativeAddressingMode lets a forward reference through. *)
IsRefused(op, address, expr) ==
    op = "branch" /\ ~expr.fwd /\ ~IsInReach(BranchOffset(address, expr.value))

(* Mutant: a line assembled again may change its size. *)
NeverMisfit(line, expr) == FALSE

(* A line assembled again must keep the size of its first assembly. *)
IsMisfit(line, expr) ==
    line.size # 0 /\ line.size # CodeSize(line.stmt.op, expr)

(***************************************************************************)
(* A LineInfo.  The fields from `scope' on are history, kept to state      *)
(* properties: the global label when the line was read and, for its last   *)
(* assembly, the keys looked up, the program counter, the global label,    *)
(* and whether a symbol was defined but still waiting itself (`missed').   *)
(***************************************************************************)
NewLine(stmt, scope) ==
    [stmt |-> stmt, address |-> pc, size |-> 0, code |-> 0, wasEqu |-> FALSE,
     scope |-> scope, keys |-> {}, at |-> pc, in |-> scope, missed |-> FALSE]

Line == [stmt : Statements, address : Word, size : {0, 2, 3},
         code : Word, wasEqu : BOOLEAN,
         scope : GlobalNames \cup {NoName}, keys : SUBSET Keys,
         at : Word, in : GlobalNames \cup {NoName}, missed : BOOLEAN]

Looked(line) ==
    LET keys == KeysLookedUp(line.stmt.operand)
    IN  [line EXCEPT !.keys = keys, !.at = pc, !.in = globalLabel,
                     !.missed = \E k \in keys : IsDefined(k) /\ symbols[k].fwd]

-----------------------------------------------------------------------------
(***************************************************************************)
(* attemptToAddSymbol: line i defines its label as expr.  Unless expr      *)
(* still depends on an undefined symbol, the lines that referred to the    *)
(* label are updated next.  `rs' and `cs' are the references and cursors   *)
(* as the evaluation of the line's operand left them.                      *)
(***************************************************************************)
CanDefine(i, name) ==
    /\ IsValidName(name)
    /\ \/ name \in VariableNames
       \/ symbols[KeyOf(name, globalLabel)].line \in {0, i}

AttemptToAddSymbol(i, name, expr, rs, cs) ==
    LET k == KeyOf(name, globalLabel)
    IN  IF CanDefine(i, name)
        THEN /\ symbols' = [symbols EXCEPT ![k] =
                   [line |-> i, value |-> expr.value,
                    zp |-> expr.zp, fwd |-> expr.fwd]]
             /\ IF expr.fwd
                THEN UNCHANGED calls /\ cursor' = cs
                ELSE /\ calls' = Append(calls, k)
                     /\ cursor' = [cs EXCEPT ![k] = rs[k]]
             /\ UNCHANGED failed
        ELSE /\ failed' = TRUE
             /\ cursor' = cs
             /\ UNCHANGED <<symbols, calls>>

(***************************************************************************)
(* firstPassAssembleLine on line i, whether it is the current line or one  *)
(* that is assembled again.                                                *)
(***************************************************************************)
AssembleNothing(i, rs, cs) ==
    /\ lines[i].stmt.op = "none"
    /\ refs' = rs
    /\ cursor' = cs
    /\ UNCHANGED <<lines, symbols, calls, failed>>

HandleEQU(i, rs, cs) ==
    LET line    == Looked(lines[i])
        label   == line.stmt.label
        operand == line.stmt.operand
        added   == LineReferenceAdd(i, line.keys, rs)
    IN  /\ line.stmt.op = "equ"
        /\ refs' = added
        /\ IF IsEvaluated(operand) /\ label \notin LocalNames \cup {NoName}
           THEN /\ lines' = [lines EXCEPT ![i] = [line EXCEPT !.wasEqu = TRUE]]
                /\ AttemptToAddSymbol(i, label, Evaluate(operand), added, cs)
           ELSE /\ lines' = [lines EXCEPT ![i] = line]
                /\ failed' = TRUE
                /\ cursor' = cs
                /\ UNCHANGED <<symbols, calls>>

HandleInstruction(i, rs, cs) ==
    LET line    == Looked(lines[i])
        op      == line.stmt.op
        operand == line.stmt.operand
        expr    == Evaluate(operand)
    IN  /\ op \in Instructions
        /\ refs' = LineReferenceAdd(i, line.keys, rs)
        /\ cursor' = cs
        /\ IF \/ ~IsEvaluated(operand)
              \/ IsRefused(op, line.address, expr)
              \/ IsMisfit(line, expr)
           THEN /\ failed' = TRUE
                /\ lines' = [lines EXCEPT ![i] = line]
           ELSE /\ lines' = [lines EXCEPT ![i] = [line EXCEPT
                       !.size = CodeSize(op, expr),
                       !.code = CodeBytes(op, line.address, expr)]]
                /\ UNCHANGED failed
        /\ UNCHANGED <<symbols, calls>>

FirstPassAssembleLine(i, rs, cs) ==
    \/ AssembleNothing(i, rs, cs)
    \/ HandleEQU(i, rs, cs)
    \/ HandleInstruction(i, rs, cs)

-----------------------------------------------------------------------------
Init ==
    /\ lines = <<>>
    /\ symbols = [k \in Keys |-> UndefinedSymbol]
    /\ refs = [k \in Keys |-> <<>>]
    /\ cursor = [k \in Keys |-> <<>>]
    /\ calls = <<>>
    /\ globalLabel = NoName
    /\ pc \in StartAddresses
    /\ phase = "read"
    /\ failed = FALSE
    /\ written = FALSE

(* parseLine, up to the operator: a new LineInfo, and the line's label is  *)
(* the global one from now on, an EQU's label included.                    *)
ParseLine(stmt) ==
    LET scope == IF stmt.label \in GlobalNames THEN stmt.label ELSE globalLabel
    IN  /\ phase = "read"
        /\ Len(lines) < MaxLines
        /\ lines' = Append(lines, NewLine(stmt, scope))
        /\ globalLabel' = scope
        /\ phase' = "parsed"
        /\ UNCHANGED <<symbols, refs, cursor, calls, pc, failed, written>>

(* The operator of the line just read. *)
AssembleSourceLine ==
    /\ phase = "parsed"
    /\ FirstPassAssembleLine(Len(lines), refs, cursor)
    /\ phase' = "assembled"
    /\ UNCHANGED <<globalLabel, pc, written>>

(* updateLineWithForwardReference: the next line that waits for the symbol *)
(* on top of the stack is taken off its list and assembled again.          *)
UpdateLine ==
    /\ calls # <<>>
    /\ LET k == Last(calls)
       IN  /\ cursor[k] # <<>>
           /\ FirstPassAssembleLine(Head(cursor[k]),
                  [refs EXCEPT ![k] = LineReferenceRemove(Head(cursor[k]), @)],
                  LineReferenceEnumNext(k))
    /\ UNCHANGED <<globalLabel, pc, phase, written>>

(* updateLinesWhichForwardReferencedThisLabel returns. *)
FinishUpdate ==
    /\ calls # <<>>
    /\ cursor[Last(calls)] = <<>>
    /\ calls' = Front(calls)
    /\ UNCHANGED <<lines, symbols, refs, cursor, globalLabel, pc, phase,
                   failed, written>>

(* addUnhandledLabel: the label of a line that is not an EQU is defined as *)
(* the line's address.                                                     *)
AddUnhandledLabel ==
    LET i    == Len(lines)
        line == lines[i]
        expr == [value |-> line.address, zp |-> line.address <= 255,
                 fwd |-> FALSE]
    IN  /\ phase = "assembled"
        /\ calls = <<>>
        /\ IF line.stmt.label = NoName \/ line.wasEqu
           THEN UNCHANGED <<symbols, cursor, calls, failed>>
           ELSE AttemptToAddSymbol(i, line.stmt.label, expr, refs, cursor)
        /\ phase' = "labelled"
        /\ UNCHANGED <<lines, refs, globalLabel, pc, written>>

NextProgramCounter(size) == (pc + size) % 65536

(* The end of parseLine. *)
AdvanceProgramCounter ==
    /\ phase = "labelled"
    /\ calls = <<>>
    /\ pc' = NextProgramCounter(lines[Len(lines)].size)
    /\ phase' = "read"
    /\ UNCHANGED <<lines, symbols, refs, cursor, calls, globalLabel, failed,
                   written>>

(* checkForUndefinedSymbols: a list that is not empty is an error. *)
HasUndefinedSymbols == \E k \in Keys : refs[k] # <<>>

(* checkForUndefinedSymbols, then the second pass. *)
EndOfSource ==
    /\ phase = "read"
    /\ failed' = (failed \/ HasUndefinedSymbols)
    /\ written' = ~failed'
    /\ phase' = "done"
    /\ UNCHANGED <<lines, symbols, refs, cursor, calls, globalLabel, pc>>

Next ==
    \/ \E stmt \in Statements : ParseLine(stmt)
    \/ AssembleSourceLine
    \/ UpdateLine
    \/ FinishUpdate
    \/ AddUnhandledLabel
    \/ AdvanceProgramCounter
    \/ EndOfSource

Spec == Init /\ [][Next]_vars

(* The program is sequential: once in a line, it runs on.                  *)
FairSpec == Spec /\ WF_vars(Next)

-----------------------------------------------------------------------------
TypeOK ==
    /\ lines \in Seq(Line)
    /\ Len(lines) <= MaxLines
    /\ symbols \in [Keys -> Symbol]
    /\ refs \in [Keys -> Seq(1 .. Len(lines))]
    /\ cursor \in [Keys -> Seq(1 .. Len(lines))]
    /\ calls \in Seq(Keys)
    /\ globalLabel \in GlobalNames \cup {NoName}
    /\ pc \in Word
    /\ phase \in {"read", "parsed", "assembled", "labelled", "done"}
    /\ failed \in BOOLEAN
    /\ written \in BOOLEAN

-----------------------------------------------------------------------------
(***************************************************************************)
(* Safety.                                                                 *)
(***************************************************************************)
(* A line whose operand named a symbol that is still undefined is on that  *)
(* symbol's list, so that the definition will find it: neither another     *)
(* symbol's update, nor a nested one, nor a failed assembly drops it.      *)
EveryUndefinedReferenceIsRecorded ==
    \A i \in DOMAIN lines : \A k \in lines[i].keys :
        ~IsDefined(k) => i \in Range(refs[k])

(* Output files are written only when every symbol that any line's operand *)
(* named has been defined (checkForUndefinedSymbols sees every list).      *)
WrittenImpliesDefined ==
    written => \A i \in DOMAIN lines : \A k \in lines[i].keys : IsDefined(k)

(* Between two source lines only a symbol without a final value has lines  *)
(* waiting for it: the updates left no line behind.                        *)
NoReferenceIsLeftBehind ==
    calls = <<>> =>
        \A k \in Keys : refs[k] # <<>> => ~IsDefined(k) \/ symbols[k].fwd

(* The enumeration of a symbol's references runs over the list while lines *)
(* are freed from it, and each symbol has a single cursor however often it *)
(* is being updated: the cursor never points to a freed reference, and     *)
(* never skips one that is still on the list.                              *)
CursorFollowsTheList ==
    \A j \in DOMAIN calls : cursor[calls[j]] = refs[calls[j]]

(* Lines occupy consecutive addresses, unless an error was reported: a     *)
(* line assembled again has kept the size the following lines counted on.  *)
LinesAreContiguous ==
    ~failed => \A i \in 1 .. Len(lines) - 1 :
        lines[i + 1].address = (lines[i].address + lines[i].size) % 65536

(* The value an operand has under the symbol table as it stands, taken     *)
(* where the line was read.                                                *)
CurrentExpr(line) ==
    LET term(name) ==
            IF name = NoName THEN [value |-> 0, zp |-> TRUE]
            ELSE LET s == symbols[KeyOf(name, line.scope)]
                 IN  [value |-> s.value, zp |-> s.zp]
        x   == term(line.stmt.operand.first)
        y   == term(line.stmt.operand.second)
        sum == line.stmt.operand.const + x.value + y.value
                 + (IF line.stmt.operand.here THEN line.address ELSE 0)
    IN  [value |-> sum, zp |-> x.zp /\ y.zp /\ sum <= 255]

IsCodeCurrent(line) ==
    LET expr == CurrentExpr(line)
    IN  /\ line.size = CodeSize(line.stmt.op, expr)
        /\ line.code = CodeBytes(line.stmt.op, line.address, expr)

InstructionLines ==
    {i \in DOMAIN lines : lines[i].stmt.op \in Instructions}

Mentions(line, names) == OperandNames(line.stmt.operand) \cap names # {}

(* Names whose EQUs name no others, no variable among them. *)
AreClosed(names) ==
    /\ names \cap VariableNames = {}
    /\ \A i \in DOMAIN lines :
          lines[i].stmt.op = "equ" /\ lines[i].stmt.label \in names =>
              OperandNames(lines[i].stmt.operand) \subseteq names

(* A line whose operand depends on no variable, directly or through EQUs. *)
UsesNoVariable(line) ==
    \E names \in SUBSET (GlobalNames \cup LocalNames) :
        /\ OperandNames(line.stmt.operand) \subseteq names
        /\ AreClosed(names)

(* Lines that the known departures below do not concern. *)
IsPlain(line) ==
    /\ ~line.missed
    /\ UsesNoVariable(line)
    /\ Mentions(line, LocalNames) => line.in = line.scope
    /\ line.stmt.operand.here => line.at = line.address

(* The machine code that is written is that of the operand under the final *)
(* symbol table, however the definitions and the uses were ordered and     *)
(* however the updates nested.                                             *)
CodeMatchesSymbols ==
    written => \A i \in InstructionLines :
        IsPlain(lines[i]) => IsCodeCurrent(lines[i])

(* A branch that is written reaches its target: a forward branch, which is *)
(* not checked when it is read, is checked when it is assembled again.     *)
BranchesReach ==
    written => \A i \in InstructionLines :
        lines[i].stmt.op = "branch" /\ IsPlain(lines[i]) =>
            IsInReach(BranchOffset(lines[i].address,
                                   CurrentExpr(lines[i]).value))

(***************************************************************************)
(* Liveness.                                                               *)
(***************************************************************************)
(* Nested updates come to an end, also when EQUs depend on each other in a *)
(* circle or a variable on itself: every source is assembled to its end.   *)
EverySourceIsFinished == <>(phase = "done")

(***************************************************************************)
(* What the documentation and a comment promise and the code does not do.  *)
(***************************************************************************)
(* notes/snap.creole: an expression with forward references is evaluated   *)
(* once they have been defined.  The code evaluates again only the lines   *)
(* of undefined symbols, and not of a symbol EQU to an undefined one.      *)
DelayedEvaluationCompletes ==
    written => \A i \in InstructionLines :
        /\ ~Mentions(lines[i], VariableNames \cup LocalNames)
        /\ ~lines[i].stmt.operand.here
        => IsCodeCurrent(lines[i])

(* notes/snap.creole: `*' is the address of the line that uses it.  A line *)
(* assembled again sees the program counter of the defining line.          *)
CurrentAddressIsOfTheLine ==
    written => \A i \in InstructionLines :
        /\ ~Mentions(lines[i], VariableNames \cup LocalNames)
        /\ ~lines[i].missed
        => IsCodeCurrent(lines[i])

(* notes/snap.creole: a local label is of the global scope it is used in.  *)
(* A line assembled again looks it up in the scope of the defining line.   *)
LocalLabelsKeepTheirScope ==
    written => \A i \in InstructionLines :
        /\ ~Mentions(lines[i], VariableNames)
        /\ ~lines[i].missed
        /\ ~lines[i].stmt.operand.here
        => IsCodeCurrent(lines[i])

(* notes/snap.creole: a variable has the value assigned to it last.  An    *)
(* assignment that is assembled again overwrites the later ones.           *)
MostRecentAssignment ==
    phase = "parsed" =>
        \A v \in VariableNames :
            LET assigned == {i \in 1 .. Len(lines) - 1 : lines[i].stmt.label = v}
            IN  assigned # {} =>
                    symbols[<<v, NoName>>].line =
                        CHOOSE i \in assigned : \A j \in assigned : j <= i

(* notes/snap.creole: only variables can be defined multiple times, so a   *)
(* label that is no variable keeps its value once that depends on no       *)
(* undefined symbol.  But an EQU that names a variable and a symbol is     *)
(* assembled again for each of them, the variable is assigned again in     *)
(* between, and the lines that used the first value are not looked at      *)
(* again.                                                                  *)
DefinitionsAreStable ==
    [][\A k \in Keys :
         k[1] \notin VariableNames /\ IsDefined(k) =>
             /\ symbols[k].line = symbols'[k].line
             /\ ~symbols[k].fwd => symbols'[k] = symbols[k]]_vars
=============================================================================
