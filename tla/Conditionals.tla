---------------------------- MODULE Conditionals ----------------------------
(***************************************************************************)
(* Conditional assembly: the stack of DO clauses of libsnap/src/           *)
(* Assembler.c and what it makes of the source lines.                      *)
(*                                                                         *)
(* A line takes the state of the innermost clause when it starts and keeps *)
(* it in its LineInfo: a line that is executed again, once the symbol it   *)
(* refers to is defined, is skipped or not by that flag and not by the     *)
(* clauses then open.  DO, ELSE and FIN are executed in skipped code too.  *)
(* One symbol stands for all of them, and one macro without a body: what   *)
(* is modelled of a macro is the assignment of its argument's variable.    *)
(***************************************************************************)
EXTENDS Integers, FiniteSets, SequencesExt

CONSTANTS
    Values,  \* values of DO operands and of the symbol
    MaxLines \* bound: the number of source lines

ASSUME ValuesAssumption ==
    /\ Values \subseteq Nat
    /\ 0 \in Values
    /\ MaxLines \in Nat

VARIABLES
    conditionals, \* pConditionals, the innermost clause last
    lines,        \* the LineInfo list
    symbol,       \* the symbol's value, or its place in the symbol table
    argument,     \* the line that assigned the macro variable ]1, or 0
    failed,       \* errorCount > 0
    warned,       \* warningCount > 0
    phase         \* "first" pass, or "done"

vars == <<conditionals, lines, symbol, argument, failed, warned, phase>>

(* A symbol without an entry in the table, and one with line references.   *)
Absent == -1
Referenced == -2

(* The bits of Conditional::flags. *)
Conditional == [skip : BOOLEAN, inherited : BOOLEAN, seenElse : BOOLEAN]

(* An operand that names the symbol had `value' when it was last evaluated. *)
Line == [kind : {"do", "else", "fin", "code"}, skipped : BOOLEAN,
         operand : {"plain", "symbol"}, value : Values]

IsDefined == symbol \in Values

-----------------------------------------------------------------------------
(* CONDITIONAL_SKIP_STATES_MASK of the innermost clause. *)
SkipState ==
    conditionals # <<>>
    /\ (Last(conditionals).skip \/ Last(conditionals).inherited)

(* Mutant: a new clause looks at its parent's own condition alone. *)
InheritsOwnOnly == conditionals # <<>> /\ Last(conditionals).skip

(* determineInheritedConditionalSkipSourceLineState *)
InheritsSkip == SkipState

NewConditional(v) ==
    [skip |-> v = 0, inherited |-> InheritsSkip, seenElse |-> FALSE]

NewLine(kind, operand, v) ==
    [kind |-> kind, skipped |-> SkipState, operand |-> operand,
     value |-> v]

StartLine(kind, operand, v) ==
    /\ phase = "first"
    /\ Len(lines) < MaxLines
    /\ lines' = Append(lines, NewLine(kind, operand, v))
    /\ UNCHANGED phase

(* DO with an operand that names no symbol. *)
Do(v) ==
    /\ StartLine("do", "plain", v)
    /\ conditionals' = Append(conditionals, NewConditional(v))
    /\ UNCHANGED <<symbol, argument, failed, warned>>

(* DO with an operand in error, or with a symbol that no line has named    *)
(* yet: the clause is not opened.                                          *)
DoInvalid ==
    /\ StartLine("do", "plain", 0)
    /\ failed' = TRUE
    /\ UNCHANGED <<conditionals, symbol, argument, warned>>

(* DO with a symbol that is in the table: one that is still to be defined  *)
(* is not refused, it has the value 0.                                     *)
SymbolValue == IF IsDefined THEN symbol ELSE 0

DoSymbol ==
    /\ symbol # Absent
    /\ StartLine("do", "symbol", SymbolValue)
    /\ conditionals' = Append(conditionals, NewConditional(SymbolValue))
    /\ UNCHANGED <<symbol, argument, failed, warned>>

(* ELSE or FIN outside every clause. *)
WithoutDo(kind) ==
    /\ conditionals = <<>>
    /\ StartLine(kind, "plain", 0)
    /\ warned' = TRUE
    /\ UNCHANGED <<conditionals, symbol, argument, failed>>

(* flipConditionalState and rememberThatConditionalHasSeenElse *)
Flip(c) == [skip |-> ~c.skip, inherited |-> c.inherited, seenElse |-> TRUE]

(* handleELSE flips the clause before it validates that this is the first  *)
(* ELSE.                                                                   *)
Else ==
    /\ conditionals # <<>>
    /\ StartLine("else", "plain", 0)
    /\ conditionals' = [conditionals EXCEPT ![Len(conditionals)] = Flip(@)]
    /\ failed' = (failed \/ Last(conditionals).seenElse)
    /\ UNCHANGED <<symbol, argument, warned>>

Fin ==
    /\ conditionals # <<>>
    /\ StartLine("fin", "plain", 0)
    /\ conditionals' = Front(conditionals)
    /\ UNCHANGED <<symbol, argument, failed, warned>>

-----------------------------------------------------------------------------
(* A line that neither names the symbol nor defines it. *)
Code ==
    /\ StartLine("code", "plain", 0)
    /\ UNCHANGED <<conditionals, symbol, argument, failed, warned>>

(* A line whose operand names the symbol; in skipped code it is not read.  *)
Reference ==
    /\ IF SkipState
       THEN StartLine("code", "plain", 0) /\ UNCHANGED symbol
       ELSE /\ StartLine("code", "symbol", SymbolValue)
            /\ symbol' = IF symbol = Absent THEN Referenced ELSE symbol
    /\ UNCHANGED <<conditionals, argument, failed, warned>>

(* Mutant: like a DO, no other line is executed again. *)
NeverRerun(line, v) == line

(* A line that waited for the symbol is executed again; a DO is not.       *)
Rerun(line, v) ==
    IF line.operand = "symbol" /\ line.kind = "code" /\ ~line.skipped
    THEN [line EXCEPT !.value = v]
    ELSE line

(* Mutant: a DO that waited for the symbol opens its clause again. *)
OpensAgain(v) ==
    IF \E i \in DOMAIN lines : lines[i].kind = "do" /\ lines[i].operand = "symbol"
    THEN Append(conditionals, NewConditional(v))
    ELSE conditionals

(* handleDO returns when isUpdatingForwardReference. *)
DoAgain(v) == conditionals

(* A line that defines the symbol, and the lines that waited for it.       *)
DefineInto(started, v) ==
    IF IsDefined
    THEN /\ failed' = TRUE
         /\ lines' = started
         /\ UNCHANGED <<symbol, conditionals>>
    ELSE /\ symbol' = v
         /\ conditionals' = DoAgain(v)
         /\ lines' = [i \in DOMAIN started |-> Rerun(started[i], v)]
         /\ UNCHANGED failed

Define(v) ==
    /\ phase = "first"
    /\ Len(lines) < MaxLines
    /\ LET started == Append(lines, NewLine("code", "plain", 0)) IN
       IF SkipState
       THEN lines' = started /\ UNCHANGED <<symbol, failed, conditionals>>
       ELSE DefineInto(started, v)
    /\ UNCHANGED <<argument, warned, phase>>

(* handleInvalidOperator asks for no skip state. *)
UnknownOperator ==
    /\ StartLine("code", "plain", 0)
    /\ failed' = TRUE
    /\ UNCHANGED <<conditionals, symbol, argument, warned>>

(* Nor does handleMacroExpansion: the argument is assigned. *)
MacroCall ==
    /\ StartLine("code", "plain", 0)
    /\ argument' = Len(lines) + 1
    /\ UNCHANGED <<conditionals, symbol, failed, warned>>

(* checkForUndefinedSymbols and checkForOpenConditionals *)
EndOfSource ==
    /\ phase = "first"
    /\ phase' = "done"
    /\ failed' = (failed \/ symbol = Referenced)
    /\ warned' = (warned \/ conditionals # <<>>)
    /\ UNCHANGED <<conditionals, lines, symbol, argument>>

Init ==
    /\ conditionals = <<>>
    /\ lines = <<>>
    /\ symbol = Absent
    /\ argument = 0
    /\ failed = FALSE
    /\ warned = FALSE
    /\ phase = "first"

Next ==
    \/ \E v \in Values : Do(v)
    \/ DoInvalid
    \/ DoSymbol
    \/ \E kind \in {"else", "fin"} : WithoutDo(kind)
    \/ Else
    \/ Fin
    \/ Code
    \/ Reference
    \/ \E v \in Values : Define(v)
    \/ UnknownOperator
    \/ MacroCall
    \/ EndOfSource

Spec == Init /\ [][Next]_vars

-----------------------------------------------------------------------------
TypeOK ==
    /\ conditionals \in Seq(Conditional)
    /\ lines \in Seq(Line)
    /\ symbol \in Values \cup {Absent, Referenced}
    /\ argument \in 0 .. Len(lines)
    /\ failed \in BOOLEAN
    /\ warned \in BOOLEAN
    /\ phase \in {"first", "done"}

(***************************************************************************)
(* Safety.                                                                 *)
(***************************************************************************)
(* A clause inherits the skip state exactly when a clause around it skips, *)
(* so that the innermost clause's flags speak for the whole stack.         *)
SkipsAreInherited ==
    \A i \in DOMAIN conditionals :
        conditionals[i].inherited
            <=> \E j \in DOMAIN conditionals : j < i /\ conditionals[j].skip

(* Without an error every assembled line has the symbol's value, whichever *)
(* clauses were open where the symbol was defined.                         *)
LinesHaveTheSymbolsValue ==
    phase = "done" /\ ~failed =>
        \A i \in DOMAIN lines :
            lines[i].kind = "code" /\ lines[i].operand = "symbol"
            => lines[i].value = symbol

(***************************************************************************)
(* Refinement: without an error the branches that are open and the lines   *)
(* that are assembled are those of NestedBranches.                         *)
(***************************************************************************)
BranchOf(c) == [holds |-> c.skip = c.seenElse, inElse |-> c.seenElse]

FateOf(line) == [kind |-> line.kind, assembled |-> ~line.skipped]

BranchesOf(stack) == [i \in DOMAIN stack |-> BranchOf(stack[i])]

FatesOf(ls) == [i \in DOMAIN ls |-> FateOf(ls[i])]

OpenBranches == IF failed THEN <<>> ELSE BranchesOf(conditionals)

Fates == IF failed THEN <<>> ELSE FatesOf(lines)

Nested == INSTANCE NestedBranches
              WITH branches <- OpenBranches, fates <- Fates

(* DO, ELSE and FIN select the lines that nested branches select. *)
RefinesNestedBranches == Nested!Spec

(***************************************************************************)
(* What the documentation promises and the code does not do.               *)
(***************************************************************************)
(* notes/snap.creole: the code after a DO of zero will not be assembled.   *)
(* An operator that is not known is reported all the same, and a macro     *)
(* call assigns its arguments to the variables.                            *)
SkippedCodeHasNoEffect ==
    [][Len(lines') > Len(lines) /\ Last(lines').kind = "code"
           /\ Last(lines').skipped
       => UNCHANGED <<symbol, argument, failed>>]_vars

(* notes/snap.creole: a DO expression can't contain forward references.  A *)
(* symbol that an earlier line already named is taken as 0.                *)
DoHasTheSymbolsValue ==
    phase = "done" /\ ~failed =>
        \A i \in DOMAIN lines :
            lines[i].kind = "do" /\ lines[i].operand = "symbol"
            => lines[i].value = symbol

(* notes/snap.creole: it is an error to use ELSE or FIN without a DO.  It  *)
(* is a warning, and the output files are written.                         *)
UnmatchedIsAnError ==
    phase = "done" /\ ~failed =>
        \A i \in DOMAIN lines :
            lines[i].kind = "fin"
            => Cardinality({j \in 1 .. i : lines[j].kind = "fin"})
                   <= Cardinality({j \in 1 .. i : lines[j].kind = "do"})
=============================================================================
