--------------------------- MODULE NestedBranches ---------------------------
(***************************************************************************)
(* What DO, ELSE and FIN promise: a source line is assembled when every    *)
(* DO clause that is open around it has selected the branch the line is    *)
(* in.  Nothing is promised once an error was reported.                    *)
(***************************************************************************)
EXTENDS Integers, SequencesExt

VARIABLES
    branches, \* the open clauses, outermost first
    fates,    \* each line's kind, and whether it is assembled
    failed    \* an error was reported

vars == <<branches, fates, failed>>

Branch == [holds : BOOLEAN, inElse : BOOLEAN]

Fate == [kind : {"do", "else", "fin", "code"}, assembled : BOOLEAN]

IsSelected(branch) == branch.holds # branch.inElse

Active == \A i \in DOMAIN branches : IsSelected(branches[i])

Pass(kind) ==
    /\ ~failed
    /\ fates' = Append(fates, [kind |-> kind, assembled |-> Active])
    /\ UNCHANGED failed

Open(holds) ==
    /\ Pass("do")
    /\ branches' = Append(branches, [holds |-> holds, inElse |-> FALSE])

InElse(branch) == [holds |-> branch.holds, inElse |-> TRUE]

Switch ==
    /\ branches # <<>>
    /\ ~Last(branches).inElse
    /\ Pass("else")
    /\ branches' = [branches EXCEPT ![Len(branches)] = InElse(@)]

Close ==
    /\ branches # <<>>
    /\ Pass("fin")
    /\ branches' = Front(branches)

(* An ELSE or FIN outside every clause is passed over. *)
PassOver(kind) ==
    /\ branches = <<>>
    /\ Pass(kind)
    /\ UNCHANGED branches

Code ==
    /\ Pass("code")
    /\ UNCHANGED branches

Fail ==
    /\ ~failed
    /\ failed' = TRUE
    /\ branches' = <<>>
    /\ fates' = <<>>

Init ==
    /\ branches = <<>>
    /\ fates = <<>>
    /\ failed = FALSE

Next ==
    \/ \E holds \in BOOLEAN : Open(holds)
    \/ Switch
    \/ Close
    \/ \E kind \in {"else", "fin"} : PassOver(kind)
    \/ Code
    \/ Fail

Spec == Init /\ [][Next]_vars
=============================================================================
