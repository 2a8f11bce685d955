----------------------- MODULE MCForwardReferences -------------------------
(* Small sources for ForwardReferences: three global labels, one local,    *)
(* one variable, and lines that use and define them in every order.        *)
EXTENDS ForwardReferences

CONSTANTS a, b, c, loc, v

Op(const, names) ==
    [const |-> const, here |-> FALSE,
     first |-> IF names = <<>> THEN NoName ELSE names[1],
     second |-> IF Len(names) < 2 THEN NoName ELSE names[2]]

HereOp(names) == [Op(0, names) EXCEPT !.here = TRUE]

Source(label, op, operand) == [label |-> label, op |-> op, operand |-> operand]

Label(name) == Source(name, "none", Op(0, <<>>))

(* Globals, chains of EQUs, and the instruction that outgrows its guess.   *)
ChainStatements ==
    {Label(a), Label(b),
     Source(a, "equ", Op(0, <<b>>)),
     Source(b, "equ", Op(0, <<c>>)),
     Source(b, "equ", Op(1, <<a, c>>)),
     Source(c, "equ", Op(5, <<>>)),
     Source(c, "equ", Op(300, <<>>)),
     Source(NoName, "inst", Op(0, <<b>>)),
     Source(c, "inst", Op(1, <<a, b>>)),
     Source(NoName, "imm", Op(0, <<a>>)),
     Source(NoName, "branch", Op(0, <<c>>)),
     Source(NoName, "equ", Op(0, <<a>>))}

(* Local labels, `*' and variables, with the globals that trigger updates. *)
ScopeStatements ==
    {Label(a), Label(b), Label(loc), Label(v),
     Source(b, "equ", Op(2, <<v>>)),
     Source(a, "imm", Op(0, <<b, loc>>)),
     Source(loc, "imm", Op(7, <<>>)),
     Source(NoName, "imm", HereOp(<<b>>)),
     Source(NoName, "inst", Op(0, <<loc, a>>)),
     Source(NoName, "branch", Op(0, <<loc>>)),
     Source(loc, "equ", Op(1, <<>>)),
     Source(v, "equ", Op(0, <<b>>)),
     Source(v, "equ", Op(1, <<v>>)),
     Source(v, "equ", Op(300, <<>>)),
     Source(NoName, "imm", Op(0, <<v>>))}

(* A variable that is assigned twice while a symbol EQU to it is waiting.  *)
VariableStatements ==
    {Label(a),
     Source(c, "equ", Op(0, <<a, v>>)),
     Source(v, "equ", Op(0, <<a>>)),
     Source(v, "equ", Op(1, <<a>>)),
     Source(NoName, "imm", Op(0, <<c>>)),
     Source(NoName, "imm", Op(0, <<a>>))}

AllStatements == ChainStatements \cup ScopeStatements \cup VariableStatements

(* The end of the zero page, and the wrap of the program counter.          *)
TwoStarts == {253, 65532}

(* A source is written in one of the vocabularies, which meet different    *)
(* hazards; scopes and variables do not depend on where the code starts.   *)
OneVocabulary ==
    \/ /\ \A i \in DOMAIN lines : lines[i].stmt \in ChainStatements
       /\ Len(lines) <= 4
    \/ /\ \A i \in DOMAIN lines :
              /\ lines[i].stmt \in ScopeStatements
              /\ i = 1 => lines[i].address = 253
       /\ Len(lines) <= 4
    \/ \A i \in DOMAIN lines :
           /\ lines[i].stmt \in VariableStatements
           /\ i = 1 => lines[i].address = 253
=============================================================================
