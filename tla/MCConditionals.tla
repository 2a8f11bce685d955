--------------------------- MODULE MCConditionals ---------------------------
(* Conditionals for TLC: a zero and a non-zero operand.                    *)
EXTENDS Conditionals

MCValues == {0, 1}
=============================================================================
