---------------------------- MODULE NestedTries -----------------------------
(***************************************************************************)
(* How __try, __catch and __rethrow of include/try_catch.h are to be used, *)
(* as conditions on the text of the functions that TLC evaluates for both  *)
(* programs: the macros do not enforce them, and Unwinding keeps its       *)
(* promises for every program that meets them.                             *)
(***************************************************************************)
EXTENDS Unwinding

CONSTANTS
    Contained,  \* functions that no exception leaves
    Quiet       \* functions that leave g_exceptionCode as it is

Functions == DOMAIN Program
Code(fn) == Program[fn].code

Tries(fn) == {t \in DOMAIN Code(fn) : Code(fn)[t].op = "try"}
EndOf(fn, t) == t + Code(fn)[t].landing

\* The __try blocks that instruction p of the function is in, by their beginnings.
Open(fn, p) == {t \in Tries(fn) : t < p /\ p <= EndOf(fn, t)}

ThrowOps == {"throw", "throwValue", "rethrow"}
MayThrow(s) == s.op \in ThrowOps \/ (s.op = "new" /\ s.exception # noException)

\* How far from an instruction the next one may be.
Jumps(s) ==
    IF s.op = "goto" THEN {s.by}
    ELSE IF s.op = "choose" THEN s.by
    ELSE IF s.op = "unless" THEN {1, s.by}
    ELSE IF s.op \in ThrowOps \cup {"return"} THEN {}
    ELSE {1}

---------------------------------------------------------------------------
\* Control stays in the function, but for calls of functions there are.
ASSUME CodeAssumption ==
    \A fn \in Functions :
        /\ Len(Code(fn)) \in Nat \ {0} /\ DOMAIN Code(fn) = 1 .. Len(Code(fn))
        /\ \A p \in DOMAIN Code(fn) :
             /\ \A by \in Jumps(Code(fn)[p]) : by \in Int /\ p + by \in DOMAIN Code(fn)
             /\ Code(fn)[p].op = "call" => Code(fn)[p].function \in Functions

\* A __try and its __catch are the braces of one block: they nest, and each has a handler of its own.
ASSUME TriesAssumption ==
    \A fn \in Functions :
        /\ \A t \in Tries(fn) :
             /\ Code(fn)[t].landing \in Nat \ {0} /\ EndOf(fn, t) \in DOMAIN Code(fn)
             /\ Code(fn)[EndOf(fn, t)].op = "endTry"
             /\ Code(fn)[EndOf(fn, t)].site = Code(fn)[t].site
        /\ \A e \in DOMAIN Code(fn) :
             Code(fn)[e].op = "endTry" => \E t \in Tries(fn) : e = EndOf(fn, t)
        /\ \A t, u \in Tries(fn) :
             /\ Code(fn)[t].site = Code(fn)[u].site => t = u
             /\ t < u /\ u <= EndOf(fn, t) => EndOf(fn, u) < EndOf(fn, t)

\* No function returns from within a __try.
ASSUME ReturnsAssumption ==
    \A fn \in Functions : \A p \in DOMAIN Code(fn) :
        Code(fn)[p].op = "return" => Open(fn, p) = {}

\* What is not in a __try of a contained function neither throws nor calls what may throw; main is one.
ASSUME ContainedAssumption ==
    /\ Mains \subseteq Contained
    /\ \A fn \in Contained \cap Functions : \A p \in DOMAIN Code(fn) : Open(fn, p) = {} =>
         /\ ~ MayThrow(Code(fn)[p])
         /\ Code(fn)[p].op = "call" => Code(fn)[p].function \in Contained

\* The instruction leaves the exception code as it is, unless it throws.
KeepsCode(s) ==
    /\ s.op \notin {"try", "endTry", "clear"}
    /\ s.op = "call" => s.function \in Quiet

ASSUME QuietAssumption ==
    \A fn \in Quiet \cap Functions : \A p \in DOMAIN Code(fn) : KeepsCode(Code(fn)[p])

\* From the test of __catch, c, up to p nothing changes the code, and nothing else leads there.
IsCaught(fn, c, p) ==
    /\ c < p
    /\ Code(fn)[c].op = "unless"
    /\ Code(fn)[c].test = CodeIsNot(noException) /\ Code(fn)[c].by # 1
    /\ \A q \in c + 1 .. p - 1 : KeepsCode(Code(fn)[q])
    /\ \A q \in DOMAIN Code(fn) : \A by \in Jumps(Code(fn)[q]) :
         q + by \in c + 1 .. p => (q = c /\ by = 1) \/ q \in c + 1 .. p - 1

\* __rethrow is in a __catch, and what comes before it there frees things at most.
ASSUME RethrowsAssumption ==
    \A fn \in Functions : \A p \in DOMAIN Code(fn) :
        Code(fn)[p].op = "rethrow" => \E c \in DOMAIN Code(fn) : IsCaught(fn, c, p)

---------------------------------------------------------------------------
\* A break leaves the loop of a __try and not its handler.  The macros cannot prevent it.
LeavesTry ==
    /\ Now.op \in {"goto", "choose", "unless"}
    /\ Open(Frame.fn, Last(frames').pc) # Open(Frame.fn, Frame.pc)

\* The instructions that may do so.
Breaks(fn) ==
    {p \in DOMAIN Code(fn) :
        /\ Code(fn)[p].op \in {"goto", "choose", "unless"}
        /\ \E by \in Jumps(Code(fn)[p]) : Open(fn, p + by) # Open(fn, p)}
=============================================================================
