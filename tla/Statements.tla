----------------------------- MODULE Statements -----------------------------
(***************************************************************************)
(* The statements that matter when an exception unwinds the programs:      *)
(* what they allocate and free, where they keep it, which __try they are   *)
(* in, and what they throw.  A statement is a sequence of instructions,    *)
(* and a block is a sequence of statements.                                *)
(*                                                                         *)
(* A place is a sequence of names: a variable, and the fields to follow    *)
(* from the object it points to, as in pThis->pSymbols->ppBuckets.         *)
(***************************************************************************)
LOCAL INSTANCE Integers
LOCAL INSTANCE Sequences
LOCAL INSTANCE SequencesExt

NULL == 0

\* The place for a result that nobody keeps.
Nowhere == <<>>

Var(x) == <<x>>
At(x, f) == <<x, f>>

\* The codes of the exceptions: setExceptionCode keeps the greatest.
noException == 0
outOfMemoryException == 2
fileOpenException == 3
fileException == 4
invalidArgumentException == 8
invalidSectorException == 13
missingOperandException == 18
invalidArgumentCountException == 19

---------------------------------------------------------------------------
(* Instructions, with jumps over so many of them *)

\* A statement of one instruction.
Only(instruction) == <<instruction>>

Goto(by) == Only([op |-> "goto", by |-> by])
Unless(test, by) == Only([op |-> "unless", test |-> test, by |-> by])

\* The instructions of a block that is the body of a loop or of a __try; a break leaves it.
Body(block) ==
    LET instructions == FlattenSeq(block) IN
    [i \in DOMAIN instructions |->
        IF instructions[i].op = "break" THEN Head(Goto(Len(instructions) + 2 - i)) ELSE instructions[i]]

---------------------------------------------------------------------------
(* Objects *)

\* Take an object of that kind, or throw that exception: an allocation that allocateAndZero or
\* its caller checks, or an fopen.
New(place, kind, exception) == Only([op |-> "new", place |-> place, kind |-> kind, exception |-> exception])

\* Take an object of that kind, or leave NULL in the place: a malloc whose caller looks at the result.
Malloc(place, kind) == New(place, kind, noException)

\* free or fclose of the object each place points to, in that order; nothing for NULL.
Free(places) == Only([op |-> "free", places |-> places])

\* Frees the list that starts at the place, each object after the list its field holds points to.
FreeList(place, next, field) == Only([op |-> "freeList", place |-> place, next |-> next, field |-> field])

Put(place, number) == Only([op |-> "put", place |-> place, number |-> number])
Copy(place, from) == Only([op |-> "copy", place |-> place, from |-> from])
Count(place) == Only([op |-> "count", place |-> place])

---------------------------------------------------------------------------
(* Control *)

Call(place, function, args) == Only([op |-> "call", place |-> place, function |-> function, args |-> args])
Return(place) == Only([op |-> "return", place |-> place])

\* if (...) { then; goto over } else
If(test, then, else) ==
    LET yes == FlattenSeq(then)
        no  == FlattenSeq(else)
    IN  Unless(test, Len(yes) + 2) \o yes \o Goto(Len(no) + 1) \o no

\* again: if (...) { body; goto again }
While(test, block) ==
    LET body == Body(block) IN Unless(test, Len(body) + 2) \o body \o Goto(0 - Len(body) - 1)

\* One of these blocks, for what depends on the sources, the files and the arguments.
Either(ways) ==
    LET Before(way, others) ==
          LET first == FlattenSeq(way) IN
          [starts |-> {1} \cup {Len(first) + 1 + start : start \in others.starts},
           code   |-> first \o Goto(Len(others.code) + 1) \o others.code]
        all == FoldRight(Before, ways, [starts |-> {}, code |-> <<>>])
    IN  Only([op |-> "choose", by |-> all.starts]) \o all.code

Break == Only([op |-> "break"])

Is(place, number) == [test |-> "is", place |-> place, number |-> number]
IsNull(place) == Is(place, NULL)
Some(place) == [test |-> "isNot", place |-> place, number |-> NULL]
Less(place, number) == [test |-> "less", place |-> place, number |-> number]
CodeIs(codes) == [test |-> "codeIs", codes |-> codes]
CodeIsNot(noCode) == [test |-> "codeIsNot", code |-> noCode]

---------------------------------------------------------------------------
(* Exceptions *)

\* do { if (0 == setjmp(...)) { block } ... } while(0); if (g_exceptionCode) catch
Try(site, block, catch) ==
    LET body     == Body(block)
        handling == FlattenSeq(catch)
    IN  Only([op |-> "try", site |-> site, landing |-> Len(body) + 1]) \o body
            \o Only([op |-> "endTry", site |-> site])
            \o Unless(CodeIsNot(noException), Len(handling) + 1) \o handling
Throw(exception) == Only([op |-> "throw", exception |-> exception])
ThrowValue(place) == Only([op |-> "throwValue", place |-> place])
Rethrow == Only([op |-> "rethrow"])
ClearExceptionCode == Only([op |-> "clear"])
Nothrow == <<ClearExceptionCode, Return(Nowhere)>>
GetExceptionCode(place) == Only([op |-> "getCode", place |-> place])

\* assert: the program aborts when the test does not hold.
Require(test) == Only([op |-> "require", test |-> test])

---------------------------------------------------------------------------
\* A function: the names of its parameters, those of its other variables, and its instructions.
Function(params, others, block) ==
    [params |-> params, others |-> others, code |-> FlattenSeq(Append(block, Return(Nowhere)))]
=============================================================================
