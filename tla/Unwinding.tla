----------------------------- MODULE Unwinding ------------------------------
(***************************************************************************)
(* The exceptions of the two programs: __try, __catch and __throw over     *)
(* setjmp and longjmp (include/try_catch.h), and what is left allocated    *)
(* when one unwinds the stack.                                             *)
(*                                                                         *)
(* Every __try keeps a handler in the frame of its function: the handler   *)
(* that was on top before it, and the point a longjmp comes back to, the   *)
(* end of its block.  __catch puts the previous handler back on top.       *)
(* Nothing else does: a return or a break that leaves the block leaves the *)
(* handler on top.  A handler is at an address, the place of the frame on  *)
(* the stack and of the block in the function, which the next call of the  *)
(* function there uses again.                                              *)
(*                                                                         *)
(* Variables keep their values over a longjmp: they are in memory, as the  *)
(* compilers leave those of a function that calls setjmp.                  *)
(***************************************************************************)
EXTENDS Statements, Integers, Sequences, SequencesExt, TLC

CONSTANTS
    Program,      \* every function by its name
    Globals,      \* the variables of no function, at the start
    Mains,        \* the functions that may be run
    MaxFailures   \* bound: the allocations and fopens that fail in a run

ASSUME ProgramAssumption == Mains \subseteq DOMAIN Program
ASSUME FailuresAssumption == MaxFailures \in Nat

\* The address no handler has: g_pExceptionHandlers is NULL.
NoHandler == <<0, "none", "none">>

\* What a place is worth when the way to it leaves the live objects.
Wild == -1

VARIABLES
    frames,      \* the functions that are running, the innermost last
    handlers,    \* the handlers by their addresses, in the frames that are live
    top,         \* g_pExceptionHandlers
    code,        \* g_exceptionCode
    heap,        \* the live objects by their numbers
    globals,
    allocated,   \* objects so far: a number is never given again
    failures,    \* allocations and fopens that failed so far
    outcome      \* "running", or how the program ended

vars == <<frames, handlers, top, code, heap, globals, allocated, failures, outcome>>

---------------------------------------------------------------------------
(* Places *)

Frame == Last(frames)
Now == Program[Frame.fn].code[Frame.pc]

\* The field of the object with that number: allocateAndZero leaves NULL in those never set.
Field(id, f) ==
    IF id \notin DOMAIN heap THEN Wild
    ELSE IF f \in DOMAIN heap[id].fields THEN heap[id].fields[f]
    ELSE NULL

Value(frame, place) ==
    LET Reached[i \in DOMAIN place] ==
            IF i > 1 THEN Field(Reached[i - 1], place[i])
            ELSE IF place[1] \in DOMAIN frame.locals THEN frame.locals[place[1]]
            ELSE globals[place[1]]
    IN  Reached[Len(place)]

Here(place) == Value(Frame, place)

\* Whether the object the place is a field of is live.
IsReachable(frame, place) == Len(place) < 2 \/ Value(frame, Front(place)) \in DOMAIN heap

\* The frame, the objects and the globals after the place was given the value.
Stored(frame, place, value, objects) ==
    LET isLocal  == Len(place) = 1 /\ place[1] \in DOMAIN frame.locals
        isGlobal == Len(place) = 1 /\ place[1] \notin DOMAIN frame.locals
    IN  [frame   |-> IF isLocal THEN [frame EXCEPT !.locals[place[1]] = value] ELSE frame,
         globals |-> IF isGlobal THEN [globals EXCEPT ![place[1]] = value] ELSE globals,
         heap    |-> IF Len(place) < 2 THEN objects
                     ELSE [objects EXCEPT ![Value(frame, Front(place))].fields = (Last(place) :> value) @@ @]]

\* The program stops: the frames are gone, and what is allocated stays for the invariants to see.
Stop(how) ==
    /\ outcome' = how
    /\ UNCHANGED <<frames, handlers, top, code, heap, globals, allocated, failures>>

Go(by) == frames' = [frames EXCEPT ![Len(frames)].pc = @ + by]
Continue == Go(1)

\* The next instruction, with the value in the place, and the objects there are now.
Store(place, value, objects) ==
    LET after == Stored(Frame, place, value, objects)
    IN  /\ frames' = Append(Front(frames), [after.frame EXCEPT !.pc = @ + 1])
        /\ globals' = after.globals
        /\ heap' = after.heap
        /\ UNCHANGED <<handlers, top, code, outcome>>

---------------------------------------------------------------------------
(* Objects *)

\* The objects of the list: from this one, following the field.
Members(first, field) ==
    LET Reach[id \in Int] == IF id \in {NULL, Wild} THEN <<>> ELSE <<id>> \o Reach[Field(id, field)]
    IN  Reach[first]

\* What a free instruction frees, in its order.
Freed(s) ==
    IF s.op = "free" THEN SelectSeq([i \in DOMAIN s.places |-> Here(s.places[i])], LAMBDA id : id # NULL)
    ELSE FlattenSeq([i \in DOMAIN Members(Here(s.place), s.next) |->
             LET id == Members(Here(s.place), s.next)[i] IN Members(Field(id, s.field), "pNext") \o <<id>>])

\* The places whose values a instruction uses.
Uses(s) ==
    CASE s.op = "copy"                          -> {s.from}
      [] s.op \in {"unless", "require"}           -> IF s.test.test \in {"is", "isNot", "less"} THEN {s.test.place} ELSE {}
      [] s.op = "call"                          -> {s.args[i] : i \in DOMAIN s.args}
      [] s.op = "throwValue"                    -> {s.place}
      [] s.op = "return" /\ s.place # Nowhere   -> {s.place}
      [] OTHER                                  -> {}

Targets(s) == IF s.op \in {"new", "put", "copy", "count"} THEN {s.place} ELSE {}

\* The instruction reads or writes through a pointer to nothing, or frees what is not allocated.
GoesWild(s) ==
    \/ \E p \in Uses(s) : Here(p) = Wild
    \/ \E p \in Targets(s) : ~ IsReachable(Frame, p)
    \/ /\ s.op \in {"free", "freeList"}
       /\ \/ \E i \in DOMAIN Freed(s) : Freed(s)[i] \notin DOMAIN heap
          \/ ~ IsInjective(Freed(s))

Succeed(s) ==
    /\ s.op = "new"
    /\ allocated' = allocated + 1
    /\ Store(s.place, allocated', (allocated' :> [kind |-> s.kind, fields |-> <<>>]) @@ heap)
    /\ UNCHANGED failures

Release(s) ==
    /\ s.op = "free" \/ s.op = "freeList"
    /\ heap' = [id \in DOMAIN heap \ Range(Freed(s)) |-> heap[id]]
    /\ Continue
    /\ UNCHANGED <<handlers, top, code, globals, allocated, failures, outcome>>

Move(s, op, value) ==
    /\ s.op = op
    /\ Store(s.place, value, heap)
    /\ UNCHANGED <<allocated, failures>>

PutNumber(s) == Move(s, "put", s.number)
CopyValue(s) == Move(s, "copy", Here(s.from))
CountUp(s) == Move(s, "count", Here(s.place) + 1)
GetCode(s) == Move(s, "getCode", code)

---------------------------------------------------------------------------
(* Control *)

Holds(test) ==
    CASE test.test = "is"     -> Here(test.place) = test.number
      [] test.test = "isNot"  -> Here(test.place) # test.number
      [] test.test = "less"   -> Here(test.place) < test.number
      [] test.test = "codeIs" -> code \in test.codes
      [] test.test = "codeIsNot" -> code # test.code

\* Only the place in the function changes.
Jump(by) ==
    /\ Go(by)
    /\ UNCHANGED <<handlers, top, code, heap, globals, allocated, failures, outcome>>

Branch(s) ==
    /\ s.op = "unless"
    /\ Jump(IF Holds(s.test) THEN 1 ELSE s.by)

Choose(s) ==
    /\ s.op = "choose"
    /\ \E by \in s.by : Jump(by)

JumpAlong(s) ==
    /\ s.op = "goto"
    /\ Jump(s.by)

\* The variables of a function that is called: NULL but for the arguments.
Locals(f, args) ==
    [x \in Range(f.params) |-> args[SelectInSeq(f.params, LAMBDA y : y = x)]] @@ [x \in Range(f.others) |-> NULL]

NewFrame(fn, args) == [fn |-> fn, locals |-> Locals(Program[fn], args), pc |-> 1, entry |-> top]

CallFunction(s) ==
    /\ s.op = "call"
    /\ frames' = Append(frames, NewFrame(s.function, [i \in DOMAIN s.args |-> Here(s.args[i])]))
    /\ UNCHANGED <<handlers, top, code, heap, globals, allocated, failures, outcome>>

\* The handlers in the first n frames.
HandlersIn(n) == [a \in {b \in DOMAIN handlers : b[1] <= n} |-> handlers[a]]

\* The caller waits at its call, which names the place for the result.
ReturnFromFunction(s) ==
    /\ s.op = "return"
    /\ Len(frames) > 1
    /\ LET caller == frames[Len(frames) - 1]
           call   == Program[caller.fn].code[caller.pc]
           after  == IF call.place = Nowhere THEN [frame |-> caller, globals |-> globals, heap |-> heap]
                     ELSE Stored(caller, call.place, IF s.place = Nowhere THEN NULL ELSE Here(s.place), heap)
       IN  /\ frames' = Append(Front(Front(frames)), [after.frame EXCEPT !.pc = @ + 1])
           /\ globals' = after.globals
           /\ heap' = after.heap
    /\ handlers' = HandlersIn(Len(frames) - 1)
    /\ UNCHANGED <<top, code, allocated, failures, outcome>>

Exit(s) ==
    /\ s.op = "return"
    /\ Len(frames) = 1
    /\ Stop(IF Here(s.place) = 0 THEN "success" ELSE "failure")

Abort(s) ==
    /\ s.op = "require"
    /\ ~ Holds(s.test)
    /\ Stop("aborted")

Pass(s) ==
    /\ s.op = "require"
    /\ Holds(s.test)
    /\ Jump(1)

---------------------------------------------------------------------------
(* Exceptions *)

Address(site) == <<Len(frames), Frame.fn, site>>

EnterTry(s) ==
    /\ s.op = "try"
    /\ handlers' = [a \in DOMAIN handlers \cup {Address(s.site)} |->
                       IF a = Address(s.site) THEN [pPrevious |-> top, landing |-> Frame.pc + s.landing]
                       ELSE handlers[a]]
    /\ top' = Address(s.site)
    /\ code' = noException
    /\ Continue
    /\ UNCHANGED <<heap, globals, allocated, failures, outcome>>

\* Mutant: the handler stays on top.
EndTryKeepsHandler(s) ==
    /\ s.op = "endTry"
    /\ Continue
    /\ UNCHANGED <<handlers, top, code, heap, globals, allocated, failures, outcome>>

\* __catch puts the previous handler back; the test of the code comes next.
EndTry(s) ==
    /\ s.op = "endTry"
    /\ top' = handlers[Address(s.site)].pPrevious
    /\ Continue
    /\ UNCHANGED <<handlers, code, heap, globals, allocated, failures, outcome>>

SetExceptionCode(exception) == code' = IF exception > code THEN exception ELSE code

\* longjmp to the handler on top: its frame is the innermost again.
LongJump ==
    IF top \in DOMAIN handlers
    THEN /\ frames' = Append(SubSeq(frames, 1, top[1] - 1), [frames[top[1]] EXCEPT !.pc = handlers[top].landing])
         /\ handlers' = HandlersIn(top[1])
         /\ UNCHANGED <<top, heap, globals, allocated, outcome>>
    ELSE /\ outcome' = IF top = NoHandler THEN "unhandled" ELSE "wild"
         /\ UNCHANGED <<frames, handlers, top, heap, globals, allocated>>

ThrowException(exception) ==
    /\ SetExceptionCode(exception)
    /\ LongJump

Throws(s) ==
    /\ \/ s.op = "throw" /\ ThrowException(s.exception)
       \/ s.op = "throwValue" /\ ThrowException(Here(s.place))
       \/ s.op = "rethrow" /\ ThrowException(code)
    /\ UNCHANGED failures

Fail(s) ==
    /\ s.op = "new"
    /\ failures < MaxFailures
    /\ failures' = failures + 1
    /\ IF s.exception = noException
       THEN Store(s.place, NULL, heap) /\ UNCHANGED allocated
       ELSE ThrowException(s.exception)

Clear(s) ==
    /\ s.op = "clear"
    /\ code' = noException
    /\ Continue
    /\ UNCHANGED <<handlers, top, heap, globals, allocated, failures, outcome>>

---------------------------------------------------------------------------
Init ==
    /\ \E main \in Mains :
         frames = <<[fn     |-> main,
                     locals |-> [x \in Range(Program[main].others) |-> NULL],
                     pc     |-> 1,
                     entry  |-> NoHandler]>>
    /\ handlers = <<>>
    /\ top = NoHandler
    /\ code = noException
    /\ heap = <<>>
    /\ globals = Globals
    /\ allocated = 0
    /\ failures = 0
    /\ outcome = "running"

Step(s) ==
    \/ Succeed(s) \/ Fail(s) \/ Release(s)
    \/ PutNumber(s) \/ CopyValue(s) \/ CountUp(s) \/ GetCode(s)
    \/ Branch(s) \/ Choose(s) \/ JumpAlong(s)
    \/ CallFunction(s) \/ ReturnFromFunction(s) \/ Exit(s) \/ Abort(s) \/ Pass(s)
    \/ EnterTry(s) \/ EndTry(s) \/ Throws(s) \/ Clear(s)

\* A run is not followed any further than an instruction that goes wild: see MemoryIsSafe.
Next ==
    /\ outcome = "running"
    /\ \E s \in {Now} : ~ GoesWild(s) /\ Step(s)

\* A program that is running goes on.
Spec == Init /\ [][Next]_vars /\ WF_vars(Next)

---------------------------------------------------------------------------
(* Properties *)

\* Nothing is used after it was freed, freed twice, or reached through NULL, and no throw jumps into
\* the frame of a function that has returned.
MemoryIsSafe ==
    /\ outcome = "running" => ~ GoesWild(Now)
    /\ outcome # "wild"

\* An exception reaches the __try around it: a function that returns leaves on top the handler that
\* was there when it was called, what a __catch throws again is an exception, and main catches all.
ExceptionsReachTheirTry ==
    /\ outcome = "running" => /\ (Now.op = "return" => top = Frame.entry)
                             /\ (Now.op = "rethrow" => code # noException)
    /\ outcome # "unhandled"

\* Every run ends, whatever fails: no catch throws into its own __try.
EveryRunEnds == <>(outcome # "running")
=============================================================================
