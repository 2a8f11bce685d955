---------------------------- MODULE MockSupport ----------------------------
(***************************************************************************)
(* CppUMock (CppUTest/src/CppUTestExt): a test says which calls it         *)
(* expects, the stubs it runs report the calls made to them, and each call *)
(* made is matched with one that was expected.                             *)
(*                                                                         *)
(* The matching is a narrowing: a call that begins takes all expectations  *)
(* of its scope that are not fulfilled, and its name, then each parameter, *)
(* then its object drop those that disagree, until one of the rest has all *)
(* it asks for.  The lists of the code are sequences; the candidates of a  *)
(* call are the indices of the expectations it has left.                   *)
(***************************************************************************)
EXTENDS Integers, Sequences, FiniteSets, Functions, SequencesExt

CONSTANTS
  Global,   \* the scope of mock()
  NoObject  \* the object of a call that names none

NotCalledYet == -1
NoExpectedCallOrder == -1

(* A call is [name, parameters, object]: its parameters the sequence of
   <<name, value>> in the order in which they are passed.  An expected one
   has ignore too: whether it takes parameters it does not name. *)
ExpectedFunctionCall(call, order) ==
  [name |-> call.name,
   parameters |-> [p \in {call.parameters[i][1] : i \in DOMAIN call.parameters} |->
                     call.parameters[CHOOSE i \in DOMAIN call.parameters :
                                       call.parameters[i][1] = p][2]],
   passed |-> {},
   object |-> call.object,
   passedToObject |-> call.object = NoObject,
   ignoreOtherParameters |-> call.ignore,
   parametersWereIgnored |-> FALSE,
   callOrder |-> NotCalledYet,
   expectedCallOrder |-> order,
   outOfOrder |-> TRUE]

AreParametersFulfilled(e) == e.passed = DOMAIN e.parameters

IsFulfilledWithoutIgnoredParameters(e) ==
  e.callOrder # NotCalledYet /\ AreParametersFulfilled(e) /\ e.passedToObject

IsFulfilled(e) ==
  /\ IsFulfilledWithoutIgnoredParameters(e)
  /\ e.ignoreOtherParameters => e.parametersWereIgnored

HasParameter(e, parameter) ==
  IF parameter[1] \in DOMAIN e.parameters
    THEN e.parameters[parameter[1]] = parameter[2]
    ELSE e.ignoreOtherParameters

CallWasMade(e, order) ==
  [e EXCEPT !.callOrder = order,
            !.outOfOrder = e.expectedCallOrder \notin {NoExpectedCallOrder, order}]

ParameterWasPassed(e, name) ==
  [e EXCEPT !.passed = @ \union ({name} \intersect DOMAIN e.parameters)]

WasPassedToObject(e) == [e EXCEPT !.passedToObject = TRUE]

ResetExpectation(e) ==
  [e EXCEPT !.callOrder = NotCalledYet, !.passedToObject = e.object = NoObject,
            !.passed = {}]

(***************************************************************************)
(* A support is what one scope keeps: its expectations, the last call made *)
(* and its switches.                                                       *)
(***************************************************************************)
NoCall == [state |-> "none"]

NewSupport ==
  [expectations |-> <<>>, last |-> NoCall, strictOrdering |-> FALSE,
   ignoreOtherCalls |-> FALSE, enabled |-> TRUE]

HasUnfulfilledExpectations(s) ==
  \E i \in DOMAIN s.expectations : ~IsFulfilled(s.expectations[i])

HasCallsOutOfOrder(s) ==
  \E i \in DOMAIN s.expectations : s.expectations[i].outOfOrder

HasExpectationWithName(s, name) ==
  \E i \in DOMAIN s.expectations : s.expectations[i].name = name

(* checkStateConsistency fails the test when a call takes the state it has or
   leaves the state in which it failed. *)
SetState(s, state) ==
  [s EXCEPT !.last.state = IF s.last.state \in {state, "failed"} THEN "inconsistent"
                                                                 ELSE state]

(* The candidates that are not fulfilled and agree with the actual call. *)
OnlyKeepUnfulfilled(s, agreeing) ==
  [s EXCEPT !.last.candidates = {i \in @ \cap agreeing : ~IsFulfilled(s.expectations[i])}]

(* The candidates become what they are in changed. *)
ToCandidates(s, changed) ==
  [s EXCEPT !.expectations =
     [i \in DOMAIN @ |-> IF i \in s.last.candidates THEN changed[i] ELSE @[i]]]

(* As CallHasSucceeded, but the others keep what they were passed. *)
CallHasSucceededForAll(s, fulfilled) ==
  LET first == CHOOSE i \in fulfilled : \A j \in fulfilled : i <= j
  IN  SetState([s EXCEPT !.last.candidates = @ \ {first}], "succeeded")

(* callHasSucceeded: the first of the fulfilled is this call's; the others
   forget that it passed by. *)
CallHasSucceeded(s, fulfilled) ==
  LET first == CHOOSE i \in fulfilled : \A j \in fulfilled : i <= j
  IN  ToCandidates(SetState([s EXCEPT !.last.candidates = @ \ {first}], "succeeded"),
                   [i \in DOMAIN s.expectations |-> ResetExpectation(s.expectations[i])])

FinnalizeCallWhenFulfilled(s) ==
  LET fulfilled == {i \in s.last.candidates : IsFulfilled(s.expectations[i])}
  IN  IF fulfilled = {} THEN s ELSE CallHasSucceeded(s, fulfilled)

(* One link of the chain of an actual call: keep what agrees, tell it what
   was passed, and see whether that was all; nothing left fails the test. *)
Narrow(s, agreeing, changed) ==
  LET kept == OnlyKeepUnfulfilled(s, agreeing)
  IN  IF kept.last.candidates = {}
        THEN SetState(kept, "failed")
        ELSE FinnalizeCallWhenFulfilled(ToCandidates(kept, changed))

WithName(s, name, order) ==
  Narrow(SetState(s, "in progress"),
         {i \in DOMAIN s.expectations : s.expectations[i].name = name},
         [i \in DOMAIN s.expectations |-> CallWasMade(s.expectations[i], order)])

(* As WithParameter, but a call that has failed goes on. *)
WithParameterAfterFailure(s, parameter) ==
  Narrow(s, {i \in DOMAIN s.expectations : HasParameter(s.expectations[i], parameter)},
         [i \in DOMAIN s.expectations |-> ParameterWasPassed(s.expectations[i], parameter[1])])

WithParameter(s, parameter) ==
  IF s.last.state \in {"failed", "inconsistent"} THEN s
  ELSE Narrow(s, {i \in DOMAIN s.expectations : HasParameter(s.expectations[i], parameter)},
              [i \in DOMAIN s.expectations |-> ParameterWasPassed(s.expectations[i], parameter[1])])

OnObject(s, object) ==
  IF s.last.state \in {"failed", "inconsistent"} \/ object = NoObject THEN s
  ELSE Narrow(s, {i \in DOMAIN s.expectations : s.expectations[i].object = object},
              [i \in DOMAIN s.expectations |-> WasPassedToObject(s.expectations[i])])

(* A call that is still in progress when it is looked at was made with all the
   parameters it will have: an expectation that ignores the others has it. *)
CheckExpectationsOfCall(s) ==
  LET complete == {i \in s.last.candidates :
                     IsFulfilledWithoutIgnoredParameters(s.expectations[i])}
      first == CHOOSE i \in complete : \A j \in complete : i <= j
  IN  IF s.last.state # "in progress" THEN s
      ELSE IF \A i \in s.last.candidates : IsFulfilled(s.expectations[i])
        THEN [s EXCEPT !.last.state = "inconsistent"]
      ELSE IF complete = {} THEN SetState(s, "failed")
      ELSE CallHasSucceeded(
             [s EXCEPT !.expectations[first].parametersWereIgnored = TRUE], complete)

Failed(s) == s.last.state \in {"failed", "inconsistent"}

(***************************************************************************)
(* All scopes, and the two counters they share.                            *)
(***************************************************************************)
NewMock == [scopes |-> [s \in {Global} |-> NewSupport], callOrder |-> 0, expectedCallOrder |-> 0]

(* A scope that is first named takes ignoring and disabling from mock(). *)
GetMockSupportScope(m, scope) ==
  IF scope \in DOMAIN m.scopes THEN m
  ELSE [m EXCEPT !.scopes = [s \in DOMAIN @ \union {scope} |->
          IF s # scope THEN @[s]
          ELSE [NewSupport EXCEPT !.ignoreOtherCalls = m.scopes[Global].ignoreOtherCalls,
                                  !.enabled = m.scopes[Global].enabled]]]

(* What a switch of mock() turns it turns in all scopes there are. *)
Below(m, scope) == IF scope = Global THEN DOMAIN m.scopes ELSE {scope}

IgnoreOtherCalls(m, scope) ==
  [m EXCEPT !.scopes = [s \in DOMAIN @ |->
     IF s \in Below(m, scope) THEN [@[s] EXCEPT !.ignoreOtherCalls = TRUE] ELSE @[s]]]

SetEnabled(m, scope, enabled) ==
  [m EXCEPT !.scopes = [s \in DOMAIN @ |->
     IF s \in Below(m, scope) THEN [@[s] EXCEPT !.enabled = enabled] ELSE @[s]]]

StrictOrder(m, scope) == [m EXCEPT !.scopes[scope].strictOrdering = TRUE]

ExpectOneCall(m, scope, call) ==
  LET strict == m.scopes[scope].strictOrdering
      order == IF strict THEN m.expectedCallOrder + 1 ELSE NoExpectedCallOrder
  IN  IF ~m.scopes[scope].enabled THEN m
      ELSE [m EXCEPT
             !.scopes[scope].expectations = Append(@, ExpectedFunctionCall(call, order)),
             !.expectedCallOrder = IF strict THEN order ELSE @]

ExpectNCalls(m, scope, amount, call) ==
  FoldLeft(LAMBDA acc, i : ExpectOneCall(acc, scope, call), m, [i \in 1 .. amount |-> i])

(* The support creates the call from all its expectations that are not fulfilled. *)
CreateActualFunctionCall(s) ==
  [s EXCEPT !.last = [state |-> "succeeded",
     candidates |-> {i \in DOMAIN s.expectations : ~IsFulfilled(s.expectations[i])}]]

(* The links of the chain of withParameter: one parameter after the other. *)
WithParameters(s, parameters) ==
  LET After[n \in 0 .. Len(parameters)] ==
        IF n = 0 THEN s ELSE WithParameter(After[n - 1], parameters[n])
  IN  After[Len(parameters)]

(* actualCall and the links of its chain.  A failure of the call before it
   leaves by a jump and keeps that call. *)
ActualCall(m, scope, call) ==
  LET checked == CheckExpectationsOfCall(m.scopes[scope])
      before == IF Failed(checked) /\ m.scopes[scope].last.state = "in progress"
                  THEN checked ELSE [checked EXCEPT !.last = NoCall]
      order == m.callOrder + 1
      named == WithName(CreateActualFunctionCall(before), call.name, order)
      passed == WithParameters(named, call.parameters)
  IN  IF \/ Failed(before)
         \/ ~before.enabled
         \/ before.ignoreOtherCalls /\ ~HasExpectationWithName(before, call.name)
        THEN [m EXCEPT !.scopes[scope] = before]
        ELSE [m EXCEPT !.scopes[scope] = OnObject(passed, call.object),
                       !.callOrder = order]

(* clear() of mock() deletes the scopes with their expectations; the counters
   of all scopes start anew whichever scope is cleared. *)
ClearMock(m, scope) ==
  [scopes |-> IF scope = Global THEN NewMock.scopes
                                ELSE [m.scopes EXCEPT ![scope] = NewSupport],
   callOrder |-> 0, expectedCallOrder |-> 0]

(* The scope comes before those below it: a reporter that jumps leaves these
   alone when the call of the scope itself fails now.  One that had failed
   before is passed over. *)
CheckExpectationsOfLastCall(m, scope, jumps) ==
  LET own == m.scopes[scope]
      fails == ~Failed(own) /\ Failed(CheckExpectationsOfCall(own))
      looked == IF jumps /\ fails THEN {scope} ELSE Below(m, scope)
  IN  [m EXCEPT !.scopes = [s \in DOMAIN @ |->
         IF s \in looked THEN CheckExpectationsOfCall(@[s]) ELSE @[s]]]


WasLastCallFulfilled(m, scope) ==
  \A s \in Below(m, scope) : m.scopes[s].last.state \in {"none", "succeeded"}

ExpectedCallsLeft(m, scope) ==
  \E s \in Below(m, scope) : HasUnfulfilledExpectations(m.scopes[s])

(* What checkExpectations finds, in the order in which it looks. *)
CallsThatFail(m, checked) ==
  {s \in DOMAIN m.scopes : ~Failed(m.scopes[s]) /\ Failed(checked.scopes[s])}

UnexpectedCalls(m, scope) == WasLastCallFulfilled(m, scope) /\ ExpectedCallsLeft(m, scope)

OutOfOrderCalls(m, scope) == HasCallsOutOfOrder(m.scopes[scope])

(* The objects on the heap while a test uses the mock. *)
MockObjects(m) ==
  Cardinality(DOMAIN m.scopes \ {Global})
  + FoldFunction(LAMBDA s, n : n + Len(s.expectations) + (IF s.last = NoCall THEN 0 ELSE 1),
                 0, m.scopes)

=============================================================================
