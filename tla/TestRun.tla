------------------------------ MODULE TestRun ------------------------------
(***************************************************************************)
(* A run of a test program built with CppUTest: the command line runner,   *)
(* the registry, the plugins around each test, the jumps by which a        *)
(* failure leaves a test (Platforms/Gcc/UtestPlatform.cpp), the detector   *)
(* of leaks (LeakDetector) and the mocks (MockSupport).                    *)
(*                                                                         *)
(* pc is the function that runs.  In the five phases of a test, its        *)
(* constructor, setup, body, teardown and destructor, the test itself may  *)
(* do anything of its repertoire before the phase ends or fails.  With -p  *)
(* each test runs in a child; the parent only waits, so that the processes *)
(* are a stack and all variables are those of the youngest.                *)
(***************************************************************************)
EXTENDS LeakDetector, MockSupport, CommandLineArguments

CONSTANTS
  Installed,      \* the tests, in the order in which their installers ran
  IgnoredTests,   \* those of IGNORE_TEST
  Group, Name,    \* [test -> text]
  CommandLines,   \* the arguments the program may be given
  Repertoires,    \* [test -> the sets of operations it may be made of]
  Doable,         \* [phase -> set of operations]
  MaxSteps,       \* [repertoire -> bound on the operations of all tests up to then]
  MaxBlocks,      \* bound on the blocks on the heap
  MaxSet,         \* SetPointerPlugin::MAX_SET
  Pointers,       \* the pointers that tests set
  Scopes,         \* the mocks that tests name
  Expectable,     \* the calls that tests expect
  Callable,       \* the calls that tests make
  Outside         \* the test that is current when none runs

ASSUME TestRunAssumption ==
  /\ IgnoredTests \subseteq {Installed[i] : i \in DOMAIN Installed}
  /\ Global \in Scopes /\ Outside \notin {Installed[i] : i \in DOMAIN Installed}
  /\ {MaxBlocks, MaxSet} \subseteq Nat
  /\ \A call \in Callable : call.parameters \in Seq(Range(call.parameters))

VARIABLES
  pc, loop, test, plugin,      \* where the runner is
  arguments,                   \* CommandLineArguments
  result, failureCount,        \* TestResult, and the sum over the repetitions
  current, savedTest, object,  \* UtestShell::currentTest_ and the locals of runOneTest
  jmpBuf, jmpIndex,            \* test_exit_jmp_buf, jmp_buf_index
  detector, heap,              \* the detector and the blocks on the heap
  allocator, countdown,        \* currentMallocAllocator, malloc_out_of_memory_counter
  leaks,                       \* the fields of MemoryLeakWarningPlugin
  setlist, pointers,           \* the table of SetPointerPlugin; the pointers
  mock,                        \* global_mock
  parents, status,             \* the processes that wait; the status of the one that ended
  repertoire, steps,           \* what the test may do; the operations so far
  wanted, made,                \* history: the calls expected and made since the last clear
  blamed,                      \* history: the runs of tests this process counted a failure for
  guilty, excused              \* history: the runs that did something wrong; see below

place == <<pc, loop, test, plugin>>
counters == <<result, blamed>>
shell == <<current, savedTest, object>>
jumps == <<jmpBuf, jmpIndex>>
memory == <<detector, heap, allocator, countdown, leaks>>
mocking == <<mock, wanted, made>>
process == <<failureCount, parents, status, arguments>>
judgement == <<guilty, excused>>
vars == <<place, counters, shell, jumps, memory, setlist, pointers, mocking, process,
          repertoire, steps, judgement>>

ElementsOf(s) == {s[i] : i \in DOMAIN s}

(* addTest puts each test before those that are there. *)
AddTest(tests, t) == <<t>> \o tests
Tests == FoldLeft(AddTest, <<>>, Installed)

(* installPlugin puts each plugin before those that are there: main installs
   the one of the mocks, RunAllTests the one of leaks, runAllTestsMain the last. *)
InstallPlugin(chain, p) == <<p>> \o chain
Plugins ==
  InstallPlugin(InstallPlugin(InstallPlugin(<<>>, "MockSupport"), "MemoryLeakWarning"), "SetPointer")

Phases == {"create", "setup", "body", "teardown", "destroy"}

TestResult == [testCount |-> 0, runCount |-> 0, failureCount |-> 0,
               filteredOutCount |-> 0, ignoredCount |-> 0]

CountTest(r) == [r EXCEPT !.testCount = @ + 1]
CountRun(r) == [r EXCEPT !.runCount = @ + 1]
CountFilteredOut(r) == [r EXCEPT !.filteredOutCount = @ + 1]
CountIgnored(r) == [r EXCEPT !.ignoredCount = @ + 1]

Me == <<loop, test>>
Nobody == <<0, 0>>

(* The blocks this run of a test put on the heap. *)
Mine == {m \in DOMAIN heap : heap[m].owner = Me}

(* What a process returns to its parent is eight bits wide. *)
ExitStatus(n) == n % 256

(* A signal ended the process, and it returned nothing. *)
Signal == -1

-----------------------------------------------------------------------------
(* Failures. *)

AddFailures(n) ==
  /\ result' = [result EXCEPT !.failureCount = @ + n]
  /\ blamed' = IF n = 0 THEN blamed ELSE blamed \union {Me}

SetJmp(target) ==
  /\ jmpBuf' = [jmpBuf EXCEPT ![jmpIndex] = target]
  /\ jmpIndex' = jmpIndex + 1

Returned == jmpIndex' = jmpIndex - 1 /\ UNCHANGED jmpBuf

(* Where the process goes on after the longjmp to a buffer. *)
After(target) == CASE target = "Setup" -> "tearing"
                   [] target = "TestBody" -> "tearing"
                   [] target = "Teardown" -> "destroy"
                   [] target = "RunOneTest" -> "ended"

(* What the properties about the failures of tests do not cover: a failure "escaped" that
   left a constructor or a destructor and with it runOneTest, one that is "swallowed" by
   checkExpectations, and expectations of one function that are "unlike". *)
Excuse(why) == excused' = excused \union {why}

ExitCurrentTest ==
  /\ jmpIndex' = jmpIndex - 1
  /\ pc' = After(jmpBuf[jmpIndex'])
  /\ IF jmpBuf[jmpIndex'] = "RunOneTest" THEN Excuse("escaped") ELSE UNCHANGED excused
  /\ UNCHANGED <<jmpBuf, loop, test, plugin>>

(* UtestShell::failWith, and the failTest of the reporter in a test. *)
FailTest == AddFailures(1) /\ ExitCurrentTest

Wrong == guilty' = guilty \union {Me}

FailWith == FailTest /\ Wrong

Passes == UNCHANGED <<place, counters, jumps, judgement>>

-----------------------------------------------------------------------------
(* Processes. *)

Parent ==
  [loop |-> loop, test |-> test, result |-> result, failureCount |-> failureCount,
   blamed |-> blamed, current |-> current, jmpBuf |-> jmpBuf, jmpIndex |-> jmpIndex + 1,
   detector |-> detector, heap |-> heap, allocator |-> allocator, countdown |-> countdown,
   leaks |-> leaks, setlist |-> setlist, pointers |-> pointers, mock |-> mock]

(* A process ends: the program is over with the first, and the end of a child
   is what its parent waits for. *)
Exit(code) ==
  /\ status' = code
  /\ UNCHANGED <<arguments, repertoire>>
  /\ IF parents = <<>>
       THEN /\ pc' = "over"
            /\ UNCHANGED <<loop, test, plugin, counters, shell, jumps, memory, setlist,
                           pointers, mocking, failureCount, parents>>
       ELSE LET p == parents[1] IN
            /\ pc' = "waited" /\ parents' = Tail(parents)
            /\ loop' = p.loop /\ test' = p.test /\ plugin' = 0
            /\ result' = p.result /\ failureCount' = p.failureCount /\ blamed' = p.blamed
            /\ current' = p.current /\ savedTest' = Outside /\ object' = 0
            /\ jmpBuf' = p.jmpBuf /\ jmpIndex' = p.jmpIndex
            /\ detector' = p.detector /\ heap' = p.heap
            /\ allocator' = p.allocator /\ countdown' = p.countdown /\ leaks' = p.leaks
            /\ setlist' = p.setlist /\ pointers' = p.pointers /\ mock' = p.mock
            /\ wanted' = <<>> /\ made' = <<>>

(* As WaitForChild, but blind to a child that a signal ended. *)
WaitForChildThatExits ==
  /\ pc = "waited"
  /\ pc' = "ended"
  /\ AddFailures(IF status > result.failureCount THEN 1 ELSE 0)
  /\ Returned
  /\ status' = 0
  /\ UNCHANGED <<loop, test, plugin, shell, memory, setlist, pointers, mocking,
                 failureCount, parents, arguments, repertoire, steps, judgement>>

(* The parent counts a failure when the child counted more of them than it
   has itself, or when a signal ended the child. *)
WaitForChild ==
  /\ pc = "waited"
  /\ pc' = "ended"
  /\ AddFailures(IF status = Signal \/ status > result.failureCount THEN 1 ELSE 0)
  /\ Returned
  /\ status' = 0
  /\ UNCHANGED <<loop, test, plugin, shell, memory, setlist, pointers, mocking,
                 failureCount, parents, arguments, repertoire, steps, judgement>>

-----------------------------------------------------------------------------
(* The runner. *)

Init ==
  /\ pc = "main" /\ loop = 0 /\ test = 0 /\ plugin = 0
  /\ arguments = [repeat |-> 1, separate |-> FALSE, selected |-> {}]
  /\ result = TestResult /\ failureCount = 0 /\ blamed = {}
  /\ current = Outside /\ savedTest = Outside /\ object = 0
  /\ jmpBuf = [i \in 0 .. 9 |-> "none"] /\ jmpIndex = 0
  /\ detector = Enable(MemoryLeakDetector) /\ heap = <<>>
  /\ allocator = "malloc" /\ countdown = -1
  /\ leaks = [failureCount |-> 0, expected |-> 0, ignoreAll |-> FALSE]
  /\ setlist = <<>> /\ pointers = [p \in Pointers |-> "real"]
  /\ mock = NewMock /\ wanted = <<>> /\ made = <<>>
  /\ parents = <<>> /\ status = 0
  /\ repertoire = {} /\ steps = 0
  /\ guilty = {} /\ excused = {}

(* parseArguments: a wrong argument ends the program with status 1. *)
ParseArguments ==
  /\ pc = "main"
  /\ \E line \in CommandLines :
       LET parsed == Parse(line)
           selected == {t \in ElementsOf(Tests) : ShouldRun(parsed, Group[t], Name[t])}
       IN  /\ parsed.correct
           /\ arguments' = [repeat |-> parsed.repeat, separate |-> parsed.separate,
                            selected |-> selected]
  /\ pc' = "loop"
  /\ UNCHANGED <<loop, test, plugin, counters, shell, jumps, memory, setlist, pointers, mocking,
                 failureCount, parents, status, repertoire, steps, judgement>>

WrongArguments ==
  /\ pc = "main"
  /\ \E line \in CommandLines : ~Parse(line).correct
  /\ Exit(1) /\ UNCHANGED <<steps, judgement>>

StartTestRun ==
  /\ pc = "loop" /\ loop < arguments.repeat
  /\ pc' = "test" /\ loop' = loop + 1 /\ test' = 1
  /\ result' = TestResult
  /\ UNCHANGED <<plugin, blamed, shell, jumps, memory, setlist, pointers, mocking, process,
                 repertoire, steps, judgement>>

EndTestRun ==
  /\ pc = "test" /\ test > Len(Tests)
  /\ pc' = "loop"
  /\ failureCount' = failureCount + result.failureCount
  /\ UNCHANGED <<loop, test, plugin, counters, shell, jumps, memory, setlist, pointers, mocking,
                 parents, status, arguments, repertoire, steps, judgement>>

(* main returns what RunAllTests does. *)
EndAllTestRuns ==
  /\ pc = "loop" /\ loop >= arguments.repeat
  /\ Exit(ExitStatus(failureCount)) /\ UNCHANGED <<steps, judgement>>

(* A test that the filters or IGNORE_TEST keep from running. *)
SkipTest ==
  /\ pc = "test" /\ test <= Len(Tests)
  /\ LET ignored == Tests[test] \in IgnoredTests IN
       \/ /\ Tests[test] \notin arguments.selected
          /\ result' = CountFilteredOut(CountTest(result))
       \/ /\ Tests[test] \in arguments.selected /\ ignored
          /\ result' = CountIgnored(CountTest(result))
  /\ test' = test + 1
  /\ UNCHANGED <<pc, loop, plugin, blamed, shell, jumps, memory, setlist, pointers, mocking,
                 process, repertoire, steps, judgement>>

(* executePlatformSpecificRunOneTest, with the fork of -p. *)
RunOneTest ==
  /\ pc = "test" /\ test <= Len(Tests)
  /\ Tests[test] \in arguments.selected \ IgnoredTests
  /\ pc' = "pre" /\ plugin' = 1
  /\ result' = CountTest(result)
  /\ SetJmp("RunOneTest")
  /\ parents' = IF arguments.separate
                  THEN <<[Parent EXCEPT !.result = result', !.jmpBuf = jmpBuf']>> \o parents
                  ELSE parents
  /\ repertoire' \in Repertoires[Tests[test]]
  /\ wanted' = <<>> /\ made' = <<>>
  /\ UNCHANGED <<loop, test, blamed, shell, memory, setlist, pointers, mock, failureCount,
                 status, arguments, steps, judgement>>

(* runAllPreTestAction: each plugin before the one behind it. *)
PreTestAction ==
  /\ pc = "pre" /\ plugin <= Len(Plugins)
  /\ IF Plugins[plugin] = "MemoryLeakWarning"
       THEN /\ detector' = StartChecking(detector)
            /\ leaks' = [leaks EXCEPT !.failureCount = result.failureCount]
       ELSE UNCHANGED <<detector, leaks>>
  /\ plugin' = plugin + 1
  /\ UNCHANGED <<pc, loop, test, counters, shell, jumps, heap, allocator, countdown, setlist,
                 pointers, mocking, process, repertoire, steps, judgement>>

Free == {m \in 1 .. MaxBlocks : m \notin DOMAIN heap}

Block == [intact |-> TRUE, owner |-> Me]

(* The context is saved and the test created, on the heap. *)
CreateTest ==
  /\ pc = "pre" /\ plugin > Len(Plugins)
  /\ pc' = "create"
  /\ result' = CountRun(result)
  /\ savedTest' = current /\ current' = Tests[test]
  /\ Free # {}
  /\ object' = CHOOSE m \in Free : \A n \in Free : m <= n
  /\ heap' = (object' :> Block) @@ heap
  /\ detector' = StoreLeakInformation(detector, object', "new")
  /\ UNCHANGED <<loop, test, plugin, blamed, jumps, allocator, countdown, leaks, setlist,
                 pointers, mocking, process, repertoire, steps, judgement>>

Untouched == UNCHANGED <<counters, shell, memory, setlist, pointers, mocking, process,
                         repertoire, steps, judgement>>

EnterSetup ==
  /\ pc = "create" /\ pc' = "setup"
  /\ SetJmp("Setup")
  /\ UNCHANGED <<loop, test, plugin>> /\ Untouched

(* executePlatformSpecificSetup returns true, and the body begins in its buffer. *)
EnterTestBody ==
  /\ pc = "setup" /\ pc' = "body"
  /\ jmpBuf' = [jmpBuf EXCEPT ![jmpIndex - 1] = "TestBody"]
  /\ UNCHANGED <<loop, test, plugin, jmpIndex>> /\ Untouched

(* As LeaveTestBody, but the body's buffer stays on top. *)
LeaveTestBodyInItsBuffer ==
  /\ pc = "body" /\ pc' = "tearing"
  /\ UNCHANGED jumps
  /\ UNCHANGED <<loop, test, plugin>> /\ Untouched

LeaveTestBody ==
  /\ pc = "body" /\ pc' = "tearing"
  /\ Returned
  /\ UNCHANGED <<loop, test, plugin>> /\ Untouched

EnterTeardown ==
  /\ pc = "tearing" /\ pc' = "teardown"
  /\ SetJmp("Teardown")
  /\ UNCHANGED <<loop, test, plugin>> /\ Untouched

LeaveTeardown ==
  /\ pc = "teardown" /\ pc' = "destroy"
  /\ Returned
  /\ UNCHANGED <<loop, test, plugin>> /\ Untouched

(* After the destructor the memory of the test is given back and the context
   restored. *)
DestroyTest ==
  /\ pc = "destroy"
  /\ pc' = "post" /\ plugin' = Len(Plugins)
  /\ detector' = RemoveNode(detector, object)
  /\ heap' = Restrict(heap, DOMAIN heap \ {object})
  /\ object' = 0
  /\ current' = savedTest
  /\ UNCHANGED <<loop, test, counters, savedTest, jumps, allocator, countdown, leaks, setlist,
                 pointers, mocking, process, repertoire, steps, judgement>>

-----------------------------------------------------------------------------
(* What a test does. *)

May(operation) ==
  /\ pc \in Phases /\ operation \in repertoire \intersect Doable[pc]
  /\ steps < MaxSteps[repertoire] /\ steps' = steps + 1
  /\ UNCHANGED repertoire

Fail ==
  /\ May("Fail")
  /\ FailWith
  /\ UNCHANGED <<shell, memory, setlist, pointers, mocking, process>>

(* A signal ends the process. *)
Crash == Exit(Signal) /\ Wrong /\ UNCHANGED excused

CrashInTest ==
  /\ May("Crash")
  /\ Crash

(* cpputest_malloc counts down to the call from which on there is no memory;
   calloc clears the block that it did not get. *)
Allocate(kind) ==
  LET counts == kind # "new" /\ countdown > 0
      left == IF counts THEN countdown - 1 ELSE countdown
      serves == IF kind = "new" THEN "new"
                ELSE IF counts /\ left = 0 THEN NullUnknownAllocator ELSE allocator
      m == CHOOSE m \in Free : \A n \in Free : m <= n
  IN  /\ May("Allocate")
      /\ Free # {}
      /\ IF serves = NullUnknownAllocator /\ kind = "calloc"
           THEN Crash
           ELSE /\ countdown' = left
                /\ allocator' = IF kind = "new" THEN allocator ELSE serves
                /\ IF serves = NullUnknownAllocator THEN UNCHANGED <<detector, heap>>
                   ELSE /\ heap' = (m :> Block) @@ heap
                        /\ detector' = StoreLeakInformation(detector, m, serves)
                /\ Passes
                /\ UNCHANGED <<shell, leaks, setlist, pointers, mocking, process>>

OutOfMemoryCountdown(n) ==
  /\ May("OutOfMemory")
  /\ countdown' = n
  /\ allocator' = IF n = 0 THEN NullUnknownAllocator ELSE allocator
  /\ Passes
  /\ UNCHANGED <<shell, detector, heap, leaks, setlist, pointers, mocking, process>>

NotOutOfMemory ==
  /\ May("OutOfMemory")
  /\ countdown' = -1 /\ allocator' = "malloc"
  /\ Passes
  /\ UNCHANGED <<shell, detector, heap, leaks, setlist, pointers, mocking, process>>

Tracked(m) == m \in DOMAIN detector.nodes

Frees(kind) == IF kind = "new" THEN "new" ELSE allocator

(* deallocMemory: the node goes first; a block that is not known, or not fit to
   be freed, fails the test, and the block stays on the heap without a node. *)
Release(m, kind) ==
  LET fits == Tracked(m) /\ CheckForCorruption(detector.nodes[m], Frees(kind), heap[m].intact)
  IN  /\ May("Release") /\ m # object
      /\ detector' = RemoveNode(detector, m)
      /\ IF fits
           THEN heap' = Restrict(heap, DOMAIN heap \ {m}) /\ Passes
           ELSE UNCHANGED heap /\ FailWith
      /\ UNCHANGED <<shell, allocator, countdown, leaks, setlist, pointers, mocking, process>>

(* reallocMemory: the block is stored anew, in the period of the moment; when
   realloc finds no memory, the old block keeps its contents but not its node. *)
Reallocate(m) ==
  /\ May("Reallocate") /\ Tracked(m) /\ m # object
  /\ IF ~CheckForCorruption(detector.nodes[m], allocator, heap[m].intact)
       THEN detector' = RemoveNode(detector, m) /\ UNCHANGED heap /\ FailWith
       ELSE /\ \/ /\ detector' = StoreLeakInformation(detector, m, allocator)
                  /\ heap' = [heap EXCEPT ![m] = Block]
               \/ /\ detector' = RemoveNode(detector, m)
                  /\ heap' = [heap EXCEPT ![m].owner = Nobody]
            /\ Passes
  /\ UNCHANGED <<shell, allocator, countdown, leaks, setlist, pointers, mocking, process>>

(* The test writes behind the end of a block. *)
Overrun(m) ==
  /\ May("Overrun") /\ m \in Mine \ {object}
  /\ heap' = [heap EXCEPT ![m].intact = FALSE]
  /\ Passes
  /\ UNCHANGED <<shell, detector, allocator, countdown, leaks, setlist, pointers, mocking, process>>

ExpectLeaks(n) ==
  /\ May("ExpectLeaks")
  /\ leaks' = [leaks EXCEPT !.expected = n]
  /\ Passes
  /\ UNCHANGED <<shell, detector, heap, allocator, countdown, setlist, pointers, mocking, process>>

IgnoreAllLeaks ==
  /\ May("ExpectLeaks")
  /\ leaks' = [leaks EXCEPT !.ignoreAll = TRUE]
  /\ Passes
  /\ UNCHANGED <<shell, detector, heap, allocator, countdown, setlist, pointers, mocking, process>>

(* UT_PTR_SET: CppUTestStore keeps the old value before the new one is set. *)
PtrSet(p, value) ==
  /\ May("PtrSet")
  /\ IF Len(setlist) >= MaxSet
       THEN FailWith /\ UNCHANGED <<setlist, pointers>>
       ELSE /\ setlist' = Append(setlist, <<p, pointers[p]>>)
            /\ pointers' = [pointers EXCEPT ![p] = value]
            /\ Passes
  /\ UNCHANGED <<shell, memory, mocking, process>>

-----------------------------------------------------------------------------
(* What the expectations of a test mean: each call made is one expected.  The
   last call of a scope may lack parameters until the scope is looked at. *)

Matches(w, c) == w.scope = c.scope /\ w.call.name = c.call.name

Begun(w, c) ==
  /\ Matches(w, c)
  /\ \A a \in ElementsOf(c.call.parameters) :
       \/ a \in ElementsOf(w.call.parameters)
       \/ w.call.ignore /\ \A b \in ElementsOf(w.call.parameters) : b[1] # a[1]
  /\ c.call.object \in {NoObject, w.call.object}

Fits(w, c) ==
  /\ Begun(w, c)
  /\ ElementsOf(w.call.parameters) \subseteq ElementsOf(c.call.parameters)
  /\ c.call.object = w.call.object

(* The expectations of a function are alike: they name the same parameters, ignore
   others or not, name an object or not, are in order or not.  Where they are not,
   the first that is fulfilled can be the wrong one. *)
Shape(w) == <<{a[1] : a \in ElementsOf(w.call.parameters)}, w.call.ignore,
              w.call.object = NoObject, w.strict>>

Alike(wants) ==
  \A v, w \in ElementsOf(wants) :
    (v.scope = w.scope /\ v.call.name = w.call.name) => Shape(v) = Shape(w)

LastOfScope(calls) ==
  {i \in DOMAIN calls : \A j \in DOMAIN calls : calls[j].scope = calls[i].scope => j <= i}

(* Each call has an expectation of its own. *)
Explained(calls, open) ==
  \E f \in Injection(DOMAIN calls, DOMAIN wanted) :
    \A i \in DOMAIN calls :
      IF i \in open THEN Begun(wanted[f[i]], calls[i]) ELSE Fits(wanted[f[i]], calls[i])

(* The calls and the expectations below a scope are as many and belong together, and
   what the scope expects in order is made in that place among all calls. *)
AllMet(scope) ==
  LET scopes == Below(mock, scope)
      calls == {i \in DOMAIN made : made[i].scope \in scopes}
      wants == {i \in DOMAIN wanted : wanted[i].scope \in scopes}
      turn(w) == Cardinality({i \in 1 .. w : wanted[i].strict})
  IN  \E f \in Bijection(calls, wants) :
        \A i \in calls :
          /\ Fits(wanted[f[i]], made[i])
          /\ (wanted[f[i]].strict /\ made[i].scope = scope) => i = turn(f[i])

-----------------------------------------------------------------------------
(* What a test does with the mock. *)

Mocks(scope) == GetMockSupportScope(mock, scope)

Expect(scope, call) ==
  LET m == Mocks(scope) IN
  /\ May("Expect")
  /\ mock' = ExpectOneCall(m, scope, call)
  /\ wanted' = IF m.scopes[scope].enabled
                 THEN Append(wanted, [scope |-> scope, call |-> call,
                                      strict |-> m.scopes[scope].strictOrdering])
                 ELSE wanted
  /\ IF Alike(wanted') THEN UNCHANGED excused ELSE Excuse("unlike")
  /\ UNCHANGED <<place, counters, jumps, guilty, shell, memory, setlist, pointers, made, process>>

(* A stub reports its call; the call before it in the scope is looked at first. *)
Call(scope, call) ==
  LET after == ActualCall(Mocks(scope), scope, call)
      others == {i \in LastOfScope(made) : made[i].scope # scope}
  IN  /\ May("Call")
      /\ mock' = after
      /\ made' = IF after.callOrder = mock.callOrder THEN made
                  ELSE Append(made, [scope |-> scope, call |-> call])
      /\ IF Failed(after.scopes[scope]) THEN FailTest ELSE UNCHANGED <<place, counters, jumps, excused>>
      /\ IF Explained(made, others) /\ Explained(made', LastOfScope(made'))
           THEN UNCHANGED guilty ELSE Wrong
      /\ UNCHANGED <<shell, memory, setlist, pointers, wanted, process>>

Switch(operation, m) ==
  /\ May(operation)
  /\ mock' = m
  /\ Passes
  /\ UNCHANGED <<shell, memory, setlist, pointers, wanted, made, process>>

(* checkExpectations of the test itself: what is missing or out of order clears
   the scope, and fails the test unless some test of the run has failed before. *)
CheckExpectations(scope) ==
  LET before == Mocks(scope)
      checked == CheckExpectationsOfLastCall(before, scope, TRUE)
      left == UnexpectedCalls(checked, scope) \/ OutOfOrderCalls(checked, scope)
  IN  /\ May("Check")
      /\ IF \E s \in DOMAIN checked.scopes : ~Failed(before.scopes[s]) /\ Failed(checked.scopes[s])
           THEN FailTest /\ mock' = checked /\ UNCHANGED <<wanted, made>>
         ELSE IF left
           THEN /\ mock' = ClearMock(checked, scope)
                /\ wanted' = <<>> /\ made' = <<>>
                /\ IF result.failureCount = 0
                     THEN FailTest
                     ELSE /\ IF Me \in blamed THEN UNCHANGED excused ELSE Excuse("swallowed")
                          /\ UNCHANGED <<place, counters, jumps>>
         ELSE /\ mock' = checked
              /\ UNCHANGED <<place, counters, jumps, excused, wanted, made>>
      /\ IF AllMet(scope) THEN UNCHANGED guilty ELSE Wrong
      /\ UNCHANGED <<shell, memory, setlist, pointers, process>>

Clear ==
  /\ May("Clear")
  /\ mock' = ClearMock(mock, Global)
  /\ wanted' = <<>> /\ made' = <<>>
  /\ Passes
  /\ UNCHANGED <<shell, memory, setlist, pointers, process>>

-----------------------------------------------------------------------------
(* After a test. *)

(* MockSupportPlugin counts what the mock has to say, and clears it.  The count of
   failures it asks for is the one of the current test, none when that is outside. *)
CheckMocks ==
  LET checked == CheckExpectationsOfLastCall(mock, Global, FALSE)
      calls == Cardinality(CallsThatFail(mock, checked))
      left == UnexpectedCalls(checked, Global) \/ OutOfOrderCalls(checked, Global)
      silent == current # Outside /\ result.failureCount + calls > 0
  IN  /\ AddFailures(calls + (IF left /\ ~silent THEN 1 ELSE 0))
      /\ mock' = ClearMock(checked, Global)
      /\ wanted' = <<>> /\ made' = <<>>
      /\ IF AllMet(Global) THEN UNCHANGED guilty ELSE Wrong
      /\ UNCHANGED <<detector, leaks, setlist, pointers>>

(* MemoryLeakWarningPlugin has nothing to say of a test that failed while it ran. *)
CheckLeaks ==
  LET stopped == StopChecking(detector)
      found == TotalMemoryLeaks(stopped, "checking") + MockObjects(mock)
  IN  /\ AddFailures(IF /\ ~leaks.ignoreAll /\ leaks.expected # found
                        /\ leaks.failureCount = result.failureCount THEN 1 ELSE 0)
      /\ detector' = MarkCheckingPeriodLeaksAsNonCheckingPeriod(stopped)
      /\ leaks' = [leaks EXCEPT !.expected = 0, !.ignoreAll = FALSE]
      /\ IF leaks.ignoreAll \/ Cardinality(Mine) = leaks.expected THEN UNCHANGED guilty ELSE Wrong
      /\ UNCHANGED <<setlist, pointers, mocking>>

(* As RestorePointers, but the first value that was set comes first. *)
RestoreFirstPointersFirst ==
  /\ pointers' = FoldLeft(LAMBDA p, old : [p EXCEPT ![old[1]] = old[2]], pointers, setlist)
  /\ setlist' = <<>>
  /\ UNCHANGED <<counters, detector, leaks, mocking, guilty>>

(* SetPointerPlugin gives the values back, the last one set first: what a pointer is left
   with is what was kept when it was set for the first time. *)
FirstSet(p) ==
  CHOOSE i \in DOMAIN setlist : /\ setlist[i][1] = p
                                /\ \A j \in DOMAIN setlist : setlist[j][1] = p => i <= j

RestorePointers ==
  /\ pointers' = [p \in DOMAIN pointers |-> IF \E i \in DOMAIN setlist : setlist[i][1] = p
                                              THEN setlist[FirstSet(p)][2] ELSE pointers[p]]
  /\ setlist' = <<>>
  /\ UNCHANGED <<counters, detector, leaks, mocking, guilty>>

PostTestAction ==
  /\ pc = "post" /\ plugin > 0
  /\ CASE Plugins[plugin] = "MockSupport" -> CheckMocks
       [] Plugins[plugin] = "MemoryLeakWarning" -> CheckLeaks
       [] Plugins[plugin] = "SetPointer" -> RestorePointers
  /\ plugin' = plugin - 1
  /\ UNCHANGED <<pc, loop, test, shell, jumps, heap, allocator, countdown, process, repertoire,
                 steps, excused>>

(* The test is over: a child with it, that returns the failures it counted. *)
LeaveTest ==
  /\ pc = "post" /\ plugin = 0
  /\ IF arguments.separate
       THEN Exit(ExitStatus(result.failureCount)) /\ UNCHANGED <<steps, judgement>>
       ELSE /\ pc' = "ended"
            /\ Returned
            /\ UNCHANGED <<loop, test, plugin>> /\ Untouched

EndTest ==
  /\ pc = "ended"
  /\ pc' = "test" /\ test' = test + 1 /\ plugin' = 0
  /\ repertoire' = {}
  /\ UNCHANGED <<loop, counters, shell, jumps, memory, setlist, pointers, mocking, process,
                 steps, judgement>>

TestSteps ==
  \/ Fail \/ CrashInTest
  \/ \E kind \in {"new", "malloc", "calloc"} : Allocate(kind)
  \/ \E n \in {0, 1} : OutOfMemoryCountdown(n)
  \/ NotOutOfMemory
  \/ \E m \in DOMAIN heap : Reallocate(m) \/ Overrun(m)
  \/ \E m \in DOMAIN heap, kind \in {"new", "malloc"} : Release(m, kind)
  \/ ExpectLeaks(1) \/ IgnoreAllLeaks
  \/ \E p \in Pointers, value \in {"stub", "real"} : PtrSet(p, value)
  \/ \E scope \in Scopes :
       \/ \E call \in Expectable : Expect(scope, call)
       \/ \E call \in Callable : Call(scope, call)
       \/ CheckExpectations(scope)
       \/ Switch("StrictOrder", StrictOrder(Mocks(scope), scope))
       \/ Switch("IgnoreOtherCalls", IgnoreOtherCalls(Mocks(scope), scope))
       \/ \E on \in BOOLEAN : Switch("Enable", SetEnabled(Mocks(scope), scope, on))
  \/ Clear

RunnerSteps ==
  \/ ParseArguments \/ WrongArguments \/ StartTestRun \/ EndTestRun \/ EndAllTestRuns
  \/ SkipTest \/ RunOneTest \/ PreTestAction \/ CreateTest \/ EnterSetup \/ EnterTestBody
  \/ LeaveTestBody \/ EnterTeardown \/ LeaveTeardown \/ DestroyTest \/ PostTestAction
  \/ LeaveTest \/ EndTest \/ WaitForChild

Next == RunnerSteps \/ TestSteps

Spec == Init /\ [][Next]_vars

-----------------------------------------------------------------------------
(* Properties. *)

(* A failure is counted for the runs of tests that did something wrong, failed, freed
   what was not theirs to free, leaked, made a call nobody expects, left out one that
   is expected or made it out of order, and for no other: what one test does is not
   held against another, and the order of the plugins, the periods of the detector and
   the greedy matching of calls do not lose or invent a failure. *)
OnlyTheGuiltyAreBlamed ==
  (pc = "test" /\ parents = <<>> /\ excused = {}) => blamed = guilty

(* Between two tests nothing of the one before is left: pointers, mock, the period of
   the detector, the jump buffers and the current test are as before the first. *)
TestsAreIsolated ==
  (pc = "test" /\ "escaped" \notin excused) =>
    /\ pointers = [p \in Pointers |-> "real"] /\ setlist = <<>>
    /\ mock = NewMock
    /\ detector.period = "enabled" /\ Leaks(detector, "checking") = {}
    /\ ~leaks.ignoreAll /\ leaks.expected = 0
    /\ current = Outside /\ jmpIndex = Len(parents)

(* A failure returns to the phase it happened in: the top of the buffers is the
   setjmp of the function that is running, and none of the ten is exceeded. *)
JumpsLandWhereTheyShould ==
  /\ jmpIndex \in 0 .. 10
  /\ pc = "setup" => jmpBuf[jmpIndex - 1] = "Setup"
  /\ pc = "body" => jmpBuf[jmpIndex - 1] = "TestBody"
  /\ pc = "teardown" => jmpBuf[jmpIndex - 1] = "Teardown"
  /\ pc \in {"create", "destroy", "pre", "post", "tearing"} => jmpBuf[jmpIndex - 1] = "RunOneTest"

(* The status of the program is 0 if and only if no test did anything wrong, also
   when the tests ran in processes of their own. *)
ExitStatusTells ==
  (pc = "over" /\ loop > 0 /\ excused = {}) => (status = 0 <=> guilty = {})

(* What the comments of MockActualFunctionCall say cannot happen does not: a call never
   takes the state it has, nor leaves the one in which it failed, and none is in
   progress with all its expectations fulfilled. *)
CannotHappenDoesNot ==
  \A scope \in DOMAIN mock.scopes : mock.scopes[scope].last.state # "inconsistent"

=============================================================================
