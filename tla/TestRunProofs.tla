--------------------------- MODULE TestRunProofs ---------------------------
(***************************************************************************)
(* Proofs about TestRun, for all tests and all a test may do: a failure    *)
(* returns to the phase it happened in, nothing of a test is left when the *)
(* next one begins, and no call of a mock is ever in a state in which it   *)
(* cannot be.                                                              *)
(***************************************************************************)
EXTENDS TestRun, SequenceTheorems, WellFoundedInduction, TLAPS

-----------------------------------------------------------------------------
(* The places of a run. *)

Alone == {"main", "loop", "test", "ended"}
InTest == {"pre", "create", "tearing", "destroy", "post", "waited"}
InPhase == {"setup", "body", "teardown"}
Locations == Alone \union InTest \union InPhase \union {"over"}

Targets == {"none", "RunOneTest", "Setup", "TestBody", "Teardown"}
Buffers == 0 .. 9

(* The buffers in use are those of runOneTest and of the phase inside it. *)
Depth(p) == IF p \in Alone THEN 0 ELSE IF p \in InPhase THEN 2 ELSE 1

BufferOf(p) == IF p = "setup" THEN "Setup" ELSE IF p = "body" THEN "TestBody" ELSE "Teardown"

(* A process that waits for its child does so in runOneTest. *)
WaitsInRunOneTest(p) ==
  p.jmpIndex = 1 /\ p.jmpBuf \in [Buffers -> Targets] /\ p.jmpBuf[0] = "RunOneTest"

JumpsInv ==
  /\ pc \in Locations /\ plugin \in 0 .. 4
  /\ jmpBuf \in [Buffers -> Targets] /\ jmpIndex \in 0 .. 2
  /\ pc # "over" => jmpIndex = Depth(pc)
  /\ jmpIndex > 0 => jmpBuf[0] = "RunOneTest"
  /\ pc \in InPhase => jmpBuf[1] = BufferOf(pc)
  /\ parents \in Seq(ElementsOf(parents))
  /\ \A i \in DOMAIN parents : WaitsInRunOneTest(parents[i])

-----------------------------------------------------------------------------
(* What is left of a test. *)

(* The first entry of a pointer keeps what it was before any test. *)
CanBeRestored(list, values) ==
  /\ list \in Seq(ElementsOf(list))
  /\ values = [p \in Pointers |-> values[p]]
  /\ \A p \in Pointers :
       \/ (\A i \in DOMAIN list : list[i][1] # p) /\ values[p] = "real"
       \/ \E i \in DOMAIN list :
            /\ list[i][1] = p /\ list[i][2] = "real"
            /\ \A j \in DOMAIN list : list[j][1] = p => i <= j

IsNode(n) == n = [allocator |-> n.allocator, period |-> n.period]

IsDetector(d) ==
  /\ d = [period |-> d.period, nodes |-> d.nodes]
  /\ \A m \in DOMAIN d.nodes : IsNode(d.nodes[m])

IsLeaks(l) ==
  l = [failureCount |-> l.failureCount, expected |-> l.expected, ignoreAll |-> l.ignoreAll]

NothingChecked(d) ==
  d.period = "enabled" /\ \A m \in DOMAIN d.nodes : d.nodes[m].period # "checking"

NothingExpected(l) == l.expected = 0 /\ ~l.ignoreAll

(* No test has done anything since the last one was cleaned up. *)
Idle == Alone \union {"pre", "waited"}

Restored == pc \in Idle \/ (pc = "post" /\ plugin = 0)
LeaksChecked == pc \in Idle \ {"pre"} \/ (pc = "post" /\ plugin <= 1)
MocksChecked == pc \in Idle \/ (pc = "post" /\ plugin <= 2)

(* What the parent of a process has when it goes on. *)
IsClean(p) ==
  /\ CanBeRestored(p.setlist, p.pointers) /\ p.setlist = <<>>
  /\ p.mock = NewMock
  /\ IsDetector(p.detector) /\ NothingChecked(p.detector)
  /\ IsLeaks(p.leaks) /\ NothingExpected(p.leaks)
  /\ p.current = Outside

DataKept == CanBeRestored(setlist, pointers) /\ IsDetector(detector) /\ IsLeaks(leaks)

NothingLeft ==
  /\ pc = "post" => plugin <= 3
  /\ Restored => setlist = <<>>
  /\ MocksChecked => mock = NewMock
  /\ LeaksChecked => NothingChecked(detector) /\ NothingExpected(leaks)

ShellKept ==
  IF pc \in Phases \union {"tearing"} THEN savedTest = Outside ELSE current = Outside

ProcessesKept ==
  /\ pc \in Alone \union {"waited"} => parents = <<>>
  /\ parents # <<>> => arguments.separate /\ Len(parents) = 1
  /\ \A i \in DOMAIN parents : IsClean(parents[i])

Isolation == DataKept /\ NothingLeft /\ ShellKept /\ ProcessesKept

IsolationInv ==
  (pc # "over" /\ "escaped" \notin excused) => Isolation

-----------------------------------------------------------------------------
(* Sequences, plugins and jumps. *)

LEMMA ElementsAreEnough ==
    ASSUME NEW S, NEW s \in Seq(S)
    PROVE  /\ s \in Seq(ElementsOf(s)) /\ Len(s) \in Nat /\ DOMAIN s = 1 .. Len(s)
           /\ s # <<>> => 1 \in DOMAIN s /\ Len(s) >= 1
  <1>1. Len(s) \in Nat /\ DOMAIN s = 1 .. Len(s) /\ s = [i \in 1 .. Len(s) |-> s[i]]
    BY SMT
  <1>2. \A i \in 1 .. Len(s) : s[i] \in ElementsOf(s)
    BY <1>1 DEF ElementsOf
  <1>3. s \in Seq(ElementsOf(s))
    BY <1>1, <1>2, SMT
  <1>4. s # <<>> => Len(s) >= 1
    BY <1>1, EmptySeq, SMT
  <1> QED BY <1>1, <1>3, <1>4, SMT

LEMMA PushedSequence ==
    ASSUME NEW s, s \in Seq(ElementsOf(s)), NEW p
    PROVE  LET t == <<p>> \o s IN
           /\ t \in Seq(ElementsOf(t)) /\ t # <<>> /\ Len(t) = Len(s) + 1
           /\ \A i \in DOMAIN t : t[i] = p \/ \E j \in DOMAIN s : t[i] = s[j]
  <1> DEFINE S == ElementsOf(s) \union {p}
             t == <<p>> \o s
  <1>1. s \in Seq(S) /\ <<p>> \in Seq(S)
    BY SMT
  <1>2. t \in Seq(S) /\ Len(t) = Len(<<p>>) + Len(s)
    BY <1>1, ConcatProperties
  <1>3. Len(s) \in Nat /\ Len(<<p>>) = 1 /\ DOMAIN s = 1 .. Len(s)
    BY <1>1, SMT
  <1>4. t \in Seq(ElementsOf(t)) /\ t # <<>>
    <2> HIDE DEF S, t
    <2>1. Len(t) >= 1
      BY <1>2, <1>3, SMT
    <2>2. t # <<>>
      BY <2>1, EmptySeq, SMT
    <2> QED BY <1>2, <2>2, ElementsAreEnough
  <1>5. \A i \in DOMAIN t : t[i] = p \/ \E j \in DOMAIN s : t[i] = s[j]
    <2> SUFFICES ASSUME NEW i \in 1 .. Len(t) PROVE t[i] = p \/ \E j \in DOMAIN s : t[i] = s[j]
      BY <1>2, SMT
    <2>1. CASE i = 1
      BY <2>1, <1>1, <1>3, ConcatProperties, SMT
    <2>2. CASE i # 1
      <3>1. t[i] = s[i - 1] /\ i - 1 \in 1 .. Len(s)
        BY <2>2, <1>1, <1>2, <1>3, ConcatProperties, SMT
      <3> QED BY <3>1, <1>3
    <2> QED BY <2>1, <2>2
  <1> QED BY <1>2, <1>3, <1>4, <1>5, SMT

LEMMA PoppedSequence ==
    ASSUME NEW s, s \in Seq(ElementsOf(s)), s # <<>>
    PROVE  /\ Tail(s) \in Seq(ElementsOf(Tail(s))) /\ 1 \in DOMAIN s
           /\ Len(Tail(s)) = Len(s) - 1
           /\ \A i \in DOMAIN Tail(s) : \E j \in DOMAIN s : Tail(s)[i] = s[j]
  <1>1. Tail(s) \in Seq(ElementsOf(s)) /\ Len(Tail(s)) = Len(s) - 1
        /\ \A i \in 1 .. Len(Tail(s)) : Tail(s)[i] = s[i + 1]
    BY HeadTailProperties
  <1>2. /\ Len(s) \in Nat /\ DOMAIN s = 1 .. Len(s) /\ 1 \in DOMAIN s
        /\ Len(Tail(s)) \in Nat /\ DOMAIN Tail(s) = 1 .. Len(Tail(s))
        /\ Tail(s) \in Seq(ElementsOf(Tail(s)))
    BY <1>1, ElementsAreEnough
  <1>3. \A i \in 1 .. Len(Tail(s)) : i + 1 \in 1 .. Len(s)
    BY <1>1, <1>2, SMT
  <1> QED BY <1>1, <1>2, <1>3

LEMMA InstalledPlugin ==
    ASSUME NEW S, NEW chain \in Seq(S), NEW p \in S, NEW all, all = InstallPlugin(chain, p)
    PROVE  /\ all \in Seq(S) /\ all[1] = p
           /\ Len(chain) = 0 => Len(all) = 1
           /\ Len(chain) = 1 => Len(all) = 2 /\ all[2] = chain[1]
           /\ Len(chain) = 2 => Len(all) = 3 /\ all[2] = chain[1] /\ all[3] = chain[2]
  <1>1. <<p>> \in Seq(S) /\ Len(<<p>>) = 1 /\ <<p>>[1] = p
    BY SMT
  <1>2. Len(chain) \in Nat
    BY LenProperties
  <1>3. all = <<p>> \o chain
    BY DEF InstallPlugin
  <1>4. /\ all \in Seq(S) /\ Len(all) = Len(<<p>>) + Len(chain)
        /\ \A i \in 1 .. Len(<<p>>) + Len(chain) :
             all[i] = IF i <= Len(<<p>>) THEN <<p>>[i] ELSE chain[i - Len(<<p>>)]
    BY <1>1, <1>3, ConcatProperties
  <1>5. /\ Len(all) = Len(chain) + 1 /\ all[1] = p
        /\ Len(chain) >= 1 => all[2] = chain[1]
        /\ Len(chain) >= 2 => all[3] = chain[2]
    BY <1>1, <1>2, <1>4, SMT
  <1> QED BY <1>4, <1>5, SMT

LEMMA SecondPlugin ==
    ASSUME NEW S, NEW one \in Seq(S), Len(one) = 1, NEW b \in S, NEW two,
           two = InstallPlugin(one, b)
    PROVE  two \in Seq(S) /\ Len(two) = 2 /\ two[1] = b /\ two[2] = one[1]
  BY InstalledPlugin DEF InstallPlugin

LEMMA ThirdPlugin ==
    ASSUME NEW S, NEW two \in Seq(S), Len(two) = 2, NEW c \in S, NEW three,
           three = InstallPlugin(two, c)
    PROVE  Len(three) = 3 /\ three[1] = c /\ three[2] = two[1] /\ three[3] = two[2]
  BY InstalledPlugin DEF InstallPlugin

LEMMA InstalledPlugins ==
    ASSUME NEW a, NEW b, NEW c, NEW one, NEW two, NEW three,
           one = InstallPlugin(<<>>, a), two = InstallPlugin(one, b), three = InstallPlugin(two, c)
    PROVE  Len(three) = 3 /\ three[1] = c /\ three[2] = b /\ three[3] = a
  <1>1. PICK S : a \in S /\ b \in S /\ c \in S
    <2>1. a \in {a, b, c} /\ b \in {a, b, c} /\ c \in {a, b, c}
      OBVIOUS
    <2> QED BY <2>1
  <1>2. <<>> \in Seq(S) /\ Len(<<>>) = 0
    BY EmptySeq
  <1>3. one \in Seq(S) /\ Len(one) = 1 /\ one[1] = a
    BY <1>1, <1>2, InstalledPlugin DEF InstallPlugin
  <1>4. two \in Seq(S) /\ Len(two) = 2 /\ two[1] = b /\ two[2] = one[1]
    BY <1>1, <1>3, SecondPlugin
  <1> QED BY <1>1, <1>3, <1>4, ThirdPlugin

LEMMA PluginsAre ==
    /\ Len(Plugins) = 3 /\ Plugins[1] = "SetPointer"
    /\ Plugins[2] = "MemoryLeakWarning" /\ Plugins[3] = "MockSupport"
  BY InstalledPlugins DEF Plugins

LEMMA AfterAJump ==
    /\ After("Setup") = "tearing" /\ After("TestBody") = "tearing"
    /\ After("Teardown") = "destroy" /\ After("RunOneTest") = "ended"
  BY DEF After

-----------------------------------------------------------------------------
(* What the operation of a test does to the run: the test goes on, leaves its
   phase by a jump, or ends its process. *)

KeepsRun == UNCHANGED <<current, savedTest, parents, arguments>>

GoesOn ==
  /\ pc \in Phases /\ KeepsRun
  /\ UNCHANGED <<pc, plugin, jmpBuf, jmpIndex>>
  /\ excused \subseteq excused'

Jumps == pc \in Phases /\ KeepsRun /\ ExitCurrentTest

Dies == pc \in Phases /\ Exit(Signal) /\ UNCHANGED excused

Operation == GoesOn \/ Jumps \/ Dies

LEMMA AllocateIsAnOperation ==
    ASSUME NEW kind, Allocate(kind)
    PROVE  Operation
  <1> DEFINE counts == kind # "new" /\ countdown > 0
             left == IF counts THEN countdown - 1 ELSE countdown
             serves == IF kind = "new" THEN "new"
                       ELSE IF counts /\ left = 0 THEN NullUnknownAllocator ELSE allocator
  <1>1. /\ May("Allocate")
        /\ IF serves = NullUnknownAllocator /\ kind = "calloc" THEN Crash
           ELSE Passes /\ UNCHANGED <<shell, process>>
    BY Zenon DEF Allocate
  <1> HIDE DEF serves
  <1> QED BY <1>1, Zenon DEF May, Crash, Passes, shell, process, place, jumps, judgement,
             Operation, GoesOn, Dies, KeepsRun

LEMMA ReleaseIsAnOperation ==
    ASSUME NEW m, NEW kind, Release(m, kind)
    PROVE  Operation
  <1>1. May("Release") /\ (Passes \/ FailWith) /\ UNCHANGED <<shell, process>>
    BY Zenon DEF Release
  <1> QED BY <1>1, Zenon DEF May, Passes, FailWith, FailTest, shell, process, place, jumps, judgement,
             Operation, GoesOn, Jumps, KeepsRun

LEMMA ReallocateIsAnOperation ==
    ASSUME NEW m, Reallocate(m)
    PROVE  Operation
  <1>1. May("Reallocate") /\ (Passes \/ FailWith) /\ UNCHANGED <<shell, process>>
    BY Zenon DEF Reallocate
  <1> QED BY <1>1, Zenon DEF May, Passes, FailWith, FailTest, shell, process, place, jumps, judgement,
             Operation, GoesOn, Jumps, KeepsRun

LEMMA PtrSetIsAnOperation ==
    ASSUME NEW p, NEW value, PtrSet(p, value)
    PROVE  Operation
  <1>1. May("PtrSet") /\ (Passes \/ FailWith) /\ UNCHANGED <<shell, process>>
    BY Zenon DEF PtrSet
  <1> QED BY <1>1, Zenon DEF May, Passes, FailWith, FailTest, shell, process, place, jumps, judgement,
             Operation, GoesOn, Jumps, KeepsRun

LEMMA ExpectIsAnOperation ==
    ASSUME NEW scope, NEW call, Expect(scope, call)
    PROVE  Operation
  <1>1. /\ May("Expect") /\ UNCHANGED <<place, jumps, shell, process>>
        /\ excused' = excused \/ Excuse("unlike")
    BY Zenon DEF Expect
  <1> QED BY <1>1 DEF May, Excuse, shell, process, place, jumps, Operation, GoesOn, KeepsRun

LEMMA CallIsAnOperation ==
    ASSUME NEW scope, NEW call, Call(scope, call)
    PROVE  Operation
  <1>1. /\ May("Call") /\ UNCHANGED <<shell, process>>
        /\ FailTest \/ UNCHANGED <<place, counters, jumps, excused>>
    BY Zenon DEF Call
  <1> QED BY <1>1, Zenon DEF May, FailTest, shell, process, place, jumps, Operation, GoesOn, Jumps,
             KeepsRun

LEMMA CheckIsAnOperation ==
    ASSUME NEW scope, CheckExpectations(scope)
    PROVE  Operation
  <1>1. /\ May("Check") /\ UNCHANGED <<shell, process>>
        /\ \/ FailTest
           \/ UNCHANGED <<place, counters, jumps, excused>>
           \/ Excuse("swallowed") /\ UNCHANGED <<place, counters, jumps>>
    BY Zenon DEF CheckExpectations
  <1> QED BY <1>1 DEF May, FailTest, Excuse, shell, process, place, jumps, Operation, GoesOn, Jumps,
             KeepsRun

LEMMA PassesIsAnOperation ==
    ASSUME NEW operation, May(operation), Passes, UNCHANGED <<shell, process>>
    PROVE  Operation
  BY Zenon DEF May, Passes, shell, process, place, jumps, judgement, Operation, GoesOn, KeepsRun

LEMMA TestStepsAreOperations == TestSteps => Operation
  <1> SUFFICES ASSUME TestSteps PROVE Operation
    OBVIOUS
  <1>1. CASE Fail
    BY <1>1, Zenon DEF Fail, FailWith, FailTest, May, shell, process, Operation, Jumps, KeepsRun
  <1>2. CASE CrashInTest
    BY <1>2, Zenon DEF CrashInTest, Crash, May, Operation, Dies
  <1>3. CASE \E kind \in {"new", "malloc", "calloc"} : Allocate(kind)
    BY <1>3, AllocateIsAnOperation
  <1>4. CASE \E n \in {0, 1} : OutOfMemoryCountdown(n)
    BY <1>4, PassesIsAnOperation, Zenon DEF OutOfMemoryCountdown
  <1>5. CASE NotOutOfMemory
    BY <1>5, PassesIsAnOperation, Zenon DEF NotOutOfMemory
  <1>6. CASE \E m \in DOMAIN heap : Reallocate(m) \/ Overrun(m)
    BY <1>6, ReallocateIsAnOperation, PassesIsAnOperation, Zenon DEF Overrun
  <1>7. CASE \E m \in DOMAIN heap, kind \in {"new", "malloc"} : Release(m, kind)
    BY <1>7, ReleaseIsAnOperation
  <1>8. CASE ExpectLeaks(1) \/ IgnoreAllLeaks
    BY <1>8, PassesIsAnOperation, Zenon DEF ExpectLeaks, IgnoreAllLeaks
  <1>9. CASE \E p \in Pointers, value \in {"stub", "real"} : PtrSet(p, value)
    BY <1>9, PtrSetIsAnOperation
  <1>10. ASSUME NEW scope \in Scopes,
                \/ \E call \in Expectable : Expect(scope, call)
                \/ \E call \in Callable : Call(scope, call)
                \/ CheckExpectations(scope)
         PROVE  Operation
    BY <1>10, ExpectIsAnOperation, CallIsAnOperation, CheckIsAnOperation
  <1>11. ASSUME NEW scope \in Scopes,
                \/ Switch("StrictOrder", StrictOrder(Mocks(scope), scope))
                \/ Switch("IgnoreOtherCalls", IgnoreOtherCalls(Mocks(scope), scope))
                \/ \E on \in BOOLEAN : Switch("Enable", SetEnabled(Mocks(scope), scope, on))
         PROVE  Operation
    BY <1>11, PassesIsAnOperation, Zenon DEF Switch
  <1>12. CASE Clear
    BY <1>12, PassesIsAnOperation, Zenon DEF Clear
  <1> QED
    BY <1>1, <1>2, <1>3, <1>4, <1>5, <1>6, <1>7, <1>8, <1>9, <1>10, <1>11, <1>12, Zenon
       DEF TestSteps

-----------------------------------------------------------------------------
(* Where jumps land. *)

LEMMA SameJumps ==
    ASSUME JumpsInv, UNCHANGED <<pc, plugin, jmpBuf, jmpIndex, parents>>
    PROVE  JumpsInv'
  BY Zenon DEF JumpsInv, Depth, BufferOf, WaitsInRunOneTest, ElementsOf

(* A step between two functions that use the same buffers. *)
LEMMA MovedInOneBuffer ==
    ASSUME JumpsInv, UNCHANGED <<jmpBuf, jmpIndex, parents>>,
           (pc \in Alone /\ pc' \in Alone) \/ (pc \in InTest /\ pc' \in InTest),
           plugin' \in 0 .. 4
    PROVE  JumpsInv'
  <1>1. /\ pc' \in Locations /\ pc' # "over" /\ pc # "over" /\ pc' \notin InPhase
        /\ Depth(pc') = Depth(pc)
    BY DEF Locations, Alone, InTest, InPhase, Depth
  <1>2. \A i \in DOMAIN parents : WaitsInRunOneTest(parents[i])
    BY DEF JumpsInv
  <1>3. \A i \in DOMAIN parents' : WaitsInRunOneTest(parents'[i])
    BY <1>2, Zenon
  <1> QED BY <1>1, <1>3, Zenon DEF JumpsInv, ElementsOf

LEMMA MovedBetweenTests ==
    ASSUME JumpsInv, UNCHANGED <<jmpBuf, jmpIndex, parents>>, pc \in Alone, pc' \in Alone,
           plugin' = plugin \/ plugin' = 0
    PROVE  JumpsInv'
  <1>1. plugin' \in 0 .. 4
    BY SMT DEF JumpsInv
  <1> QED BY <1>1, MovedInOneBuffer, Zenon

LEMMA ExitKeepsJumps ==
    ASSUME JumpsInv, NEW code, Exit(code)
    PROVE  JumpsInv'
  <1>1. CASE parents = <<>>
    <2>1. pc' = "over" /\ UNCHANGED <<plugin, jmpBuf, jmpIndex, parents>>
      BY <1>1, Zenon DEF Exit, jumps
    <2>2. pc' \in Locations /\ pc' \notin InPhase
      BY <2>1 DEF Locations, InPhase
    <2>3. \A i \in DOMAIN parents' : WaitsInRunOneTest(parents'[i])
      BY <2>1, Zenon DEF JumpsInv
    <2> QED BY <2>1, <2>2, <2>3, Zenon DEF JumpsInv, ElementsOf
  <1>2. CASE parents # <<>>
    <2>1. /\ pc' = "waited" /\ plugin' = 0 /\ parents' = Tail(parents)
          /\ jmpBuf' = parents[1].jmpBuf /\ jmpIndex' = parents[1].jmpIndex
      BY <1>2, Zenon DEF Exit
    <2>2. /\ Tail(parents) \in Seq(ElementsOf(Tail(parents))) /\ 1 \in DOMAIN parents
          /\ \A i \in DOMAIN Tail(parents) : \E j \in DOMAIN parents : Tail(parents)[i] = parents[j]
      BY <1>2, PoppedSequence DEF JumpsInv
    <2>3. WaitsInRunOneTest(parents[1])
      BY <2>2 DEF JumpsInv
    <2>4. \A i \in DOMAIN parents' : WaitsInRunOneTest(parents'[i])
      BY <2>1, <2>2, Zenon DEF JumpsInv
    <2>5. /\ pc' \in Locations /\ pc' \notin InPhase /\ Depth(pc') = 1
      BY <2>1 DEF Locations, InTest, InPhase, Alone, Depth
    <2>6. jmpIndex' = 1 /\ jmpBuf' \in [Buffers -> Targets] /\ jmpBuf'[0] = "RunOneTest"
      BY <2>1, <2>3 DEF WaitsInRunOneTest
    <2>7. plugin' \in 0 .. 4 /\ jmpIndex' \in 0 .. 2
      BY <2>1, <2>6, SMT
    <2>8. parents' \in Seq(ElementsOf(parents'))
      BY <2>1, <2>2, Zenon DEF ElementsOf
    <2> QED BY <2>4, <2>5, <2>6, <2>7, <2>8, Zenon DEF JumpsInv
  <1> QED BY <1>1, <1>2

(* The function on top is left by the jump to its buffer. *)
LEMMA LandingPlaces ==
    ASSUME JumpsInv, Jumps
    PROVE  \/ pc \in {"create", "destroy"} /\ jmpIndex' = 0 /\ pc' = "ended"
           \/ pc \in {"setup", "body"} /\ jmpIndex' = 1 /\ pc' = "tearing"
           \/ pc = "teardown" /\ jmpIndex' = 1 /\ pc' = "destroy"
  <1>1. /\ pc \in Phases /\ UNCHANGED <<jmpBuf, plugin, parents>>
        /\ jmpIndex' = jmpIndex - 1 /\ pc' = After(jmpBuf[jmpIndex'])
    BY Zenon DEF Jumps, KeepsRun, ExitCurrentTest
  <1>2. CASE pc \in {"create", "destroy"}
    <2>1. jmpIndex = 1 /\ jmpBuf[0] = "RunOneTest"
      BY <1>2, SMT DEF JumpsInv, Depth, Alone, InPhase
    <2> QED BY <1>2, <2>1, <1>1, AfterAJump, SMT
  <1>3. CASE pc \in InPhase
    <2>1. jmpIndex = 2 /\ jmpBuf[1] = BufferOf(pc)
      BY <1>3, SMT DEF JumpsInv, Depth, Alone, InPhase
    <2>2. jmpIndex' = 1 /\ pc' = After(BufferOf(pc))
      BY <2>1, <1>1, SMT
    <2> QED BY <1>3, <2>2, AfterAJump DEF InPhase, BufferOf
  <1> QED BY <1>2, <1>3, <1>1 DEF Phases, InPhase

LEMMA JumpsLand ==
    ASSUME JumpsInv, Jumps
    PROVE  JumpsInv'
  <1>1. /\ pc \in Phases /\ UNCHANGED <<jmpBuf, plugin, parents>>
        /\ jmpIndex' = jmpIndex - 1 /\ pc' = After(jmpBuf[jmpIndex'])
    BY Zenon DEF Jumps, KeepsRun, ExitCurrentTest
  <1>2. \/ pc \in {"create", "destroy"} /\ jmpIndex' = 0 /\ pc' = "ended"
        \/ pc \in {"setup", "body"} /\ jmpIndex' = 1 /\ pc' = "tearing"
        \/ pc = "teardown" /\ jmpIndex' = 1 /\ pc' = "destroy"
    BY LandingPlaces, Zenon
  <1>3. pc' \in Locations /\ pc' \notin InPhase /\ jmpIndex' = Depth(pc')
    BY <1>2 DEF Locations, InPhase, InTest, Alone, Depth
  <1>4. jmpIndex' \in 0 .. 2 /\ jmpIndex > 0
    BY <1>2, <1>1, SMT DEF JumpsInv
  <1>5. \A i \in DOMAIN parents' : WaitsInRunOneTest(parents'[i])
    BY <1>1, Zenon DEF JumpsInv
  <1> QED BY <1>1, <1>3, <1>4, <1>5, Zenon DEF JumpsInv, ElementsOf

LEMMA OperationsKeepJumps ==
    ASSUME JumpsInv, Operation
    PROVE  JumpsInv'
  BY SameJumps, JumpsLand, ExitKeepsJumps DEF Operation, GoesOn, Dies, KeepsRun

LEMMA SetJmpKeepsJumps ==
    ASSUME JumpsInv, NEW target \in Targets, SetJmp(target), UNCHANGED parents,
           plugin' \in 0 .. 4, pc' \in Locations \ {"over"},
           jmpIndex = 1 /\ pc' \in InPhase /\ target = BufferOf(pc')
    PROVE  JumpsInv'
  <1>1. /\ jmpBuf' = [jmpBuf EXCEPT ![jmpIndex] = target] /\ jmpIndex' = jmpIndex + 1
        /\ jmpBuf \in [Buffers -> Targets] 
    BY Zenon DEF SetJmp, JumpsInv
  <1>2. 0 \in Buffers /\ 1 \in Buffers
    BY SMT DEF Buffers
  <1>3. jmpBuf' \in [Buffers -> Targets] /\ jmpBuf'[jmpIndex] = target
        /\ \A i \in Buffers : i # jmpIndex => jmpBuf'[i] = jmpBuf[i]
    BY <1>1, <1>2
  <1>4. jmpIndex' = Depth(pc') /\ jmpIndex' \in 0 .. 2
    BY <1>1, SMT DEF Depth, InTest, InPhase, Alone
  <1>5. jmpBuf'[0] = "RunOneTest"
    BY <1>2, <1>3, SMT DEF JumpsInv
  <1>6. pc' \in InPhase => jmpBuf'[1] = BufferOf(pc')
    BY <1>3 DEF InTest, InPhase
  <1>7. \A i \in DOMAIN parents' : WaitsInRunOneTest(parents'[i])
    BY Zenon DEF JumpsInv
  <1>8. parents' \in Seq(ElementsOf(parents'))
    BY Zenon DEF JumpsInv, ElementsOf
  <1> QED BY <1>3, <1>4, <1>5, <1>6, <1>7, <1>8, Zenon DEF JumpsInv

LEMMA ReturnedKeepsJumps ==
    ASSUME JumpsInv, Returned, UNCHANGED parents, plugin' \in 0 .. 4,
           \/ pc \in InPhase /\ pc' \in {"tearing", "destroy"}
           \/ pc \in InTest /\ pc' = "ended"
    PROVE  JumpsInv'
  <1>1. jmpIndex' = jmpIndex - 1 /\ jmpBuf' = jmpBuf /\ pc # "over" /\ jmpIndex \in 0 .. 2
    BY DEF Returned, JumpsInv, InPhase, InTest
  <1>2. /\ pc' \in Locations \ {"over"} /\ pc' \notin InPhase
        /\ jmpIndex' = Depth(pc') /\ jmpIndex' \in 0 .. 2 /\ jmpIndex > 0
    BY <1>1, SMT DEF JumpsInv, Locations, Depth, InTest, InPhase, Alone
  <1>3. \A i \in DOMAIN parents' : WaitsInRunOneTest(parents'[i])
    BY Zenon DEF JumpsInv
  <1> QED BY <1>1, <1>2, <1>3, Zenon DEF JumpsInv, ElementsOf

LEMMA PushedParentWaits ==
    ASSUME JumpsInv, NEW p, WaitsInRunOneTest(p), NEW waiting, waiting = <<p>> \o parents
    PROVE  /\ waiting \in Seq(ElementsOf(waiting))
           /\ \A i \in DOMAIN waiting : WaitsInRunOneTest(waiting[i])
  <1>1. parents \in Seq(ElementsOf(parents)) /\ \A i \in DOMAIN parents : WaitsInRunOneTest(parents[i])
    BY DEF JumpsInv
  <1>2. /\ waiting \in Seq(ElementsOf(waiting))
        /\ \A i \in DOMAIN waiting : waiting[i] = p \/ \E j \in DOMAIN parents : waiting[i] = parents[j]
    BY <1>1, PushedSequence
  <1> QED BY <1>1, <1>2

LEMMA RunOneTestKeepsJumps ==
    ASSUME JumpsInv, RunOneTest
    PROVE  JumpsInv'
  <1>1. /\ pc = "test" /\ pc' = "pre" /\ plugin' = 1 /\ SetJmp("RunOneTest")
        /\ parents' = IF arguments.separate
                        THEN <<[Parent EXCEPT !.result = result', !.jmpBuf = jmpBuf']>> \o parents
                        ELSE parents
    BY Zenon DEF RunOneTest
  <1>2. /\ pc \in Alone /\ pc' \in InTest /\ pc' \in Locations \ {"over"}
        /\ pc' \notin InPhase /\ "RunOneTest" \in Targets /\ Depth(pc) = 0 /\ pc # "over"
        /\ Depth(pc') = 1
    BY <1>1 DEF Alone, InTest, InPhase, Locations, Targets, Depth
  <1>3. jmpIndex = 0 /\ plugin' \in 0 .. 4 /\ 0 \in Buffers
    BY <1>1, <1>2, SMT DEF JumpsInv, Buffers
  <1>4. jmpBuf' = [jmpBuf EXCEPT ![0] = "RunOneTest"] /\ jmpIndex' = 1
    BY <1>1, <1>3, SMT DEF SetJmp
  <1>5. jmpBuf' \in [Buffers -> Targets] /\ jmpBuf'[0] = "RunOneTest"
    BY <1>2, <1>3, <1>4 DEF JumpsInv
  <1>6. /\ parents' \in Seq(ElementsOf(parents'))
        /\ \A i \in DOMAIN parents' : WaitsInRunOneTest(parents'[i])
    <2>1. CASE arguments.separate
      <3> DEFINE p == [Parent EXCEPT !.result = result', !.jmpBuf = jmpBuf']
      <3>1. p.jmpIndex = 1 /\ p.jmpBuf = jmpBuf'
        BY <1>3, SMT DEF Parent
      <3>2. WaitsInRunOneTest(p)
        BY <1>5, <3>1 DEF WaitsInRunOneTest
      <3> HIDE DEF p
      <3>3. parents' = <<p>> \o parents
        BY <1>1, <2>1 DEF p
      <3> QED BY <3>2, <3>3, PushedParentWaits
    <2>2. CASE ~arguments.separate
      <3>1. parents' = parents
        BY <1>1, <2>2
      <3> QED BY <3>1, Zenon DEF JumpsInv, ElementsOf
    <2> QED BY <2>1, <2>2
  <1>7. jmpIndex' \in 0 .. 2 /\ jmpIndex' = Depth(pc')
    BY <1>2, <1>4, SMT
  <1> QED BY <1>2, <1>3, <1>5, <1>6, <1>7, Zenon DEF JumpsInv

LEMMA InitOfJumps == Init => JumpsInv
  <1> SUFFICES ASSUME Init PROVE JumpsInv
    OBVIOUS
  <1>1. pc = "main" /\ plugin = 0 /\ jmpBuf = [i \in 0 .. 9 |-> "none"] /\ jmpIndex = 0 /\ parents = <<>>
    BY Zenon DEF Init
  <1>2. pc \in Alone /\ pc \in Locations /\ pc \notin InPhase /\ "none" \in Targets
    BY <1>1 DEF Alone, Locations, InPhase, Targets
  <1>3. jmpBuf \in [Buffers -> Targets]
    BY <1>1, <1>2 DEF Buffers
  <1>4. parents \in Seq(ElementsOf(parents)) /\ \A i \in DOMAIN parents : WaitsInRunOneTest(parents[i])
    BY <1>1, EmptySeq, SMT
  <1>5. jmpIndex \in 0 .. 2 /\ plugin \in 0 .. 4 /\ jmpIndex = Depth(pc) /\ ~(jmpIndex > 0)
    BY <1>1, <1>2, SMT DEF Depth
  <1> QED BY <1>1, <1>2, <1>3, <1>4, <1>5, Zenon DEF JumpsInv

LEMMA NextKeepsJumps == JumpsInv /\ [Next]_vars => JumpsInv'
  <1> SUFFICES ASSUME JumpsInv, [Next]_vars PROVE JumpsInv'
    OBVIOUS
  <1> USE DEF process, jumps
  <1>0. plugin \in 0 .. 4 /\ 0 \in 0 .. 4
    BY SMT DEF JumpsInv
  <1>1. CASE ParseArguments
    <2>1. pc = "main" /\ pc' = "loop" /\ UNCHANGED <<plugin, jmpBuf, jmpIndex, parents>>
      BY <1>1, Zenon DEF ParseArguments
    <2>2. pc \in Alone /\ pc' \in Alone
      BY <2>1 DEF Alone
    <2> QED BY <2>1, <2>2, MovedBetweenTests
  <1>2. CASE WrongArguments
    BY <1>2, ExitKeepsJumps DEF WrongArguments
  <1>3. CASE StartTestRun
    <2>1. pc = "loop" /\ pc' = "test" /\ UNCHANGED <<plugin, jmpBuf, jmpIndex, parents>>
      BY <1>3, Zenon DEF StartTestRun
    <2>2. pc \in Alone /\ pc' \in Alone
      BY <2>1 DEF Alone
    <2> QED BY <2>1, <2>2, MovedBetweenTests
  <1>4. CASE EndTestRun
    <2>1. pc = "test" /\ pc' = "loop" /\ UNCHANGED <<plugin, jmpBuf, jmpIndex, parents>>
      BY <1>4, Zenon DEF EndTestRun
    <2>2. pc \in Alone /\ pc' \in Alone
      BY <2>1 DEF Alone
    <2> QED BY <2>1, <2>2, MovedBetweenTests
  <1>5. CASE EndAllTestRuns
    BY <1>5, ExitKeepsJumps DEF EndAllTestRuns
  <1>6. CASE SkipTest
    BY <1>6, SameJumps, Zenon DEF SkipTest
  <1>7. CASE RunOneTest
    BY <1>7, RunOneTestKeepsJumps
  <1>8. CASE PreTestAction
    <2>1. /\ pc = "pre" /\ plugin <= Len(Plugins) /\ plugin' = plugin + 1
          /\ UNCHANGED <<pc, jmpBuf, jmpIndex, parents>>
      BY <1>8, Zenon DEF PreTestAction
    <2>2. plugin' \in 0 .. 4
      BY <1>0, <2>1, PluginsAre, SMT
    <2> QED BY <2>1, <2>2, MovedInOneBuffer DEF InTest
  <1>9. CASE CreateTest
    <2>1. pc = "pre" /\ pc' = "create" /\ UNCHANGED <<plugin, jmpBuf, jmpIndex, parents>>
      BY <1>9, Zenon DEF CreateTest
    <2> QED BY <1>0, <2>1, MovedInOneBuffer DEF InTest
  <1>10. CASE EnterSetup
    <2>1. pc = "create" /\ pc' = "setup" /\ SetJmp("Setup") /\ UNCHANGED <<plugin, parents>>
      BY <1>10, Zenon DEF EnterSetup, Untouched
    <2>2. /\ jmpIndex = 1 /\ pc' \in InPhase /\ "Setup" = BufferOf(pc') /\ "Setup" \in Targets
          /\ pc' \in Locations \ {"over"}
      BY <2>1, SMT DEF JumpsInv, Depth, Alone, InPhase, BufferOf, Targets, Locations
    <2> QED BY <1>0, <2>1, <2>2, SetJmpKeepsJumps
  <1>11. CASE EnterTestBody
    <2>1. /\ pc = "setup" /\ pc' = "body" /\ UNCHANGED <<plugin, jmpIndex, parents>>
          /\ jmpBuf' = [jmpBuf EXCEPT ![jmpIndex - 1] = "TestBody"]
      BY <1>11, Zenon DEF EnterTestBody, Untouched
    <2>2. jmpIndex = 2 /\ jmpBuf \in [Buffers -> Targets] /\ jmpBuf[0] = "RunOneTest"
      BY <2>1, SMT DEF JumpsInv, Depth, Alone, InPhase
    <2>3. jmpBuf' = [jmpBuf EXCEPT ![1] = "TestBody"] /\ 0 \in Buffers /\ 1 \in Buffers
      BY <2>1, <2>2, SMT DEF Buffers
    <2>4. jmpBuf' \in [Buffers -> Targets] /\ jmpBuf'[0] = "RunOneTest" /\ jmpBuf'[1] = "TestBody"
      BY <2>2, <2>3 DEF Targets
    <2>5. /\ pc' \in Locations /\ pc' # "over" /\ BufferOf(pc') = "TestBody" /\ pc # "over"
          /\ Depth(pc') = Depth(pc)
      BY <2>1 DEF Locations, InPhase, BufferOf, Depth, Alone
    <2>6. \A i \in DOMAIN parents' : WaitsInRunOneTest(parents'[i])
      BY <2>1, Zenon DEF JumpsInv
    <2> QED BY <2>1, <2>4, <2>5, <2>6, Zenon DEF JumpsInv, ElementsOf
  <1>12. CASE LeaveTestBody
    BY <1>0, <1>12, ReturnedKeepsJumps DEF LeaveTestBody, Untouched, InPhase
  <1>13. CASE EnterTeardown
    <2>1. pc = "tearing" /\ pc' = "teardown" /\ SetJmp("Teardown") /\ UNCHANGED <<plugin, parents>>
      BY <1>13, Zenon DEF EnterTeardown, Untouched
    <2>2. /\ jmpIndex = 1 /\ pc' \in InPhase /\ "Teardown" = BufferOf(pc') /\ "Teardown" \in Targets
          /\ pc' \in Locations \ {"over"}
      BY <2>1, SMT DEF JumpsInv, Depth, Alone, InPhase, BufferOf, Targets, Locations
    <2> QED BY <1>0, <2>1, <2>2, SetJmpKeepsJumps
  <1>14. CASE LeaveTeardown
    BY <1>0, <1>14, ReturnedKeepsJumps DEF LeaveTeardown, Untouched, InPhase
  <1>15. CASE DestroyTest
    <2>1. pc = "destroy" /\ pc' = "post" /\ plugin' = Len(Plugins) /\ UNCHANGED <<jmpBuf, jmpIndex, parents>>
      BY <1>15, Zenon DEF DestroyTest
    <2>2. plugin' \in 0 .. 4
      BY <2>1, PluginsAre, SMT
    <2> QED BY <2>1, <2>2, MovedInOneBuffer DEF InTest
  <1>16. CASE PostTestAction
    <2>1. /\ pc = "post" /\ plugin > 0 /\ plugin' = plugin - 1
          /\ UNCHANGED <<pc, jmpBuf, jmpIndex, parents>>
      BY <1>16, Zenon DEF PostTestAction
    <2>2. plugin' \in 0 .. 4
      BY <1>0, <2>1, SMT
    <2> QED BY <2>1, <2>2, MovedInOneBuffer DEF InTest
  <1>17. CASE LeaveTest
    <2>1. CASE Exit(ExitStatus(result.failureCount))
      BY <2>1, ExitKeepsJumps
    <2>2. CASE ~Exit(ExitStatus(result.failureCount))
      <3>1. pc = "post" /\ pc' = "ended" /\ Returned /\ UNCHANGED <<plugin, parents>>
        BY <1>17, <2>2, Zenon DEF LeaveTest, Untouched
      <3> QED BY <1>0, <3>1, ReturnedKeepsJumps DEF InTest
    <2> QED BY <2>1, <2>2
  <1>18. CASE EndTest
    <2>1. pc = "ended" /\ pc' = "test" /\ plugin' = 0 /\ UNCHANGED <<jmpBuf, jmpIndex, parents>>
      BY <1>18, Zenon DEF EndTest
    <2>2. pc \in Alone /\ pc' \in Alone
      BY <2>1 DEF Alone
    <2> QED BY <2>1, <2>2, MovedBetweenTests
  <1>19. CASE WaitForChild
    BY <1>0, <1>19, ReturnedKeepsJumps DEF WaitForChild, InTest
  <1>20. CASE TestSteps
    BY <1>20, TestStepsAreOperations, OperationsKeepJumps
  <1>21. CASE UNCHANGED vars
    BY <1>21, SameJumps, Zenon DEF vars, place
  <1> QED
    BY <1>1, <1>2, <1>3, <1>4, <1>5, <1>6, <1>7, <1>8, <1>9, <1>10, <1>11, <1>12, <1>13, <1>14,
       <1>15, <1>16, <1>17, <1>18, <1>19, <1>20, <1>21, Zenon DEF Next, RunnerSteps

LEMMA JumpsAlwaysLand == Spec => []JumpsInv
  BY InitOfJumps, NextKeepsJumps, PTL DEF Spec

LEMMA LandedJumps == JumpsInv => JumpsLandWhereTheyShould
  <1> SUFFICES ASSUME JumpsInv PROVE JumpsLandWhereTheyShould
    OBVIOUS
  <1>1. jmpIndex \in 0 .. 10
    BY SMT DEF JumpsInv
  <1>2. ASSUME pc \in InPhase PROVE jmpBuf[jmpIndex - 1] = BufferOf(pc)
    <2>1. jmpIndex = 2 /\ jmpBuf[1] = BufferOf(pc)
      BY <1>2, SMT DEF JumpsInv, InPhase, Depth, Alone
    <2> QED BY <2>1, SMT
  <1>3. ASSUME pc \in {"create", "destroy", "pre", "post", "tearing"}
        PROVE  jmpBuf[jmpIndex - 1] = "RunOneTest"
    <2>1. jmpIndex = 1 /\ jmpBuf[0] = "RunOneTest"
      BY <1>3, SMT DEF JumpsInv, InPhase, Depth, Alone
    <2> QED BY <2>1, SMT
  <1>4. /\ pc = "setup" => jmpBuf[jmpIndex - 1] = "Setup"
        /\ pc = "body" => jmpBuf[jmpIndex - 1] = "TestBody"
        /\ pc = "teardown" => jmpBuf[jmpIndex - 1] = "Teardown"
    BY <1>2 DEF InPhase, BufferOf
  <1> QED BY <1>1, <1>3, <1>4, Zenon DEF JumpsLandWhereTheyShould

(* Whatever tests do, fail or crash in, in as many processes as there may be: a failure
   returns to the phase it happened in. *)
THEOREM FailuresReturnToTheirPhase == Spec => []JumpsLandWhereTheyShould
  BY JumpsAlwaysLand, LandedJumps, PTL

-----------------------------------------------------------------------------
(* What tests leave can be undone. *)

LEMMA NothingSetIsReal ==
    ASSUME NEW values, CanBeRestored(<<>>, values)
    PROVE  values = [p \in Pointers |-> "real"]
  <1>1. \A p \in Pointers : values[p] = "real"
    <2> SUFFICES ASSUME NEW p \in Pointers PROVE values[p] = "real"
      OBVIOUS
    <2>1. \A i \in DOMAIN <<>> : FALSE
      BY SMT
    <2> QED BY <2>1, Zenon DEF CanBeRestored
  <1> QED BY <1>1 DEF CanBeRestored

LEMMA RealIsRestored ==
    ASSUME NEW values, values = [p \in Pointers |-> "real"]
    PROVE  CanBeRestored(<<>>, values)
  <1>1. <<>> \in Seq(ElementsOf(<<>>)) /\ \A i \in DOMAIN <<>> : FALSE
    BY EmptySeq, SMT
  <1>2. values = [p \in Pointers |-> values[p]] /\ \A p \in Pointers : values[p] = "real"
    OBVIOUS
  <1> QED BY <1>1, <1>2, Zenon DEF CanBeRestored

LEMMA SetPointerCanBeRestored ==
    ASSUME NEW list, NEW values, CanBeRestored(list, values), NEW p \in Pointers, NEW value,
           NEW longer, longer = Append(list, <<p, values[p]>>),
           NEW changed, changed = [values EXCEPT ![p] = value]
    PROVE  CanBeRestored(longer, changed)
  <1> DEFINE e == <<p, values[p]>>
             S == ElementsOf(list) \union {e}
             n == Len(list)
  <1>1. list \in Seq(ElementsOf(list)) /\ list \in Seq(S) /\ e \in S
    BY SMT DEF CanBeRestored
  <1>2. n \in Nat /\ DOMAIN list = 1 .. n
    BY <1>1, LenProperties
  <1>3. /\ longer \in Seq(S) /\ Len(longer) = n + 1 /\ longer[n + 1] = e
        /\ \A i \in 1 .. n : longer[i] = list[i]
    BY <1>1, AppendProperties
  <1> HIDE DEF S, n
  <1>4. longer \in Seq(ElementsOf(longer)) /\ DOMAIN longer = 1 .. n + 1
    BY <1>2, <1>3, ElementsAreEnough
  <1>5. changed = [q \in Pointers |-> changed[q]] /\ \A q \in Pointers \ {p} : changed[q] = values[q]
    BY DEF CanBeRestored
  <1>6. e[1] = p /\ e[2] = values[p]
    OBVIOUS
  <1> HIDE DEF e
  <1>7. ASSUME NEW q \in Pointers
        PROVE  \/ (\A i \in DOMAIN longer : longer[i][1] # q) /\ changed[q] = "real"
               \/ \E i \in DOMAIN longer :
                    /\ longer[i][1] = q /\ longer[i][2] = "real"
                    /\ \A j \in DOMAIN longer : longer[j][1] = q => i <= j
    <2>1. CASE \E i \in DOMAIN list :
                 /\ list[i][1] = q /\ list[i][2] = "real"
                 /\ \A j \in DOMAIN list : list[j][1] = q => i <= j
      <3>1. PICK i \in 1 .. n : /\ list[i][1] = q /\ list[i][2] = "real"
                               /\ \A j \in 1 .. n : list[j][1] = q => i <= j
        BY <2>1, <1>2
      <3>2. i \in 1 .. n + 1 /\ longer[i][1] = q /\ longer[i][2] = "real"
        BY <3>1, <1>2, <1>3, SMT
      <3>3. \A j \in 1 .. n + 1 : longer[j][1] = q => i <= j
        BY <3>1, <1>2, <1>3, SMT
      <3> QED BY <3>2, <3>3, <1>4
    <2>2. CASE (\A i \in DOMAIN list : list[i][1] # q) /\ values[q] = "real"
      <3>1. CASE q = p
        <4>1. n + 1 \in 1 .. n + 1 /\ longer[n + 1][1] = q /\ longer[n + 1][2] = "real"
          BY <3>1, <2>2, <1>2, <1>3, <1>6, SMT
        <4>2. \A j \in 1 .. n + 1 : longer[j][1] = q => n + 1 <= j
          <5> SUFFICES ASSUME NEW j \in 1 .. n + 1, longer[j][1] = q PROVE n + 1 <= j
            OBVIOUS
          <5>1. j \notin 1 .. n
            BY <2>2, <1>2, <1>3
          <5> QED BY <5>1, <1>2, SMT
        <4> QED BY <4>1, <4>2, <1>4
      <3>2. CASE q # p
        <4>1. \A i \in 1 .. n + 1 : i \in 1 .. n \/ i = n + 1
          BY <1>2, SMT
        <4>2. \A i \in 1 .. n + 1 : longer[i][1] # q
          BY <3>2, <4>1, <2>2, <1>2, <1>3, <1>6
        <4> QED BY <3>2, <4>2, <1>4, <1>5, <2>2
      <3> QED BY <3>1, <3>2
    <2> QED BY <2>1, <2>2 DEF CanBeRestored
  <1> QED BY <1>4, <1>5, <1>7, Zenon DEF CanBeRestored

LEMMA PointersAreRestored ==
    ASSUME CanBeRestored(setlist, pointers), RestorePointers
    PROVE  CanBeRestored(setlist', pointers') /\ setlist' = <<>>
  <1>1. \A p \in Pointers : (\E i \in DOMAIN setlist : setlist[i][1] = p) =>
                              setlist[FirstSet(p)][2] = "real"
    <2> SUFFICES ASSUME NEW p \in Pointers, NEW k \in DOMAIN setlist, setlist[k][1] = p
                 PROVE  setlist[FirstSet(p)][2] = "real"
      OBVIOUS
    <2>1. PICK i \in DOMAIN setlist : /\ setlist[i][1] = p /\ setlist[i][2] = "real"
                                      /\ \A j \in DOMAIN setlist : setlist[j][1] = p => i <= j
      BY DEF CanBeRestored
    <2>2. /\ FirstSet(p) \in DOMAIN setlist /\ setlist[FirstSet(p)][1] = p
          /\ \A j \in DOMAIN setlist : setlist[j][1] = p => FirstSet(p) <= j
      BY <2>1 DEF FirstSet
    <2>3. i <= FirstSet(p) /\ FirstSet(p) <= i
      BY <2>1, <2>2
    <2>4. DOMAIN setlist = 1 .. Len(setlist) /\ Len(setlist) \in Nat
      BY LenProperties DEF CanBeRestored
    <2>5. i = FirstSet(p)
      BY <2>1, <2>2, <2>3, <2>4, SMT
    <2> QED BY <2>1, <2>5
  <1>2. \A p \in Pointers : (~\E i \in DOMAIN setlist : setlist[i][1] = p) => pointers[p] = "real"
    BY DEF CanBeRestored
  <1>3. DOMAIN pointers = Pointers
    BY DEF CanBeRestored
  <1>4. pointers' = [p \in Pointers |-> "real"] /\ setlist' = <<>>
    BY <1>1, <1>2, <1>3 DEF RestorePointers
  <1> QED BY <1>4, RealIsRestored

LEMMA StoredBlock ==
    ASSUME NEW d, IsDetector(d), NEW m, NEW allocated
    PROVE  IsDetector(StoreLeakInformation(d, m, allocated))
  <1> DEFINE n == [allocator |-> allocated, period |-> d.period]
             all == [k \in DOMAIN d.nodes \union {m} |-> IF k = m THEN n ELSE d.nodes[k]]
  <1>1. IsNode(n)
    BY DEF IsNode
  <1> HIDE DEF n
  <1>2. \A k \in DOMAIN all : IsNode(all[k])
    BY <1>1 DEF IsDetector
  <1> HIDE DEF all
  <1>3. StoreLeakInformation(d, m, allocated) = [d EXCEPT !.nodes = all]
    BY DEF StoreLeakInformation, all, n
  <1>4. [d EXCEPT !.nodes = all] = [period |-> d.period, nodes |-> all]
    BY DEF IsDetector
  <1> QED BY <1>2, <1>3, <1>4 DEF IsDetector

LEMMA RemovedBlock ==
    ASSUME NEW d, IsDetector(d), NEW m
    PROVE  IsDetector(RemoveNode(d, m))
  <1> DEFINE left == Restrict(d.nodes, DOMAIN d.nodes \ {m})
  <1>1. \A k \in DOMAIN left : IsNode(left[k])
    BY DEF Restrict, IsDetector
  <1>2. RemoveNode(d, m) = [d EXCEPT !.nodes = left]
    BY DEF RemoveNode
  <1> HIDE DEF left
  <1>3. [d EXCEPT !.nodes = left] = [period |-> d.period, nodes |-> left]
    BY DEF IsDetector
  <1> QED BY <1>1, <1>2, <1>3 DEF IsDetector

LEMMA ChangedPeriod ==
    ASSUME NEW d, IsDetector(d)
    PROVE  /\ IsDetector(StartChecking(d)) /\ IsDetector(StopChecking(d))
           /\ StopChecking(d).period = "enabled"
  <1>1. /\ StartChecking(d) = [period |-> "checking", nodes |-> d.nodes]
        /\ StopChecking(d) = [period |-> "enabled", nodes |-> d.nodes]
    BY DEF IsDetector, StartChecking, StopChecking
  <1> QED BY <1>1 DEF IsDetector

LEMMA NothingIsCheckedAfterwards ==
    ASSUME NEW d, IsDetector(d), d.period = "enabled"
    PROVE  /\ IsDetector(MarkCheckingPeriodLeaksAsNonCheckingPeriod(d))
           /\ NothingChecked(MarkCheckingPeriodLeaksAsNonCheckingPeriod(d))
  <1> DEFINE Marked(n) == IF n.period = "checking" THEN [n EXCEPT !.period = "enabled"] ELSE n
             all == [m \in DOMAIN d.nodes |-> Marked(d.nodes[m])]
  <1>1. ASSUME NEW n, IsNode(n)
        PROVE  IsNode(Marked(n)) /\ Marked(n).period # "checking"
    <2>1. [n EXCEPT !.period = "enabled"] = [allocator |-> n.allocator, period |-> "enabled"]
      BY <1>1 DEF IsNode
    <2> QED BY <1>1, <2>1 DEF IsNode
  <1>2. MarkCheckingPeriodLeaksAsNonCheckingPeriod(d) = [d EXCEPT !.nodes = all]
    BY DEF MarkCheckingPeriodLeaksAsNonCheckingPeriod
  <1> HIDE DEF Marked
  <1>3. DOMAIN all = DOMAIN d.nodes
        /\ \A m \in DOMAIN all : IsNode(all[m]) /\ all[m].period # "checking"
    BY <1>1 DEF IsDetector
  <1> HIDE DEF all
  <1>4. [d EXCEPT !.nodes = all] = [period |-> "enabled", nodes |-> all]
    BY DEF IsDetector
  <1> QED BY <1>2, <1>3, <1>4 DEF IsDetector, NothingChecked

LEMMA ChangedField ==
    ASSUME NEW a, NEW b, NEW c, NEW n, NEW l,
           l = [failureCount |-> a, expected |-> b, ignoreAll |-> c]
    PROVE  /\ [l EXCEPT !.failureCount = n] = [failureCount |-> n, expected |-> b, ignoreAll |-> c]
           /\ [l EXCEPT !.expected = n] = [failureCount |-> a, expected |-> n, ignoreAll |-> c]
           /\ [l EXCEPT !.ignoreAll = n] = [failureCount |-> a, expected |-> b, ignoreAll |-> n]
  <1>1. [l EXCEPT !.failureCount = n] = [failureCount |-> n, expected |-> b, ignoreAll |-> c]
    OBVIOUS
  <1>2. [l EXCEPT !.expected = n] = [failureCount |-> a, expected |-> n, ignoreAll |-> c]
    OBVIOUS
  <1>3. [l EXCEPT !.ignoreAll = n] = [failureCount |-> a, expected |-> b, ignoreAll |-> n]
    OBVIOUS
  <1> QED BY <1>1, <1>2, <1>3

LEMMA FieldsOfLeaks ==
    ASSUME NEW a, NEW b, NEW c, NEW l, l = [failureCount |-> a, expected |-> b, ignoreAll |-> c]
    PROVE  IsLeaks(l) /\ l.expected = b /\ l.ignoreAll = c
  BY DEF IsLeaks

LEMMA ChangedLeaks ==
    ASSUME NEW l, IsLeaks(l), NEW n
    PROVE  /\ IsLeaks([l EXCEPT !.failureCount = n]) /\ IsLeaks([l EXCEPT !.expected = n])
           /\ IsLeaks([l EXCEPT !.ignoreAll = n])
  <1>1. PICK a, b, c : l = [failureCount |-> a, expected |-> b, ignoreAll |-> c]
    BY Zenon DEF IsLeaks
  <1>2. /\ [l EXCEPT !.failureCount = n] = [failureCount |-> n, expected |-> b, ignoreAll |-> c]
        /\ [l EXCEPT !.expected = n] = [failureCount |-> a, expected |-> n, ignoreAll |-> c]
        /\ [l EXCEPT !.ignoreAll = n] = [failureCount |-> a, expected |-> b, ignoreAll |-> n]
    BY <1>1, ChangedField
  <1>3. ASSUME NEW k, NEW x, NEW y, NEW z, k = [failureCount |-> x, expected |-> y, ignoreAll |-> z]
        PROVE  IsLeaks(k)
    BY <1>3, FieldsOfLeaks
  <1> QED BY <1>2, <1>3, Zenon

LEMMA ForgottenLeaks ==
    ASSUME NEW l, IsLeaks(l), NEW forgotten,
           forgotten = [l EXCEPT !.expected = 0, !.ignoreAll = FALSE]
    PROVE  IsLeaks(forgotten) /\ NothingExpected(forgotten)
  <1>1. PICK a, b, c : l = [failureCount |-> a, expected |-> b, ignoreAll |-> c]
    BY Zenon DEF IsLeaks
  <1>2. PICK k : k = [l EXCEPT !.expected = 0]
    OBVIOUS
  <1>3. forgotten = [k EXCEPT !.ignoreAll = FALSE]
    BY <1>2
  <1>4. k = [failureCount |-> a, expected |-> 0, ignoreAll |-> c]
    BY <1>1, <1>2, ChangedField, Zenon
  <1>5. forgotten = [failureCount |-> a, expected |-> 0, ignoreAll |-> FALSE]
    BY <1>3, <1>4, ChangedField, Zenon
  <1>6. IsLeaks(forgotten) /\ forgotten.expected = 0 /\ forgotten.ignoreAll = FALSE
    BY <1>5, FieldsOfLeaks, Zenon
  <1> QED BY <1>6, Zenon DEF NothingExpected

(* An operation of a test changes what the plugins keep in ways they can undo. *)
LEMMA SameData ==
    ASSUME DataKept, UNCHANGED <<setlist, pointers, detector, leaks>>
    PROVE  DataKept'
  BY Zenon DEF DataKept, CanBeRestored, IsDetector, IsNode, IsLeaks, ElementsOf

LEMMA ChangedDetector ==
    ASSUME DataKept, UNCHANGED <<setlist, pointers>>, IsDetector(detector'), IsLeaks(leaks')
    PROVE  DataKept'
  <1>1. CanBeRestored(setlist', pointers')
    BY Zenon DEF DataKept
  <1> QED BY <1>1, Zenon DEF DataKept, CanBeRestored, IsDetector, IsNode, IsLeaks, ElementsOf

LEMMA AllocateKeepsData ==
    ASSUME DataKept, NEW kind, Allocate(kind)
    PROVE  DataKept' \/ Dies
  <1> DEFINE serves == IF kind = "new" THEN "new"
                       ELSE IF /\ kind # "new" /\ countdown > 0
                               /\ (IF kind # "new" /\ countdown > 0 THEN countdown - 1 ELSE countdown) = 0
                              THEN NullUnknownAllocator ELSE allocator
  <1>1. \/ Crash /\ May("Allocate")
        \/ UNCHANGED <<setlist, pointers, leaks, detector>>
        \/ /\ UNCHANGED <<setlist, pointers, leaks>>
           /\ \E m : detector' = StoreLeakInformation(detector, m, serves)
    BY Zenon DEF Allocate
  <1> HIDE DEF serves
  <1>2. CASE \E m : detector' = StoreLeakInformation(detector, m, serves)
             /\ UNCHANGED <<setlist, pointers, leaks>>
    <2>1. IsDetector(detector') /\ IsLeaks(leaks')
      BY <1>2, StoredBlock, Zenon DEF DataKept
    <2> QED BY <1>2, <2>1, ChangedDetector
  <1> QED BY <1>1, <1>2, SameData, Zenon DEF Crash, May, Dies

LEMMA ReleaseKeepsData ==
    ASSUME DataKept, NEW m, NEW kind, Release(m, kind)
    PROVE  DataKept'
  <1>1. detector' = RemoveNode(detector, m) /\ UNCHANGED <<leaks, setlist, pointers>>
    BY Zenon DEF Release
  <1>2. IsDetector(detector') /\ IsLeaks(leaks')
    BY <1>1, RemovedBlock, Zenon DEF DataKept
  <1> QED BY <1>1, <1>2, ChangedDetector

LEMMA ReallocateKeepsData ==
    ASSUME DataKept, NEW m, Reallocate(m)
    PROVE  DataKept'
  <1>1. /\ \/ detector' = RemoveNode(detector, m)
           \/ detector' = StoreLeakInformation(detector, m, allocator)
        /\ UNCHANGED <<leaks, setlist, pointers>>
    BY Zenon DEF Reallocate
  <1>2. IsDetector(detector') /\ IsLeaks(leaks')
    BY <1>1, RemovedBlock, StoredBlock, Zenon DEF DataKept
  <1> QED BY <1>1, <1>2, ChangedDetector

LEMMA PtrSetKeepsData ==
    ASSUME DataKept, NEW p \in Pointers, NEW value, PtrSet(p, value)
    PROVE  DataKept'
  <1>1. /\ UNCHANGED <<detector, leaks>>
        /\ \/ UNCHANGED <<setlist, pointers>>
           \/ /\ setlist' = Append(setlist, <<p, pointers[p]>>)
              /\ pointers' = [pointers EXCEPT ![p] = value]
    BY Zenon DEF PtrSet, memory
  <1>2. CASE UNCHANGED <<setlist, pointers>>
    BY <1>1, <1>2, SameData
  <1>3. CASE /\ setlist' = Append(setlist, <<p, pointers[p]>>)
             /\ pointers' = [pointers EXCEPT ![p] = value]
    <2>1. CanBeRestored(setlist', pointers')
      BY <1>3, SetPointerCanBeRestored DEF DataKept
    <2>2. IsDetector(detector') /\ IsLeaks(leaks')
      BY <1>1, Zenon DEF DataKept
    <2> QED BY <2>1, <2>2, Zenon DEF DataKept, CanBeRestored, IsDetector, IsNode, IsLeaks, ElementsOf
  <1> QED BY <1>1, <1>2, <1>3

LEMMA TestStepsKeepData == DataKept /\ TestSteps => DataKept' \/ Dies
  <1> SUFFICES ASSUME DataKept, TestSteps PROVE DataKept' \/ Dies
    OBVIOUS
  <1> USE DEF memory
  <1>1. CASE Fail
    BY <1>1, SameData, Zenon DEF Fail
  <1>2. CASE CrashInTest
    BY <1>2, Zenon DEF CrashInTest, Crash, May, Dies
  <1>3. CASE \E kind \in {"new", "malloc", "calloc"} : Allocate(kind)
    BY <1>3, AllocateKeepsData
  <1>4. CASE \E n \in {0, 1} : OutOfMemoryCountdown(n)
    BY <1>4, SameData, Zenon DEF OutOfMemoryCountdown
  <1>5. CASE NotOutOfMemory
    BY <1>5, SameData, Zenon DEF NotOutOfMemory
  <1>6. CASE \E m \in DOMAIN heap : Reallocate(m) \/ Overrun(m)
    BY <1>6, ReallocateKeepsData, SameData, Zenon DEF Overrun
  <1>7. CASE \E m \in DOMAIN heap, kind \in {"new", "malloc"} : Release(m, kind)
    BY <1>7, ReleaseKeepsData
  <1>8. CASE ExpectLeaks(1) \/ IgnoreAllLeaks
    <2>1. /\ UNCHANGED <<setlist, pointers, detector>>
          /\ \E n : \/ leaks' = [leaks EXCEPT !.expected = n]
                    \/ leaks' = [leaks EXCEPT !.ignoreAll = n]
      BY <1>8, Zenon DEF ExpectLeaks, IgnoreAllLeaks
    <2>2. IsLeaks(leaks)
      BY DEF DataKept
    <2>3. \A n : IsLeaks([leaks EXCEPT !.expected = n]) /\ IsLeaks([leaks EXCEPT !.ignoreAll = n])
      BY <2>2, ChangedLeaks, Zenon
    <2>4. IsDetector(detector') /\ IsLeaks(leaks')
      BY <2>1, <2>3, Zenon DEF DataKept
    <2> QED BY <2>1, <2>4, ChangedDetector
  <1>9. CASE \E p \in Pointers, value \in {"stub", "real"} : PtrSet(p, value)
    BY <1>9, PtrSetKeepsData
  <1>10. ASSUME NEW scope \in Scopes,
                \/ \E call \in Expectable : Expect(scope, call)
                \/ \E call \in Callable : Call(scope, call)
                \/ CheckExpectations(scope)
         PROVE  DataKept'
    <2>1. UNCHANGED <<memory, setlist, pointers>>
      BY <1>10, Zenon DEF Expect, Call, CheckExpectations
    <2> QED BY <2>1, SameData, Zenon
  <1>11. ASSUME NEW scope \in Scopes,
                \/ Switch("StrictOrder", StrictOrder(Mocks(scope), scope))
                \/ Switch("IgnoreOtherCalls", IgnoreOtherCalls(Mocks(scope), scope))
                \/ \E on \in BOOLEAN : Switch("Enable", SetEnabled(Mocks(scope), scope, on))
         PROVE  DataKept'
    <2>1. UNCHANGED <<memory, setlist, pointers>>
      BY <1>11, Zenon DEF Switch
    <2> QED BY <2>1, SameData, Zenon
  <1>12. CASE Clear
    BY <1>12, SameData, Zenon DEF Clear
  <1> QED
    BY <1>1, <1>2, <1>3, <1>4, <1>5, <1>6, <1>7, <1>8, <1>9, <1>10, <1>11, <1>12, Zenon
       DEF TestSteps

-----------------------------------------------------------------------------
(* Nothing is left of a test. *)

Inside == Phases \union {"tearing"}
Between == Alone \union {"waited"}

LEMMA DataKeptNext ==
    ASSUME CanBeRestored(setlist', pointers'), IsDetector(detector'), IsLeaks(leaks')
    PROVE  DataKept'
  BY Zenon DEF DataKept, CanBeRestored, IsDetector, IsNode, IsLeaks, ElementsOf

LEMMA SameProcesses ==
    ASSUME ProcessesKept, UNCHANGED <<parents, arguments>>,
           pc' \in Between => parents = <<>>
    PROVE  ProcessesKept'
  <1>1. \A i \in DOMAIN parents' : IsClean(parents'[i])
    BY Zenon DEF ProcessesKept
  <1>2. pc' \in Alone \union {"waited"} => parents' = <<>>
    BY DEF Between
  <1> QED BY <1>1, <1>2, Zenon DEF ProcessesKept

(* The test is running: what it leaves is not looked at. *)
LEMMA InsideATest ==
    ASSUME Isolation, DataKept', pc \in Inside, pc' \in Inside,
           UNCHANGED <<savedTest, parents, arguments>>
    PROVE  Isolation'
  <1>1. /\ pc' \notin Idle /\ pc' # "post" /\ pc' \notin Between
        /\ pc \in Phases \union {"tearing"} /\ pc' \in Phases \union {"tearing"}
    BY DEF Inside, Idle, Alone, Phases, Between
  <1>2. NothingLeft'
    BY <1>1, Zenon DEF NothingLeft, Restored, LeaksChecked, MocksChecked
  <1>3. ShellKept'
    BY <1>1, Zenon DEF Isolation, ShellKept
  <1>4. ProcessesKept'
    BY <1>1, SameProcesses, Zenon DEF Isolation
  <1> QED BY <1>2, <1>3, <1>4, Zenon DEF Isolation

LEMMA BetweenTests ==
    ASSUME Isolation, pc \in Between, pc' \in Between,
           UNCHANGED <<setlist, pointers, detector, leaks, mock, current, parents>>
    PROVE  Isolation'
  <1>1. /\ pc \in Idle \ {"pre"} /\ pc' \in Idle \ {"pre"} /\ pc' # "post"
        /\ pc \notin Phases \union {"tearing"} /\ pc' \notin Phases \union {"tearing"}
    BY DEF Between, Idle, Alone, Phases
  <1>2. DataKept'
    BY SameData DEF Isolation
  <1>3. /\ setlist = <<>> /\ mock = NewMock
        /\ NothingChecked(detector) /\ NothingExpected(leaks)
    BY <1>1, Zenon DEF Isolation, NothingLeft, Restored, LeaksChecked, MocksChecked
  <1>4. NothingLeft'
    BY <1>1, <1>3, Zenon DEF NothingLeft, NothingChecked, NothingExpected, NewMock, NewSupport, NoCall
  <1>5. ShellKept'
    BY <1>1, Zenon DEF Isolation, ShellKept
  <1>6. parents' = <<>>
    BY Zenon DEF Isolation, ProcessesKept, Between
  <1>7. \A i \in DOMAIN parents' : FALSE
    BY <1>6, SMT
  <1>8. ProcessesKept'
    BY <1>6, <1>7, Zenon DEF ProcessesKept
  <1> QED BY <1>2, <1>4, <1>5, <1>8, Zenon DEF Isolation

LEMMA ExitKeepsIsolation ==
    ASSUME JumpsInv, Isolation, NEW code, Exit(code)
    PROVE  pc' = "over" \/ Isolation'
  <1>1. CASE parents = <<>>
    BY <1>1, Zenon DEF Exit
  <1>2. CASE parents # <<>>
    <2>1. PICK p : p = parents[1]
      OBVIOUS
    <2>2. /\ pc' = "waited" /\ parents' = Tail(parents) /\ current' = p.current
          /\ detector' = p.detector /\ leaks' = p.leaks /\ mock' = p.mock
          /\ setlist' = p.setlist /\ pointers' = p.pointers
      BY <1>2, <2>1, Zenon DEF Exit
    <2>3. 1 \in DOMAIN parents /\ Len(parents) = 1 /\ Len(Tail(parents)) = Len(parents) - 1
          /\ Tail(parents) \in Seq(ElementsOf(Tail(parents)))
      BY <1>2, PoppedSequence DEF JumpsInv, Isolation, ProcessesKept
    <2>4. IsClean(p)
      BY <2>1, <2>3 DEF Isolation, ProcessesKept
    <2>5. Tail(parents) = <<>>
      <3>1. Len(Tail(parents)) = 0
        BY <2>3, SMT
      <3> QED BY <2>3, <3>1, EmptySeq
    <2>6. DataKept'
      BY <2>2, <2>4, DataKeptNext, Zenon DEF IsClean
    <2>7. /\ setlist' = <<>> /\ mock' = NewMock /\ current' = Outside
          /\ NothingChecked(detector') /\ NothingExpected(leaks')
      BY <2>2, <2>4, Zenon DEF IsClean
    <2>8. pc' # "post" /\ pc' \notin Phases \union {"tearing"}
      BY <2>2 DEF Phases
    <2>9. NothingLeft'
      BY <2>7, <2>8, Zenon DEF NothingLeft, NothingChecked, NothingExpected, NewMock, NewSupport, NoCall
    <2>10. ShellKept'
      BY <2>7, <2>8, Zenon DEF ShellKept
    <2>11. parents' = <<>>
      BY <2>2, <2>5
    <2>12. \A i \in DOMAIN parents' : FALSE
      BY <2>11, SMT
    <2>13. ProcessesKept'
      BY <2>11, <2>12, Zenon DEF ProcessesKept
    <2> QED BY <2>6, <2>9, <2>10, <2>13, Zenon DEF Isolation
  <1> QED BY <1>1, <1>2

(* A jump to the buffer of runOneTest is what is excused. *)
LEMMA OperationsKeepIsolation ==
    ASSUME JumpsInv, Isolation, DataKept' \/ Dies, Operation, "escaped" \notin excused'
    PROVE  pc' = "over" \/ Isolation'
  <1>1. CASE Dies
    BY <1>1, ExitKeepsIsolation DEF Dies
  <1>2. CASE DataKept' /\ GoesOn
    <2>1. pc \in Inside /\ pc' \in Inside /\ UNCHANGED <<savedTest, parents, arguments>>
      BY <1>2, Zenon DEF GoesOn, KeepsRun, Inside
    <2> QED BY <1>2, <2>1, InsideATest
  <1>3. CASE DataKept' /\ Jumps
    <2>1. /\ pc \in Phases /\ UNCHANGED <<savedTest, parents, arguments, jmpBuf>>
          /\ jmpIndex' = jmpIndex - 1 /\ pc' = After(jmpBuf[jmpIndex'])
          /\ jmpBuf[jmpIndex'] # "RunOneTest"
      BY <1>3, Zenon DEF Jumps, KeepsRun, ExitCurrentTest, Excuse
    <2>2. jmpBuf[0] = "RunOneTest" /\ jmpIndex = Depth(pc) /\ pc # "over"
      <3>1. pc # "over" /\ Depth(pc) > 0
        BY <2>1, SMT DEF Phases, Depth, Alone, InPhase
      <3> QED BY <3>1, SMT DEF JumpsInv
    <2>3. pc \in InPhase
      <3> SUFFICES ASSUME pc \notin InPhase PROVE FALSE
        OBVIOUS
      <3>1. pc \notin Alone
        BY <2>1 DEF Phases, Alone
      <3>2. jmpIndex' = 0
        BY <2>1, <2>2, <3>1, SMT DEF Depth
      <3> QED BY <2>1, <2>2, <3>2
    <2>4. jmpBuf[jmpIndex'] = BufferOf(pc)
      <3>1. jmpIndex = 2 /\ jmpBuf[1] = BufferOf(pc)
        BY <2>2, <2>3, SMT DEF JumpsInv, Depth, Alone, InPhase
      <3> QED BY <2>1, <3>1, SMT
    <2>5. pc \in Inside /\ pc' \in Inside
      BY <2>1, <2>3, <2>4, AfterAJump DEF Inside, Phases, InPhase, BufferOf
    <2> QED BY <1>3, <2>1, <2>5, InsideATest
  <1> QED BY <1>1, <1>2, <1>3 DEF Operation

LEMMA ParentIsClean ==
    ASSUME Isolation, pc = "test", NEW p, NEW r, NEW b,
           p = [Parent EXCEPT !.result = r, !.jmpBuf = b]
    PROVE  IsClean(p)
  <1>1. /\ p.setlist = setlist /\ p.pointers = pointers /\ p.mock = mock
        /\ p.detector = detector /\ p.leaks = leaks /\ p.current = current
    BY SMT DEF Parent
  <1>2. pc \in Idle \ {"pre"} /\ pc \notin Phases \union {"tearing"}
    BY DEF Idle, Alone, Phases
  <1>3. /\ setlist = <<>> /\ mock = NewMock /\ current = Outside
        /\ NothingChecked(detector) /\ NothingExpected(leaks)
    BY <1>2, Zenon DEF Isolation, NothingLeft, Restored, LeaksChecked, MocksChecked, ShellKept
  <1> QED BY <1>1, <1>3, Zenon DEF Isolation, DataKept, IsClean

LEMMA RunOneTestKeepsIsolation ==
    ASSUME Isolation, RunOneTest
    PROVE  Isolation'
  <1>1. /\ pc = "test" /\ pc' = "pre"
        /\ parents' = IF arguments.separate
                        THEN <<[Parent EXCEPT !.result = result', !.jmpBuf = jmpBuf']>> \o parents
                        ELSE parents
        /\ UNCHANGED <<setlist, pointers, detector, leaks, mock, current, arguments>>
    BY Zenon DEF RunOneTest, shell, memory
  <1>2. /\ pc \in Idle /\ pc \notin Phases \union {"tearing"} /\ pc \in Alone
        /\ pc' \in Idle /\ pc' \notin Phases \union {"tearing"} /\ pc' \notin Idle \ {"pre"}
        /\ pc' # "post" /\ pc' \notin Alone \union {"waited"}
    BY <1>1 DEF Idle, Alone, Phases
  <1>3. DataKept'
    BY <1>1, SameData DEF Isolation
  <1>4. setlist = <<>> /\ mock = NewMock /\ current = Outside /\ parents = <<>>
    BY <1>2, Zenon DEF Isolation, NothingLeft, Restored, MocksChecked, ShellKept, ProcessesKept
  <1>5. NothingLeft'
    BY <1>1, <1>2, <1>4, Zenon DEF NothingLeft, Restored, LeaksChecked, MocksChecked, NewMock,
          NewSupport, NoCall
  <1>6. ShellKept'
    BY <1>1, <1>2, <1>4, Zenon DEF ShellKept
  <1>7. ProcessesKept'
    <2>1. CASE arguments.separate
      <3>1. PICK p : p = [Parent EXCEPT !.result = result', !.jmpBuf = jmpBuf']
        OBVIOUS
      <3>2. IsClean(p)
        BY <1>1, <3>1, ParentIsClean
      <3>3. parents' = <<p>> \o parents
        BY <1>1, <2>1, <3>1
      <3>4. parents \in Seq(ElementsOf(parents)) /\ Len(parents) = 0 /\ \A i \in DOMAIN parents : FALSE
        BY <1>4, EmptySeq, SMT
      <3>5. Len(parents') = 0 + 1 /\ \A i \in DOMAIN parents' : parents'[i] = p
        BY <3>3, <3>4, PushedSequence
      <3>6. Len(parents') = 1
        BY <3>5, SMT
      <3>7. \A i \in DOMAIN parents' : IsClean(parents'[i])
        BY <3>2, <3>5
      <3> QED BY <1>1, <1>2, <2>1, <3>6, <3>7, Zenon DEF ProcessesKept
    <2>2. CASE ~arguments.separate
      <3>1. parents' = parents
        BY <1>1, <2>2
      <3> QED BY <1>1, <3>1, <1>4, SameProcesses DEF Isolation
    <2> QED BY <2>1, <2>2
  <1> QED BY <1>3, <1>5, <1>6, <1>7, Zenon DEF Isolation

LEMMA PreTestActionKeepsIsolation ==
    ASSUME Isolation, PreTestAction
    PROVE  Isolation'
  <1>1. /\ pc = "pre" /\ pc' = "pre"
        /\ UNCHANGED <<setlist, pointers, mock, current, parents, arguments>>
        /\ \/ UNCHANGED <<detector, leaks>>
           \/ /\ detector' = StartChecking(detector)
              /\ leaks' = [leaks EXCEPT !.failureCount = result.failureCount]
    BY Zenon DEF PreTestAction, shell, mocking, process
  <1>2. /\ pc \in Idle /\ pc \notin Phases \union {"tearing"}
        /\ pc' \in Idle /\ pc' \notin Phases \union {"tearing"} /\ pc' \notin Idle \ {"pre"}
        /\ pc' # "post" /\ pc' \notin Between
    BY <1>1 DEF Idle, Alone, Phases, Between
  <1>3. DataKept'
    <2>1. CASE UNCHANGED <<detector, leaks>>
      BY <1>1, <2>1, SameData DEF Isolation
    <2>2. CASE /\ detector' = StartChecking(detector)
               /\ leaks' = [leaks EXCEPT !.failureCount = result.failureCount]
      <3>1. IsDetector(detector) /\ IsLeaks(leaks)
        BY DEF Isolation, DataKept
      <3>2. IsDetector(detector') /\ IsLeaks(leaks')
        BY <2>2, <3>1, ChangedPeriod, ChangedLeaks, Zenon
      <3> QED BY <1>1, <3>2, ChangedDetector DEF Isolation
    <2> QED BY <1>1, <2>1, <2>2
  <1>4. setlist = <<>> /\ mock = NewMock /\ current = Outside
    BY <1>2, Zenon DEF Isolation, NothingLeft, Restored, MocksChecked, ShellKept
  <1>5. NothingLeft'
    BY <1>1, <1>2, <1>4, Zenon DEF NothingLeft, Restored, LeaksChecked, MocksChecked, NewMock,
          NewSupport, NoCall
  <1>6. ShellKept'
    BY <1>1, <1>2, <1>4, Zenon DEF ShellKept
  <1>7. ProcessesKept'
    BY <1>1, <1>2, SameProcesses DEF Isolation
  <1> QED BY <1>3, <1>5, <1>6, <1>7, Zenon DEF Isolation

LEMMA CreateTestKeepsIsolation ==
    ASSUME Isolation, CreateTest
    PROVE  Isolation'
  <1>1. /\ pc = "pre" /\ pc' = "create" /\ savedTest' = current
        /\ \E m : detector' = StoreLeakInformation(detector, m, "new")
        /\ UNCHANGED <<setlist, pointers, leaks, parents, arguments>>
    BY Zenon DEF CreateTest, process
  <1>2. /\ pc \notin Phases \union {"tearing"} /\ pc' \in Phases \union {"tearing"}
        /\ pc' \notin Idle /\ pc' # "post" /\ pc' \notin Between
    BY <1>1 DEF Idle, Alone, Phases, Between
  <1>3. DataKept'
    <2>1. IsDetector(detector') /\ IsLeaks(leaks')
      BY <1>1, StoredBlock, Zenon DEF Isolation, DataKept
    <2> QED BY <1>1, <2>1, ChangedDetector DEF Isolation
  <1>4. NothingLeft'
    BY <1>2, Zenon DEF NothingLeft, Restored, LeaksChecked, MocksChecked
  <1>5. ShellKept'
    BY <1>1, <1>2, Zenon DEF Isolation, ShellKept
  <1>6. ProcessesKept'
    BY <1>1, <1>2, SameProcesses DEF Isolation
  <1> QED BY <1>3, <1>4, <1>5, <1>6, Zenon DEF Isolation

LEMMA DestroyTestKeepsIsolation ==
    ASSUME Isolation, DestroyTest
    PROVE  Isolation'
  <1>1. /\ pc = "destroy" /\ pc' = "post" /\ plugin' = Len(Plugins) /\ current' = savedTest
        /\ detector' = RemoveNode(detector, object)
        /\ UNCHANGED <<setlist, pointers, leaks, parents, arguments>>
    BY Zenon DEF DestroyTest, process
  <1>2. /\ pc \in Phases \union {"tearing"} /\ pc' \notin Phases \union {"tearing"}
        /\ pc' \notin Idle /\ pc' \notin Between
    BY <1>1 DEF Idle, Alone, Phases, Between
  <1>3. plugin' = 3 /\ ~(plugin' = 0) /\ ~(plugin' <= 1) /\ ~(plugin' <= 2) /\ plugin' <= 3
    BY <1>1, PluginsAre, SMT
  <1>4. DataKept'
    <2>1. IsDetector(detector') /\ IsLeaks(leaks')
      BY <1>1, RemovedBlock, Zenon DEF Isolation, DataKept
    <2> QED BY <1>1, <2>1, ChangedDetector DEF Isolation
  <1>5. NothingLeft'
    BY <1>2, <1>3, Zenon DEF NothingLeft, Restored, LeaksChecked, MocksChecked
  <1>6. ShellKept'
    BY <1>1, <1>2, Zenon DEF Isolation, ShellKept
  <1>7. ProcessesKept'
    BY <1>1, <1>2, SameProcesses DEF Isolation
  <1> QED BY <1>4, <1>5, <1>6, <1>7, Zenon DEF Isolation

LEMMA PluginsClean ==
    ASSUME JumpsInv, Isolation, PostTestAction
    PROVE  /\ DataKept'
           /\ plugin' = 0 => setlist' = <<>>
           /\ plugin' <= 2 => mock' = NewMock
           /\ plugin' <= 1 => NothingChecked(detector') /\ NothingExpected(leaks')
  <1>1. /\ pc = "post" /\ plugin > 0 /\ plugin' = plugin - 1
        /\ CASE Plugins[plugin] = "MockSupport" -> CheckMocks
             [] Plugins[plugin] = "MemoryLeakWarning" -> CheckLeaks
             [] Plugins[plugin] = "SetPointer" -> RestorePointers
    BY Zenon DEF PostTestAction
  <1>2. /\ plugin <= 2 => mock = NewMock
        /\ plugin <= 1 => NothingChecked(detector) /\ NothingExpected(leaks)
        /\ DataKept
    BY <1>1, Zenon DEF Isolation, NothingLeft, LeaksChecked, MocksChecked
  <1>3. plugin \in {1, 2, 3}
    <2>1. plugin \in 0 .. 4 /\ plugin <= 3
      BY <1>1, Zenon DEF JumpsInv, Isolation, NothingLeft
    <2> QED BY <1>1, <2>1, SMT
  <1>4. CASE plugin = 3
    <2>1. CheckMocks /\ plugin' = 2 /\ ~(plugin' = 0) /\ ~(plugin' <= 1)
      BY <1>1, <1>4, PluginsAre, SMT
    <2>2. mock' = NewMock /\ UNCHANGED <<detector, leaks, setlist, pointers>>
      BY <2>1, Zenon DEF CheckMocks, ClearMock, NewMock
    <2>3. DataKept'
      BY <1>2, <2>2, SameData
    <2> QED BY <2>1, <2>2, <2>3, Zenon
  <1>5. CASE plugin = 2
    <2>1. CheckLeaks /\ plugin' = 1 /\ ~(plugin' = 0) /\ plugin <= 2
      BY <1>1, <1>5, PluginsAre, SMT
    <2>2. /\ detector' = MarkCheckingPeriodLeaksAsNonCheckingPeriod(StopChecking(detector))
          /\ leaks' = [leaks EXCEPT !.expected = 0, !.ignoreAll = FALSE]
          /\ UNCHANGED <<setlist, pointers, mock>>
      BY <2>1, Zenon DEF CheckLeaks, mocking
    <2>3. IsDetector(StopChecking(detector)) /\ StopChecking(detector).period = "enabled"
      BY <1>2, ChangedPeriod DEF DataKept
    <2>4. IsDetector(detector') /\ NothingChecked(detector')
      BY <2>2, <2>3, NothingIsCheckedAfterwards, Zenon
    <2>5. IsLeaks(leaks') /\ NothingExpected(leaks')
      BY <1>2, <2>2, ForgottenLeaks, Zenon DEF DataKept
    <2>6. DataKept'
      BY <1>2, <2>2, <2>4, <2>5, ChangedDetector
    <2>7. mock' = NewMock
      BY <1>2, <2>1, <2>2
    <2> QED BY <2>1, <2>4, <2>5, <2>6, <2>7, Zenon
  <1>6. CASE plugin = 1
    <2>1. RestorePointers /\ plugin <= 1 /\ plugin <= 2
      BY <1>1, <1>6, PluginsAre, SMT
    <2>2. UNCHANGED <<detector, leaks, mock>>
      BY <2>1, Zenon DEF RestorePointers, mocking
    <2>3. CanBeRestored(setlist', pointers') /\ setlist' = <<>>
      BY <1>2, <2>1, PointersAreRestored DEF DataKept
    <2>4. IsDetector(detector') /\ IsLeaks(leaks')
      BY <1>2, <2>2, Zenon DEF DataKept
    <2>5. DataKept'
      BY <2>3, <2>4, DataKeptNext
    <2>6. mock' = NewMock /\ NothingChecked(detector') /\ NothingExpected(leaks')
      BY <1>2, <2>1, <2>2, Zenon
    <2> QED BY <2>3, <2>5, <2>6, Zenon
  <1> QED BY <1>3, <1>4, <1>5, <1>6

LEMMA PostTestActionKeepsIsolation ==
    ASSUME JumpsInv, Isolation, PostTestAction
    PROVE  Isolation'
  <1>1. /\ pc = "post" /\ pc' = "post" /\ plugin > 0 /\ plugin' = plugin - 1
        /\ UNCHANGED <<current, parents, arguments>>
    BY Zenon DEF PostTestAction, shell, process
  <1>2. /\ pc \notin Phases \union {"tearing"} /\ pc' \notin Phases \union {"tearing"}
        /\ pc' \notin Idle /\ pc' \notin Between
    BY <1>1 DEF Idle, Alone, Phases, Between
  <1>3. plugin' <= 3
    <2>1. plugin \in 0 .. 4 /\ plugin <= 3
      BY <1>1, Zenon DEF JumpsInv, Isolation, NothingLeft
    <2> QED BY <1>1, <2>1, SMT
  <1>4. /\ DataKept'
        /\ plugin' = 0 => setlist' = <<>>
        /\ plugin' <= 2 => mock' = NewMock
        /\ plugin' <= 1 => NothingChecked(detector') /\ NothingExpected(leaks')
    BY PluginsClean
  <1>5. NothingLeft'
    BY <1>2, <1>3, <1>4, Zenon DEF NothingLeft, Restored, LeaksChecked, MocksChecked,
          NothingChecked, NothingExpected, NewMock, NewSupport, NoCall
  <1>6. ShellKept'
    BY <1>1, <1>2, Zenon DEF Isolation, ShellKept
  <1>7. ProcessesKept'
    BY <1>1, <1>2, SameProcesses DEF Isolation
  <1> QED BY <1>4, <1>5, <1>6, <1>7, Zenon DEF Isolation

LEMMA LeaveTestKeepsIsolation ==
    ASSUME JumpsInv, Isolation, LeaveTest
    PROVE  pc' = "over" \/ Isolation'
  <1>1. CASE Exit(ExitStatus(result.failureCount))
    BY <1>1, ExitKeepsIsolation
  <1>2. CASE ~arguments.separate
    <2>1. /\ pc = "post" /\ plugin = 0 /\ pc' = "ended"
          /\ UNCHANGED <<setlist, pointers, detector, leaks, mock, current, parents, arguments>>
      BY <1>2, Zenon DEF LeaveTest, Untouched, shell, memory, mocking, process
    <2>2. plugin <= 1 /\ plugin <= 2
      BY <2>1, SMT
    <2>3. /\ pc \notin Phases \union {"tearing"} /\ pc' \notin Phases \union {"tearing"}
          /\ pc' # "post"
      BY <2>1 DEF Phases
    <2>4. DataKept'
      BY <2>1, SameData DEF Isolation
    <2>5. /\ setlist = <<>> /\ mock = NewMock
          /\ NothingChecked(detector) /\ NothingExpected(leaks)
      BY <2>1, <2>2, Zenon DEF Isolation, NothingLeft, Restored, LeaksChecked, MocksChecked
    <2>6. NothingLeft'
      BY <2>1, <2>3, <2>5, Zenon DEF NothingLeft, NothingChecked, NothingExpected, NewMock,
            NewSupport, NoCall
    <2>7. ShellKept'
      BY <2>1, <2>3, Zenon DEF Isolation, ShellKept
    <2>8. parents = <<>>
      BY <1>2, Zenon DEF Isolation, ProcessesKept
    <2>9. ProcessesKept'
      BY <2>1, <2>8, SameProcesses DEF Isolation
    <2> QED BY <2>4, <2>6, <2>7, <2>9, Zenon DEF Isolation
  <1> QED BY <1>1, <1>2, Zenon DEF LeaveTest

(* What is excused stays so. *)
LEMMA ExcusesStay == [Next]_vars => excused \subseteq excused'
  <1> SUFFICES ASSUME [Next]_vars PROVE excused \subseteq excused'
    OBVIOUS
  <1>1. CASE TestSteps
    <2>1. Operation
      BY <1>1, TestStepsAreOperations
    <2> QED BY <2>1 DEF Operation, GoesOn, Jumps, Dies, ExitCurrentTest, Excuse
  <1>2. CASE RunnerSteps
    <2>1. UNCHANGED excused
      BY <1>2, Zenon DEF RunnerSteps, ParseArguments, WrongArguments, StartTestRun, EndTestRun,
            EndAllTestRuns, SkipTest, RunOneTest, PreTestAction, CreateTest, EnterSetup,
            EnterTestBody, LeaveTestBody, EnterTeardown, LeaveTeardown, DestroyTest,
            PostTestAction, LeaveTest, EndTest, WaitForChild, Untouched, judgement
    <2> QED BY <2>1
  <1>3. CASE UNCHANGED vars
    BY <1>3 DEF vars, judgement
  <1> QED BY <1>1, <1>2, <1>3 DEF Next

LEMMA InitOfIsolation == Init => IsolationInv
  <1> SUFFICES ASSUME Init PROVE Isolation
    BY DEF IsolationInv
  <1>1. /\ pc = "main" /\ current = Outside /\ parents = <<>> /\ setlist = <<>> /\ mock = NewMock
        /\ pointers = [p \in Pointers |-> "real"] /\ detector = Enable(MemoryLeakDetector)
    BY Zenon DEF Init
  <1>2. leaks = [failureCount |-> 0, expected |-> 0, ignoreAll |-> FALSE]
    BY Zenon DEF Init
  <1>3. IsLeaks(leaks) /\ NothingExpected(leaks)
    BY <1>2, Zenon DEF IsLeaks, NothingExpected
  <1>4. IsDetector(detector) /\ NothingChecked(detector)
    <2>1. detector = [period |-> "enabled", nodes |-> <<>>]
      BY <1>1 DEF Enable, MemoryLeakDetector
    <2>2. \A m \in DOMAIN <<>> : FALSE
      BY SMT
    <2> QED BY <2>1, <2>2 DEF IsDetector, NothingChecked
  <1>5. DataKept
    BY <1>1, <1>3, <1>4, RealIsRestored DEF DataKept
  <1>6. pc # "post" /\ pc \notin Phases \union {"tearing"}
    BY <1>1 DEF Phases
  <1>7. NothingLeft /\ ShellKept
    BY <1>1, <1>3, <1>4, <1>6, Zenon DEF NothingLeft, ShellKept
  <1>8. \A i \in DOMAIN parents : FALSE
    BY <1>1, SMT
  <1>9. ProcessesKept
    BY <1>1, <1>8, Zenon DEF ProcessesKept
  <1> QED BY <1>5, <1>7, <1>9 DEF Isolation

LEMMA OverIsTheEnd == Next => pc # "over"
  <1> SUFFICES ASSUME Next PROVE pc # "over"
    OBVIOUS
  <1>1. CASE TestSteps
    <2>1. pc \in Phases
      BY <1>1, TestStepsAreOperations, Zenon DEF Operation, GoesOn, Jumps, Dies
    <2> QED BY <2>1 DEF Phases
  <1>2. CASE RunnerSteps
    <2>1. \/ pc = "main" \/ pc = "loop" \/ pc = "test" \/ pc = "ended" \/ pc = "pre" \/ pc = "create"
          \/ pc = "setup" \/ pc = "body" \/ pc = "tearing" \/ pc = "teardown" \/ pc = "destroy"
          \/ pc = "post" \/ pc = "waited"
      BY <1>2, Zenon DEF RunnerSteps, ParseArguments, WrongArguments, StartTestRun, EndTestRun,
            EndAllTestRuns, SkipTest, RunOneTest, PreTestAction, CreateTest, EnterSetup,
            EnterTestBody, LeaveTestBody, EnterTeardown, LeaveTeardown, DestroyTest,
            PostTestAction, LeaveTest, EndTest, WaitForChild
    <2> QED BY <2>1
  <1> QED BY <1>1, <1>2 DEF Next

LEMMA NextKeepsIsolation == JumpsInv /\ IsolationInv /\ [Next]_vars => IsolationInv'
  <1> SUFFICES ASSUME JumpsInv, IsolationInv, [Next]_vars, pc' # "over", "escaped" \notin excused'
               PROVE  Isolation'
    BY Zenon DEF IsolationInv
  <1>0. "escaped" \notin excused
    BY ExcusesStay
  <1>a. Isolation
    <2>1. CASE Next
      BY <1>0, <2>1, OverIsTheEnd, Zenon DEF IsolationInv
    <2>2. CASE UNCHANGED vars
      BY <1>0, <2>2, Zenon DEF IsolationInv, vars, place
    <2> QED BY <2>1, <2>2
  <1> USE DEF process, shell, memory, mocking
  <1>1. CASE ParseArguments \/ StartTestRun \/ EndTestRun \/ SkipTest \/ EndTest \/ WaitForChild
    <2>1. /\ \/ pc = "main" \/ pc = "loop" \/ pc = "test" \/ pc = "ended" \/ pc = "waited"
          /\ \/ pc' = "loop" \/ pc' = "test" \/ pc' = "ended" \/ pc' = pc
          /\ UNCHANGED <<setlist, pointers, detector, leaks, mock, current, parents>>
      BY <1>1, Zenon DEF ParseArguments, StartTestRun, EndTestRun, SkipTest, EndTest, WaitForChild
    <2>2. pc \in Between /\ pc' \in Between
      BY <2>1 DEF Between, Alone
    <2> QED BY <1>a, <2>1, <2>2, BetweenTests
  <1>2. CASE WrongArguments \/ EndAllTestRuns
    BY <1>a, <1>2, ExitKeepsIsolation DEF WrongArguments, EndAllTestRuns
  <1>3. CASE RunOneTest
    BY <1>a, <1>3, RunOneTestKeepsIsolation
  <1>4. CASE PreTestAction
    BY <1>a, <1>4, PreTestActionKeepsIsolation
  <1>5. CASE CreateTest
    BY <1>a, <1>5, CreateTestKeepsIsolation
  <1>6. CASE EnterSetup \/ EnterTestBody \/ LeaveTestBody \/ EnterTeardown \/ LeaveTeardown
    <2>1. /\ \/ pc = "create" \/ pc = "setup" \/ pc = "body" \/ pc = "tearing" \/ pc = "teardown"
          /\ \/ pc' = "setup" \/ pc' = "body" \/ pc' = "tearing" \/ pc' = "teardown"
             \/ pc' = "destroy"
          /\ UNCHANGED <<setlist, pointers, detector, leaks, savedTest, parents, arguments>>
      BY <1>6, Zenon DEF EnterSetup, EnterTestBody, LeaveTestBody, EnterTeardown, LeaveTeardown,
            Untouched
    <2>2. pc \in Inside /\ pc' \in Inside
      BY <2>1 DEF Inside, Phases
    <2>3. DataKept'
      BY <1>a, <2>1, SameData DEF Isolation
    <2> QED BY <1>a, <2>1, <2>2, <2>3, InsideATest
  <1>7. CASE DestroyTest
    BY <1>a, <1>7, DestroyTestKeepsIsolation
  <1>8. CASE PostTestAction
    BY <1>a, <1>8, PostTestActionKeepsIsolation
  <1>9. CASE LeaveTest
    BY <1>a, <1>9, LeaveTestKeepsIsolation
  <1>10. CASE TestSteps
    <2>1. Operation /\ (DataKept' \/ Dies)
      BY <1>a, <1>10, TestStepsAreOperations, TestStepsKeepData DEF Isolation
    <2> QED BY <1>a, <2>1, OperationsKeepIsolation
  <1>11. CASE UNCHANGED vars
    <2>1. UNCHANGED <<pc, plugin, setlist, pointers, detector, leaks, mock, current, savedTest,
                      parents, arguments>>
      BY <1>11, Zenon DEF vars, place
    <2>2. DataKept'
      BY <1>a, <2>1, SameData DEF Isolation
    <2>3. NothingLeft'
      BY <1>a, <2>1, Zenon DEF Isolation, NothingLeft, Restored, LeaksChecked, MocksChecked,
            NothingChecked, NothingExpected, NewMock, NewSupport, NoCall
    <2>4. ShellKept'
      BY <1>a, <2>1, Zenon DEF Isolation, ShellKept
    <2>5. pc' \in Between => parents = <<>>
      BY <1>a, <2>1, Zenon DEF Isolation, ProcessesKept, Between
    <2>6. ProcessesKept'
      BY <1>a, <2>1, <2>5, SameProcesses DEF Isolation
    <2> QED BY <2>2, <2>3, <2>4, <2>6, Zenon DEF Isolation
  <1> QED
    BY <1>1, <1>2, <1>3, <1>4, <1>5, <1>6, <1>7, <1>8, <1>9, <1>10, <1>11, Zenon
       DEF Next, RunnerSteps

LEMMA TestsAlwaysLeaveNothing == Spec => []IsolationInv
  <1>1. Init => JumpsInv /\ IsolationInv
    BY InitOfJumps, InitOfIsolation
  <1>2. (JumpsInv /\ IsolationInv) /\ [Next]_vars => (JumpsInv /\ IsolationInv)'
    BY NextKeepsJumps, NextKeepsIsolation
  <1> QED BY <1>1, <1>2, PTL DEF Spec

LEMMA IsolatedTests == JumpsInv /\ IsolationInv => TestsAreIsolated
  <1> SUFFICES ASSUME JumpsInv, IsolationInv, pc = "test", "escaped" \notin excused
               PROVE  /\ pointers = [p \in Pointers |-> "real"] /\ setlist = <<>>
                      /\ mock = NewMock
                      /\ detector.period = "enabled" /\ Leaks(detector, "checking") = {}
                      /\ ~leaks.ignoreAll /\ leaks.expected = 0
                      /\ current = Outside /\ jmpIndex = Len(parents)
    BY Zenon DEF TestsAreIsolated
  <1>1. /\ pc \in Alone /\ pc \in Idle \ {"pre"} /\ pc # "over"
        /\ pc \notin Phases \union {"tearing"}
    BY DEF Alone, Idle, Phases
  <1>2. Isolation
    BY <1>1 DEF IsolationInv
  <1>3. /\ setlist = <<>> /\ mock = NewMock /\ current = Outside /\ parents = <<>>
        /\ NothingChecked(detector) /\ NothingExpected(leaks)
    BY <1>1, <1>2, Zenon DEF Isolation, NothingLeft, Restored, LeaksChecked, MocksChecked, ShellKept,
          ProcessesKept
  <1>4. pointers = [p \in Pointers |-> "real"]
    BY <1>2, <1>3, NothingSetIsReal DEF Isolation, DataKept
  <1>5. detector.period = "enabled" /\ Leaks(detector, "checking") = {}
    BY <1>3 DEF NothingChecked, Leaks, IsInPeriod
  <1>6. ~leaks.ignoreAll /\ leaks.expected = 0
    BY <1>3, Zenon DEF NothingExpected
  <1>7. jmpIndex = Len(parents)
    <2>1. jmpIndex = 0
      BY <1>1, SMT DEF JumpsInv, Depth
    <2>2. Len(parents) = 0
      BY <1>3, EmptySeq, SMT
    <2> QED BY <2>1, <2>2
  <1> QED BY <1>3, <1>4, <1>5, <1>6, <1>7

(* Whatever tests set, expect, leak or ignore, pass, fail or die: the next one begins as
   the first did. *)
THEOREM TestsLeaveNothing == Spec => []TestsAreIsolated
  BY JumpsAlwaysLand, TestsAlwaysLeaveNothing, IsolatedTests, PTL

-----------------------------------------------------------------------------
(* The states of a call. *)

IsList(expectations) ==
  /\ expectations \in Seq(ElementsOf(expectations))
  /\ \A i \in DOMAIN expectations : "callOrder" \in DOMAIN expectations[i]

(* A support with a call. *)
IsCalling(s, expectations, candidates, state) ==
  /\ "expectations" \in DOMAIN s /\ "last" \in DOMAIN s
  /\ "state" \in DOMAIN s.last /\ "candidates" \in DOMAIN s.last
  /\ s.expectations = expectations
  /\ s.last.candidates = candidates
  /\ s.last.state = state

Uncalled(expectations, candidates) ==
  \A i \in candidates : expectations[i].callOrder = NotCalledYet

(* What can be said of a call by its state. *)
IsSoundCall(expectations, candidates, state) ==
  /\ IsList(expectations)
  /\ candidates \subseteq DOMAIN expectations
  /\ \/ state = "failed"
     \/ state = "succeeded" /\ Uncalled(expectations, candidates)
     \/ state = "in progress" /\ \E i \in candidates : ~IsFulfilled(expectations[i])

IsCalled(s) ==
  /\ IsCalling(s, s.expectations, s.last.candidates, s.last.state)
  /\ IsSoundCall(s.expectations, s.last.candidates, s.last.state)

IsSound(s) ==
  \/ IsCalled(s)
  \/ /\ "expectations" \in DOMAIN s /\ "last" \in DOMAIN s
     /\ IsList(s.expectations)
     /\ s.last = NoCall

LEMMA StatesDiffer ==
    /\ "in progress" # "succeeded" /\ "in progress" # "failed" /\ "succeeded" # "in progress"
    /\ "succeeded" # "failed" /\ "none" # "in progress" /\ "none" # "failed"
    /\ "none" # "inconsistent" /\ "failed" # "inconsistent" /\ "succeeded" # "inconsistent"
    /\ "in progress" # "inconsistent" /\ "none" # "succeeded"
  BY SMT

LEMMA TakesAState ==
    ASSUME NEW s, NEW E, NEW C, NEW state, IsCalling(s, E, C, state),
           NEW new, state # new, state # "failed",
           NEW r, r = SetState(s, new)
    PROVE  IsCalling(r, E, C, new)
  <1>1. PICK v : v = IF s.last.state \in {new, "failed"} THEN "inconsistent" ELSE new
    OBVIOUS
  <1>2. v = new
    BY <1>1, Zenon DEF IsCalling
  <1>3. r = [s EXCEPT !.last.state = v]
    BY <1>1, Zenon DEF SetState
  <1> HIDE DEF SetState
  <1> QED BY ONLY <1>2, <1>3, IsCalling(s, E, C, state), Zenon DEF IsCalling

LEMMA NarrowedDown ==
    ASSUME NEW s, NEW E, NEW C, NEW state, IsCalling(s, E, C, state),
           NEW agreeing, NEW r, r = OnlyKeepUnfulfilled(s, agreeing)
    PROVE  IsCalling(r, E, {i \in C \cap agreeing : ~IsFulfilled(E[i])}, state)
  <1>1. PICK v : v = {i \in s.last.candidates \cap agreeing : ~IsFulfilled(s.expectations[i])}
    OBVIOUS
  <1>2. v = {i \in C \cap agreeing : ~IsFulfilled(E[i])}
    BY <1>1, Zenon DEF IsCalling
  <1>3. r = [s EXCEPT !.last.candidates = v]
    BY <1>1, Zenon DEF OnlyKeepUnfulfilled
  <1>4. IsCalling(r, E, v, state)
    BY ONLY <1>3, IsCalling(s, E, C, state), Zenon DEF IsCalling
  <1> QED BY <1>2, <1>4, Zenon

Changed(E, C, changed) == [i \in DOMAIN E |-> IF i \in C THEN changed[i] ELSE E[i]]

LEMMA CandidatesChange ==
    ASSUME NEW s, NEW E, NEW C, NEW state, IsCalling(s, E, C, state),
           NEW changed, NEW r, r = ToCandidates(s, changed)
    PROVE  IsCalling(r, Changed(E, C, changed), C, state)
  <1>1. PICK v : v = [i \in DOMAIN s.expectations |->
                        IF i \in s.last.candidates THEN changed[i] ELSE s.expectations[i]]
    OBVIOUS
  <1>2. v = Changed(E, C, changed)
    BY <1>1, Zenon DEF IsCalling, Changed
  <1>3. r = [s EXCEPT !.expectations = v]
    BY <1>1, Zenon DEF ToCandidates
  <1>4. IsCalling(r, v, C, state)
    BY ONLY <1>3, IsCalling(s, E, C, state), Zenon DEF IsCalling
  <1> QED BY <1>2, <1>4, Zenon

LEMMA ChangedList ==
    ASSUME NEW E, IsList(E), NEW C, NEW changed,
           \A i \in DOMAIN E : "callOrder" \in DOMAIN changed[i],
           NEW F, F = Changed(E, C, changed)
    PROVE  IsList(F) /\ DOMAIN F = DOMAIN E
  <1>1. DOMAIN F = DOMAIN E /\ \A i \in DOMAIN E : F[i] = IF i \in C THEN changed[i] ELSE E[i]
    BY Zenon DEF Changed
  <1>2. Len(E) \in Nat /\ DOMAIN E = 1 .. Len(E)
    BY SMT DEF IsList
  <1>3. F = [i \in 1 .. Len(E) |-> F[i]] /\ \A i \in 1 .. Len(E) : F[i] \in ElementsOf(F)
    BY <1>1, <1>2, Zenon DEF ElementsOf, Changed
  <1>4. F \in Seq(ElementsOf(F))
    BY <1>2, <1>3, SMT
  <1>5. \A i \in DOMAIN F : "callOrder" \in DOMAIN F[i]
    BY <1>1, Zenon DEF IsList
  <1> QED BY <1>1, <1>4, <1>5 DEF IsList

LEMMA CandidateDropped ==
    ASSUME NEW s, NEW E, NEW C, NEW state, IsCalling(s, E, C, state),
           NEW first, NEW r, r = [s EXCEPT !.last.candidates = @ \ {first}]
    PROVE  IsCalling(r, E, C \ {first}, state)
  <1>1. PICK v : v = s.last.candidates \ {first}
    OBVIOUS
  <1>2. v = C \ {first}
    BY <1>1, Zenon DEF IsCalling
  <1>3. r = [s EXCEPT !.last.candidates = v]
    BY <1>1, Zenon
  <1>4. IsCalling(r, E, v, state)
    BY ONLY <1>3, IsCalling(s, E, C, state), Zenon DEF IsCalling
  <1> QED BY <1>2, <1>4, Zenon

LEMMA ResetIsUncalled ==
    ASSUME NEW e, "callOrder" \in DOMAIN e
    PROVE  /\ "callOrder" \in DOMAIN ResetExpectation(e)
           /\ ResetExpectation(e).callOrder = NotCalledYet
  BY Zenon DEF ResetExpectation

(* Whichever of its candidates a call takes, the others are as if never called. *)
LEMMA SucceededCalls ==
    ASSUME NEW s, NEW E, NEW C, NEW state, IsCalling(s, E, C, state), IsList(E),
           C \subseteq DOMAIN E, state # "succeeded", state # "failed",
           NEW fulfilled, NEW r, r = CallHasSucceeded(s, fulfilled)
    PROVE  IsCalled(r)
  <1>1. PICK first : first = CHOOSE i \in fulfilled : \A j \in fulfilled : i <= j
    OBVIOUS
  <1>2. PICK d : d = [s EXCEPT !.last.candidates = @ \ {first}]
    OBVIOUS
  <1>3. PICK c : c = SetState(d, "succeeded")
    OBVIOUS
  <1>4. PICK reset : reset = [i \in DOMAIN s.expectations |-> ResetExpectation(s.expectations[i])]
    OBVIOUS
  <1>5. r = ToCandidates(c, reset)
    BY <1>1, <1>2, <1>3, <1>4, Zenon DEF CallHasSucceeded
  <1> DEFINE D == C \ {first}
             F == Changed(E, D, reset)
  <1>6. IsCalling(d, E, D, state)
    BY <1>2, CandidateDropped, Zenon
  <1>7. IsCalling(c, E, D, "succeeded")
    BY <1>3, <1>6, TakesAState, Zenon
  <1>8. IsCalling(r, F, D, "succeeded")
    BY <1>5, <1>7, CandidatesChange, Zenon
  <1>9. reset = [i \in DOMAIN E |-> ResetExpectation(E[i])]
    BY <1>4, Zenon DEF IsCalling
  <1>10. \A i \in DOMAIN E : "callOrder" \in DOMAIN reset[i] /\ reset[i].callOrder = NotCalledYet
    BY <1>9, ResetIsUncalled, Zenon DEF IsList
  <1>11. IsList(F) /\ DOMAIN F = DOMAIN E
    BY <1>10, ChangedList, Zenon
  <1>12. D \subseteq DOMAIN F /\ Uncalled(F, D)
    BY <1>10, <1>11, Zenon DEF Uncalled, Changed
  <1>13. IsSoundCall(F, D, "succeeded")
    BY <1>11, <1>12, Zenon DEF IsSoundCall
  <1>14. r.expectations = F /\ r.last.candidates = D /\ r.last.state = "succeeded"
    BY <1>8, Zenon DEF IsCalling
  <1> HIDE DEF D, F
  <1> QED BY <1>8, <1>13, <1>14, Zenon DEF IsCalled

LEMMA FinnalizedCalls ==
    ASSUME NEW s, NEW E, NEW C, IsCalling(s, E, C, "in progress"), IsList(E),
           C \subseteq DOMAIN E, C # {},
           NEW r, r = FinnalizeCallWhenFulfilled(s)
    PROVE  IsCalled(r)
  <1>1. PICK fulfilled : fulfilled = {i \in s.last.candidates : IsFulfilled(s.expectations[i])}
    OBVIOUS
  <1>2. fulfilled = {i \in C : IsFulfilled(E[i])}
    BY <1>1, Zenon DEF IsCalling
  <1>3. r = IF fulfilled = {} THEN s ELSE CallHasSucceeded(s, fulfilled)
    BY <1>1, Zenon DEF FinnalizeCallWhenFulfilled
  <1>4. CASE fulfilled = {}
    <2>1. r = s /\ \E i \in C : ~IsFulfilled(E[i])
      BY <1>2, <1>3, <1>4, Zenon
    <2>2. IsSoundCall(E, C, "in progress")
      BY <2>1, Zenon DEF IsSoundCall
    <2>3. s.expectations = E /\ s.last.candidates = C /\ s.last.state = "in progress"
      BY Zenon DEF IsCalling
    <2> QED BY <2>1, <2>2, <2>3, Zenon DEF IsCalled
  <1>5. CASE fulfilled # {}
    <2>1. r = CallHasSucceeded(s, fulfilled)
      BY <1>3, <1>5, Zenon
    <2>2. "in progress" # "succeeded" /\ "in progress" # "failed"
      BY StatesDiffer, Zenon
    <2> QED BY <2>1, <2>2, SucceededCalls, Zenon
  <1> QED BY <1>4, <1>5

KeepsCallOrder(E, changed) ==
  \A i \in DOMAIN E : changed[i].callOrder = E[i].callOrder

(* A link of the chain keeps the call sound: one that has succeeded has no candidates
   but those that were never called, and none of them can be fulfilled by it. *)
LEMMA NarrowedCalls ==
    ASSUME NEW s, NEW E, NEW C, NEW state, IsCalling(s, E, C, state), IsList(E),
           C \subseteq DOMAIN E,
           NEW agreeing, NEW changed,
           \/ state = "in progress"
           \/ state = "succeeded" /\ Uncalled(E, C) /\ KeepsCallOrder(E, changed),
           \A i \in DOMAIN E : "callOrder" \in DOMAIN changed[i],
           NEW r, r = Narrow(s, agreeing, changed)
    PROVE  IsCalled(r)
  <1>1. PICK kept : kept = OnlyKeepUnfulfilled(s, agreeing)
    OBVIOUS
  <1>2. r = IF kept.last.candidates = {} THEN SetState(kept, "failed")
                                         ELSE FinnalizeCallWhenFulfilled(ToCandidates(kept, changed))
    BY <1>1, Zenon DEF Narrow
  <1>3. PICK K : K = {i \in C \cap agreeing : ~IsFulfilled(E[i])}
    OBVIOUS
  <1>4. IsCalling(kept, E, K, state)
    BY <1>1, <1>3, NarrowedDown, Zenon
  <1>5. kept.last.candidates = K /\ K \subseteq C /\ K \subseteq DOMAIN E
    BY <1>3, <1>4, Zenon DEF IsCalling
  <1>6. "in progress" # "failed" /\ "succeeded" # "failed" /\ "in progress" # "succeeded"
    BY StatesDiffer, Zenon
  <1>7. CASE K = {}
    <2>1. r = SetState(kept, "failed")
      BY <1>2, <1>5, <1>7, Zenon
    <2>2. state # "failed"
      BY <1>6, Zenon
    <2>3. IsCalling(r, E, K, "failed")
      BY <1>4, <2>1, <2>2, TakesAState, Zenon
    <2>4. IsSoundCall(E, K, "failed")
      BY <1>5, Zenon DEF IsSoundCall
    <2>5. r.expectations = E /\ r.last.candidates = K /\ r.last.state = "failed"
      BY <2>3, Zenon DEF IsCalling
    <2> QED BY <2>3, <2>4, <2>5, Zenon DEF IsCalled
  <1>8. CASE K # {}
    <2>1. PICK t : t = ToCandidates(kept, changed)
      OBVIOUS
    <2>2. r = FinnalizeCallWhenFulfilled(t)
      BY <1>2, <1>5, <1>8, <2>1, Zenon
    <2>3. PICK F : F = Changed(E, K, changed)
      OBVIOUS
    <2>4. IsCalling(t, F, K, state)
      BY <1>4, <2>1, <2>3, CandidatesChange, Zenon
    <2>5. IsList(F) /\ DOMAIN F = DOMAIN E
      BY <2>3, ChangedList, Zenon
    <2>6. K \subseteq DOMAIN F
      BY <1>5, <2>5, Zenon
    <2>7. CASE state = "in progress"
      BY <1>8, <2>2, <2>4, <2>5, <2>6, <2>7, FinnalizedCalls, Zenon
    <2>8. CASE state = "succeeded" /\ Uncalled(E, C) /\ KeepsCallOrder(E, changed)
      <3>1. \A i \in K : F[i].callOrder = NotCalledYet
        BY <1>5, <2>3, <2>8, Zenon DEF Changed, Uncalled, KeepsCallOrder
      <3>2. \A i \in K : ~IsFulfilled(F[i])
        BY <3>1, Zenon DEF IsFulfilled, IsFulfilledWithoutIgnoredParameters
      <3>3. t.expectations = F /\ t.last.candidates = K /\ t.last.state = "succeeded"
        BY <2>4, <2>8, Zenon DEF IsCalling
      <3>4. r = t
        BY <2>2, <3>2, <3>3, Zenon DEF FinnalizeCallWhenFulfilled
      <3>5. IsSoundCall(F, K, "succeeded")
        BY <2>5, <2>6, <3>1, Zenon DEF IsSoundCall, Uncalled
      <3>6. IsCalling(t, F, K, "succeeded")
        BY <2>4, <2>8, Zenon
      <3> QED BY <3>3, <3>4, <3>5, <3>6, Zenon DEF IsCalled
    <2> QED BY <2>7, <2>8
  <1> QED BY <1>7, <1>8

LEMMA NamedCalls ==
    ASSUME NEW s, NEW E, NEW C, IsCalling(s, E, C, "succeeded"), IsList(E),
           C \subseteq DOMAIN E, NEW name, NEW order, NEW r, r = WithName(s, name, order)
    PROVE  IsCalled(r)
  <1>1. PICK t : t = SetState(s, "in progress")
    OBVIOUS
  <1>2. PICK agreeing : agreeing = {i \in DOMAIN s.expectations : s.expectations[i].name = name}
    OBVIOUS
  <1>3. PICK changed : changed = [i \in DOMAIN s.expectations |-> CallWasMade(s.expectations[i], order)]
    OBVIOUS
  <1>4. r = Narrow(t, agreeing, changed)
    BY <1>1, <1>2, <1>3, Zenon DEF WithName
  <1>5. "succeeded" # "in progress" /\ "succeeded" # "failed"
    BY StatesDiffer, Zenon
  <1>6. IsCalling(t, E, C, "in progress")
    BY <1>1, <1>5, TakesAState, Zenon
  <1>7. s.expectations = E
    BY Zenon DEF IsCalling
  <1>8. \A i \in DOMAIN E : "callOrder" \in DOMAIN changed[i]
    BY <1>3, <1>7, Zenon DEF CallWasMade, IsList
  <1> QED BY <1>4, <1>6, <1>8, NarrowedCalls, Zenon

(* A link of the chain that passes something on: it makes no call. *)
LEMMA PassedOn ==
    ASSUME NEW s, IsCalled(s), s.last.state \notin {"failed", "inconsistent"},
           NEW agreeing, NEW changed,
           \A i \in DOMAIN s.expectations :
             /\ "callOrder" \in DOMAIN changed[i]
             /\ changed[i].callOrder = s.expectations[i].callOrder,
           NEW r, r = Narrow(s, agreeing, changed)
    PROVE  IsCalled(r)
  <1>1. PICK E, C, state : E = s.expectations /\ C = s.last.candidates /\ state = s.last.state
    OBVIOUS
  <1>2. IsCalling(s, E, C, state) /\ IsSoundCall(E, C, state)
    BY <1>1, Zenon DEF IsCalled
  <1>3. IsList(E) /\ C \subseteq DOMAIN E
    BY <1>2, Zenon DEF IsSoundCall
  <1>4. KeepsCallOrder(E, changed) /\ \A i \in DOMAIN E : "callOrder" \in DOMAIN changed[i]
    BY <1>1, Zenon DEF KeepsCallOrder
  <1>5. \/ state = "in progress"
        \/ state = "succeeded" /\ Uncalled(E, C) /\ KeepsCallOrder(E, changed)
    BY <1>1, <1>2, <1>4, Zenon DEF IsSoundCall
  <1> QED BY <1>2, <1>3, <1>4, <1>5, NarrowedCalls, Zenon

LEMMA PassedParameters ==
    ASSUME NEW s, IsCalled(s), NEW parameter, NEW r, r = WithParameter(s, parameter)
    PROVE  IsCalled(r)
  <1>1. CASE s.last.state \in {"failed", "inconsistent"}
    BY <1>1, Zenon DEF WithParameter
  <1>2. CASE s.last.state \notin {"failed", "inconsistent"}
    <2>1. PICK agreeing :
            agreeing = {i \in DOMAIN s.expectations : HasParameter(s.expectations[i], parameter)}
      OBVIOUS
    <2>2. PICK changed :
            changed = [i \in DOMAIN s.expectations |->
                         ParameterWasPassed(s.expectations[i], parameter[1])]
      OBVIOUS
    <2>3. r = Narrow(s, agreeing, changed)
      BY <1>2, <2>1, <2>2, Zenon DEF WithParameter
    <2>4. \A i \in DOMAIN s.expectations : "callOrder" \in DOMAIN s.expectations[i]
      BY Zenon DEF IsCalled, IsSoundCall, IsList
    <2>5. "callOrder" # "passed"
      BY SMT
    <2>6. \A i \in DOMAIN s.expectations :
            /\ "callOrder" \in DOMAIN changed[i]
            /\ changed[i].callOrder = s.expectations[i].callOrder
      BY <2>2, <2>4, <2>5, Zenon DEF ParameterWasPassed
    <2> QED BY <1>2, <2>3, <2>6, PassedOn, Zenon
  <1> QED BY <1>1, <1>2

LEMMA PassedObjects ==
    ASSUME NEW s, IsCalled(s), NEW on, NEW r, r = OnObject(s, on)
    PROVE  IsCalled(r)
  <1>1. CASE s.last.state \in {"failed", "inconsistent"} \/ on = NoObject
    BY <1>1, Zenon DEF OnObject
  <1>2. CASE ~(s.last.state \in {"failed", "inconsistent"} \/ on = NoObject)
    <2>1. PICK agreeing :
            agreeing = {i \in DOMAIN s.expectations : s.expectations[i].object = on}
      OBVIOUS
    <2>2. PICK changed :
            changed = [i \in DOMAIN s.expectations |-> WasPassedToObject(s.expectations[i])]
      OBVIOUS
    <2>3. r = Narrow(s, agreeing, changed)
      BY <1>2, <2>1, <2>2, Zenon DEF OnObject
    <2>4. \A i \in DOMAIN s.expectations : "callOrder" \in DOMAIN s.expectations[i]
      BY Zenon DEF IsCalled, IsSoundCall, IsList
    <2>5. "callOrder" # "passedToObject"
      BY SMT
    <2>6. \A i \in DOMAIN s.expectations :
            /\ "callOrder" \in DOMAIN changed[i]
            /\ changed[i].callOrder = s.expectations[i].callOrder
      BY <2>2, <2>4, <2>5, Zenon DEF WasPassedToObject
    <2> QED BY <1>2, <2>3, <2>6, PassedOn, Zenon
  <1> QED BY <1>1, <1>2

-----------------------------------------------------------------------------
(* A chain of parameters. *)

LEMMA EveryNumber ==
    ASSUME NEW S, 0 \in S, \A n \in Nat : n \in S => n + 1 \in S
    PROVE  Nat \subseteq S
  <1> DEFINE Missing == {n \in Nat : n \notin S}
  <1> SUFFICES ASSUME Missing # {} PROVE FALSE
    BY Zenon
  <1>1. IsWellFoundedOn(OpToRel(<, Nat), Nat)
    BY NatLessThanWellFounded
  <1>2. Missing \subseteq Nat
    BY Zenon
  <1> HIDE DEF Missing
  <1>3. PICK x \in Missing : \A y \in Missing : ~(<<y, x>> \in OpToRel(<, Nat))
    BY <1>1, <1>2, WFMin
  <1>4. \A y \in Missing : ~(y < x)
    BY <1>2, <1>3 DEF OpToRel
  <1> USE DEF Missing
  <1>5. x \in Nat /\ x \notin S
    BY <1>2, <1>3, Zenon
  <1>6. x # 0
    BY <1>5
  <1>7. PICK k \in Nat : x = k + 1
    BY <1>5, <1>6, SMT
  <1>8. k < x
    BY <1>7, SMT
  <1>9. k \in S
    BY <1>4, <1>8, Zenon
  <1> QED BY <1>5, <1>7, <1>9, Zenon

IsChain(g, n, s, parameters) ==
  g = [k \in 0 .. n |-> IF k = 0 THEN s ELSE WithParameter(g[k - 1], parameters[k])]

LEMMA ChainsExist ==
    ASSUME NEW s, NEW parameters, NEW n \in Nat
    PROVE  \E g : IsChain(g, n, s, parameters)
  <1> DEFINE S == {m \in Nat : \E g : IsChain(g, m, s, parameters)}
  <1>1. 0 \in S
    <2>1. PICK g : g = [k \in 0 .. 0 |-> s]
      OBVIOUS
    <2>2. g = [k \in 0 .. 0 |-> IF k = 0 THEN s ELSE WithParameter(g[k - 1], parameters[k])]
      <3>1. \A k \in 0 .. 0 : k = 0
        BY SMT
      <3> QED BY <2>1, <3>1, Zenon
    <2> QED BY <2>2, SMT DEF IsChain
  <1>2. ASSUME NEW m \in Nat, m \in S PROVE m + 1 \in S
    <2>1. PICK g : IsChain(g, m, s, parameters)
      BY <1>2
    <2>2. PICK next : next = WithParameter(g[m], parameters[m + 1])
      OBVIOUS
    <2>3. PICK h : h = [k \in 0 .. m + 1 |-> IF k = m + 1 THEN next ELSE g[k]]
      OBVIOUS
    <2>4. ASSUME NEW k \in 0 .. m + 1
          PROVE  h[k] = IF k = 0 THEN s ELSE WithParameter(h[k - 1], parameters[k])
      <3>1. CASE k = 0
        <4>1. k \in 0 .. m /\ k \in 0 .. m + 1 /\ k # m + 1
          BY <3>1, SMT
        <4>2. h[k] = g[k] /\ g[k] = s
          BY <2>1, <2>3, <3>1, <4>1, Zenon DEF IsChain
        <4> QED BY <3>1, <4>2, Zenon
      <3>2. CASE k = m + 1
        <4>1. PICK i : i = k - 1
          OBVIOUS
        <4>2. i = m /\ i \in 0 .. m + 1 /\ i # m + 1 /\ k # 0
          BY <3>2, <4>1, SMT
        <4>3. h[i] = g[i] /\ h[k] = next
          BY <2>3, <3>2, <4>2, Zenon
        <4> QED BY <2>2, <3>2, <4>1, <4>2, <4>3, Zenon
      <3>3. CASE k # 0 /\ k # m + 1
        <4>1. PICK i : i = k - 1
          OBVIOUS
        <4>2. i \in 0 .. m + 1 /\ i # m + 1 /\ k \in 0 .. m
          BY <3>3, <4>1, SMT
        <4>3. h[i] = g[i] /\ h[k] = g[k]
          BY <2>3, <3>3, <4>2, Zenon
        <4>4. g[k] = WithParameter(g[k - 1], parameters[k])
          BY <2>1, <3>3, <4>2, Zenon DEF IsChain
        <4> QED BY <3>3, <4>1, <4>3, <4>4, Zenon
      <3> QED BY <3>1, <3>2, <3>3
    <2>5. IsChain(h, m + 1, s, parameters)
      BY <2>3, <2>4, Zenon DEF IsChain
    <2>6. m + 1 \in Nat
      BY SMT
    <2> QED BY <2>5, <2>6
  <1> HIDE DEF S
  <1>3. n \in S
    BY <1>1, <1>2, EveryNumber, Zenon
  <1> USE DEF S
  <1> QED BY <1>3, Zenon

LEMMA ChainedParameters ==
    ASSUME NEW s, IsCalled(s), NEW parameters, Len(parameters) \in Nat,
           NEW r, r = WithParameters(s, parameters)
    PROVE  IsCalled(r)
  <1> DEFINE h == CHOOSE g : IsChain(g, Len(parameters), s, parameters)
  <1>1. \E g : IsChain(g, Len(parameters), s, parameters)
    BY ChainsExist, Zenon
  <1>2. IsChain(h, Len(parameters), s, parameters)
    BY <1>1, Zenon
  <1>3. r = h[Len(parameters)]
    BY Zenon DEF WithParameters, IsChain
  <1> HIDE DEF h
  <1>4. PICK n \in Nat : n = Len(parameters)
    OBVIOUS
  <1> DEFINE S == {m \in Nat : m <= n => IsCalled(h[m])}
  <1>5. 0 \in S
    <2>1. 0 \in 0 .. n
      BY SMT
    <2>2. h[0] = s
      BY <1>2, <1>4, <2>1, Zenon DEF IsChain
    <2> QED BY <2>2
  <1>6. ASSUME NEW m \in Nat, m \in S PROVE m + 1 \in S
    <2>1. PICK k : k = m + 1
      OBVIOUS
    <2>2. k \in Nat /\ k # 0 /\ m = k - 1
      BY <2>1, SMT
    <2>3. ASSUME k <= n PROVE IsCalled(h[k])
      <3>1. k \in 0 .. n /\ m <= n
        BY <2>1, <2>3, SMT
      <3>2. h[k] = WithParameter(h[k - 1], parameters[k])
        BY <1>2, <1>4, <2>2, <3>1, Zenon DEF IsChain
      <3>3. IsCalled(h[m])
        BY <1>6, <3>1, Zenon
      <3> QED BY <2>2, <3>2, <3>3, PassedParameters, Zenon
    <2> QED BY <2>1, <2>2, <2>3, Zenon
  <1> HIDE DEF S
  <1>7. n \in S
    BY <1>5, <1>6, EveryNumber, Zenon
  <1> USE DEF S
  <1>8. n <= n
    BY SMT
  <1> QED BY <1>3, <1>4, <1>7, <1>8, Zenon

-----------------------------------------------------------------------------
(* What is done to a support. *)

LEMMA SameCalls ==
    ASSUME NEW s, IsSound(s), NEW r, "expectations" \in DOMAIN r, "last" \in DOMAIN r,
           r.expectations = s.expectations, r.last = s.last
    PROVE  IsSound(r)
  BY Zenon DEF IsSound, IsCalled, IsCalling

IsCallingLike(s, E, C, state) ==
  \E F : IsCalling(s, F, C, state) /\ IsList(F) /\ DOMAIN F = DOMAIN E

LEMMA IgnoredParameters ==
    ASSUME NEW s, NEW E, NEW C, NEW state, IsCalling(s, E, C, state), IsList(E),
           NEW first, NEW r, r = [s EXCEPT !.expectations[first].parametersWereIgnored = TRUE]
    PROVE  IsCallingLike(r, E, C, state)
  <1>1. PICK v : v = [s.expectations[first] EXCEPT !.parametersWereIgnored = TRUE]
    OBVIOUS
  <1>2. PICK F : F = [s.expectations EXCEPT ![first] = v]
    OBVIOUS
  <1>3. r = [s EXCEPT !.expectations = F]
    BY <1>1, <1>2, Zenon
  <1>4. s.expectations = E
    BY Zenon DEF IsCalling
  <1>5. IsCalling(r, F, C, state)
    BY ONLY <1>3, IsCalling(s, E, C, state), Zenon DEF IsCalling
  <1>6. DOMAIN F = DOMAIN E /\ \A i \in DOMAIN E : F[i] = IF i = first THEN v ELSE E[i]
    BY <1>2, <1>4, Zenon
  <1>7. \A i \in DOMAIN E : i = first => "callOrder" \in DOMAIN v
    BY <1>1, <1>4, Zenon DEF IsList
  <1>8. F = Changed(E, {first}, [i \in DOMAIN E |-> v])
    <2>1. F = [i \in DOMAIN E |-> IF i \in {first} THEN [j \in DOMAIN E |-> v][i] ELSE E[i]]
      BY <1>2, <1>4, Zenon
    <2> QED BY <2>1, Zenon DEF Changed
  <1>9. CASE first \in DOMAIN E
    <2>1. PICK changed : changed = [i \in DOMAIN E |-> v]
      OBVIOUS
    <2>2. \A i \in DOMAIN E : "callOrder" \in DOMAIN changed[i]
      BY <1>7, <1>9, <2>1, Zenon
    <2>3. F = Changed(E, {first}, changed)
      BY <1>8, <2>1, Zenon
    <2>4. IsList(F)
      BY <2>2, <2>3, ChangedList, Zenon
    <2> QED BY <1>5, <1>6, <2>4, Zenon DEF IsCallingLike
  <1>10. CASE first \notin DOMAIN E
    <2>1. F = E
      <3>1. E = [i \in DOMAIN E |-> E[i]]
        <4>1. E \in Seq(ElementsOf(E))
          BY Zenon DEF IsList
        <4>2. Len(E) \in Nat /\ DOMAIN E = 1 .. Len(E) /\ E = [i \in 1 .. Len(E) |-> E[i]]
          BY <4>1, SMT
        <4> QED BY <4>2, Zenon
      <3>2. F = [i \in DOMAIN E |-> E[i]]
        BY <1>2, <1>4, <1>10, Zenon
      <3> QED BY <3>1, <3>2, Zenon
    <2> QED BY <1>5, <2>1, Zenon DEF IsCallingLike
  <1> QED BY <1>9, <1>10

LEMMA CheckedCalls ==
    ASSUME NEW s, IsSound(s), NEW r, r = CheckExpectationsOfCall(s)
    PROVE  IsSound(r)
  <1>1. CASE s.last.state # "in progress"
    BY <1>1, Zenon DEF CheckExpectationsOfCall
  <1>2. CASE s.last.state = "in progress"
    <2>1. IsCalled(s)
      <3>1. NoCall.state = "none"
        BY Zenon DEF NoCall
      <3> QED BY <1>2, <3>1, StatesDiffer, Zenon DEF IsSound
    <2>2. PICK E, C : E = s.expectations /\ C = s.last.candidates
      OBVIOUS
    <2>3. IsCalling(s, E, C, "in progress") /\ IsList(E) /\ C \subseteq DOMAIN E
          /\ \E i \in C : ~IsFulfilled(E[i])
      BY <1>2, <2>1, <2>2, StatesDiffer, Zenon DEF IsCalled, IsSoundCall
    <2> DEFINE complete == {i \in s.last.candidates :
                              IsFulfilledWithoutIgnoredParameters(s.expectations[i])}
               first == CHOOSE i \in complete : \A j \in complete : i <= j
               t == [s EXCEPT !.expectations[first].parametersWereIgnored = TRUE]
    <2>7. ~\A i \in s.last.candidates : IsFulfilled(s.expectations[i])
      BY <2>2, <2>3, Zenon
    <2>8. r = IF complete = {} THEN SetState(s, "failed") ELSE CallHasSucceeded(t, complete)
      <3>1. r = IF s.last.state # "in progress" THEN s
                ELSE IF \A i \in s.last.candidates : IsFulfilled(s.expectations[i])
                  THEN [s EXCEPT !.last.state = "inconsistent"]
                ELSE IF complete = {} THEN SetState(s, "failed")
                ELSE CallHasSucceeded(t, complete)
        BY Zenon DEF CheckExpectationsOfCall
      <3> HIDE DEF complete, t
      <3> QED BY <1>2, <2>7, <3>1, Zenon
    <2>6. t = [s EXCEPT !.expectations[first].parametersWereIgnored = TRUE]
      OBVIOUS
    <2> HIDE DEF complete, first, t
    <2>9. CASE complete = {}
      <3>1. r = SetState(s, "failed")
        BY <2>8, <2>9, Zenon
      <3>2. IsCalling(r, E, C, "failed")
        BY <2>3, <3>1, StatesDiffer, TakesAState, Zenon
      <3>3. r.expectations = E /\ r.last.candidates = C /\ r.last.state = "failed"
        BY <3>2, Zenon DEF IsCalling
      <3> QED BY <2>3, <3>2, <3>3, Zenon DEF IsSound, IsCalled, IsSoundCall
    <2>10. CASE complete # {}
      <3>1. r = CallHasSucceeded(t, complete)
        BY <2>8, <2>10, Zenon
      <3>6. IsCallingLike(t, E, C, "in progress")
        BY <2>3, <2>6, IgnoredParameters, Zenon
      <3>2. PICK F : IsCalling(t, F, C, "in progress") /\ IsList(F) /\ DOMAIN F = DOMAIN E
        BY <3>6, Zenon DEF IsCallingLike
      <3>3. C \subseteq DOMAIN F
        BY <2>3, <3>2, Zenon
      <3>4. IsCalled(r)
        BY <3>1, <3>2, <3>3, StatesDiffer, SucceededCalls, Zenon
      <3> QED BY <3>4, Zenon DEF IsSound
    <2> QED BY <2>9, <2>10
  <1> QED BY <1>1, <1>2

LEMMA NewSupportIsSound == IsSound(NewSupport)
  <1>1. <<>> \in Seq(ElementsOf(<<>>)) /\ \A i \in DOMAIN <<>> : "callOrder" \in DOMAIN <<>>[i]
    <2>1. <<>> \in Seq(ElementsOf(<<>>)) /\ DOMAIN <<>> = {}
      BY SMT
    <2> QED BY <2>1, Zenon
  <1>2. IsList(<<>>)
    BY <1>1, Zenon DEF IsList
  <1>3. /\ "expectations" \in DOMAIN NewSupport /\ "last" \in DOMAIN NewSupport
        /\ NewSupport.expectations = <<>> /\ NewSupport.last = NoCall
    BY SMT DEF NewSupport
  <1> QED BY <1>2, <1>3, Zenon DEF IsSound

(* A list that is longer than another and begins like it. *)
Continues(F, E) ==
  IsList(F) /\ DOMAIN E \subseteq DOMAIN F /\ \A i \in DOMAIN E : F[i] = E[i]

LEMMA AppendedList ==
    ASSUME NEW E, IsList(E), NEW e, "callOrder" \in DOMAIN e, NEW F, F = Append(E, e)
    PROVE  Continues(F, E)
  <1> DEFINE S == ElementsOf(E) \union {e}
  <1>1. E \in Seq(S) /\ e \in S
    <2>1. E \in Seq(ElementsOf(E)) /\ ElementsOf(E) \subseteq S
      BY Zenon DEF IsList
    <2> QED BY <2>1, SMT
  <1> HIDE DEF S
  <1>2. /\ Append(E, e) \in Seq(S) /\ Len(Append(E, e)) = Len(E) + 1
        /\ Append(E, e)[Len(E) + 1] = e
        /\ \A i \in 1 .. Len(E) : Append(E, e)[i] = E[i]
    BY ONLY <1>1, AppendProperties, SMT
  <1>3. /\ F \in Seq(S) /\ Len(F) = Len(E) + 1
        /\ F[Len(E) + 1] = e /\ \A i \in 1 .. Len(E) : F[i] = E[i]
    BY ONLY <1>2, F = Append(E, e), Zenon
  <1>4. /\ F \in Seq(ElementsOf(F)) /\ DOMAIN F = 1 .. Len(F)
        /\ DOMAIN E = 1 .. Len(E) /\ Len(E) \in Nat
    BY ONLY <1>1, <1>3, ElementsAreEnough, Zenon
  <1>5. DOMAIN E \subseteq DOMAIN F /\ \A i \in DOMAIN E : F[i] = E[i]
    BY ONLY <1>3, <1>4, SMT
  <1>6. ASSUME NEW i \in DOMAIN F PROVE "callOrder" \in DOMAIN F[i]
    <2>1. i \in DOMAIN E \/ i = Len(E) + 1
      BY ONLY i \in DOMAIN F, <1>3, <1>4, SMT
    <2>2. CASE i \in DOMAIN E
      BY <1>5, <2>2, Zenon DEF IsList
    <2>3. CASE i = Len(E) + 1
      BY <1>3, <2>3, Zenon
    <2> QED BY <2>1, <2>2, <2>3
  <1> QED BY <1>4, <1>5, <1>6, Zenon DEF IsList, Continues

LEMMA ExpectedCalls ==
    ASSUME NEW s, IsSound(s), NEW e, "callOrder" \in DOMAIN e,
           NEW r, r = [s EXCEPT !.expectations = Append(@, e)]
    PROVE  IsSound(r)
  <1>1. PICK E : E = s.expectations
    OBVIOUS
  <1>2. PICK F : F = Append(E, e)
    OBVIOUS
  <1>3. r = [s EXCEPT !.expectations = F]
    BY <1>1, <1>2, Zenon
  <1>4. IsList(E)
    BY <1>1, Zenon DEF IsSound, IsCalled, IsSoundCall
  <1>9. Continues(F, E)
    BY <1>2, <1>4, AppendedList, Zenon
  <1>5. IsList(F) /\ DOMAIN E \subseteq DOMAIN F /\ \A i \in DOMAIN E : F[i] = E[i]
    BY <1>9, Zenon DEF Continues
  <1>6. /\ "expectations" \in DOMAIN r /\ "last" \in DOMAIN r
        /\ r.expectations = F /\ r.last = s.last
    BY <1>3, Zenon DEF IsSound, IsCalled, IsCalling
  <1>7. CASE s.last = NoCall
    BY <1>5, <1>6, <1>7, Zenon DEF IsSound
  <1>8. CASE IsCalled(s)
    <2>1. PICK C, state : C = s.last.candidates /\ state = s.last.state
      OBVIOUS
    <2>2. IsSoundCall(E, C, state) /\ "state" \in DOMAIN s.last /\ "candidates" \in DOMAIN s.last
      BY <1>1, <1>8, <2>1, Zenon DEF IsCalled, IsCalling
    <2>3. C \subseteq DOMAIN E /\ C \subseteq DOMAIN F /\ \A i \in C : F[i] = E[i]
      BY <1>5, <2>2, Zenon DEF IsSoundCall
    <2>4. IsSoundCall(F, C, state)
      BY <1>5, <2>2, <2>3, Zenon DEF IsSoundCall, Uncalled
    <2> QED BY <1>6, <2>1, <2>2, <2>4, Zenon DEF IsSound, IsCalled, IsCalling
  <1> QED BY <1>7, <1>8, Zenon DEF IsSound

-----------------------------------------------------------------------------
(* What is done to the mock. *)

IsSoundMock(m) ==
  "scopes" \in DOMAIN m /\ \A s \in DOMAIN m.scopes : IsSound(m.scopes[s])

LEMMA NewMockIsSound == IsSoundMock(NewMock)
  <1>1. "scopes" \in DOMAIN NewMock /\ NewMock.scopes = [s \in {Global} |-> NewSupport]
    BY SMT DEF NewMock
  <1> QED BY <1>1, NewSupportIsSound, Zenon DEF IsSoundMock

LEMMA OneSupportChanges ==
    ASSUME NEW m, IsSoundMock(m), NEW scope, NEW s, IsSound(s),
           NEW r, "scopes" \in DOMAIN r, r.scopes = [m.scopes EXCEPT ![scope] = s]
    PROVE  IsSoundMock(r)
  BY Zenon DEF IsSoundMock

LEMMA AllSupportsChange ==
    ASSUME NEW m, NEW r, "scopes" \in DOMAIN m, NEW scopes, r = [m EXCEPT !.scopes = scopes],
           \A s \in DOMAIN scopes : IsSound(scopes[s])
    PROVE  IsSoundMock(r)
  BY Zenon DEF IsSoundMock

LEMMA NamedScopes ==
    ASSUME NEW m, IsSoundMock(m), NEW scope, NEW r, r = GetMockSupportScope(m, scope)
    PROVE  IsSoundMock(r) /\ scope \in DOMAIN r.scopes
  <1>1. CASE scope \in DOMAIN m.scopes
    BY <1>1, Zenon DEF GetMockSupportScope
  <1>2. CASE scope \notin DOMAIN m.scopes
    <2>1. PICK ignore, enabled : ignore = m.scopes[Global].ignoreOtherCalls
                                 /\ enabled = m.scopes[Global].enabled
      OBVIOUS
    <2>2. PICK n : n = [NewSupport EXCEPT !.ignoreOtherCalls = ignore, !.enabled = enabled]
      OBVIOUS
    <2>3. PICK scopes : scopes = [s \in DOMAIN m.scopes \union {scope} |->
                                    IF s # scope THEN m.scopes[s] ELSE n]
      OBVIOUS
    <2>4. r = [m EXCEPT !.scopes = scopes]
      BY <1>2, <2>1, <2>2, <2>3, Zenon DEF GetMockSupportScope
    <2>5. /\ "expectations" \in DOMAIN NewSupport /\ "last" \in DOMAIN NewSupport
          /\ "expectations" \in DOMAIN n /\ "last" \in DOMAIN n
          /\ n.expectations = NewSupport.expectations /\ n.last = NewSupport.last
      BY <2>2, SMT DEF NewSupport
    <2>6. IsSound(n)
      BY <2>5, NewSupportIsSound, SameCalls, Zenon
    <2>7. \A s \in DOMAIN scopes : IsSound(scopes[s])
      BY <2>3, <2>6, Zenon DEF IsSoundMock
    <2>8. IsSoundMock(r)
      BY <2>4, <2>7, AllSupportsChange, Zenon DEF IsSoundMock
    <2>9. scope \in DOMAIN r.scopes
      BY <2>3, <2>4, Zenon DEF IsSoundMock
    <2> QED BY <2>8, <2>9
  <1> QED BY <1>1, <1>2

LEMMA SwitchedSupport ==
    ASSUME NEW s, IsSound(s), NEW on, NEW r,
           \/ r = [s EXCEPT !.ignoreOtherCalls = on]
           \/ r = [s EXCEPT !.enabled = on]
           \/ r = [s EXCEPT !.strictOrdering = on]
    PROVE  IsSound(r)
  <1>1. "expectations" \in DOMAIN s /\ "last" \in DOMAIN s
    BY Zenon DEF IsSound, IsCalled, IsCalling
  <1>2. /\ "expectations" # "ignoreOtherCalls" /\ "expectations" # "enabled"
        /\ "expectations" # "strictOrdering" /\ "last" # "ignoreOtherCalls"
        /\ "last" # "enabled" /\ "last" # "strictOrdering"
    BY ONLY SMT
  <1>3. /\ "expectations" \in DOMAIN r /\ "last" \in DOMAIN r
        /\ r.expectations = s.expectations /\ r.last = s.last
    BY <1>1, <1>2, Zenon
  <1> QED BY <1>3, SameCalls, Zenon

LEMMA SwitchedMocks ==
    ASSUME NEW m, IsSoundMock(m), NEW scope, NEW on, NEW r,
           \/ r = IgnoreOtherCalls(m, scope)
           \/ r = SetEnabled(m, scope, on)
           \/ r = StrictOrder(m, scope)
    PROVE  IsSoundMock(r)
  <1>1. CASE r = IgnoreOtherCalls(m, scope)
    <2>1. PICK scopes : scopes = [s \in DOMAIN m.scopes |->
            IF s \in Below(m, scope) THEN [m.scopes[s] EXCEPT !.ignoreOtherCalls = TRUE]
                                     ELSE m.scopes[s]]
      OBVIOUS
    <2>2. r = [m EXCEPT !.scopes = scopes]
      BY <1>1, <2>1, Zenon DEF IgnoreOtherCalls
    <2>3. \A s \in DOMAIN m.scopes : IsSound([m.scopes[s] EXCEPT !.ignoreOtherCalls = TRUE])
      BY SwitchedSupport, Zenon DEF IsSoundMock
    <2>4. \A s \in DOMAIN scopes : IsSound(scopes[s])
      BY <2>1, <2>3, Zenon DEF IsSoundMock
    <2> QED BY <2>2, <2>4, AllSupportsChange, Zenon DEF IsSoundMock
  <1>2. CASE r = SetEnabled(m, scope, on)
    <2>1. PICK scopes : scopes = [s \in DOMAIN m.scopes |->
            IF s \in Below(m, scope) THEN [m.scopes[s] EXCEPT !.enabled = on] ELSE m.scopes[s]]
      OBVIOUS
    <2>2. r = [m EXCEPT !.scopes = scopes]
      BY <1>2, <2>1, Zenon DEF SetEnabled
    <2>3. \A s \in DOMAIN m.scopes : IsSound([m.scopes[s] EXCEPT !.enabled = on])
      BY SwitchedSupport, Zenon DEF IsSoundMock
    <2>4. \A s \in DOMAIN scopes : IsSound(scopes[s])
      BY <2>1, <2>3, Zenon DEF IsSoundMock
    <2> QED BY <2>2, <2>4, AllSupportsChange, Zenon DEF IsSoundMock
  <1>3. CASE r = StrictOrder(m, scope)
    <2>1. PICK n : n = [m.scopes[scope] EXCEPT !.strictOrdering = TRUE]
      OBVIOUS
    <2>2. r = [m EXCEPT !.scopes = [m.scopes EXCEPT ![scope] = n]]
      BY <1>3, <2>1, Zenon DEF StrictOrder
    <2>3. scope \in DOMAIN m.scopes => IsSound(n)
      BY <2>1, SwitchedSupport, Zenon DEF IsSoundMock
    <2>4. \A s \in DOMAIN [m.scopes EXCEPT ![scope] = n] :
            IsSound([m.scopes EXCEPT ![scope] = n][s])
      BY <2>3, Zenon DEF IsSoundMock
    <2> QED BY <2>2, <2>4, AllSupportsChange, Zenon DEF IsSoundMock
  <1> QED BY <1>1, <1>2, <1>3

LEMMA ExpectedOnce ==
    ASSUME NEW m, IsSoundMock(m), NEW scope, NEW call, NEW r, r = ExpectOneCall(m, scope, call)
    PROVE  IsSoundMock(r)
  <1>1. CASE ~m.scopes[scope].enabled
    BY <1>1, Zenon DEF ExpectOneCall
  <1>2. CASE m.scopes[scope].enabled
    <2>1. PICK strict : strict = m.scopes[scope].strictOrdering
      OBVIOUS
    <2>2. PICK order : order = IF strict THEN m.expectedCallOrder + 1 ELSE NoExpectedCallOrder
      OBVIOUS
    <2>3. PICK e : e = ExpectedFunctionCall(call, order)
      OBVIOUS
    <2>4. PICK n : n = [m.scopes[scope] EXCEPT !.expectations = Append(@, e)]
      OBVIOUS
    <2>5. PICK expected : expected = IF strict THEN order ELSE m.expectedCallOrder
      OBVIOUS
    <2>6. r = [m EXCEPT !.scopes = [m.scopes EXCEPT ![scope] = n], !.expectedCallOrder = expected]
      BY <1>2, <2>1, <2>2, <2>3, <2>4, <2>5, Zenon DEF ExpectOneCall
    <2>7. "callOrder" \in DOMAIN e
      BY <2>3, Zenon DEF ExpectedFunctionCall
    <2>8. scope \in DOMAIN m.scopes => IsSound(n)
      BY <2>4, <2>7, ExpectedCalls, Zenon DEF IsSoundMock
    <2>9. "scopes" \in DOMAIN r /\ r.scopes = [m.scopes EXCEPT ![scope] = n]
      <3>1. "scopes" # "expectedCallOrder"
        BY ONLY SMT
      <3> QED BY <2>6, <3>1, Zenon DEF IsSoundMock
    <2> QED BY <2>8, <2>9, Zenon DEF IsSoundMock
  <1> QED BY <1>1, <1>2

(* A call takes as candidates what is not fulfilled, and is soon named. *)
LEMMA CreatedCalls ==
    ASSUME NEW s, IsSound(s), NEW name, NEW order,
           NEW r, r = WithName(CreateActualFunctionCall(s), name, order)
    PROVE  IsCalled(r)
  <1>1. PICK E : E = s.expectations
    OBVIOUS
  <1>2. PICK C : C = {i \in DOMAIN s.expectations : ~IsFulfilled(s.expectations[i])}
    OBVIOUS
  <1>3. PICK call : call = [state |-> "succeeded", candidates |-> C]
    OBVIOUS
  <1>4. PICK t : t = [s EXCEPT !.last = call]
    OBVIOUS
  <1>5. r = WithName(t, name, order)
    BY <1>2, <1>3, <1>4, Zenon DEF CreateActualFunctionCall
  <1>6. /\ "state" \in DOMAIN call /\ "candidates" \in DOMAIN call
        /\ call.state = "succeeded" /\ call.candidates = C
    BY ONLY <1>3, SMT
  <1>7. "expectations" \in DOMAIN s /\ "last" \in DOMAIN s /\ IsList(E)
    BY <1>1, Zenon DEF IsSound, IsCalled, IsCalling, IsSoundCall
  <1>8. IsCalling(t, E, C, "succeeded")
    BY <1>1, <1>4, <1>6, <1>7, Zenon DEF IsCalling
  <1>9. C \subseteq DOMAIN E
    BY <1>1, <1>2, Zenon
  <1> QED BY <1>5, <1>7, <1>8, <1>9, NamedCalls, Zenon

LEMMA CalledMocks ==
    ASSUME NEW m, IsSoundMock(m), NEW scope, scope \in DOMAIN m.scopes,
           NEW call, Len(call.parameters) \in Nat,
           NEW r, r = ActualCall(m, scope, call)
    PROVE  IsSoundMock(r)
  <1> DEFINE checked == CheckExpectationsOfCall(m.scopes[scope])
             before == IF Failed(checked) /\ m.scopes[scope].last.state = "in progress"
                         THEN checked ELSE [checked EXCEPT !.last = NoCall]
             order == m.callOrder + 1
             named == WithName(CreateActualFunctionCall(before), call.name, order)
             passed == WithParameters(named, call.parameters)
             after == OnObject(passed, call.object)
  <1>1. r = IF \/ Failed(before)
               \/ ~before.enabled
               \/ before.ignoreOtherCalls /\ ~HasExpectationWithName(before, call.name)
              THEN [m EXCEPT !.scopes[scope] = before]
              ELSE [m EXCEPT !.scopes[scope] = after, !.callOrder = order]
    BY Zenon DEF ActualCall
  <1>2. IsSound(checked)
    BY CheckedCalls, Zenon DEF IsSoundMock
  <1>3. IsSound([checked EXCEPT !.last = NoCall])
    <2> HIDE DEF checked
    <2>1. PICK n : n = [checked EXCEPT !.last = NoCall]
      OBVIOUS
    <2>2. "expectations" \in DOMAIN checked /\ "last" \in DOMAIN checked
          /\ IsList(checked.expectations)
      BY <1>2, Zenon DEF IsSound, IsCalled, IsCalling, IsSoundCall
    <2>3. "expectations" # "last"
      BY ONLY SMT
    <2>4. /\ "expectations" \in DOMAIN n /\ "last" \in DOMAIN n
          /\ n.expectations = checked.expectations /\ n.last = NoCall
      BY <2>1, <2>2, <2>3, Zenon
    <2> QED BY <2>1, <2>2, <2>4, Zenon DEF IsSound
  <1>4. IsSound(before)
    BY <1>2, <1>3, Zenon
  <1>5. IsCalled(named)
    <2> HIDE DEF before, order
    <2> QED BY <1>4, CreatedCalls, Zenon
  <1>6. IsCalled(passed)
    <2> HIDE DEF named
    <2> QED BY <1>5, ChainedParameters, Zenon
  <1>7. IsSound(after)
    <2> HIDE DEF passed
    <2>1. IsCalled(after)
      BY <1>6, PassedObjects, Zenon
    <2> QED BY <2>1, Zenon DEF IsSound
  <1> HIDE DEF before, after, order
  <1>8. \/ r = [m EXCEPT !.scopes = [m.scopes EXCEPT ![scope] = before]]
        \/ r = [m EXCEPT !.scopes = [m.scopes EXCEPT ![scope] = after], !.callOrder = order]
    BY <1>1, Zenon
  <1>9. "scopes" # "callOrder"
    BY ONLY SMT
  <1>10. /\ "scopes" \in DOMAIN r
         /\ \/ r.scopes = [m.scopes EXCEPT ![scope] = before]
            \/ r.scopes = [m.scopes EXCEPT ![scope] = after]
    BY <1>8, <1>9, Zenon DEF IsSoundMock
  <1> QED BY <1>4, <1>7, <1>10, OneSupportChanges, Zenon

LEMMA ClearedMocks ==
    ASSUME NEW m, IsSoundMock(m), NEW scope, NEW r, r = ClearMock(m, scope)
    PROVE  IsSoundMock(r)
  <1>1. PICK scopes : scopes = IF scope = Global THEN NewMock.scopes
                               ELSE [m.scopes EXCEPT ![scope] = NewSupport]
    OBVIOUS
  <1>2. r = [scopes |-> scopes, callOrder |-> 0, expectedCallOrder |-> 0]
    BY <1>1, Zenon DEF ClearMock
  <1>3. "scopes" \in DOMAIN r /\ r.scopes = scopes
    BY ONLY <1>2, SMT
  <1>4. \A s \in DOMAIN scopes : IsSound(scopes[s])
    <2>1. CASE scope = Global
      BY <1>1, <2>1, NewMockIsSound, Zenon DEF IsSoundMock
    <2>2. CASE scope # Global
      BY <1>1, <2>2, NewSupportIsSound, Zenon DEF IsSoundMock
    <2> QED BY <2>1, <2>2
  <1> QED BY <1>3, <1>4, Zenon DEF IsSoundMock

LEMMA CheckedMocks ==
    ASSUME NEW m, IsSoundMock(m), NEW scope, NEW jumping,
           NEW r, r = CheckExpectationsOfLastCall(m, scope, jumping)
    PROVE  IsSoundMock(r)
  <1>1. PICK looked : looked =
          IF jumping /\ ~Failed(m.scopes[scope]) /\ Failed(CheckExpectationsOfCall(m.scopes[scope]))
            THEN {scope} ELSE Below(m, scope)
    OBVIOUS
  <1>2. PICK scopes : scopes = [s \in DOMAIN m.scopes |->
          IF s \in looked THEN CheckExpectationsOfCall(m.scopes[s]) ELSE m.scopes[s]]
    OBVIOUS
  <1>3. r = [m EXCEPT !.scopes = scopes]
    BY <1>1, <1>2, Zenon DEF CheckExpectationsOfLastCall
  <1>4. \A s \in DOMAIN m.scopes : IsSound(CheckExpectationsOfCall(m.scopes[s]))
    BY CheckedCalls, Zenon DEF IsSoundMock
  <1>5. \A s \in DOMAIN scopes : IsSound(scopes[s])
    BY <1>2, <1>4, Zenon DEF IsSoundMock
  <1> QED BY <1>3, <1>5, AllSupportsChange, Zenon DEF IsSoundMock

-----------------------------------------------------------------------------
(* Nothing that cannot happen does. *)

MocksInv ==
  /\ IsSoundMock(mock)
  /\ \A i \in DOMAIN parents : IsSoundMock(parents[i].mock)
  /\ pc = "post" => plugin <= 3

LEMMA SameMocks ==
    ASSUME MocksInv, UNCHANGED <<mock, parents>>, pc' = "post" => UNCHANGED <<pc, plugin>>
    PROVE  MocksInv'
  BY Zenon DEF MocksInv

LEMMA ChangedMock ==
    ASSUME MocksInv, IsSoundMock(mock'), UNCHANGED parents, pc' = "post" => UNCHANGED <<pc, plugin>>
    PROVE  MocksInv'
  BY Zenon DEF MocksInv

LEMMA ExitKeepsMocks ==
    ASSUME JumpsInv, MocksInv, NEW code, Exit(code)
    PROVE  MocksInv'
  <1>1. CASE parents = <<>>
    <2>1. pc' = "over" /\ UNCHANGED <<mock, parents>>
      BY <1>1, Zenon DEF Exit, mocking
    <2>2. pc' # "post"
      BY <2>1
    <2> QED BY <2>1, <2>2, SameMocks, Zenon
  <1>2. CASE parents # <<>>
    <2>1. PICK p : p = parents[1]
      OBVIOUS
    <2>2. pc' = "waited" /\ parents' = Tail(parents) /\ mock' = p.mock
      BY <1>2, <2>1, Zenon DEF Exit
    <2>3. /\ 1 \in DOMAIN parents
          /\ \A i \in DOMAIN Tail(parents) : \E j \in DOMAIN parents : Tail(parents)[i] = parents[j]
      BY <1>2, PoppedSequence DEF JumpsInv
    <2>4. IsSoundMock(mock') /\ \A i \in DOMAIN parents' : IsSoundMock(parents'[i].mock)
      BY <2>1, <2>2, <2>3, Zenon DEF MocksInv
    <2>5. pc' # "post"
      BY <2>2
    <2> QED BY <2>4, <2>5, Zenon DEF MocksInv
  <1> QED BY <1>1, <1>2

LEMMA RunOneTestKeepsMocks ==
    ASSUME JumpsInv, MocksInv, RunOneTest
    PROVE  MocksInv'
  <1>1. /\ pc' = "pre" /\ mock' = mock
        /\ parents' = IF arguments.separate
                        THEN <<[Parent EXCEPT !.result = result', !.jmpBuf = jmpBuf']>> \o parents
                        ELSE parents
    BY Zenon DEF RunOneTest
  <1>2. pc' # "post"
    BY <1>1
  <1>3. CASE arguments.separate
    <2>1. PICK p : p = [Parent EXCEPT !.result = result', !.jmpBuf = jmpBuf']
      OBVIOUS
    <2>2. p.mock = mock
      BY <2>1, SMT DEF Parent
    <2>3. parents' = <<p>> \o parents
      BY <1>1, <1>3, <2>1
    <2>4. \A i \in DOMAIN parents' : parents'[i] = p \/ \E j \in DOMAIN parents : parents'[i] = parents[j]
      BY <2>3, PushedSequence DEF JumpsInv
    <2>5. \A i \in DOMAIN parents' : IsSoundMock(parents'[i].mock)
      BY <2>2, <2>4, Zenon DEF MocksInv
    <2> QED BY <1>1, <1>2, <2>5, Zenon DEF MocksInv
  <1>4. CASE ~arguments.separate
    BY <1>1, <1>2, <1>4, SameMocks, Zenon
  <1> QED BY <1>3, <1>4

LEMMA PostTestActionKeepsMocks ==
    ASSUME JumpsInv, MocksInv, PostTestAction
    PROVE  MocksInv'
  <1>1. /\ pc = "post" /\ pc' = "post" /\ plugin > 0 /\ plugin' = plugin - 1
        /\ UNCHANGED parents
        /\ CASE Plugins[plugin] = "MockSupport" -> CheckMocks
             [] Plugins[plugin] = "MemoryLeakWarning" -> CheckLeaks
             [] Plugins[plugin] = "SetPointer" -> RestorePointers
    BY Zenon DEF PostTestAction, process
  <1>2. plugin \in {1, 2, 3} /\ plugin' <= 3
    <2>1. plugin \in 0 .. 4 /\ plugin <= 3
      BY <1>1, Zenon DEF JumpsInv, MocksInv
    <2> QED BY <1>1, <2>1, SMT
  <1>3. CASE plugin = 3
    <2>1. CheckMocks
      BY <1>1, <1>3, PluginsAre, SMT
    <2>2. mock' = ClearMock(CheckExpectationsOfLastCall(mock, Global, FALSE), Global)
      BY <2>1, Zenon DEF CheckMocks
    <2>3. IsSoundMock(CheckExpectationsOfLastCall(mock, Global, FALSE))
      BY CheckedMocks, Zenon DEF MocksInv
    <2>4. IsSoundMock(mock')
      BY <2>2, <2>3, ClearedMocks, Zenon
    <2> QED BY <1>1, <1>2, <2>4, Zenon DEF MocksInv
  <1>4. CASE plugin = 2
    <2>1. CheckLeaks
      BY <1>1, <1>4, PluginsAre, SMT
    <2>2. mock' = mock
      BY <2>1, Zenon DEF CheckLeaks, mocking
    <2> QED BY <1>1, <1>2, <2>2, Zenon DEF MocksInv
  <1>5. CASE plugin = 1
    <2>1. RestorePointers
      BY <1>1, <1>5, PluginsAre, SMT
    <2>2. mock' = mock
      BY <2>1, Zenon DEF RestorePointers, mocking
    <2> QED BY <1>1, <1>2, <2>2, Zenon DEF MocksInv
  <1> QED BY <1>2, <1>3, <1>4, <1>5

LEMMA ScopesOfTheMock ==
    ASSUME MocksInv, NEW scope
    PROVE  IsSoundMock(Mocks(scope)) /\ scope \in DOMAIN Mocks(scope).scopes
  BY NamedScopes, Zenon DEF MocksInv, Mocks

LEMMA CallKeepsMocks ==
    ASSUME MocksInv, NEW scope, NEW call \in Callable, Call(scope, call)
    PROVE  IsSoundMock(mock')
  <1>1. mock' = ActualCall(Mocks(scope), scope, call)
    BY Zenon DEF Call
  <1>2. Len(call.parameters) \in Nat
    <2>1. call.parameters \in Seq(Range(call.parameters))
      BY TestRunAssumption, Zenon DEF TestRunAssumption
    <2> QED BY <2>1, SMT
  <1> QED BY <1>1, <1>2, ScopesOfTheMock, CalledMocks, Zenon

LEMMA CheckKeepsMocks ==
    ASSUME MocksInv, NEW scope, CheckExpectations(scope)
    PROVE  IsSoundMock(mock')
  <1>1. PICK checked : checked = CheckExpectationsOfLastCall(Mocks(scope), scope, TRUE)
    OBVIOUS
  <1>2. mock' = checked \/ mock' = ClearMock(checked, scope)
    BY <1>1, Zenon DEF CheckExpectations
  <1>3. IsSoundMock(checked)
    BY <1>1, ScopesOfTheMock, CheckedMocks, Zenon
  <1> QED BY <1>2, <1>3, ClearedMocks, Zenon

LEMMA SwitchKeepsMocks ==
    ASSUME MocksInv, NEW scope,
           \/ Switch("StrictOrder", StrictOrder(Mocks(scope), scope))
           \/ Switch("IgnoreOtherCalls", IgnoreOtherCalls(Mocks(scope), scope))
           \/ \E on \in BOOLEAN : Switch("Enable", SetEnabled(Mocks(scope), scope, on))
    PROVE  IsSoundMock(mock')
  <1>1. \/ mock' = StrictOrder(Mocks(scope), scope)
        \/ mock' = IgnoreOtherCalls(Mocks(scope), scope)
        \/ \E on \in BOOLEAN : mock' = SetEnabled(Mocks(scope), scope, on)
    BY Zenon DEF Switch
  <1> QED BY <1>1, ScopesOfTheMock, SwitchedMocks, Zenon

(* Only seven operations of a test touch the mock. *)
LEMMA TestStepsKeepTheMock == MocksInv /\ TestSteps => IsSoundMock(mock') \/ Dies
  <1> SUFFICES ASSUME MocksInv, TestSteps PROVE IsSoundMock(mock') \/ Dies
    OBVIOUS
  <1> USE DEF mocking
  <1>0. IsSoundMock(mock)
    BY Zenon DEF MocksInv
  <1>1. CASE Fail
    BY <1>0, <1>1, Zenon DEF Fail
  <1>2. CASE CrashInTest
    BY <1>2, Zenon DEF CrashInTest, Crash, May, Dies
  <1>3. CASE \E kind \in {"new", "malloc", "calloc"} : Allocate(kind)
    <2>1. UNCHANGED mock \/ Dies
      BY <1>3, Zenon DEF Allocate, Crash, May, Dies
    <2> QED BY <1>0, <2>1, Zenon
  <1>4. CASE \/ \E n \in {0, 1} : OutOfMemoryCountdown(n)
             \/ NotOutOfMemory
             \/ ExpectLeaks(1) \/ IgnoreAllLeaks
    BY <1>0, <1>4, Zenon DEF OutOfMemoryCountdown, NotOutOfMemory, ExpectLeaks, IgnoreAllLeaks
  <1>5. CASE \E m \in DOMAIN heap : Reallocate(m) \/ Overrun(m)
    BY <1>0, <1>5, Zenon DEF Reallocate, Overrun
  <1>6. CASE \E m \in DOMAIN heap, kind \in {"new", "malloc"} : Release(m, kind)
    BY <1>0, <1>6, Zenon DEF Release
  <1>7. CASE \E p \in Pointers, value \in {"stub", "real"} : PtrSet(p, value)
    BY <1>0, <1>7, Zenon DEF PtrSet
  <1>8. ASSUME NEW scope \in Scopes, \E call \in Expectable : Expect(scope, call)
        PROVE  IsSoundMock(mock')
    <2>1. PICK call \in Expectable : mock' = ExpectOneCall(Mocks(scope), scope, call)
      BY <1>8, Zenon DEF Expect
    <2> QED BY <2>1, ScopesOfTheMock, ExpectedOnce, Zenon
  <1>9. ASSUME NEW scope \in Scopes,
               (\E call \in Callable : Call(scope, call)) \/ CheckExpectations(scope)
        PROVE  IsSoundMock(mock')
    BY <1>9, CallKeepsMocks, CheckKeepsMocks, Zenon
  <1>10. ASSUME NEW scope \in Scopes,
                \/ Switch("StrictOrder", StrictOrder(Mocks(scope), scope))
                \/ Switch("IgnoreOtherCalls", IgnoreOtherCalls(Mocks(scope), scope))
                \/ \E on \in BOOLEAN : Switch("Enable", SetEnabled(Mocks(scope), scope, on))
         PROVE  IsSoundMock(mock')
    BY <1>10, SwitchKeepsMocks, Zenon
  <1>11. CASE Clear
    <2>1. mock' = ClearMock(mock, Global)
      BY <1>11, Zenon DEF Clear
    <2> QED BY <1>0, <2>1, ClearedMocks, Zenon
  <1> QED
    BY <1>1, <1>2, <1>3, <1>4, <1>5, <1>6, <1>7, <1>8, <1>9, <1>10, <1>11, Zenon DEF TestSteps

LEMMA TestStepsKeepMocks ==
    ASSUME JumpsInv, MocksInv, TestSteps
    PROVE  MocksInv'
  <1>1. CASE Dies
    BY <1>1, ExitKeepsMocks DEF Dies
  <1>2. CASE ~Dies
    <2>1. IsSoundMock(mock')
      BY <1>2, TestStepsKeepTheMock, Zenon
    <2>2. GoesOn \/ Jumps
      BY <1>2, TestStepsAreOperations, Zenon DEF Operation
    <2>3. UNCHANGED parents
      BY <2>2, Zenon DEF GoesOn, Jumps, KeepsRun
    <2>4. pc' # "post"
      <3>1. CASE GoesOn
        BY <3>1 DEF GoesOn, Phases
      <3>2. CASE Jumps
        BY <3>2, LandingPlaces
      <3> QED BY <2>2, <3>1, <3>2
    <2> QED BY <2>1, <2>3, <2>4, ChangedMock, Zenon
  <1> QED BY <1>1, <1>2

LEMMA InitOfMocks == Init => MocksInv
  <1> SUFFICES ASSUME Init PROVE MocksInv
    OBVIOUS
  <1>1. mock = NewMock /\ parents = <<>> /\ pc = "main"
    BY Zenon DEF Init
  <1>2. \A i \in DOMAIN parents : IsSoundMock(parents[i].mock)
    BY <1>1, SMT
  <1>3. pc # "post"
    BY <1>1
  <1> QED BY <1>1, <1>2, <1>3, NewMockIsSound, Zenon DEF MocksInv

(* The steps of the runner that are no end of a process leave the mock alone. *)
LEMMA RunnerKeepsMocks ==
    ASSUME JumpsInv, MocksInv, RunnerSteps
    PROVE  MocksInv'
  <1> USE DEF process, mocking, Untouched
  <1>1. CASE ParseArguments \/ StartTestRun \/ EndTestRun \/ EndTest \/ WaitForChild
    <2>1. /\ pc' \in {"loop", "test", "ended"} /\ UNCHANGED <<mock, parents>>
      BY <1>1 DEF ParseArguments, StartTestRun, EndTestRun, EndTest, WaitForChild
    <2>2. pc' # "post"
      BY <2>1
    <2> QED BY <2>1, <2>2, SameMocks, Zenon
  <1>2. CASE WrongArguments \/ EndAllTestRuns
    BY <1>2, ExitKeepsMocks DEF WrongArguments, EndAllTestRuns
  <1>3. CASE SkipTest
    BY <1>3, SameMocks, Zenon DEF SkipTest
  <1>4. CASE RunOneTest
    BY <1>4, RunOneTestKeepsMocks
  <1>5. CASE PreTestAction \/ CreateTest
    <2>1. pc' \in {"pre", "create"} /\ UNCHANGED <<mock, parents>>
      BY <1>5 DEF PreTestAction, CreateTest
    <2>2. pc' # "post"
      BY <2>1
    <2> QED BY <2>1, <2>2, SameMocks, Zenon
  <1>6. CASE EnterSetup \/ EnterTestBody \/ LeaveTestBody \/ EnterTeardown \/ LeaveTeardown
    <2>1. pc' \in {"setup", "body", "tearing", "teardown", "destroy"} /\ UNCHANGED <<mock, parents>>
      BY <1>6 DEF EnterSetup, EnterTestBody, LeaveTestBody, EnterTeardown, LeaveTeardown
    <2>2. pc' # "post"
      BY <2>1
    <2> QED BY <2>1, <2>2, SameMocks, Zenon
  <1>7. CASE DestroyTest
    <2>1. plugin' = Len(Plugins) /\ UNCHANGED <<mock, parents>>
      BY <1>7, Zenon DEF DestroyTest
    <2>2. plugin' <= 3
      BY <2>1, PluginsAre, SMT
    <2> QED BY <2>1, <2>2, Zenon DEF MocksInv
  <1>8. CASE PostTestAction
    BY <1>8, PostTestActionKeepsMocks
  <1>9. CASE LeaveTest
    <2>1. CASE Exit(ExitStatus(result.failureCount))
      BY <2>1, ExitKeepsMocks
    <2>2. CASE ~Exit(ExitStatus(result.failureCount))
      <3>1. pc' = "ended" /\ UNCHANGED <<mock, parents>>
        BY <1>9, <2>2, Zenon DEF LeaveTest
      <3>2. pc' # "post"
        BY <3>1
      <3> QED BY <3>1, <3>2, SameMocks, Zenon
    <2> QED BY <2>1, <2>2
  <1> QED
    BY <1>1, <1>2, <1>3, <1>4, <1>5, <1>6, <1>7, <1>8, <1>9, Zenon DEF RunnerSteps

LEMMA NextKeepsMocks == JumpsInv /\ MocksInv /\ [Next]_vars => MocksInv'
  <1> SUFFICES ASSUME JumpsInv, MocksInv, [Next]_vars PROVE MocksInv'
    OBVIOUS
  <1>1. CASE UNCHANGED vars
    BY <1>1, SameMocks, Zenon DEF vars, place, mocking, process
  <1> QED BY <1>1, RunnerKeepsMocks, TestStepsKeepMocks, Zenon DEF Next

LEMMA MocksStaySound == Spec => []MocksInv
  BY JumpsAlwaysLand, InitOfMocks, NextKeepsMocks, PTL DEF Spec

LEMMA SoundStates == MocksInv => CannotHappenDoesNot
  <1> SUFFICES ASSUME MocksInv, NEW scope \in DOMAIN mock.scopes
               PROVE  mock.scopes[scope].last.state # "inconsistent"
    BY DEF CannotHappenDoesNot
  <1>1. IsSound(mock.scopes[scope])
    BY Zenon DEF MocksInv, IsSoundMock
  <1>2. NoCall.state = "none"
    BY Zenon DEF NoCall
  <1> QED BY <1>1, <1>2, StatesDiffer, Zenon DEF IsSound, IsCalled, IsSoundCall

(* Whatever tests expect and call, in whatever order, scope and process: a call never
   takes the state it has nor leaves the one in which it failed, and none is found in
   progress with all its expectations fulfilled. *)
THEOREM CallsStayConsistent == Spec => []CannotHappenDoesNot
  BY MocksStaySound, SoundStates, PTL

=============================================================================
