---------------------------- MODULE LeakDetector ----------------------------
(***************************************************************************)
(* The memory leak detector of CppUTest                                    *)
(* (CppUTest/src/CppUTest/MemoryLeakDetector.cpp) and the allocators it    *)
(* serves (TestMemoryAllocator.cpp, TestHarness_c.cpp).                    *)
(*                                                                         *)
(* A detector is a record: the period it is in, and a node for each block  *)
(* it knows of, with the allocator the block came from and the period in   *)
(* which it was stored.  The hash table of lists is the function that      *)
(* looks a block up by its address.  What is on the heap of the process is *)
(* not the detector's to know: a block can be on the heap and have no node.*)
(***************************************************************************)
EXTENDS Integers, FiniteSets, Functions, TLC

Periods == {"all", "disabled", "enabled", "checking"}

(* The allocator that finds no memory, which cpputest_malloc_set_out_of_memory
   puts in the place of the one of malloc. *)
NullUnknownAllocator == "unknown"

MemoryLeakDetector == [period |-> "disabled", nodes |-> <<>>]

Enable(d) == [d EXCEPT !.period = "enabled"]

StartChecking(d) == [d EXCEPT !.period = "checking"]

StopChecking(d) == [d EXCEPT !.period = "enabled"]

IsInPeriod(node, period) ==
  \/ period = "all"
  \/ node.period = period
  \/ node.period # "disabled" /\ period = "enabled"

(* The blocks of a period whose nodes the table still has. *)
Leaks(d, period) == {m \in DOMAIN d.nodes : IsInPeriod(d.nodes[m], period)}

TotalMemoryLeaks(d, period) == Cardinality(Leaks(d, period))

(* A block is stored in the period of the moment: also one that realloc only
   moved, whichever period it was stored in before. *)
StoreLeakInformation(d, memory, allocator) ==
  [d EXCEPT !.nodes = [m \in DOMAIN @ \union {memory} |->
     IF m = memory THEN [allocator |-> allocator, period |-> d.period] ELSE @[m]]]

RemoveNode(d, memory) == [d EXCEPT !.nodes = Restrict(@, DOMAIN @ \ {memory})]

(* checkForCorruption: the allocator that frees must be of the type of the one
   that allocated, and the bytes behind the block those put there. *)
CheckForCorruption(node, allocator, intact) == node.allocator = allocator /\ intact

(* What a test leaked is not counted again against the tests after it. *)
MarkCheckingPeriodLeaksAsNonCheckingPeriod(d) ==
  [d EXCEPT !.nodes = [m \in DOMAIN @ |->
     IF @[m].period = "checking" THEN [@[m] EXCEPT !.period = "enabled"] ELSE @[m]]]

=============================================================================
