-------------------------- MODULE UnwindingProofs ---------------------------
(***************************************************************************)
(* Proofs about Unwinding, for every program that uses __try and __catch   *)
(* as NestedTries says: exceptions reach the __try around them, and a      *)
(* throw never jumps into the frame of a function that has returned.       *)
(***************************************************************************)
EXTENDS NestedTries, SequenceTheorems, TLAPS

---------------------------------------------------------------------------
(* The stack of frames, fs, and the handlers in it. *)

OpenIn(fs, i) == Open(fs[i].fn, fs[i].pc)

\* The address of the handler of block t in frame i.
HandlerAt(fs, i, t) == <<i, fs[i].fn, Code(fs[i].fn)[t].site>>

IsLast(t, blocks) == t \in blocks /\ \A u \in blocks : u <= t

\* The handler that is to be on top when frame i is at p: that of the innermost __try there, or
\* the one there was when the function was called.
IsNearest(fs, i, p, a) ==
    \/ Open(fs[i].fn, p) = {} /\ a = fs[i].entry
    \/ \E t \in Open(fs[i].fn, p) : IsLast(t, Open(fs[i].fn, p)) /\ a = HandlerAt(fs, i, t)

IsFrame(f) ==
    /\ f = [fn |-> f.fn, locals |-> f.locals, pc |-> f.pc, entry |-> f.entry]
    /\ f.fn \in Functions /\ f.pc \in DOMAIN Code(f.fn)

IsStack(fs) ==
    /\ fs \in Seq(Range(fs)) /\ Len(fs) >= 1
    /\ \A i \in 1 .. Len(fs) : IsFrame(fs[i])

CallersWait(fs) ==
    \A i \in 1 .. Len(fs) - 1 :
        /\ Code(fs[i].fn)[fs[i].pc].op = "call"
        /\ Code(fs[i].fn)[fs[i].pc].function = fs[i + 1].fn
        /\ IsNearest(fs, i, fs[i].pc, fs[i + 1].entry)

\* Each handler of an open block comes back to the end of the block, and knows the one before it.
HandlersLink(fs, hs) ==
    \A i \in 1 .. Len(fs) : \A t \in OpenIn(fs, i) :
        /\ HandlerAt(fs, i, t) \in DOMAIN hs
        /\ hs[HandlerAt(fs, i, t)].landing = EndOf(fs[i].fn, t)
        /\ IsNearest(fs, i, t, hs[HandlerAt(fs, i, t)].pPrevious)

\* What was on top when a function was called is the handler of a block that is still open.
EntriesAreOpen(fs) ==
    \A i \in 1 .. Len(fs) :
        \/ fs[i].entry = NoHandler
        \/ \E j \in 1 .. i - 1 : \E t \in OpenIn(fs, j) : IsLast(t, OpenIn(fs, j)) /\ fs[i].entry = HandlerAt(fs, j, t)

\* Only contained functions run without a handler.
OthersAreHandled(fs) ==
    \A i \in 1 .. Len(fs) : fs[i].fn \notin Contained => fs[i].entry # NoHandler

IsInCatch(fn, p) ==
    \E r \in DOMAIN Code(fn) : \E c \in DOMAIN Code(fn) :
        Code(fn)[r].op = "rethrow" /\ IsCaught(fn, c, r) /\ p \in c + 1 .. r

\* A __catch on the way to its __rethrow still has its exception, if only quiet functions run above it.
CatchesKnow(fs, cd) ==
    \A i \in 1 .. Len(fs) :
        /\ IsInCatch(fs[i].fn, fs[i].pc)
        /\ \A j \in i + 1 .. Len(fs) : fs[j].fn \in Quiet
        => cd # noException

IsSound(fs, hs, tp, cd) ==
    /\ IsStack(fs)
    /\ CallersWait(fs)
    /\ HandlersLink(fs, hs)
    /\ EntriesAreOpen(fs)
    /\ OthersAreHandled(fs)
    /\ IsNearest(fs, Len(fs), fs[Len(fs)].pc, tp)
    /\ CatchesKnow(fs, cd)

IInv == IsSound(frames, handlers, top, code) /\ outcome \notin {"wild", "unhandled"}

---------------------------------------------------------------------------
(* What the assumptions say of the blocks of one function. *)

LEMMA CodeFacts ==
    ASSUME NEW fn \in Functions
    PROVE  /\ DOMAIN Code(fn) \subseteq Nat \ {0}
           /\ 1 \in DOMAIN Code(fn)
           /\ \A p \in DOMAIN Code(fn) : \A by \in Jumps(Code(fn)[p]) :
                  by \in Int /\ p + by \in DOMAIN Code(fn)
           /\ \A p \in DOMAIN Code(fn) :
                  Code(fn)[p].op = "call" => Code(fn)[p].function \in Functions
  <1>1. Len(Code(fn)) \in Nat \ {0} /\ DOMAIN Code(fn) = 1 .. Len(Code(fn))
    BY CodeAssumption
  <1>2. DOMAIN Code(fn) \subseteq Nat \ {0} /\ 1 \in DOMAIN Code(fn)
    BY <1>1, SMT
  <1> QED BY <1>2, CodeAssumption

LEMMA TryFacts ==
    ASSUME NEW fn \in Functions
    PROVE  /\ \A t \in Tries(fn) :
                /\ t \in DOMAIN Code(fn) /\ t \in Nat \ {0} /\ Code(fn)[t].op = "try"
                /\ EndOf(fn, t) \in DOMAIN Code(fn) /\ EndOf(fn, t) \in Nat /\ t < EndOf(fn, t)
                /\ Code(fn)[EndOf(fn, t)].op = "endTry"
                /\ Code(fn)[EndOf(fn, t)].site = Code(fn)[t].site
           /\ \A e \in DOMAIN Code(fn) :
                Code(fn)[e].op = "endTry" => \E t \in Tries(fn) : e = EndOf(fn, t)
           /\ \A t, u \in Tries(fn) :
                /\ Code(fn)[t].site = Code(fn)[u].site => t = u
                /\ t < u /\ u <= EndOf(fn, t) => EndOf(fn, u) < EndOf(fn, t)
  <1>1. ASSUME NEW t \in Tries(fn)
        PROVE  /\ t \in DOMAIN Code(fn) /\ t \in Nat \ {0} /\ Code(fn)[t].op = "try"
               /\ EndOf(fn, t) \in DOMAIN Code(fn) /\ EndOf(fn, t) \in Nat /\ t < EndOf(fn, t)
               /\ Code(fn)[EndOf(fn, t)].op = "endTry"
               /\ Code(fn)[EndOf(fn, t)].site = Code(fn)[t].site
    <2>1. t \in DOMAIN Code(fn) /\ Code(fn)[t].op = "try"
      BY DEF Tries
    <2>2. /\ Code(fn)[t].landing \in Nat \ {0} /\ EndOf(fn, t) \in DOMAIN Code(fn)
          /\ Code(fn)[EndOf(fn, t)].op = "endTry"
          /\ Code(fn)[EndOf(fn, t)].site = Code(fn)[t].site
      BY TriesAssumption
    <2>3. t \in Nat \ {0}
      BY <2>1, CodeFacts
    <2>4. EndOf(fn, t) \in Nat /\ t < EndOf(fn, t)
      BY <2>2, <2>3, SMT DEF EndOf
    <2> QED BY <2>1, <2>2, <2>3, <2>4
  <1>2. \A e \in DOMAIN Code(fn) :
                Code(fn)[e].op = "endTry" => \E t \in Tries(fn) : e = EndOf(fn, t)
    BY TriesAssumption
  <1>3. \A t, u \in Tries(fn) :
                /\ Code(fn)[t].site = Code(fn)[u].site => t = u
                /\ t < u /\ u <= EndOf(fn, t) => EndOf(fn, u) < EndOf(fn, t)
    BY TriesAssumption
  <1> QED BY <1>1, <1>2, <1>3

\* An instruction that neither begins nor ends a block is in the same blocks as the next.
LEMMA NextIsInTheSameBlocks ==
    ASSUME NEW fn \in Functions, NEW p \in DOMAIN Code(fn),
           Code(fn)[p].op # "try", Code(fn)[p].op # "endTry"
    PROVE  Open(fn, p + 1) = Open(fn, p)
  <1>1. p \in Nat /\ p \notin Tries(fn)
    BY CodeFacts DEF Tries
  <1>2. ASSUME NEW t \in Tries(fn)
        PROVE  (t < p /\ p <= EndOf(fn, t)) <=> (t < p + 1 /\ p + 1 <= EndOf(fn, t))
    <2>1. t # p
      BY <1>1
    <2>2. EndOf(fn, t) # p /\ t \in Nat /\ EndOf(fn, t) \in Nat
      BY TryFacts
    <2> QED BY <1>1, <2>1, <2>2, SMT
  <1> QED BY <1>2 DEF Open

\* __try adds its block, as the innermost.
LEMMA TryOpensItsBlock ==
    ASSUME NEW fn \in Functions, NEW t \in Tries(fn)
    PROVE  /\ Open(fn, t + 1) = Open(fn, t) \cup {t}
           /\ t \notin Open(fn, t)
           /\ IsLast(t, Open(fn, t + 1))
  <1>1. /\ t \in Nat /\ EndOf(fn, t) \in Nat /\ t < EndOf(fn, t) /\ Code(fn)[t].op = "try"
    BY TryFacts
  <1>2. ASSUME NEW u \in Tries(fn)
        PROVE  /\ (u < t + 1 /\ t + 1 <= EndOf(fn, u)) <=> ((u < t /\ t <= EndOf(fn, u)) \/ u = t)
               /\ u < t + 1 => u <= t
    <2>1. u \in Nat /\ EndOf(fn, u) \in Nat /\ EndOf(fn, u) # t
      BY <1>1, TryFacts
    <2> QED BY <1>1, <2>1, SMT
  <1>3. Open(fn, t + 1) = Open(fn, t) \cup {t}
    BY <1>2 DEF Open
  <1>4. \A u \in Open(fn, t + 1) : u <= t
    BY <1>2 DEF Open
  <1>5. t \notin Open(fn, t)
    BY <1>1, SMT DEF Open
  <1> QED BY <1>3, <1>4, <1>5 DEF IsLast

\* At its end a block is the innermost, and behind it are the blocks from before it.
LEMMA EndClosesItsBlock ==
    ASSUME NEW fn \in Functions, NEW t \in Tries(fn)
    PROVE  /\ IsLast(t, Open(fn, EndOf(fn, t)))
           /\ Open(fn, EndOf(fn, t) + 1) = Open(fn, t)
           /\ Open(fn, t) \subseteq Open(fn, EndOf(fn, t))
  <1> DEFINE e == EndOf(fn, t)
  <1>1. t \in Nat /\ e \in Nat /\ t < e /\ Code(fn)[e].op = "endTry" /\ Code(fn)[t].op = "try"
    BY TryFacts
  <1> HIDE DEF e
  <1>2. ASSUME NEW u \in Tries(fn)
        PROVE  /\ u < e /\ e <= EndOf(fn, u) => u <= t
               /\ (u < e + 1 /\ e + 1 <= EndOf(fn, u)) <=> (u < t /\ t <= EndOf(fn, u))
               /\ u < t /\ t <= EndOf(fn, u) => u < e /\ e <= EndOf(fn, u)
    <2>1. /\ u \in Nat /\ EndOf(fn, u) \in Nat /\ u < EndOf(fn, u)
          /\ Code(fn)[u].op = "try" /\ Code(fn)[EndOf(fn, u)].op = "endTry"
      BY TryFacts
    <2>2. u # e /\ EndOf(fn, u) # t
      BY <1>1, <2>1
    <2>3. /\ t < u /\ u <= e => EndOf(fn, u) < e
          /\ u < t /\ t <= EndOf(fn, u) => e < EndOf(fn, u)
      BY TryFacts DEF e
    <2>4. u = t => EndOf(fn, u) = e
      BY DEF e
    <2> QED BY <1>1, <2>1, <2>2, <2>3, <2>4, SMT
  <1>3. t \in Open(fn, e)
    BY <1>1, SMT DEF Open, e
  <1>4. \A u \in Open(fn, e) : u <= t
    BY <1>2 DEF Open
  <1>5. Open(fn, e + 1) = Open(fn, t)
    BY <1>2 DEF Open
  <1>6. Open(fn, t) \subseteq Open(fn, e)
    BY <1>2 DEF Open
  <1> QED BY <1>3, <1>4, <1>5, <1>6 DEF IsLast, e

\* From anywhere in a block its end is in the blocks around it that are open there.
LEMMA EndIsInOpenBlocks ==
    ASSUME NEW fn \in Functions, NEW p \in DOMAIN Code(fn), NEW t, IsLast(t, Open(fn, p))
    PROVE  /\ t \in Tries(fn)
           /\ Open(fn, EndOf(fn, t)) \subseteq Open(fn, p)
  <1>1. t \in Tries(fn) /\ p \in Nat /\ t < p /\ p <= EndOf(fn, t)
    BY CodeFacts DEF IsLast, Open
  <1>2. t \in Nat /\ EndOf(fn, t) \in Nat
    BY <1>1, TryFacts
  <1>3. ASSUME NEW u \in Tries(fn), u < EndOf(fn, t), EndOf(fn, t) <= EndOf(fn, u), u <= t
        PROVE  u < p /\ p <= EndOf(fn, u)
    <2>1. u \in Nat /\ EndOf(fn, u) \in Nat
      BY TryFacts
    <2> QED BY <1>1, <1>2, <1>3, <2>1, SMT
  <1>4. \A u \in Open(fn, EndOf(fn, t)) : u <= t
    BY <1>1, EndClosesItsBlock DEF IsLast
  <1> QED BY <1>1, <1>3, <1>4 DEF Open

---------------------------------------------------------------------------
(* __catch and __rethrow *)

\* Where control comes from in a __catch on the way to its __rethrow.
LEMMA CatchIsEnteredByItsTest ==
    ASSUME NEW fn \in Functions, NEW p \in DOMAIN Code(fn), NEW by \in Jumps(Code(fn)[p]),
           IsInCatch(fn, p + by)
    PROVE  \/ /\ Code(fn)[p].op = "unless" /\ Code(fn)[p].test = CodeIsNot(noException)
              /\ by = 1 /\ Code(fn)[p].by # 1
           \/ IsInCatch(fn, p) /\ KeepsCode(Code(fn)[p])
  <1>1. PICK r \in DOMAIN Code(fn), c \in DOMAIN Code(fn) :
            Code(fn)[r].op = "rethrow" /\ IsCaught(fn, c, r) /\ p + by \in c + 1 .. r
    BY DEF IsInCatch
  <1>2. (p = c /\ by = 1) \/ p \in c + 1 .. r - 1
    BY <1>1 DEF IsCaught
  <1>3. CASE p = c /\ by = 1
    BY <1>1, <1>3 DEF IsCaught
  <1>4. CASE p \in c + 1 .. r - 1
    <2>1. KeepsCode(Code(fn)[p])
      BY <1>1, <1>4 DEF IsCaught
    <2>2. c \in Nat /\ r \in Nat
      BY CodeFacts
    <2>3. p \in c + 1 .. r
      BY <1>4, <2>2, SMT
    <2> QED BY <1>1, <2>1, <2>3 DEF IsInCatch
  <1> QED BY <1>2, <1>3, <1>4

\* The beginning of a function is in no __catch, nor is the end of a block.
LEMMA BeginningsAreInNoCatch ==
    ASSUME NEW fn \in Functions
    PROVE  /\ ~ IsInCatch(fn, 1)
           /\ \A e \in DOMAIN Code(fn) : Code(fn)[e].op = "endTry" => ~ IsInCatch(fn, e)
  <1>1. ASSUME NEW p \in DOMAIN Code(fn), NEW r \in DOMAIN Code(fn), NEW c \in DOMAIN Code(fn),
               Code(fn)[r].op = "rethrow", IsCaught(fn, c, r), p \in c + 1 .. r
        PROVE  p # 1 /\ Code(fn)[p].op # "endTry"
    <2>1. c \in Nat /\ r \in Nat /\ c >= 1 /\ p \in Nat
      BY CodeFacts, SMT
    <2>2. p # 1 /\ (p = r \/ p \in c + 1 .. r - 1)
      BY <1>1, <2>1, SMT
    <2>3. CASE p = r
      BY <1>1, <2>2, <2>3, SMT
    <2>4. CASE p \in c + 1 .. r - 1
      BY <1>1, <2>2, <2>4 DEF IsCaught, KeepsCode
    <2> QED BY <2>2, <2>3, <2>4
  <1>2. 1 \in DOMAIN Code(fn)
    BY CodeFacts
  <1> QED BY <1>1, <1>2 DEF IsInCatch

\* What a quiet function calls is quiet, and it has no __try.
LEMMA QuietFacts ==
    ASSUME NEW fn \in Functions, fn \in Quiet, NEW p \in DOMAIN Code(fn)
    PROVE  /\ Code(fn)[p].op \notin {"try", "endTry", "clear"}
           /\ Code(fn)[p].op = "call" => Code(fn)[p].function \in Quiet
  BY QuietAssumption DEF KeepsCode

---------------------------------------------------------------------------
(* Steps of the stack *)

\* The frames below k are those of fs, and frame k is g.
ChangesAt(gs, fs, k, g) ==
    /\ gs \in Seq(Range(gs)) /\ Len(gs) = k /\ gs[k] = g
    /\ \A i \in 1 .. k - 1 : gs[i] = fs[i]

\* A frame that goes on in the same function, with the same handler below it.
GoesOn(f, g) == IsFrame(g) /\ g.fn = f.fn /\ g.entry = f.entry

\* What a step that calls nothing keeps, whether it moves the innermost frame or leaves some.
LEMMA StackGoesOn ==
    ASSUME NEW fs, NEW hs, NEW tp, NEW cd, IsSound(fs, hs, tp, cd),
           NEW gs, NEW hs2, NEW tp2, NEW cd2,
           gs \in Seq(Range(gs)), NEW m, Len(gs) = m, m \in 1 .. Len(fs),
           \A i \in 1 .. m - 1 : gs[i] = fs[i],
           GoesOn(fs[m], gs[m]),
           \A i \in 1 .. m - 1 : \A t \in OpenIn(fs, i) :
               /\ HandlerAt(fs, i, t) \in DOMAIN hs2
               /\ hs2[HandlerAt(fs, i, t)] = hs[HandlerAt(fs, i, t)],
           \A t \in OpenIn(gs, m) :
               /\ HandlerAt(fs, m, t) \in DOMAIN hs2
               /\ hs2[HandlerAt(fs, m, t)].landing = EndOf(fs[m].fn, t)
               /\ IsNearest(fs, m, t, hs2[HandlerAt(fs, m, t)].pPrevious),
           IsNearest(fs, m, gs[m].pc, tp2),
           IsInCatch(fs[m].fn, gs[m].pc) => cd2 # noException,
           \/ fs[m].fn \notin Quiet
           \/ cd2 = cd /\ \A j \in m + 1 .. Len(fs) : fs[j].fn \in Quiet
    PROVE  IsSound(gs, hs2, tp2, cd2)
  <1>0. Len(fs) \in Nat /\ m \in Nat /\ m >= 1 /\ m <= Len(fs)
    BY SMT DEF IsSound, IsStack
  <1>1. \A i \in 1 .. m : gs[i].fn = fs[i].fn /\ gs[i].entry = fs[i].entry
    <2>1. ASSUME NEW i \in 1 .. m PROVE i \in 1 .. m - 1 \/ i = m
      BY <1>0, SMT
    <2> QED BY <2>1 DEF GoesOn
  <1>2. \A i \in 1 .. m : \A p, a : IsNearest(gs, i, p, a) <=> IsNearest(fs, i, p, a)
    BY <1>1 DEF IsNearest, HandlerAt
  <1>3. \A i \in 1 .. m : \A t : HandlerAt(gs, i, t) = HandlerAt(fs, i, t)
    BY <1>1 DEF HandlerAt
  <1>4. \A i \in 1 .. m - 1 : OpenIn(gs, i) = OpenIn(fs, i)
    BY DEF OpenIn
  <1>5. \A i \in 1 .. m : i \in 1 .. m - 1 \/ i = m
    BY <1>0, SMT
  <1>6. \A i \in 1 .. m - 1 : /\ i \in 1 .. m /\ i \in 1 .. Len(fs) /\ i \in 1 .. Len(fs) - 1
                              /\ i + 1 \in 1 .. m
    BY <1>0, SMT
  <1>7. \A i \in 1 .. m : i \in 1 .. Len(fs) /\ \A j \in 1 .. i - 1 : j \in 1 .. m - 1
    BY <1>0, SMT
  <1>a. IsStack(gs)
    <2>1. \A i \in 1 .. m : IsFrame(gs[i])
      BY <1>5, <1>6 DEF IsSound, IsStack, GoesOn
    <2> QED BY <1>0, <2>1 DEF IsStack
  <1>b. CallersWait(gs)
    BY <1>1, <1>2, <1>6 DEF IsSound, CallersWait
  <1>c. HandlersLink(gs, hs2)
    <2> SUFFICES ASSUME NEW i \in 1 .. m, NEW t \in OpenIn(gs, i)
                 PROVE  /\ HandlerAt(fs, i, t) \in DOMAIN hs2
                        /\ hs2[HandlerAt(fs, i, t)].landing = EndOf(fs[i].fn, t)
                        /\ IsNearest(fs, i, t, hs2[HandlerAt(fs, i, t)].pPrevious)
      BY <1>1, <1>2, <1>3 DEF HandlersLink
    <2>1. CASE i \in 1 .. m - 1
      BY <1>4, <1>6, <2>1 DEF IsSound, HandlersLink
    <2>2. CASE i = m
      BY <2>2
    <2> QED BY <1>5, <2>1, <2>2
  <1>d. EntriesAreOpen(gs)
    <2> SUFFICES ASSUME NEW i \in 1 .. m, fs[i].entry # NoHandler
                 PROVE  \E j \in 1 .. i - 1 : \E t \in OpenIn(gs, j) :
                            IsLast(t, OpenIn(gs, j)) /\ fs[i].entry = HandlerAt(gs, j, t)
      BY <1>1 DEF EntriesAreOpen
    <2>1. PICK j \in 1 .. i - 1 : \E t \in OpenIn(fs, j) :
              IsLast(t, OpenIn(fs, j)) /\ fs[i].entry = HandlerAt(fs, j, t)
      BY <1>7 DEF IsSound, EntriesAreOpen
    <2>2. j \in 1 .. m - 1 /\ j \in 1 .. m
      BY <1>6, <1>7
    <2> QED BY <1>3, <1>4, <2>1, <2>2
  <1>e. OthersAreHandled(gs)
    BY <1>1, <1>7 DEF IsSound, OthersAreHandled
  <1>f. IsNearest(gs, m, gs[m].pc, tp2)
    <2>1. m \in 1 .. m
      BY <1>0, SMT
    <2> QED BY <1>2, <2>1
  <1>g. CatchesKnow(gs, cd2)
    <2> SUFFICES ASSUME NEW i \in 1 .. m, IsInCatch(gs[i].fn, gs[i].pc),
                        \A j \in i + 1 .. m : gs[j].fn \in Quiet
                 PROVE  cd2 # noException
      BY DEF CatchesKnow
    <2>1. CASE i = m
      BY <2>1 DEF GoesOn
    <2>2. CASE i \in 1 .. m - 1
      <3>1. m \in i + 1 .. m /\ m \in 1 .. m
        BY <1>0, <2>2, SMT
      <3>2. fs[m].fn \in Quiet
        BY <1>1, <3>1
      <3>3. cd2 = cd /\ \A j \in m + 1 .. Len(fs) : fs[j].fn \in Quiet
        BY <3>2
      <3>4. \A j \in i + 1 .. Len(fs) : (j \in i + 1 .. m /\ j \in 1 .. m) \/ j \in m + 1 .. Len(fs)
        BY <1>0, <2>2, SMT
      <3>5. \A j \in i + 1 .. Len(fs) : fs[j].fn \in Quiet
        BY <1>1, <3>3, <3>4
      <3>6. IsInCatch(fs[i].fn, fs[i].pc) /\ i \in 1 .. Len(fs)
        BY <1>6, <2>2
      <3> QED BY <3>3, <3>5, <3>6 DEF IsSound, CatchesKnow
    <2> QED BY <1>5, <2>1, <2>2
  <1> QED BY <1>a, <1>b, <1>c, <1>d, <1>e, <1>f, <1>g DEF IsSound

\* A step in the innermost frame that neither begins nor ends a block.
LEMMA FrameMoves ==
    ASSUME NEW fs, NEW hs, NEW tp, NEW cd, IsSound(fs, hs, tp, cd),
           NEW gs, NEW n, n = Len(fs), gs \in Seq(Range(gs)), Len(gs) = n,
           \A i \in 1 .. n - 1 : gs[i] = fs[i],
           GoesOn(fs[n], gs[n]),
           Open(fs[n].fn, gs[n].pc) = Open(fs[n].fn, fs[n].pc),
           NEW cd2,
           IsInCatch(fs[n].fn, gs[n].pc) => cd2 # noException,
           fs[n].fn \notin Quiet \/ cd2 = cd
    PROVE  IsSound(gs, hs, tp, cd2)
  <1>1. n \in Nat /\ n \in 1 .. n /\ (\A j \in n + 1 .. n : FALSE)
        /\ \A i \in 1 .. n - 1 : i \in 1 .. n
    BY SMT DEF IsSound, IsStack
  <1>2. \A i \in 1 .. n : \A t \in OpenIn(fs, i) :
            /\ HandlerAt(fs, i, t) \in DOMAIN hs
            /\ hs[HandlerAt(fs, i, t)].landing = EndOf(fs[i].fn, t)
            /\ IsNearest(fs, i, t, hs[HandlerAt(fs, i, t)].pPrevious)
    BY DEF IsSound, HandlersLink
  <1>3. OpenIn(gs, n) = OpenIn(fs, n)
    BY DEF OpenIn, GoesOn
  <1>4. IsNearest(fs, n, gs[n].pc, tp)
    BY DEF IsSound, IsNearest
  <1>5. n \in 1 .. Len(fs) /\ \A j \in n + 1 .. Len(fs) : fs[j].fn \in Quiet
    BY <1>1
  <1>6. \A i \in 1 .. n - 1 : \A t \in OpenIn(fs, i) :
            /\ HandlerAt(fs, i, t) \in DOMAIN hs
            /\ hs[HandlerAt(fs, i, t)] = hs[HandlerAt(fs, i, t)]
    BY <1>1, <1>2
  <1>7. \A t \in OpenIn(gs, n) :
            /\ HandlerAt(fs, n, t) \in DOMAIN hs
            /\ hs[HandlerAt(fs, n, t)].landing = EndOf(fs[n].fn, t)
            /\ IsNearest(fs, n, t, hs[HandlerAt(fs, n, t)].pPrevious)
    BY <1>1, <1>2, <1>3
  <1> QED BY <1>4, <1>5, <1>6, <1>7, StackGoesOn

\* The handler on top, if there is one, is that of an innermost open block of some frame.
LEMMA TopIsOfABlock ==
    ASSUME NEW fs, NEW hs, NEW tp, NEW cd, IsSound(fs, hs, tp, cd)
    PROVE  LET n == Len(fs) IN
           /\ \/ tp = NoHandler /\ OpenIn(fs, n) = {} /\ fs[n].entry = NoHandler
              \/ \E j \in 1 .. n : \E t \in OpenIn(fs, j) :
                     IsLast(t, OpenIn(fs, j)) /\ tp = HandlerAt(fs, j, t)
           /\ \A j \in 1 .. n : \A t : HandlerAt(fs, j, t) # NoHandler
  <1> DEFINE n == Len(fs)
  <1>1. n \in Nat /\ n \in 1 .. n /\ \A i \in 1 .. n - 1 : i \in 1 .. n
    BY SMT DEF IsSound, IsStack
  <1>2. \/ OpenIn(fs, n) = {} /\ tp = fs[n].entry
        \/ \E t \in OpenIn(fs, n) : IsLast(t, OpenIn(fs, n)) /\ tp = HandlerAt(fs, n, t)
    BY DEF IsSound, IsNearest, OpenIn
  <1>3. \/ fs[n].entry = NoHandler
        \/ \E j \in 1 .. n - 1 : \E t \in OpenIn(fs, j) :
               IsLast(t, OpenIn(fs, j)) /\ fs[n].entry = HandlerAt(fs, j, t)
    BY <1>1 DEF IsSound, EntriesAreOpen
  <1>4. \A j \in 1 .. n : \A t : HandlerAt(fs, j, t) # NoHandler
    BY SMT DEF HandlerAt, NoHandler
  <1> QED BY <1>1, <1>2, <1>3, <1>4

\* The function that is called begins with the caller's handler, which is there if it needs one.
LEMMA FrameIsCalled ==
    ASSUME NEW fs, NEW hs, NEW tp, NEW cd, IsSound(fs, hs, tp, cd),
           NEW n, n = Len(fs), NEW s, s = Code(fs[n].fn)[fs[n].pc], s.op = "call",
           NEW g, IsFrame(g), g.fn = s.function, g.pc = 1, g.entry = tp,
           NEW gs, ChangesAt(gs, fs, n + 1, g)
    PROVE  IsSound(gs, hs, tp, cd)
  <1>h. /\ gs \in Seq(Range(gs)) /\ Len(gs) = n + 1 /\ gs[n + 1] = g
        /\ \A i \in 1 .. n : gs[i] = fs[i]
    <2>1. (n + 1) - 1 = n
      BY SMT DEF IsSound, IsStack
    <2> QED BY <2>1 DEF ChangesAt
  <1> USE <1>h
  <1>0. n \in Nat /\ n >= 1 /\ n \in 1 .. n /\ n + 1 \in 1 .. n + 1
    BY SMT DEF IsSound, IsStack
  <1>1. \A i \in 1 .. n + 1 : i \in 1 .. n \/ i = n + 1
    BY <1>0, SMT
  <1>2. \A i \in 1 .. n : \A p, a : IsNearest(gs, i, p, a) <=> IsNearest(fs, i, p, a)
    BY DEF IsNearest, HandlerAt
  <1>3. \A i \in 1 .. n : \A t : HandlerAt(gs, i, t) = HandlerAt(fs, i, t) /\ OpenIn(gs, i) = OpenIn(fs, i)
    BY DEF HandlerAt, OpenIn
  <1>4. OpenIn(gs, n + 1) = {}
    <2>1. g.fn \in Functions
      BY DEF IsFrame
    <2>2. Open(g.fn, 1) = {}
      <3>1. \A t \in Tries(g.fn) : ~ (t < 1)
        BY <2>1, TryFacts, SMT
      <3> QED BY <3>1 DEF Open
    <2> QED BY <2>2 DEF OpenIn
  <1>a. IsStack(gs)
    <2>1. \A i \in 1 .. n + 1 : IsFrame(gs[i])
      BY <1>1 DEF IsSound, IsStack
    <2>2. n + 1 >= 1
      BY <1>0, SMT
    <2> QED BY <2>1, <2>2 DEF IsStack
  <1>b. CallersWait(gs)
    <2>1. \A i \in 1 .. n : (i \in 1 .. n - 1 /\ i + 1 \in 1 .. n) \/ i = n
      BY <1>0, SMT
    <2>2. n + 1 - 1 = n
      BY <1>0, SMT
    <2>3. ASSUME NEW i \in 1 .. n
          PROVE  /\ Code(gs[i].fn)[gs[i].pc].op = "call"
                 /\ Code(gs[i].fn)[gs[i].pc].function = gs[i + 1].fn
                 /\ IsNearest(gs, i, gs[i].pc, gs[i + 1].entry)
      <3>1. CASE i = n
        <4>1. IsNearest(fs, n, fs[n].pc, tp)
          BY DEF IsSound
        <4> QED BY <1>0, <1>2, <3>1, <4>1
      <3>2. CASE i \in 1 .. n - 1 /\ i + 1 \in 1 .. n
        <4>1. /\ Code(fs[i].fn)[fs[i].pc].op = "call"
              /\ Code(fs[i].fn)[fs[i].pc].function = fs[i + 1].fn
              /\ IsNearest(fs, i, fs[i].pc, fs[i + 1].entry)
          BY <3>2 DEF IsSound, CallersWait
        <4> QED BY <1>2, <3>2, <4>1
      <3> QED BY <2>1, <3>1, <3>2
    <2> QED BY <2>2, <2>3 DEF CallersWait
  <1>c. HandlersLink(gs, hs)
    <2> SUFFICES ASSUME NEW i \in 1 .. n + 1, NEW t \in OpenIn(gs, i)
                 PROVE  /\ HandlerAt(gs, i, t) \in DOMAIN hs
                        /\ hs[HandlerAt(gs, i, t)].landing = EndOf(gs[i].fn, t)
                        /\ IsNearest(gs, i, t, hs[HandlerAt(gs, i, t)].pPrevious)
      BY DEF HandlersLink
    <2>1. i \in 1 .. n
      BY <1>1, <1>4
    <2> QED BY <1>2, <1>3, <2>1 DEF IsSound, HandlersLink
  <1>d. EntriesAreOpen(gs)
    <2>1. ASSUME NEW i \in 1 .. n + 1, gs[i].entry # NoHandler
          PROVE  \E j \in 1 .. i - 1 : \E t \in OpenIn(gs, j) :
                     IsLast(t, OpenIn(gs, j)) /\ gs[i].entry = HandlerAt(gs, j, t)
      <3>1. CASE i = n + 1
        <4>1. PICK j \in 1 .. n : \E t \in OpenIn(fs, j) :
                     IsLast(t, OpenIn(fs, j)) /\ tp = HandlerAt(fs, j, t)
          BY <2>1, <3>1, TopIsOfABlock
        <4>2. j \in 1 .. i - 1
          BY <1>0, <3>1, SMT
        <4> QED BY <1>3, <3>1, <4>1, <4>2
      <3>2. CASE i \in 1 .. n
        <4>1. PICK j \in 1 .. i - 1 : \E t \in OpenIn(fs, j) :
                     IsLast(t, OpenIn(fs, j)) /\ fs[i].entry = HandlerAt(fs, j, t)
          BY <2>1, <3>2 DEF IsSound, EntriesAreOpen
        <4>2. j \in 1 .. n
          BY <1>0, <3>2, SMT
        <4> QED BY <1>3, <3>2, <4>1, <4>2
      <3> QED BY <1>1, <3>1, <3>2
    <2> QED BY <2>1 DEF EntriesAreOpen
  <1>e. OthersAreHandled(gs)
    <2>1. ASSUME NEW i \in 1 .. n + 1, gs[i].fn \notin Contained
          PROVE  gs[i].entry # NoHandler
      <3>1. CASE i \in 1 .. n
        BY <2>1, <3>1 DEF IsSound, OthersAreHandled
      <3>2. CASE i = n + 1
        <4>1. fs[n].fn \in Functions /\ fs[n].pc \in DOMAIN Code(fs[n].fn)
          BY <1>0 DEF IsSound, IsStack, IsFrame
        <4>2. fs[n].fn \notin Contained \/ OpenIn(fs, n) # {}
          BY <2>1, <3>2, <4>1, ContainedAssumption DEF OpenIn
        <4>3. fs[n].fn \notin Contained => fs[n].entry # NoHandler
          BY <1>0 DEF IsSound, OthersAreHandled
        <4>4. tp # NoHandler
          BY <4>2, <4>3, TopIsOfABlock
        <4> QED BY <3>2, <4>4
      <3> QED BY <1>1, <3>1, <3>2
    <2> QED BY <2>1 DEF OthersAreHandled
  <1>f. IsNearest(gs, n + 1, gs[n + 1].pc, tp)
    BY <1>4 DEF IsNearest, OpenIn
  <1>g. CatchesKnow(gs, cd)
    <2> SUFFICES ASSUME NEW i \in 1 .. n + 1, IsInCatch(gs[i].fn, gs[i].pc),
                        \A j \in i + 1 .. n + 1 : gs[j].fn \in Quiet
                 PROVE  cd # noException
      BY DEF CatchesKnow
    <2>1. i \in 1 .. n
      BY <1>1, BeginningsAreInNoCatch DEF IsFrame
    <2>2. \A j \in i + 1 .. n : j \in i + 1 .. n + 1 /\ j \in 1 .. n
      BY <1>0, <2>1, SMT
    <2>3. \A j \in i + 1 .. n : fs[j].fn \in Quiet
      BY <2>2
    <2> QED BY <2>1, <2>3 DEF IsSound, CatchesKnow
  <1> QED BY <1>a, <1>b, <1>c, <1>d, <1>e, <1>f, <1>g DEF IsSound

\* The innermost frame, and what is open where it is.
LEMMA Innermost ==
    ASSUME NEW fs, NEW hs, NEW tp, NEW cd, IsSound(fs, hs, tp, cd), NEW n, n = Len(fs)
    PROVE  /\ n \in Nat /\ n >= 1 /\ n \in 1 .. Len(fs)
           /\ \A i \in 1 .. n :
                /\ i \in Nat /\ i >= 1 /\ i <= n
                /\ IsFrame(fs[i]) /\ fs[i].fn \in Functions /\ fs[i].pc \in DOMAIN Code(fs[i].fn)
                /\ OpenIn(fs, i) = Open(fs[i].fn, fs[i].pc)
                /\ \A t \in OpenIn(fs, i) :
                     /\ t \in Tries(fs[i].fn)
                     /\ HandlerAt(fs, i, t) \in DOMAIN hs
                     /\ hs[HandlerAt(fs, i, t)].landing = EndOf(fs[i].fn, t)
                     /\ IsNearest(fs, i, t, hs[HandlerAt(fs, i, t)].pPrevious)
           /\ IsNearest(fs, n, fs[n].pc, tp)
  <1>1. n \in Nat /\ n >= 1 /\ n \in 1 .. Len(fs) /\ \A i \in 1 .. n : i \in Nat /\ i >= 1 /\ i <= n
    BY SMT DEF IsSound, IsStack
  <1>2. \A i \in 1 .. n : IsFrame(fs[i]) /\ fs[i].fn \in Functions /\ fs[i].pc \in DOMAIN Code(fs[i].fn)
    BY DEF IsSound, IsStack, IsFrame
  <1>3. \A i \in 1 .. n : OpenIn(fs, i) = Open(fs[i].fn, fs[i].pc) /\ OpenIn(fs, i) \subseteq Tries(fs[i].fn)
    BY DEF OpenIn, Open
  <1>4. \A i \in 1 .. n : \A t \in OpenIn(fs, i) :
                     /\ HandlerAt(fs, i, t) \in DOMAIN hs
                     /\ hs[HandlerAt(fs, i, t)].landing = EndOf(fs[i].fn, t)
                     /\ IsNearest(fs, i, t, hs[HandlerAt(fs, i, t)].pPrevious)
    BY DEF IsSound, HandlersLink
  <1>5. IsNearest(fs, n, fs[n].pc, tp)
    BY DEF IsSound
  <1> QED BY <1>1, <1>2, <1>3, <1>4, <1>5

\* The handlers of the frames up to m are those there were.
KeepsHandlers(hs, hs2, m) == \A a \in DOMAIN hs : a[1] <= m => a \in DOMAIN hs2 /\ hs2[a] = hs[a]

LEMMA HandlersAreKept ==
    ASSUME NEW fs, NEW hs, NEW tp, NEW cd, IsSound(fs, hs, tp, cd),
           NEW hs2, NEW m \in 1 .. Len(fs), KeepsHandlers(hs, hs2, m)
    PROVE  \A i \in 1 .. m : \A t \in OpenIn(fs, i) :
               /\ HandlerAt(fs, i, t) \in DOMAIN hs2
               /\ hs2[HandlerAt(fs, i, t)] = hs[HandlerAt(fs, i, t)]
  <1> TAKE i \in 1 .. m
  <1>1. i \in 1 .. Len(fs) /\ i <= m
    BY Innermost, SMT
  <1> TAKE t \in OpenIn(fs, i)
  <1>2. HandlerAt(fs, i, t) \in DOMAIN hs
    BY <1>1, Innermost
  <1>3. HandlerAt(fs, i, t)[1] = i
    BY DEF HandlerAt
  <1> QED BY <1>1, <1>2, <1>3 DEF KeepsHandlers

\* A function that returns is in no __try: on top is what was there when it was called.
LEMMA FrameReturns ==
    ASSUME NEW fs, NEW hs, NEW tp, NEW cd, IsSound(fs, hs, tp, cd),
           NEW n, n = Len(fs), Code(fs[n].fn)[fs[n].pc].op = "return",
           NEW m, m = n - 1, m >= 1,
           NEW g, g = [fn |-> g.fn, locals |-> g.locals, pc |-> g.pc, entry |-> g.entry],
           g.fn = fs[m].fn, g.entry = fs[m].entry, g.pc = fs[m].pc + 1,
           NEW gs, ChangesAt(gs, fs, m, g),
           NEW hs2, KeepsHandlers(hs, hs2, m)
    PROVE  /\ IsSound(gs, hs2, tp, cd)
           /\ tp = fs[n].entry
  <1>h. /\ gs \in Seq(Range(gs)) /\ Len(gs) = m /\ gs[m] = g
        /\ \A i \in 1 .. m - 1 : gs[i] = fs[i]
    BY DEF ChangesAt
  <1> USE <1>h
  <1>0. /\ n \in Nat /\ m \in Nat /\ m \in 1 .. Len(fs) /\ m \in 1 .. n - 1 /\ m \in 1 .. m /\ n = m + 1
        /\ \A j \in m + 1 .. Len(fs) : j = n
        /\ \A i \in 1 .. m - 1 : i \in 1 .. m
    BY Innermost, SMT
  <1> DEFINE fn == fs[m].fn
             s  == Code(fs[m].fn)[fs[m].pc]
  <1>1. fn \in Functions /\ fs[m].pc \in DOMAIN Code(fn) /\ fs[m].pc \in Nat
    BY <1>0, Innermost, CodeFacts
  <1>2. s.op = "call" /\ s.function = fs[n].fn /\ IsNearest(fs, m, fs[m].pc, fs[n].entry)
    BY <1>0 DEF IsSound, CallersWait
  <1>3. OpenIn(fs, n) = {} /\ tp = fs[n].entry
    <2>1. Open(fs[n].fn, fs[n].pc) = {}
      BY Innermost, ReturnsAssumption
    <2> QED BY <2>1, Innermost DEF IsNearest
  <1>4. 1 \in Jumps(s)
    BY <1>2, SMT DEF Jumps, ThrowOps
  <1>5. fs[m].pc + 1 \in DOMAIN Code(fn)
    BY <1>1, <1>4, CodeFacts
  <1>6. GoesOn(fs[m], gs[m])
    BY <1>1, <1>5 DEF GoesOn, IsFrame
  <1>7. Open(fn, gs[m].pc) = Open(fn, fs[m].pc)
    BY <1>1, <1>2, NextIsInTheSameBlocks, SMT
  <1>8. IsInCatch(fn, gs[m].pc) => cd # noException
    <2> SUFFICES ASSUME IsInCatch(fn, fs[m].pc + 1) PROVE cd # noException
      OBVIOUS
    <2>1. s.op # "unless"
      BY <1>2
    <2>2. IsInCatch(fn, fs[m].pc) /\ KeepsCode(s)
      BY <1>1, <1>4, <2>1, CatchIsEnteredByItsTest
    <2>3. fs[n].fn \in Quiet
      BY <1>2, <2>2 DEF KeepsCode
    <2> QED BY <1>0, <2>2, <2>3 DEF IsSound, CatchesKnow
  <1>9. fn \notin Quiet \/ (cd = cd /\ \A j \in m + 1 .. Len(fs) : fs[j].fn \in Quiet)
    BY <1>0, <1>1, <1>2, QuietFacts
  <1>a. \A i \in 1 .. m : \A t \in OpenIn(fs, i) :
               /\ HandlerAt(fs, i, t) \in DOMAIN hs2
               /\ hs2[HandlerAt(fs, i, t)] = hs[HandlerAt(fs, i, t)]
    BY <1>0, HandlersAreKept
  <1>b. OpenIn(gs, m) = OpenIn(fs, m)
    BY <1>7 DEF OpenIn
  <1>c. \A t \in OpenIn(gs, m) :
               /\ HandlerAt(fs, m, t) \in DOMAIN hs2
               /\ hs2[HandlerAt(fs, m, t)].landing = EndOf(fs[m].fn, t)
               /\ IsNearest(fs, m, t, hs2[HandlerAt(fs, m, t)].pPrevious)
    BY <1>0, <1>a, <1>b, Innermost
  <1>d. IsNearest(fs, m, gs[m].pc, tp)
    BY <1>2, <1>3, <1>7 DEF IsNearest
  <1>e. \A i \in 1 .. m - 1 : \A t \in OpenIn(fs, i) :
               /\ HandlerAt(fs, i, t) \in DOMAIN hs2
               /\ hs2[HandlerAt(fs, i, t)] = hs[HandlerAt(fs, i, t)]
    BY <1>0, <1>a
  <1>f. IsSound(gs, hs2, tp, cd)
    BY <1>0, <1>6, <1>8, <1>9, <1>c, <1>d, <1>e, StackGoesOn
  <1> QED BY <1>3, <1>f

AddsHandler(hs2, hs, a, pPrevious, landing) ==
    /\ DOMAIN hs2 = DOMAIN hs \cup {a}
    /\ hs2[a].pPrevious = pPrevious /\ hs2[a].landing = landing
    /\ \A b \in DOMAIN hs : b # a => hs2[b] = hs[b]

\* The beginning of a block adds its handler, which knows the one before it.
LEMMA BlockBegins ==
    ASSUME NEW fs, NEW hs, NEW tp, NEW cd, IsSound(fs, hs, tp, cd),
           NEW n, n = Len(fs), NEW t, t = fs[n].pc, Code(fs[n].fn)[t].op = "try",
           NEW g, GoesOn(fs[n], g), g.pc = t + 1,
           NEW gs, ChangesAt(gs, fs, n, g),
           NEW top2, top2 = HandlerAt(fs, n, t),
           NEW hs2, AddsHandler(hs2, hs, top2, tp, EndOf(fs[n].fn, t)), NEW cd2
    PROVE  IsSound(gs, hs2, top2, cd2)
  <1>g. /\ DOMAIN hs2 = DOMAIN hs \cup {top2}
        /\ hs2[top2].pPrevious = tp /\ hs2[top2].landing = EndOf(fs[n].fn, t)
        /\ \A a \in DOMAIN hs : a # top2 => hs2[a] = hs[a]
    BY DEF AddsHandler
  <1>h. /\ gs \in Seq(Range(gs)) /\ Len(gs) = n /\ gs[n] = g
        /\ \A i \in 1 .. n - 1 : gs[i] = fs[i]
    BY DEF ChangesAt
  <1>9. GoesOn(fs[n], gs[n]) /\ gs[n].pc = t + 1
    BY <1>h
  <1> USE <1>g, <1>h, <1>9
  <1> DEFINE fn == fs[n].fn
  <1>0. /\ n \in Nat /\ n \in 1 .. Len(fs) /\ n \in 1 .. n
        /\ \A i \in 1 .. n - 1 : i # n /\ i \in 1 .. n
    BY Innermost, SMT
  <1>1. fn \in Functions /\ t \in DOMAIN Code(fn) /\ t \in Tries(fn)
    BY <1>0, Innermost DEF Tries
  <1>2. /\ Open(fn, t + 1) = Open(fn, t) \cup {t} /\ t \notin Open(fn, t)
        /\ IsLast(t, Open(fn, t + 1))
    BY <1>1, TryOpensItsBlock
  <1>3. \A i \in 1 .. n - 1 : \A u \in OpenIn(fs, i) :
               /\ HandlerAt(fs, i, u) \in DOMAIN hs2
               /\ hs2[HandlerAt(fs, i, u)] = hs[HandlerAt(fs, i, u)]
    <2>1. \A i \in 1 .. n - 1 : \A u : HandlerAt(fs, i, u) # top2
      BY <1>0 DEF HandlerAt
    <2> QED BY <1>0, <2>1, Innermost
  <1>4. \A u \in OpenIn(gs, n) :
               /\ HandlerAt(fs, n, u) \in DOMAIN hs2
               /\ hs2[HandlerAt(fs, n, u)].landing = EndOf(fs[n].fn, u)
               /\ IsNearest(fs, n, u, hs2[HandlerAt(fs, n, u)].pPrevious)
    <2> TAKE u \in OpenIn(gs, n)
    <2>1. u = t \/ (u \in OpenIn(fs, n) /\ u # t /\ u \in Tries(fn))
      BY <1>2 DEF OpenIn, GoesOn, Open
    <2>2. CASE u = t
      BY <2>2, Innermost
    <2>3. CASE u \in OpenIn(fs, n) /\ u # t /\ u \in Tries(fn)
      <3>1. Code(fn)[u].site # Code(fn)[t].site
        BY <1>1, <2>3, TryFacts
      <3>2. HandlerAt(fs, n, u) # top2
        BY <3>1 DEF HandlerAt
      <3> QED BY <1>0, <2>3, <3>2, Innermost
    <2> QED BY <2>1, <2>2, <2>3
  <1>5. IsNearest(fs, n, gs[n].pc, top2)
    BY <1>2 DEF IsNearest
  <1>6. ~ IsInCatch(fn, gs[n].pc)
    <2>1. 1 \in Jumps(Code(fn)[t])
      BY SMT DEF Jumps, ThrowOps
    <2> QED BY <1>1, <2>1, CatchIsEnteredByItsTest DEF KeepsCode
  <1>7. fn \notin Quiet
    BY <1>1, QuietFacts
  <1>8. n \in 1 .. Len(fs)
    BY <1>0
  <1> QED BY ONLY IsSound(fs, hs, tp, cd), gs \in Seq(Range(gs)), Len(gs) = n, <1>8,
                  \A i \in 1 .. n - 1 : gs[i] = fs[i], GoesOn(fs[n], gs[n]),
                  <1>3, <1>4, <1>5, <1>6, <1>7, StackGoesOn

\* The end of a block puts back the handler from before it, which is the nearest one behind it.
LEMMA BlockEnds ==
    ASSUME NEW fs, NEW hs, NEW tp, NEW cd, IsSound(fs, hs, tp, cd),
           NEW n, n = Len(fs), NEW e, e = fs[n].pc, Code(fs[n].fn)[e].op = "endTry",
           NEW gs, gs \in Seq(Range(gs)), Len(gs) = n,
           \A i \in 1 .. n - 1 : gs[i] = fs[i],
           GoesOn(fs[n], gs[n]), gs[n].pc = e + 1,
           NEW a, a = <<n, fs[n].fn, Code(fs[n].fn)[e].site>>
    PROVE  IsSound(gs, hs, hs[a].pPrevious, cd)
  <1> DEFINE fn == fs[n].fn
  <1>0. /\ n \in Nat /\ n \in 1 .. Len(fs) /\ n \in 1 .. n
        /\ \A i \in 1 .. n - 1 : i \in 1 .. n
    BY Innermost, SMT
  <1>1. fn \in Functions /\ e \in DOMAIN Code(fn)
    BY <1>0, Innermost
  <1>2. PICK t \in Tries(fn) : e = EndOf(fn, t)
    BY <1>1, TryFacts
  <1>3. /\ IsLast(t, Open(fn, e)) /\ Open(fn, e + 1) = Open(fn, t)
        /\ Open(fn, t) \subseteq Open(fn, e)
    BY <1>1, <1>2, EndClosesItsBlock
  <1>4. a = HandlerAt(fs, n, t)
    <2>1. Code(fn)[e].site = Code(fn)[t].site
      <3>1. Code(fn)[EndOf(fn, t)].site = Code(fn)[t].site
        BY <1>1, TryFacts
      <3> QED BY <1>2, <3>1
    <2> QED BY <2>1 DEF HandlerAt
  <1>5. t \in OpenIn(fs, n)
    BY <1>3 DEF OpenIn, IsLast
  <1>6. IsNearest(fs, n, t, hs[a].pPrevious)
    <2>1. IsNearest(fs, n, t, hs[HandlerAt(fs, n, t)].pPrevious)
      BY <1>0, <1>5, Innermost
    <2> QED BY <1>4, <2>1
  <1>7. IsNearest(fs, n, gs[n].pc, hs[a].pPrevious)
    BY <1>3, <1>6 DEF IsNearest
  <1>8. OpenIn(gs, n) \subseteq OpenIn(fs, n)
    BY <1>3 DEF OpenIn, GoesOn
  <1>9. \A i \in 1 .. n - 1 : \A u \in OpenIn(fs, i) :
               /\ HandlerAt(fs, i, u) \in DOMAIN hs
               /\ hs[HandlerAt(fs, i, u)] = hs[HandlerAt(fs, i, u)]
    BY <1>0, Innermost
  <1>a. \A u \in OpenIn(gs, n) :
               /\ HandlerAt(fs, n, u) \in DOMAIN hs
               /\ hs[HandlerAt(fs, n, u)].landing = EndOf(fs[n].fn, u)
               /\ IsNearest(fs, n, u, hs[HandlerAt(fs, n, u)].pPrevious)
    BY <1>0, <1>8, Innermost
  <1>b. ~ IsInCatch(fn, gs[n].pc)
    <2>1. 1 \in Jumps(Code(fn)[e])
      BY SMT DEF Jumps, ThrowOps
    <2> QED BY <1>1, <2>1, CatchIsEnteredByItsTest DEF KeepsCode
  <1>c. fn \notin Quiet
    BY <1>1, QuietFacts
  <1> QED BY <1>0, <1>7, <1>9, <1>a, <1>b, <1>c, StackGoesOn

\* A throw with a handler on top goes to the end of the block of that handler.
LEMMA StackUnwinds ==
    ASSUME NEW fs, NEW hs, NEW tp, NEW cd, IsSound(fs, hs, tp, cd),
           NEW m \in 1 .. Len(fs), NEW t, IsLast(t, OpenIn(fs, m)), tp = HandlerAt(fs, m, t),
           NEW gs, gs \in Seq(Range(gs)), Len(gs) = m,
           \A i \in 1 .. m - 1 : gs[i] = fs[i],
           GoesOn(fs[m], gs[m]), gs[m].pc = EndOf(fs[m].fn, t),
           NEW hs2, KeepsHandlers(hs, hs2, m), NEW cd2
    PROVE  IsSound(gs, hs2, tp, cd2)
  <1> DEFINE fn == fs[m].fn
  <1>0. /\ m \in Nat /\ m \in 1 .. m
        /\ \A i \in 1 .. m - 1 : i \in 1 .. m
    BY Innermost, SMT
  <1>1. fn \in Functions /\ fs[m].pc \in DOMAIN Code(fn) /\ IsLast(t, Open(fn, fs[m].pc))
    BY Innermost
  <1>2. t \in Tries(fn) /\ Open(fn, EndOf(fn, t)) \subseteq Open(fn, fs[m].pc)
    BY <1>1, EndIsInOpenBlocks
  <1>3. IsLast(t, Open(fn, EndOf(fn, t)))
    BY <1>1, <1>2, EndClosesItsBlock
  <1>4. IsNearest(fs, m, gs[m].pc, tp)
    BY <1>3 DEF IsNearest, IsLast
  <1>5. OpenIn(gs, m) \subseteq OpenIn(fs, m)
    BY <1>2 DEF OpenIn, GoesOn
  <1>6. \A i \in 1 .. m : \A u \in OpenIn(fs, i) :
               /\ HandlerAt(fs, i, u) \in DOMAIN hs2
               /\ hs2[HandlerAt(fs, i, u)] = hs[HandlerAt(fs, i, u)]
    BY HandlersAreKept
  <1>7. \A u \in OpenIn(gs, m) :
               /\ HandlerAt(fs, m, u) \in DOMAIN hs2
               /\ hs2[HandlerAt(fs, m, u)].landing = EndOf(fs[m].fn, u)
               /\ IsNearest(fs, m, u, hs2[HandlerAt(fs, m, u)].pPrevious)
    BY <1>0, <1>5, <1>6, Innermost
  <1>8. \A i \in 1 .. m - 1 : \A u \in OpenIn(fs, i) :
               /\ HandlerAt(fs, i, u) \in DOMAIN hs2
               /\ hs2[HandlerAt(fs, i, u)] = hs[HandlerAt(fs, i, u)]
    BY <1>0, <1>6
  <1>9. ~ IsInCatch(fn, gs[m].pc)
    BY <1>1, <1>2, TryFacts, BeginningsAreInNoCatch
  <1>a. fn \notin Quiet
    BY <1>1, <1>2, TryFacts, QuietFacts
  <1> QED BY <1>0, <1>4, <1>7, <1>8, <1>9, <1>a, StackGoesOn

---------------------------------------------------------------------------
(* The sequences the actions make of the frames *)

LEMMA OfItsOwnElements ==
    ASSUME NEW S, NEW fs \in Seq(S)
    PROVE  fs \in Seq(Range(fs)) /\ Len(fs) \in Nat
  <1>1. Len(fs) \in Nat /\ DOMAIN fs = 1 .. Len(fs) /\ fs = [i \in 1 .. Len(fs) |-> fs[i]]
    BY SMT
  <1>2. \A i \in 1 .. Len(fs) : fs[i] \in Range(fs)
    BY <1>1 DEF Range
  <1> QED BY <1>1, <1>2, SMT

LEMMA FirstAndOneMore ==
    ASSUME NEW fs, fs \in Seq(Range(fs)), NEW k, k \in Nat, k >= 1, k - 1 <= Len(fs), NEW g,
           NEW hs, hs = SubSeq(fs, 1, k - 1), NEW gs, gs = Append(hs, g)
    PROVE  ChangesAt(gs, fs, k, g)
  <1> DEFINE S == Range(fs) \cup {g}
  <1>0. Len(fs) \in Nat /\ k \in Nat /\ k - 1 \in Nat /\ 1 \in Int
    BY OfItsOwnElements, SMT
  <1>1. fs \in Seq(S)
    BY SMT
  <1>2. hs \in Seq(S) /\ Len(hs) = k - 1 /\ \A i \in 1 .. k - 1 : hs[i] = fs[i]
    <2> HIDE DEF S
    <2>1. \A i \in 1 .. k - 1 : fs[i] \in S
      BY <1>0, <1>1, SMT
    <2>2. hs = [i \in 1 .. k - 1 |-> fs[i]]
      BY <1>0, <1>1, SMT
    <2> QED BY <1>0, <2>1, <2>2, SMT
  <1>3. gs = Append(hs, g) /\ g \in S
    OBVIOUS
  <1> HIDE DEF S
  <1>4. /\ gs \in Seq(S) /\ Len(gs) = k /\ gs[k] = g
        /\ \A i \in 1 .. k - 1 : gs[i] = hs[i]
    BY <1>0, <1>2, <1>3, AppendProperties, SMT
  <1> QED BY <1>2, <1>4, OfItsOwnElements DEF ChangesAt

LEMMA OneMore ==
    ASSUME NEW fs, fs \in Seq(Range(fs)), NEW n, Len(fs) = n, NEW g,
           NEW gs, gs = Append(fs, g)
    PROVE  ChangesAt(gs, fs, n + 1, g)
  <1> DEFINE S == Range(fs) \cup {g}
  <1>0. n \in Nat /\ (n + 1) - 1 = n
    BY OfItsOwnElements, SMT
  <1>1. fs \in Seq(S) /\ g \in S
    BY SMT
  <1> HIDE DEF S
  <1>4. /\ gs \in Seq(S) /\ Len(gs) = n + 1 /\ gs[n + 1] = g
        /\ \A i \in 1 .. n : gs[i] = fs[i]
    BY <1>0, <1>1, AppendProperties, SMT
  <1> QED BY <1>0, <1>4, OfItsOwnElements DEF ChangesAt

LEMMA AllButLast ==
    ASSUME NEW fs, fs \in Seq(Range(fs)), Len(fs) >= 1
    PROVE  /\ Front(fs) = SubSeq(fs, 1, Len(fs) - 1) /\ Last(fs) = fs[Len(fs)]
           /\ Len(fs) >= 2 => Front(Front(fs)) = SubSeq(fs, 1, Len(fs) - 2)
  <1>0. Len(fs) \in Nat
    BY OfItsOwnElements
  <1>1. Front(fs) = SubSeq(fs, 1, Len(fs) - 1) /\ Last(fs) = fs[Len(fs)]
    BY DEF Front, Last
  <1>2. ASSUME Len(fs) >= 2 PROVE Front(Front(fs)) = SubSeq(fs, 1, Len(fs) - 2)
    <2> DEFINE hs == SubSeq(fs, 1, Len(fs) - 1)
    <2>1. hs = [i \in 1 .. Len(fs) - 1 |-> fs[i]] /\ Len(hs) = Len(fs) - 1
      BY <1>0, <1>2, SMT
    <2>2. Front(hs) = SubSeq(hs, 1, Len(hs) - 1)
      BY DEF Front
    <2>3. SubSeq(hs, 1, Len(fs) - 2) = SubSeq(fs, 1, Len(fs) - 2)
      <3>1. hs \in Seq(Range(fs))
        BY <1>0, <1>2, SMT
      <3> HIDE DEF hs
      <3>2. \A i \in 1 .. Len(fs) - 2 : hs[i] = fs[i]
        BY <1>0, <2>1, SMT
      <3> QED BY <1>0, <1>2, <2>1, <3>1, <3>2, SMT
    <2>4. Len(hs) - 1 = Len(fs) - 2
      BY <1>0, <2>1, SMT
    <2> QED BY <1>1, <2>2, <2>3, <2>4
  <1> QED BY <1>1, <1>2

LEMMA LastReplaced ==
    ASSUME NEW fs, fs \in Seq(Range(fs)), NEW n, Len(fs) = n, n >= 1, NEW g,
           NEW gs, gs = Append(Front(fs), g)
    PROVE  ChangesAt(gs, fs, n, g)
  <1>1. n \in Nat /\ n - 1 <= Len(fs)
    BY OfItsOwnElements, SMT
  <1>2. PICK hs : hs = SubSeq(fs, 1, n - 1)
    OBVIOUS
  <1>3. gs = Append(hs, g)
    BY <1>2 DEF Front
  <1> QED BY <1>1, <1>2, <1>3, FirstAndOneMore

LEMMA LastMoved ==
    ASSUME NEW fs, fs \in Seq(Range(fs)), NEW n, Len(fs) = n, n >= 1, NEW by,
           NEW gs, gs = [fs EXCEPT ![n].pc = @ + by]
    PROVE  ChangesAt(gs, fs, n, [fs[n] EXCEPT !.pc = @ + by])
  <1> DEFINE g == [fs[n] EXCEPT !.pc = @ + by]
             S == Range(fs) \cup {g}
  <1>1. n \in Nat /\ n \in 1 .. n /\ DOMAIN fs = 1 .. n /\ \A i \in 1 .. n - 1 : i \in 1 .. n /\ i # n
    BY OfItsOwnElements, SMT
  <1>2. gs = [fs EXCEPT ![n] = g]
    OBVIOUS
  <1>3. \A i \in 1 .. n : fs[i] \in S
    BY <1>1, SMT
  <1>4. g \in S
    OBVIOUS
  <1> HIDE DEF g, S
  <1>5. gs = [i \in 1 .. n |-> IF i = n THEN g ELSE fs[i]]
    BY <1>1, <1>2
  <1>6. gs \in Seq(S) /\ Len(gs) = n
    BY <1>1, <1>3, <1>4, <1>5, SMT
  <1>7. gs[n] = g /\ \A i \in 1 .. n - 1 : gs[i] = fs[i]
    BY <1>1, <1>5
  <1> QED BY <1>6, <1>7, OfItsOwnElements DEF g, ChangesAt

---------------------------------------------------------------------------
(* Frames *)

LEMMA FrameMoved ==
    ASSUME NEW f, IsFrame(f), NEW by, f.pc + by \in DOMAIN Code(f.fn),
           NEW g, g = [f EXCEPT !.pc = @ + by]
    PROVE  GoesOn(f, g) /\ g.pc = f.pc + by
  <1>1. g = [fn |-> f.fn, locals |-> f.locals, pc |-> f.pc + by, entry |-> f.entry]
    BY SMT DEF IsFrame
  <1> QED BY <1>1, SMT DEF IsFrame, GoesOn

LEMMA FrameStored ==
    ASSUME NEW f, IsFrame(f), NEW place, NEW value, NEW objects,
           NEW g, g = Stored(f, place, value, objects).frame
    PROVE  GoesOn(f, g) /\ g.pc = f.pc
  <1>1. g = f \/ g = [f EXCEPT !.locals[place[1]] = value]
    BY DEF Stored
  <1>2. CASE g = f
    BY <1>2 DEF GoesOn
  <1>3. CASE g = [f EXCEPT !.locals[place[1]] = value]
    <2>1. PICK l : l = [f.locals EXCEPT ![place[1]] = value]
      OBVIOUS
    <2>2. g = [f EXCEPT !.locals = l]
      BY <1>3, <2>1
    <2>3. g = [fn |-> f.fn, locals |-> l, pc |-> f.pc, entry |-> f.entry]
      BY <2>2, SMT DEF IsFrame
    <2> QED BY <2>3, SMT DEF IsFrame, GoesOn
  <1> QED BY <1>1, <1>2, <1>3

LEMMA GoesOnTwice ==
    ASSUME NEW f, NEW g, NEW h, GoesOn(f, g), GoesOn(g, h)
    PROVE  GoesOn(f, h)
  BY DEF GoesOn

---------------------------------------------------------------------------
(* The steps of the program *)

LEMMA WhereItIs ==
    ASSUME IsSound(frames, handlers, top, code), NEW n, n = Len(frames)
    PROVE  /\ n \in Nat /\ n >= 1 /\ frames \in Seq(Range(frames))
           /\ Frame = frames[n] /\ Now = Code(frames[n].fn)[frames[n].pc]
           /\ IsFrame(frames[n])
           /\ frames[n].fn \in Functions /\ frames[n].pc \in DOMAIN Code(frames[n].fn)
           /\ frames[n].pc \in Nat
  <1>1. n \in Nat /\ n >= 1 /\ frames \in Seq(Range(frames))
    BY Innermost DEF IsSound, IsStack
  <1>2. Frame = frames[n]
    BY DEF Frame, Last
  <1>3. Now = Code(frames[n].fn)[frames[n].pc]
    BY <1>2 DEF Now, Code
  <1>4. n \in 1 .. n
    BY <1>1, SMT
  <1>5. /\ IsFrame(frames[n])
        /\ frames[n].fn \in Functions /\ frames[n].pc \in DOMAIN Code(frames[n].fn)
    BY <1>4, Innermost
  <1>6. frames[n].pc \in Nat
    BY <1>5, CodeFacts
  <1> QED BY <1>1, <1>2, <1>3, <1>5, <1>6

\* A step in the innermost frame to another instruction in the same blocks.
LEMMA StepInFrame ==
    ASSUME IsSound(frames, handlers, top, code), NEW n, n = Len(frames),
           Now.op \notin {"try", "endTry", "call", "return"}, NEW by \in Jumps(Now),
           Now.op = "unless" => by = IF Holds(Now.test) THEN 1 ELSE Now.by,
           Open(frames[n].fn, frames[n].pc + by) = Open(frames[n].fn, frames[n].pc),
           NEW gs, gs \in Seq(Range(gs)), Len(gs) = n,
           \A i \in 1 .. n - 1 : gs[i] = frames[i],
           GoesOn(frames[n], gs[n]), gs[n].pc = frames[n].pc + by,
           NEW cd, cd = code \/ Now.op = "clear"
    PROVE  IsSound(gs, handlers, top, cd)
  <1> DEFINE fn == frames[n].fn
             p  == frames[n].pc
  <1>1. /\ n \in Nat /\ n >= 1 /\ Now = Code(fn)[p]
        /\ fn \in Functions /\ p \in DOMAIN Code(fn)
    BY WhereItIs
  <1>2. fn \notin Quiet \/ cd = code
    BY <1>1, QuietFacts
  <1>3. ASSUME IsInCatch(fn, p + by) PROVE cd # noException
    <2>1. \/ /\ Now.op = "unless" /\ Now.test = CodeIsNot(noException)
             /\ by = 1 /\ Now.by # 1
          \/ IsInCatch(fn, p) /\ KeepsCode(Now)
      BY <1>1, <1>3, CatchIsEnteredByItsTest
    <2>2. CASE Now.op = "unless" /\ Now.test = CodeIsNot(noException) /\ by = 1 /\ Now.by # 1
      <3>1. Holds(Now.test)
        BY <2>2
      <3>2. Now.test.test = "codeIsNot" /\ Now.test.code = noException
        BY <2>2 DEF CodeIsNot
      <3>3. code # noException
        BY <3>1, <3>2, SMT DEF Holds
      <3>4. Now.op # "clear"
        BY <2>2, SMT
      <3> QED BY <3>3, <3>4
    <2>3. CASE IsInCatch(fn, p) /\ KeepsCode(Now)
      <3>1. cd = code
        BY <2>3 DEF KeepsCode
      <3>2. n \in 1 .. n /\ \A j \in n + 1 .. n : FALSE
        BY <1>1, SMT
      <3>3. code # noException
        BY <2>3, <3>2 DEF IsSound, CatchesKnow
      <3> QED BY <3>1, <3>3
    <2> QED BY <2>1, <2>2, <2>3
  <1>4. IsInCatch(fn, gs[n].pc) => cd # noException
    BY <1>3
  <1>5. Open(fn, gs[n].pc) = Open(fn, p)
    OBVIOUS
  <1> QED BY <1>2, <1>4, <1>5, FrameMoves

\* It is not an action that calls, returns, throws or leaves blocks that changes the innermost frame.
LEMMA PlainFacts ==
    ASSUME IsSound(frames, handlers, top, code), NEW n, n = Len(frames),
           Now.op \notin ThrowOps \cup {"try", "endTry", "call", "return", "goto", "choose", "unless"}
    PROVE  /\ 1 \in Jumps(Now)
           /\ Open(frames[n].fn, frames[n].pc + 1) = Open(frames[n].fn, frames[n].pc)
           /\ frames[n].pc + 1 \in DOMAIN Code(frames[n].fn)
           /\ Now.op \notin {"try", "endTry", "call", "return"} /\ Now.op # "unless"
  <1>1. /\ Now = Code(frames[n].fn)[frames[n].pc]
        /\ frames[n].fn \in Functions /\ frames[n].pc \in DOMAIN Code(frames[n].fn)
    BY WhereItIs
  <1>2. 1 \in Jumps(Now)
    BY SMT DEF Jumps
  <1>3. Now.op \notin {"try", "endTry", "call", "return"} /\ Now.op # "unless"
    BY SMT
  <1>4. Now.op # "try" /\ Now.op # "endTry"
    BY <1>3
  <1>5. Open(frames[n].fn, frames[n].pc + 1) = Open(frames[n].fn, frames[n].pc)
    BY <1>1, <1>4, NextIsInTheSameBlocks
  <1> QED BY <1>1, <1>2, <1>3, <1>5, CodeFacts

\* The next instruction, and nothing else that is of interest here.
LEMMA ContinueKeeps ==
    ASSUME IsSound(frames, handlers, top, code), Continue, UNCHANGED <<handlers, top>>,
           Now.op \notin ThrowOps \cup {"try", "endTry", "call", "return", "goto", "choose", "unless"},
           code' = code \/ Now.op = "clear"
    PROVE  IsSound(frames, handlers, top, code)'
  <1> DEFINE n == Len(frames)
  <1>1. /\ 1 \in Jumps(Now)
        /\ Open(frames[n].fn, frames[n].pc + 1) = Open(frames[n].fn, frames[n].pc)
        /\ frames[n].pc + 1 \in DOMAIN Code(frames[n].fn)
        /\ Now.op \notin {"try", "endTry", "call", "return"} /\ Now.op # "unless"
    BY PlainFacts
  <1>2. n \in Nat /\ n >= 1 /\ frames \in Seq(Range(frames)) /\ IsFrame(frames[n])
    BY WhereItIs
  <1>3. frames' = [frames EXCEPT ![n].pc = @ + 1]
    BY DEF Continue, Go
  <1>4. /\ frames' \in Seq(Range(frames')) /\ Len(frames') = n
        /\ frames'[n] = [frames[n] EXCEPT !.pc = @ + 1]
        /\ \A i \in 1 .. n - 1 : frames'[i] = frames[i]
    <2>1. ChangesAt(frames', frames, n, [frames[n] EXCEPT !.pc = @ + 1])
      BY <1>2, <1>3, LastMoved
    <2> QED BY <2>1 DEF ChangesAt
  <1>5. GoesOn(frames[n], frames'[n]) /\ frames'[n].pc = frames[n].pc + 1
    BY <1>1, <1>2, <1>4, FrameMoved
  <1>6. IsSound(frames', handlers, top, code')
    BY <1>1, <1>4, <1>5, StepInFrame
  <1> QED BY <1>6

\* A value is stored, and the next instruction is to come.
LEMMA StoreKeeps ==
    ASSUME IsSound(frames, handlers, top, code), NEW place, NEW value, NEW objects,
           Store(place, value, objects),
           Now.op \notin ThrowOps \cup {"try", "endTry", "call", "return", "goto", "choose", "unless"}
    PROVE  IsSound(frames, handlers, top, code)'
  <1> DEFINE n == Len(frames)
  <1>1. /\ 1 \in Jumps(Now)
        /\ Open(frames[n].fn, frames[n].pc + 1) = Open(frames[n].fn, frames[n].pc)
        /\ frames[n].pc + 1 \in DOMAIN Code(frames[n].fn)
        /\ Now.op \notin {"try", "endTry", "call", "return"} /\ Now.op # "unless"
    BY PlainFacts
  <1>2. /\ n \in Nat /\ n >= 1 /\ frames \in Seq(Range(frames)) /\ IsFrame(frames[n])
        /\ Frame = frames[n]
    BY WhereItIs
  <1>3. PICK g : g = Stored(Frame, place, value, objects).frame
    OBVIOUS
  <1>4. frames' = Append(Front(frames), [g EXCEPT !.pc = @ + 1])
    BY <1>3 DEF Store
  <1>5. UNCHANGED <<handlers, top, code>>
    BY DEF Store
  <1>6. GoesOn(frames[n], g) /\ g.pc = frames[n].pc
    BY <1>2, <1>3, FrameStored
  <1>7. PICK h : h = [g EXCEPT !.pc = @ + 1]
    OBVIOUS
  <1>8. IsFrame(g) /\ g.pc + 1 \in DOMAIN Code(g.fn)
    BY <1>1, <1>6 DEF GoesOn
  <1>9. GoesOn(g, h) /\ h.pc = g.pc + 1
    BY <1>7, <1>8, FrameMoved
  <1>a. GoesOn(frames[n], h) /\ h.pc = frames[n].pc + 1
    BY <1>6, <1>9, GoesOnTwice
  <1>b. frames' = Append(Front(frames), h)
    BY <1>4, <1>7
  <1>c. /\ frames' \in Seq(Range(frames')) /\ Len(frames') = n /\ frames'[n] = h
        /\ \A i \in 1 .. n - 1 : frames'[i] = frames[i]
    <2>1. ChangesAt(frames', frames, n, h)
      BY <1>2, <1>b, LastReplaced
    <2> QED BY <2>1 DEF ChangesAt
  <1>d. GoesOn(frames[n], frames'[n]) /\ frames'[n].pc = frames[n].pc + 1
    BY <1>a, <1>c
  <1>e. IsSound(frames', handlers, top, code)
    BY <1>1, <1>c, <1>d, StepInFrame
  <1> QED BY <1>5, <1>e

\* A jump that leaves no block.
LEMMA JumpKeeps ==
    ASSUME IsSound(frames, handlers, top, code), ~ LeavesTry,
           Now.op \in {"goto", "choose", "unless"}, NEW by \in Jumps(Now), Jump(by),
           Now.op = "unless" => by = IF Holds(Now.test) THEN 1 ELSE Now.by
    PROVE  IsSound(frames, handlers, top, code)'
  <1> DEFINE n == Len(frames)
  <1>2. /\ n \in Nat /\ n >= 1 /\ frames \in Seq(Range(frames)) /\ IsFrame(frames[n])
        /\ Frame = frames[n] /\ Now = Code(frames[n].fn)[frames[n].pc]
        /\ frames[n].fn \in Functions /\ frames[n].pc \in DOMAIN Code(frames[n].fn)
    BY WhereItIs
  <1>3. frames' = [frames EXCEPT ![n].pc = @ + by] /\ UNCHANGED <<handlers, top, code>>
    BY DEF Jump, Go
  <1>4. /\ frames' \in Seq(Range(frames')) /\ Len(frames') = n
        /\ frames'[n] = [frames[n] EXCEPT !.pc = @ + by]
        /\ \A i \in 1 .. n - 1 : frames'[i] = frames[i]
    <2>1. ChangesAt(frames', frames, n, [frames[n] EXCEPT !.pc = @ + by])
      BY <1>2, <1>3, LastMoved
    <2> QED BY <2>1 DEF ChangesAt
  <1>5. frames[n].pc + by \in DOMAIN Code(frames[n].fn)
    BY <1>2, CodeFacts
  <1>6. GoesOn(frames[n], frames'[n]) /\ frames'[n].pc = frames[n].pc + by
    BY <1>2, <1>4, <1>5, FrameMoved
  <1>7. Open(frames[n].fn, frames[n].pc + by) = Open(frames[n].fn, frames[n].pc)
    <2>1. Last(frames').pc = frames[n].pc + by
      BY <1>4, <1>6 DEF Last
    <2> QED BY <1>2, <2>1 DEF LeavesTry
  <1>8. Now.op \notin {"try", "endTry", "call", "return"}
    BY SMT
  <1>9. IsSound(frames', handlers, top, code)
    BY <1>4, <1>6, <1>7, <1>8, StepInFrame
  <1> QED BY <1>3, <1>9

LEMMA HandlersInKeeps ==
    ASSUME NEW m, NEW hs, hs = HandlersIn(m)
    PROVE  KeepsHandlers(handlers, hs, m)
  BY DEF HandlersIn, KeepsHandlers

LEMMA CallKeeps ==
    ASSUME IsSound(frames, handlers, top, code), NEW s, s = Now, CallFunction(s)
    PROVE  IsSound(frames, handlers, top, code)'
  <1> DEFINE n == Len(frames)
  <1>1. /\ n \in Nat /\ n >= 1 /\ frames \in Seq(Range(frames))
        /\ Now = Code(frames[n].fn)[frames[n].pc]
        /\ frames[n].fn \in Functions /\ frames[n].pc \in DOMAIN Code(frames[n].fn)
    BY WhereItIs
  <1>2. PICK g : g = NewFrame(s.function, [i \in DOMAIN s.args |-> Here(s.args[i])])
    OBVIOUS
  <1>3. s.op = "call" /\ frames' = Append(frames, g) /\ UNCHANGED <<handlers, top, code>>
    BY <1>2 DEF CallFunction
  <1>4. g.fn = s.function /\ g.pc = 1 /\ g.entry = top
        /\ g = [fn |-> g.fn, locals |-> g.locals, pc |-> g.pc, entry |-> g.entry]
    BY <1>2, SMT DEF NewFrame
  <1>5. g.fn \in Functions
    BY <1>1, <1>3, <1>4, CodeFacts
  <1>6. IsFrame(g)
    BY <1>4, <1>5, CodeFacts DEF IsFrame
  <1>7. ChangesAt(frames', frames, n + 1, g)
    BY <1>1, <1>3, OneMore
  <1>8. s = Code(frames[n].fn)[frames[n].pc]
    BY <1>1
  <1>9. IsSound(frames', handlers, top, code)
    BY <1>3, <1>4, <1>6, <1>7, <1>8, FrameIsCalled
  <1> QED BY <1>3, <1>9

LEMMA ReturnKeeps ==
    ASSUME IsSound(frames, handlers, top, code), NEW s, s = Now, ReturnFromFunction(s)
    PROVE  IsSound(frames, handlers, top, code)'
  <1> DEFINE n == Len(frames)
  <1>1. /\ n \in Nat /\ n >= 1 /\ frames \in Seq(Range(frames))
        /\ Now = Code(frames[n].fn)[frames[n].pc]
    BY WhereItIs
  <1>2. PICK m : m = n - 1
    OBVIOUS
  <1>3. s.op = "return" /\ n > 1 /\ handlers' = HandlersIn(n - 1) /\ UNCHANGED <<top, code>>
    BY DEF ReturnFromFunction
  <1>4. m \in Nat /\ m >= 1 /\ m - 1 <= n /\ m \in 1 .. n /\ n >= 2 /\ n - 2 = m - 1
    BY <1>1, <1>2, <1>3, SMT
  <1>5. IsFrame(frames[m])
    BY <1>4, Innermost
  <1>7. \E f : /\ f = frames[m] \/ \E place, v : f = Stored(frames[m], place, v, heap).frame
               /\ frames' = Append(Front(Front(frames)), [f EXCEPT !.pc = @ + 1])
    BY <1>2 DEF ReturnFromFunction
  <1>8. PICK f : /\ f = frames[m] \/ \E place, v : f = Stored(frames[m], place, v, heap).frame
                 /\ frames' = Append(Front(Front(frames)), [f EXCEPT !.pc = @ + 1])
    BY <1>7
  <1>9. IsFrame(f) /\ f.fn = frames[m].fn /\ f.entry = frames[m].entry /\ f.pc = frames[m].pc
    BY <1>5, <1>8, FrameStored DEF GoesOn
  <1>a. PICK g : g = [f EXCEPT !.pc = @ + 1]
    OBVIOUS
  <1>b. /\ g = [fn |-> g.fn, locals |-> g.locals, pc |-> g.pc, entry |-> g.entry]
        /\ g.fn = frames[m].fn /\ g.entry = frames[m].entry /\ g.pc = frames[m].pc + 1
    <2>1. g = [fn |-> f.fn, locals |-> f.locals, pc |-> f.pc + 1, entry |-> f.entry]
      BY <1>9, <1>a, SMT DEF IsFrame
    <2> QED BY <1>9, <2>1, SMT
  <1>c. ChangesAt(frames', frames, m, g)
    <2>1. PICK hs : hs = SubSeq(frames, 1, m - 1)
      OBVIOUS
    <2>2. Front(Front(frames)) = hs
      BY <1>1, <1>4, <2>1, AllButLast
    <2>3. frames' = Append(hs, g)
      BY <1>8, <1>a, <2>2
    <2> QED BY <1>1, <1>4, <2>1, <2>3, FirstAndOneMore
  <1>d. KeepsHandlers(handlers, handlers', m)
    BY <1>2, <1>3, HandlersInKeeps
  <1>e. Code(frames[n].fn)[frames[n].pc].op = "return"
    BY <1>1, <1>3
  <1>f. IsSound(frames', handlers', top, code)
    BY <1>2, <1>4, <1>b, <1>c, <1>d, <1>e, FrameReturns
  <1> QED BY <1>3, <1>f

LEMMA EnterTryKeeps ==
    ASSUME IsSound(frames, handlers, top, code), NEW s, s = Now, EnterTry(s)
    PROVE  IsSound(frames, handlers, top, code)'
  <1> DEFINE n == Len(frames)
             t == frames[n].pc
  <1>1. /\ n \in Nat /\ n >= 1 /\ frames \in Seq(Range(frames)) /\ IsFrame(frames[n])
        /\ Frame = frames[n] /\ Now = Code(frames[n].fn)[t]
        /\ frames[n].fn \in Functions /\ t \in DOMAIN Code(frames[n].fn) /\ t \in Nat
    BY WhereItIs
  <1>2. /\ s.op = "try" /\ top' = Address(s.site)
        /\ frames' = [frames EXCEPT ![n].pc = @ + 1]
        /\ handlers' = [a \in DOMAIN handlers \cup {Address(s.site)} |->
                           IF a = Address(s.site) THEN [pPrevious |-> top, landing |-> Frame.pc + s.landing]
                           ELSE handlers[a]]
    BY DEF EnterTry, Continue, Go
  <1>3. s = Code(frames[n].fn)[t]
    BY <1>1
  <1>4. top' = HandlerAt(frames, n, t)
    BY <1>1, <1>2, <1>3 DEF Address, HandlerAt
  <1>5. AddsHandler(handlers', handlers, top', top, EndOf(frames[n].fn, t))
    <2>1. handlers' = [a \in DOMAIN handlers \cup {top'} |->
                           IF a = top' THEN [pPrevious |-> top, landing |-> EndOf(frames[n].fn, t)]
                           ELSE handlers[a]]
      BY <1>1, <1>2, <1>3 DEF EndOf
    <2> QED BY <2>1 DEF AddsHandler
  <1>6. 1 \in Jumps(s)
    BY <1>2, SMT DEF Jumps, ThrowOps
  <1>7. t + 1 \in DOMAIN Code(frames[n].fn)
    BY <1>1, <1>6, CodeFacts
  <1>8. PICK g : g = [frames[n] EXCEPT !.pc = @ + 1]
    OBVIOUS
  <1>9. GoesOn(frames[n], g) /\ g.pc = t + 1
    BY <1>1, <1>7, <1>8, FrameMoved
  <1>c. ChangesAt(frames', frames, n, g)
    BY <1>1, <1>2, <1>8, LastMoved
  <1>a. Code(frames[n].fn)[t].op = "try"
    BY <1>2, <1>3
  <1>b. IsSound(frames', handlers', top', code')
    BY <1>4, <1>5, <1>9, <1>a, <1>c, BlockBegins
  <1> QED BY <1>b

LEMMA EndTryKeeps ==
    ASSUME IsSound(frames, handlers, top, code), NEW s, s = Now, EndTry(s)
    PROVE  IsSound(frames, handlers, top, code)'
  <1> DEFINE n == Len(frames)
             e == frames[n].pc
  <1>1. /\ n \in Nat /\ n >= 1 /\ frames \in Seq(Range(frames)) /\ IsFrame(frames[n])
        /\ Frame = frames[n] /\ Now = Code(frames[n].fn)[e]
        /\ frames[n].fn \in Functions /\ e \in DOMAIN Code(frames[n].fn)
    BY WhereItIs
  <1>2. /\ s.op = "endTry" /\ top' = handlers[Address(s.site)].pPrevious
        /\ frames' = [frames EXCEPT ![n].pc = @ + 1] /\ UNCHANGED <<handlers, code>>
    BY DEF EndTry, Continue, Go
  <1>3. s = Code(frames[n].fn)[e]
    BY <1>1
  <1>4. PICK a : a = <<n, frames[n].fn, Code(frames[n].fn)[e].site>>
    OBVIOUS
  <1>5. top' = handlers[a].pPrevious
    BY <1>1, <1>2, <1>3, <1>4 DEF Address
  <1>6. 1 \in Jumps(s)
    BY <1>2, SMT DEF Jumps, ThrowOps
  <1>7. e + 1 \in DOMAIN Code(frames[n].fn)
    BY <1>1, <1>6, CodeFacts
  <1>8. /\ frames' \in Seq(Range(frames')) /\ Len(frames') = n
        /\ frames'[n] = [frames[n] EXCEPT !.pc = @ + 1]
        /\ \A i \in 1 .. n - 1 : frames'[i] = frames[i]
    <2>1. ChangesAt(frames', frames, n, [frames[n] EXCEPT !.pc = @ + 1])
      BY <1>1, <1>2, LastMoved
    <2> QED BY <2>1 DEF ChangesAt
  <1>9. GoesOn(frames[n], frames'[n]) /\ frames'[n].pc = e + 1
    BY <1>1, <1>7, <1>8, FrameMoved
  <1>a. Code(frames[n].fn)[e].op = "endTry"
    BY <1>2, <1>3
  <1>b. IsSound(frames', handlers, handlers[a].pPrevious, code)
    BY <1>4, <1>8, <1>9, <1>a, BlockEnds
  <1> QED BY <1>2, <1>5, <1>b

\* A throw finds a handler, and its frame is there.
LEMMA LongJumpKeeps ==
    ASSUME IsSound(frames, handlers, top, code), MayThrow(Now), LongJump
    PROVE  IsSound(frames, handlers, top, code)' /\ UNCHANGED outcome
  <1> DEFINE n == Len(frames)
  <1>1. /\ n \in Nat /\ n >= 1 /\ n \in 1 .. n /\ frames \in Seq(Range(frames))
        /\ Now = Code(frames[n].fn)[frames[n].pc]
        /\ frames[n].fn \in Functions /\ frames[n].pc \in DOMAIN Code(frames[n].fn)
    BY WhereItIs, SMT
  <1>2. PICK m \in 1 .. n : \E t \in OpenIn(frames, m) :
            IsLast(t, OpenIn(frames, m)) /\ top = HandlerAt(frames, m, t)
    <2>1. OpenIn(frames, n) # {} \/ frames[n].fn \notin Contained
      BY <1>1, ContainedAssumption DEF OpenIn
    <2>2. frames[n].fn \notin Contained => frames[n].entry # NoHandler
      BY <1>1 DEF IsSound, OthersAreHandled
    <2> QED BY <2>1, <2>2, TopIsOfABlock
  <1>3. PICK t \in OpenIn(frames, m) :
            IsLast(t, OpenIn(frames, m)) /\ top = HandlerAt(frames, m, t)
    BY <1>2
  <1>4. /\ m \in Nat /\ m >= 1 /\ m <= n /\ IsFrame(frames[m]) /\ t \in Tries(frames[m].fn)
        /\ frames[m].fn \in Functions
        /\ top \in DOMAIN handlers /\ handlers[top].landing = EndOf(frames[m].fn, t)
    BY <1>2, <1>3, Innermost
  <1>5. top[1] = m
    BY <1>3 DEF HandlerAt
  <1>6. PICK g : g = [frames[m] EXCEPT !.pc = handlers[top].landing]
    OBVIOUS
  <1>7. PICK hs : hs = SubSeq(frames, 1, m - 1)
    OBVIOUS
  <1>8. /\ frames' = Append(hs, g) /\ handlers' = HandlersIn(m) /\ UNCHANGED <<top, outcome>>
    BY <1>4, <1>5, <1>6, <1>7 DEF LongJump
  <1>9. GoesOn(frames[m], g) /\ g.pc = EndOf(frames[m].fn, t)
    <2>1. g = [fn |-> frames[m].fn, locals |-> frames[m].locals,
               pc |-> EndOf(frames[m].fn, t), entry |-> frames[m].entry]
      BY <1>4, <1>6, SMT DEF IsFrame
    <2>2. EndOf(frames[m].fn, t) \in DOMAIN Code(frames[m].fn)
      BY <1>4, TryFacts
    <2> QED BY <1>4, <2>1, <2>2, SMT DEF IsFrame, GoesOn
  <1>a. /\ frames' \in Seq(Range(frames')) /\ Len(frames') = m /\ frames'[m] = g
        /\ \A i \in 1 .. m - 1 : frames'[i] = frames[i]
    <2>1. m - 1 <= Len(frames)
      BY <1>1, <1>4, SMT
    <2>2. ChangesAt(frames', frames, m, g)
      BY <1>1, <1>4, <1>7, <1>8, <2>1, FirstAndOneMore
    <2> QED BY <2>2 DEF ChangesAt
  <1>b. KeepsHandlers(handlers, handlers', m)
    BY <1>8, HandlersInKeeps
  <1>c. IsSound(frames', handlers', top, code')
    BY <1>3, <1>9, <1>a, <1>b, StackUnwinds
  <1> QED BY <1>8, <1>c

LEMMA StopKeeps ==
    ASSUME IsSound(frames, handlers, top, code), NEW how, Stop(how)
    PROVE  IsSound(frames, handlers, top, code)'
  <1>1. UNCHANGED <<frames, handlers, top, code>>
    BY DEF Stop
  <1>2. IsSound(frames', handlers', top', code')
    BY <1>1
  <1> QED BY <1>2

\* One step of a program that is running.
LEMMA StepKeeps ==
    ASSUME IInv, outcome = "running", ~ LeavesTry, NEW s, s = Now, Step(s)
    PROVE  IInv'
  <1> DEFINE Others == ThrowOps \cup {"try", "endTry", "call", "return", "goto", "choose", "unless"}
  <1>1. IsSound(frames, handlers, top, code) /\ outcome \notin {"wild", "unhandled"}
    BY DEF IInv
  <1> SUFFICES IsSound(frames, handlers, top, code)' /\ outcome' \notin {"wild", "unhandled"}
    BY DEF IInv
  <1>2. ASSUME NEW place, NEW value, NEW objects, Store(place, value, objects), Now.op \notin Others
        PROVE  IsSound(frames, handlers, top, code)' /\ outcome' \notin {"wild", "unhandled"}
    <2>1. outcome' = outcome
      BY <1>2 DEF Store
    <2> QED BY <1>1, <1>2, <2>1, StoreKeeps
  <1>3. ASSUME Continue, UNCHANGED <<handlers, top, outcome>>, Now.op \notin Others,
               code' = code \/ Now.op = "clear"
        PROVE  IsSound(frames, handlers, top, code)' /\ outcome' \notin {"wild", "unhandled"}
    BY <1>1, <1>3, ContinueKeeps
  <1>4. ASSUME LongJump, MayThrow(Now)
        PROVE  IsSound(frames, handlers, top, code)' /\ outcome' \notin {"wild", "unhandled"}
    BY <1>1, <1>4, LongJumpKeeps
  <1>5. ASSUME NEW by \in Jumps(Now), Jump(by), Now.op \in {"goto", "choose", "unless"},
               Now.op = "unless" => by = IF Holds(Now.test) THEN 1 ELSE Now.by
        PROVE  IsSound(frames, handlers, top, code)' /\ outcome' \notin {"wild", "unhandled"}
    <2>1. outcome' = outcome
      BY <1>5 DEF Jump
    <2> QED BY <1>1, <1>5, <2>1, JumpKeeps
  <1>6. ASSUME NEW how \in {"success", "failure", "aborted"}, Stop(how)
        PROVE  IsSound(frames, handlers, top, code)' /\ outcome' \notin {"wild", "unhandled"}
    <2>1. outcome' = how /\ how \notin {"wild", "unhandled"}
      BY <1>6, SMT DEF Stop
    <2> QED BY <1>1, <1>6, <2>1, StopKeeps
  <1>o. \A op \in {"new", "free", "freeList", "put", "copy", "count", "getCode", "require", "clear"} : op \notin Others
    BY SMT DEF ThrowOps
  <1>a. CASE Succeed(s)
    <2>1. Now.op = "new" /\ \E objects : Store(s.place, allocated', objects)
      BY <1>a DEF Succeed
    <2>2. Now.op \notin Others
      BY <1>o, <2>1, SMT
    <2> QED BY <1>2, <2>1, <2>2
  <1>b. CASE Fail(s)
    <2>1. s.op = "new"
      BY <1>b DEF Fail
    <2>2. CASE s.exception = noException
      <3>1. Now.op \notin Others
        BY <1>o, <2>1, SMT
      <3>2. Store(s.place, NULL, heap)
        BY <1>b, <2>2 DEF Fail
      <3> QED BY <1>2, <3>1, <3>2
    <2>3. CASE s.exception # noException
      <3>1. LongJump
        BY <1>b, <2>3 DEF Fail, ThrowException
      <3>2. MayThrow(Now)
        BY <2>1, <2>3 DEF MayThrow
      <3> QED BY <1>4, <3>1, <3>2
    <2> QED BY <2>2, <2>3
  <1>c. CASE Release(s)
    <2>1. (Now.op = "free" \/ Now.op = "freeList") /\ Continue /\ UNCHANGED <<handlers, top, code, outcome>>
      BY <1>c DEF Release
    <2>2. Now.op \notin Others
      BY <1>o, <2>1, SMT
    <2> QED BY <1>3, <2>1, <2>2
  <1>d. CASE PutNumber(s) \/ CopyValue(s) \/ CountUp(s) \/ GetCode(s)
    <2>1. \E op \in {"put", "copy", "count", "getCode"} :
             Now.op = op /\ \E value : Store(s.place, value, heap)
      <3>1. CASE PutNumber(s)
        BY <3>1, Zenon DEF PutNumber, Move
      <3>2. CASE CopyValue(s)
        BY <3>2, Zenon DEF CopyValue, Move
      <3>3. CASE CountUp(s)
        BY <3>3, Zenon DEF CountUp, Move
      <3>4. CASE GetCode(s)
        BY <3>4, Zenon DEF GetCode, Move
      <3> QED BY <1>d, <3>1, <3>2, <3>3, <3>4
    <2>2. Now.op \notin Others
      <3>1. {"put", "copy", "count", "getCode"} \cap Others = {}
        BY <1>o, SMT
      <3> QED BY <2>1, <3>1
    <2>3. PICK value : Store(s.place, value, heap)
      BY <2>1
    <2> QED BY <1>2, <2>2, <2>3
  <1>e. CASE Branch(s)
    <2>1. Now.op = "unless" /\ Jump(IF Holds(Now.test) THEN 1 ELSE Now.by)
      BY <1>e DEF Branch
    <2>2. (IF Holds(Now.test) THEN 1 ELSE Now.by) \in Jumps(Now)
      <3>1. Jumps(Now) = {1, Now.by}
        BY <2>1, SMT DEF Jumps
      <3> QED BY <3>1
    <2>3. Now.op \in {"goto", "choose", "unless"}
      BY <2>1
    <2> QED BY <1>5, <2>1, <2>2, <2>3
  <1>f. CASE Choose(s)
    <2>1. Now.op = "choose"
      BY <1>f DEF Choose
    <2>2. PICK by \in s.by : Jump(by)
      BY <1>f DEF Choose
    <2>3. by \in Jumps(Now)
      BY <2>1, <2>2, SMT DEF Jumps
    <2>4. Now.op \in {"goto", "choose", "unless"} /\ Now.op # "unless"
      BY <2>1, SMT
    <2> QED BY <1>5, <2>2, <2>3, <2>4
  <1>g. CASE JumpAlong(s)
    <2>1. Now.op = "goto" /\ Jump(s.by)
      BY <1>g DEF JumpAlong
    <2>2. s.by \in Jumps(Now)
      BY <2>1, SMT DEF Jumps
    <2>3. Now.op \in {"goto", "choose", "unless"} /\ Now.op # "unless"
      BY <2>1, SMT
    <2> QED BY <1>5, <2>1, <2>2, <2>3
  <1>h. CASE CallFunction(s)
    <2>1. outcome' = outcome
      BY <1>h DEF CallFunction
    <2> QED BY <1>1, <1>h, <2>1, CallKeeps
  <1>i. CASE ReturnFromFunction(s)
    <2>1. outcome' = outcome
      BY <1>i DEF ReturnFromFunction
    <2> QED BY <1>1, <1>i, <2>1, ReturnKeeps
  <1>j. CASE Exit(s)
    <2>1. Stop(IF Here(s.place) = 0 THEN "success" ELSE "failure")
      BY <1>j DEF Exit
    <2>2. (IF Here(s.place) = 0 THEN "success" ELSE "failure") \in {"success", "failure", "aborted"}
      OBVIOUS
    <2> QED BY <1>6, <2>1, <2>2
  <1>k. CASE Abort(s)
    <2>1. Stop("aborted") /\ "aborted" \in {"success", "failure", "aborted"}
      BY <1>k DEF Abort
    <2> QED BY <1>6, <2>1
  <1>l. CASE Pass(s)
    <2>1. Now.op = "require" /\ Continue /\ UNCHANGED <<handlers, top, code, outcome>>
      BY <1>l DEF Pass, Jump, Continue
    <2>2. Now.op \notin Others
      BY <1>o, <2>1, SMT
    <2> QED BY <1>3, <2>1, <2>2
  <1>m. CASE EnterTry(s)
    <2>1. outcome' = outcome
      BY <1>m DEF EnterTry
    <2> QED BY <1>1, <1>m, <2>1, EnterTryKeeps
  <1>n. CASE EndTry(s)
    <2>1. outcome' = outcome
      BY <1>n DEF EndTry
    <2> QED BY <1>1, <1>n, <2>1, EndTryKeeps
  <1>p. CASE Throws(s)
    <2>1. LongJump /\ (Now.op = "throw" \/ Now.op = "throwValue" \/ Now.op = "rethrow")
      BY <1>p DEF Throws, ThrowException
    <2>2. MayThrow(Now)
      BY <2>1, SMT DEF MayThrow, ThrowOps
    <2> QED BY <1>4, <2>1, <2>2
  <1>q. CASE Clear(s)
    <2>1. Now.op = "clear" /\ Continue /\ UNCHANGED <<handlers, top, outcome>>
      BY <1>q DEF Clear
    <2>2. Now.op \notin Others
      BY <1>o, <2>1, SMT
    <2> QED BY <1>3, <2>1, <2>2
  <1> QED BY <1>a, <1>b, <1>c, <1>d, <1>e, <1>f, <1>g, <1>h, <1>i, <1>j, <1>k, <1>l, <1>m, <1>n,
             <1>p, <1>q DEF Step

LEMMA UnchangedKeeps ==
    ASSUME IInv, UNCHANGED vars
    PROVE  IInv'
  <1>1. UNCHANGED <<frames, handlers, top, code, outcome>>
    BY DEF vars
  <1>2. IsSound(frames', handlers', top', code')
    BY <1>1 DEF IInv
  <1> QED BY <1>1, <1>2 DEF IInv

LEMMA NextKeeps ==
    ASSUME IInv, [Next]_vars, [~ LeavesTry]_vars
    PROVE  IInv'
  <1>1. CASE UNCHANGED vars
    BY <1>1, UnchangedKeeps
  <1>2. CASE Next /\ ~ LeavesTry
    <2>1. outcome = "running" /\ \E s : s = Now /\ Step(s)
      BY <1>2 DEF Next
    <2> QED BY <1>2, <2>1, StepKeeps
  <1> QED BY <1>1, <1>2

LEMMA InitIsSound ==
    ASSUME Init
    PROVE  IInv
  <1>1. PICK main \in Mains :
            frames = <<[fn     |-> main,
                        locals |-> [x \in Range(Program[main].others) |-> NULL],
                        pc     |-> 1,
                        entry  |-> NoHandler]>>
    BY DEF Init
  <1>2. PICK f : /\ frames = <<f>> /\ f.fn = main /\ f.pc = 1 /\ f.entry = NoHandler
                 /\ f = [fn |-> f.fn, locals |-> f.locals, pc |-> f.pc, entry |-> f.entry]
    BY <1>1, SMT
  <1>3. top = NoHandler /\ outcome = "running"
    BY DEF Init
  <1>4. main \in Functions /\ main \in Contained
    BY ProgramAssumption, ContainedAssumption DEF Functions
  <1>5. Len(frames) = 1 /\ frames[1] = f /\ frames \in Seq({f})
    BY <1>2, SMT
  <1>6. frames \in Seq(Range(frames))
    BY <1>5, OfItsOwnElements
  <1>7. \A i \in 1 .. 1 : i = 1 /\ \A j \in 1 .. 1 - 1 : FALSE
    BY SMT
  <1>8. \A i \in 1 .. 1 - 1 : FALSE
    BY SMT
  <1>9. 1 >= 1 /\ 1 \in 1 .. 1
    BY SMT
  <1>a. OpenIn(frames, 1) = {}
    <2>1. \A t \in Tries(main) : ~ (t < 1)
      BY <1>4, TryFacts, SMT
    <2> QED BY <1>2, <1>5, <2>1 DEF OpenIn, Open
  <1>b. IsFrame(f)
    BY <1>2, <1>4, CodeFacts DEF IsFrame
  <1>c. IsStack(frames)
    BY <1>5, <1>6, <1>7, <1>9, <1>b DEF IsStack
  <1>d. CallersWait(frames)
    BY <1>5, <1>8 DEF CallersWait
  <1>e. HandlersLink(frames, handlers)
    BY <1>5, <1>7, <1>a DEF HandlersLink
  <1>f. EntriesAreOpen(frames) /\ OthersAreHandled(frames)
    BY <1>2, <1>4, <1>5, <1>7 DEF EntriesAreOpen, OthersAreHandled
  <1>g. IsNearest(frames, Len(frames), frames[Len(frames)].pc, top)
    BY <1>2, <1>3, <1>5, <1>a DEF IsNearest, OpenIn
  <1>h. CatchesKnow(frames, code)
    BY <1>2, <1>4, <1>5, <1>7, BeginningsAreInNoCatch DEF CatchesKnow
  <1>i. outcome \notin {"wild", "unhandled"}
    BY <1>3, SMT
  <1> QED BY <1>c, <1>d, <1>e, <1>f, <1>g, <1>h, <1>i DEF IInv, IsSound

---------------------------------------------------------------------------
(* What follows *)

LEMMA SoundStacksUnwind ==
    ASSUME IInv
    PROVE  ExceptionsReachTheirTry
  <1> DEFINE n == Len(frames)
  <1>1. IsSound(frames, handlers, top, code) /\ outcome \notin {"wild", "unhandled"}
    BY DEF IInv
  <1>2. /\ n \in Nat /\ n >= 1 /\ Frame = frames[n] /\ Now = Code(frames[n].fn)[frames[n].pc]
        /\ frames[n].fn \in Functions /\ frames[n].pc \in DOMAIN Code(frames[n].fn)
    BY <1>1, WhereItIs
  <1>3. IsNearest(frames, n, frames[n].pc, top)
    BY <1>1 DEF IsSound
  <1>4. ASSUME Now.op = "return" PROVE top = Frame.entry
    <2>1. Open(frames[n].fn, frames[n].pc) = {}
      BY <1>2, <1>4, ReturnsAssumption
    <2> QED BY <1>2, <1>3, <2>1 DEF IsNearest
  <1>5. ASSUME Now.op = "rethrow" PROVE code # noException
    <2>1. PICK c \in DOMAIN Code(frames[n].fn) : IsCaught(frames[n].fn, c, frames[n].pc)
      BY <1>2, <1>5, RethrowsAssumption
    <2>2. c \in Nat /\ frames[n].pc \in Nat /\ c < frames[n].pc
      BY <1>2, <2>1, CodeFacts DEF IsCaught
    <2>3. frames[n].pc \in c + 1 .. frames[n].pc /\ n \in 1 .. n /\ \A j \in n + 1 .. n : FALSE
      BY <1>2, <2>2, SMT
    <2>4. IsInCatch(frames[n].fn, frames[n].pc)
      BY <1>2, <1>5, <2>1, <2>3 DEF IsInCatch
    <2> QED BY <1>1, <2>3, <2>4 DEF IsSound, CatchesKnow
  <1>6. outcome # "unhandled"
    BY <1>1
  <1> QED BY <1>4, <1>5, <1>6 DEF ExceptionsReachTheirTry

LEMMA StacksAreSound == Spec /\ [][~ LeavesTry]_vars => []IInv
  <1>1. Init => IInv
    BY InitIsSound
  <1>2. IInv /\ [Next]_vars /\ [~ LeavesTry]_vars => IInv'
    BY NextKeeps
  <1> QED BY <1>1, <1>2, PTL DEF Spec

\* As long as no break leaves a __try of its loop, an exception reaches the __try around it: a
\* function that returns leaves the handler on top that was there when it was called (the last
\* line of __catch), a __catch that throws again has an exception to throw, and none gets past main.
THEOREM ExceptionsReachTheirTryWithoutBreaks ==
    Spec /\ [][~ LeavesTry]_vars => []ExceptionsReachTheirTry
  <1>1. IInv => ExceptionsReachTheirTry
    BY SoundStacksUnwind
  <1> QED BY <1>1, StacksAreSound, PTL

\* As long as no break leaves a __try of its loop, longjmp never goes to a frame of a function that
\* has returned (what the standard leaves undefined): the part of MemoryIsSafe about the stack.
THEOREM NoThrowIntoADeadFrame ==
    Spec /\ [][~ LeavesTry]_vars => [](outcome # "wild")
  <1>1. IInv => outcome # "wild"
    BY DEF IInv
  <1> QED BY <1>1, StacksAreSound, PTL

\* An instruction that jumps does nothing else.
LEMMA JumpsOnlyJump ==
    ASSUME NEW s, s.op \in {"goto", "choose", "unless"}, Step(s)
    PROVE  \E by \in Jumps(s) : Jump(by)
  <1>1. CASE s.op = "goto"
    <2>1. JumpAlong(s)
      BY <1>1, SMT DEF Step, Succeed, Fail, Release, PutNumber, CopyValue, CountUp, GetCode, Move,
           Branch, Choose, CallFunction, ReturnFromFunction, Exit, Abort, Pass, EnterTry, EndTry, Throws, Clear
    <2>2. Jump(s.by) /\ Jumps(s) = {s.by}
      BY <1>1, <2>1 DEF JumpAlong, Jumps
    <2> QED BY <2>2
  <1>2. CASE s.op = "choose"
    <2>1. Choose(s)
      BY <1>2, SMT DEF Step, Succeed, Fail, Release, PutNumber, CopyValue, CountUp, GetCode, Move,
           Branch, JumpAlong, CallFunction, ReturnFromFunction, Exit, Abort, Pass, EnterTry, EndTry, Throws, Clear
    <2>2. Jumps(s) = s.by
      BY <1>2, SMT DEF Jumps
    <2> QED BY <2>1, <2>2 DEF Choose
  <1>3. CASE s.op = "unless"
    <2>1. Branch(s)
      BY <1>3, SMT DEF Step, Succeed, Fail, Release, PutNumber, CopyValue, CountUp, GetCode, Move,
           Choose, JumpAlong, CallFunction, ReturnFromFunction, Exit, Abort, Pass, EnterTry, EndTry, Throws, Clear
    <2>2. Jumps(s) = {1, s.by}
      BY <1>3, SMT DEF Jumps
    <2>3. Jump(IF Holds(s.test) THEN 1 ELSE s.by)
      BY <2>1 DEF Branch
    <2> QED BY <2>2, <2>3
  <1> QED BY <1>1, <1>2, <1>3

LEMMA NothingLeavesTries ==
    ASSUME IInv, [Next]_vars, \A fn \in Functions : Breaks(fn) = {}
    PROVE  [~ LeavesTry]_vars
  <1> SUFFICES ASSUME Next, LeavesTry PROVE FALSE
    OBVIOUS
  <1> DEFINE n == Len(frames)
  <1>1. /\ n \in Nat /\ n >= 1 /\ frames \in Seq(Range(frames)) /\ IsFrame(frames[n])
        /\ Frame = frames[n] /\ Now = Code(frames[n].fn)[frames[n].pc]
        /\ frames[n].fn \in Functions /\ frames[n].pc \in DOMAIN Code(frames[n].fn)
    BY WhereItIs DEF IInv
  <1>2. /\ Now.op \in {"goto", "choose", "unless"}
        /\ Open(frames[n].fn, Last(frames').pc) # Open(frames[n].fn, frames[n].pc)
    BY <1>1 DEF LeavesTry
  <1>3. PICK by \in Jumps(Now) : Jump(by)
    BY <1>2, JumpsOnlyJump DEF Next
  <1>4. frames' = [frames EXCEPT ![n].pc = @ + by]
    BY <1>3 DEF Jump, Go
  <1>5. Len(frames') = n /\ frames'[n] = [frames[n] EXCEPT !.pc = @ + by]
    <2>1. ChangesAt(frames', frames, n, [frames[n] EXCEPT !.pc = @ + by])
      BY <1>1, <1>4, LastMoved
    <2> QED BY <2>1 DEF ChangesAt
  <1>6. frames[n].pc + by \in DOMAIN Code(frames[n].fn)
    BY <1>1, CodeFacts
  <1>7. Last(frames').pc = frames[n].pc + by
    <2>1. frames'[n].pc = frames[n].pc + by
      BY <1>1, <1>5, <1>6, FrameMoved
    <2> QED BY <1>5, <2>1 DEF Last
  <1>8. frames[n].pc \in Breaks(frames[n].fn)
    BY <1>1, <1>2, <1>7 DEF Breaks
  <1> QED BY <1>1, <1>8

\* Of a program with no break out of a __try, nothing more is to be assumed of a run.
THEOREM ExceptionsOfProgramsWithoutBreaks ==
    ASSUME \A fn \in Functions : Breaks(fn) = {}
    PROVE  Spec => []ExceptionsReachTheirTry
  <1>1. Init => IInv
    BY InitIsSound
  <1>2. IInv /\ [Next]_vars => IInv'
    BY NothingLeavesTries, NextKeeps
  <1>3. IInv => ExceptionsReachTheirTry
    BY SoundStacksUnwind
  <1> QED BY <1>1, <1>2, <1>3, PTL DEF Spec
=============================================================================
