------------------------- MODULE TextSourcesProofs --------------------------
(***************************************************************************)
(* Proofs about TextSources, for all files, macros, counts and depths.     *)
(*                                                                         *)
(* A loop and the source below it are two sources on one stack that move   *)
(* independently of each other.  IInv says of the stack that every loop    *)
(* lies on the source it was cut out of, which stands at its --^: of the   *)
(* steps only the one on top changes its place, and a loop is never        *)
(* without a source below.  Of the updates it says that each goes back to  *)
(* the place that its line was at.                                         *)
(***************************************************************************)
EXTENDS TextSources, SequenceTheorems, WellFoundedInduction, TLAPS

IsSource(s) == s \in Source /\ s.next <= Len(s.lines)

(* The stack has loops only on the sources they are from. *)
IsStack(st) ==
    /\ st \in Seq(Source)
    /\ \A i \in DOMAIN st : st[i].next <= Len(st[i].lines)
    /\ \A i \in DOMAIN st : st[i].kind = "lup" => i > 1 /\ IsLoopOf(st[i], st[i - 1])

(* A line that was read is one that its source has given, or the blank     *)
(* line an empty loop gives.                                               *)
IsLastRead(line, source) == source.next >= 1 /\ line = source.lines[source.next]

IsKnownCall(line) == line.op = "call" /\ macros[line.macro] # NoMacro

UpdatesReturn ==
    /\ \A i \in DOMAIN updates :
           /\ updates[i].phase = "read" => i = 1
           /\ updates[i].phase = "update" => i > 1
           /\ updates[i].phase = "push" => IsKnownCall(updates[i].line)
    /\ phase \in {"read", "label"} => updates = <<>>
    /\ phase = "update" => updates # <<>>
    /\ phase = "push" => IsKnownCall(current)
    /\ phase = "label" => current.label \in Symbols /\ ~current.own

IInv == TypeOK /\ LoopsResumeAtTheirEnd /\ UpdatesReturn

-----------------------------------------------------------------------------
(* Sources and stacks. *)

LEMMA SourceFields ==
    ASSUME NEW s \in Source
    PROVE  /\ s.kind \in {"file", "lup", "macro"}
           /\ s.lines \in Seq(Line) /\ s.next \in Nat /\ s.iterations \in Nat
           /\ Len(s.lines) \in Nat
  BY LenProperties DEF Source

LEMMA LineFields ==
    ASSUME NEW l \in Line
    PROVE  /\ l.skip \in Nat /\ l.count \in Nat /\ l.early \in Nat
           /\ l.uses \in Symbols \cup {NoSymbol} /\ l.label \in Symbols \cup {NoSymbol}
           /\ l.op = "equ" /\ ~l.bad => l.label \in Symbols
           /\ l.own => l.op = "equ" /\ ~l.bad
           /\ l.op = "put" /\ ~l.bad => l.file \in Files
           /\ l.op = "call" => l.macro \in Macros
  <1>1. l.skip \in Nat /\ l.count \in 0 .. MaxCount /\ l.early \in 0 .. MaxCount
    BY DEF Line
  <1>2. /\ l.op = "put" /\ ~l.bad => l.file \in Files
        /\ l.op = "call" => l.macro \in Macros
    BY DEF Line
  <1>3. /\ l.uses \in Symbols \cup {NoSymbol} /\ l.label \in Symbols \cup {NoSymbol}
        /\ l.op = "equ" /\ ~l.bad => l.label \in Symbols
        /\ l.own => l.op = "equ" /\ ~l.bad
    BY DEF Line
  <1> QED BY <1>1, <1>2, <1>3, TextsAssumption, SMT

(* An EQU that has defined its label is a line that knows it has. *)
LEMMA OwnLine ==
    ASSUME NEW l \in Line, l.op = "equ", ~l.bad
    PROVE  /\ [l EXCEPT !.own = TRUE] \in Line
           /\ [l EXCEPT !.own = TRUE].uses = l.uses
           /\ [l EXCEPT !.own = TRUE].op = "equ"
  BY DEF Line

LEMMA BlankIsALine == Blank \in Line /\ Blank.op = "blank"
  BY TextsAssumption, SMT DEF Blank, Line

LEMMA NewSourceIsASource ==
    ASSUME NEW k \in {"file", "lup", "macro"}, NEW ls \in Seq(Line), NEW n \in Nat
    PROVE  /\ IsSource(NewSource(k, ls, n))
           /\ NewSource(k, ls, n).kind = k
           /\ NewSource(k, ls, n).lines = ls
           /\ NewSource(k, ls, n).next = 0
           /\ NewSource(k, ls, n).iterations = n
  <1>1. Len(ls) \in Nat
    BY LenProperties
  <1> QED BY <1>1, SMT DEF NewSource, IsSource, Source

LEMMA MovedSource ==
    ASSUME NEW s \in Source, NEW n \in Nat, n <= Len(s.lines)
    PROVE  /\ IsSource([s EXCEPT !.next = n])
           /\ [s EXCEPT !.next = n].kind = s.kind
           /\ [s EXCEPT !.next = n].lines = s.lines
           /\ [s EXCEPT !.next = n].next = n
           /\ [s EXCEPT !.next = n].iterations = s.iterations
  BY SMT DEF IsSource, Source

LEMMA RestartedSource ==
    ASSUME NEW s \in Source, NEW n \in Nat
    PROVE  /\ [s EXCEPT !.next = 0, !.iterations = n] \in Source
           /\ [s EXCEPT !.next = 0, !.iterations = n].next = 0
           /\ [s EXCEPT !.next = 0, !.iterations = n].kind = s.kind
           /\ [s EXCEPT !.next = 0, !.iterations = n].lines = s.lines
           /\ [s EXCEPT !.next = 0, !.iterations = n].iterations = n
  <1> DEFINE u == [s EXCEPT !.next = 0]
  <1>1. u \in Source /\ u.next = 0 /\ u.kind = s.kind /\ u.lines = s.lines
    BY SMT DEF Source
  <1>2. [s EXCEPT !.next = 0, !.iterations = n] = [u EXCEPT !.iterations = n]
    OBVIOUS
  <1> HIDE DEF u
  <1>3. /\ [u EXCEPT !.iterations = n] \in Source
        /\ [u EXCEPT !.iterations = n].next = u.next
        /\ [u EXCEPT !.iterations = n].kind = u.kind
        /\ [u EXCEPT !.iterations = n].lines = u.lines
        /\ [u EXCEPT !.iterations = n].iterations = n
    BY <1>1, SMT DEF Source
  <1> QED BY <1>1, <1>2, <1>3, Zenon

LEMMA StackFacts ==
    ASSUME NEW st, IsStack(st), st # <<>>
    PROVE  /\ Len(st) \in Nat /\ Len(st) >= 1
           /\ DOMAIN st = 1 .. Len(st)
           /\ Last(st) = st[Len(st)]
           /\ IsSource(Last(st))
           /\ Last(st).kind = "lup" => Last(st).iterations >= 1
  <1>1. st \in Seq(Source)
    BY DEF IsStack
  <1>2. Len(st) \in Nat /\ Len(st) >= 1 /\ DOMAIN st = 1 .. Len(st)
    BY <1>1, LenProperties, EmptySeq, SMT
  <1>3. Len(st) \in DOMAIN st /\ Last(st) = st[Len(st)]
    BY <1>2, SMT DEF Last
  <1>4. Last(st) \in Source
    BY <1>1, <1>2, <1>3, ElementOfSeq
  <1>5. Last(st).next <= Len(Last(st).lines)
    BY <1>3 DEF IsStack
  <1>6. Last(st).kind = "lup" => IsLoopOf(st[Len(st)], st[Len(st) - 1])
    BY <1>3 DEF IsStack
  <1> QED BY <1>2, <1>3, <1>4, <1>5, <1>6 DEF IsSource, IsLoopOf

(* A sequence without its last element. *)
LEMMA FrontOfASequence ==
    ASSUME NEW S, NEW seq \in Seq(S), Len(seq) >= 1
    PROVE  /\ Front(seq) \in Seq(S)
           /\ Len(Front(seq)) = Len(seq) - 1
           /\ DOMAIN Front(seq) = 1 .. Len(seq) - 1
           /\ \A i \in DOMAIN Front(seq) : Front(seq)[i] = seq[i]
  <1> DEFINE n == Len(seq) - 1
             fr == Front(seq)
  <1>1. n \in Nat /\ DOMAIN seq = 1 .. Len(seq) /\ Len(seq) \in Nat
    BY LenProperties, SMT
  <1>2. \A i \in 1 .. n : seq[i] \in S
    BY <1>1, ElementOfSeq, SMT
  <1>3. /\ fr \in Seq(S)
        /\ Len(fr) = n
        /\ \A i \in 1 .. n : fr[i] = seq[i]
    <2>1. /\ SubSeq(seq, 1, n) \in Seq(S)
          /\ Len(SubSeq(seq, 1, n)) = IF 1 <= n THEN n - 1 + 1 ELSE 0
          /\ \A i \in 1 .. n - 1 + 1 : SubSeq(seq, 1, n)[i] = seq[1 + i - 1]
      BY <1>1, <1>2, SubSeqProperties, SMT
    <2> QED BY <1>1, <2>1, SMT DEF Front
  <1>4. DOMAIN fr = 1 .. n
    BY <1>3, LenProperties
  <1> QED BY <1>3, <1>4

(* Elements of a stack without its top. *)
LEMMA FrontElements ==
    ASSUME NEW st, st \in Seq(Source), Len(st) >= 1
    PROVE  /\ Front(st) \in Seq(Source)
           /\ Len(Front(st)) = Len(st) - 1
           /\ DOMAIN Front(st) = 1 .. Len(st) - 1
           /\ \A i \in DOMAIN Front(st) : Front(st)[i] = st[i]
  BY FrontOfASequence

(* Popping leaves a stack. *)
LEMMA PoppedStack ==
    ASSUME NEW st, IsStack(st), st # <<>>
    PROVE  IsStack(Front(st))
  <1> DEFINE n == Len(st) - 1
             fr == Front(st)
  <1>1. st \in Seq(Source) /\ n \in Nat /\ DOMAIN st = 1 .. Len(st) /\ Len(st) \in Nat
    BY StackFacts, SMT DEF IsStack
  <1>3. /\ fr \in Seq(Source) /\ Len(fr) = n /\ DOMAIN fr = 1 .. n
        /\ \A i \in 1 .. n : fr[i] = st[i]
    BY <1>1, StackFacts, FrontElements
  <1> HIDE DEF fr
  <1>5. ASSUME NEW i \in DOMAIN fr
        PROVE  /\ i \in DOMAIN st /\ fr[i] = st[i]
               /\ i > 1 => fr[i - 1] = st[i - 1]
    BY <1>1, <1>3, SMT
  <1>6. \A i \in DOMAIN fr : fr[i].next <= Len(fr[i].lines)
    BY <1>5 DEF IsStack
  <1>7. ASSUME NEW i \in DOMAIN fr, fr[i].kind = "lup"
        PROVE  i > 1 /\ IsLoopOf(fr[i], fr[i - 1])
    <2>1. i > 1 /\ IsLoopOf(st[i], st[i - 1])
      BY <1>5, <1>7 DEF IsStack
    <2> QED BY <1>5, <2>1
  <1>8. IsStack(fr)
    BY <1>3, <1>6, <1>7 DEF IsStack
  <1> QED BY <1>8 DEF fr

(* The source on top may move, as long as it keeps its lines. *)
LEMMA MovedTop ==
    ASSUME NEW st, IsStack(st), st # <<>>,
           NEW s, IsSource(s), s.kind = Last(st).kind, s.lines = Last(st).lines,
           s.kind = "lup" => s.iterations >= 1
    PROVE  /\ IsStack([st EXCEPT ![Len(st)] = s])
           /\ [st EXCEPT ![Len(st)] = s] # <<>>
           /\ Last([st EXCEPT ![Len(st)] = s]) = s
  <1> DEFINE n == Len(st)
             mv == [st EXCEPT ![n] = s]
  <1>1. st \in Seq(Source) /\ n \in Nat /\ n >= 1 /\ DOMAIN st = 1 .. n /\ Last(st) = st[n]
    BY StackFacts DEF IsStack
  <1>2. n \in 1 .. Len(st) /\ s \in Source
    BY <1>1, SMT DEF IsSource
  <1>3. /\ mv \in Seq(Source) /\ Len(mv) = n
        /\ \A i \in 1 .. n : mv[i] = IF i = n THEN s ELSE st[i]
    BY <1>1, <1>2, ExceptSeq
  <1>4. DOMAIN mv = 1 .. n
    BY <1>3, LenProperties
  <1> HIDE DEF mv
  <1>5. mv # <<>> /\ Last(mv) = s
    <2>1. Len(<<>>) = 0 /\ n # 0 /\ n \in 1 .. n
      BY <1>1, EmptySeq, SMT
    <2>2. mv # <<>>
      BY <1>3, <2>1
    <2> QED BY <1>3, <2>1, <2>2 DEF Last
  <1>6. \A i \in DOMAIN mv : mv[i].next <= Len(mv[i].lines)
    BY <1>1, <1>3, <1>4 DEF IsStack, IsSource
  <1>7. ASSUME NEW i \in DOMAIN mv, mv[i].kind = "lup"
        PROVE  i > 1 /\ IsLoopOf(mv[i], mv[i - 1])
    <2>1. /\ i \in DOMAIN st
          /\ i > 1 => i - 1 \in 1 .. n /\ i - 1 # n
          /\ st[i].kind = mv[i].kind /\ st[i].lines = mv[i].lines
      <3>1. i \in 1 .. n /\ (i > 1 => i - 1 \in 1 .. n /\ i - 1 # n)
        BY <1>1, <1>4, SMT
      <3> QED BY <1>1, <1>3, <3>1
    <2>2. i > 1 /\ IsLoopOf(st[i], st[i - 1])
      BY <1>7, <2>1 DEF IsStack
    <2>3. mv[i - 1] = st[i - 1]
      BY <1>3, <2>1, <2>2
    <2>4. mv[i].iterations >= 1
      <3>1. CASE i = n
        BY <1>3, <1>4, <1>7, <3>1
      <3>2. CASE i # n
        BY <1>3, <1>4, <2>2, <3>2 DEF IsLoopOf
      <3> QED BY <3>1, <3>2
    <2> QED BY <2>1, <2>2, <2>3, <2>4 DEF IsLoopOf
  <1>8. IsStack(mv)
    BY <1>3, <1>6, <1>7 DEF IsStack
  <1> QED BY <1>5, <1>8 DEF mv

(* A loop may be pushed on the source it is from, and others on any.       *)
LEMMA PushedSource ==
    ASSUME NEW st, IsStack(st), st # <<>>, NEW s, IsSource(s),
           s.kind = "lup" => IsLoopOf(s, Last(st))
    PROVE  /\ IsStack(Append(st, s))
           /\ Append(st, s) # <<>>
  <1> DEFINE n == Len(st)
             ps == Append(st, s)
  <1>1. st \in Seq(Source) /\ n \in Nat /\ n >= 1 /\ DOMAIN st = 1 .. n /\ Last(st) = st[n]
    BY StackFacts DEF IsStack
  <1>2. s \in Source
    BY DEF IsSource
  <1>3. /\ ps \in Seq(Source) /\ ps # <<>> /\ Len(ps) = n + 1
        /\ \A i \in 1 .. n : ps[i] = st[i]
        /\ ps[n + 1] = s
    BY <1>1, <1>2, AppendProperties
  <1>4. DOMAIN ps = 1 .. n + 1
    BY <1>3, LenProperties
  <1> HIDE DEF ps
  <1>5. ASSUME NEW i \in DOMAIN ps, i # n + 1
        PROVE  /\ i \in DOMAIN st /\ ps[i] = st[i]
               /\ i > 1 => ps[i - 1] = st[i - 1]
    BY <1>1, <1>3, <1>4, <1>5, SMT
  <1>6. \A i \in DOMAIN ps : ps[i].next <= Len(ps[i].lines)
    BY <1>3, <1>5 DEF IsStack, IsSource
  <1>7. ASSUME NEW i \in DOMAIN ps, ps[i].kind = "lup"
        PROVE  i > 1 /\ IsLoopOf(ps[i], ps[i - 1])
    <2>1. CASE i = n + 1
      <3>1. n \in 1 .. n /\ (n + 1) - 1 = n /\ n + 1 > 1
        BY <1>1, SMT
      <3>2. ps[(n + 1) - 1] = Last(st) /\ ps[n + 1] = s
        BY <1>1, <1>3, <3>1
      <3> QED BY <1>7, <2>1, <3>1, <3>2
    <2>2. CASE i # n + 1
      <3>1. i > 1 /\ IsLoopOf(st[i], st[i - 1])
        BY <1>5, <1>7, <2>2 DEF IsStack
      <3> QED BY <1>5, <2>2, <3>1
    <2> QED BY <2>1, <2>2
  <1>8. IsStack(ps)
    BY <1>3, <1>6, <1>7 DEF IsStack
  <1> QED BY <1>3, <1>8 DEF ps

-----------------------------------------------------------------------------
(* Reading. *)

(* A line read from a source is one of its lines, or blank when there is   *)
(* none, and the source keeps its lines.                                   *)
LEMMA ReadingASource ==
    ASSUME NEW s, IsSource(s), s.kind = "lup" => s.iterations >= 1
    PROVE  /\ IsSource(Advanced(s))
           /\ Advanced(s).kind = s.kind /\ Advanced(s).lines = s.lines
           /\ s.kind = "lup" => Advanced(s).iterations >= 1
           /\ NextLine(s) \in Line
           /\ NextLine(s) = Blank \/ IsLastRead(NextLine(s), Advanced(s))
  <1> DEFINE r == Rewound(s)
  <1>1. s \in Source /\ s.next <= Len(s.lines) /\ s.lines \in Seq(Line)
        /\ s.next \in Nat /\ s.iterations \in Nat /\ Len(s.lines) \in Nat
    BY SourceFields DEF IsSource
  <1>2. /\ IsSource(r) /\ r.kind = s.kind /\ r.lines = s.lines
        /\ s.kind = "lup" => r.iterations >= 1
    <2>1. CASE ShouldStartNextIteration(s)
      <3> DEFINE n == s.iterations - 1
      <3>1. r = [s EXCEPT !.next = 0, !.iterations = n] /\ s.iterations > 1
        BY <2>1 DEF Rewound, ShouldStartNextIteration
      <3>2. n \in Nat /\ n >= 1
        BY <1>1, <3>1, SMT
      <3> HIDE DEF r, n
      <3>3. /\ r \in Source /\ r.next = 0 /\ r.kind = s.kind /\ r.lines = s.lines
            /\ r.iterations = n
        BY <1>1, <3>1, <3>2, RestartedSource
      <3>4. r.next <= Len(r.lines)
        BY <1>1, <3>3, SMT
      <3> QED BY <3>2, <3>3, <3>4 DEF IsSource
    <2>2. CASE ~ShouldStartNextIteration(s)
      <3>1. r = s
        BY <2>2 DEF Rewound
      <3> QED BY <3>1
    <2> QED BY <2>1, <2>2
  <1> HIDE DEF r
  <1>3. r \in Source /\ r.next <= Len(r.lines) /\ r.next \in Nat /\ Len(r.lines) \in Nat
        /\ r.lines \in Seq(Line)
    BY <1>2, SourceFields DEF IsSource
  <1>4. Advanced(s) = Consumed(r) /\ NextLine(s) = TextLine(r)
    BY DEF r, Advanced, NextLine
  <1>5. CASE IsTextAtEnd(r)
    <2>1. Consumed(r) = r /\ TextLine(r) = Blank
      BY <1>5 DEF Consumed, TextLine
    <2> QED BY <1>2, <1>4, <2>1, BlankIsALine
  <1>6. CASE ~IsTextAtEnd(r)
    <2>1. r.next + 1 \in Nat /\ r.next + 1 <= Len(r.lines) /\ r.next + 1 >= 1
          /\ r.next + 1 \in 1 .. Len(r.lines)
      BY <1>3, <1>6, SMT DEF IsTextAtEnd
    <2>2. Consumed(r) = [r EXCEPT !.next = r.next + 1] /\ TextLine(r) = r.lines[r.next + 1]
      BY <1>6 DEF Consumed, TextLine
    <2>3. TextLine(r) \in Line
      BY <1>3, <2>1, <2>2, ElementOfSeq
    <2>4. /\ IsSource(Consumed(r)) /\ Consumed(r).kind = r.kind
          /\ Consumed(r).lines = r.lines /\ Consumed(r).next = r.next + 1
          /\ Consumed(r).iterations = r.iterations
      BY <1>3, <2>1, <2>2, MovedSource
    <2>5. IsLastRead(TextLine(r), Consumed(r))
      <3>1. r.next + 1 >= 1
        BY <2>1
      <3> QED BY <2>2, <2>4, <3>1, Zenon DEF IsLastRead
    <2> QED BY <1>2, <1>4, <2>1, <2>3, <2>4, <2>5
  <1> QED BY <1>5, <1>6

LEMMA LeastNumber ==
    ASSUME NEW S \in SUBSET Nat, S # {} PROVE \E x \in S : \A y \in S : x <= y
  <1>1. IsWellFoundedOn(OpToRel(<, Nat), Nat)
    BY NatLessThanWellFounded
  <1>2. PICK x \in S : \A y \in S : ~(<<y, x>> \in OpToRel(<, Nat))
    BY <1>1, WFMin
  <1>3. \A y \in S : ~(y < x)
    BY <1>2 DEF OpToRel
  <1> QED BY <1>3, SMT

IsFirstOf(ops, e) ==
    /\ e \in Top.next + 1 .. Len(Top.lines) + 1
    /\ e <= Len(Top.lines) => Top.lines[e].op \in ops
    /\ \A i \in Top.next + 1 .. e - 1 : Top.lines[i].op \notin ops

(* The search for the end of a loop or a macro has one result.             *)
LEMMA FirstExists ==
    ASSUME IsSource(Top), NEW ops
    PROVE  /\ IsFirstOf(ops, FirstOf(ops))
           /\ FirstOf(ops) \in Nat /\ FirstOf(ops) >= Top.next + 1
           /\ FirstOf(ops) <= Len(Top.lines) + 1
  <1> DEFINE a == Top.next + 1
             n == Len(Top.lines)
             S == {i \in Nat : a <= i /\ i <= n /\ Top.lines[i].op \in ops}
  <1>1. Top.next \in Nat /\ n \in Nat /\ Top.next <= n
    BY SourceFields DEF IsSource
  <1>2. \E e \in a .. n + 1 : /\ e <= n => Top.lines[e].op \in ops
                              /\ \A i \in a .. e - 1 : Top.lines[i].op \notin ops
    <2>1. CASE S = {}
      <3>1. n + 1 \in a .. n + 1 /\ ~(n + 1 <= n)
        BY <1>1, SMT
      <3>2. ASSUME NEW i \in a .. (n + 1) - 1 PROVE Top.lines[i].op \notin ops
        <4>1. i \in Nat /\ a <= i /\ i <= n
          BY <1>1, <3>2, SMT
        <4> QED BY <2>1, <4>1
      <3> QED BY <3>1, <3>2
    <2>2. CASE S # {}
      <3>1. PICK e \in S : \A y \in S : e <= y
        BY <2>2, LeastNumber
      <3>2. e \in Nat /\ a <= e /\ e <= n /\ Top.lines[e].op \in ops
        BY <3>1
      <3>3. e \in a .. n + 1
        BY <1>1, <3>2, SMT
      <3>4. ASSUME NEW i \in a .. e - 1 PROVE Top.lines[i].op \notin ops
        <4>1. i \in Nat /\ a <= i /\ i <= n /\ ~(e <= i)
          BY <1>1, <3>2, <3>4, SMT
        <4>2. i \notin S
          BY <3>1, <4>1
        <4> QED BY <4>1, <4>2
      <3> QED BY <3>2, <3>3, <3>4
    <2> QED BY <2>1, <2>2
  <1>3. IsFirstOf(ops, FirstOf(ops))
    BY <1>2, Zenon DEF IsFirstOf, FirstOf
  <1>4. FirstOf(ops) \in a .. n + 1
    BY <1>3 DEF IsFirstOf
  <1> QED BY <1>1, <1>3, <1>4, SMT

(* The lines in front of a place form a text. *)
LEMMA LinesInFrontOf ==
    ASSUME NEW ls \in Seq(Line), NEW n \in Nat, NEW e \in Nat,
           n + 1 <= e, e <= Len(ls) + 1
    PROVE  /\ SubSeq(ls, n + 1, e - 1) \in Seq(Line)
           /\ Len(SubSeq(ls, n + 1, e - 1)) = e - 1 - n
  <1>1. n + 1 \in Int /\ e - 1 \in Int /\ Len(ls) \in Nat
    BY LenProperties, SMT
  <1>2. \A i \in n + 1 .. e - 1 : ls[i] \in Line
    <2>1. \A i \in n + 1 .. e - 1 : i \in 1 .. Len(ls)
      BY <1>1, SMT
    <2> QED BY <2>1, ElementOfSeq
  <1>3. /\ SubSeq(ls, n + 1, e - 1) \in Seq(Line)
        /\ Len(SubSeq(ls, n + 1, e - 1))
              = IF n + 1 <= e - 1 THEN (e - 1) - (n + 1) + 1 ELSE 0
    BY <1>1, <1>2, SubSeqProperties
  <1> QED BY <1>3, SMT

-----------------------------------------------------------------------------
(* What IInv says of a state that is not an end, and what a step has to    *)
(* leave for it to hold again.                                             *)

MacroTexts == [Macros -> Seq(Line) \cup {NoMacro}]
Waiting == [Symbols -> Seq(Line)]
Places == {"read", "line", "label", "update", "push", "done", "aborted", "crashed"}

(* All but the stack. *)
RestOK ==
    /\ texts \in [Files -> Seq(Line)] /\ current \in Line /\ macros \in MacroTexts
    /\ seenLUP \in BOOLEAN /\ failed \in BOOLEAN /\ covered \in BOOLEAN
    /\ symbols \in [Symbols -> {"undefined", "forward", "final"}]
    /\ waiting \in Waiting
    /\ updates \in Seq(Update)
    /\ phase \in Places
    /\ UpdatesReturn

LEMMA StackIsAStack == TypeOK /\ LoopsResumeAtTheirEnd => IsStack(stack)
  BY DEF TypeOK, LoopsResumeAtTheirEnd, IsStack

LEMMA RestIsOK == IInv => RestOK
  BY DEF IInv, TypeOK, RestOK, MacroTexts, Waiting, Places

LEMMA WhileReading ==
    ASSUME IInv, phase # "done"
    PROVE  /\ IsStack(stack) /\ stack # <<>>
           /\ IsSource(Top)
           /\ Top.kind = "lup" => Top.iterations >= 1
           /\ texts \in [Files -> Seq(Line)] /\ current \in Line
           /\ macros \in MacroTexts
           /\ RestOK
  <1>1. IsStack(stack) /\ stack # <<>>
    BY StackIsAStack DEF IInv, TypeOK
  <1>2. IsSource(Top) /\ (Top.kind = "lup" => Top.iterations >= 1)
    BY <1>1, StackFacts DEF Top
  <1> QED BY <1>1, <1>2, RestIsOK DEF RestOK

LEMMA BothAreOK ==
    ASSUME IsStack(stack'), phase' # "done" => stack' # <<>>, RestOK'
    PROVE  IInv'
  <1>1. TypeOK'
    BY DEF TypeOK, IsStack, RestOK, MacroTexts, Waiting, Places
  <1>2. LoopsResumeAtTheirEnd'
    BY DEF IsStack, LoopsResumeAtTheirEnd
  <1> QED BY <1>1, <1>2 DEF IInv, RestOK

LEMMA UpdateFields ==
    ASSUME IInv, NEW i \in DOMAIN updates
    PROVE  /\ updates[i] \in Update
           /\ updates[i].symbol \in Symbols /\ updates[i].line \in Line
           /\ updates[i].phase \in {"read", "update", "push"}
  <1>1. updates[i] \in Update
    BY ElementOfSeq, LenProperties DEF IInv, TypeOK
  <1> QED BY <1>1 DEF Update

(* The innermost update. *)
LEMMA LastUpdate ==
    ASSUME IInv, updates # <<>>
    PROVE  /\ Len(updates) \in Nat /\ Len(updates) >= 1
           /\ DOMAIN updates = 1 .. Len(updates) /\ Len(updates) \in DOMAIN updates
           /\ Last(updates) = updates[Len(updates)]
           /\ Last(updates).symbol \in Symbols /\ Last(updates).line \in Line
           /\ Last(updates).phase \in {"read", "update", "push"}
           /\ Front(updates) \in Seq(Update)
           /\ Len(Front(updates)) = Len(updates) - 1
           /\ DOMAIN Front(updates) = 1 .. Len(updates) - 1
           /\ \A i \in DOMAIN Front(updates) :
                  i \in DOMAIN updates /\ Front(updates)[i] = updates[i]
  <1>1. updates \in Seq(Update)
    BY DEF IInv, TypeOK
  <1>2. Len(updates) \in Nat /\ Len(updates) >= 1 /\ DOMAIN updates = 1 .. Len(updates)
    BY <1>1, LenProperties, EmptySeq, SMT
  <1>3. Len(updates) \in DOMAIN updates /\ Last(updates) = updates[Len(updates)]
    BY <1>2, SMT DEF Last
  <1>4. /\ Front(updates) \in Seq(Update)
        /\ Len(Front(updates)) = Len(updates) - 1
        /\ DOMAIN Front(updates) = 1 .. Len(updates) - 1
        /\ \A i \in DOMAIN Front(updates) : Front(updates)[i] = updates[i]
    BY <1>1, <1>2, FrontOfASequence
  <1>5. \A i \in 1 .. Len(updates) - 1 : i \in 1 .. Len(updates)
    BY <1>2, SMT
  <1>6. /\ Last(updates).symbol \in Symbols /\ Last(updates).line \in Line
        /\ Last(updates).phase \in {"read", "update", "push"}
    BY <1>3, UpdateFields
  <1> QED BY <1>2, <1>3, <1>4, <1>5, <1>6

LEMMA AppendedUpdate ==
    ASSUME IInv, NEW u \in Update
    PROVE  /\ Append(updates, u) \in Seq(Update)
           /\ Append(updates, u) # <<>>
           /\ Last(Append(updates, u)) = u
           /\ Len(updates) \in Nat
           /\ DOMAIN updates = 1 .. Len(updates)
           /\ DOMAIN Append(updates, u) = 1 .. Len(updates) + 1
           /\ Len(Append(updates, u)) = Len(updates) + 1
           /\ Append(updates, u)[Len(updates) + 1] = u
           /\ \A i \in DOMAIN updates : Append(updates, u)[i] = updates[i]
           /\ \A i \in DOMAIN Append(updates, u) :
                  i = Len(updates) + 1 \/ i \in DOMAIN updates
  <1>1. updates \in Seq(Update)
    BY DEF IInv, TypeOK
  <1>2. PICK n \in Nat : n = Len(updates) /\ DOMAIN updates = 1 .. n
    BY <1>1, LenProperties
  <1>3. PICK up : up = Append(updates, u)
    OBVIOUS
  <1>4. /\ up \in Seq(Update) /\ up # <<>> /\ Len(up) = n + 1
        /\ \A i \in 1 .. n : up[i] = updates[i]
        /\ up[n + 1] = u
    BY <1>1, <1>2, <1>3, AppendProperties
  <1>5. DOMAIN up = 1 .. n + 1 /\ Last(up) = u
    BY <1>4, LenProperties DEF Last
  <1>6. \A i \in 1 .. n + 1 : i = n + 1 \/ i \in 1 .. n
    BY SMT
  <1> QED BY <1>2, <1>3, <1>4, <1>5, <1>6, Zenon

(* Lines in front of a symbol's lines, and without the first. *)
LEMMA ReferencedIsWaiting ==
    ASSUME waiting \in Waiting, NEW l \in Line
    PROVE  Referenced(l) \in Waiting
  <1>1. CASE l.uses = NoSymbol \/ symbols[l.uses] # "undefined"
    BY <1>1 DEF Referenced
  <1>2. CASE ~(l.uses = NoSymbol \/ symbols[l.uses] # "undefined")
    <2>1. l.uses \in Symbols
      BY <1>2, LineFields
    <2>2. PICK ls : ls = <<l>> \o waiting[l.uses]
      OBVIOUS
    <2>3. ls \in Seq(Line)
      <3>1. <<l>> \in Seq(Line) /\ waiting[l.uses] \in Seq(Line)
        BY <2>1 DEF Waiting
      <3> QED BY <2>2, <3>1, ConcatProperties
    <2>4. Referenced(l) = [waiting EXCEPT ![l.uses] = ls]
      BY <1>2, <2>2, Zenon DEF Referenced
    <2> QED BY <2>3, <2>4, Zenon DEF Waiting
  <1> QED BY <1>1, <1>2

LEMMA TakenFromWaiting ==
    ASSUME waiting \in Waiting, NEW s \in Symbols, waiting[s] # <<>>
    PROVE  /\ Head(waiting[s]) \in Line
           /\ [waiting EXCEPT ![s] = Tail(@)] \in Waiting
  <1>1. waiting[s] \in Seq(Line)
    BY DEF Waiting
  <1>2. Head(waiting[s]) \in Line /\ Tail(waiting[s]) \in Seq(Line)
    BY <1>1, HeadTailProperties
  <1> QED BY <1>2, Zenon DEF Waiting

(* No step that goes on with a line takes a macro away. *)
MacrosStay == \A m \in Macros : macros[m] # NoMacro => macros'[m] = macros[m]

LEMMA CallsStay ==
    ASSUME MacrosStay, NEW line \in Line, IsKnownCall(line)
    PROVE  line.op = "call" /\ macros'[line.macro] # NoMacro
  BY LineFields DEF MacrosStay, IsKnownCall

LEMMA LineIsAssembled ==
    ASSUME IInv, phase \in {"line", "push"},
           phase' = Returned \/ phase' = Resumed,
           phase' = "label" => ~current.own,
           texts' = texts, current' = current, symbols' = symbols, updates' = updates,
           macros' \in MacroTexts, MacrosStay, waiting' \in Waiting,
           seenLUP' \in BOOLEAN, failed' \in BOOLEAN, covered' \in BOOLEAN
    PROVE  RestOK'
  <1>1. RestOK
    BY RestIsOK
  <1>2. /\ phase' \in {"read", "label", "update"}
        /\ phase' \in {"read", "label"} => updates = <<>>
        /\ phase' = "update" => updates # <<>>
        /\ phase' = "label" => current.label # NoSymbol
    BY Zenon DEF Returned, Resumed
  <1>3. phase' = "label" => current.label \in Symbols
    BY <1>1, <1>2, LineFields DEF RestOK
  <1>4. \A i \in DOMAIN updates : updates[i].phase = "push" =>
            updates[i].line.op = "call" /\ macros'[updates[i].line.macro] # NoMacro
    BY UpdateFields, CallsStay DEF IInv, UpdatesReturn
  <1>5. UpdatesReturn'
    BY <1>2, <1>3, <1>4 DEF IInv, UpdatesReturn, IsKnownCall
  <1> QED BY <1>1, <1>2, <1>5 DEF RestOK, Places

LEMMA SymbolIsDefined ==
    ASSUME IInv, NEW s \in Symbols, NEW v \in {"forward", "final"},
           NEW next \in {"read", "update", "push"},
           Define(s, v, next),
           next = "read" => updates = <<>>,
           next = "update" => updates # <<>>,
           next = "push" => IsKnownCall(current),
           texts' = texts, current' = current, macros' = macros, seenLUP' = seenLUP,
           failed' = failed, covered' = covered, waiting' \in Waiting
    PROVE  RestOK'
  <1>1. RestOK
    BY RestIsOK
  <1>2. symbols' \in [Symbols -> {"undefined", "forward", "final"}]
    BY <1>1, Zenon DEF RestOK, Define
  <1>3. CASE v = "final"
    <2>1. PICK u : u = [symbol |-> s, line |-> current, phase |-> next]
      OBVIOUS
    <2>2. u \in Update /\ u.line = current /\ u.phase = next
      BY <1>1, <2>1 DEF RestOK, Update
    <2>3. updates' = Append(updates, u) /\ phase' = "update"
      BY <1>3, <2>1, Zenon DEF Define
    <2>4. /\ updates' \in Seq(Update) /\ updates' # <<>>
          /\ updates'[Len(updates) + 1] = u
          /\ \A i \in DOMAIN updates : updates'[i] = updates[i]
          /\ \A i \in DOMAIN updates' : i = Len(updates) + 1 \/ i \in DOMAIN updates
      BY <2>2, <2>3, AppendedUpdate, Zenon
    <2>5. Len(updates) \in Nat /\ (updates # <<>> => Len(updates) >= 1)
          /\ (updates = <<>> => Len(updates) + 1 = 1)
      <3>1. updates \in Seq(Update)
        BY <1>1 DEF RestOK
      <3> QED BY <3>1, EmptySeq, LenProperties, SMT
    <2>6. Len(updates) >= 1 => Len(updates) + 1 > 1
      BY <2>5, SMT
    <2>7. ASSUME NEW i \in DOMAIN updates'
          PROVE  /\ updates'[i].phase = "read" => i = 1
                 /\ updates'[i].phase = "update" => i > 1
                 /\ updates'[i].phase = "push" => IsKnownCall(updates'[i].line)
      <3>1. CASE i = Len(updates) + 1
        BY <2>2, <2>4, <2>5, <2>6, <3>1, Zenon
      <3>2. CASE i \in DOMAIN updates
        BY <2>4, <3>2, Zenon DEF IInv, UpdatesReturn
      <3> QED BY <2>4, <2>7, <3>1, <3>2
    <2>8. UpdatesReturn'
      BY <2>3, <2>4, <2>7 DEF UpdatesReturn, IsKnownCall
    <2> QED BY <1>1, <1>2, <2>3, <2>4, <2>8 DEF RestOK, Places
  <1>4. CASE v # "final"
    <2>1. updates' = updates /\ phase' = next
      BY <1>4, Zenon DEF Define
    <2>2. UpdatesReturn'
      BY <2>1 DEF IInv, UpdatesReturn, IsKnownCall
    <2> QED BY <1>1, <1>2, <2>1, <2>2 DEF RestOK, Places
  <1> QED BY <1>3, <1>4

(* A step that leaves the stack alone. *)
LEMMA StackUntouched ==
    ASSUME IInv, phase # "done", stack' = stack, RestOK'
    PROVE  IInv'
  BY WhileReading, BothAreOK

LEMMA PopKeepsStack ==
    ASSUME IInv, phase = "read" PROVE IsStack(Popped)
  <1>1. IsStack(stack) /\ stack # <<>>
    BY WhileReading
  <1>2. IsStack(Front(stack))
    BY <1>1, PoppedStack
  <1> QED BY <1>1, <1>2 DEF Popped, StackPop

-----------------------------------------------------------------------------
(* One lemma for each action that touches the stack. *)

LEMMA ReadLineKeeps == ASSUME IInv, ReadLine PROVE IInv'
  <1> DEFINE p == Popped
             s == Last(Popped)
  <1>1. IsStack(p) /\ p # <<>> /\ phase = "read"
    BY PopKeepsStack DEF ReadLine, HasLine
  <1>2. /\ Last(p) = p[Len(p)] /\ IsSource(s) /\ (s.kind = "lup" => s.iterations >= 1)
        /\ Len(p) \in Nat /\ DOMAIN p = 1 .. Len(p)
    BY <1>1, StackFacts
  <1>3. /\ IsSource(Advanced(s))
        /\ Advanced(s).kind = s.kind /\ Advanced(s).lines = s.lines
        /\ s.kind = "lup" => Advanced(s).iterations >= 1
        /\ NextLine(s) \in Line
    BY <1>2, ReadingASource
  <1>4. stack' = [p EXCEPT ![Len(p)] = Advanced(s)]
    <2>1. stack' = [p EXCEPT ![Len(p)] = Advanced(@)]
      BY DEF ReadLine
    <2> QED BY <1>2, <2>1
  <1> HIDE DEF p, s
  <1>5. IsStack(stack') /\ stack' # <<>>
    <2>1. s = Last(p)
      BY DEF p, s
    <2> QED BY <1>1, <1>3, <1>4, <2>1, MovedTop
  <1>6. /\ texts' = texts /\ current' = NextLine(s) /\ phase' = "line"
        /\ macros' = macros /\ seenLUP' = seenLUP /\ failed' = failed
        /\ symbols' = symbols /\ waiting' = waiting /\ updates' = updates
        /\ covered' = covered
    BY DEF ReadLine, s
  <1>7. RestOK /\ UpdatesReturn
    BY RestIsOK DEF RestOK
  <1>8. UpdatesReturn'
    BY <1>6, <1>7 DEF UpdatesReturn, IsKnownCall
  <1>9. RestOK'
    BY <1>3, <1>6, <1>7, <1>8 DEF RestOK, Places
  <1> QED BY <1>5, <1>9, BothAreOK

LEMMA EndOfSourceKeeps == ASSUME IInv, EndOfSource PROVE IInv'
  <1>1. /\ phase = "read" /\ phase' = "done" /\ stack' = Popped
        /\ texts' = texts /\ current' = current
        /\ macros' = macros /\ seenLUP' = seenLUP /\ failed' \in BOOLEAN
        /\ symbols' = symbols /\ waiting' = waiting /\ updates' = updates
        /\ covered' = covered
    BY DEF EndOfSource
  <1>2. IsStack(stack')
    BY <1>1, PopKeepsStack
  <1>3. RestOK /\ UpdatesReturn
    BY RestIsOK DEF RestOK
  <1>4. UpdatesReturn'
    BY <1>1, <1>3 DEF UpdatesReturn, IsKnownCall
  <1>5. RestOK'
    BY <1>1, <1>3, <1>4 DEF RestOK, Places
  <1> QED BY <1>1, <1>2, <1>5, BothAreOK

(* A source is pushed that is no loop. *)
LEMMA PushKeeps ==
    ASSUME IInv, phase # "done", NEW s, IsSource(s), s.kind # "lup", Push(s), RestOK'
    PROVE  IInv'
  <1>1. stack' = Append(stack, s)
    BY Zenon DEF Push
  <1>2. IsStack(stack) /\ stack # <<>>
    BY WhileReading
  <1>3. IsStack(stack') /\ stack' # <<>>
    BY <1>1, <1>2, PushedSource
  <1> QED BY <1>3, BothAreOK

LEMMA CoveredIsBoolean ==
    ASSUME RestOK, NEW s PROVE (covered \/ Covers(s)) \in BOOLEAN
  BY Zenon DEF RestOK, Covers

(* The source a PUT pushes. *)
LEMMA PutSource ==
    ASSUME NEW ls \in Seq(Line), NEW c \in Nat
    PROVE  LET s == [NewSource("file", ls, 1) EXCEPT !.next = Skip(ls, c)]
           IN  /\ IsSource(s) /\ s.kind = "file" /\ s.lines = ls
               /\ s.next = Skip(ls, c) /\ Skip(ls, c) \in Nat
  <1> DEFINE new == NewSource("file", ls, 1)
             n == Skip(ls, c)
             s == [new EXCEPT !.next = n]
  <1>1. Len(ls) \in Nat
    BY LenProperties
  <1>2. n \in Nat /\ n <= Len(ls)
    BY <1>1, SMT DEF Skip
  <1>3. new \in Source /\ new.kind = "file" /\ new.lines = ls
    BY NewSourceIsASource DEF IsSource
  <1> HIDE DEF n, new
  <1>4. IsSource(s) /\ s.kind = "file" /\ s.lines = ls /\ s.next = n
    BY <1>2, <1>3, MovedSource
  <1> QED BY <1>2, <1>4 DEF n, new

LEMMA CountsAreNumbers ==
    ASSUME current \in Line PROVE SkipCount \in Nat /\ LoopCount \in Nat
  BY LineFields DEF SkipCount, LoopCount

LEMMA PutKeeps == ASSUME IInv, HandlePUT PROVE IInv'
  <1> DEFINE ls == texts[current.file]
             s == [NewSource("file", ls, 1) EXCEPT !.next = Skip(ls, SkipCount)]
  <1>1. /\ phase = "line" /\ phase' = Returned /\ texts' = texts /\ current' = current
        /\ symbols' = symbols /\ updates' = updates
        /\ current.op = "put" /\ ~current.bad
        /\ waiting' = Referenced(current)
        /\ Push(s)
        /\ macros' = macros /\ seenLUP' = seenLUP /\ failed' = failed
    BY Zenon DEF HandlePUT, Assemble
  <1>2. /\ current \in Line /\ texts \in [Files -> Seq(Line)] /\ RestOK
        /\ waiting \in Waiting /\ macros \in MacroTexts
        /\ seenLUP \in BOOLEAN /\ failed \in BOOLEAN
    BY <1>1, WhileReading DEF RestOK
  <1>3. ls \in Seq(Line) /\ SkipCount \in Nat /\ ~current.own
    BY <1>1, <1>2, LineFields, CountsAreNumbers
  <1>4. IsSource(s) /\ s.kind = "file"
    BY <1>3, PutSource
  <1> HIDE DEF s, ls
  <1>5. covered' \in BOOLEAN
    BY <1>1, <1>2, CoveredIsBoolean DEF Push
  <1>6. MacrosStay /\ waiting' \in Waiting
    BY <1>1, <1>2, ReferencedIsWaiting DEF MacrosStay
  <1>7. RestOK'
    BY <1>1, <1>2, <1>3, <1>5, <1>6, LineIsAssembled
  <1> QED BY <1>1, <1>4, <1>7, PushKeeps

LEMMA CallKeeps == ASSUME IInv, HandleMacroExpansion PROVE IInv'
  <1> DEFINE ls == macros[current.macro]
             s == NewSource("macro", ls, 1)
  <1>1. /\ phase = "push" /\ phase' = Returned /\ texts' = texts /\ current' = current
        /\ symbols' = symbols /\ updates' = updates /\ waiting' = waiting
        /\ Push(s)
        /\ macros' = macros /\ seenLUP' = seenLUP /\ failed' = failed
    BY Zenon DEF HandleMacroExpansion, FindMacroDefinition
  <1>2. /\ current \in Line /\ RestOK
        /\ waiting \in Waiting /\ macros \in MacroTexts
        /\ seenLUP \in BOOLEAN /\ failed \in BOOLEAN
    BY <1>1, WhileReading DEF RestOK
  <1>3. current.op = "call" /\ ls # NoMacro
    BY <1>1 DEF IInv, UpdatesReturn, IsKnownCall
  <1>4. ls \in Seq(Line) /\ ~current.own
    BY <1>2, <1>3, LineFields DEF MacroTexts
  <1> HIDE DEF ls
  <1>5. IsSource(s) /\ s.kind = "macro"
    BY <1>4, NewSourceIsASource
  <1> HIDE DEF s
  <1>6. covered' \in BOOLEAN /\ MacrosStay
    BY <1>1, <1>2, CoveredIsBoolean DEF Push, MacrosStay
  <1>7. RestOK'
    BY <1>1, <1>2, <1>4, <1>6, LineIsAssembled
  <1> QED BY <1>1, <1>5, <1>7, PushKeeps

(* What a LUP with its --^ at e does to the stack. *)
LupStack(e) == Append(AdvanceTo(e), LoopSource(e))

(* The lines between the LUP and its --^ become the loop, and the source   *)
(* below goes on at the --^.                                               *)
LEMMA LoopIsCutOut ==
    ASSUME IsStack(stack), stack # <<>>, current \in Line, LoopCount >= 1,
           NEW e, e = FirstOf({"lupend"}), e <= Len(Top.lines)
    PROVE  /\ IsStack(AdvanceTo(e)) /\ AdvanceTo(e) # <<>>
           /\ Last(AdvanceTo(e)) = [Top EXCEPT !.next = e - 1]
           /\ IsSource([Top EXCEPT !.next = e - 1])
           /\ [Top EXCEPT !.next = e - 1].kind = Top.kind
           /\ [Top EXCEPT !.next = e - 1].lines = Top.lines
           /\ ~IsTextAtEnd([Top EXCEPT !.next = e - 1])
           /\ IsSource(LoopSource(e)) /\ LoopSource(e).kind = "lup"
           /\ LoopSource(e).lines = LoopText(e)
           /\ LoopSource(e).iterations = LoopCount
           /\ LoopSource(e).next = 0
           /\ LoopText(e) \in Seq(Line) /\ Len(LoopText(e)) = e - 1 - Top.next
           /\ IsStack(LupStack(e)) /\ LupStack(e) # <<>>
  <1> DEFINE base == [Top EXCEPT !.next = e - 1]
             moved == [stack EXCEPT ![Len(stack)] = base]
             text == LoopText(e)
             loop == LoopSource(e)
  <1>1. IsSource(Top) /\ (Top.kind = "lup" => Top.iterations >= 1)
    BY StackFacts DEF Top
  <1>2. LoopCount \in Nat
    BY CountsAreNumbers
  <1>3. /\ Top \in Source /\ Top.next \in Nat /\ Top.lines \in Seq(Line)
        /\ Top.next <= Len(Top.lines) /\ Len(Top.lines) \in Nat
    BY <1>1, SourceFields DEF IsSource
  <1>4. /\ e \in Nat /\ e >= Top.next + 1
        /\ Top.lines[e].op = "lupend"
    <2>1. IsFirstOf({"lupend"}, e) /\ e \in Nat /\ e >= Top.next + 1
      BY <1>1, FirstExists
    <2> QED BY <2>1 DEF IsFirstOf
  <1>5. e - 1 \in Nat /\ e - 1 < Len(Top.lines) /\ e - 1 <= Len(Top.lines)
        /\ e <= Len(Top.lines) + 1 /\ (e - 1) + 1 = e /\ e - 1 # Len(Top.lines)
    BY <1>3, <1>4, SMT
  <1>6. /\ IsSource(base) /\ base.kind = Top.kind /\ base.lines = Top.lines
        /\ base.next = e - 1 /\ base.iterations = Top.iterations
    BY <1>3, <1>5, MovedSource
  <1>7. text \in Seq(Line) /\ Len(text) = e - 1 - Top.next
        /\ text = SubSeq(Top.lines, Top.next + 1, e - 1)
    BY <1>3, <1>4, <1>5, LinesInFrontOf DEF LoopText
  <1>8. /\ IsSource(loop) /\ loop.kind = "lup" /\ loop.lines = text
        /\ loop.iterations = LoopCount /\ loop.next = 0
    <2>1. loop = NewSource("lup", text, LoopCount)
      BY DEF LoopSource
    <2>2. text \in Seq(Line) /\ LoopCount \in Nat
      BY <1>2, <1>7
    <2> HIDE DEF text, loop
    <2>3. \A ls \in Seq(Line) : \A n \in Nat :
            LET new == NewSource("lup", ls, n)
            IN  /\ IsSource(new) /\ new.kind = "lup" /\ new.lines = ls
                /\ new.iterations = n /\ new.next = 0
      BY NewSourceIsASource
    <2> QED BY <2>1, <2>2, <2>3, Zenon
  <1>9. AdvanceTo(e) = moved /\ LupStack(e) = Append(moved, loop)
    BY DEF AdvanceTo, SetTop, LupStack
  <1>10. ~IsTextAtEnd(base)
    BY <1>5, <1>6 DEF IsTextAtEnd
  <1> HIDE DEF base, text, loop
  <1>11. IsStack(moved) /\ moved # <<>> /\ Last(moved) = base
    <2>1. Top = Last(stack)
      BY DEF Top
    <2> QED BY <1>1, <1>6, <2>1, MovedTop
  <1> HIDE DEF moved
  <1>12. IsLoopOf(loop, base)
    <2>1. base.next < Len(base.lines) /\ base.lines[base.next + 1].op = "lupend"
      BY <1>4, <1>5, <1>6
    <2>2. Len(loop.lines) <= base.next /\ base.next - Len(loop.lines) + 1 = Top.next + 1
      BY <1>3, <1>4, <1>6, <1>7, <1>8, SMT
    <2>3. loop.lines = SubSeq(base.lines, base.next - Len(loop.lines) + 1, base.next)
      BY <1>6, <1>7, <1>8, <2>2
    <2> QED BY <1>8, <2>1, <2>2, <2>3 DEF IsLoopOf
  <1>13. IsStack(LupStack(e)) /\ LupStack(e) # <<>>
    BY <1>8, <1>9, <1>11, <1>12, PushedSource
  <1> QED BY <1>6, <1>7, <1>8, <1>9, <1>10, <1>11, <1>13 DEF base, text, loop

LEMMA LupKeeps == ASSUME IInv, HandleLUP PROVE IInv'
  <1> DEFINE e == FirstOf({"lupend"})
  <1>1. /\ phase = "line" /\ phase' = Returned /\ texts' = texts /\ current' = current
        /\ symbols' = symbols /\ updates' = updates
        /\ current.op = "lup" /\ LoopCount >= 1
        /\ waiting' = Referenced(current)
        /\ e <= Len(Top.lines)
        /\ stack' = LupStack(e)
        /\ covered' = (covered \/ Covers(LoopSource(e)))
        /\ macros' = macros /\ seenLUP' = TRUE /\ failed' = failed
    BY Zenon DEF HandleLUP, Assemble, IsInRange, LupStack
  <1>2. /\ IsStack(stack) /\ stack # <<>> /\ current \in Line /\ RestOK
        /\ waiting \in Waiting /\ macros \in MacroTexts /\ failed \in BOOLEAN
    BY <1>1, WhileReading DEF RestOK
  <1>3. IsStack(stack') /\ stack' # <<>>
    BY <1>1, <1>2, LoopIsCutOut
  <1>4. /\ covered' \in BOOLEAN /\ MacrosStay /\ waiting' \in Waiting /\ ~current.own
        /\ seenLUP' \in BOOLEAN
    BY <1>1, <1>2, CoveredIsBoolean, ReferencedIsWaiting, LineFields DEF MacrosStay
  <1>5. RestOK'
    BY <1>1, <1>2, <1>4, LineIsAssembled
  <1> QED BY <1>3, <1>5, BothAreOK

LEMMA MacKeeps == ASSUME IInv, HandleMAC PROVE IInv'
  <1> DEFINE e == FirstOf({"mac", "macend"})
             n == Skip(Top.lines, e)
             s == [Top EXCEPT !.next = n]
             text == SubSeq(Top.lines, Top.next + 1, e - 1)
  <1>1. /\ phase = "line" /\ phase' = Returned /\ texts' = texts /\ current' = current
        /\ symbols' = symbols /\ updates' = updates /\ waiting' = waiting
        /\ covered' = covered
        /\ current.op = "mac" /\ macros[current.macro] = NoMacro
        /\ stack' = [stack EXCEPT ![Len(stack)] = s]
        /\ seenLUP' = seenLUP
        /\ \/ failed' = TRUE /\ macros' = macros
           \/ failed' = failed /\ macros' = [macros EXCEPT ![current.macro] = text]
    BY Zenon DEF HandleMAC, Assemble, CanDefine, FindMacroDefinition, SetTop
  <1>2. /\ IsStack(stack) /\ stack # <<>>
        /\ IsSource(Top) /\ (Top.kind = "lup" => Top.iterations >= 1)
        /\ macros \in MacroTexts /\ failed \in BOOLEAN /\ seenLUP \in BOOLEAN
        /\ covered \in BOOLEAN /\ waiting \in Waiting /\ current \in Line
    BY <1>1, WhileReading DEF RestOK
  <1>3. /\ Top \in Source /\ Top.next \in Nat /\ Top.lines \in Seq(Line)
        /\ Len(Top.lines) \in Nat
    BY <1>2, SourceFields DEF IsSource
  <1>4. e \in Nat /\ Top.next + 1 <= e /\ e <= Len(Top.lines) + 1
    BY <1>2, FirstExists
  <1> HIDE DEF e
  <1>5. n \in Nat /\ n <= Len(Top.lines)
    BY <1>3, <1>4, SMT DEF Skip
  <1> HIDE DEF n
  <1>6. /\ IsSource(s) /\ s.kind = Top.kind /\ s.lines = Top.lines
        /\ s.iterations = Top.iterations
    BY <1>3, <1>5, MovedSource
  <1> HIDE DEF s
  <1>7. text \in Seq(Line)
    BY <1>3, <1>4, LinesInFrontOf
  <1> HIDE DEF text
  <1>8. IsStack(stack') /\ stack' # <<>>
    <2>1. Top = Last(stack)
      BY DEF Top
    <2> QED BY <1>1, <1>2, <1>6, <2>1, MovedTop
  <1>9. macros' \in MacroTexts /\ failed' \in BOOLEAN /\ ~current.own
    BY <1>1, <1>2, <1>7, LineFields DEF MacroTexts
  <1>10. MacrosStay
    BY <1>1, <1>2 DEF MacrosStay, MacroTexts
  <1>11. RestOK'
    BY <1>1, <1>2, <1>9, <1>10, LineIsAssembled
  <1> QED BY <1>8, <1>11, BothAreOK

-----------------------------------------------------------------------------
(* And for those of the symbols. *)

LEMMA LabelKeeps == ASSUME IInv, AddUnhandledLabel PROVE IInv'
  <1>1. /\ phase = "label" /\ Define(current.label, "final", "read")
        /\ texts' = texts /\ current' = current /\ macros' = macros /\ seenLUP' = seenLUP
        /\ failed' = failed /\ covered' = covered /\ waiting' = waiting /\ stack' = stack
    BY Zenon DEF AddUnhandledLabel
  <1>2. current.label \in Symbols /\ updates = <<>> /\ waiting' \in Waiting
    BY <1>1, RestIsOK DEF RestOK, UpdatesReturn
  <1>3. RestOK'
    BY <1>1, <1>2, SymbolIsDefined
  <1> QED BY <1>1, <1>3, StackUntouched

LEMMA LabelInvalidKeeps == ASSUME IInv, LabelInvalid PROVE IInv'
  <1>1. /\ phase = "label" /\ phase' = "read" /\ failed' = TRUE
        /\ texts' = texts /\ stack' = stack /\ current' = current /\ macros' = macros
        /\ seenLUP' = seenLUP /\ symbols' = symbols /\ waiting' = waiting
        /\ updates' = updates /\ covered' = covered
    BY Zenon DEF LabelInvalid
  <1>2. RestOK /\ UpdatesReturn
    BY RestIsOK DEF RestOK
  <1>3. UpdatesReturn'
    BY <1>1, <1>2 DEF UpdatesReturn, IsKnownCall
  <1>4. RestOK'
    BY <1>1, <1>2, <1>3 DEF RestOK, Places
  <1> QED BY <1>1, <1>4, StackUntouched

LEMMA EquKeeps == ASSUME IInv, HandleEQU PROVE IInv'
  <1>1. /\ phase = "line" /\ Define(current.label, Value, Resumed)
        /\ current.op = "equ" /\ ~current.bad
        /\ waiting' = Referenced([current EXCEPT !.own = TRUE])
        /\ texts' = texts /\ current' = current /\ macros' = macros /\ seenLUP' = seenLUP
        /\ failed' = failed /\ covered' = covered /\ stack' = stack
    BY Zenon DEF HandleEQU
  <1>2. current \in Line /\ waiting \in Waiting
    BY <1>1, WhileReading DEF RestOK
  <1>3. current.label \in Symbols /\ waiting' \in Waiting
    BY <1>1, <1>2, LineFields, OwnLine, ReferencedIsWaiting
  <1>4. /\ Value \in {"forward", "final"}
        /\ Resumed \in {"read", "update", "push"}
        /\ Resumed = "read" => updates = <<>>
        /\ Resumed = "update" => updates # <<>>
        /\ Resumed # "push"
    BY Zenon DEF Value, Resumed
  <1>5. RestOK'
    BY <1>1, <1>3, <1>4, SymbolIsDefined
  <1> QED BY <1>1, <1>5, StackUntouched

LEMMA EquInvalidKeeps == ASSUME IInv, EquInvalid PROVE IInv'
  <1>1. /\ phase = "line" /\ current.op = "equ"
        /\ (current.bad /\ phase' = Returned) \/ (~current.bad /\ phase' = Resumed)
        /\ waiting' = Referenced(current) /\ failed' = TRUE
        /\ texts' = texts /\ current' = current /\ macros' = macros /\ seenLUP' = seenLUP
        /\ symbols' = symbols /\ updates' = updates /\ covered' = covered /\ stack' = stack
    BY Zenon DEF EquInvalid
  <1>2. /\ current \in Line /\ waiting \in Waiting /\ macros \in MacroTexts
        /\ seenLUP \in BOOLEAN /\ covered \in BOOLEAN
    BY <1>1, WhileReading DEF RestOK
  <1>3. phase' = "label" => ~current.own
    BY <1>1, <1>2, LineFields DEF Resumed
  <1>4. waiting' \in Waiting /\ MacrosStay
    BY <1>1, <1>2, ReferencedIsWaiting DEF MacrosStay
  <1>5. RestOK'
    BY <1>1, <1>2, <1>3, <1>4, LineIsAssembled
  <1> QED BY <1>1, <1>5, StackUntouched

LEMMA RunAgainKeeps == ASSUME IInv, RunAgain PROVE IInv'
  <1> DEFINE s == Last(updates).symbol
  <1>1. /\ phase = "update" /\ phase' = "line"
        /\ waiting[s] # <<>>
        /\ current' = Head(waiting[s])
        /\ waiting' = [waiting EXCEPT ![s] = Tail(@)]
        /\ texts' = texts /\ stack' = stack /\ macros' = macros
        /\ seenLUP' = seenLUP /\ symbols' = symbols /\ failed' = failed
        /\ updates' = updates /\ covered' = covered
    BY Zenon DEF RunAgain
  <1>2. RestOK /\ UpdatesReturn /\ updates # <<>>
    BY <1>1, RestIsOK DEF RestOK, UpdatesReturn
  <1>3. s \in Symbols
    BY <1>2, LastUpdate
  <1> HIDE DEF s
  <1>4. current' \in Line /\ waiting' \in Waiting
    BY <1>1, <1>2, <1>3, TakenFromWaiting DEF RestOK
  <1>5. UpdatesReturn'
    BY <1>1, <1>2 DEF UpdatesReturn, IsKnownCall
  <1>6. RestOK'
    BY <1>1, <1>2, <1>4, <1>5 DEF RestOK, Places
  <1> QED BY <1>1, <1>6, StackUntouched

LEMMA EndUpdateKeeps == ASSUME IInv, EndUpdate PROVE IInv'
  <1> DEFINE u == Last(updates)
  <1>1. /\ phase = "update" /\ updates' = Front(updates)
        /\ current' = u.line /\ phase' = u.phase
        /\ texts' = texts /\ stack' = stack /\ macros' = macros
        /\ seenLUP' = seenLUP /\ symbols' = symbols /\ failed' = failed
        /\ waiting' = waiting /\ covered' = covered
    BY Zenon DEF EndUpdate
  <1>2. RestOK /\ UpdatesReturn /\ updates # <<>>
    BY <1>1, RestIsOK DEF RestOK, UpdatesReturn
  <1>3. /\ Len(updates) \in Nat /\ Len(updates) \in DOMAIN updates
        /\ u = updates[Len(updates)]
        /\ u.line \in Line /\ u.phase \in {"read", "update", "push"}
        /\ Front(updates) \in Seq(Update) /\ Len(Front(updates)) = Len(updates) - 1
        /\ \A i \in DOMAIN Front(updates) :
               i \in DOMAIN updates /\ Front(updates)[i] = updates[i]
    BY <1>2, LastUpdate
  <1>4. /\ u.phase = "read" => Len(updates) = 1
        /\ u.phase = "update" => Len(updates) > 1
        /\ u.phase = "push" => IsKnownCall(u.line)
    BY <1>2, <1>3 DEF UpdatesReturn
  <1> HIDE DEF u
  <1>5. /\ u.phase = "read" => Front(updates) = <<>>
        /\ u.phase = "update" => Front(updates) # <<>>
    <2>1. Len(<<>>) = 0
      BY EmptySeq
    <2>2. Len(updates) = 1 => Front(updates) = <<>>
      BY <1>3, EmptySeq, SMT
    <2> QED BY <1>3, <1>4, <2>1, <2>2, SMT
  <1>6. UpdatesReturn'
    <2>1. \A i \in DOMAIN Front(updates) :
             /\ Front(updates)[i].phase = "read" => i = 1
             /\ Front(updates)[i].phase = "update" => i > 1
             /\ Front(updates)[i].phase = "push" => IsKnownCall(Front(updates)[i].line)
      BY <1>2, <1>3, Zenon DEF UpdatesReturn
    <2> QED BY <1>1, <1>3, <1>4, <1>5, <2>1 DEF UpdatesReturn, IsKnownCall
  <1>7. RestOK'
    BY <1>1, <1>2, <1>3, <1>6 DEF RestOK, Places
  <1> QED BY <1>1, <1>7, StackUntouched

LEMMA AssignKeeps == ASSUME IInv, AssignParameters PROVE IInv'
  <1>1. /\ phase = "line" /\ Define(Parameter, Value, "push")
        /\ current.op = "call" /\ macros[current.macro] # NoMacro
        /\ waiting' = Referenced(current)
        /\ texts' = texts /\ current' = current /\ macros' = macros /\ seenLUP' = seenLUP
        /\ failed' = failed /\ covered' = covered /\ stack' = stack
    BY Zenon DEF AssignParameters, IsCall, FindMacroDefinition
  <1>2. current \in Line /\ waiting \in Waiting
    BY <1>1, WhileReading DEF RestOK
  <1>3. waiting' \in Waiting /\ IsKnownCall(current) /\ Parameter \in Symbols
    BY <1>1, <1>2, ReferencedIsWaiting, TextsAssumption DEF IsKnownCall
  <1>4. Value \in {"forward", "final"}
    BY Zenon DEF Value
  <1>5. RestOK'
    BY <1>1, <1>3, <1>4, SymbolIsDefined
  <1> QED BY <1>1, <1>5, StackUntouched

-----------------------------------------------------------------------------
(* A line that leaves the stack alone, and an end. *)
LineLeavesStack ==
    /\ phase = "line" /\ phase' = Returned
    /\ UNCHANGED <<texts, stack, current, macros, symbols, updates, covered>>
    /\ waiting' \in {waiting, Referenced(current)}

PlainLine ==
    \/ Code \/ PutInvalid \/ LupInvalid \/ LupOutOfRange \/ HandleLUPend
    \/ MacInvalid \/ HandleMACend \/ HandleInvalidOperator

Stops ==
    /\ phase \in {"line", "push"} /\ phase' \in {"aborted", "crashed"}
    /\ UNCHANGED <<texts, stack, current, macros, seenLUP, symbols, waiting, updates,
                   failed, covered>>

LEMMA PlainLineLeavesStack ==
    ASSUME RestOK, PlainLine
    PROVE  /\ LineLeavesStack
           /\ current.op \in {"code", "blank", "put", "lup", "lupend", "mac", "macend", "call"}
           /\ seenLUP' \in BOOLEAN /\ failed' \in BOOLEAN
           /\ current.op \in {"lupend", "mac", "macend"} => waiting' = waiting
  <1>1. seenLUP \in BOOLEAN /\ failed \in BOOLEAN
    BY DEF RestOK
  <1>2. CASE Code
    BY <1>1, <1>2 DEF Code, Assemble, LineLeavesStack
  <1>3. CASE PutInvalid
    BY <1>1, <1>3 DEF PutInvalid, Assemble, LineLeavesStack
  <1>4. CASE LupInvalid
    <2>1. waiting' \in {waiting, Referenced(current)}
      BY <1>4, Zenon DEF LupInvalid
    <2> QED BY <1>1, <1>4, <2>1 DEF LupInvalid, Assemble, LineLeavesStack
  <1>5. CASE LupOutOfRange
    BY <1>1, <1>5 DEF LupOutOfRange, Assemble, LineLeavesStack
  <1>6. CASE HandleLUPend
    BY <1>1, <1>6 DEF HandleLUPend, Assemble, LineLeavesStack
  <1>7. CASE MacInvalid
    BY <1>1, <1>7 DEF MacInvalid, Assemble, LineLeavesStack
  <1>8. CASE HandleMACend
    BY <1>1, <1>8 DEF HandleMACend, Assemble, LineLeavesStack
  <1>9. CASE HandleInvalidOperator
    BY <1>1, <1>9 DEF HandleInvalidOperator, Assemble, LineLeavesStack
  <1> QED BY <1>2, <1>3, <1>4, <1>5, <1>6, <1>7, <1>8, <1>9 DEF PlainLine

LEMMA PlainLineKeeps == ASSUME IInv, PlainLine PROVE IInv'
  <1>1. RestOK
    BY RestIsOK
  <1>2. /\ LineLeavesStack /\ current.op # "equ"
        /\ seenLUP' \in BOOLEAN /\ failed' \in BOOLEAN
    BY <1>1, PlainLineLeavesStack
  <1>3. /\ phase = "line" /\ phase' = Returned
        /\ texts' = texts /\ stack' = stack /\ current' = current /\ macros' = macros
        /\ symbols' = symbols /\ updates' = updates /\ covered' = covered
        /\ waiting' = waiting \/ waiting' = Referenced(current)
    BY <1>2, Zenon DEF LineLeavesStack
  <1>4. /\ waiting' \in Waiting /\ macros' \in MacroTexts /\ covered' \in BOOLEAN
        /\ ~current.own /\ MacrosStay
    BY <1>1, <1>2, <1>3, ReferencedIsWaiting, LineFields DEF RestOK, MacrosStay
  <1>5. RestOK'
    BY <1>2, <1>3, <1>4, LineIsAssembled
  <1> QED BY <1>3, <1>5, StackUntouched

LEMMA EndsStop ==
    ASSUME Abort \/ Crash PROVE Stops
  <1>1. CASE Abort
    BY <1>1 DEF Abort, IsCall, Stops
  <1>2. CASE Crash
    <2>1. phase \in {"line", "push"}
      BY <1>2, Zenon DEF Crash
    <2> QED BY <1>2, <2>1 DEF Crash, Stops
  <1> QED BY <1>1, <1>2

LEMMA StopsKeeps == ASSUME IInv, Stops PROVE IInv'
  <1>1. RestOK /\ UpdatesReturn
    BY RestIsOK DEF RestOK
  <1>2. UpdatesReturn'
    BY <1>1 DEF Stops, UpdatesReturn, IsKnownCall
  <1>3. RestOK' /\ phase # "done" /\ stack' = stack
    BY <1>1, <1>2 DEF Stops, RestOK, Places
  <1> QED BY <1>3, StackUntouched

-----------------------------------------------------------------------------
(* The invariant. *)

LEMMA InitEstablishes == Init => IInv
  <1> SUFFICES ASSUME Init PROVE IInv
    OBVIOUS
  <1> DEFINE s == NewSource("file", texts[Main], 1)
  <1>1. texts \in [Files -> Seq(Line)] /\ Main \in Files
    BY TextsAssumption DEF Init
  <1>2. IsSource(s) /\ s.kind = "file"
    BY <1>1, NewSourceIsASource
  <1>3. stack = <<s>>
    BY DEF Init
  <1> HIDE DEF s
  <1>4. /\ stack \in Seq(Source) /\ DOMAIN stack = {1} /\ stack[1] = s /\ stack # <<>>
    BY <1>2, <1>3, SMT DEF IsSource
  <1>5. \A i \in DOMAIN stack : stack[i].next <= Len(stack[i].lines)
    BY <1>2, <1>4 DEF IsSource
  <1>6. \A i \in DOMAIN stack : stack[i].kind # "lup"
    BY <1>2, <1>4
  <1>7. updates \in Seq(Update) /\ waiting \in [Symbols -> Seq(Line)] /\ updates = <<>>
    BY EmptySeq DEF Init
  <1>8. symbols \in [Symbols -> {"undefined", "forward", "final"}]
    BY DEF Init
  <1>9. TypeOK
    BY <1>1, <1>4, <1>5, <1>7, <1>8, BlankIsALine DEF Init, TypeOK
  <1>10. LoopsResumeAtTheirEnd
    BY <1>6 DEF LoopsResumeAtTheirEnd
  <1>11. UpdatesReturn
    <2>1. DOMAIN updates = {} /\ phase = "read"
      BY <1>7 DEF Init
    <2> QED BY <1>7, <2>1 DEF UpdatesReturn
  <1> QED BY <1>9, <1>10, <1>11 DEF IInv

LEMMA NextKeeps == IInv /\ [Next]_vars => IInv'
  <1> SUFFICES ASSUME IInv, [Next]_vars PROVE IInv'
    OBVIOUS
  <1>1. CASE ReadLine
    BY <1>1, ReadLineKeeps
  <1>2. CASE EndOfSource
    BY <1>2, EndOfSourceKeeps
  <1>3. CASE AddUnhandledLabel
    BY <1>3, LabelKeeps
  <1>4. CASE LabelInvalid
    BY <1>4, LabelInvalidKeeps
  <1>5. CASE HandleEQU
    BY <1>5, EquKeeps
  <1>6. CASE EquInvalid
    BY <1>6, EquInvalidKeeps
  <1>7. CASE RunAgain
    BY <1>7, RunAgainKeeps
  <1>8. CASE EndUpdate
    BY <1>8, EndUpdateKeeps
  <1>9. CASE HandlePUT
    BY <1>9, PutKeeps
  <1>10. CASE HandleLUP
    BY <1>10, LupKeeps
  <1>11. CASE HandleMAC
    BY <1>11, MacKeeps
  <1>12. CASE AssignParameters
    BY <1>12, AssignKeeps
  <1>13. CASE HandleMacroExpansion
    BY <1>13, CallKeeps
  <1>14. CASE PlainLine
    BY <1>14, PlainLineKeeps
  <1>15. CASE Abort \/ Crash
    BY <1>15, EndsStop, StopsKeeps
  <1>16. CASE UNCHANGED vars
    BY <1>16 DEF vars, IInv, TypeOK, LoopsResumeAtTheirEnd, UpdatesReturn, IsKnownCall
  <1> QED BY <1>1, <1>2, <1>3, <1>4, <1>5, <1>6, <1>7, <1>8, <1>9, <1>10,
             <1>11, <1>12, <1>13, <1>14, <1>15, <1>16 DEF Next, PlainLine

(* IInv holds in every state, for all files, macros, counts and depths.    *)
THEOREM Invariance == Spec => []IInv
  BY InitEstablishes, NextKeeps, PTL DEF Spec

(* No source is read past its end, and while lines are read and assembled  *)
(* there is a source they are from (getNextSourceLine).                    *)
THEOREM TypeCorrectness == Spec => []TypeOK
  <1>1. IInv => TypeOK
    BY DEF IInv
  <1> QED BY <1>1, Invariance, PTL

(* While a loop runs, the source below it stands in front of the --^ that  *)
(* ends the loop, and the loop has the lines in front of that (handleLUP,  *)
(* TextFile_AdvanceTo): whatever files and macros the body pushes, however *)
(* loops nest, and whatever is assembled again meanwhile, reading goes on  *)
(* there.                                                                  *)
THEOREM LoopsResume == Spec => []LoopsResumeAtTheirEnd
  <1>1. IInv => LoopsResumeAtTheirEnd
    BY DEF IInv
  <1> QED BY <1>1, Invariance, PTL

-----------------------------------------------------------------------------
(***************************************************************************)
(* Nothing is lost.  Reading ends when a source and the one below it have  *)
(* ended.  A source that is not on top has ended only if its last line     *)
(* pushed the one above, or a second run pushed one on a source that had   *)
(* ended or has itself: `covered'.  To say what texts the first takes, the *)
(* lines of each source are traced to the files they are from.             *)
(***************************************************************************)
IsTextLine(line) ==
    \E f \in Files : \E i \in DOMAIN texts[f] : line = texts[f][i]

HasTextLines(lines) == \A k \in DOMAIN lines : IsTextLine(lines[k])

(* The lines end in front of a --^ of some file. *)
IsBody(lines) ==
    lines # <<>> =>
        \E f \in Files : \E j \in DOMAIN texts[f] :
            /\ j < Len(texts[f]) /\ texts[f][j + 1].op = "lupend"
            /\ Last(lines) = texts[f][j]

(* Loops are cut only out of files, as a loop holds no --^ of its own.     *)
HasOrigin(source) ==
    /\ HasTextLines(source.lines)
    /\ source.kind = "file" => \E f \in Files : source.lines = texts[f]
    /\ source.kind = "lup" =>
           /\ IsBody(source.lines)
           /\ \A k \in DOMAIN source.lines : source.lines[k].op # "lupend"
    /\ source.kind = "macro" => \E m \in Macros : source.lines = macros[m]

IsOfInclusion(source) ==
    source.kind = "file" =>
        \E f \in Files : IsIncluded(f) /\ source.lines = texts[f]

SourcesHaveOrigins(st) ==
    \A i \in DOMAIN st : HasOrigin(st[i]) /\ (i > 1 => IsOfInclusion(st[i]))

OnlyPushesEndBelow(st) ==
    \A i \in DOMAIN st :
        i < Len(st) /\ IsEndOfFile(st[i]) => EndsWithPush(st[i].lines)

MacrosHaveTextLines ==
    \A m \in Macros : macros[m] # NoMacro => HasTextLines(macros[m])

(* What a PUT includes, some text does, even when it has waited. *)
Included == {f \in Files : IsIncluded(f)}

IsOfTexts(line, included) == line.op = "put" /\ ~line.bad => line.file \in included

AreOfTexts(lines, included) ==
    \A i \in DOMAIN lines : IsOfTexts(lines[i], included) /\ lines[i].op # "mac"

WaitingAreOfTexts(w, included) == \A s \in Symbols : AreOfTexts(w[s], included)

UpdatesAreOfTexts(us, included) == \A i \in DOMAIN us : IsOfTexts(us[i].line, included)

LinesAreOfTexts ==
    /\ IsOfTexts(current, Included)
    /\ WaitingAreOfTexts(waiting, Included)
    /\ UpdatesAreOfTexts(updates, Included)
    /\ phase = "line" /\ updates # <<>> => current.op # "mac"

(* The line that was read last has still to push its source. *)
ReadLinePushes ==
    IF updates = <<>> THEN phase \in {"line", "push"} /\ current.op \in {"put", "call"}
                      ELSE updates[1].phase = "push"

TopEndsWithPush == ReadLinePushes /\ IsEndOfFile(Top) => EndsWithPush(Top.lines)

LinesInv ==
    /\ SourcesHaveOrigins(stack)
    /\ MacrosHaveTextLines
    /\ LinesAreOfTexts
    /\ ~covered => OnlyPushesEndBelow(stack) /\ TopEndsWithPush
    /\ NothingIsLost

-----------------------------------------------------------------------------
(* The three changes of a stack. *)

LEMMA PoppedLines ==
    ASSUME NEW st, IsStack(st), st # <<>>,
           SourcesHaveOrigins(st)
    PROVE  /\ SourcesHaveOrigins(Front(st))
           /\ OnlyPushesEndBelow(st) => OnlyPushesEndBelow(Front(st))
  <1> DEFINE fr == Front(st)
  <1>1. /\ DOMAIN fr = 1 .. Len(st) - 1 /\ Len(fr) = Len(st) - 1
        /\ Len(st) \in Nat /\ Len(st) >= 1 /\ DOMAIN st = 1 .. Len(st)
        /\ \A i \in DOMAIN fr : fr[i] = st[i]
    BY StackFacts, FrontElements DEF IsStack
  <1> HIDE DEF fr
  <1>2. ASSUME NEW i \in DOMAIN fr
        PROVE  fr[i] = st[i] /\ i \in DOMAIN st /\ i < Len(st)
    <2>1. i \in 1 .. Len(st) - 1
      BY <1>1, <1>2
    <2>2. i \in 1 .. Len(st) /\ i < Len(st)
      BY <1>1, <2>1, SMT
    <2> QED BY <1>1, <1>2, <2>2
  <1>3. SourcesHaveOrigins(fr)
    BY <1>2 DEF SourcesHaveOrigins
  <1>4. OnlyPushesEndBelow(st) => OnlyPushesEndBelow(fr)
    BY <1>2 DEF OnlyPushesEndBelow
  <1> QED BY <1>3, <1>4 DEF fr

LEMMA MovedLines ==
    ASSUME NEW st, IsStack(st), st # <<>>,
           SourcesHaveOrigins(st),
           NEW s \in Source, s.kind = Last(st).kind, s.lines = Last(st).lines
    PROVE  /\ SourcesHaveOrigins([st EXCEPT ![Len(st)] = s])
           /\ OnlyPushesEndBelow(st) => OnlyPushesEndBelow([st EXCEPT ![Len(st)] = s])
  <1> DEFINE n == Len(st)
             mv == [st EXCEPT ![n] = s]
  <1>1. st \in Seq(Source) /\ n \in Nat /\ n >= 1 /\ DOMAIN st = 1 .. n /\ Last(st) = st[n]
    BY StackFacts DEF IsStack
  <1>2. n \in 1 .. Len(st)
    BY <1>1, SMT
  <1>3. /\ mv \in Seq(Source) /\ Len(mv) = n
        /\ \A i \in 1 .. n : mv[i] = IF i = n THEN s ELSE st[i]
    BY <1>1, <1>2, ExceptSeq
  <1>4. DOMAIN mv = 1 .. n
    BY <1>3, LenProperties
  <1> HIDE DEF mv
  <1>5. ASSUME NEW i \in DOMAIN mv
        PROVE  /\ i \in DOMAIN st
               /\ mv[i].kind = st[i].kind /\ mv[i].lines = st[i].lines
               /\ i < Len(mv) => i < Len(st) /\ mv[i] = st[i]
    <2>1. i \in 1 .. n /\ (i < n => i # n)
      BY <1>1, <1>4, SMT
    <2> QED BY <1>1, <1>3, <2>1
  <1>6. SourcesHaveOrigins(mv)
    <2>1. ASSUME NEW i \in DOMAIN mv
          PROVE  HasOrigin(mv[i]) /\ (i > 1 => IsOfInclusion(mv[i]))
      <3>1. HasOrigin(st[i]) /\ (i > 1 => IsOfInclusion(st[i]))
        BY <1>5 DEF SourcesHaveOrigins
      <3> QED BY <1>5, <3>1 DEF HasOrigin, IsOfInclusion
    <2> QED BY <2>1 DEF SourcesHaveOrigins
  <1>7. OnlyPushesEndBelow(st) => OnlyPushesEndBelow(mv)
    BY <1>5 DEF OnlyPushesEndBelow
  <1> QED BY <1>6, <1>7 DEF mv

LEMMA PushedLines ==
    ASSUME NEW st, IsStack(st), st # <<>>,
           SourcesHaveOrigins(st),
           NEW s \in Source, HasOrigin(s), IsOfInclusion(s)
    PROVE  /\ SourcesHaveOrigins(Append(st, s))
           /\ /\ OnlyPushesEndBelow(st)
              /\ IsEndOfFile(Last(st)) => EndsWithPush(Last(st).lines)
              => OnlyPushesEndBelow(Append(st, s))
  <1> DEFINE n == Len(st)
             ps == Append(st, s)
  <1>1. st \in Seq(Source) /\ n \in Nat /\ n >= 1 /\ DOMAIN st = 1 .. n /\ Last(st) = st[n]
    BY StackFacts DEF IsStack
  <1>2. /\ ps \in Seq(Source) /\ Len(ps) = n + 1
        /\ \A i \in 1 .. n : ps[i] = st[i]
        /\ ps[n + 1] = s
    BY <1>1, AppendProperties
  <1>3. DOMAIN ps = 1 .. n + 1
    BY <1>2, LenProperties
  <1> HIDE DEF ps
  <1>4. ASSUME NEW i \in DOMAIN ps
        PROVE  \/ i = n + 1 /\ ps[i] = s
               \/ i \in DOMAIN st /\ ps[i] = st[i] /\ (i < Len(st) \/ i = n)
    <2>1. i = n + 1 \/ i \in 1 .. n
      BY <1>1, <1>3, SMT
    <2>2. i \in 1 .. n => i < n \/ i = n
      BY <1>1, SMT
    <2> QED BY <1>1, <1>2, <2>1, <2>2
  <1>5. SourcesHaveOrigins(ps)
    BY <1>4 DEF SourcesHaveOrigins
  <1>6. ASSUME OnlyPushesEndBelow(st),
               IsEndOfFile(Last(st)) => EndsWithPush(Last(st).lines)
        PROVE  OnlyPushesEndBelow(ps)
    <2>1. ASSUME NEW i \in DOMAIN ps, i < Len(ps), IsEndOfFile(ps[i])
          PROVE  EndsWithPush(ps[i].lines)
      <3>1. i # n + 1
        BY <1>1, <1>2, <2>1, SMT
      <3>2. i \in DOMAIN st /\ ps[i] = st[i] /\ (i < Len(st) \/ i = n)
        BY <1>4, <3>1
      <3>3. CASE i < Len(st)
        BY <1>6, <2>1, <3>2, <3>3 DEF OnlyPushesEndBelow
      <3>4. CASE i = n
        BY <1>1, <1>6, <2>1, <3>2, <3>4
      <3> QED BY <3>2, <3>3, <3>4
    <2> QED BY <2>1 DEF OnlyPushesEndBelow
  <1> QED BY <1>5, <1>6 DEF ps

-----------------------------------------------------------------------------
(* From a stack to the next state. *)

LEMMA TextsStay ==
    ASSUME texts' = texts
    PROVE  /\ \A line : IsTextLine(line)' <=> IsTextLine(line)
           /\ \A ls : HasTextLines(ls)' <=> HasTextLines(ls)
           /\ \A ls : IsBody(ls)' <=> IsBody(ls)
           /\ \A f \in Files : IsIncluded(f)' <=> IsIncluded(f)
           /\ Included' = Included
  <1>1. \A line : IsTextLine(line)' <=> IsTextLine(line)
    BY DEF IsTextLine
  <1>2. \A ls : HasTextLines(ls)' <=> HasTextLines(ls)
    BY DEF HasTextLines, IsTextLine
  <1>3. \A ls : IsBody(ls)' <=> IsBody(ls)
    BY DEF IsBody
  <1>4. \A f \in Files : IsIncluded(f)' <=> IsIncluded(f)
    BY DEF IsIncluded
  <1>5. Included' = Included
    BY <1>4 DEF Included
  <1> QED BY <1>1, <1>2, <1>3, <1>4, <1>5

LEMMA OriginsStay ==
    ASSUME texts' = texts, MacrosStay, NEW st \in Seq(Source), stack' = st,
           SourcesHaveOrigins(st)
    PROVE  SourcesHaveOrigins(stack)'
  <1>1. ASSUME NEW i \in DOMAIN st
        PROVE  HasOrigin(st[i])' /\ (i > 1 => IsOfInclusion(st[i])')
    <2>1. HasOrigin(st[i]) /\ (i > 1 => IsOfInclusion(st[i]))
      BY <1>1 DEF SourcesHaveOrigins
    <2>2. st[i] \in Source
      BY <1>1, ElementOfSeq, LenProperties
    <2>3. HasTextLines(st[i].lines)' /\ (IsBody(st[i].lines) => IsBody(st[i].lines)')
      BY <2>1, TextsStay DEF HasOrigin
    <2>4. st[i].kind = "macro" => \E m \in Macros : st[i].lines = macros'[m]
      <3>1. st[i].lines # NoMacro
        BY <2>2, SourceFields, TextsAssumption
      <3> QED BY <2>1, <3>1 DEF HasOrigin, MacrosStay
    <2>5. HasOrigin(st[i])'
      BY <2>1, <2>3, <2>4 DEF HasOrigin
    <2>6. i > 1 => IsOfInclusion(st[i])'
      BY <2>1, TextsStay DEF IsOfInclusion
    <2> QED BY <2>5, <2>6
  <1> QED BY <1>1 DEF SourcesHaveOrigins

(* Each line in front of e is one of the lines of the source.              *)
LEMMA ElementsInFrontOf ==
    ASSUME NEW ls \in Seq(Line), NEW n \in Nat, NEW e \in Nat,
           n + 1 <= e, e <= Len(ls) + 1,
           NEW k \in DOMAIN SubSeq(ls, n + 1, e - 1)
    PROVE  /\ n + k \in DOMAIN ls /\ n + k \in n + 1 .. e - 1
           /\ SubSeq(ls, n + 1, e - 1)[k] = ls[n + k]
  <1> DEFINE sub == SubSeq(ls, n + 1, e - 1)
  <1>1. n + 1 \in Int /\ e - 1 \in Int /\ Len(ls) \in Nat /\ DOMAIN ls = 1 .. Len(ls)
    BY LenProperties, SMT
  <1>2. \A i \in n + 1 .. e - 1 : ls[i] \in Line
    <2>1. \A i \in n + 1 .. e - 1 : i \in 1 .. Len(ls)
      BY <1>1, SMT
    <2> QED BY <2>1, ElementOfSeq
  <1>3. \A i \in 1 .. (e - 1) - (n + 1) + 1 : sub[i] = ls[(n + 1) + i - 1]
    BY <1>1, <1>2, SubSeqProperties
  <1>4. sub \in Seq(Line) /\ Len(sub) = e - 1 - n
    BY LinesInFrontOf
  <1>5. k \in 1 .. Len(sub)
    BY <1>4, LenProperties
  <1> HIDE DEF sub
  <1>6. /\ k \in 1 .. (e - 1) - (n + 1) + 1
        /\ (n + 1) + k - 1 = n + k
        /\ n + k \in 1 .. Len(ls) /\ n + k \in n + 1 .. e - 1
    BY <1>1, <1>4, <1>5, SMT
  <1>7. sub[k] = ls[n + k]
    BY <1>3, <1>6
  <1> QED BY <1>1, <1>6, <1>7 DEF sub

LEMMA TopHasOrigin ==
    ASSUME IInv, LinesInv, phase # "done"
    PROVE  HasOrigin(Top)
  <1>1. IsStack(stack) /\ stack # <<>>
    BY WhileReading
  <1>2. Len(stack) \in DOMAIN stack /\ Top = stack[Len(stack)]
    BY <1>1, StackFacts, SMT DEF Top
  <1> QED BY <1>2 DEF LinesInv, SourcesHaveOrigins

(* The lines that wait, once one more does, and without the first. *)
LEMMA ReferencedLines ==
    ASSUME waiting \in Waiting, NEW l \in Line
    PROVE  \A s \in Symbols : \A i \in DOMAIN Referenced(l)[s] :
               \/ Referenced(l)[s][i] = l /\ s = l.uses
               \/ \E j \in DOMAIN waiting[s] : Referenced(l)[s][i] = waiting[s][j]
  <1>1. CASE l.uses = NoSymbol \/ symbols[l.uses] # "undefined"
    BY <1>1 DEF Referenced
  <1>2. CASE ~(l.uses = NoSymbol \/ symbols[l.uses] # "undefined")
    <2>1. PICK ls : ls = waiting[l.uses]
      OBVIOUS
    <2>2. PICK u : u = <<l>> \o ls
      OBVIOUS
    <2>3. l.uses \in Symbols /\ ls \in Seq(Line)
      BY <1>2, <2>1, LineFields DEF Waiting
    <2>4. Referenced(l) = [waiting EXCEPT ![l.uses] = u]
      BY <1>2, <2>1, <2>2, Zenon DEF Referenced
    <2>5. PICK n \in Nat : n = Len(ls) /\ DOMAIN ls = 1 .. n
      BY <2>3, LenProperties
    <2>6. /\ u \in Seq(Line) /\ Len(u) = 1 + n
          /\ \A i \in 1 .. 1 + n : u[i] = IF i <= 1 THEN <<l>>[i] ELSE ls[i - 1]
      <3>1. <<l>> \in Seq(Line) /\ Len(<<l>>) = 1
        OBVIOUS
      <3> QED BY <2>2, <2>3, <2>5, <3>1, ConcatProperties
    <2>7. DOMAIN u = 1 .. 1 + n
      BY <2>6, LenProperties
    <2>8. ASSUME NEW i \in DOMAIN u
          PROVE  u[i] = l \/ \E j \in DOMAIN ls : u[i] = ls[j]
      <3>1. CASE i <= 1
        <4>1. i = 1 /\ <<l>>[1] = l
          BY <2>7, <3>1, SMT
        <4>2. u[i] = <<l>>[i]
          BY <2>6, <2>7, <3>1, Zenon
        <4> QED BY <4>1, <4>2
      <3>2. CASE ~(i <= 1)
        <4>1. PICK j : j = i - 1
          OBVIOUS
        <4>2. j \in 1 .. n
          BY <2>7, <3>2, <4>1, SMT
        <4>3. u[i] = ls[j]
          BY <2>6, <2>7, <3>2, <4>1, Zenon
        <4> QED BY <2>5, <4>2, <4>3
      <3> QED BY <3>1, <3>2
    <2>9. ASSUME NEW s \in Symbols
          PROVE  Referenced(l)[s] = IF s = l.uses THEN u ELSE waiting[s]
      BY <2>4, Zenon DEF Waiting
    <2>10. ASSUME NEW s \in Symbols, NEW i \in DOMAIN Referenced(l)[s]
           PROVE  \/ Referenced(l)[s][i] = l /\ s = l.uses
                  \/ \E j \in DOMAIN waiting[s] : Referenced(l)[s][i] = waiting[s][j]
      <3>1. CASE s = l.uses
        <4>1. Referenced(l)[s] = u /\ waiting[s] = ls
          BY <2>1, <2>9, <3>1
        <4> QED BY <2>8, <2>10, <3>1, <4>1
      <3>2. CASE s # l.uses
        <4>1. Referenced(l)[s] = waiting[s]
          BY <2>9, <3>2
        <4> QED BY <2>10, <4>1
      <3> QED BY <3>1, <3>2
    <2> QED BY <2>10
  <1> QED BY <1>1, <1>2

LEMMA TakenLines ==
    ASSUME waiting \in Waiting, NEW s \in Symbols, waiting[s] # <<>>
    PROVE  /\ \E j \in DOMAIN waiting[s] : Head(waiting[s]) = waiting[s][j]
           /\ \A i \in DOMAIN Tail(waiting[s]) :
                  \E j \in DOMAIN waiting[s] : Tail(waiting[s])[i] = waiting[s][j]
           /\ \A t \in Symbols : [waiting EXCEPT ![s] = Tail(@)][t] =
                  IF t = s THEN Tail(waiting[s]) ELSE waiting[t]
  <1>1. PICK ls : ls = waiting[s]
    OBVIOUS
  <1>2. ls \in Seq(Line) /\ ls # <<>>
    BY <1>1 DEF Waiting
  <1>3. PICK n \in Nat : n = Len(ls) /\ DOMAIN ls = 1 .. n /\ n >= 1
    BY <1>2, LenProperties, EmptySeq
  <1>4. /\ Head(ls) = ls[1]
        /\ Tail(ls) \in Seq(Line) /\ Len(Tail(ls)) = Len(ls) - 1
        /\ \A i \in 1 .. Len(Tail(ls)) : Tail(ls)[i] = ls[i + 1]
    BY <1>2, HeadTailProperties
  <1>5. 1 \in DOMAIN ls
    BY <1>3, SMT
  <1>6. ASSUME NEW i \in DOMAIN Tail(ls)
        PROVE  \E j \in DOMAIN ls : Tail(ls)[i] = ls[j]
    <2>1. DOMAIN Tail(ls) = 1 .. n - 1
      BY <1>3, <1>4, LenProperties
    <2>2. i \in 1 .. n - 1
      BY <1>6, <2>1
    <2>3. i + 1 \in 1 .. n
      BY <1>3, <2>2, SMT
    <2>4. Tail(ls)[i] = ls[i + 1]
      BY <1>3, <1>4, <2>2
    <2> QED BY <1>3, <2>3, <2>4
  <1>7. ASSUME NEW t \in Symbols
        PROVE  [waiting EXCEPT ![s] = Tail(@)][t] = IF t = s THEN Tail(ls) ELSE waiting[t]
    BY <1>1, Zenon DEF Waiting
  <1>8. \E j \in DOMAIN waiting[s] : Head(waiting[s]) = waiting[s][j]
    BY <1>1, <1>4, <1>5, Zenon
  <1>9. \A i \in DOMAIN Tail(waiting[s]) :
            \E j \in DOMAIN waiting[s] : Tail(waiting[s])[i] = waiting[s][j]
    BY <1>1, <1>6, Zenon
  <1> QED BY <1>1, <1>7, <1>8, <1>9

(* What a step has to leave behind for LinesInv to hold again. *)
LEMMA LinesStay ==
    ASSUME texts' = texts, MacrosStay, MacrosHaveTextLines', NEW st \in Seq(Source),
           stack' = st, SourcesHaveOrigins(st), LinesAreOfTexts',
           ~covered' => OnlyPushesEndBelow(st) /\ TopEndsWithPush', NothingIsLost'
    PROVE  LinesInv'
  <1>1. SourcesHaveOrigins(stack)'
    BY OriginsStay
  <1>2. OnlyPushesEndBelow(st) => OnlyPushesEndBelow(stack)'
    BY DEF OnlyPushesEndBelow
  <1> QED BY <1>1, <1>2 DEF LinesInv

(* Most steps define no macro. *)
LEMMA LinesStayByStack ==
    ASSUME LinesInv, texts' = texts, macros' = macros, NEW st \in Seq(Source),
           stack' = st, SourcesHaveOrigins(st), LinesAreOfTexts',
           ~covered' => OnlyPushesEndBelow(st) /\ TopEndsWithPush', NothingIsLost'
    PROVE  LinesInv'
  <1>1. MacrosStay
    BY DEF MacrosStay
  <1>2. MacrosHaveTextLines'
    BY TextsStay DEF LinesInv, MacrosHaveTextLines
  <1> QED BY <1>1, <1>2, LinesStay

LEMMA LinesStayWithTheStack ==
    ASSUME IInv, LinesInv, phase' # "done",
           texts' = texts, macros' = macros, stack' = stack, covered' = covered,
           LinesAreOfTexts', ~covered => TopEndsWithPush'
    PROVE  LinesInv'
  <1>1. stack \in Seq(Source) /\ NothingIsLost'
    BY DEF IInv, TypeOK, NothingIsLost
  <1> QED BY <1>1, LinesStayByStack DEF LinesInv

(* The lines that wait are of texts again when one more waits. *)
LEMMA WaitingOfTexts ==
    ASSUME waiting \in Waiting, NEW I, WaitingAreOfTexts(waiting, I),
           NEW l \in Line, IsOfTexts(l, I), l.op # "mac",
           NEW w, w = waiting \/ w = Referenced(l)
    PROVE  WaitingAreOfTexts(w, I)
  <1>1. CASE w = waiting
    BY <1>1
  <1>2. CASE w = Referenced(l)
    <2>1. ASSUME NEW s \in Symbols, NEW i \in DOMAIN w[s]
          PROVE  IsOfTexts(w[s][i], I) /\ w[s][i].op # "mac"
      <3>1. w[s][i] = l \/ \E j \in DOMAIN waiting[s] : w[s][i] = waiting[s][j]
        BY <1>2, <2>1, ReferencedLines
      <3>2. CASE w[s][i] = l
        BY <3>2
      <3>3. CASE \E j \in DOMAIN waiting[s] : w[s][i] = waiting[s][j]
        <4>1. PICK j \in DOMAIN waiting[s] : w[s][i] = waiting[s][j]
          BY <3>3
        <4>2. IsOfTexts(waiting[s][j], I) /\ waiting[s][j].op # "mac"
          BY DEF WaitingAreOfTexts, AreOfTexts
        <4> QED BY <4>1, <4>2
      <3> QED BY <3>1, <3>2, <3>3
    <2> QED BY <2>1 DEF WaitingAreOfTexts, AreOfTexts
  <1> QED BY <1>1, <1>2

(* A line that has been assembled, or a call whose macro is pushed. *)
LEMMA LineEnds ==
    ASSUME IInv, LinesInv, phase \in {"line", "push"},
           phase' = Returned \/ phase' = Resumed,
           texts' = texts, current' = current, updates' = updates,
           waiting' = waiting \/ (waiting' = Referenced(current) /\ current.op # "mac")
    PROVE  /\ LinesAreOfTexts' /\ phase' # "done"
           /\ updates = <<>> => ~ReadLinePushes'
           /\ updates # <<>> => (ReadLinePushes' <=> updates[1].phase = "push")
  <1>1. phase' \in {"read", "label", "update"}
    BY Zenon DEF Returned, Resumed
  <1>2. /\ current \in Line /\ waiting \in Waiting /\ Included' = Included
        /\ IsOfTexts(current, Included) /\ WaitingAreOfTexts(waiting, Included)
        /\ UpdatesAreOfTexts(updates, Included)
    BY RestIsOK, TextsStay DEF RestOK, LinesInv, LinesAreOfTexts
  <1>3. WaitingAreOfTexts(waiting', Included)
    <2>1. CASE waiting' = waiting
      BY <1>2, <2>1
    <2>2. CASE waiting' = Referenced(current) /\ current.op # "mac"
      BY <1>2, <2>2, WaitingOfTexts
    <2> QED BY <2>1, <2>2
  <1>4. IsOfTexts(current', Included') /\ UpdatesAreOfTexts(updates', Included')
    BY <1>2
  <1>5. LinesAreOfTexts'
    BY <1>1, <1>2, <1>3, <1>4 DEF LinesAreOfTexts
  <1> QED BY <1>1, <1>5 DEF ReadLinePushes

(* A symbol that is defined leaves the line that was read where it is. *)
LEMMA DefineKeepsLines ==
    ASSUME IInv, LinesInv, NEW s \in Symbols, NEW v, NEW next \in {"read", "update", "push"},
           Define(s, v, next),
           next = "push" => phase = "line" /\ current.op = "call",
           texts' = texts, current' = current, macros' = macros, stack' = stack,
           covered' = covered,
           NEW l \in Line, IsOfTexts(l, Included), l.op # "mac",
           waiting' = waiting \/ waiting' = Referenced(l)
    PROVE  LinesInv'
  <1>1. /\ current \in Line /\ waiting \in Waiting /\ Included' = Included
        /\ updates \in Seq(Update)
        /\ IsOfTexts(current, Included) /\ WaitingAreOfTexts(waiting, Included)
        /\ UpdatesAreOfTexts(updates, Included)
    BY RestIsOK, TextsStay DEF RestOK, LinesInv, LinesAreOfTexts
  <1>2. WaitingAreOfTexts(waiting', Included)
    BY <1>1, WaitingOfTexts
  <1>4. PICK u : u = [symbol |-> s, line |-> current, phase |-> next]
    OBVIOUS
  <1>5. u \in Update /\ u.line = current /\ u.phase = next
    BY <1>1, <1>4 DEF Update
  <1>6. /\ \/ updates' = Append(updates, u) /\ phase' = "update"
           \/ updates' = updates /\ phase' = next
        /\ phase' # "done" /\ phase' # "line"
    BY <1>4, Zenon DEF Define
  <1>7. /\ Append(updates, u) # <<>>
        /\ Len(updates) \in Nat /\ DOMAIN updates = 1 .. Len(updates)
        /\ Append(updates, u)[Len(updates) + 1] = u
        /\ \A i \in DOMAIN updates : Append(updates, u)[i] = updates[i]
        /\ \A i \in DOMAIN Append(updates, u) :
               i = Len(updates) + 1 \/ i \in DOMAIN updates
    BY <1>5, AppendedUpdate
  <1>8. UpdatesAreOfTexts(updates', Included)
    <2>1. CASE updates' = updates
      BY <1>1, <2>1
    <2>2. CASE updates' = Append(updates, u)
      <3>1. ASSUME NEW i \in DOMAIN Append(updates, u)
            PROVE  IsOfTexts(Append(updates, u)[i].line, Included)
        <4>1. CASE i = Len(updates) + 1
          BY <1>1, <1>5, <1>7, <4>1
        <4>2. CASE i \in DOMAIN updates
          BY <1>1, <1>7, <4>2 DEF UpdatesAreOfTexts
        <4> QED BY <1>7, <3>1, <4>1, <4>2
      <3> QED BY <2>2, <3>1 DEF UpdatesAreOfTexts
    <2> QED BY <1>6, <2>1, <2>2
  <1>9. LinesAreOfTexts'
    BY <1>1, <1>2, <1>6, <1>8 DEF LinesAreOfTexts
  <1>10. ReadLinePushes' => ReadLinePushes
    <2>1. CASE updates = <<>>
      <3>1. Len(updates) + 1 = 1
        BY <1>7, <2>1, EmptySeq, SMT
      <3> QED BY <1>5, <1>6, <1>7, <2>1, <3>1 DEF ReadLinePushes
    <2>2. CASE updates # <<>>
      <3>1. 1 \in DOMAIN updates
        BY <2>2, LastUpdate, SMT
      <3> QED BY <1>6, <1>7, <2>2, <3>1 DEF ReadLinePushes
    <2> QED BY <2>1, <2>2
  <1>11. ~covered => TopEndsWithPush'
    BY <1>10 DEF LinesInv, TopEndsWithPush, Top, IsEndOfFile, IsTextAtEnd
  <1> QED BY <1>6, <1>9, <1>11, LinesStayWithTheStack

(* What is left on the stack when reading ends. *)
LEMMA WhatIsLeft ==
    ASSUME IInv, LinesInv, phase = "read", ~HasLine
    PROVE  \/ \A i \in DOMAIN Popped : IsEndOfFile(Popped[i])
           \/ \E i \in DOMAIN stack :
                  i > 1 /\ i < Len(stack) /\ IsEndOfFile(stack[i])
  <1>1. IsStack(stack) /\ stack # <<>> /\ stack \in Seq(Source)
    BY WhileReading DEF IsStack
  <1>2. /\ Len(stack) \in Nat /\ Len(stack) >= 1 /\ DOMAIN stack = 1 .. Len(stack)
        /\ Top = Last(stack)
    BY <1>1, StackFacts DEF Top
  <1>3. IsEndOfFile(Top) /\ Popped = Front(stack)
    BY <1>1, <1>2 DEF HasLine, Popped, StackPop
  <1> DEFINE p == Front(stack)
             n == Len(stack) - 1
  <1>4. /\ p \in Seq(Source) /\ Len(p) = n /\ DOMAIN p = 1 .. n
        /\ \A i \in DOMAIN p : p[i] = stack[i]
    BY <1>1, <1>2, FrontElements
  <1>5. p = <<>> \/ IsEndOfFile(Last(p))
    BY <1>3 DEF HasLine
  <1>6. Last(p) = p[n]
    BY <1>4 DEF Last
  <1> HIDE DEF p
  <1>7. CASE p = <<>>
    <2>1. DOMAIN p = {}
      BY <1>7
    <2> QED BY <1>3, <2>1 DEF p
  <1>8. CASE p # <<>>
    <2>1. n \in Nat /\ n # 0
      BY <1>1, <1>2, <1>4, <1>8, EmptySeq, SMT
    <2>2. n \in 1 .. n /\ n \in 1 .. Len(stack) /\ n < Len(stack) /\ (n = 1 \/ n > 1)
      BY <1>2, <2>1, SMT
    <2>3. IsEndOfFile(p[n]) /\ p[n] = stack[n]
      BY <1>4, <1>5, <1>6, <1>8, <2>2
    <2>4. CASE n = 1
      <3>1. \A i \in 1 .. 1 : i = 1
        BY SMT
      <3>2. \A i \in DOMAIN p : IsEndOfFile(p[i])
        BY <1>4, <2>3, <2>4, <3>1
      <3> QED BY <1>3, <3>2 DEF p
    <2>5. CASE n > 1
      BY <1>2, <2>2, <2>3, <2>5
    <2> QED BY <2>2, <2>4, <2>5
  <1> QED BY <1>7, <1>8

-----------------------------------------------------------------------------
(* One lemma for each kind of step. *)

LEMMA PoppedHasLines ==
    ASSUME IInv, LinesInv, phase = "read"
    PROVE  /\ SourcesHaveOrigins(Popped)
           /\ OnlyPushesEndBelow(stack) => OnlyPushesEndBelow(Popped)
  <1>1. IsStack(stack) /\ stack # <<>>
    BY WhileReading
  <1> QED BY <1>1, PoppedLines DEF Popped, StackPop, LinesInv

(* What is read from a source with lines of texts is of texts. *)
LEMMA LineReadIsOfTexts ==
    ASSUME texts \in [Files -> Seq(Line)], NEW s \in Source, HasTextLines(s.lines),
           s.next <= Len(s.lines), NEW l \in Line, l = Blank \/ IsLastRead(l, s)
    PROVE  IsOfTexts(l, Included)
  <1>1. CASE l = Blank
    BY <1>1, BlankIsALine DEF IsOfTexts
  <1>2. CASE IsLastRead(l, s)
    <2>1. s.next \in Nat /\ s.lines \in Seq(Line) /\ Len(s.lines) \in Nat
          /\ DOMAIN s.lines = 1 .. Len(s.lines) /\ s.next >= 1 /\ l = s.lines[s.next]
      BY <1>2, SourceFields, LenProperties DEF IsLastRead
    <2>2. s.next \in DOMAIN s.lines
      BY <2>1, SMT
    <2>3. PICK f \in Files : \E i \in DOMAIN texts[f] : l = texts[f][i]
      BY <2>1, <2>2 DEF HasTextLines, IsTextLine
    <2>4. ASSUME l.op = "put", ~l.bad
          PROVE  l.file \in Included
      <3>1. l.file \in Files
        BY <2>4, LineFields
      <3>2. IsIncluded(l.file)
        BY <2>3, <2>4 DEF IsIncluded
      <3> QED BY <3>1, <3>2 DEF Included
    <2> QED BY <2>4 DEF IsOfTexts
  <1> QED BY <1>1, <1>2

(* A source that ends with the line that was read has it as its last.      *)
LEMMA EndsWithTheLineRead ==
    ASSUME NEW s \in Source, NEW l, l.op \in {"put", "call"},
           IsLastRead(l, s), IsEndOfFile(s)
    PROVE  EndsWithPush(s.lines)
  <1>1. s.next \in Nat /\ s.next >= 1 /\ l = s.lines[s.next] /\ s.next = Len(s.lines)
        /\ s.lines \in Seq(Line)
    BY SourceFields DEF IsLastRead, IsEndOfFile, IsTextAtEnd
  <1>2. s.lines # <<>>
    BY <1>1, EmptySeq, SMT
  <1>3. Last(s.lines) = l
    BY <1>1 DEF Last
  <1> QED BY <1>2, <1>3 DEF EndsWithPush

LEMMA ReadLineKeepsLines == ASSUME IInv, LinesInv, ReadLine PROVE LinesInv'
  <1> DEFINE p == Popped
             s == Last(Popped)
             st == [p EXCEPT ![Len(p)] = Advanced(s)]
  <1>1. /\ phase = "read" /\ phase' = "line" /\ texts' = texts /\ p # <<>> /\ macros' = macros
        /\ stack' = [p EXCEPT ![Len(p)] = Advanced(@)]
        /\ current' = NextLine(s) /\ waiting' = waiting /\ updates' = updates
        /\ covered' = covered
    BY DEF ReadLine, HasLine
  <1>2. /\ IsStack(p) /\ SourcesHaveOrigins(p)
        /\ ~covered => OnlyPushesEndBelow(p)
    BY <1>1, PoppedHasLines, PopKeepsStack DEF LinesInv
  <1>3. updates = <<>> /\ texts \in [Files -> Seq(Line)]
    BY <1>1, RestIsOK DEF RestOK, UpdatesReturn
  <1> HIDE DEF p
  <1>4. /\ Last(p) = p[Len(p)] /\ IsSource(Last(p)) /\ Len(p) \in DOMAIN p
        /\ Last(p).kind = "lup" => Last(p).iterations >= 1
    BY <1>1, <1>2, StackFacts, SMT
  <1>5. s = Last(p)
    BY DEF p
  <1> HIDE DEF s
  <1>6. stack' = st
    BY <1>1, <1>4, <1>5
  <1>7. /\ IsSource(Advanced(s)) /\ Advanced(s).kind = s.kind /\ Advanced(s).lines = s.lines
        /\ s.kind = "lup" => Advanced(s).iterations >= 1
        /\ current' \in Line
        /\ current' = Blank \/ IsLastRead(current', Advanced(s))
    BY <1>1, <1>4, <1>5, ReadingASource
  <1>8. Advanced(s) \in Source
    BY <1>7 DEF IsSource
  <1>9. /\ SourcesHaveOrigins(st) /\ IsStack(st) /\ Last(st) = Advanced(s)
        /\ OnlyPushesEndBelow(p) => OnlyPushesEndBelow(st)
    BY <1>1, <1>2, <1>5, <1>7, <1>8, MovedLines, MovedTop
  <1>10. st \in Seq(Source)
    BY <1>9 DEF IsStack
  <1>11. HasTextLines(Advanced(s).lines)
    BY <1>2, <1>4, <1>5, <1>7 DEF SourcesHaveOrigins, HasOrigin
  <1>12. IsOfTexts(current', Included)
    BY <1>3, <1>7, <1>8, <1>11, LineReadIsOfTexts DEF IsSource
  <1>13. Included' = Included
    BY <1>1, TextsStay
  <1>14. LinesAreOfTexts'
    BY <1>1, <1>3, <1>12, <1>13 DEF LinesInv, LinesAreOfTexts
  <1>15. Top' = Advanced(s)
    BY <1>6, <1>9 DEF Top
  <1> HIDE DEF st
  <1>16. TopEndsWithPush'
    <2>1. ASSUME current'.op \in {"put", "call"}, IsEndOfFile(Advanced(s))
          PROVE  EndsWithPush(Advanced(s).lines)
      <3>1. IsLastRead(current', Advanced(s))
        BY <1>7, <2>1, BlankIsALine
      <3> QED BY <1>8, <2>1, <3>1, EndsWithTheLineRead
    <2>2. ReadLinePushes' => current'.op \in {"put", "call"}
      BY <1>1, <1>3 DEF ReadLinePushes
    <2>3. IsEndOfFile(Top)' <=> IsEndOfFile(Advanced(s))
      BY <1>15 DEF IsEndOfFile, IsTextAtEnd
    <2>4. EndsWithPush(Advanced(s).lines) => EndsWithPush(Top.lines)'
      BY <1>15 DEF EndsWithPush
    <2> QED BY <2>1, <2>2, <2>3, <2>4 DEF TopEndsWithPush
  <1>17. NothingIsLost'
    BY <1>1 DEF NothingIsLost
  <1>18. ~covered' => OnlyPushesEndBelow(st) /\ TopEndsWithPush'
    BY <1>1, <1>2, <1>9, <1>16
  <1> QED BY <1>1, <1>6, <1>9, <1>10, <1>14, <1>17, <1>18, LinesStayByStack

(* A source that is pushed on one that ended makes that end below, by the  *)
(* line that was read; in a second run it is covered.                      *)
LEMMA OnTopOf ==
    ASSUME IInv, LinesInv, NEW st, IsStack(st), st # <<>>, SourcesHaveOrigins(st),
           ~covered => OnlyPushesEndBelow(st),
           NEW s, IsSource(s), s.kind = "lup" => IsLoopOf(s, Last(st)),
           HasOrigin(s), IsOfInclusion(s),
           texts' = texts, macros' = macros, stack' = Append(st, s),
           covered' = (covered \/ Covers(s)),
           IsEndOfFile(Last(st)) /\ ~covered' => EndsWithPush(Last(st).lines),
           updates = <<>> => ~ReadLinePushes',
           LinesAreOfTexts', phase' # "done"
    PROVE  LinesInv'
  <1> DEFINE ps == Append(st, s)
  <1>1. s \in Source
    BY DEF IsSource
  <1>2. /\ SourcesHaveOrigins(ps)
        /\ /\ OnlyPushesEndBelow(st)
           /\ IsEndOfFile(Last(st)) => EndsWithPush(Last(st).lines)
           => OnlyPushesEndBelow(ps)
    BY <1>1, PushedLines
  <1>3. ps \in Seq(Source) /\ Last(ps) = s
    <2>1. st \in Seq(Source)
      BY DEF IsStack
    <2>2. ps \in Seq(Source) /\ Len(ps) = Len(st) + 1 /\ ps[Len(st) + 1] = s
      BY <1>1, <2>1, AppendProperties
    <2> HIDE DEF ps
    <2> QED BY <2>2 DEF Last
  <1> HIDE DEF ps
  <1>4. stack' = ps /\ Top' = s
    BY <1>3 DEF ps, Top
  <1>5. ASSUME ~covered'
        PROVE  OnlyPushesEndBelow(ps) /\ TopEndsWithPush'
    <2>1. ~covered /\ ~Covers(s)
      BY <1>5, Zenon
    <2>2. OnlyPushesEndBelow(ps)
      BY <1>2, <1>5, <2>1
    <2>3. CASE updates = <<>>
      BY <2>2, <2>3 DEF TopEndsWithPush
    <2>4. CASE updates # <<>>
      <3>1. ~IsEndOfFile(s)
        BY <2>1, <2>4, Zenon DEF Covers
      <3>2. ~IsEndOfFile(Top)'
        BY <1>4, <3>1 DEF IsEndOfFile, IsTextAtEnd
      <3> QED BY <2>2, <3>2 DEF TopEndsWithPush
    <2> QED BY <2>3, <2>4
  <1>6. NothingIsLost'
    BY DEF NothingIsLost
  <1> QED BY <1>2, <1>3, <1>4, <1>5, <1>6, LinesStayByStack

LEMMA PushKeepsLines ==
    ASSUME IInv, LinesInv, phase \in {"line", "push"}, current.op \in {"put", "call"},
           phase' = Returned, texts' = texts, current' = current, updates' = updates,
           macros' = macros, waiting' = waiting \/ waiting' = Referenced(current),
           NEW s, IsSource(s), s.kind # "lup", HasOrigin(s), IsOfInclusion(s), Push(s)
    PROVE  LinesInv'
  <1>1. IsStack(stack) /\ stack # <<>> /\ Top = Last(stack)
    BY WhileReading DEF Top
  <1>2. stack' = Append(stack, s) /\ covered' = (covered \/ Covers(s))
    BY Zenon DEF Push
  <1>3. /\ LinesAreOfTexts' /\ phase' # "done"
        /\ updates = <<>> => ~ReadLinePushes'
    BY LineEnds
  <1>4. ASSUME IsEndOfFile(Last(stack)), ~covered'
        PROVE  EndsWithPush(Last(stack).lines)
    <2>1. ~covered /\ ~Covers(s)
      BY <1>2, <1>4, Zenon
    <2>2. updates = <<>>
      BY <1>1, <1>4, <2>1, Zenon DEF Covers
    <2>3. ReadLinePushes
      BY <2>2 DEF ReadLinePushes
    <2> QED BY <1>1, <1>4, <2>1, <2>3 DEF LinesInv, TopEndsWithPush
  <1>5. SourcesHaveOrigins(stack) /\ (~covered => OnlyPushesEndBelow(stack))
    BY DEF LinesInv
  <1> QED BY <1>1, <1>2, <1>3, <1>4, <1>5, OnTopOf

LEMMA PutKeepsLines == ASSUME IInv, LinesInv, HandlePUT PROVE LinesInv'
  <1> DEFINE ls == texts[current.file]
             s == [NewSource("file", ls, 1) EXCEPT !.next = Skip(ls, SkipCount)]
  <1>1. /\ phase = "line" /\ phase' = Returned /\ texts' = texts /\ current' = current
        /\ updates' = updates /\ current.op = "put" /\ ~current.bad
        /\ waiting' = Referenced(current) /\ Push(s) /\ macros' = macros
    BY Zenon DEF HandlePUT, Assemble
  <1>2. current \in Line /\ texts \in [Files -> Seq(Line)]
    BY <1>1, WhileReading
  <1>3. IsIncluded(current.file) /\ current.file \in Files
    BY <1>1 DEF LinesInv, LinesAreOfTexts, IsOfTexts, Included
  <1>4. ls \in Seq(Line) /\ SkipCount \in Nat
    BY <1>2, <1>3, CountsAreNumbers
  <1>5. IsSource(s) /\ s.kind = "file" /\ s.lines = ls
    BY <1>4, PutSource
  <1> HIDE DEF s
  <1>6. HasTextLines(ls)
    BY <1>3 DEF HasTextLines, IsTextLine
  <1>7. HasOrigin(s) /\ IsOfInclusion(s)
    BY <1>3, <1>5, <1>6 DEF HasOrigin, IsOfInclusion
  <1> QED BY <1>1, <1>5, <1>7, PushKeepsLines

LEMMA CallKeepsLines == ASSUME IInv, LinesInv, HandleMacroExpansion PROVE LinesInv'
  <1> DEFINE ls == macros[current.macro]
             s == NewSource("macro", ls, 1)
  <1>1. /\ phase = "push" /\ phase' = Returned /\ texts' = texts /\ current' = current
        /\ updates' = updates /\ waiting' = waiting /\ Push(s) /\ macros' = macros
    BY Zenon DEF HandleMacroExpansion, FindMacroDefinition
  <1>2. current \in Line /\ macros \in MacroTexts
    BY <1>1, WhileReading
  <1>3. current.op = "call" /\ ls # NoMacro /\ current.macro \in Macros
    BY <1>1, <1>2, LineFields DEF IInv, UpdatesReturn, IsKnownCall
  <1>4. ls \in Seq(Line) /\ HasTextLines(ls)
    BY <1>2, <1>3 DEF MacroTexts, LinesInv, MacrosHaveTextLines
  <1>5. IsSource(s) /\ s.kind = "macro" /\ s.lines = ls
    BY <1>4, NewSourceIsASource
  <1> HIDE DEF s
  <1>6. HasOrigin(s) /\ IsOfInclusion(s)
    BY <1>3, <1>4, <1>5 DEF HasOrigin, IsOfInclusion
  <1> QED BY <1>1, <1>3, <1>5, <1>6, PushKeepsLines

LEMMA LupKeepsLines == ASSUME IInv, LinesInv, HandleLUP PROVE LinesInv'
  <1> DEFINE e == FirstOf({"lupend"})
             base == [Top EXCEPT !.next = e - 1]
             moved == AdvanceTo(e)
             text == LoopText(e)
             loop == LoopSource(e)
  <1>1. /\ phase = "line" /\ phase' = Returned /\ texts' = texts /\ current' = current
        /\ updates' = updates /\ waiting' = Referenced(current) /\ macros' = macros
        /\ current.op = "lup" /\ Top.kind # "macro" /\ LoopCount >= 1
        /\ e <= Len(Top.lines)
        /\ stack' = Append(moved, loop)
        /\ covered' = (covered \/ Covers(loop))
    BY Zenon DEF HandleLUP, Assemble, HasTextFile, IsInRange
  <1>2. /\ IsStack(stack) /\ stack # <<>> /\ current \in Line /\ IsSource(Top)
        /\ HasOrigin(Top) /\ Top = Last(stack)
    BY <1>1, WhileReading, TopHasOrigin DEF Top
  <1>3. /\ Top \in Source /\ Top.next \in Nat /\ Top.lines \in Seq(Line)
        /\ Top.next <= Len(Top.lines) /\ Len(Top.lines) \in Nat
        /\ DOMAIN Top.lines = 1 .. Len(Top.lines)
        /\ Top.kind \in {"file", "lup", "macro"}
    BY <1>2, SourceFields, LenProperties DEF IsSource
  <1>4. /\ e \in Nat /\ e >= Top.next + 1
        /\ Top.lines[e].op = "lupend"
        /\ \A i \in Top.next + 1 .. e - 1 : Top.lines[i].op # "lupend"
    <2>1. IsFirstOf({"lupend"}, e) /\ e \in Nat /\ e >= Top.next + 1
      BY <1>2, FirstExists
    <2> QED BY <1>1, <2>1 DEF IsFirstOf
  <1>5. /\ IsStack(moved) /\ moved # <<>> /\ Last(moved) = base
        /\ IsSource(base) /\ base.kind = Top.kind /\ base.lines = Top.lines
        /\ ~IsTextAtEnd(base)
        /\ IsSource(loop) /\ loop.kind = "lup" /\ loop.lines = text
        /\ text \in Seq(Line) /\ Len(text) = e - 1 - Top.next
        /\ IsStack(Append(moved, loop))
    BY <1>1, <1>2, LoopIsCutOut DEF LupStack
  <1>6. /\ moved = [stack EXCEPT ![Len(stack)] = base]
        /\ text = SubSeq(Top.lines, Top.next + 1, e - 1)
    BY Zenon DEF AdvanceTo, SetTop, LoopText
  <1> HIDE DEF e, loop, base
  <1>7. e <= Len(Top.lines) + 1 /\ e - 1 < Len(Top.lines) /\ (e - 1) + 1 = e
    BY <1>1, <1>3, <1>4, SMT
  (* A loop has no --^ to cut a loop out of it at. *)
  <1>8. PICK f \in Files : Top.lines = texts[f]
    <2>1. e \in DOMAIN Top.lines
      BY <1>1, <1>3, <1>4, SMT
    <2>2. Top.kind # "lup"
      BY <1>2, <1>4, <2>1 DEF HasOrigin
    <2> QED BY <1>1, <1>2, <1>3, <2>2 DEF HasOrigin
  <1>9. \A k \in DOMAIN text :
            /\ Top.next + k \in DOMAIN Top.lines
            /\ Top.next + k \in Top.next + 1 .. e - 1
            /\ text[k] = Top.lines[Top.next + k]
    <2> DEFINE sub == SubSeq(Top.lines, Top.next + 1, e - 1)
    <2>1. \A k \in DOMAIN sub :
              /\ Top.next + k \in DOMAIN Top.lines
              /\ Top.next + k \in Top.next + 1 .. e - 1
              /\ sub[k] = Top.lines[Top.next + k]
      BY <1>3, <1>4, <1>7, ElementsInFrontOf
    <2>2. text = sub
      BY <1>6
    <2> HIDE DEF sub, text
    <2> QED BY <2>1, <2>2
  <1> HIDE DEF text
  <1>10. HasTextLines(text) /\ (\A k \in DOMAIN text : text[k].op # "lupend")
    <2>1. HasTextLines(text)
      BY <1>2, <1>9 DEF HasOrigin, HasTextLines
    <2> QED BY <1>4, <1>9, <2>1
  <1>11. text # <<>> => Last(text) = Top.lines[e - 1] /\ e - 1 \in DOMAIN texts[f]
    <2>1. ASSUME text # <<>>
          PROVE  Len(text) \in DOMAIN text /\ Top.next + Len(text) = e - 1
      <3>1. Len(text) \in Nat /\ Len(text) # 0 /\ DOMAIN text = 1 .. Len(text)
        BY <1>5, <2>1, LenProperties, EmptySeq
      <3> QED BY <1>3, <1>4, <1>5, <3>1, SMT
    <2> QED BY <1>8, <1>9, <2>1 DEF Last
  <1>12. IsBody(text)
    <2>1. ASSUME text # <<>>
          PROVE  /\ e - 1 \in DOMAIN texts[f] /\ e - 1 < Len(texts[f])
                 /\ texts[f][(e - 1) + 1].op = "lupend"
                 /\ Last(text) = texts[f][e - 1]
      BY <1>4, <1>7, <1>8, <1>11, <2>1
    <2> QED BY <2>1, Zenon DEF IsBody
  <1>13. HasOrigin(loop) /\ IsOfInclusion(loop)
    BY <1>5, <1>10, <1>12 DEF HasOrigin, IsOfInclusion
  <1>14. base \in Source /\ base.kind = Last(stack).kind /\ base.lines = Last(stack).lines
    BY <1>2, <1>5 DEF IsSource
  <1>15. /\ SourcesHaveOrigins(moved)
         /\ ~covered => OnlyPushesEndBelow(moved)
    BY <1>2, <1>6, <1>14, MovedLines DEF LinesInv
  <1>16. IsLoopOf(loop, Last(moved))
    <2>1. moved \in Seq(Source) /\ loop \in Source
      BY <1>5 DEF IsStack, IsSource
    <2>2. PICK n \in Nat : n = Len(moved) /\ n >= 1 /\ Last(moved) = moved[n]
      BY <1>5, StackFacts
    <2>3. /\ Append(moved, loop)[n + 1] = loop /\ Len(Append(moved, loop)) = n + 1
          /\ \A i \in 1 .. n : Append(moved, loop)[i] = moved[i]
          /\ Append(moved, loop) \in Seq(Source)
      BY <2>1, <2>2, AppendProperties
    <2>4. n \in 1 .. n /\ n + 1 \in 1 .. n + 1 /\ (n + 1) - 1 = n
      BY <2>2, SMT
    <2>5. DOMAIN Append(moved, loop) = 1 .. n + 1
      BY <2>3, LenProperties
    <2>6. IsLoopOf(Append(moved, loop)[n + 1], Append(moved, loop)[(n + 1) - 1])
      BY <1>5, <2>3, <2>4, <2>5 DEF IsStack
    <2> QED BY <2>2, <2>3, <2>4, <2>6
  <1>17. ~IsEndOfFile(Last(moved))
    BY <1>5 DEF IsEndOfFile
  <1>18. /\ LinesAreOfTexts' /\ phase' # "done"
         /\ updates = <<>> => ~ReadLinePushes'
    BY <1>1, LineEnds
  <1> HIDE DEF moved
  <1> QED BY <1>1, <1>5, <1>13, <1>15, <1>16, <1>17, <1>18, OnTopOf

LEMMA MacKeepsLines == ASSUME IInv, LinesInv, HandleMAC PROVE LinesInv'
  <1> DEFINE e == FirstOf({"mac", "macend"})
             n == Skip(Top.lines, e)
             s == [Top EXCEPT !.next = n]
             text == SubSeq(Top.lines, Top.next + 1, e - 1)
             st == [stack EXCEPT ![Len(stack)] = s]
  <1>1. /\ phase = "line" /\ phase' = Returned /\ texts' = texts /\ current' = current
        /\ updates' = updates /\ waiting' = waiting /\ covered' = covered
        /\ current.op = "mac" /\ macros[current.macro] = NoMacro
        /\ stack' = st
        /\ \/ macros' = macros
           \/ macros' = [macros EXCEPT ![current.macro] = text]
    BY Zenon DEF HandleMAC, Assemble, CanDefine, FindMacroDefinition, SetTop
  <1>2. /\ IsStack(stack) /\ stack # <<>>
        /\ IsSource(Top) /\ (Top.kind = "lup" => Top.iterations >= 1)
        /\ macros \in MacroTexts /\ HasOrigin(Top)
    BY <1>1, WhileReading, TopHasOrigin
  <1>3. /\ Top \in Source /\ Top.next \in Nat /\ Top.lines \in Seq(Line)
        /\ Len(Top.lines) \in Nat
    BY <1>2, SourceFields DEF IsSource
  <1>4. e \in Nat /\ Top.next + 1 <= e /\ e <= Len(Top.lines) + 1
    BY <1>2, FirstExists
  <1> HIDE DEF e
  <1>5. n \in Nat /\ n <= Len(Top.lines)
    BY <1>3, <1>4, SMT DEF Skip
  <1> HIDE DEF n
  <1>6. /\ IsSource(s) /\ s.kind = Top.kind /\ s.lines = Top.lines
        /\ s.iterations = Top.iterations
    BY <1>3, <1>5, MovedSource
  <1> HIDE DEF s
  <1>7. HasTextLines(text)
    <2>1. \A k \in DOMAIN text :
             Top.next + k \in DOMAIN Top.lines /\ text[k] = Top.lines[Top.next + k]
      BY <1>3, <1>4, ElementsInFrontOf
    <2> QED BY <1>2, <2>1 DEF HasOrigin, HasTextLines
  <1> HIDE DEF text
  <1>8. s \in Source /\ s.kind = Last(stack).kind /\ s.lines = Last(stack).lines
    BY <1>6 DEF IsSource, Top
  <1>9. /\ SourcesHaveOrigins(st)
        /\ ~covered => OnlyPushesEndBelow(st)
    BY <1>2, <1>8, MovedLines DEF LinesInv
  <1>10. IsStack(st)
    BY <1>2, <1>6, <1>8, MovedTop
  <1>11. st \in Seq(Source)
    BY <1>10 DEF IsStack
  <1> HIDE DEF st
  <1>12. MacrosStay
    BY <1>1, <1>2 DEF MacrosStay, MacroTexts
  <1>13. MacrosHaveTextLines'
    <2>1. ASSUME NEW m \in Macros, macros'[m] # NoMacro
          PROVE  HasTextLines(macros'[m])
      <3>1. macros'[m] = macros[m] \/ macros'[m] = text
        BY <1>1, <1>2 DEF MacroTexts
      <3> QED BY <1>7, <2>1, <3>1 DEF LinesInv, MacrosHaveTextLines
    <2> QED BY <1>1, <2>1, TextsStay DEF MacrosHaveTextLines, HasTextLines, IsTextLine
  (* Of the lines that are assembled again none is a MAC. *)
  <1>14. updates = <<>>
    BY <1>1 DEF LinesInv, LinesAreOfTexts
  <1>15. /\ LinesAreOfTexts' /\ phase' # "done" /\ ~ReadLinePushes'
    BY <1>1, <1>14, LineEnds
  <1>16. ~covered' => OnlyPushesEndBelow(st) /\ TopEndsWithPush'
    BY <1>1, <1>9, <1>15 DEF TopEndsWithPush
  <1>17. NothingIsLost'
    BY <1>15 DEF NothingIsLost
  <1> QED BY <1>1, <1>9, <1>11, <1>12, <1>13, <1>15, <1>16, <1>17, LinesStay

(* A line that leaves the stack alone. *)
LEMMA LineKeepsLines ==
    ASSUME IInv, LinesInv, phase \in {"line", "push"},
           phase' = Returned \/ phase' = Resumed,
           texts' = texts, current' = current, updates' = updates, macros' = macros,
           stack' = stack, covered' = covered,
           waiting' = waiting \/ (waiting' = Referenced(current) /\ current.op # "mac")
    PROVE  LinesInv'
  <1>1. /\ LinesAreOfTexts' /\ phase' # "done"
        /\ updates = <<>> => ~ReadLinePushes'
        /\ updates # <<>> => (ReadLinePushes' <=> updates[1].phase = "push")
    BY LineEnds
  <1>2. ReadLinePushes' => ReadLinePushes
    BY <1>1 DEF ReadLinePushes
  <1>3. ~covered => TopEndsWithPush'
    BY <1>2 DEF LinesInv, TopEndsWithPush, Top, IsEndOfFile, IsTextAtEnd
  <1> QED BY <1>1, <1>3, LinesStayWithTheStack

LEMMA LabelKeepsLines ==
    ASSUME IInv, LinesInv, AddUnhandledLabel \/ LabelInvalid PROVE LinesInv'
  <1>1. /\ phase = "label" /\ texts' = texts /\ current' = current /\ macros' = macros
        /\ stack' = stack /\ covered' = covered /\ waiting' = waiting
        /\ \/ Define(current.label, "final", "read")
           \/ phase' = "read" /\ updates' = updates
    BY Zenon DEF AddUnhandledLabel, LabelInvalid
  <1>2. current.label \in Symbols /\ updates = <<>>
    BY <1>1, RestIsOK DEF RestOK, UpdatesReturn
  <1>3. CASE Define(current.label, "final", "read")
    <2>1. Blank \in Line /\ Blank.op = "blank" /\ IsOfTexts(Blank, Included)
      BY BlankIsALine DEF IsOfTexts
    <2> QED BY <1>1, <1>2, <1>3, <2>1, DefineKeepsLines
  <1>4. CASE phase' = "read" /\ updates' = updates
    <2>1. LinesAreOfTexts'
      BY <1>1, <1>4, TextsStay DEF LinesInv, LinesAreOfTexts
    <2>2. TopEndsWithPush'
      BY <1>2, <1>4 DEF TopEndsWithPush, ReadLinePushes
    <2> QED BY <1>1, <1>4, <2>1, <2>2, LinesStayWithTheStack
  <1> QED BY <1>1, <1>3, <1>4

LEMMA EquKeepsLines == ASSUME IInv, LinesInv, HandleEQU PROVE LinesInv'
  <1> DEFINE l == [current EXCEPT !.own = TRUE]
  <1>1. /\ phase = "line" /\ Define(current.label, Value, Resumed)
        /\ current.op = "equ" /\ ~current.bad /\ waiting' = Referenced(l)
        /\ texts' = texts /\ current' = current /\ macros' = macros
        /\ covered' = covered /\ stack' = stack
    BY Zenon DEF HandleEQU
  <1>2. current \in Line
    BY <1>1, WhileReading
  <1>3. current.label \in Symbols /\ l \in Line /\ l.op = "equ"
    BY <1>1, <1>2, LineFields, OwnLine
  <1> HIDE DEF l
  <1>4. IsOfTexts(l, Included)
    BY <1>3 DEF IsOfTexts
  <1>5. Resumed \in {"read", "update", "push"} /\ Resumed # "push"
    BY Zenon DEF Resumed
  <1> QED BY <1>1, <1>3, <1>4, <1>5, DefineKeepsLines

LEMMA EquInvalidKeepsLines == ASSUME IInv, LinesInv, EquInvalid PROVE LinesInv'
  <1>1. /\ phase = "line" /\ current.op = "equ"
        /\ phase' = Returned \/ phase' = Resumed
        /\ waiting' = Referenced(current)
        /\ texts' = texts /\ current' = current /\ macros' = macros
        /\ updates' = updates /\ covered' = covered /\ stack' = stack
    BY Zenon DEF EquInvalid
  <1> QED BY <1>1, LineKeepsLines

LEMMA AssignKeepsLines == ASSUME IInv, LinesInv, AssignParameters PROVE LinesInv'
  <1>1. /\ phase = "line" /\ Define(Parameter, Value, "push")
        /\ current.op = "call" /\ waiting' = Referenced(current)
        /\ texts' = texts /\ current' = current /\ macros' = macros
        /\ covered' = covered /\ stack' = stack
    BY Zenon DEF AssignParameters, IsCall
  <1>2. current \in Line /\ Parameter \in Symbols
    BY <1>1, WhileReading, TextsAssumption
  <1>3. IsOfTexts(current, Included)
    BY DEF LinesInv, LinesAreOfTexts
  <1> QED BY <1>1, <1>2, <1>3, DefineKeepsLines

LEMMA RunAgainKeepsLines == ASSUME IInv, LinesInv, RunAgain PROVE LinesInv'
  <1> DEFINE s == Last(updates).symbol
  <1>1. /\ phase = "update" /\ phase' = "line" /\ waiting[s] # <<>>
        /\ current' = Head(waiting[s])
        /\ waiting' = [waiting EXCEPT ![s] = Tail(@)]
        /\ texts' = texts /\ stack' = stack /\ macros' = macros
        /\ updates' = updates /\ covered' = covered
    BY Zenon DEF RunAgain
  <1>2. /\ waiting \in Waiting /\ updates # <<>>
        /\ WaitingAreOfTexts(waiting, Included) /\ UpdatesAreOfTexts(updates, Included)
    BY <1>1, RestIsOK DEF RestOK, UpdatesReturn, LinesInv, LinesAreOfTexts
  <1>3. s \in Symbols
    BY <1>2, LastUpdate
  <1> HIDE DEF s
  <1>4. AreOfTexts(waiting[s], Included)
    BY <1>2, <1>3 DEF WaitingAreOfTexts
  <1>5. IsOfTexts(current', Included) /\ current'.op # "mac"
    <2>1. PICK j \in DOMAIN waiting[s] : current' = waiting[s][j]
      BY <1>1, <1>2, <1>3, TakenLines
    <2> QED BY <1>4, <2>1 DEF AreOfTexts
  <1>6. AreOfTexts(Tail(waiting[s]), Included)
    <2>1. \A i \in DOMAIN Tail(waiting[s]) :
              \E j \in DOMAIN waiting[s] : Tail(waiting[s])[i] = waiting[s][j]
      BY <1>1, <1>2, <1>3, TakenLines
    <2>2. ASSUME NEW i \in DOMAIN Tail(waiting[s])
          PROVE  IsOfTexts(Tail(waiting[s])[i], Included) /\ Tail(waiting[s])[i].op # "mac"
      <3>1. PICK j \in DOMAIN waiting[s] : Tail(waiting[s])[i] = waiting[s][j]
        BY <2>1, <2>2
      <3>2. IsOfTexts(waiting[s][j], Included) /\ waiting[s][j].op # "mac"
        BY <1>4, <3>1 DEF AreOfTexts
      <3> QED BY <3>1, <3>2
    <2> QED BY <2>2 DEF AreOfTexts
  <1>7. WaitingAreOfTexts(waiting', Included)
    <2>1. \A t \in Symbols : [waiting EXCEPT ![s] = Tail(@)][t] =
              IF t = s THEN Tail(waiting[s]) ELSE waiting[t]
      BY <1>1, <1>2, <1>3, TakenLines
    <2>2. ASSUME NEW t \in Symbols
          PROVE  AreOfTexts(waiting'[t], Included)
      <3>1. waiting'[t] = IF t = s THEN Tail(waiting[s]) ELSE waiting[t]
        BY <1>1, <2>1
      <3>2. AreOfTexts(waiting[t], Included)
        BY <1>2 DEF WaitingAreOfTexts
      <3> QED BY <1>6, <3>1, <3>2
    <2> QED BY <2>2 DEF WaitingAreOfTexts
  <1>8. LinesAreOfTexts'
    <2>1. Included' = Included
      BY <1>1, TextsStay
    <2> QED BY <1>1, <1>2, <1>5, <1>7, <2>1 DEF LinesAreOfTexts
  <1>9. ReadLinePushes' => ReadLinePushes
    BY <1>1, <1>2 DEF ReadLinePushes
  <1>10. ~covered => TopEndsWithPush'
    BY <1>1, <1>9 DEF LinesInv, TopEndsWithPush, Top, IsEndOfFile, IsTextAtEnd
  <1> QED BY <1>1, <1>8, <1>10, LinesStayWithTheStack

LEMMA EndUpdateKeepsLines == ASSUME IInv, LinesInv, EndUpdate PROVE LinesInv'
  <1> DEFINE u == Last(updates)
             fr == Front(updates)
  <1>1. /\ phase = "update" /\ updates' = fr /\ current' = u.line /\ phase' = u.phase
        /\ texts' = texts /\ stack' = stack /\ macros' = macros
        /\ waiting' = waiting /\ covered' = covered
    BY Zenon DEF EndUpdate
  <1>2. /\ updates # <<>>
        /\ WaitingAreOfTexts(waiting, Included) /\ UpdatesAreOfTexts(updates, Included)
    BY <1>1, RestIsOK DEF RestOK, UpdatesReturn, LinesInv, LinesAreOfTexts
  <1>3. /\ Len(updates) \in Nat /\ Len(updates) >= 1 /\ Len(updates) \in DOMAIN updates
        /\ u = updates[Len(updates)] /\ u.phase \in {"read", "update", "push"}
        /\ fr \in Seq(Update) /\ Len(fr) = Len(updates) - 1
        /\ \A i \in DOMAIN fr : i \in DOMAIN updates /\ fr[i] = updates[i]
    BY <1>2, LastUpdate
  <1> HIDE DEF u, fr
  <1>4. IsOfTexts(current', Included) /\ UpdatesAreOfTexts(updates', Included)
    BY <1>1, <1>2, <1>3 DEF UpdatesAreOfTexts
  <1>5. LinesAreOfTexts'
    <2>1. Included' = Included
      BY <1>1, TextsStay
    <2> QED BY <1>1, <1>2, <1>3, <1>4, <2>1 DEF LinesAreOfTexts
  <1>6. ReadLinePushes' => ReadLinePushes
    <2>1. CASE fr = <<>>
      <3>1. Len(updates) = 1
        BY <1>3, <2>1, EmptySeq, SMT
      <3> QED BY <1>1, <1>2, <1>3, <2>1, <3>1 DEF ReadLinePushes
    <2>2. CASE fr # <<>>
      <3>1. 1 \in DOMAIN fr
        <4>1. Len(fr) # 0 /\ Len(fr) \in Nat /\ DOMAIN fr = 1 .. Len(fr)
          BY <1>3, <2>2, EmptySeq, LenProperties
        <4> QED BY <4>1, SMT
      <3> QED BY <1>1, <1>2, <1>3, <2>2, <3>1 DEF ReadLinePushes
    <2> QED BY <2>1, <2>2
  <1>7. ~covered => TopEndsWithPush'
    BY <1>1, <1>6 DEF LinesInv, TopEndsWithPush, Top, IsEndOfFile, IsTextAtEnd
  <1>8. phase' # "done"
    BY <1>1, <1>3
  <1> QED BY <1>1, <1>5, <1>7, <1>8, LinesStayWithTheStack

LEMMA PlainLineKeepsLines == ASSUME IInv, LinesInv, PlainLine PROVE LinesInv'
  <1>1. /\ LineLeavesStack
        /\ current.op \in {"lupend", "mac", "macend"} => waiting' = waiting
    BY RestIsOK, PlainLineLeavesStack
  <1>2. /\ phase = "line" /\ phase' = Returned
        /\ texts' = texts /\ stack' = stack /\ current' = current /\ macros' = macros
        /\ updates' = updates /\ covered' = covered
        /\ waiting' = waiting \/ waiting' = Referenced(current)
    BY <1>1, Zenon DEF LineLeavesStack
  <1>3. waiting' = waiting \/ (waiting' = Referenced(current) /\ current.op # "mac")
    BY <1>1, <1>2
  <1> QED BY <1>2, <1>3, LineKeepsLines

LEMMA StopsKeepsLines == ASSUME IInv, LinesInv, Stops PROVE LinesInv'
  <1>1. /\ phase \in {"line", "push"} /\ phase' \in {"aborted", "crashed"}
        /\ texts' = texts /\ stack' = stack /\ current' = current /\ macros' = macros
        /\ updates' = updates /\ covered' = covered /\ waiting' = waiting
    BY Zenon DEF Stops
  <1>2. LinesAreOfTexts'
    BY <1>1, TextsStay DEF LinesInv, LinesAreOfTexts
  <1>3. ReadLinePushes' => ReadLinePushes
    BY <1>1 DEF ReadLinePushes
  <1>4. ~covered => TopEndsWithPush'
    BY <1>1, <1>3 DEF LinesInv, TopEndsWithPush, Top, IsEndOfFile, IsTextAtEnd
  <1> QED BY <1>1, <1>2, <1>4, LinesStayWithTheStack

LEMMA EndOfSourceKeepsLines == ASSUME IInv, LinesInv, EndOfSource PROVE LinesInv'
  <1>1. /\ phase = "read" /\ phase' = "done" /\ stack' = Popped /\ ~HasLine
        /\ texts' = texts /\ macros' = macros /\ current' = current
        /\ waiting' = waiting /\ updates' = updates /\ covered' = covered
    BY DEF EndOfSource
  <1>2. /\ SourcesHaveOrigins(Popped) /\ IsStack(Popped)
        /\ ~covered => OnlyPushesEndBelow(Popped)
    BY <1>1, PoppedHasLines, PopKeepsStack DEF LinesInv
  <1>3. NothingIsLost'
    <2>1. CASE \A i \in DOMAIN Popped : IsEndOfFile(Popped[i])
      BY <1>1, <2>1 DEF NothingIsLost
    <2>2. ASSUME ~covered, NEW i \in DOMAIN stack, i > 1, i < Len(stack), IsEndOfFile(stack[i])
          PROVE  NothingIsLost'
      <3> DEFINE s == stack[i]
      <3>1. HasOrigin(s) /\ IsOfInclusion(s) /\ EndsWithPush(s.lines) /\ s \in Source
        <4>1. stack[i] \in Source
          BY <2>2, ElementOfSeq, LenProperties DEF IInv, TypeOK
        <4> QED BY <2>2, <4>1 DEF LinesInv, SourcesHaveOrigins, OnlyPushesEndBelow
      <3>2. s.kind \in {"file", "lup", "macro"} /\ s.lines # NoMacro
        BY <3>1, SourceFields, TextsAssumption
      <3> HIDE DEF s
      <3>3. CASE s.kind = "file"
        <4>1. \E f \in Files : IsIncluded(f) /\ EndsWithPush(texts[f])
          BY <3>1, <3>3 DEF IsOfInclusion
        <4>2. \E f \in Files : IsIncluded(f)' /\ EndsWithPush(texts[f])
          BY <1>1, <4>1, TextsStay
        <4> QED BY <1>1, <4>2 DEF NothingIsLost
      <3>4. CASE s.kind = "lup"
        <4>1. \E f \in Files : HasLoopThatEndsWithPush(texts[f])
          BY <3>1, <3>4 DEF HasOrigin, IsBody, EndsWithPush, HasLoopThatEndsWithPush
        <4> QED BY <1>1, <4>1 DEF NothingIsLost
      <3>5. CASE s.kind = "macro"
        <4>1. \E m \in Macros : macros[m] # NoMacro /\ EndsWithPush(macros[m])
          BY <3>1, <3>2, <3>5 DEF HasOrigin
        <4> QED BY <1>1, <4>1 DEF NothingIsLost
      <3> QED BY <3>2, <3>3, <3>4, <3>5
    <2>3. CASE covered
      BY <1>1, <2>3 DEF NothingIsLost
    <2> QED BY <1>1, <2>1, <2>2, <2>3, WhatIsLeft
  <1>4. Popped \in Seq(Source)
    BY <1>2 DEF IsStack
  <1>5. LinesAreOfTexts'
    BY <1>1, TextsStay DEF LinesInv, LinesAreOfTexts
  <1>6. TopEndsWithPush'
    <2>1. updates = <<>>
      BY <1>1, RestIsOK DEF RestOK, UpdatesReturn
    <2> QED BY <1>1, <2>1 DEF TopEndsWithPush, ReadLinePushes
  <1> QED BY <1>1, <1>2, <1>3, <1>4, <1>5, <1>6, LinesStayByStack

-----------------------------------------------------------------------------
LEMMA InitEstablishesLines == Init => LinesInv
  <1> SUFFICES ASSUME Init PROVE LinesInv
    OBVIOUS
  <1> DEFINE s == NewSource("file", texts[Main], 1)
  <1>1. texts \in [Files -> Seq(Line)] /\ Main \in Files
    BY TextsAssumption DEF Init
  <1>2. texts[Main] \in Seq(Line) /\ HasTextLines(texts[Main])
    BY <1>1 DEF HasTextLines, IsTextLine
  <1>3. s.kind = "file" /\ s.lines = texts[Main] /\ IsSource(s)
    BY <1>2, NewSourceIsASource
  <1>4. stack = <<s>>
    BY DEF Init
  <1> HIDE DEF s
  <1>5. DOMAIN stack = {1} /\ stack[1] = s /\ Len(stack) = 1
    BY <1>3, <1>4, SMT DEF IsSource
  <1>6. HasOrigin(s)
    BY <1>1, <1>2, <1>3 DEF HasOrigin
  <1>7. SourcesHaveOrigins(stack)
    BY <1>5, <1>6 DEF SourcesHaveOrigins
  <1>8. OnlyPushesEndBelow(stack)
    BY <1>5 DEF OnlyPushesEndBelow
  <1>9. MacrosHaveTextLines /\ NothingIsLost
    BY DEF Init, MacrosHaveTextLines, NothingIsLost
  <1>10. updates = <<>> /\ phase = "read" /\ current = Blank /\ DOMAIN updates = {}
         /\ \A t \in Symbols : waiting[t] = <<>>
    BY DEF Init
  <1>11. LinesAreOfTexts
    <2>1. IsOfTexts(current, Included)
      BY <1>10, BlankIsALine DEF IsOfTexts
    <2>2. WaitingAreOfTexts(waiting, Included)
      BY <1>10 DEF WaitingAreOfTexts, AreOfTexts
    <2> QED BY <1>10, <2>1, <2>2 DEF LinesAreOfTexts, UpdatesAreOfTexts
  <1>12. TopEndsWithPush
    BY <1>10 DEF TopEndsWithPush, ReadLinePushes
  <1> QED BY <1>7, <1>8, <1>9, <1>11, <1>12 DEF LinesInv

LEMMA NextKeepsLines == IInv /\ LinesInv /\ [Next]_vars => LinesInv'
  <1> SUFFICES ASSUME IInv, LinesInv, [Next]_vars PROVE LinesInv'
    OBVIOUS
  <1>1. CASE ReadLine
    BY <1>1, ReadLineKeepsLines
  <1>2. CASE EndOfSource
    BY <1>2, EndOfSourceKeepsLines
  <1>3. CASE AddUnhandledLabel \/ LabelInvalid
    BY <1>3, LabelKeepsLines
  <1>4. CASE HandleEQU
    BY <1>4, EquKeepsLines
  <1>5. CASE EquInvalid
    BY <1>5, EquInvalidKeepsLines
  <1>6. CASE RunAgain
    BY <1>6, RunAgainKeepsLines
  <1>7. CASE EndUpdate
    BY <1>7, EndUpdateKeepsLines
  <1>8. CASE HandlePUT
    BY <1>8, PutKeepsLines
  <1>9. CASE HandleLUP
    BY <1>9, LupKeepsLines
  <1>10. CASE HandleMAC
    BY <1>10, MacKeepsLines
  <1>11. CASE AssignParameters
    BY <1>11, AssignKeepsLines
  <1>12. CASE HandleMacroExpansion
    BY <1>12, CallKeepsLines
  <1>13. CASE PlainLine
    BY <1>13, PlainLineKeepsLines
  <1>14. CASE Abort \/ Crash
    BY <1>14, EndsStop, StopsKeepsLines
  <1>15. CASE UNCHANGED vars
    <2>1. stack \in Seq(Source)
      BY DEF IInv, TypeOK
    <2>2. /\ stack' = stack /\ texts' = texts /\ macros' = macros /\ phase' = phase
          /\ current' = current /\ waiting' = waiting /\ updates' = updates
          /\ covered' = covered
      BY <1>15 DEF vars
    <2>3. NothingIsLost'
      BY <2>2 DEF LinesInv, NothingIsLost, IsIncluded
    <2>4. LinesAreOfTexts'
      BY <2>2, TextsStay DEF LinesInv, LinesAreOfTexts
    <2>5. TopEndsWithPush' <=> TopEndsWithPush
      BY <2>2 DEF TopEndsWithPush, ReadLinePushes, Top, IsEndOfFile, IsTextAtEnd
    <2> QED BY <2>1, <2>2, <2>3, <2>4, <2>5, LinesStayByStack DEF LinesInv
  <1> QED BY <1>1, <1>2, <1>3, <1>4, <1>5, <1>6, <1>7, <1>8, <1>9, <1>10,
             <1>11, <1>12, <1>13, <1>14, <1>15 DEF Next, PlainLine

(* When the assembler stops reading (getNextSourceLine pops one source and *)
(* no more), every file, loop and macro has been read to its end, unless   *)
(* an included file, the body of a loop or a macro has a PUT or a macro    *)
(* call as its last line, or a line that was assembled again has pushed a  *)
(* source on one that had ended, or an empty one                           *)
(* (updateLineWithForwardReference).                                       *)
THEOREM EverySourceIsRead == Spec => []NothingIsLost
  <1>1. LinesInv => NothingIsLost
    BY DEF LinesInv
  <1> QED BY <1>1, InitEstablishesLines, NextKeepsLines, Invariance, PTL DEF Spec

-----------------------------------------------------------------------------
(***************************************************************************)
(* The refinement of LineReader.  Left(st) is what the sources of a stack  *)
(* have still to give, the one on top first.  Reading takes its first      *)
(* line, popping a source that has ended takes nothing, a source pushed    *)
(* puts its lines in front, and one that goes on k lines takes k.  What    *)
(* FlattenSeq, a recursive function, yields is shown from its equations.   *)
(***************************************************************************)
LEMMA EveryNumber ==
    ASSUME NEW S, 0 \in S, \A n \in Nat : n \in S => n + 1 \in S
    PROVE  Nat \subseteq S
  <1> DEFINE Missing == {n \in Nat : n \notin S}
  <1> SUFFICES ASSUME Missing # {} PROVE FALSE
    BY Zenon
  <1>1. PICK x \in Missing : \A y \in Missing : x <= y
    BY LeastNumber
  <1>2. x \in Nat /\ x \notin S
    OBVIOUS
  <1>3. x # 0
    BY <1>2
  <1>4. PICK k \in Nat : x = k + 1
    BY <1>2, <1>3, SMT
  <1>5. k \in S
    <2>1. ~(x <= k)
      BY <1>4, SMT
    <2> QED BY <1>1, <2>1, Zenon
  <1> QED BY <1>2, <1>4, <1>5, Zenon

-----------------------------------------------------------------------------
(* One sequence out of many. *)

IsFlattening(f, n, ss) ==
  f = [i \in 1 .. n |-> IF i = 1 THEN ss[i] ELSE f[i - 1] \o ss[i]]

LEMMA FlatteningExists ==
    ASSUME NEW ss, NEW n \in Nat
    PROVE  \E f : IsFlattening(f, n, ss)
  <1> DEFINE S == {m \in Nat : \E f : IsFlattening(f, m, ss)}
  <1>1. 0 \in S
    <2>1. PICK f : f = [i \in 1 .. 0 |-> ss]
      OBVIOUS
    <2>2. \A i \in 1 .. 0 : FALSE
      BY SMT
    <2>3. f = [i \in 1 .. 0 |-> IF i = 1 THEN ss[i] ELSE f[i - 1] \o ss[i]]
      BY <2>1, <2>2, Zenon
    <2>4. IsFlattening(f, 0, ss)
      BY <2>3, Zenon DEF IsFlattening
    <2>5. 0 \in Nat
      BY SMT
    <2> QED BY <2>4, <2>5, Zenon
  <1>2. ASSUME NEW m \in Nat, m \in S PROVE m + 1 \in S
    <2>1. PICK f : IsFlattening(f, m, ss)
      BY <1>2
    <2>2. PICK next : next = IF m + 1 = 1 THEN ss[m + 1] ELSE f[m] \o ss[m + 1]
      OBVIOUS
    <2>3. PICK g : g = [i \in 1 .. m + 1 |-> IF i = m + 1 THEN next ELSE f[i]]
      OBVIOUS
    <2>4. ASSUME NEW i \in 1 .. m + 1
          PROVE  g[i] = IF i = 1 THEN ss[i] ELSE g[i - 1] \o ss[i]
      <3>1. CASE i = m + 1
        <4>1. g[i] = next
          BY <2>3, <3>1, Zenon
        <4>2. CASE i = 1
          BY <2>2, <3>1, <4>1, <4>2, Zenon
        <4>3. CASE i # 1
          <5>1. PICK k : k = i - 1
            OBVIOUS
          <5>2. k = m /\ k \in 1 .. m + 1 /\ k # m + 1
            BY <3>1, <4>3, <5>1, SMT
          <5>3. g[k] = f[m]
            BY <2>3, <5>2, Zenon
          <5> QED BY <2>2, <3>1, <4>1, <4>3, <5>1, <5>3, Zenon
        <4> QED BY <4>2, <4>3
      <3>2. CASE i # m + 1
        <4>1. PICK k : k = i - 1
          OBVIOUS
        <4>2. i \in 1 .. m /\ (i # 1 => k \in 1 .. m + 1 /\ k # m + 1)
          BY <3>2, <4>1, SMT
        <4>3. g[i] = f[i] /\ (i # 1 => g[k] = f[k])
          BY <2>3, <3>2, <4>2, Zenon
        <4>4. f[i] = IF i = 1 THEN ss[i] ELSE f[i - 1] \o ss[i]
          BY <2>1, <4>2, Zenon DEF IsFlattening
        <4> QED BY <4>1, <4>3, <4>4, Zenon
      <3> QED BY <3>1, <3>2
    <2>5. IsFlattening(g, m + 1, ss)
      BY <2>3, <2>4, Zenon DEF IsFlattening
    <2>6. m + 1 \in Nat
      BY SMT
    <2> QED BY <2>5, <2>6
  <1> HIDE DEF S
  <1>3. n \in S
    BY <1>1, <1>2, EveryNumber, Zenon
  <1> USE DEF S
  <1> QED BY <1>3, Zenon

LEMMA FlattenedSequences ==
    ASSUME NEW ss, Len(ss) \in Nat, Len(ss) # 0
    PROVE  \E f : IsFlattening(f, Len(ss), ss) /\ FlattenSeq(ss) = f[Len(ss)]
  <1> DEFINE h == CHOOSE f : IsFlattening(f, Len(ss), ss)
  <1>1. \E f : IsFlattening(f, Len(ss), ss)
    BY FlatteningExists, Zenon
  <1>2. IsFlattening(h, Len(ss), ss)
    BY <1>1, Zenon
  <1>3. FlattenSeq(ss) = h[Len(ss)]
    BY Zenon DEF FlattenSeq, IsFlattening
  <1> QED BY <1>2, <1>3, Zenon

LEMMA FlattenedNothing == FlattenSeq(<<>>) = <<>>
  <1>1. Len(<<>>) = 0
    BY EmptySeq
  <1> QED BY <1>1, Zenon DEF FlattenSeq

LEMMA FlattenedIsSequence ==
    ASSUME NEW S, NEW ss \in Seq(Seq(S))
    PROVE  FlattenSeq(ss) \in Seq(S)
  <1>1. Len(ss) \in Nat /\ DOMAIN ss = 1 .. Len(ss) /\ \A i \in 1 .. Len(ss) : ss[i] \in Seq(S)
    BY LenProperties, ElementOfSeq
  <1>2. CASE Len(ss) = 0
    <2>1. ss = <<>>
      BY <1>2, EmptySeq
    <2> QED BY <2>1, FlattenedNothing, EmptySeq, Zenon
  <1>3. CASE Len(ss) # 0
    <2>1. PICK f : IsFlattening(f, Len(ss), ss) /\ FlattenSeq(ss) = f[Len(ss)]
      BY <1>1, <1>3, FlattenedSequences, Zenon
    <2>2. PICK n \in Nat : n = Len(ss)
      BY <1>1
    <2> DEFINE T == {m \in Nat : 1 <= m /\ m <= n => f[m] \in Seq(S)}
    <2>3. 0 \in T
      BY SMT
    <2>4. ASSUME NEW m \in Nat, m \in T PROVE m + 1 \in T
      <3>1. PICK k : k = m + 1
        OBVIOUS
      <3>2. k \in Nat /\ (k # 1 => 1 <= m) /\ m = k - 1
        BY <3>1, SMT
      <3>3. ASSUME 1 <= k, k <= n PROVE f[k] \in Seq(S)
        <4>1. k \in 1 .. n /\ m <= n
          BY <3>1, <3>2, <3>3, SMT
        <4>2. f[k] = IF k = 1 THEN ss[k] ELSE f[k - 1] \o ss[k]
          BY <2>1, <2>2, <4>1, Zenon DEF IsFlattening
        <4>3. ss[k] \in Seq(S)
          BY <1>1, <2>2, <4>1, Zenon
        <4>4. CASE k = 1
          BY <4>2, <4>3, <4>4, Zenon
        <4>5. CASE k # 1
          <5>1. f[m] \in Seq(S)
            BY <2>4, <3>2, <4>1, <4>5, Zenon
          <5>2. f[k] = f[m] \o ss[k]
            BY <3>2, <4>2, <4>5, Zenon
          <5> QED BY <4>3, <5>1, <5>2, ConcatProperties, Zenon
        <4> QED BY <4>4, <4>5
      <3> QED BY <3>1, <3>2, <3>3, Zenon
    <2> HIDE DEF T
    <2>5. n \in T
      BY <2>3, <2>4, EveryNumber, Zenon
    <2> USE DEF T
    <2>6. 1 <= n /\ n <= n
      BY <1>3, <2>2, SMT
    <2> QED BY <2>1, <2>2, <2>5, <2>6, Zenon
  <1> QED BY <1>2, <1>3

(* The first sequence goes in front of the rest. *)
LEMMA FlattenedFirst ==
    ASSUME NEW S, NEW s \in Seq(S), NEW ss \in Seq(Seq(S))
    PROVE  FlattenSeq(<<s>> \o ss) = s \o FlattenSeq(ss)
  <1> DEFINE tt == <<s>> \o ss
  <1>1. Len(ss) \in Nat /\ \A i \in 1 .. Len(ss) : ss[i] \in Seq(S)
    BY LenProperties, ElementOfSeq
  <1>2. /\ tt \in Seq(Seq(S)) /\ Len(tt) = 1 + Len(ss)
        /\ \A i \in 1 .. 1 + Len(ss) : tt[i] = IF i <= 1 THEN <<s>>[i] ELSE ss[i - 1]
    <2>1. <<s>> \in Seq(Seq(S)) /\ Len(<<s>>) = 1
      OBVIOUS
    <2> QED BY <2>1, ConcatProperties
  <1>3. PICK n \in Nat : n = Len(ss)
    BY <1>1
  <1>4. PICK t : t = tt
    OBVIOUS
  <1>5. /\ t \in Seq(Seq(S)) /\ Len(t) = n + 1 /\ Len(t) \in Nat /\ Len(t) # 0
        /\ t[1] = s /\ \A i \in 1 .. n : t[i + 1] = ss[i]
    <2>1. Len(t) = n + 1 /\ Len(t) \in Nat /\ Len(t) # 0
      BY <1>2, <1>3, <1>4, SMT
    <2>2. t[1] = s
      <3>1. 1 \in 1 .. 1 + Len(ss) /\ 1 <= 1 /\ <<s>>[1] = s
        BY <1>1, SMT
      <3> QED BY <1>2, <1>4, <3>1, Zenon
    <2>3. ASSUME NEW i \in 1 .. n PROVE t[i + 1] = ss[i]
      <3>1. i + 1 \in 1 .. 1 + Len(ss) /\ ~(i + 1 <= 1) /\ (i + 1) - 1 = i
        BY <1>3, SMT
      <3>2. t[i + 1] = ss[(i + 1) - 1]
        BY <1>2, <1>4, <3>1, Zenon
      <3> QED BY <3>1, <3>2, Zenon
    <2> QED BY <1>2, <1>4, <2>1, <2>2, <2>3, Zenon
  <1> HIDE DEF tt
  <1>6. PICK g : IsFlattening(g, Len(t), t) /\ FlattenSeq(t) = g[Len(t)]
    BY <1>5, FlattenedSequences, Zenon
  <1>7. g[1] = s
    <2>1. 1 \in 1 .. Len(t)
      BY <1>5, SMT
    <2>2. g[1] = IF 1 = 1 THEN t[1] ELSE g[1 - 1] \o t[1]
      BY <1>6, <2>1, Zenon DEF IsFlattening
    <2> QED BY <1>5, <2>2, Zenon
  <1>8. CASE n = 0
    <2>1. ss = <<>>
      BY <1>3, <1>8, EmptySeq
    <2>2. Len(t) = 1
      BY <1>5, <1>8, SMT
    <2>3. FlattenSeq(t) = s
      BY <1>6, <1>7, <2>2, Zenon
    <2>4. s \o <<>> = s
      BY ConcatEmptySeq
    <2> QED BY <1>4, <2>1, <2>3, <2>4, FlattenedNothing, Zenon DEF tt
  <1>9. CASE n # 0
    <2>1. PICK f : IsFlattening(f, Len(ss), ss) /\ FlattenSeq(ss) = f[Len(ss)]
      BY <1>1, <1>3, <1>9, FlattenedSequences, Zenon
    <2> DEFINE T == {m \in Nat : 1 <= m /\ m <= n =>
                        f[m] \in Seq(S) /\ g[m + 1] = s \o f[m]}
    <2>2. 0 \in T
      BY SMT
    <2>3. ASSUME NEW m \in Nat, m \in T PROVE m + 1 \in T
      <3>1. PICK k : k = m + 1
        OBVIOUS
      <3>2. k \in Nat /\ (k # 1 => 1 <= m) /\ m = k - 1
        BY <3>1, SMT
      <3>3. ASSUME 1 <= k, k <= n PROVE f[k] \in Seq(S) /\ g[k + 1] = s \o f[k]
        <4>1. k \in 1 .. n /\ m <= n /\ k + 1 \in 1 .. n + 1 /\ k + 1 # 1
              /\ (k + 1) - 1 = k
          BY <3>1, <3>2, <3>3, SMT
        <4>2. f[k] = IF k = 1 THEN ss[k] ELSE f[k - 1] \o ss[k]
          BY <1>3, <2>1, <4>1, Zenon DEF IsFlattening
        <4>3. g[k + 1] = g[k] \o ss[k]
          <5>1. g[k + 1] = IF k + 1 = 1 THEN t[k + 1] ELSE g[(k + 1) - 1] \o t[k + 1]
            BY <1>5, <1>6, <4>1, Zenon DEF IsFlattening
          <5>2. t[k + 1] = ss[k]
            BY <1>5, <4>1, Zenon
          <5> QED BY <4>1, <5>1, <5>2, Zenon
        <4>4. ss[k] \in Seq(S)
          BY <1>1, <1>3, <4>1, Zenon
        <4>5. CASE k = 1
          BY <1>7, <4>2, <4>3, <4>4, <4>5, Zenon
        <4>6. CASE k # 1
          <5>1. f[m] \in Seq(S) /\ g[m + 1] = s \o f[m]
            BY <2>3, <3>2, <4>1, <4>6, Zenon
          <5>2. f[k] = f[m] \o ss[k]
            BY <3>2, <4>2, <4>6, Zenon
          <5>3. f[k] \in Seq(S)
            BY <4>4, <5>1, <5>2, ConcatProperties, Zenon
          <5>4. g[k + 1] = (s \o f[m]) \o ss[k]
            BY <3>1, <4>3, <5>1, Zenon
          <5>5. (s \o f[m]) \o ss[k] = s \o (f[m] \o ss[k])
            <6>1. PICK a \in Seq(S) : a = f[m]
              BY <5>1
            <6>2. PICK b \in Seq(S) : b = ss[k]
              BY <4>4
            <6>3. (s \o a) \o b = s \o (a \o b)
              BY ConcatAssociative
            <6> QED BY <6>1, <6>2, <6>3, Zenon
          <5> QED BY <5>2, <5>3, <5>4, <5>5, Zenon
        <4> QED BY <4>5, <4>6
      <3> QED BY <3>1, <3>2, <3>3, Zenon
    <2> HIDE DEF T
    <2>4. n \in T
      BY <2>2, <2>3, EveryNumber, Zenon
    <2> USE DEF T
    <2>5. 1 <= n /\ n <= n
      BY <1>9, SMT
    <2>6. g[n + 1] = s \o f[n]
      BY <2>4, <2>5, Zenon
    <2> QED BY <1>3, <1>4, <1>5, <1>6, <2>1, <2>6, Zenon DEF tt
  <1> QED BY <1>8, <1>9

-----------------------------------------------------------------------------
(* The same again and again. *)

Repeated(x, k) == [i \in 1 .. k |-> x]

LEMMA RepetitionIsSequence ==
    ASSUME NEW S, NEW x \in S, NEW k \in Nat
    PROVE  Repeated(x, k) \in Seq(S) /\ Len(Repeated(x, k)) = k
  <1>1. Repeated(x, k) \in [1 .. k -> S]
    BY DEF Repeated
  <1>2. Repeated(x, k) \in Seq(S)
    BY <1>1, SeqDef
  <1>3. DOMAIN Repeated(x, k) = 1 .. k
    BY DEF Repeated
  <1>4. Len(Repeated(x, k)) \in Nat /\ DOMAIN Repeated(x, k) = 1 .. Len(Repeated(x, k))
    BY <1>2, LenProperties
  <1> QED BY <1>2, <1>3, <1>4, SMT

LEMMA NothingRepeated == ASSUME NEW x PROVE Repeated(x, 0) = <<>>
  <1>1. Repeated(x, 0) \in Seq({x}) /\ Len(Repeated(x, 0)) = 0
    BY RepetitionIsSequence
  <1> QED BY <1>1, EmptySeq

LEMMA OnceMore ==
    ASSUME NEW S, NEW x \in S, NEW k \in Nat
    PROVE  Repeated(x, k + 1) = <<x>> \o Repeated(x, k)
  <1>1. k + 1 \in Nat
    OBVIOUS
  <1>2. Repeated(x, k) \in Seq(S) /\ Len(Repeated(x, k)) = k
    BY RepetitionIsSequence
  <1>3. Repeated(x, k + 1) \in Seq(S) /\ Len(Repeated(x, k + 1)) = k + 1
    BY <1>1, RepetitionIsSequence
  <1>4. <<x>> \in Seq(S) /\ Len(<<x>>) = 1
    OBVIOUS
  <1>5. /\ <<x>> \o Repeated(x, k) \in Seq(S)
        /\ Len(<<x>> \o Repeated(x, k)) = 1 + k
        /\ \A i \in 1 .. 1 + k : (<<x>> \o Repeated(x, k))[i] =
              IF i <= 1 THEN <<x>>[i] ELSE Repeated(x, k)[i - 1]
    BY <1>2, <1>4, ConcatProperties
  <1>6. ASSUME NEW i \in 1 .. k + 1
        PROVE  Repeated(x, k + 1)[i] = (<<x>> \o Repeated(x, k))[i]
    <2>1. Repeated(x, k + 1)[i] = x
      BY DEF Repeated
    <2>2. i \in 1 .. 1 + k
      BY SMT
    <2>3. CASE i <= 1
      <3>1. i = 1
        BY <2>3, SMT
      <3>2. <<x>>[i] = x
        BY <3>1
      <3> QED BY <1>5, <2>1, <2>2, <2>3, <3>2, Zenon
    <2>4. CASE ~(i <= 1)
      <3>1. i - 1 \in 1 .. k
        BY <2>4, SMT
      <3>2. Repeated(x, k)[i - 1] = x
        BY <3>1, Zenon DEF Repeated
      <3> QED BY <1>5, <2>1, <2>2, <2>4, <3>2, Zenon
    <2> QED BY <2>3, <2>4
  <1>7. Len(Repeated(x, k + 1)) = Len(<<x>> \o Repeated(x, k))
    BY <1>3, <1>5, SMT
  <1> QED BY <1>3, <1>5, <1>6, <1>7, SeqEqual

(* The lines of k iterations. *)
Iterations(body, k) ==
    IF body = <<>> THEN Repeated(Blank, k) ELSE FlattenSeq(Repeated(body, k))

LEMMA IterationsAreLines ==
    ASSUME NEW body \in Seq(Line), NEW k \in Nat
    PROVE  Iterations(body, k) \in Seq(Line)
  <1>1. Repeated(Blank, k) \in Seq(Line)
    BY BlankIsALine, RepetitionIsSequence
  <1>2. Repeated(body, k) \in Seq(Seq(Line))
    BY RepetitionIsSequence
  <1>3. FlattenSeq(Repeated(body, k)) \in Seq(Line)
    BY <1>2, FlattenedIsSequence
  <1> QED BY <1>1, <1>3, Zenon DEF Iterations

LEMMA NoIterations == ASSUME NEW body PROVE Iterations(body, 0) = <<>>
  BY NothingRepeated, FlattenedNothing, Zenon DEF Iterations

LEMMA OneMoreIteration ==
    ASSUME NEW body \in Seq(Line), NEW k \in Nat
    PROVE  Iterations(body, k + 1) =
               (IF body = <<>> THEN <<Blank>> ELSE body) \o Iterations(body, k)
  <1>1. CASE body = <<>>
    <2>1. Repeated(Blank, k + 1) = <<Blank>> \o Repeated(Blank, k)
      BY BlankIsALine, OnceMore, Zenon
    <2> QED BY <1>1, <2>1, Zenon DEF Iterations
  <1>2. CASE body # <<>>
    <2>1. Repeated(body, k + 1) = <<body>> \o Repeated(body, k)
      BY OnceMore, Zenon
    <2>2. Repeated(body, k) \in Seq(Seq(Line))
      BY RepetitionIsSequence
    <2>3. FlattenSeq(<<body>> \o Repeated(body, k)) = body \o FlattenSeq(Repeated(body, k))
      BY <2>2, FlattenedFirst, Zenon
    <2> QED BY <1>2, <2>1, <2>3, Zenon DEF Iterations
  <1> QED BY <1>1, <1>2

-----------------------------------------------------------------------------
(* What a source and a stack have left. *)

Rest(source) == SubSeq(source.lines, source.next + 1, Len(source.lines))

LEMMA RestIsLines ==
    ASSUME NEW s, IsSource(s)
    PROVE  Rest(s) \in Seq(Line) /\ Len(Rest(s)) = Len(s.lines) - s.next
  <1>1. s.lines \in Seq(Line) /\ s.next \in Nat /\ s.next <= Len(s.lines) /\ Len(s.lines) \in Nat
    BY SourceFields DEF IsSource
  <1>2. PICK e : e = Len(s.lines) + 1
    OBVIOUS
  <1>3. e \in Nat /\ s.next + 1 <= e /\ e <= Len(s.lines) + 1 /\ e - 1 = Len(s.lines)
    BY <1>1, <1>2, SMT
  <1>4. /\ SubSeq(s.lines, s.next + 1, e - 1) \in Seq(Line)
        /\ Len(SubSeq(s.lines, s.next + 1, e - 1)) = e - 1 - s.next
    BY <1>1, <1>3, LinesInFrontOf
  <1> QED BY <1>3, <1>4 DEF Rest

(* The iterations a loop has still to begin. *)
Again(source) ==
    IF source.kind # "lup" THEN <<>> ELSE Iterations(source.lines, source.iterations - 1)

LEMMA UnreadForm == ASSUME NEW s PROVE Unread(s) = Rest(s) \o Again(s)
  BY Zenon DEF Unread, Rest, Again, Iterations, Repeated

LEMMA AgainIsLines ==
    ASSUME NEW s, IsSource(s), s.kind = "lup" => s.iterations >= 1
    PROVE  Again(s) \in Seq(Line)
  <1>1. s.lines \in Seq(Line) /\ s.iterations \in Nat
    BY SourceFields DEF IsSource
  <1>2. CASE s.kind # "lup"
    BY <1>2, EmptySeq DEF Again
  <1>3. CASE s.kind = "lup"
    <2>1. PICK k : k = s.iterations - 1
      OBVIOUS
    <2>2. k \in Nat
      BY <1>1, <1>3, <2>1, SMT
    <2>3. Again(s) = Iterations(s.lines, k)
      BY <1>3, <2>1 DEF Again
    <2> QED BY <1>1, <2>2, <2>3, IterationsAreLines
  <1> QED BY <1>2, <1>3

LEMMA UnreadIsLines ==
    ASSUME NEW s, IsSource(s), s.kind = "lup" => s.iterations >= 1
    PROVE  Unread(s) \in Seq(Line)
  BY UnreadForm, RestIsLines, AgainIsLines, ConcatProperties

(* A source that has ended has nothing left. *)
LEMMA EndedIsRead ==
    ASSUME NEW s, IsSource(s), IsEndOfFile(s)
    PROVE  Unread(s) = <<>>
  <1>1. s.next = Len(s.lines) /\ Len(s.lines) \in Nat
    BY SourceFields DEF IsSource, IsEndOfFile, IsTextAtEnd
  <1>2. Rest(s) \in Seq(Line) /\ Len(Rest(s)) = 0
    BY <1>1, RestIsLines, SMT
  <1>3. Rest(s) = <<>>
    BY <1>2, EmptySeq
  <1>4. Again(s) = <<>>
    <2>1. CASE s.kind # "lup"
      BY <2>1 DEF Again
    <2>2. CASE s.kind = "lup"
      <3>1. s.iterations - 1 = 0
        BY <2>2 DEF IsEndOfFile
      <3> QED BY <2>2, <3>1, NoIterations DEF Again
    <2> QED BY <2>1, <2>2
  <1>5. <<>> \o <<>> = <<>>
    BY ConcatEmptySeq, EmptySeq
  <1> QED BY <1>3, <1>4, <1>5, UnreadForm

(* The next line of a text with lines left. *)
LEMMA FirstOfTheRest ==
    ASSUME NEW s, IsSource(s), ~IsTextAtEnd(s)
    PROVE  /\ IsSource(Consumed(s)) /\ Again(Consumed(s)) = Again(s)
           /\ TextLine(s) \in Line
           /\ Rest(s) = <<TextLine(s)>> \o Rest(Consumed(s))
  <1>1. /\ s \in Source /\ s.lines \in Seq(Line) /\ s.next \in Nat
        /\ s.next <= Len(s.lines) /\ Len(s.lines) \in Nat /\ s.next # Len(s.lines)
    BY SourceFields DEF IsSource, IsTextAtEnd
  <1>2. PICK n : n = s.next + 1
    OBVIOUS
  <1>3. /\ n \in Nat /\ n <= Len(s.lines) /\ n \in 1 .. Len(s.lines)
        /\ Len(s.lines) \in n .. Len(s.lines)
    BY <1>1, <1>2, SMT
  <1>4. Consumed(s) = [s EXCEPT !.next = n] /\ TextLine(s) = s.lines[n]
    BY <1>2 DEF Consumed, TextLine
  <1>5. /\ IsSource(Consumed(s)) /\ Consumed(s).kind = s.kind
        /\ Consumed(s).lines = s.lines /\ Consumed(s).next = n
        /\ Consumed(s).iterations = s.iterations
    BY <1>1, <1>3, <1>4, MovedSource
  <1>6. Again(Consumed(s)) = Again(s)
    BY <1>5, Zenon DEF Again
  <1>7. SubSeq(s.lines, n, Len(s.lines)) = <<s.lines[n]>> \o SubSeq(s.lines, n + 1, Len(s.lines))
    BY <1>1, <1>3, SubSeqRecursiveFirst
  <1>8. Rest(s) = <<TextLine(s)>> \o Rest(Consumed(s))
    BY <1>2, <1>4, <1>5, <1>7, Zenon DEF Rest
  <1>9. TextLine(s) \in Line
    BY <1>1, <1>3, <1>4, ElementOfSeq
  <1> QED BY <1>5, <1>6, <1>8, <1>9

(* Reading takes the first of the lines left. *)
LEMMA ReadingTakesTheFirst ==
    ASSUME NEW s, IsSource(s), s.kind = "lup" => s.iterations >= 1, ~IsEndOfFile(s)
    PROVE  Unread(s) = <<NextLine(s)>> \o Unread(Advanced(s))
  <1>1. /\ s \in Source /\ s.lines \in Seq(Line) /\ s.next \in Nat /\ s.iterations \in Nat
        /\ s.next <= Len(s.lines) /\ Len(s.lines) \in Nat
    BY SourceFields DEF IsSource
  <1>2. /\ IsSource(Advanced(s)) /\ Advanced(s).kind = s.kind
        /\ s.kind = "lup" => Advanced(s).iterations >= 1
        /\ NextLine(s) \in Line
    BY ReadingASource
  <1>3. Unread(Advanced(s)) \in Seq(Line)
    BY <1>2, UnreadIsLines
  <1>4. CASE ShouldStartNextIteration(s)
    <2>1. PICK k : k = s.iterations - 1
      OBVIOUS
    <2>2. s.kind = "lup" /\ IsTextAtEnd(s) /\ k \in Nat /\ k >= 1
      BY <1>1, <1>4, <2>1, SMT DEF ShouldStartNextIteration
    <2>3. PICK r : r = [s EXCEPT !.next = 0, !.iterations = k]
      OBVIOUS
    <2>4. /\ r \in Source /\ r.next = 0 /\ r.kind = s.kind /\ r.lines = s.lines
          /\ r.iterations = k
      BY <1>1, <2>2, <2>3, RestartedSource
    <2>5. IsSource(r)
      BY <1>1, <2>4, SMT DEF IsSource
    <2>6. Rewound(s) = r
      BY <1>4, <2>1, <2>3 DEF Rewound
    <2>7. PICK j : j = k - 1
      OBVIOUS
    <2>8. j \in Nat /\ k = j + 1
      BY <2>2, <2>7, SMT
    <2>9. Unread(s) = Iterations(s.lines, k)
      <3>1. Rest(s) \in Seq(Line) /\ Len(Rest(s)) = 0
        BY <1>1, <2>2, RestIsLines, SMT DEF IsTextAtEnd
      <3>2. Rest(s) = <<>>
        BY <3>1, EmptySeq
      <3>3. Again(s) = Iterations(s.lines, k)
        BY <2>1, <2>2 DEF Again
      <3>4. Iterations(s.lines, k) \in Seq(Line)
        BY <1>1, <2>2, IterationsAreLines
      <3> QED BY <3>2, <3>3, <3>4, UnreadForm, ConcatEmptySeq
    <2>10. Iterations(s.lines, k) =
               (IF s.lines = <<>> THEN <<Blank>> ELSE s.lines) \o Iterations(s.lines, j)
      BY <1>1, <2>8, OneMoreIteration, Zenon
    <2>11. Again(r) = Iterations(s.lines, j)
      BY <2>2, <2>4, <2>7, Zenon DEF Again
    <2>12. /\ Rest(r) = s.lines
           /\ Again(r) \in Seq(Line)
      <3>1. SubSeq(s.lines, 1, Len(s.lines)) = s.lines /\ 0 + 1 = 1
        BY <1>1, SubSeqFull
      <3>2. r.kind = "lup" => r.iterations >= 1
        BY <2>2, <2>4
      <3> QED BY <2>4, <2>5, <3>1, <3>2, AgainIsLines DEF Rest
    <2>13. NextLine(s) = TextLine(r) /\ Advanced(s) = Consumed(r)
      BY <2>6 DEF NextLine, Advanced
    <2>14. CASE s.lines = <<>>
      <3>1. Len(s.lines) = 0
        BY <2>14, EmptySeq
      <3>2. IsTextAtEnd(r)
        BY <2>4, <3>1 DEF IsTextAtEnd
      <3>3. TextLine(r) = Blank /\ Consumed(r) = r
        BY <3>2 DEF TextLine, Consumed
      <3>4. Unread(r) = Again(r)
        <4>1. Unread(r) = s.lines \o Again(r)
          BY <2>12, UnreadForm
        <4> QED BY <2>12, <2>14, <4>1, ConcatEmptySeq
      <3>5. Iterations(s.lines, k) = <<Blank>> \o Iterations(s.lines, j)
        BY <2>10, <2>14, Zenon
      <3> QED BY <2>9, <2>11, <2>13, <3>3, <3>4, <3>5, Zenon
    <2>15. CASE s.lines # <<>>
      <3>1. Len(s.lines) # 0
        BY <1>1, <2>15, EmptySeq
      <3>2. ~IsTextAtEnd(r)
        BY <2>4, <3>1 DEF IsTextAtEnd
      <3>3. /\ IsSource(Consumed(r)) /\ Again(Consumed(r)) = Again(r)
            /\ TextLine(r) \in Line
            /\ Rest(r) = <<TextLine(r)>> \o Rest(Consumed(r))
        BY <2>5, <3>2, FirstOfTheRest
      <3>4. Unread(s) = Rest(r) \o Again(r)
        BY <2>9, <2>10, <2>11, <2>12, <2>15, Zenon
      <3>5. Rest(Consumed(r)) \in Seq(Line) /\ <<TextLine(r)>> \in Seq(Line)
        BY <3>3, RestIsLines
      <3>6. (<<TextLine(r)>> \o Rest(Consumed(r))) \o Again(r)
                = <<TextLine(r)>> \o (Rest(Consumed(r)) \o Again(r))
        BY <2>12, <3>5, ConcatAssociative
      <3>7. Unread(Consumed(r)) = Rest(Consumed(r)) \o Again(r)
        BY <3>3, UnreadForm, Zenon
      <3> QED BY <2>13, <3>3, <3>4, <3>6, <3>7, Zenon
    <2> QED BY <2>14, <2>15
  <1>5. CASE ~ShouldStartNextIteration(s)
    <2>1. Rewound(s) = s
      BY <1>5 DEF Rewound
    <2>2. ~IsTextAtEnd(s)
      BY <1>1, <1>5, SMT DEF ShouldStartNextIteration, IsEndOfFile
    <2>3. NextLine(s) = TextLine(s) /\ Advanced(s) = Consumed(s)
      BY <2>1 DEF NextLine, Advanced
    <2>4. /\ IsSource(Consumed(s)) /\ Again(Consumed(s)) = Again(s)
          /\ TextLine(s) \in Line
          /\ Rest(s) = <<TextLine(s)>> \o Rest(Consumed(s))
      BY <2>2, FirstOfTheRest
    <2>5. Rest(Consumed(s)) \in Seq(Line) /\ <<TextLine(s)>> \in Seq(Line)
          /\ Again(s) \in Seq(Line)
      BY <2>4, RestIsLines, AgainIsLines
    <2>6. (<<TextLine(s)>> \o Rest(Consumed(s))) \o Again(s)
              = <<TextLine(s)>> \o (Rest(Consumed(s)) \o Again(s))
      BY <2>5, ConcatAssociative
    <2>7. Unread(Consumed(s)) = Rest(Consumed(s)) \o Again(s)
      BY <2>4, UnreadForm, Zenon
    <2>8. Unread(s) = Rest(s) \o Again(s)
      BY UnreadForm
    <2> QED BY <2>3, <2>4, <2>6, <2>7, <2>8, Zenon
  <1> QED BY <1>4, <1>5

(* The lines still to be read: those of the source on top first. *)
Left(st) == FlattenSeq([i \in DOMAIN st |-> Unread(st[Len(st) + 1 - i])])

AllUnread(st) == \A i \in DOMAIN st : Unread(st[i]) \in Seq(Line)

LEMMA StackIsUnread == ASSUME NEW st, IsStack(st) PROVE AllUnread(st)
  <1>1. ASSUME NEW i \in DOMAIN st PROVE Unread(st[i]) \in Seq(Line)
    <2>1. st[i] \in Source /\ st[i].next <= Len(st[i].lines)
      BY LenProperties, ElementOfSeq DEF IsStack
    <2>2. st[i].kind = "lup" => st[i].iterations >= 1
      BY DEF IsStack, IsLoopOf
    <2> QED BY <2>1, <2>2, UnreadIsLines DEF IsSource
  <1> QED BY <1>1 DEF AllUnread

LEMMA NothingLeft == Left(<<>>) = <<>>
  <1>1. PICK u : u = [i \in DOMAIN <<>> |-> Unread(<<>>[Len(<<>>) + 1 - i])]
    OBVIOUS
  <1>2. u = <<>>
    <2>1. DOMAIN <<>> = {}
      OBVIOUS
    <2>2. u \in [1 .. 0 -> {}]
      <3>1. 1 .. 0 = {}
        BY SMT
      <3> QED BY <1>1, <2>1, <3>1, Zenon
    <2>3. u \in Seq({})
      BY <2>2, SeqDef
    <2>4. Len(u) = 0
      <3>1. DOMAIN u = 1 .. Len(u) /\ Len(u) \in Nat
        BY <2>3, LenProperties
      <3>2. DOMAIN u = {}
        BY <1>1, <2>1, Zenon
      <3> QED BY <3>1, <3>2, SMT
    <2> QED BY <2>3, <2>4, EmptySeq
  <1> QED BY <1>1, <1>2, FlattenedNothing, Zenon DEF Left

LEMMA LeftIsLines ==
    ASSUME NEW st \in Seq(Source), AllUnread(st)
    PROVE  /\ [i \in DOMAIN st |-> Unread(st[Len(st) + 1 - i])] \in Seq(Seq(Line))
           /\ Left(st) \in Seq(Line)
  <1>1. PICK n \in Nat : n = Len(st) /\ DOMAIN st = 1 .. n
    BY LenProperties
  <1>2. PICK u : u = [i \in DOMAIN st |-> Unread(st[Len(st) + 1 - i])]
    OBVIOUS
  <1>3. ASSUME NEW i \in 1 .. n PROVE Unread(st[Len(st) + 1 - i]) \in Seq(Line)
    <2>1. Len(st) + 1 - i \in DOMAIN st
      BY <1>1, SMT
    <2> QED BY <2>1, Zenon DEF AllUnread
  <1>4. u \in [1 .. n -> Seq(Line)]
    BY <1>1, <1>2, <1>3, Zenon
  <1>5. u \in Seq(Seq(Line))
    BY <1>4, SeqDef
  <1>6. FlattenSeq(u) \in Seq(Line)
    BY <1>5, FlattenedIsSequence
  <1> QED BY <1>2, <1>5, <1>6, Zenon DEF Left

LEMMA LeftOfStack ==
    ASSUME NEW st \in Seq(Source), AllUnread(st), st # <<>>
    PROVE  /\ AllUnread(Front(st))
           /\ Left(st) = Unread(Last(st)) \o Left(Front(st))
           /\ Left(Front(st)) \in Seq(Line) /\ Unread(Last(st)) \in Seq(Line)
  <1>1. PICK n \in Nat : n = Len(st) /\ DOMAIN st = 1 .. n /\ n >= 1
    BY LenProperties, EmptySeq
  <1>2. PICK m : m = n - 1
    OBVIOUS
  <1>3. m \in Nat /\ n = m + 1 /\ m = Len(st) - 1 /\ Len(st) >= 1
    BY <1>1, <1>2, SMT
  <1>4. PICK fr : fr = Front(st)
    OBVIOUS
  <1>5. /\ fr \in Seq(Source) /\ Len(fr) = m /\ DOMAIN fr = 1 .. m
        /\ \A i \in 1 .. m : fr[i] = st[i]
    BY <1>3, <1>4, FrontElements
  <1>6. AllUnread(fr)
    <2>1. \A i \in 1 .. m : i \in 1 .. n
      BY <1>3, SMT
    <2> QED BY <1>1, <1>5, <2>1, Zenon DEF AllUnread
  <1>7. Last(st) = st[n] /\ n \in DOMAIN st /\ Unread(Last(st)) \in Seq(Line)
    <2>1. n \in 1 .. n
      BY <1>1, SMT
    <2> QED BY <1>1, <2>1, Zenon DEF Last, AllUnread
  <1>8. PICK u : u = [i \in DOMAIN st |-> Unread(st[Len(st) + 1 - i])]
    OBVIOUS
  <1>9. PICK v : v = [i \in DOMAIN fr |-> Unread(fr[Len(fr) + 1 - i])]
    OBVIOUS
  <1>10. u \in Seq(Seq(Line)) /\ v \in Seq(Seq(Line)) /\ Left(fr) \in Seq(Line)
    <2>1. [i \in DOMAIN st |-> Unread(st[Len(st) + 1 - i])] \in Seq(Seq(Line))
      BY LeftIsLines, Zenon
    <2>2. [i \in DOMAIN fr |-> Unread(fr[Len(fr) + 1 - i])] \in Seq(Seq(Line))
          /\ Left(fr) \in Seq(Line)
      BY <1>5, <1>6, LeftIsLines, Zenon
    <2> QED BY <1>8, <1>9, <2>1, <2>2, Zenon
  <1>11. Len(u) = n /\ Len(v) = m
    <2>1. DOMAIN u = 1 .. n /\ DOMAIN v = 1 .. m
      BY <1>1, <1>5, <1>8, <1>9, Zenon
    <2>2. DOMAIN u = 1 .. Len(u) /\ DOMAIN v = 1 .. Len(v) /\ Len(u) \in Nat /\ Len(v) \in Nat
      BY <1>10, LenProperties
    <2> QED BY <1>1, <1>3, <2>1, <2>2, SMT
  <1>12. PICK x : x = Unread(Last(st))
    OBVIOUS
  <1>13. /\ <<x>> \o v \in Seq(Seq(Line)) /\ Len(<<x>> \o v) = 1 + m
         /\ \A i \in 1 .. 1 + m : (<<x>> \o v)[i] = IF i <= 1 THEN <<x>>[i] ELSE v[i - 1]
    <2>1. <<x>> \in Seq(Seq(Line)) /\ Len(<<x>>) = 1
      BY <1>7, <1>12
    <2> QED BY <1>10, <1>11, <2>1, ConcatProperties
  <1>14. ASSUME NEW i \in 1 .. Len(u) PROVE u[i] = (<<x>> \o v)[i]
    <2>1. i \in 1 .. n /\ i \in 1 .. 1 + m
      BY <1>3, <1>11, <1>14, SMT
    <2>2. u[i] = Unread(st[Len(st) + 1 - i])
      BY <1>1, <1>8, <2>1, Zenon
    <2>3. CASE i <= 1
      <3>1. i = 1 /\ Len(st) + 1 - i = n
        BY <1>1, <2>1, <2>3, SMT
      <3>2. <<x>>[i] = x
        BY <3>1
      <3> QED BY <1>7, <1>12, <1>13, <2>1, <2>2, <2>3, <3>1, <3>2, Zenon
    <2>4. CASE ~(i <= 1)
      <3>1. PICK k : k = i - 1
        OBVIOUS
      <3>2. PICK j : j = Len(st) + 1 - i
        OBVIOUS
      <3>3. k \in 1 .. m /\ j \in 1 .. m /\ Len(fr) + 1 - k = j
        BY <1>1, <1>3, <1>5, <2>1, <2>4, <3>1, <3>2, SMT
      <3>4. v[k] = Unread(fr[j])
        BY <1>5, <1>9, <3>3, Zenon
      <3>5. fr[j] = st[j]
        BY <1>5, <3>3, Zenon
      <3> QED BY <1>13, <2>1, <2>2, <2>4, <3>1, <3>2, <3>4, <3>5, Zenon
    <2> QED BY <2>3, <2>4
  <1>15. u = <<x>> \o v
    <2>1. Len(u) = Len(<<x>> \o v)
      BY <1>3, <1>11, <1>13, SMT
    <2> QED BY <1>10, <1>13, <1>14, <2>1, SeqEqual
  <1>16. FlattenSeq(<<x>> \o v) = x \o FlattenSeq(v)
    BY <1>7, <1>10, <1>12, FlattenedFirst, Zenon
  <1>17. Left(st) = FlattenSeq(u) /\ Left(fr) = FlattenSeq(v)
    BY <1>8, <1>9, Zenon DEF Left
  <1> QED BY <1>4, <1>6, <1>7, <1>10, <1>12, <1>15, <1>16, <1>17, Zenon

(* The three changes of a stack once more. *)

LEMMA FrontOfAppended ==
    ASSUME NEW S, NEW ss \in Seq(S), NEW s \in S
    PROVE  /\ Append(ss, s) \in Seq(S) /\ Append(ss, s) # <<>>
           /\ Front(Append(ss, s)) = ss /\ Last(Append(ss, s)) = s
  <1>1. PICK n \in Nat : n = Len(ss)
    BY LenProperties
  <1>2. PICK t : t = Append(ss, s)
    OBVIOUS
  <1>3. /\ t \in Seq(S) /\ t # <<>> /\ Len(t) = n + 1 /\ t[n + 1] = s
        /\ \A i \in 1 .. n : t[i] = ss[i]
    BY <1>1, <1>2, AppendProperties
  <1>4. Len(t) >= 1 /\ Len(t) - 1 = n
    BY <1>3, SMT
  <1>5. /\ Front(t) \in Seq(S) /\ Len(Front(t)) = n /\ DOMAIN Front(t) = 1 .. n
        /\ \A i \in 1 .. n : Front(t)[i] = t[i]
    BY <1>3, <1>4, FrontOfASequence
  <1>6. Front(t) = ss
    <2>1. Len(Front(t)) = Len(ss) /\ \A i \in 1 .. Len(Front(t)) : Front(t)[i] = ss[i]
      BY <1>1, <1>3, <1>5
    <2> QED BY <1>5, <2>1, SeqEqual
  <1>7. Last(t) = s
    BY <1>3 DEF Last
  <1> QED BY <1>2, <1>3, <1>6, <1>7

LEMMA FrontOfPushed ==
    ASSUME NEW st \in Seq(Source), NEW s \in Source
    PROVE  /\ Append(st, s) \in Seq(Source) /\ Append(st, s) # <<>>
           /\ Front(Append(st, s)) = st /\ Last(Append(st, s)) = s
  BY FrontOfAppended

LEMMA FrontOfMoved ==
    ASSUME NEW st \in Seq(Source), st # <<>>, NEW s \in Source
    PROVE  /\ [st EXCEPT ![Len(st)] = s] \in Seq(Source)
           /\ [st EXCEPT ![Len(st)] = s] # <<>>
           /\ Front([st EXCEPT ![Len(st)] = s]) = Front(st)
           /\ Last([st EXCEPT ![Len(st)] = s]) = s
  <1>1. PICK n \in Nat : n = Len(st) /\ n >= 1
    BY LenProperties, EmptySeq
  <1>2. n \in 1 .. Len(st)
    BY <1>1, SMT
  <1>3. PICK mv : mv = [st EXCEPT ![n] = s]
    OBVIOUS
  <1>4. /\ mv \in Seq(Source) /\ Len(mv) = n
        /\ \A i \in 1 .. n : mv[i] = IF i = n THEN s ELSE st[i]
    BY <1>1, <1>2, <1>3, ExceptSeq
  <1>5. mv # <<>>
    BY <1>1, <1>4, EmptySeq
  <1>6. Last(mv) = s
    BY <1>1, <1>2, <1>4, Zenon DEF Last
  <1>7. /\ Front(mv) \in Seq(Source) /\ Len(Front(mv)) = n - 1
        /\ DOMAIN Front(mv) = 1 .. n - 1
        /\ \A i \in DOMAIN Front(mv) : Front(mv)[i] = mv[i]
    BY <1>1, <1>4, FrontElements
  <1>8. /\ Front(st) \in Seq(Source) /\ Len(Front(st)) = n - 1
        /\ DOMAIN Front(st) = 1 .. n - 1
        /\ \A i \in DOMAIN Front(st) : Front(st)[i] = st[i]
    BY <1>1, FrontElements
  <1>9. ASSUME NEW i \in 1 .. n - 1 PROVE Front(mv)[i] = Front(st)[i]
    <2>1. i \in 1 .. n /\ i # n
      BY <1>9, SMT
    <2> QED BY <1>4, <1>7, <1>8, <2>1, Zenon
  <1>10. Front(mv) = Front(st)
    BY <1>7, <1>8, <1>9, SeqEqual
  <1> QED BY <1>1, <1>3, <1>4, <1>5, <1>6, <1>10

LEMMA LeftOfPushed ==
    ASSUME NEW st, IsStack(st), NEW s, IsSource(s), s.kind = "lup" => s.iterations >= 1
    PROVE  Left(Append(st, s)) = Unread(s) \o Left(st)
  <1>1. st \in Seq(Source) /\ s \in Source /\ AllUnread(st)
    BY StackIsUnread DEF IsStack, IsSource
  <1>2. PICK ps : ps = Append(st, s)
    OBVIOUS
  <1>3. ps \in Seq(Source) /\ ps # <<>> /\ Front(ps) = st /\ Last(ps) = s
    BY <1>1, <1>2, FrontOfPushed
  <1>4. AllUnread(ps)
    <2>1. PICK n \in Nat : n = Len(st) /\ DOMAIN st = 1 .. n
      BY <1>1, LenProperties
    <2>2. /\ Len(ps) = n + 1 /\ DOMAIN ps = 1 .. n + 1
          /\ \A i \in 1 .. n : ps[i] = st[i]
          /\ ps[n + 1] = s
      BY <1>1, <1>2, <1>3, <2>1, AppendProperties, LenProperties
    <2>3. Unread(s) \in Seq(Line)
      BY UnreadIsLines
    <2>4. \A i \in 1 .. n + 1 : i \in 1 .. n \/ i = n + 1
      BY SMT
    <2> QED BY <1>1, <2>1, <2>2, <2>3, <2>4, Zenon DEF AllUnread
  <1>5. Left(ps) = Unread(Last(ps)) \o Left(Front(ps))
    BY <1>3, <1>4, LeftOfStack
  <1> QED BY <1>2, <1>3, <1>5

LEMMA LeftOfMoved ==
    ASSUME NEW st, IsStack(st), st # <<>>, NEW s, IsSource(s),
           s.kind = "lup" => s.iterations >= 1
    PROVE  Left([st EXCEPT ![Len(st)] = s]) = Unread(s) \o Left(Front(st))
  <1>1. st \in Seq(Source) /\ s \in Source /\ AllUnread(st)
    BY StackIsUnread DEF IsStack, IsSource
  <1>2. PICK mv : mv = [st EXCEPT ![Len(st)] = s]
    OBVIOUS
  <1>3. mv \in Seq(Source) /\ mv # <<>> /\ Front(mv) = Front(st) /\ Last(mv) = s
    BY <1>1, <1>2, FrontOfMoved
  <1>4. AllUnread(mv)
    <2>1. Unread(s) \in Seq(Line)
      BY UnreadIsLines
    <2>2. DOMAIN mv = DOMAIN st /\ \A i \in DOMAIN st : mv[i] = s \/ mv[i] = st[i]
      BY <1>2, Zenon
    <2> QED BY <1>1, <2>1, <2>2, Zenon DEF AllUnread
  <1>5. Left(mv) = Unread(Last(mv)) \o Left(Front(mv))
    BY <1>3, <1>4, LeftOfStack
  <1> QED BY <1>2, <1>3, <1>5

LEMMA LeftOnStack ==
    ASSUME NEW st, IsStack(st), st # <<>>
    PROVE  /\ Left(st) = Unread(Last(st)) \o Left(Front(st))
           /\ Unread(Last(st)) \in Seq(Line) /\ Left(Front(st)) \in Seq(Line)
           /\ Left(st) \in Seq(Line)
  <1>1. st \in Seq(Source) /\ AllUnread(st)
    BY StackIsUnread DEF IsStack
  <1> QED BY <1>1, LeftOfStack, LeftIsLines

(* Popping a source that has ended takes no line. *)
LEMMA LeftOfPopped ==
    ASSUME NEW st, IsStack(st), st # <<>>, IsEndOfFile(Last(st))
    PROVE  Left(Front(st)) = Left(st)
  <1>1. Unread(Last(st)) = <<>>
    BY StackFacts, EndedIsRead
  <1> QED BY <1>1, LeftOnStack, ConcatEmptySeq

-----------------------------------------------------------------------------
(* Places in what is left. *)

LEMMA LinesAssociate ==
    \A x, y, z \in Seq(Line) : (x \o y) \o z = x \o (y \o z)
  BY ConcatAssociative

LEMMA ConcatLines ==
    ASSUME NEW s \in Seq(Line), NEW t \in Seq(Line), NEW d, d = Len(s), NEW m, m = Len(t),
           NEW p, p = s \o t
    PROVE  /\ p \in Seq(Line) /\ Len(p) = d + m
           /\ \A i \in 1 .. d + m : p[i] = IF i <= d THEN s[i] ELSE t[i - d]
  BY ConcatProperties

(* k lines on from place a of ls, with t behind ls. *)
IsPlace(p, ls, t, a, k) ==
    /\ p \in Seq(Line) /\ Len(p) = Len(ls) - a + Len(t) /\ Len(t) \in Nat
    /\ \A i \in 1 .. Len(ls) - a : p[i] = ls[a + i]
    /\ SubSeq(p, 1, k) = SubSeq(ls, a + 1, a + k)
    /\ SubSeq(p, k + 1, Len(p)) = SubSeq(ls, a + k + 1, Len(ls)) \o t

LEMMA PlaceInRest ==
    ASSUME NEW ls \in Seq(Line), NEW t \in Seq(Line), NEW a \in Nat, NEW k \in Nat,
           a + k <= Len(ls)
    PROVE  IsPlace(SubSeq(ls, a + 1, Len(ls)) \o t, ls, t, a, k)
  <1>0. PICK p : p = SubSeq(ls, a + 1, Len(ls)) \o t
    OBVIOUS
  <1>1. PICK n \in Nat : n = Len(ls)
    BY LenProperties
  <1>2. PICK m \in Nat : m = Len(t)
    BY LenProperties
  <1>3. PICK r : r = SubSeq(ls, a + 1, n)
    OBVIOUS
  <1>4. \A i \in 1 .. n : ls[i] \in Line
    BY <1>1, ElementOfSeq
  <1>5. /\ r \in Seq(Line) /\ Len(r) = n - a
        /\ \A i \in 1 .. n - a : r[i] = ls[a + i]
    <2>1. a + 1 \in Int /\ n \in Int /\ (\A i \in a + 1 .. n : i \in 1 .. n)
      BY SMT
    <2>2. /\ r \in Seq(Line) /\ Len(r) = IF a + 1 <= n THEN n - (a + 1) + 1 ELSE 0
          /\ \A i \in 1 .. n - (a + 1) + 1 : r[i] = ls[(a + 1) + i - 1]
      BY <1>3, <1>4, <2>1, SubSeqProperties
    <2>3. Len(r) = n - a
      BY <1>1, <2>2, SMT
    <2>4. ASSUME NEW i \in 1 .. n - a PROVE r[i] = ls[a + i]
      <3>1. i \in 1 .. n - (a + 1) + 1 /\ (a + 1) + i - 1 = a + i
        BY SMT
      <3>2. r[i] = ls[(a + 1) + i - 1]
        BY <2>2, <3>1, Zenon
      <3> QED BY <3>1, <3>2, Zenon
    <2> QED BY <2>2, <2>3, <2>4
  <1>6. /\ p \in Seq(Line) /\ Len(p) = (n - a) + m
        /\ \A i \in 1 .. (n - a) + m : p[i] = IF i <= n - a THEN r[i] ELSE t[i - (n - a)]
    <2>1. p = r \o t
      BY <1>0, <1>1, <1>3
    <2>2. PICK d : d = n - a
      OBVIOUS
    <2>3. r \in Seq(Line) /\ d = Len(r) /\ m = Len(t)
      BY <1>2, <1>5, <2>2
    <2>4. /\ p \in Seq(Line) /\ Len(p) = d + m
          /\ \A i \in 1 .. d + m : p[i] = IF i <= d THEN r[i] ELSE t[i - d]
      BY <2>1, <2>3, ConcatLines
    <2> QED BY <2>2, <2>4, Zenon
  <1>7. ASSUME NEW i \in 1 .. n - a PROVE p[i] = ls[a + i]
    <2>1. i \in 1 .. (n - a) + m /\ i <= n - a
      BY <1>1, SMT
    <2> QED BY <1>5, <1>6, <2>1, Zenon
  <1>8. SubSeq(p, 1, k) = SubSeq(ls, a + 1, a + k)
    <2>1. PICK u : u = SubSeq(p, 1, k)
      OBVIOUS
    <2>2. PICK v : v = SubSeq(ls, a + 1, a + k)
      OBVIOUS
    <2>3. u \in Seq(Line) /\ Len(u) = k /\ \A i \in 1 .. k : u[i] = p[i]
      <3>1. \A i \in 1 .. k : p[i] \in Line
        <4>1. \A i \in 1 .. k : i \in 1 .. Len(p)
          BY <1>1, <1>6, SMT
        <4> QED BY <1>6, <4>1, ElementOfSeq
      <3>2. /\ u \in Seq(Line) /\ Len(u) = IF 1 <= k THEN k - 1 + 1 ELSE 0
            /\ \A i \in 1 .. k - 1 + 1 : u[i] = p[1 + i - 1]
        BY <2>1, <3>1, SubSeqProperties
      <3>3. Len(u) = k
        BY <3>2, SMT
      <3>4. ASSUME NEW i \in 1 .. k PROVE u[i] = p[i]
        <4>1. i \in 1 .. k - 1 + 1 /\ 1 + i - 1 = i
          BY SMT
        <4> QED BY <3>2, <4>1
      <3> QED BY <3>2, <3>3, <3>4
    <2>4. v \in Seq(Line) /\ Len(v) = k /\ \A i \in 1 .. k : v[i] = ls[a + i]
      <3>1. \A i \in a + 1 .. a + k : ls[i] \in Line
        <4>1. \A i \in a + 1 .. a + k : i \in 1 .. n
          BY <1>1, SMT
        <4> QED BY <1>4, <4>1
      <3>2. /\ v \in Seq(Line)
            /\ Len(v) = IF a + 1 <= a + k THEN (a + k) - (a + 1) + 1 ELSE 0
            /\ \A i \in 1 .. (a + k) - (a + 1) + 1 : v[i] = ls[(a + 1) + i - 1]
        BY <2>2, <3>1, SubSeqProperties
      <3>3. Len(v) = k
        BY <3>2, SMT
      <3>4. ASSUME NEW i \in 1 .. k PROVE v[i] = ls[a + i]
        <4>1. i \in 1 .. (a + k) - (a + 1) + 1 /\ (a + 1) + i - 1 = a + i
          BY SMT
        <4>2. v[i] = ls[(a + 1) + i - 1]
          BY <3>2, <4>1, Zenon
        <4> QED BY <4>1, <4>2, Zenon
      <3> QED BY <3>2, <3>3, <3>4
    <2>5. ASSUME NEW i \in 1 .. k PROVE u[i] = v[i]
      <3>1. i \in 1 .. n - a
        BY <1>1, SMT
      <3> QED BY <1>7, <2>3, <2>4, <3>1, Zenon
    <2>6. u = v
      BY <2>3, <2>4, <2>5, SeqEqual
    <2> QED BY <2>1, <2>2, <2>6
  <1>9. SubSeq(p, k + 1, Len(p)) = SubSeq(ls, a + k + 1, Len(ls)) \o t
    <2>1. PICK q : q = Len(p)
      OBVIOUS
    <2>2. PICK c : c = q - k
      OBVIOUS
    <2>3. q \in Nat /\ q = (n - a) + m /\ c \in Nat /\ c = (n - (a + k)) + m
      BY <1>1, <1>2, <1>6, <2>1, <2>2, SMT
    <2>4. PICK u : u = SubSeq(p, k + 1, q)
      OBVIOUS
    <2>5. u \in Seq(Line) /\ Len(u) = c /\ \A i \in 1 .. c : u[i] = p[k + i]
      <3>1. \A i \in k + 1 .. q : p[i] \in Line
        <4>1. \A i \in k + 1 .. q : i \in 1 .. Len(p)
          BY <2>1, <2>3, SMT
        <4> QED BY <1>6, <4>1, ElementOfSeq
      <3>2. /\ u \in Seq(Line)
            /\ Len(u) = IF k + 1 <= q THEN q - (k + 1) + 1 ELSE 0
            /\ \A i \in 1 .. q - (k + 1) + 1 : u[i] = p[(k + 1) + i - 1]
        <4>1. PICK b : b = k + 1
          OBVIOUS
        <4>2. b \in Int /\ q \in Int
          BY <2>3, <4>1, SMT
        <4>3. /\ SubSeq(p, b, q) \in Seq(Line)
              /\ Len(SubSeq(p, b, q)) = IF b <= q THEN q - b + 1 ELSE 0
              /\ \A i \in 1 .. q - b + 1 : SubSeq(p, b, q)[i] = p[b + i - 1]
          BY <3>1, <4>1, <4>2, SubSeqProperties
        <4> QED BY <2>4, <4>1, <4>3, Zenon
      <3>3. Len(u) = c
        BY <2>2, <2>3, <3>2, SMT
      <3>4. ASSUME NEW i \in 1 .. c PROVE u[i] = p[k + i]
        <4>1. i \in 1 .. q - (k + 1) + 1 /\ (k + 1) + i - 1 = k + i
          BY <2>2, <2>3, SMT
        <4>2. u[i] = p[(k + 1) + i - 1]
          BY <3>2, <4>1, Zenon
        <4> QED BY <4>1, <4>2, Zenon
      <3> QED BY <3>2, <3>3, <3>4
    <2>6. PICK b : b = a + k
      OBVIOUS
    <2>7. b \in Nat /\ b <= n /\ c = (n - b) + m
      BY <1>1, <2>3, <2>6, SMT
    <2>8. PICK w : w = SubSeq(ls, b + 1, n)
      OBVIOUS
    <2>9. /\ w \in Seq(Line) /\ Len(w) = n - b
          /\ \A i \in 1 .. n - b : w[i] = ls[b + i]
      <3>1. b + 1 \in Int /\ n \in Int /\ (\A i \in b + 1 .. n : i \in 1 .. n)
        BY <2>7, SMT
      <3>2. /\ w \in Seq(Line) /\ Len(w) = IF b + 1 <= n THEN n - (b + 1) + 1 ELSE 0
            /\ \A i \in 1 .. n - (b + 1) + 1 : w[i] = ls[(b + 1) + i - 1]
        BY <1>4, <2>8, <3>1, SubSeqProperties
      <3>3. Len(w) = n - b
        BY <2>7, <3>2, SMT
      <3>4. ASSUME NEW i \in 1 .. n - b PROVE w[i] = ls[b + i]
        <4>1. i \in 1 .. n - (b + 1) + 1 /\ (b + 1) + i - 1 = b + i
          BY <2>7, SMT
        <4>2. w[i] = ls[(b + 1) + i - 1]
          BY <3>2, <4>1, Zenon
        <4> QED BY <4>1, <4>2, Zenon
      <3> QED BY <3>2, <3>3, <3>4
    <2>10. PICK v : v = w \o t
      OBVIOUS
    <2>11. /\ v \in Seq(Line) /\ Len(v) = (n - b) + m
           /\ \A i \in 1 .. (n - b) + m : v[i] = IF i <= n - b THEN w[i] ELSE t[i - (n - b)]
      <3>1. PICK d : d = n - b
        OBVIOUS
      <3>2. w \in Seq(Line) /\ d = Len(w) /\ m = Len(t)
        BY <1>2, <2>9, <3>1
      <3>3. /\ v \in Seq(Line) /\ Len(v) = d + m
            /\ \A i \in 1 .. d + m : v[i] = IF i <= d THEN w[i] ELSE t[i - d]
        BY <2>10, <3>2, ConcatLines
      <3> QED BY <3>1, <3>3, Zenon
    <2>12. ASSUME NEW i \in 1 .. c PROVE u[i] = v[i]
      <3>1. PICK j : j = k + i
        OBVIOUS
      <3>2. j \in 1 .. (n - a) + m /\ i \in 1 .. (n - b) + m
            /\ (j <= n - a <=> i <= n - b) /\ j - (n - a) = i - (n - b)
        BY <1>1, <1>2, <2>3, <2>6, <2>7, <3>1, SMT
      <3>3. u[i] = p[j] /\ p[j] = IF j <= n - a THEN r[j] ELSE t[j - (n - a)]
        BY <1>6, <2>5, <3>1, <3>2, Zenon
      <3>4. v[i] = IF i <= n - b THEN w[i] ELSE t[i - (n - b)]
        BY <2>11, <3>2, Zenon
      <3>5. CASE i <= n - b
        <4>1. i \in 1 .. n - b /\ j \in 1 .. n - a /\ a + j = b + i
          BY <2>6, <2>7, <3>1, <3>2, <3>5, SMT
        <4>2. w[i] = ls[b + i] /\ r[j] = ls[a + j]
          BY <1>5, <2>9, <4>1, Zenon
        <4>3. ls[a + j] = ls[b + i]
          BY <4>1, Zenon
        <4> QED BY <3>2, <3>3, <3>4, <3>5, <4>2, <4>3, Zenon
      <3>6. CASE ~(i <= n - b)
        <4>1. ~(j <= n - a)
          BY <3>2, <3>6, Zenon
        <4>2. t[j - (n - a)] = t[i - (n - b)]
          BY <3>2, Zenon
        <4> QED BY <3>3, <3>4, <3>6, <4>1, <4>2, Zenon
      <3> QED BY <3>5, <3>6
    <2>13. u = v
      BY <2>5, <2>7, <2>11, <2>12, SeqEqual
    <2> QED BY <1>1, <2>1, <2>4, <2>6, <2>8, <2>10, <2>13, Zenon
  <1>10. Len(p) = Len(ls) - a + Len(t) /\ Len(t) \in Nat
    BY <1>1, <1>2, <1>6
  <1>11. \A i \in 1 .. Len(ls) - a : p[i] = ls[a + i]
    BY <1>1, <1>7, Zenon
  <1>12. IsPlace(p, ls, t, a, k)
    BY <1>6, <1>8, <1>9, <1>10, <1>11, Zenon DEF IsPlace
  <1> QED BY <1>0, <1>12, Zenon


-----------------------------------------------------------------------------
(* The last sequence goes behind the rest. *)
LEMMA FlattenedLast ==
    ASSUME NEW S, NEW ss \in Seq(Seq(S)), NEW s \in Seq(S)
    PROVE  FlattenSeq(Append(ss, s)) = FlattenSeq(ss) \o s
  <1>1. PICK n \in Nat : n = Len(ss)
    BY LenProperties
  <1>2. PICK t : t = Append(ss, s)
    OBVIOUS
  <1>3. /\ t \in Seq(Seq(S)) /\ Len(t) = n + 1 /\ Len(t) \in Nat /\ Len(t) # 0
        /\ t[n + 1] = s /\ \A i \in 1 .. n : t[i] = ss[i]
    <2>1. t \in Seq(Seq(S)) /\ Len(t) = n + 1 /\ t[n + 1] = s /\ \A i \in 1 .. n : t[i] = ss[i]
      BY <1>1, <1>2, AppendProperties
    <2> QED BY <2>1, SMT
  <1>4. PICK g : IsFlattening(g, Len(t), t) /\ FlattenSeq(t) = g[Len(t)]
    BY <1>3, FlattenedSequences, Zenon
  <1>5. g[n + 1] = IF n + 1 = 1 THEN s ELSE g[n] \o s
    <2>1. PICK k : k = n + 1
      OBVIOUS
    <2>2. k \in 1 .. n + 1 /\ k - 1 = n
      BY <2>1, SMT
    <2>3. g[k] = IF k = 1 THEN t[k] ELSE g[k - 1] \o t[k]
      BY <1>3, <1>4, <2>1, <2>2, Zenon DEF IsFlattening
    <2> QED BY <1>3, <2>1, <2>2, <2>3, Zenon
  <1>6. CASE n = 0
    <2>1. ss = <<>>
      BY <1>1, <1>6, EmptySeq
    <2>2. n + 1 = 1
      BY <1>6, SMT
    <2>3. <<>> \o s = s
      BY ConcatEmptySeq
    <2> QED BY <1>2, <1>3, <1>4, <1>5, <2>1, <2>2, <2>3, FlattenedNothing, Zenon
  <1>7. CASE n # 0
    <2>1. PICK f : IsFlattening(f, Len(ss), ss) /\ FlattenSeq(ss) = f[Len(ss)]
      BY <1>1, <1>7, FlattenedSequences, Zenon
    <2> DEFINE T == {m \in Nat : 1 <= m /\ m <= n => g[m] = f[m]}
    <2>2. 0 \in T
      BY SMT
    <2>3. ASSUME NEW m \in Nat, m \in T PROVE m + 1 \in T
      <3>1. PICK k : k = m + 1
        OBVIOUS
      <3>2. k \in Nat /\ (k # 1 => 1 <= m) /\ k - 1 = m
        BY <3>1, SMT
      <3>3. ASSUME 1 <= k, k <= n PROVE g[k] = f[k]
        <4>1. k \in 1 .. n /\ m <= n /\ k \in 1 .. n + 1
          BY <3>1, <3>2, <3>3, SMT
        <4>2. f[k] = IF k = 1 THEN ss[k] ELSE f[k - 1] \o ss[k]
          BY <1>1, <2>1, <4>1, Zenon DEF IsFlattening
        <4>3. g[k] = IF k = 1 THEN t[k] ELSE g[k - 1] \o t[k]
          BY <1>3, <1>4, <4>1, Zenon DEF IsFlattening
        <4>4. t[k] = ss[k]
          BY <1>3, <4>1
        <4>5. k # 1 => g[m] = f[m]
          BY <2>3, <3>2, <4>1, Zenon
        <4> QED BY <3>2, <4>2, <4>3, <4>4, <4>5, Zenon
      <3> QED BY <3>1, <3>2, <3>3, Zenon
    <2> HIDE DEF T
    <2>4. n \in T
      BY <2>2, <2>3, EveryNumber, Zenon
    <2> USE DEF T
    <2>5. 1 <= n /\ n <= n /\ n + 1 # 1
      BY <1>7, SMT
    <2>6. g[n] = f[n]
      BY <2>4, <2>5, Zenon
    <2> QED BY <1>1, <1>2, <1>3, <1>4, <1>5, <2>1, <2>5, <2>6, Zenon
  <1> QED BY <1>6, <1>7

LEMMA FrontAndLast ==
    ASSUME NEW S, NEW ss \in Seq(S), ss # <<>>
    PROVE  /\ Front(ss) \in Seq(S) /\ Last(ss) \in S
           /\ ss = Append(Front(ss), Last(ss))
  <1>1. PICK fr \in Seq(S) : \E x \in S : ss = Append(fr, x)
    BY SequenceEmptyOrAppend
  <1>2. PICK x \in S : ss = Append(fr, x)
    BY <1>1
  <1>3. Front(ss) = fr /\ Last(ss) = x
    BY <1>2, FrontOfAppended
  <1> QED BY <1>2, <1>3

-----------------------------------------------------------------------------
(* The calls that updates interrupt. *)
Piece(u) == IF u.phase = "push" THEN <<u.line>> ELSE <<>>

Pieces(us) == [i \in DOMAIN us |-> Piece(us[i])]

Calls(us) == FlattenSeq(Pieces(us))

LEMMA SuspendedIsCalls == Suspended = Calls(updates) /\ Suspended' = Calls(updates')
  BY Zenon DEF Suspended, Calls, Pieces, Piece

LEMMA PieceIsLines == ASSUME NEW u \in Update PROVE Piece(u) \in Seq(Line)
  <1>1. u.line \in Line
    BY DEF Update
  <1>2. <<u.line>> \in Seq(Line)
    BY <1>1
  <1> QED BY <1>2, EmptySeq DEF Piece

LEMMA PiecesAreLines ==
    ASSUME NEW us \in Seq(Update)
    PROVE  Pieces(us) \in Seq(Seq(Line)) /\ Len(Pieces(us)) = Len(us)
  <1>1. PICK n \in Nat : n = Len(us) /\ DOMAIN us = 1 .. n
    BY LenProperties
  <1>2. \A i \in 1 .. n : Piece(us[i]) \in Seq(Line)
    <2>1. \A i \in 1 .. n : us[i] \in Update
      BY <1>1, ElementOfSeq
    <2> QED BY <2>1, PieceIsLines
  <1>3. Pieces(us) = [i \in 1 .. n |-> Piece(us[i])]
    BY <1>1, Zenon DEF Pieces
  <1>4. Pieces(us) \in [1 .. n -> Seq(Line)] /\ DOMAIN Pieces(us) = 1 .. n
    BY <1>2, <1>3, Zenon
  <1>5. Pieces(us) \in Seq(Seq(Line))
    BY <1>4, SeqDef
  <1>6. Len(Pieces(us)) \in Nat /\ DOMAIN Pieces(us) = 1 .. Len(Pieces(us))
    BY <1>5, LenProperties
  <1> QED BY <1>1, <1>4, <1>5, <1>6, SMT

LEMMA CallsAreLines == ASSUME NEW us \in Seq(Update) PROVE Calls(us) \in Seq(Line)
  BY PiecesAreLines, FlattenedIsSequence DEF Calls

LEMMA NoCalls == Calls(<<>>) = <<>>
  <1>1. Pieces(<<>>) \in Seq(Seq(Line)) /\ Len(Pieces(<<>>)) = 0
    BY PiecesAreLines, EmptySeq
  <1>2. Pieces(<<>>) = <<>>
    BY <1>1, EmptySeq
  <1> QED BY <1>2, FlattenedNothing DEF Calls

(* One more update, and one less. *)
LEMMA CallsOfAppended ==
    ASSUME NEW us \in Seq(Update), NEW u \in Update
    PROVE  Calls(Append(us, u)) = Calls(us) \o Piece(u)
  <1>1. PICK n \in Nat : n = Len(us) /\ DOMAIN us = 1 .. n
    BY LenProperties
  <1>2. PICK t : t = Append(us, u)
    OBVIOUS
  <1>3. /\ t \in Seq(Update) /\ Len(t) = n + 1 /\ t[n + 1] = u
        /\ \A i \in 1 .. n : t[i] = us[i]
    BY <1>1, <1>2, AppendProperties
  <1>4. DOMAIN t = 1 .. n + 1
    BY <1>3, LenProperties
  <1>5. /\ Pieces(t) \in Seq(Seq(Line)) /\ Len(Pieces(t)) = n + 1
        /\ Pieces(us) \in Seq(Seq(Line)) /\ Len(Pieces(us)) = n
    BY <1>1, <1>3, PiecesAreLines
  <1>6. Piece(u) \in Seq(Line)
    BY PieceIsLines
  <1>7. PICK p : p = Append(Pieces(us), Piece(u))
    OBVIOUS
  <1>8. /\ p \in Seq(Seq(Line)) /\ Len(p) = n + 1 /\ p[n + 1] = Piece(u)
        /\ \A i \in 1 .. n : p[i] = Pieces(us)[i]
    BY <1>5, <1>6, <1>7, AppendProperties
  <1>9. ASSUME NEW i \in 1 .. n + 1 PROVE Pieces(t)[i] = p[i]
    <2>1. Pieces(t)[i] = Piece(t[i])
      BY <1>4, Zenon DEF Pieces
    <2>2. CASE i = n + 1
      BY <1>3, <1>8, <2>1, <2>2, Zenon
    <2>3. CASE i # n + 1
      <3>1. i \in 1 .. n
        BY <2>3, SMT
      <3>2. Pieces(us)[i] = Piece(us[i])
        BY <1>1, <3>1, Zenon DEF Pieces
      <3> QED BY <1>3, <1>8, <2>1, <3>1, <3>2, Zenon
    <2> QED BY <2>2, <2>3
  <1>10. Pieces(t) = p
    BY <1>5, <1>8, <1>9, SeqEqual
  <1>11. FlattenSeq(p) = FlattenSeq(Pieces(us)) \o Piece(u)
    BY <1>5, <1>6, <1>7, FlattenedLast, Zenon
  <1> QED BY <1>2, <1>10, <1>11, Zenon DEF Calls

LEMMA CallsOfFront ==
    ASSUME NEW us \in Seq(Update), us # <<>>
    PROVE  Calls(us) = Calls(Front(us)) \o Piece(Last(us))
  <1>1. /\ Front(us) \in Seq(Update) /\ Last(us) \in Update
        /\ us = Append(Front(us), Last(us))
    BY FrontAndLast
  <1>2. PICK fr \in Seq(Update) : fr = Front(us)
    BY <1>1
  <1>3. PICK u \in Update : u = Last(us)
    BY <1>1
  <1>4. Calls(Append(fr, u)) = Calls(fr) \o Piece(u)
    BY CallsOfAppended
  <1> QED BY <1>1, <1>2, <1>3, <1>4, Zenon

-----------------------------------------------------------------------------
(***************************************************************************)
(* The lines that wait.  A line is carried out again for the symbol it     *)
(* uses, which has its value by then, and no line is left waiting for a    *)
(* symbol with a value, unless that symbol's update is under way.          *)
(***************************************************************************)
WaitForTheirs(w) == \A s \in Symbols : \A i \in DOMAIN w[s] : w[s][i].uses = s

AreFinal(us, sy) == \A i \in DOMAIN us : sy[us[i].symbol] = "final"

NoneIsForgotten(w, us, sy) ==
    \A s \in Symbols :
        sy[s] = "final" /\ w[s] # <<>> => \E i \in DOMAIN us : us[i].symbol = s

WaitInv ==
    /\ WaitForTheirs(waiting)
    /\ AreFinal(updates, symbols)
    /\ NoneIsForgotten(waiting, updates, symbols)
    /\ phase = "line" /\ updates # <<>> => current.uses = Last(updates).symbol

(* A line that is carried out again knows its operand. *)
LEMMA AgainWithAValue ==
    ASSUME IInv, WaitInv, phase = "line", updates # <<>>
    PROVE  IsFinal(current) /\ Value = "final"
  <1>1. Len(updates) \in DOMAIN updates /\ Last(updates) = updates[Len(updates)]
    BY LastUpdate
  <1>2. symbols[current.uses] = "final"
    BY <1>1 DEF WaitInv, AreFinal
  <1> QED BY <1>2 DEF IsFinal, Value

(* One line more waits, for a symbol that is undefined. *)
LEMMA OneMoreWaits ==
    ASSUME IInv, WaitInv, NEW l \in Line, NEW w, w = waiting \/ w = Referenced(l)
    PROVE  /\ WaitForTheirs(w)
           /\ \A s \in Symbols : symbols[s] # "undefined" => w[s] = waiting[s]
           /\ IsFinal(l) => w = waiting
  <1>1. waiting \in Waiting
    BY RestIsOK DEF RestOK
  <1>2. CASE w = waiting
    BY <1>2 DEF WaitInv
  <1>3. CASE w = Referenced(l)
    <2>1. ASSUME NEW s \in Symbols, NEW i \in DOMAIN w[s]
          PROVE  w[s][i].uses = s
      <3>1. \/ w[s][i] = l /\ s = l.uses
            \/ \E j \in DOMAIN waiting[s] : w[s][i] = waiting[s][j]
        BY <1>1, <1>3, <2>1, ReferencedLines
      <3>2. CASE w[s][i] = l /\ s = l.uses
        BY <3>2
      <3>3. CASE \E j \in DOMAIN waiting[s] : w[s][i] = waiting[s][j]
        BY <3>3 DEF WaitInv, WaitForTheirs
      <3> QED BY <3>1, <3>2, <3>3
    <2>2. ASSUME NEW s \in Symbols, symbols[s] # "undefined"
          PROVE  w[s] = waiting[s]
      <3>1. CASE l.uses = NoSymbol \/ symbols[l.uses] # "undefined"
        BY <1>3, <3>1 DEF Referenced
      <3>2. CASE ~(l.uses = NoSymbol \/ symbols[l.uses] # "undefined")
        <4>1. w = [waiting EXCEPT ![l.uses] = <<l>> \o @]
          BY <1>3, <3>2, Zenon DEF Referenced
        <4>2. s # l.uses
          BY <2>2, <3>2
        <4> QED BY <1>1, <4>1, <4>2, Zenon DEF Waiting
      <3> QED BY <3>1, <3>2
    <2>3. IsFinal(l) => w = waiting
      BY <1>3 DEF IsFinal, Referenced
    <2> QED BY <2>1, <2>2, <2>3 DEF WaitForTheirs
  <1> QED BY <1>2, <1>3

(* A step that defines nothing. *)
LEMMA WaitStays ==
    ASSUME IInv, WaitInv, symbols' = symbols, updates' = updates,
           NEW l \in Line, waiting' = waiting \/ waiting' = Referenced(l),
           phase' = "line" => updates = <<>>
    PROVE  WaitInv'
  <1>1. /\ WaitForTheirs(waiting')
        /\ \A s \in Symbols : symbols[s] # "undefined" => waiting'[s] = waiting[s]
    BY OneMoreWaits
  <1>2. NoneIsForgotten(waiting', updates, symbols)
    BY <1>1 DEF WaitInv, NoneIsForgotten
  <1> QED BY <1>1, <1>2 DEF WaitInv

LEMMA DefineKeepsWaiting ==
    ASSUME IInv, WaitInv, NEW s \in Symbols, NEW v \in {"forward", "final"},
           NEW next \in {"read", "update", "push"},
           Define(s, v, next), v = "forward" => updates = <<>>,
           NEW l \in Line, waiting' = waiting \/ waiting' = Referenced(l)
    PROVE  WaitInv'
  <1>1. /\ WaitForTheirs(waiting')
        /\ \A t \in Symbols : symbols[t] # "undefined" => waiting'[t] = waiting[t]
    BY OneMoreWaits
  <1>2. /\ symbols' = [symbols EXCEPT ![s] = v]
        /\ symbols \in [Symbols -> {"undefined", "forward", "final"}]
        /\ updates \in Seq(Update) /\ current \in Line
    BY RestIsOK, Zenon DEF Define, RestOK
  <1>3. \A t \in Symbols : symbols'[t] = IF t = s THEN v ELSE symbols[t]
    BY <1>2, Zenon
  <1>4. CASE v = "forward"
    <2>1. updates = <<>> /\ updates' = updates /\ phase' = next
      BY <1>4, Zenon DEF Define
    <2>2. \A t \in Symbols : symbols'[t] = "final" => symbols[t] = "final"
      BY <1>3, <1>4
    <2>3. NoneIsForgotten(waiting', updates', symbols')
      <3>1. ASSUME NEW t \in Symbols, symbols'[t] = "final", waiting'[t] # <<>>
            PROVE  \E i \in DOMAIN updates' : updates'[i].symbol = t
        <4>1. symbols[t] = "final" /\ waiting[t] # <<>>
          BY <1>1, <2>2, <3>1
        <4> QED BY <2>1, <4>1 DEF WaitInv, NoneIsForgotten
      <3> QED BY <3>1 DEF NoneIsForgotten
    <2>4. AreFinal(updates', symbols')
      <3>1. DOMAIN updates' = {}
        BY <2>1
      <3> QED BY <3>1 DEF AreFinal
    <2> QED BY <1>1, <2>1, <2>3, <2>4 DEF WaitInv
  <1>5. CASE v = "final"
    <2>1. PICK u : u = [symbol |-> s, line |-> current, phase |-> next]
      OBVIOUS
    <2>2. u \in Update /\ u.symbol = s
      BY <1>2, <2>1 DEF Update
    <2>3. updates' = Append(updates, u) /\ phase' = "update"
      BY <1>5, <2>1, Zenon DEF Define
    <2>4. /\ Len(updates) \in Nat /\ DOMAIN updates = 1 .. Len(updates)
          /\ DOMAIN Append(updates, u) = 1 .. Len(updates) + 1
          /\ Append(updates, u)[Len(updates) + 1] = u
          /\ \A i \in DOMAIN updates : Append(updates, u)[i] = updates[i]
          /\ \A i \in DOMAIN Append(updates, u) :
                 i = Len(updates) + 1 \/ i \in DOMAIN updates
      BY <2>2, AppendedUpdate
    <2>5. /\ Len(updates) + 1 \in DOMAIN updates'
          /\ \A i \in DOMAIN updates : i \in DOMAIN updates' /\ updates'[i] = updates[i]
      BY <2>3, <2>4, SMT
    <2>6. AreFinal(updates', symbols')
      <3>1. ASSUME NEW i \in DOMAIN updates'
            PROVE  symbols'[updates'[i].symbol] = "final"
        <4>1. CASE i = Len(updates) + 1
          BY <1>3, <1>5, <2>2, <2>3, <2>4, <4>1
        <4>2. CASE i \in DOMAIN updates
          <5>1. symbols[updates[i].symbol] = "final" /\ updates[i].symbol \in Symbols
            BY <4>2, UpdateFields DEF WaitInv, AreFinal
          <5> QED BY <1>3, <1>5, <2>5, <4>2, <5>1
        <4> QED BY <2>3, <2>4, <3>1, <4>1, <4>2
      <3> QED BY <3>1 DEF AreFinal
    <2>7. NoneIsForgotten(waiting', updates', symbols')
      <3>1. ASSUME NEW t \in Symbols, symbols'[t] = "final", waiting'[t] # <<>>
            PROVE  \E i \in DOMAIN updates' : updates'[i].symbol = t
        <4>1. CASE t = s
          BY <2>2, <2>3, <2>4, <2>5, <4>1
        <4>2. CASE t # s
          <5>1. symbols[t] = "final" /\ waiting[t] # <<>>
            BY <1>1, <1>3, <3>1, <4>2
          <5>2. PICK i \in DOMAIN updates : updates[i].symbol = t
            BY <5>1 DEF WaitInv, NoneIsForgotten
          <5> QED BY <2>5, <5>2
        <4> QED BY <4>1, <4>2
      <3> QED BY <3>1 DEF NoneIsForgotten
    <2> QED BY <1>1, <2>3, <2>6, <2>7 DEF WaitInv
  <1> QED BY <1>4, <1>5

LEMMA RunAgainKeepsWaiting == ASSUME IInv, WaitInv, RunAgain PROVE WaitInv'
  <1> DEFINE s == Last(updates).symbol
  <1>1. /\ phase = "update" /\ waiting[s] # <<>>
        /\ current' = Head(waiting[s])
        /\ waiting' = [waiting EXCEPT ![s] = Tail(@)]
        /\ updates' = updates /\ symbols' = symbols
    BY Zenon DEF RunAgain
  <1>2. /\ waiting \in Waiting /\ updates # <<>>
        /\ WaitForTheirs(waiting) /\ AreFinal(updates, symbols)
        /\ NoneIsForgotten(waiting, updates, symbols)
    BY <1>1, RestIsOK DEF RestOK, UpdatesReturn, WaitInv
  <1>3. s \in Symbols
    BY <1>2, LastUpdate
  <1>4. s = Last(updates').symbol
    BY <1>1
  <1> HIDE DEF s
  <1>5. /\ \E j \in DOMAIN waiting[s] : Head(waiting[s]) = waiting[s][j]
        /\ \A i \in DOMAIN Tail(waiting[s]) :
               \E j \in DOMAIN waiting[s] : Tail(waiting[s])[i] = waiting[s][j]
        /\ \A t \in Symbols : waiting'[t] = IF t = s THEN Tail(waiting[s]) ELSE waiting[t]
    BY <1>1, <1>2, <1>3, TakenLines
  <1>6. current'.uses = s
    BY <1>1, <1>2, <1>3, <1>5 DEF WaitForTheirs
  <1>7. WaitForTheirs(waiting')
    <2>1. ASSUME NEW t \in Symbols, NEW i \in DOMAIN waiting'[t]
          PROVE  waiting'[t][i].uses = t
      <3>1. CASE t = s
        <4>1. waiting'[t] = Tail(waiting[s])
          BY <1>5, <3>1
        <4>2. PICK j \in DOMAIN waiting[s] : waiting'[t][i] = waiting[s][j]
          BY <1>5, <2>1, <4>1
        <4> QED BY <1>2, <1>3, <3>1, <4>2 DEF WaitForTheirs
      <3>2. CASE t # s
        <4>1. waiting'[t] = waiting[t]
          BY <1>5, <3>2
        <4> QED BY <1>2, <2>1, <4>1 DEF WaitForTheirs
      <3> QED BY <3>1, <3>2
    <2> QED BY <2>1 DEF WaitForTheirs
  <1>8. NoneIsForgotten(waiting', updates, symbols)
    <2>1. ASSUME NEW t \in Symbols, symbols[t] = "final", waiting'[t] # <<>>
          PROVE  \E i \in DOMAIN updates : updates[i].symbol = t
      <3>1. waiting[t] # <<>>
        BY <1>1, <1>5, <2>1
      <3> QED BY <1>2, <2>1, <3>1 DEF NoneIsForgotten
    <2> QED BY <2>1 DEF NoneIsForgotten
  <1> QED BY <1>1, <1>2, <1>4, <1>6, <1>7, <1>8 DEF WaitInv

LEMMA EndUpdateKeepsWaiting == ASSUME IInv, WaitInv, EndUpdate PROVE WaitInv'
  <1> DEFINE u == Last(updates)
             fr == Front(updates)
  <1>1. /\ phase = "update" /\ updates' = fr /\ phase' = u.phase
        /\ waiting[u.symbol] = <<>>
        /\ waiting' = waiting /\ symbols' = symbols
    BY Zenon DEF EndUpdate
  <1>2. updates # <<>>
    BY <1>1, RestIsOK DEF RestOK, UpdatesReturn
  <1>3. /\ Len(updates) \in Nat /\ DOMAIN updates = 1 .. Len(updates)
        /\ u = updates[Len(updates)] /\ u.phase \in {"read", "update", "push"}
        /\ DOMAIN fr = 1 .. Len(updates) - 1
        /\ \A i \in DOMAIN fr : i \in DOMAIN updates /\ fr[i] = updates[i]
    BY <1>2, LastUpdate
  <1> HIDE DEF u, fr
  <1>4. AreFinal(updates', symbols')
    BY <1>1, <1>3 DEF WaitInv, AreFinal
  <1>5. NoneIsForgotten(waiting', updates', symbols')
    <2>1. ASSUME NEW s \in Symbols, symbols[s] = "final", waiting[s] # <<>>
          PROVE  \E i \in DOMAIN fr : fr[i].symbol = s
      <3>1. PICK i \in DOMAIN updates : updates[i].symbol = s
        BY <2>1 DEF WaitInv, NoneIsForgotten
      <3>2. i # Len(updates)
        BY <1>1, <1>3, <2>1, <3>1
      <3>3. i \in DOMAIN fr
        BY <1>3, <3>2, SMT
      <3> QED BY <1>3, <3>1, <3>3
    <2> QED BY <1>1, <2>1 DEF NoneIsForgotten
  <1> QED BY <1>1, <1>3, <1>4, <1>5 DEF WaitInv

LEMMA InitEstablishesWaiting == Init => WaitInv
  <1> SUFFICES ASSUME Init PROVE WaitInv
    OBVIOUS
  <1>1. updates = <<>> /\ DOMAIN updates = {} /\ \A s \in Symbols : waiting[s] = <<>>
    BY DEF Init
  <1> QED BY <1>1 DEF WaitInv, WaitForTheirs, AreFinal, NoneIsForgotten

LEMMA NextKeepsWaiting == IInv /\ WaitInv /\ [Next]_vars => WaitInv'
  <1> SUFFICES ASSUME IInv, WaitInv, [Next]_vars PROVE WaitInv'
    OBVIOUS
  <1>0. current \in Line /\ UpdatesReturn
    BY RestIsOK DEF RestOK
  <1>1. CASE ReadLine
    <2>1. phase = "read" /\ symbols' = symbols /\ updates' = updates /\ waiting' = waiting
      BY <1>1 DEF ReadLine
    <2>2. updates = <<>>
      BY <1>0, <2>1 DEF UpdatesReturn
    <2> QED BY <1>0, <2>1, <2>2, WaitStays
  <1>2. CASE EndOfSource \/ LabelInvalid \/ HandleMacroExpansion
    <2>1. symbols' = symbols /\ updates' = updates /\ waiting' = waiting /\ phase' # "line"
      BY <1>2 DEF EndOfSource, LabelInvalid, HandleMacroExpansion, Returned, Resumed
    <2> QED BY <1>0, <2>1, WaitStays
  <1>3. CASE AddUnhandledLabel
    <2>1. phase = "label" /\ Define(current.label, "final", "read") /\ waiting' = waiting
      BY <1>3 DEF AddUnhandledLabel
    <2>2. current.label \in Symbols
      BY <1>0, <2>1 DEF UpdatesReturn
    <2> QED BY <1>0, <2>1, <2>2, DefineKeepsWaiting
  <1>4. CASE HandleEQU
    <2> DEFINE l == [current EXCEPT !.own = TRUE]
    <2>1. /\ phase = "line" /\ Define(current.label, Value, Resumed)
          /\ current.op = "equ" /\ ~current.bad /\ waiting' = Referenced(l)
      BY <1>4, Zenon DEF HandleEQU
    <2>2. current.label \in Symbols /\ l \in Line
      BY <1>0, <2>1, LineFields, OwnLine
    <2> HIDE DEF l
    <2>3. Value \in {"forward", "final"} /\ Resumed \in {"read", "update", "push"}
      BY Zenon DEF Value, Resumed
    <2>4. Value = "forward" => updates = <<>>
      BY <2>1, AgainWithAValue
    <2> QED BY <2>1, <2>2, <2>3, <2>4, DefineKeepsWaiting
  <1>5. CASE EquInvalid
    <2>1. /\ symbols' = symbols /\ updates' = updates /\ waiting' = Referenced(current)
          /\ phase' = Returned \/ phase' = Resumed
      BY <1>5, Zenon DEF EquInvalid
    <2>2. phase' # "line"
      BY <2>1, Zenon DEF Returned, Resumed
    <2> QED BY <1>0, <2>1, <2>2, WaitStays
  <1>6. CASE RunAgain
    BY <1>6, RunAgainKeepsWaiting
  <1>7. CASE EndUpdate
    BY <1>7, EndUpdateKeepsWaiting
  <1>8. CASE HandlePUT \/ HandleLUP
    <2>1. /\ symbols' = symbols /\ updates' = updates /\ waiting' = Referenced(current)
          /\ phase' = Returned
      BY <1>8, Zenon DEF HandlePUT, HandleLUP, Assemble
    <2>2. phase' # "line"
      BY <2>1, Zenon DEF Returned, Resumed
    <2> QED BY <1>0, <2>1, <2>2, WaitStays
  <1>9. CASE HandleMAC
    <2>1. symbols' = symbols /\ updates' = updates /\ waiting' = waiting /\ phase' = Returned
      BY <1>9, Zenon DEF HandleMAC, Assemble
    <2>2. phase' # "line"
      BY <2>1, Zenon DEF Returned, Resumed
    <2> QED BY <1>0, <2>1, <2>2, WaitStays
  <1>10. CASE AssignParameters
    <2>1. phase = "line" /\ Define(Parameter, Value, "push") /\ waiting' = Referenced(current)
      BY <1>10, Zenon DEF AssignParameters, IsCall
    <2>2. Parameter \in Symbols /\ Value \in {"forward", "final"}
      BY TextsAssumption DEF Value
    <2>3. Value = "forward" => updates = <<>>
      BY <2>1, AgainWithAValue
    <2> QED BY <1>0, <2>1, <2>2, <2>3, DefineKeepsWaiting
  <1>11. CASE PlainLine
    <2>1. LineLeavesStack
      BY <1>11, RestIsOK, PlainLineLeavesStack
    <2>2. /\ symbols' = symbols /\ updates' = updates /\ phase' = Returned
          /\ waiting' = waiting \/ waiting' = Referenced(current)
      BY <2>1, Zenon DEF LineLeavesStack
    <2>3. phase' # "line"
      BY <2>2, Zenon DEF Returned, Resumed
    <2> QED BY <1>0, <2>2, <2>3, WaitStays
  <1>12. CASE Abort \/ Crash
    <2>1. Stops
      BY <1>12, EndsStop
    <2>2. symbols' = symbols /\ updates' = updates /\ waiting' = waiting /\ phase' # "line"
      BY <2>1 DEF Stops
    <2> QED BY <1>0, <2>2, WaitStays
  <1>13. CASE UNCHANGED vars
    BY <1>13 DEF vars, WaitInv
  <1> QED BY <1>1, <1>2, <1>3, <1>4, <1>5, <1>6, <1>7, <1>8, <1>9, <1>10, <1>11,
             <1>12, <1>13 DEF Next, PlainLine

-----------------------------------------------------------------------------
(* What LineReader sees of the lines under way. *)
UnderWay == {"line", "push", "aborted", "crashed"}

InHand(us, ph, line) == Calls(us) \o IF ph \in UnderWay THEN <<line>> ELSE <<>>

LEMMA AssembledIsInHand ==
    /\ Assembled = InHand(updates, phase, current)
    /\ Assembled' = InHand(updates', phase', current')
  <1>1. Assembled = InHand(updates, phase, current)
    BY SuspendedIsCalls, Zenon DEF Assembled, InHand, UnderWay
  <1>2. Assembled' = InHand(updates', phase', current')
    BY SuspendedIsCalls, Zenon DEF Assembled, InHand, UnderWay
  <1> QED BY <1>1, <1>2

LEMMA ReaderSequences ==
    ASSUME NEW ss
    PROVE  /\ Reader!FlattenSeq(ss) = FlattenSeq(ss)
           /\ Reader!Front(ss) = Front(ss) /\ Reader!Last(ss) = Last(ss)
  BY Zenon DEF Reader!FlattenSeq, FlattenSeq, Reader!Front, Front, Reader!Last, Last

LEMMA LineInHand ==
    ASSUME NEW us \in Seq(Update), NEW line \in Line, NEW ph \in UnderWay
    PROVE  /\ InHand(us, ph, line) = Append(Calls(us), line)
           /\ InHand(us, ph, line) # <<>>
           /\ Front(InHand(us, ph, line)) = Calls(us)
           /\ Last(InHand(us, ph, line)) = line
  <1>1. PICK calls \in Seq(Line) : calls = Calls(us)
    BY CallsAreLines
  <1>2. InHand(us, ph, line) = calls \o <<line>>
    BY <1>1, Zenon DEF InHand
  <1>3. Append(calls, line) = calls \o <<line>>
    BY AppendIsConcat
  <1>4. /\ Append(calls, line) # <<>>
        /\ Front(Append(calls, line)) = calls /\ Last(Append(calls, line)) = line
    BY FrontOfAppended
  <1> QED BY <1>1, <1>2, <1>3, <1>4, Zenon

LEMMA NoLineInHand ==
    ASSUME NEW us \in Seq(Update), NEW line, NEW ph, ph \notin UnderWay
    PROVE  InHand(us, ph, line) = Calls(us)
  <1>1. Calls(us) \o <<>> = Calls(us)
    BY CallsAreLines, ConcatEmptySeq
  <1> QED BY <1>1, Zenon DEF InHand

(* While a line is assembled. *)
LEMMA LineNow ==
    ASSUME IInv, phase \in {"line", "push"}
    PROVE  /\ Assembled # <<>> /\ Reader!Now = current
           /\ Reader!Front(Assembled) = Calls(updates)
           /\ Assembled = Append(Calls(updates), current)
           /\ current \in Line /\ updates \in Seq(Update)
  <1>1. updates \in Seq(Update) /\ current \in Line
    BY RestIsOK DEF RestOK
  <1>2. phase \in UnderWay
    BY DEF UnderWay
  <1>3. PICK h : h = InHand(updates, phase, current)
    OBVIOUS
  <1>4. h = Append(Calls(updates), current) /\ h # <<>> /\ Front(h) = Calls(updates) /\ Last(h) = current
    BY <1>1, <1>2, <1>3, LineInHand
  <1>5. Assembled = h
    BY <1>3, AssembledIsInHand
  <1> QED BY <1>1, <1>4, <1>5, ReaderSequences, Zenon DEF Reader!Now

(* Between lines. *)
LEMMA NoLineNow ==
    ASSUME IInv, phase \in {"read", "label", "update"}
    PROVE  /\ Assembled = Calls(updates) /\ updates \in Seq(Update)
           /\ phase # "update" => Assembled = <<>> /\ updates = <<>>
  <1>1. updates \in Seq(Update) /\ UpdatesReturn
    BY RestIsOK DEF RestOK
  <1>2. phase \notin UnderWay
    BY DEF UnderWay
  <1>3. Assembled = Calls(updates)
    BY <1>1, <1>2, AssembledIsInHand, NoLineInHand, Zenon
  <1>4. phase # "update" => updates = <<>>
    BY <1>1 DEF UpdatesReturn
  <1> QED BY <1>1, <1>3, <1>4, NoCalls

(* When the line in hand is done. *)
LEMMA LineGone ==
    ASSUME IInv, updates' = updates, phase' \in {"read", "label", "update", "done"}
    PROVE  Assembled' = Calls(updates)
  <1>1. updates \in Seq(Update)
    BY RestIsOK DEF RestOK
  <1>2. phase' \notin UnderWay
    BY DEF UnderWay
  <1>3. InHand(updates, phase', current') = Calls(updates)
    BY <1>1, <1>2, NoLineInHand, Zenon
  <1> QED BY <1>3, AssembledIsInHand, Zenon

LEMMA WhereLinesEnd ==
    /\ Returned \in {"read", "label", "update"}
    /\ Resumed \in {"read", "update"}
    /\ updates = <<>> => Resumed = "read"
  <1>1. Resumed \in {"read", "update"}
    BY Zenon DEF Resumed
  <1>2. Returned \in {"read", "label", "update"}
    BY Zenon DEF Returned, Resumed
  <1> QED BY <1>1, <1>2, Zenon DEF Resumed

(* A definition sets the lines under way aside. *)
LEMMA DefinedInHand ==
    ASSUME IInv, NEW s \in Symbols, NEW v, NEW next \in {"read", "update"},
           Define(s, v, next)
    PROVE  Assembled' = Calls(updates)
  <1>1. updates \in Seq(Update) /\ current \in Line
    BY RestIsOK DEF RestOK
  <1>2. CASE v = "final"
    <2>1. PICK u : u = [symbol |-> s, line |-> current, phase |-> next]
      OBVIOUS
    <2>2. u \in Update /\ u.phase # "push"
      BY <1>1, <2>1 DEF Update
    <2>3. updates' = Append(updates, u) /\ phase' = "update"
      BY <1>2, <2>1, Zenon DEF Define
    <2>4. Calls(Append(updates, u)) = Calls(updates) \o Piece(u) /\ Append(updates, u) \in Seq(Update)
      BY <1>1, <2>2, CallsOfAppended, AppendProperties
    <2>5. Piece(u) = <<>>
      BY <2>2, Zenon DEF Piece
    <2>6. Calls(updates) \o <<>> = Calls(updates)
      BY <1>1, CallsAreLines, ConcatEmptySeq
    <2>7. phase' \notin UnderWay
      BY <2>3 DEF UnderWay
    <2>8. InHand(Append(updates, u), phase', current') = Calls(Append(updates, u))
      BY <2>4, <2>7, NoLineInHand, Zenon
    <2> QED BY <2>3, <2>4, <2>5, <2>6, <2>8, AssembledIsInHand, Zenon
  <1>3. CASE v # "final"
    <2>1. updates' = updates /\ phase' = next
      BY <1>3, Zenon DEF Define
    <2> QED BY <2>1, LineGone
  <1> QED BY <1>2, <1>3

(* The operand of the line in hand. *)
LEMMA OperandNow ==
    ASSUME IInv, phase \in {"line", "push"}
    PROVE  /\ Reader!HasValue <=> IsFinal(current)
           /\ Reader!Operand(Reader!Now.skip) = SkipCount
           /\ Reader!Operand(Reader!Now.count) = LoopCount
  <1>1. current \in Line /\ Reader!Now = current
    BY LineNow
  <1>2. current.uses \in Symbols \cup {NoSymbol} /\ NoSymbol \notin Symbols
    BY <1>1, LineFields, TextsAssumption
  <1>3. current.uses \notin Symbols <=> current.uses = NoSymbol
    BY <1>2
  <1>4. Reader!HasValue <=> IsFinal(current)
    BY <1>1, <1>3, Zenon DEF Reader!HasValue, IsFinal
  <1> QED BY <1>1, <1>4, Zenon DEF Reader!Operand, SkipCount, LoopCount

(* The line in hand may wait. *)
LEMMA OwnWaits ==
    ASSUME IInv, phase \in {"line", "push"}, NEW own \in BOOLEAN,
           NEW l, l = [current EXCEPT !.own = own], waiting' = Referenced(l)
    PROVE  Reader!MayWait
  <1>1. current \in Line /\ Reader!Now = current
    BY LineNow
  <1>2. current.uses \in Symbols \cup {NoSymbol}
    BY <1>1, LineFields
  <1>3. l.uses = current.uses
    <2>1. "uses" \in DOMAIN current /\ "own" # "uses"
      BY <1>1 DEF Line
    <2> QED BY <2>1
  <1>4. CASE current.uses = NoSymbol \/ symbols[current.uses] # "undefined"
    <2>1. waiting' = waiting
      BY <1>3, <1>4, Zenon DEF Referenced
    <2> QED BY <2>1, Zenon DEF Reader!MayWait
  <1>5. CASE ~(current.uses = NoSymbol \/ symbols[current.uses] # "undefined")
    <2>1. current.uses \in Symbols /\ symbols[current.uses] = "undefined"
      BY <1>2, <1>5
    <2>2. waiting' = [waiting EXCEPT ![current.uses] = <<l>> \o @]
      BY <1>3, <1>5, Zenon DEF Referenced
    <2>3. \E o \in BOOLEAN :
              waiting' = [waiting EXCEPT ![current.uses] = <<[current EXCEPT !.own = o]>> \o @]
      BY <2>2, Zenon
    <2> QED BY <1>1, <2>1, <2>3, Zenon DEF Reader!MayWait
  <1> QED BY <1>4, <1>5

LEMMA MayWait ==
    ASSUME IInv, phase \in {"line", "push"},
           waiting' = waiting \/ waiting' = Referenced(current)
    PROVE  Reader!MayWait
  <1>1. current \in Line
    BY LineNow
  <1>2. PICK own \in BOOLEAN : own = current.own
    BY <1>1 DEF Line
  <1>3. current = [current EXCEPT !.own = own]
    BY <1>1, <1>2 DEF Line
  <1>4. CASE waiting' = waiting
    BY <1>4, Zenon DEF Reader!MayWait
  <1>5. CASE waiting' = Referenced(current)
    BY <1>3, <1>5, OwnWaits
  <1> QED BY <1>4, <1>5

LEMMA LineIsDone ==
    ASSUME IInv, phase \in {"line", "push"}, Assembled' = Calls(updates),
           texts' = texts, Reader!MayWait
    PROVE  Reader!Done(current.op)
  BY LineNow, Zenon DEF Reader!Done

(* Every line but a definition. *)
LEMMA LineEndsHere ==
    ASSUME IInv, phase \in {"line", "push"}, phase' = Returned \/ phase' = Resumed,
           updates' = updates, texts' = texts,
           waiting' = waiting \/ waiting' = Referenced(current)
    PROVE  Reader!Done(current.op)
  <1>1. phase' \in {"read", "label", "update", "done"}
    BY WhereLinesEnd
  <1> QED BY <1>1, LineGone, MayWait, LineIsDone
-----------------------------------------------------------------------------
(* Steps of LineReader. *)

LEMMA PendingIsLeft == Pending = Left(stack) /\ Pending' = Left(stack')
  BY Zenon DEF Pending, Left

LEMMA StepPasses ==
    ASSUME IInv, LineLeavesStack, macros' = macros, failed' = failed \/ failed' = TRUE,
           current.op \in {"code", "blank", "lupend", "macend"}
    PROVE  Reader!Next
  <1>1. Reader!Done(current.op) /\ stack' = stack /\ symbols' = symbols
    BY LineEndsHere DEF LineLeavesStack
  <1>2. Pending' = Pending
    BY <1>1, PendingIsLeft
  <1>3. \E op \in {"code", "blank", "lupend", "macend"} : Reader!Done(op)
    BY <1>1, Zenon
  <1>4. failed' \in {failed, TRUE}
    OBVIOUS
  <1>5. Reader!Pass
    BY <1>1, <1>2, <1>3, <1>4, Zenon DEF Reader!Pass
  <1> QED BY <1>5, Zenon DEF Reader!Next

LEMMA StepFails ==
    ASSUME IInv, phase = "line", Reader!Done(current.op), macros' = macros,
           symbols' = symbols, failed' = TRUE,
           current.op \in {"equ", "put", "lup", "mac", "call"},
           NEW n \in 1 .. Len(Pending) + 1, n > 1 => current.op = "mac",
           Pending' = SubSeq(Pending, n, Len(Pending))
    PROVE  Reader!Next
  <1>1. \E op \in {"equ", "put", "lup", "mac", "call"} : Reader!Done(op)
    BY Zenon
  <1>2. Reader!Now = current
    BY LineNow
  <1>3. \E k \in 1 .. Len(Pending) + 1 :
           /\ k > 1 => Reader!Now.op = "mac"
           /\ Pending' = SubSeq(Pending, k, Len(Pending))
    BY <1>2, Zenon
  <1>4. Reader!Fail
    BY <1>1, <1>3, Zenon DEF Reader!Fail, Reader!From
  <1> QED BY <1>4, Zenon DEF Reader!Next

(* A line in error that leaves the stack alone. *)
LEMMA StepFailsInPlace ==
    ASSUME IInv, phase = "line", Reader!Done(current.op), macros' = macros,
           symbols' = symbols, failed' = TRUE, stack' = stack,
           current.op \in {"equ", "put", "lup", "mac", "call"}
    PROVE  Reader!Next
  <1>1. IsStack(stack) /\ stack # <<>>
    BY WhileReading
  <1>2. Pending \in Seq(Line) /\ Pending' = Pending
    BY <1>1, LeftOnStack, PendingIsLeft
  <1>3. SubSeq(Pending, 1, Len(Pending)) = Pending /\ Len(Pending) \in Nat
    BY <1>2, SubSeqFull, LenProperties
  <1>4. 1 \in 1 .. Len(Pending) + 1 /\ ~(1 > 1)
    BY <1>3, SMT
  <1> QED BY <1>2, <1>3, <1>4, StepFails

(* A line that does nothing for the reader. *)
LEMMA StepStutters ==
    ASSUME texts' = texts, macros' = macros, failed' = failed, symbols' = symbols,
           waiting' = waiting, Pending' = Pending, Assembled' = Assembled
    PROVE  UNCHANGED Reader!vars
  BY Zenon DEF Reader!vars

LEMMA ReadRefines == ASSUME IInv, WaitInv, ReadLine PROVE Reader!Next
  <1> DEFINE p == Popped
             s == Last(Popped)
  <1>1. IsStack(p) /\ p # <<>> /\ phase = "read"
    BY PopKeepsStack DEF ReadLine, HasLine
  <1>2. /\ Last(p) = p[Len(p)] /\ IsSource(s) /\ (s.kind = "lup" => s.iterations >= 1)
        /\ Len(p) \in Nat /\ DOMAIN p = 1 .. Len(p)
    BY <1>1, StackFacts
  <1>3. /\ IsSource(Advanced(s))
        /\ s.kind = "lup" => Advanced(s).iterations >= 1
        /\ Advanced(s).kind = s.kind
        /\ NextLine(s) \in Line
    BY <1>2, ReadingASource
  <1>4. stack' = [p EXCEPT ![Len(p)] = Advanced(s)]
    <2>1. stack' = [p EXCEPT ![Len(p)] = Advanced(@)]
      BY DEF ReadLine
    <2> QED BY <1>2, <2>1
  <1>5. ~IsEndOfFile(s)
    BY DEF ReadLine, HasLine
  <1>6. Left(p) = Left(stack)
    <2>1. IsStack(stack) /\ stack # <<>>
      BY <1>1, WhileReading
    <2> QED BY <2>1, LeftOfPopped DEF Popped, StackPop, Top
  <1>7. /\ texts' = texts /\ current' = NextLine(s) /\ phase' = "line"
        /\ macros' = macros /\ failed' = failed
    BY DEF ReadLine
  <1>8. s = Last(p)
    OBVIOUS
  <1> HIDE DEF p, s
  <1>9. Left(p) = Unread(s) \o Left(Front(p)) /\ Left(Front(p)) \in Seq(Line)
    BY <1>1, <1>8, LeftOnStack
  <1>10. Left(stack') = Unread(Advanced(s)) \o Left(Front(p))
    BY <1>1, <1>3, <1>4, LeftOfMoved
  <1>11. Unread(s) = <<NextLine(s)>> \o Unread(Advanced(s))
    BY <1>2, <1>5, ReadingTakesTheFirst
  <1>12. Unread(Advanced(s)) \in Seq(Line)
    BY <1>3, UnreadIsLines
  <1>13. PICK l \in Line : l = NextLine(s)
    BY <1>3
  <1>14. PICK rest \in Seq(Line) : rest = Left(stack')
    BY <1>9, <1>10, <1>12, ConcatProperties
  <1>15. Pending = <<l>> \o rest
    <2>1. <<l>> \in Seq(Line)
      OBVIOUS
    <2>2. (<<l>> \o Unread(Advanced(s))) \o Left(Front(p))
              = <<l>> \o (Unread(Advanced(s)) \o Left(Front(p)))
      BY <1>9, <1>12, <2>1, ConcatAssociative
    <2> QED BY <1>6, <1>9, <1>10, <1>11, <1>13, <1>14, <2>2, PendingIsLeft, Zenon
  <1>16. Pending # <<>> /\ Head(Pending) = l /\ Tail(Pending) = rest
    <2>1. PICK u : u = <<l>> \o rest
      OBVIOUS
    <2>2. u # <<>> /\ Head(u) = l /\ Tail(u) = rest
      <3>1. PICK m \in Nat : m = Len(rest)
        BY LenProperties
      <3>2. <<l>> \in Seq(Line) /\ Len(<<l>>) = 1
        OBVIOUS
      <3>3. /\ u \in Seq(Line) /\ Len(u) = 1 + m
            /\ \A i \in 1 .. 1 + m : u[i] = IF i <= 1 THEN <<l>>[i] ELSE rest[i - 1]
        BY <2>1, <3>1, <3>2, ConcatLines
      <3>4. u # <<>>
        BY <3>3, EmptySeq
      <3>5. Head(u) = l
        <4>1. Head(u) = u[1]
          BY <3>3, <3>4
        <4>2. 1 \in 1 .. 1 + m /\ 1 <= 1 /\ <<l>>[1] = l
          BY SMT
        <4> QED BY <3>3, <4>1, <4>2, Zenon
      <3>6. /\ Tail(u) \in Seq(Line) /\ Len(Tail(u)) = Len(u) - 1
            /\ \A i \in 1 .. Len(Tail(u)) : Tail(u)[i] = u[i + 1]
        BY <3>3, <3>4, HeadTailProperties
      <3>7. Len(Tail(u)) = m
        BY <3>3, <3>6, SMT
      <3>8. ASSUME NEW i \in 1 .. m PROVE Tail(u)[i] = rest[i]
        <4>1. i + 1 \in 1 .. 1 + m /\ ~(i + 1 <= 1) /\ (i + 1) - 1 = i
          BY SMT
        <4>2. u[i + 1] = rest[(i + 1) - 1]
          BY <3>3, <4>1, Zenon
        <4> QED BY <3>6, <3>7, <4>1, <4>2, Zenon
      <3>9. Tail(u) = rest
        BY <3>1, <3>6, <3>7, <3>8, SeqEqual
      <3> QED BY <3>4, <3>5, <3>9
    <2> QED BY <1>15, <2>1, <2>2, Zenon
  <1>17. Assembled = <<>> /\ Assembled' = <<l>>
    <2>1. Assembled = <<>> /\ updates = <<>>
      BY <1>1, NoLineNow
    <2>2. updates' = updates /\ phase' \in UnderWay
      BY DEF ReadLine, UnderWay
    <2>3. InHand(updates, phase', l) = Append(Calls(updates), l)
      BY <1>1, <2>2, NoLineNow, LineInHand
    <2>4. Append(<<>>, l) = <<l>>
      BY EmptySeq
    <2> QED BY <1>7, <1>13, <2>1, <2>2, <2>3, <2>4, NoCalls, AssembledIsInHand, Zenon
  <1>18. Pending' = rest
    BY <1>14, PendingIsLeft, Zenon
  <1>19. \A t \in Symbols : symbols[t] = "final" => waiting[t] = <<>>
    <2>1. DOMAIN updates = {}
      BY <1>1, NoLineNow
    <2> QED BY <2>1 DEF WaitInv, NoneIsForgotten
  <1>20. symbols' = symbols /\ waiting' = waiting
    BY DEF ReadLine
  <1>21. /\ Assembled = <<>> /\ Pending # <<>> /\ Assembled' = <<Head(Pending)>>
         /\ Pending' = Tail(Pending)
         /\ UNCHANGED <<texts, macros, symbols, waiting, failed>>
    BY <1>7, <1>16, <1>17, <1>18, <1>20, Zenon
  <1>22. Reader!Read
    BY <1>19, <1>21, Zenon DEF Reader!Read
  <1> QED BY <1>22, Zenon DEF Reader!Next

LEMMA EndRefines ==
    ASSUME IInv, EndOfSource PROVE Reader!Next \/ UNCHANGED Reader!vars
  <1>1. /\ phase = "read" /\ phase' = "done" /\ stack' = Popped
        /\ texts' = texts /\ macros' = macros
        /\ symbols' = symbols /\ waiting' = waiting /\ updates' = updates
        /\ failed' = (failed \/ \E s \in Symbols : waiting[s] # <<>>)
    BY DEF EndOfSource
  <1>2. IsStack(stack) /\ stack # <<>> /\ failed \in BOOLEAN
    BY <1>1, WhileReading DEF RestOK
  <1>3. Left(stack') = Left(stack)
    BY <1>1, <1>2, LeftOfPopped DEF Popped, StackPop, Top
  <1>4. Assembled' = Assembled
    BY <1>1, LineGone, NoLineNow
  <1>5. Pending' = Pending
    BY <1>3, PendingIsLeft
  <1>6. CASE \E s \in Symbols : waiting[s] # <<>>
    <2>1. failed' = TRUE
      BY <1>1, <1>6
    <2>2. Reader!Undefined
      BY <1>1, <1>4, <1>5, <1>6, <2>1, Zenon DEF Reader!Undefined
    <2> QED BY <2>2, Zenon DEF Reader!Next
  <1>7. CASE ~\E s \in Symbols : waiting[s] # <<>>
    <2>1. failed' = failed
      BY <1>1, <1>2, <1>7
    <2> QED BY <1>1, <1>4, <1>5, <2>1, StepStutters
  <1> QED BY <1>6, <1>7

LEMMA StopRefines == ASSUME IInv, Stops PROVE UNCHANGED Reader!vars
  <1>1. /\ phase \in UnderWay /\ phase' \in UnderWay
        /\ UNCHANGED <<texts, stack, current, macros, symbols, waiting, updates, failed>>
    BY DEF Stops, UnderWay
  <1>2. InHand(updates, phase', current) = InHand(updates, phase, current)
    BY <1>1, Zenon DEF InHand
  <1>3. Assembled' = Assembled
    BY <1>1, <1>2, AssembledIsInHand, Zenon
  <1> QED BY <1>1, <1>3, PendingIsLeft, StepStutters

-----------------------------------------------------------------------------
(* Definitions, and the lines that are carried out again. *)

LEMMA LabelRefines ==
    ASSUME IInv, AddUnhandledLabel \/ LabelInvalid PROVE Reader!Next
  <1>1. /\ phase = "label" /\ texts' = texts /\ stack' = stack /\ current' = current
        /\ macros' = macros /\ waiting' = waiting
    BY DEF AddUnhandledLabel, LabelInvalid
  <1>2. Assembled = <<>> /\ updates = <<>> /\ Calls(updates) = <<>>
    BY <1>1, NoLineNow
  <1>3. current.label \in Symbols /\ ~current.own
    BY <1>1, RestIsOK DEF RestOK, UpdatesReturn
  <1>4. Pending' = Pending
    BY <1>1, PendingIsLeft
  <1>5. CASE AddUnhandledLabel
    <2>1. Define(current.label, "final", "read") /\ failed' = failed /\ CanAdd(current)
      BY <1>5 DEF AddUnhandledLabel
    <2>2. Assembled' = <<>>
      BY <1>2, <1>3, <2>1, DefinedInHand
    <2>3. symbols' = [symbols EXCEPT ![current.label] = "final"]
      BY <2>1, Zenon DEF Define
    <2>4. Reader!CanDefine(current.label)
      BY <1>3, <2>1, Zenon DEF CanAdd, Reader!CanDefine
    <2>5. Reader!Label
      BY <1>1, <1>2, <1>3, <1>4, <2>1, <2>2, <2>3, <2>4, Zenon DEF Reader!Label
    <2> QED BY <2>5, Zenon DEF Reader!Next
  <1>6. CASE LabelInvalid
    <2>1. phase' = "read" /\ updates' = updates /\ symbols' = symbols /\ failed' = TRUE
      BY <1>6 DEF LabelInvalid
    <2>2. Assembled' = <<>>
      BY <1>2, <2>1, LineGone
    <2>3. Reader!Label
      BY <1>1, <1>2, <1>4, <2>1, <2>2, Zenon DEF Reader!Label
    <2> QED BY <2>3, Zenon DEF Reader!Next
  <1> QED BY <1>5, <1>6

LEMMA EquRefines == ASSUME IInv, HandleEQU PROVE Reader!Next
  <1> DEFINE l == [current EXCEPT !.own = TRUE]
  <1>1. /\ phase = "line" /\ current.op = "equ" /\ ~current.bad /\ CanAdd(current)
        /\ waiting' = Referenced(l)
        /\ Define(current.label, Value, Resumed)
        /\ texts' = texts /\ stack' = stack /\ macros' = macros /\ failed' = failed
    BY Zenon DEF HandleEQU
  <1>2. current \in Line /\ Reader!Now = current
    BY <1>1, LineNow
  <1>3. current.label \in Symbols
    BY <1>1, <1>2, LineFields
  <1>4. Reader!MayWait
    BY <1>1, OwnWaits
  <1> HIDE DEF l
  <1>5. Assembled' = Calls(updates)
    BY <1>1, <1>3, WhereLinesEnd, DefinedInHand
  <1>6. Reader!Done("equ")
    BY <1>1, <1>4, <1>5, LineIsDone
  <1>7. Reader!CanDefine(current.label) \/ current.own
    BY <1>1, Zenon DEF CanAdd, Reader!CanDefine
  <1>8. symbols' = [symbols EXCEPT ![current.label] = IF Reader!HasValue THEN "final" ELSE "forward"]
    <2>1. symbols' = [symbols EXCEPT ![current.label] = Value]
      BY <1>1, Zenon DEF Define
    <2>2. Value = IF Reader!HasValue THEN "final" ELSE "forward"
      BY <1>1, OperandNow, Zenon DEF Value
    <2> QED BY <2>1, <2>2, Zenon
  <1>9. Pending' = Pending
    BY <1>1, PendingIsLeft
  <1>10. Reader!Equ
    BY <1>1, <1>2, <1>6, <1>7, <1>8, <1>9, Zenon DEF Reader!Equ
  <1> QED BY <1>10, Zenon DEF Reader!Next

LEMMA EquInvalidRefines == ASSUME IInv, EquInvalid PROVE Reader!Next
  <1>1. /\ phase = "line" /\ current.op = "equ"
        /\ phase' = Returned \/ phase' = Resumed
        /\ waiting' = Referenced(current) /\ failed' = TRUE
        /\ texts' = texts /\ stack' = stack /\ macros' = macros
        /\ symbols' = symbols /\ updates' = updates
    BY Zenon DEF EquInvalid
  <1>2. Reader!Done(current.op)
    BY <1>1, LineEndsHere
  <1> QED BY <1>1, <1>2, StepFailsInPlace

LEMMA RunAgainRefines == ASSUME IInv, WaitInv, RunAgain PROVE Reader!Next
  <1> DEFINE s == Last(updates).symbol
             l == Head(waiting[s])
  <1>1. /\ phase = "update" /\ waiting[s] # <<>> /\ current' = l /\ phase' = "line"
        /\ waiting' = [waiting EXCEPT ![s] = Tail(@)]
        /\ UNCHANGED <<texts, stack, macros, symbols, updates, failed>>
    BY Zenon DEF RunAgain
  <1>2. waiting \in Waiting /\ updates # <<>> /\ updates \in Seq(Update)
    BY <1>1, RestIsOK DEF RestOK, UpdatesReturn
  <1>3. s \in Symbols /\ symbols[s] = "final"
    BY <1>2, LastUpdate DEF WaitInv, AreFinal
  <1> HIDE DEF s
  <1>4. l \in Line
    BY <1>1, <1>2, <1>3, TakenFromWaiting
  <1>5. phase' \in UnderWay
    BY <1>1 DEF UnderWay
  <1> HIDE DEF l
  <1>6. InHand(updates, phase', l) = Append(Calls(updates), l)
    BY <1>2, <1>4, <1>5, LineInHand
  <1>7. Assembled = Calls(updates)
    BY <1>1, NoLineNow
  <1>8. Assembled' = Append(Assembled, l) /\ Pending' = Pending
    BY <1>1, <1>6, <1>7, AssembledIsInHand, PendingIsLeft, Zenon
  <1>9. Reader!Again(s)
    BY <1>1, <1>3, <1>8, Zenon DEF Reader!Again, l
  <1> QED BY <1>3, <1>9, Zenon DEF Reader!Next

LEMMA EndUpdateRefines == ASSUME IInv, EndUpdate PROVE UNCHANGED Reader!vars
  <1> DEFINE u == Last(updates)
             fr == Front(updates)
  <1>1. /\ phase = "update" /\ updates' = fr /\ current' = u.line /\ phase' = u.phase
        /\ UNCHANGED <<texts, stack, macros, symbols, waiting, failed>>
    BY Zenon DEF EndUpdate
  <1>2. updates # <<>> /\ updates \in Seq(Update)
    BY <1>1, RestIsOK DEF RestOK, UpdatesReturn
  <1>3. fr \in Seq(Update) /\ u.line \in Line /\ u.phase \in {"read", "update", "push"}
    BY <1>2, LastUpdate
  <1>4. Calls(updates) = Calls(fr) \o Piece(u)
    BY <1>2, CallsOfFront
  <1> HIDE DEF u, fr
  <1>5. Assembled = Calls(fr) \o Piece(u)
    BY <1>1, <1>4, NoLineNow
  <1>6. InHand(fr, u.phase, u.line) = Calls(fr) \o Piece(u)
    <2>1. u.phase \in UnderWay <=> u.phase = "push"
      BY <1>3 DEF UnderWay
    <2> QED BY <2>1, Zenon DEF InHand, Piece
  <1>7. Assembled' = Assembled
    BY <1>1, <1>5, <1>6, AssembledIsInHand, Zenon
  <1> QED BY <1>1, <1>7, PendingIsLeft, StepStutters

LEMMA AssignRefines == ASSUME IInv, AssignParameters PROVE Reader!Next
  <1>1. /\ phase = "line" /\ current.op = "call"
        /\ waiting' = Referenced(current)
        /\ Define(Parameter, Value, "push")
        /\ UNCHANGED <<texts, stack, current, macros, failed>>
    BY Zenon DEF AssignParameters, IsCall
  <1>2. /\ Assembled # <<>> /\ Reader!Now = current
        /\ Assembled = Append(Calls(updates), current)
        /\ current \in Line /\ updates \in Seq(Update)
    BY <1>1, LineNow
  <1>3. Reader!MayWait
    BY <1>1, MayWait
  <1>4. symbols' = [symbols EXCEPT ![Parameter] = IF Reader!HasValue THEN "final" ELSE "forward"]
    <2>1. symbols' = [symbols EXCEPT ![Parameter] = Value]
      BY <1>1, Zenon DEF Define
    <2>2. Value = IF Reader!HasValue THEN "final" ELSE "forward"
      BY <1>1, OperandNow, Zenon DEF Value
    <2> QED BY <2>1, <2>2, Zenon
  <1>5. Assembled' = Assembled
    <2>1. CASE Value = "final"
      <3>1. PICK u : u = [symbol |-> Parameter, line |-> current, phase |-> "push"]
        OBVIOUS
      <3>2. u \in Update /\ u.phase = "push" /\ u.line = current
        BY <1>2, <3>1, TextsAssumption DEF Update
      <3>3. updates' = Append(updates, u) /\ phase' = "update"
        BY <1>1, <2>1, <3>1, Zenon DEF Define
      <3>4. Calls(Append(updates, u)) = Calls(updates) \o Piece(u) /\ Append(updates, u) \in Seq(Update)
        BY <1>2, <3>2, CallsOfAppended, AppendProperties
      <3>5. Piece(u) = <<current>>
        BY <3>2, Zenon DEF Piece
      <3>6. Append(Calls(updates), current) = Calls(updates) \o <<current>>
        BY <1>2, CallsAreLines, AppendIsConcat
      <3>7. phase' \notin UnderWay
        BY <3>3 DEF UnderWay
      <3>8. InHand(Append(updates, u), phase', current) = Calls(Append(updates, u))
        BY <3>4, <3>7, NoLineInHand, Zenon
      <3> QED BY <1>1, <1>2, <3>3, <3>4, <3>5, <3>6, <3>8, AssembledIsInHand, Zenon
    <2>2. CASE Value # "final"
      <3>1. updates' = updates /\ phase' = "push"
        BY <1>1, <2>2, Zenon DEF Define
      <3>2. phase' \in UnderWay
        BY <3>1 DEF UnderWay
      <3>3. InHand(updates, phase', current) = Append(Calls(updates), current)
        BY <1>2, <3>2, LineInHand
      <3> QED BY <1>1, <1>2, <3>1, <3>3, AssembledIsInHand, Zenon
    <2> QED BY <2>1, <2>2
  <1>6. Reader!Assign
    BY <1>1, <1>2, <1>3, <1>4, <1>5, PendingIsLeft, Zenon DEF Reader!Assign
  <1> QED BY <1>6, Zenon DEF Reader!Next

-----------------------------------------------------------------------------
(* PUT, LUP, MAC and calls. *)

LEMMA PutRefines == ASSUME IInv, HandlePUT PROVE Reader!Next
  <1> DEFINE ls == texts[current.file]
             new == NewSource("file", ls, 1)
             n == Skip(ls, SkipCount)
             s == [new EXCEPT !.next = n]
  <1>1. /\ phase = "line" /\ phase' = Returned /\ texts' = texts
        /\ updates' = updates /\ waiting' = Referenced(current) /\ symbols' = symbols
        /\ current.op = "put" /\ ~current.bad
        /\ stack' = Append(stack, s)
        /\ macros' = macros /\ failed' = failed
    BY Zenon DEF HandlePUT, Assemble, Push
  <1>2. /\ IsStack(stack) /\ stack # <<>> /\ current \in Line
        /\ texts \in [Files -> Seq(Line)]
    BY <1>1, WhileReading
  <1>3. ls \in Seq(Line) /\ SkipCount \in Nat
    BY <1>1, <1>2, LineFields, CountsAreNumbers
  <1>4. Len(ls) \in Nat
    BY <1>3, LenProperties
  <1>5. n \in Nat /\ n <= Len(ls)
    BY <1>3, <1>4, SMT DEF Skip
  <1>6. SubSeq(ls, SkipCount + 1, Len(ls)) = SubSeq(ls, n + 1, Len(ls))
    <2>1. CASE SkipCount < Len(ls)
      BY <2>1 DEF Skip
    <2>2. CASE ~(SkipCount < Len(ls))
      <3>1. PICK a : a = SkipCount + 1
        OBVIOUS
      <3>2. PICK b : b = Len(ls) + 1
        OBVIOUS
      <3>3. a \in Int /\ b \in Int /\ Len(ls) \in Int /\ Len(ls) < a /\ Len(ls) < b
        BY <1>3, <1>4, <2>2, <3>1, <3>2, SMT
      <3>4. SubSeq(ls, a, Len(ls)) = <<>> /\ SubSeq(ls, b, Len(ls)) = <<>>
        BY <3>3, SubSeqEmpty
      <3>5. n = Len(ls)
        BY <2>2 DEF Skip
      <3> QED BY <3>1, <3>2, <3>4, <3>5, Zenon
    <2> QED BY <2>1, <2>2
  <1> HIDE DEF ls, n
  <1>7. new \in Source /\ new.kind = "file" /\ new.lines = ls
    BY <1>3, NewSourceIsASource DEF IsSource
  <1> HIDE DEF new
  <1>8. IsSource(s) /\ s.kind = "file" /\ s.lines = ls /\ s.next = n
    BY <1>5, <1>7, MovedSource
  <1> HIDE DEF s
  <1>9. Left(stack') = Unread(s) \o Left(stack)
    <2>1. s.kind # "lup"
      BY <1>8
    <2> QED BY <1>1, <1>2, <1>8, <2>1, LeftOfPushed
  <1>10. Unread(s) = SubSeq(ls, SkipCount + 1, Len(ls))
    <2>1. s.kind # "lup"
      BY <1>8
    <2>2. Again(s) = <<>>
      BY <2>1 DEF Again
    <2>3. Rest(s) \in Seq(Line)
      BY <1>8, RestIsLines
    <2>4. Unread(s) = Rest(s)
      BY <2>2, <2>3, UnreadForm, ConcatEmptySeq
    <2> QED BY <1>6, <1>8, <2>4, Zenon DEF Rest
  <1>11. Pending' = SubSeq(texts[current.file], SkipCount + 1, Len(texts[current.file]))
                       \o Pending
    BY <1>9, <1>10, PendingIsLeft, Zenon DEF ls
  <1>12. Reader!Done("put")
    BY <1>1, LineEndsHere
  <1>13. Reader!Now = current /\ Reader!Operand(Reader!Now.skip) = SkipCount
    BY <1>1, LineNow, OperandNow
  <1>14. Pending' = SubSeq(texts[Reader!Now.file], Reader!Operand(Reader!Now.skip) + 1,
                           Len(texts[Reader!Now.file])) \o Pending
    BY <1>11, <1>13, Zenon
  <1>15. Reader!Put
    BY <1>1, <1>12, <1>14, Zenon DEF Reader!Put, Reader!From
  <1> QED BY <1>15, Zenon DEF Reader!Next

LEMMA CallRefines == ASSUME IInv, HandleMacroExpansion PROVE Reader!Next
  <1> DEFINE ls == macros[current.macro]
             s == NewSource("macro", ls, 1)
  <1>1. /\ phase = "push" /\ phase' = Returned /\ texts' = texts
        /\ updates' = updates /\ waiting' = waiting /\ symbols' = symbols
        /\ stack' = Append(stack, s)
        /\ macros' = macros /\ failed' = failed
    BY Zenon DEF HandleMacroExpansion, Push, FindMacroDefinition
  <1>2. /\ IsStack(stack) /\ stack # <<>> /\ current \in Line
        /\ macros \in MacroTexts /\ current.op = "call" /\ ls # NoMacro
    BY <1>1, WhileReading DEF RestOK, UpdatesReturn, IsKnownCall
  <1>3. ls \in Seq(Line)
    BY <1>1, <1>2, LineFields DEF MacroTexts
  <1> HIDE DEF ls
  <1>4. IsSource(s) /\ s.kind = "macro" /\ s.lines = ls /\ s.next = 0
    BY <1>3, NewSourceIsASource
  <1> HIDE DEF s
  <1>5. s.kind # "lup"
    BY <1>4
  <1>6. Left(stack') = Unread(s) \o Left(stack)
    BY <1>1, <1>2, <1>4, <1>5, LeftOfPushed
  <1>7. Unread(s) = ls
    <2>1. Again(s) = <<>>
      BY <1>5 DEF Again
    <2>2. Rest(s) = ls
      <3>1. SubSeq(ls, 1, Len(ls)) = ls /\ 0 + 1 = 1
        BY <1>3, SubSeqFull
      <3> QED BY <1>4, <3>1 DEF Rest
    <2> QED BY <1>3, <2>1, <2>2, UnreadForm, ConcatEmptySeq
  <1>8. Reader!Done("call")
    BY <1>1, <1>2, LineEndsHere
  <1>9. Reader!Now = current
    BY <1>1, LineNow
  <1>10. macros[Reader!Now.macro] # NoMacro /\ Pending' = macros[Reader!Now.macro] \o Pending
    BY <1>2, <1>6, <1>7, <1>9, PendingIsLeft, Zenon DEF ls
  <1>11. Reader!Call
    BY <1>1, <1>8, <1>10, Zenon DEF Reader!Call
  <1> QED BY <1>11, Zenon DEF Reader!Next

(* When the source on top goes on k lines, so does what is pending. *)
TopMovesWith(s, k) ==
    /\ Pending \in Seq(Line) /\ Len(Pending) \in Nat
    /\ Len(Top.lines) - Top.next <= Len(Pending)
    /\ \A i \in 1 .. Len(Top.lines) - Top.next :
           Pending[i] = Top.lines[Top.next + i]
    /\ SubSeq(Pending, 1, k) = SubSeq(Top.lines, Top.next + 1, Top.next + k)
    /\ Left([stack EXCEPT ![Len(stack)] = s]) = SubSeq(Pending, k + 1, Len(Pending))
    /\ IsStack([stack EXCEPT ![Len(stack)] = s])

LEMMA PlaceOnTop ==
    ASSUME IsStack(stack), stack # <<>>, NEW k \in Nat,
           Top.next + k <= Len(Top.lines)
    PROVE  TopMovesWith([Top EXCEPT !.next = Top.next + k], k)
  <1>0. PICK u : u = [Top EXCEPT !.next = Top.next + k]
    OBVIOUS
  <1>1. IsSource(Top) /\ (Top.kind = "lup" => Top.iterations >= 1) /\ Top = Last(stack)
    BY StackFacts DEF Top
  <1>2. /\ Top \in Source /\ Top.next \in Nat /\ Top.lines \in Seq(Line)
        /\ Len(Top.lines) \in Nat
    BY <1>1, SourceFields DEF IsSource
  <1>3. PICK a \in Nat : a = Top.next
    BY <1>2
  <1>4. PICK ls \in Seq(Line) : ls = Top.lines
    BY <1>2
  <1>5. PICK t : t = Again(Top) \o Left(Front(stack))
    OBVIOUS
  <1>6. Again(Top) \in Seq(Line) /\ Left(Front(stack)) \in Seq(Line) /\ t \in Seq(Line)
    BY <1>1, <1>5, AgainIsLines, LeftOnStack, ConcatProperties
  <1>7. PICK p : p = SubSeq(ls, a + 1, Len(ls)) \o t
    OBVIOUS
  <1>8. Pending = p
    <2>1. Pending = (Rest(Top) \o Again(Top)) \o Left(Front(stack))
      BY <1>1, PendingIsLeft, LeftOnStack, UnreadForm
    <2>2. Rest(Top) \in Seq(Line)
      BY <1>1, RestIsLines
    <2>3. (Rest(Top) \o Again(Top)) \o Left(Front(stack))
              = Rest(Top) \o (Again(Top) \o Left(Front(stack)))
      BY <1>6, <2>2, LinesAssociate, Zenon
    <2> QED BY <1>3, <1>4, <1>5, <1>7, <2>1, <2>3, Zenon DEF Rest
  <1>9. /\ p \in Seq(Line) /\ Len(p) = Len(ls) - a + Len(t) /\ Len(t) \in Nat
        /\ \A i \in 1 .. Len(ls) - a : p[i] = ls[a + i]
        /\ SubSeq(p, 1, k) = SubSeq(ls, a + 1, a + k)
        /\ SubSeq(p, k + 1, Len(p)) = SubSeq(ls, a + k + 1, Len(ls)) \o t
    <2>1. a + k <= Len(ls)
      BY <1>3, <1>4
    <2>2. IsPlace(SubSeq(ls, a + 1, Len(ls)) \o t, ls, t, a, k)
      BY <1>6, <2>1, PlaceInRest
    <2> QED BY <1>7, <2>2, Zenon DEF IsPlace
  <1>10. PICK n : n = a + k
    OBVIOUS
  <1>11. n \in Nat /\ n <= Len(ls) /\ a <= Len(ls) /\ Len(ls) \in Nat
    BY <1>2, <1>3, <1>4, <1>10, SMT
  <1>12. /\ IsSource(u) /\ u.kind = Top.kind /\ u.lines = Top.lines /\ u.next = n
         /\ u.iterations = Top.iterations
    <2>1. u = [Top EXCEPT !.next = n] /\ n <= Len(Top.lines)
      BY <1>0, <1>3, <1>4, <1>10, <1>11
    <2> QED BY <1>2, <1>11, <2>1, MovedSource
  <1>13. PICK mv : mv = [stack EXCEPT ![Len(stack)] = u]
    OBVIOUS
  <1>14. IsStack(mv) /\ Last(mv) = u
    BY <1>1, <1>12, <1>13, MovedTop
  <1>15. Left(mv) = SubSeq(p, k + 1, Len(p))
    <2>1. Left(mv) = Unread(u) \o Left(Front(stack))
      BY <1>1, <1>12, <1>13, LeftOfMoved
    <2>2. Unread(u) = Rest(u) \o Again(Top)
      <3>1. Again(u) = Again(Top)
        BY <1>12, Zenon DEF Again
      <3> QED BY <3>1, UnreadForm
    <2>3. Rest(u) \in Seq(Line)
      BY <1>12, RestIsLines
    <2>4. (Rest(u) \o Again(Top)) \o Left(Front(stack))
              = Rest(u) \o (Again(Top) \o Left(Front(stack)))
      BY <1>6, <2>3, LinesAssociate, Zenon
    <2>5. Rest(u) = SubSeq(ls, a + k + 1, Len(ls))
      BY <1>4, <1>10, <1>12, Zenon DEF Rest
    <2> QED BY <1>5, <1>9, <2>1, <2>2, <2>4, <2>5, Zenon
  <1>16. Len(p) \in Nat /\ Len(ls) - a <= Len(p)
    BY <1>9, <1>11, SMT
  <1>17. TopMovesWith(u, k)
    BY <1>3, <1>4, <1>8, <1>9, <1>13, <1>14, <1>15, <1>16, Zenon DEF TopMovesWith
  <1> QED BY <1>0, <1>17, Zenon

LEMMA LupRefines == ASSUME IInv, HandleLUP PROVE Reader!Next
  <1> DEFINE e == FirstOf({"lupend"})
             base == [Top EXCEPT !.next = e - 1]
             moved == [stack EXCEPT ![Len(stack)] = base]
             text == LoopText(e)
             loop == LoopSource(e)
  <1>1. /\ phase = "line" /\ phase' = Returned /\ texts' = texts
        /\ updates' = updates /\ waiting' = Referenced(current) /\ symbols' = symbols
        /\ current.op = "lup" /\ LoopCount >= 1
        /\ e <= Len(Top.lines)
        /\ stack' = Append(moved, loop)
        /\ macros' = macros /\ failed' = failed
    BY Zenon DEF HandleLUP, Assemble, IsInRange, AdvanceTo, SetTop
  <1>2. /\ IsStack(stack) /\ stack # <<>> /\ current \in Line /\ IsSource(Top)
    BY <1>1, WhileReading
  <1>3. /\ Top \in Source /\ Top.next \in Nat /\ Top.lines \in Seq(Line)
        /\ Len(Top.lines) \in Nat /\ LoopCount \in Nat
    BY <1>2, SourceFields, CountsAreNumbers DEF IsSource
  <1>4. /\ e \in Nat /\ e >= Top.next + 1
        /\ Top.lines[e].op = "lupend"
        /\ \A i \in Top.next + 1 .. e - 1 : Top.lines[i].op # "lupend"
    <2>1. IsFirstOf({"lupend"}, e) /\ e \in Nat /\ e >= Top.next + 1
      BY <1>2, FirstExists
    <2> QED BY <1>1, <2>1 DEF IsFirstOf
  <1>5. text = SubSeq(Top.lines, Top.next + 1, e - 1) /\ loop = NewSource("lup", text, LoopCount)
    BY DEF LoopText, LoopSource
  <1> HIDE DEF e
  <1>6. PICK k : k = e - 1 - Top.next
    OBVIOUS
  <1>7. PICK d : d = k + 1
    OBVIOUS
  <1>8. /\ k \in Nat /\ Top.next + k <= Len(Top.lines) /\ Top.next + k = e - 1
        /\ d \in 1 .. Len(Top.lines) - Top.next /\ Top.next + d = e /\ d - 1 = k
        /\ e <= Len(Top.lines) + 1 /\ Top.next + 1 <= e
    <2>1. /\ e \in Nat /\ e >= Top.next + 1 /\ e <= Len(Top.lines)
          /\ Top.next \in Nat /\ Len(Top.lines) \in Nat
      BY <1>1, <1>3, <1>4, Zenon
    <2>2. PICK a : a = Top.next
      OBVIOUS
    <2>3. PICK l : l = Len(Top.lines)
      OBVIOUS
    <2>4. e \in Nat /\ e >= a + 1 /\ e <= l /\ a \in Nat /\ l \in Nat
          /\ k = e - 1 - a /\ d = k + 1
      BY <1>6, <1>7, <2>1, <2>2, <2>3, Zenon
    <2>5. /\ k \in Nat /\ a + k <= l /\ a + k = e - 1
          /\ d \in 1 .. l - a /\ a + d = e /\ d - 1 = k
          /\ e <= l + 1 /\ a + 1 <= e
      BY ONLY <2>4, SMT
    <2> QED BY <2>2, <2>3, <2>5, Zenon
  <1>9. base = [Top EXCEPT !.next = Top.next + k]
    BY <1>8
  <1>10. text \in Seq(Line)
    <2>1. Top.lines \in Seq(Line) /\ Top.next \in Nat /\ e \in Nat
          /\ Top.next + 1 <= e /\ e <= Len(Top.lines) + 1
      BY <1>3, <1>4, <1>8, Zenon
    <2>2. SubSeq(Top.lines, Top.next + 1, e - 1) \in Seq(Line)
      BY ONLY <2>1, LinesInFrontOf
    <2> QED BY <1>5, <2>2, Zenon
  <1> HIDE DEF base, text, loop
  <1>11. /\ Pending \in Seq(Line) /\ Len(Pending) \in Nat
         /\ Len(Top.lines) - Top.next <= Len(Pending)
         /\ \A i \in 1 .. Len(Top.lines) - Top.next :
                Pending[i] = Top.lines[Top.next + i]
         /\ SubSeq(Pending, 1, k) = SubSeq(Top.lines, Top.next + 1, Top.next + k)
         /\ Left(moved) = SubSeq(Pending, k + 1, Len(Pending))
         /\ IsStack(moved)
    <2>1. TopMovesWith([Top EXCEPT !.next = Top.next + k], k)
      BY <1>2, <1>8, PlaceOnTop
    <2> QED BY <1>9, <2>1, Zenon DEF TopMovesWith
  <1> HIDE DEF moved
  <1>12. /\ IsSource(loop) /\ loop.kind = "lup" /\ loop.lines = text /\ loop.next = 0
         /\ loop.iterations = LoopCount
    <2>1. PICK c \in Nat : c = LoopCount
      BY <1>3
    <2>2. PICK l \in Seq(Line) : l = text
      BY <1>10
    <2>3. PICK new : new = NewSource("lup", l, c)
      OBVIOUS
    <2>4. IsSource(new) /\ new.kind = "lup" /\ new.lines = l /\ new.next = 0 /\ new.iterations = c
      BY <2>3, NewSourceIsASource
    <2> QED BY <1>5, <2>1, <2>2, <2>3, <2>4, Zenon
  <1>13. Left(stack') = Unread(loop) \o Left(moved)
    <2>1. loop.iterations >= 1
      BY <1>1, <1>12
    <2> QED BY <1>1, <1>11, <1>12, <2>1, LeftOfPushed
  <1>14. Unread(loop) = Reader!Loop(text, LoopCount)
    <2>1. PICK j : j = LoopCount - 1
      OBVIOUS
    <2>2. j \in Nat /\ LoopCount = j + 1
      BY <1>1, <1>3, <2>1, SMT
    <2>3. Rest(loop) = text
      <3>1. SubSeq(text, 1, Len(text)) = text /\ 0 + 1 = 1
        BY <1>10, SubSeqFull
      <3> QED BY <1>12, <3>1 DEF Rest
    <2>4. Again(loop) = Iterations(text, j)
      BY <1>12, <2>1, Zenon DEF Again
    <2>5. Unread(loop) = text \o Iterations(text, j)
      BY <2>3, <2>4, UnreadForm
    <2>6. CASE text = <<>>
      <3>1. Iterations(text, j) \in Seq(Line)
        BY <1>10, <2>2, IterationsAreLines
      <3>2. text \o Iterations(text, j) = Iterations(text, j)
        BY <2>6, <3>1, ConcatEmptySeq
      <3>3. Iterations(text, j) = [i \in 1 .. LoopCount - 1 |-> Blank]
        BY <2>1, <2>6, Zenon DEF Iterations, Repeated
      <3> QED BY <2>5, <2>6, <3>2, <3>3, Zenon DEF Reader!Loop
    <2>7. CASE text # <<>>
      <3>1. Iterations(text, j + 1) = text \o Iterations(text, j)
        BY <1>10, <2>2, <2>7, OneMoreIteration, Zenon
      <3>2. Iterations(text, j + 1) = FlattenSeq([i \in 1 .. j + 1 |-> text])
        BY <2>7, Zenon DEF Iterations, Repeated
      <3> QED BY <2>2, <2>5, <2>7, <3>1, <3>2, ReaderSequences, Zenon DEF Reader!Loop
    <2> QED BY <2>6, <2>7
  <1>15. d \in DOMAIN Pending
    <2>1. DOMAIN Pending = 1 .. Len(Pending)
      BY <1>11, LenProperties
    <2>2. d \in 1 .. Len(Pending)
      BY <1>3, <1>8, <1>11, SMT
    <2> QED BY <2>1, <2>2, Zenon
  <1>16. Pending[d].op = "lupend"
    BY <1>4, <1>8, <1>11, Zenon
  <1>17. ASSUME NEW i \in 1 .. d - 1 PROVE Pending[i].op # "lupend"
    <2>1. PICK j : j = Top.next + i
      OBVIOUS
    <2>2. i \in 1 .. Len(Top.lines) - Top.next /\ j \in Top.next + 1 .. e - 1
      <3>1. PICK a : a = Top.next
        OBVIOUS
      <3>2. PICK l : l = Len(Top.lines)
        OBVIOUS
      <3>3. /\ k \in Nat /\ a + k = e - 1 /\ d \in 1 .. l - a /\ d - 1 = k /\ j = a + i
            /\ a \in Nat /\ l \in Nat /\ e \in Nat /\ i \in 1 .. d - 1
        BY <1>3, <1>4, <1>8, <2>1, <3>1, <3>2, Zenon
      <3>4. i \in 1 .. l - a /\ j \in a + 1 .. e - 1
        BY ONLY <3>3, SMT
      <3> QED BY <3>1, <3>2, <3>4, Zenon
    <2>3. Pending[i] = Top.lines[j]
      BY <1>11, <2>1, <2>2, Zenon
    <2> QED BY <1>4, <2>2, <2>3, Zenon
  <1>18. SubSeq(Pending, 1, d - 1) = text
    BY <1>5, <1>8, <1>11, Zenon
  <1>19. Pending' = Reader!Loop(SubSeq(Pending, 1, d - 1), LoopCount)
                        \o SubSeq(Pending, d, Len(Pending))
    BY <1>7, <1>11, <1>13, <1>14, <1>18, PendingIsLeft, Zenon
  <1>20. Reader!Done("lup")
    BY <1>1, LineEndsHere
  <1>21. Reader!Operand(Reader!Now.count) = LoopCount
    BY <1>1, OperandNow
  <1>22. Reader!IsFirst("lupend", d)
    BY <1>16, <1>17, Zenon DEF Reader!IsFirst
  <1>23. LoopCount > 0
    BY <1>1, <1>3, SMT
  <1>24. \E i \in DOMAIN Pending :
            /\ Reader!IsFirst("lupend", i)
            /\ Pending' = Reader!Loop(SubSeq(Pending, 1, i - 1), Reader!Operand(Reader!Now.count))
                              \o Reader!From(Pending, i)
    BY <1>15, <1>19, <1>21, <1>22, Zenon DEF Reader!From
  <1>25. Reader!Lup
    BY <1>1, <1>20, <1>21, <1>23, <1>24, Zenon DEF Reader!Lup
  <1> QED BY <1>25, Zenon DEF Reader!Next

LEMMA LupOutOfRangeRefines == ASSUME IInv, LupOutOfRange PROVE Reader!Next
  <1>1. /\ phase = "line" /\ phase' = Returned /\ texts' = texts
        /\ updates' = updates /\ waiting' = Referenced(current) /\ symbols' = symbols
        /\ current.op = "lup" /\ ~(LoopCount >= 1)
        /\ stack' = stack /\ macros' = macros /\ failed' = failed
    BY Zenon DEF LupOutOfRange, Assemble, IsInRange
  <1>2. LoopCount \in Nat
    BY <1>1, LineNow, CountsAreNumbers
  <1>3. LoopCount = 0
    BY <1>1, <1>2, SMT
  <1>4. Reader!Done("lup")
    BY <1>1, LineEndsHere
  <1>5. Reader!Operand(Reader!Now.count) = 0 /\ Pending' = Pending
    BY <1>1, <1>3, OperandNow, PendingIsLeft
  <1>6. Reader!PassLup
    BY <1>1, <1>4, <1>5, Zenon DEF Reader!PassLup
  <1> QED BY <1>6, Zenon DEF Reader!Next

LEMMA MacRefines == ASSUME IInv, HandleMAC PROVE Reader!Next
  <1> DEFINE e == FirstOf({"mac", "macend"})
             n == Skip(Top.lines, e)
             s == [Top EXCEPT !.next = n]
             text == SubSeq(Top.lines, Top.next + 1, e - 1)
             given == e <= Len(Top.lines) /\ Top.lines[e].op = "mac"
  <1>1. /\ phase = "line" /\ phase' = Returned /\ texts' = texts
        /\ updates' = updates /\ waiting' = waiting /\ symbols' = symbols
        /\ current.op = "mac" /\ macros[current.macro] = NoMacro
        /\ stack' = [stack EXCEPT ![Len(stack)] = s]
        /\ given => failed' = TRUE /\ macros' = macros
        /\ ~given => failed' = failed /\ macros' = [macros EXCEPT ![current.macro] = text]
    BY Zenon DEF HandleMAC, Assemble, CanDefine, FindMacroDefinition, SetTop
  <1>2. IsStack(stack) /\ stack # <<>> /\ IsSource(Top)
    BY <1>1, WhileReading
  <1>3. /\ Top \in Source /\ Top.next \in Nat /\ Top.lines \in Seq(Line)
        /\ Len(Top.lines) \in Nat
    BY <1>2, SourceFields DEF IsSource
  <1>4. /\ e \in Nat /\ Top.next + 1 <= e /\ e <= Len(Top.lines) + 1
        /\ e <= Len(Top.lines) => Top.lines[e].op \in {"mac", "macend"}
        /\ \A i \in Top.next + 1 .. e - 1 : Top.lines[i].op \notin {"mac", "macend"}
    <2>1. IsFirstOf({"mac", "macend"}, e) /\ e \in Nat /\ e >= Top.next + 1
          /\ e <= Len(Top.lines) + 1
      BY <1>2, FirstExists
    <2> QED BY <1>3, <2>1, SMT DEF IsFirstOf
  <1>5. n = IF e < Len(Top.lines) THEN e ELSE Len(Top.lines)
    BY DEF Skip
  <1> HIDE DEF e, n
  (* The lines of the macro, and those taken altogether. *)
  <1>6. PICK k : k = e - 1 - Top.next
    OBVIOUS
  <1>7. PICK c : c = n - Top.next
    OBVIOUS
  <1>8. /\ k \in Nat /\ Top.next + k <= Len(Top.lines) /\ Top.next + k = e - 1
        /\ c \in Nat /\ Top.next + c <= Len(Top.lines) /\ Top.next + c = n
        /\ e <= Len(Top.lines) => c = k + 1 /\ k + 1 \in 1 .. Len(Top.lines) - Top.next
                                  /\ Top.next + (k + 1) = e
        /\ ~(e <= Len(Top.lines)) => c = k
        /\ c + 1 >= 1
    <2>1. PICK a : a = Top.next
      OBVIOUS
    <2>2. PICK l : l = Len(Top.lines)
      OBVIOUS
    <2>3. /\ a \in Nat /\ l \in Nat /\ e \in Nat /\ a + 1 <= e /\ e <= l + 1
          /\ n = (IF e < l THEN e ELSE l) /\ k = e - 1 - a /\ c = n - a
      BY <1>3, <1>4, <1>5, <1>6, <1>7, <2>1, <2>2, Zenon
    <2>4. /\ k \in Nat /\ a + k <= l /\ a + k = e - 1
          /\ c \in Nat /\ a + c <= l /\ a + c = n
          /\ e <= l => c = k + 1 /\ k + 1 \in 1 .. l - a /\ a + (k + 1) = e
          /\ ~(e <= l) => c = k
          /\ c + 1 >= 1
      BY ONLY <2>3, SMT
    <2> QED BY <2>1, <2>2, <2>4, Zenon
  <1>9. s = [Top EXCEPT !.next = Top.next + c]
    BY <1>8
  <1> HIDE DEF s
  <1>10. /\ Pending \in Seq(Line) /\ Len(Pending) \in Nat
         /\ Len(Top.lines) - Top.next <= Len(Pending)
         /\ \A i \in 1 .. Len(Top.lines) - Top.next :
                Pending[i] = Top.lines[Top.next + i]
         /\ Left([stack EXCEPT ![Len(stack)] = s]) = SubSeq(Pending, c + 1, Len(Pending))
    <2>1. TopMovesWith([Top EXCEPT !.next = Top.next + c], c)
      BY <1>2, <1>8, PlaceOnTop
    <2> QED BY <1>9, <2>1, Zenon DEF TopMovesWith
  <1>11. SubSeq(Pending, 1, k) = text
    <2>1. TopMovesWith([Top EXCEPT !.next = Top.next + k], k)
      BY <1>2, <1>8, PlaceOnTop
    <2>2. SubSeq(Pending, 1, k) = SubSeq(Top.lines, Top.next + 1, Top.next + k)
      BY <2>1, Zenon DEF TopMovesWith
    <2> QED BY <1>8, <2>2, Zenon
  <1>12. Pending' = SubSeq(Pending, c + 1, Len(Pending))
    BY <1>1, <1>10, PendingIsLeft, Zenon
  <1> HIDE DEF text
  <1>13. CASE given
    <2>1. PICK m : m = c + 1
      OBVIOUS
    <2>2. m \in 1 .. Len(Pending) + 1
      BY <1>3, <1>8, <1>10, <2>1, SMT
    <2>3. Pending' = SubSeq(Pending, m, Len(Pending))
      BY <1>12, <2>1
    <2>4. current.op \in {"equ", "put", "lup", "mac", "call"} /\ Reader!Done(current.op)
      BY <1>1, LineEndsHere
    <2>5. failed' = TRUE /\ macros' = macros
      BY <1>1, <1>13
    <2> QED BY <1>1, <2>2, <2>3, <2>4, <2>5, StepFails
  <1>14. CASE ~given
    <2>1. failed' = failed /\ macros' = [macros EXCEPT ![current.macro] = text]
      BY <1>1, <1>14
    <2>2. k \in 0 .. Len(Pending)
      BY <1>3, <1>8, <1>10, SMT
    <2>3. ASSUME NEW i \in 1 .. k PROVE Pending[i].op \notin {"mac", "macend"}
      <3>1. PICK j : j = Top.next + i
        OBVIOUS
      <3>2. i \in 1 .. Len(Top.lines) - Top.next /\ j \in Top.next + 1 .. e - 1
        BY <1>3, <1>8, <3>1, SMT
      <3>3. Pending[i] = Top.lines[j]
        BY <1>10, <3>1, <3>2, Zenon
      <3> QED BY <1>4, <3>2, <3>3, Zenon
    <2>4. \/ Pending' = SubSeq(Pending, k + 1, Len(Pending))
          \/ /\ k < Len(Pending)
             /\ Pending[k + 1].op = "macend"
             /\ Pending' = SubSeq(Pending, k + 2, Len(Pending))
      <3>1. CASE e <= Len(Top.lines)
        <4>1. Top.lines[e].op \in {"mac", "macend"} /\ Top.lines[e].op # "mac"
          BY <1>4, <1>14, <3>1
        <4>2. Top.lines[e].op = "macend"
          BY <4>1
        <4>3. Pending[k + 1] = Top.lines[Top.next + (k + 1)]
          BY <1>8, <1>10, <3>1
        <4>4. Pending[k + 1].op = "macend"
          BY <1>8, <3>1, <4>2, <4>3, Zenon
        <4>5. k < Len(Pending) /\ c + 1 = k + 2
          BY <1>3, <1>8, <1>10, <3>1, SMT
        <4>6. Pending' = SubSeq(Pending, k + 2, Len(Pending))
          BY <1>12, <4>5, Zenon
        <4> QED BY <4>4, <4>5, <4>6
      <3>2. CASE ~(e <= Len(Top.lines))
        BY <1>8, <1>12, <3>2, Zenon
      <3> QED BY <3>1, <3>2
    <2>5. Reader!Done("mac")
      BY <1>1, LineEndsHere
    <2>6. Reader!Now = current
      BY <1>1, LineNow
    <2>7. macros' = [macros EXCEPT ![Reader!Now.macro] = SubSeq(Pending, 1, k)]
      BY <1>11, <2>1, <2>6, Zenon
    <2>8. \E i \in 0 .. Len(Pending) :
             /\ \A j \in 1 .. i : Pending[j].op \notin {"mac", "macend"}
             /\ macros' = [macros EXCEPT ![Reader!Now.macro] = SubSeq(Pending, 1, i)]
             /\ \/ Pending' = Reader!From(Pending, i + 1)
                \/ /\ i < Len(Pending)
                   /\ Pending[i + 1].op = "macend"
                   /\ Pending' = Reader!From(Pending, i + 2)
      BY <2>2, <2>3, <2>4, <2>7, Zenon DEF Reader!From
    <2>9. macros[Reader!Now.macro] = NoMacro
      BY <1>1, <2>6, Zenon
    <2>10. Reader!Mac
      BY <1>1, <2>1, <2>5, <2>8, <2>9, Zenon DEF Reader!Mac
    <2> QED BY <2>10, Zenon DEF Reader!Next
  <1> QED BY <1>13, <1>14

-----------------------------------------------------------------------------
(* The refinement. *)

LEMMA InitRefines == Init => Reader!Init
  <1> SUFFICES ASSUME Init PROVE Reader!Init
    OBVIOUS
  <1> DEFINE s == NewSource("file", texts[Main], 1)
  <1>1. texts \in [Files -> Seq(Line)] /\ Main \in Files
    BY TextsAssumption DEF Init
  <1>2. PICK ls \in Seq(Line) : ls = texts[Main]
    BY <1>1
  <1>3. IsSource(s) /\ s.kind = "file" /\ s.lines = ls /\ s.next = 0
    BY <1>2, NewSourceIsASource
  <1>4. stack = <<s>>
    BY DEF Init
  <1> HIDE DEF s
  <1>5. s.kind # "lup"
    BY <1>3
  <1>6. IsStack(<<>>) /\ Append(<<>>, s) = <<s>>
    BY EmptySeq DEF IsStack
  <1>7. Left(stack) = Unread(s) \o Left(<<>>)
    BY <1>3, <1>4, <1>5, <1>6, LeftOfPushed
  <1>8. Unread(s) = ls
    <2>1. Again(s) = <<>>
      BY <1>5 DEF Again
    <2>2. Rest(s) = ls
      <3>1. SubSeq(ls, 1, Len(ls)) = ls /\ 0 + 1 = 1
        BY SubSeqFull
      <3> QED BY <1>3, <3>1 DEF Rest
    <2> QED BY <2>1, <2>2, UnreadForm, ConcatEmptySeq
  <1>9. Pending = texts[Main]
    <2>1. ls \o <<>> = ls
      BY ConcatEmptySeq
    <2> QED BY <1>2, <1>7, <1>8, <2>1, NothingLeft, PendingIsLeft, Zenon
  <1>10. Assembled = <<>>
    <2>1. phase \notin UnderWay /\ updates = <<>> /\ <<>> \in Seq(Update)
      BY EmptySeq DEF Init, UnderWay
    <2> QED BY <2>1, NoLineInHand, NoCalls, AssembledIsInHand, Zenon
  <1>11. /\ macros = [m \in Macros |-> NoMacro] /\ failed = FALSE
         /\ symbols = [t \in Symbols |-> "undefined"]
         /\ waiting = [t \in Symbols |-> <<>>]
    BY Zenon DEF Init
  <1> QED BY <1>1, <1>9, <1>10, <1>11, Zenon DEF Reader!Init

LEMMA PlainLineRefines == ASSUME IInv, PlainLine PROVE Reader!Next
  <1>1. LineLeavesStack
    BY RestIsOK, PlainLineLeavesStack
  <1>2. /\ phase = "line" /\ Reader!Done(current.op)
        /\ stack' = stack /\ macros' = macros /\ symbols' = symbols
    BY <1>1, LineEndsHere DEF LineLeavesStack
  <1>3. failed \in BOOLEAN
    BY RestIsOK DEF RestOK
  <1>4. CASE Code
    BY <1>1, <1>2, <1>4, StepPasses DEF Code, Assemble
  <1>5. CASE HandleLUPend \/ HandleMACend
    <2>1. /\ current.op \in {"lupend", "macend"}
          /\ failed' = (failed \/ ~seenLUP) \/ failed' = TRUE
      BY <1>5, Zenon DEF HandleLUPend, HandleMACend, Assemble
    <2>2. failed' = failed \/ failed' = TRUE
      BY <1>3, <2>1
    <2> QED BY <1>1, <1>2, <2>1, <2>2, StepPasses
  <1>6. CASE LupOutOfRange
    BY <1>6, LupOutOfRangeRefines
  <1>7. CASE PutInvalid \/ LupInvalid \/ MacInvalid \/ HandleInvalidOperator
    <2>1. failed' = TRUE /\ current.op \in {"equ", "put", "lup", "mac", "call"}
      BY <1>7, Zenon DEF PutInvalid, LupInvalid, MacInvalid, HandleInvalidOperator, Assemble
    <2> QED BY <1>2, <2>1, StepFailsInPlace
  <1> QED BY <1>4, <1>5, <1>6, <1>7 DEF PlainLine

LEMMA NextRefines == IInv /\ WaitInv /\ [Next]_vars => [Reader!Next]_(Reader!vars)
  <1> SUFFICES ASSUME IInv, WaitInv, [Next]_vars PROVE Reader!Next \/ UNCHANGED Reader!vars
    OBVIOUS
  <1>1. CASE ReadLine
    BY <1>1, ReadRefines
  <1>2. CASE EndOfSource
    BY <1>2, EndRefines
  <1>3. CASE AddUnhandledLabel \/ LabelInvalid
    BY <1>3, LabelRefines
  <1>4. CASE HandleEQU
    BY <1>4, EquRefines
  <1>5. CASE EquInvalid
    BY <1>5, EquInvalidRefines
  <1>6. CASE RunAgain
    BY <1>6, RunAgainRefines
  <1>7. CASE EndUpdate
    BY <1>7, EndUpdateRefines
  <1>8. CASE HandlePUT
    BY <1>8, PutRefines
  <1>9. CASE HandleLUP
    BY <1>9, LupRefines
  <1>10. CASE HandleMAC
    BY <1>10, MacRefines
  <1>11. CASE AssignParameters
    BY <1>11, AssignRefines
  <1>12. CASE HandleMacroExpansion
    BY <1>12, CallRefines
  <1>13. CASE PlainLine
    BY <1>13, PlainLineRefines
  <1>14. CASE Abort \/ Crash
    BY <1>14, EndsStop, StopRefines
  <1>15. CASE UNCHANGED vars
    <2>1. /\ UNCHANGED <<texts, stack, current, macros, symbols, waiting, updates, failed>>
          /\ phase' = phase
      BY <1>15 DEF vars
    <2>2. Assembled' = Assembled
      BY <2>1, AssembledIsInHand, Zenon
    <2> QED BY <2>1, <2>2, PendingIsLeft, StepStutters
  <1> QED BY <1>1, <1>2, <1>3, <1>4, <1>5, <1>6, <1>7, <1>8, <1>9, <1>10, <1>11,
             <1>12, <1>13, <1>14, <1>15 DEF Next, PlainLine

(* Files, loops and macros on a stack are read as one sequence of lines,   *)
(* into which a PUT, a LUP and a macro call insert theirs and out of which *)
(* a MAC takes them: whatever files include, loops repeat and macros       *)
(* expand to, none is left out or out of turn until reading ends.  A line  *)
(* that waits for a symbol is carried out once more when the symbol has    *)
(* its value, before the next line is read, and inserts its lines again    *)
(* then, in front of those still to be read; no line waits longer than     *)
(* that (getNextSourceLine, TextSource.c, handlePUT, handleLUP, handleMAC, *)
(* handleMacroExpansion, updateLineWithForwardReference).                  *)
THEOREM ImplementsLineReader == Spec => RefinesLineReader
  <1>1. Spec => []WaitInv
    BY InitEstablishesWaiting, NextKeepsWaiting, Invariance, PTL DEF Spec
  <1> QED BY <1>1, InitRefines, NextRefines, Invariance, PTL
             DEF RefinesLineReader, Reader!Spec, Spec
=============================================================================
