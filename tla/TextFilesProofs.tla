-------------------------- MODULE TextFilesProofs ---------------------------
(***************************************************************************)
(* Proofs about TextFiles, for every text, whatever is in memory behind    *)
(* it, and every mark of the end of a loop: the files that are derived     *)
(* from one another are each read from the start of a line to the start of *)
(* a line, and have counted the lines before.                              *)
(***************************************************************************)
EXTENDS TextFiles, FiniteSetTheorems, SequenceTheorems, WellFoundedInduction, TLAPS

TextEnd == files[1].end

\* The text ends at its first NUL, or where the file does.
IsText ==
    /\ TextLength \in Nat /\ TextEnd \in Nat /\ TextLength + 1 <= TextEnd
    /\ TextLength + 1 = TextEnd \/ memory[TextLength + 1] = NUL
    /\ \A i \in 1 .. TextLength : memory[i] # NUL

\* Where reading can be: the start of a line, or behind the text, where nothing can be read.
IsAtLine(p) ==
    /\ p \in Nat /\ p >= 1
    /\ StartsLine(p) \/ (p > TextLength /\ (memory[p] = NUL \/ p >= TextEnd))

\* A file is read from a line on, and ends with the text or in front of a line.
IsInOrder(f) ==
    /\ IsAtLine(f.curr) /\ IsAtLine(f.text) /\ f.text <= f.curr
    /\ f.end = TextEnd \/ (StartsLine(f.end) /\ f.curr <= f.end)
    /\ f.lineNumber = LinesBefore(f.curr)
    /\ f.startLineNumber = LinesBefore(f.text)

\* A line is that in front of the place where the file is now.
IsLineOf(f, l) ==
    /\ l.start = f.prev /\ StartsLine(f.prev)
    /\ f.text <= f.prev /\ f.prev < f.end
    /\ f.lineNumber = LinesBefore(f.prev) + 1
    /\ l.length \in Nat
    /\ \A p \in Positions(l) : p \in 1 .. TextLength /\ ~IsLineEnd(p)
    /\ IsLineEnd(l.start + l.length) \/ l.start + l.length = TextLength + 1

\* A loop lies in front of the line with its mark, where the file below goes on; a search for the
\* mark goes as far as the file below does.
IsOver(f, below) ==
    IF f.closed
    THEN /\ f.end = below.curr /\ StartsLine(f.end)
         /\ Characters(memory, SizedString(f.end, Len(Mark))) = Mark
    ELSE f.end = below.end /\ below.text <= f.text

AreInOrder(fs, l) ==
    /\ fs \in Seq(TextFile) /\ Len(fs) >= 1
    /\ fs[1].end = TextEnd /\ ~fs[1].closed
    /\ \A i \in 1 .. Len(fs) : IsInOrder(fs[i])
    /\ \A i \in 1 .. Len(fs) - 1 : IsOver(fs[i + 1], fs[i])
    /\ ~IsNull(l) => IsLineOf(fs[Len(fs)], l)

Inv ==
    /\ memory \in Seq(Int) /\ TextEnd <= Len(memory)
    /\ IsText
    /\ AreInOrder(files, line)

---------------------------------------------------------------------------
(* Which characters end a line together with the one before.               *)

LEMMA LeastNumber ==
    ASSUME NEW S \in SUBSET Nat, S # {} PROVE \E x \in S : \A y \in S : x <= y
  <1>1. IsWellFoundedOn(OpToRel(<, Nat), Nat)
    BY NatLessThanWellFounded
  <1>2. PICK x \in S : \A y \in S : ~(<<y, x>> \in OpToRel(<, Nat))
    BY <1>1, WFMin
  <1>3. \A y \in S : ~(y < x)
    BY <1>2 DEF OpToRel
  <1> QED BY <1>3, SMT

Ends(m, n, i) == i \in 1 .. n /\ IsLineEndCharacter(m[i])

\* Two different characters, each of which may end a line.
IsPair(m, n, i) == i > 1 /\ Ends(m, n, i - 1) /\ Ends(m, n, i) /\ m[i - 1] # m[i]

IsSeconds(g, m, n) ==
    g = [i \in Nat |-> /\ i > 1
                       /\ Ends(m, n, i - 1) /\ Ends(m, n, i) /\ m[i - 1] # m[i]
                       /\ ~g[i - 1]]

Seconds(m, n) == CHOOSE g : IsSeconds(g, m, n)

\* From k, which is no second of two, pairs follow one another up to i.
IsRun(m, n, k, i) ==
    ~IsPair(m, n, k) /\ \A j \in k + 1 .. i : IsPair(m, n, j)

\* The second of two, without recursion: at an odd distance from the start of its run.
IsOddInRun(m, n, i) ==
    \E k \in 1 .. i : IsRun(m, n, k, i) /\ (i - k) % 2 = 1

LEMMA RunsStart ==
    ASSUME NEW m, NEW n, NEW i \in Nat, i >= 1
    PROVE  \E k \in 1 .. i : IsRun(m, n, k, i)
  <1> DEFINE S == {d \in Nat : d < i /\ ~IsPair(m, n, i - d)}
  <1>1. i - 1 \in Nat /\ i - 1 < i /\ i - (i - 1) = 1 /\ ~(1 > 1)
    BY SMT
  <1>2. ~IsPair(m, n, 1)
    BY <1>1, Zenon DEF IsPair
  <1>3. S \in SUBSET Nat /\ S # {}
    BY <1>1, <1>2
  <1>4. PICK d \in S : \A e \in S : d <= e
    BY <1>3, LeastNumber
  <1>5. PICK k : k = i - d
    OBVIOUS
  <1>6. k \in 1 .. i /\ ~IsPair(m, n, k)
    BY <1>4, <1>5
  <1>7. ASSUME NEW j \in k + 1 .. i PROVE IsPair(m, n, j)
    <2>1. i - j \in Nat /\ i - j < i /\ ~(d <= i - j) /\ i - (i - j) = j
      <3>1. d \in Nat /\ d < i
        BY <1>4
      <3> QED BY <1>5, <1>7, <3>1, SMT
    <2>2. i - j \notin S
      BY <1>4, <2>1
    <2> QED BY <2>1, <2>2
  <1> QED BY <1>6, <1>7 DEF IsRun

LEMMA RunsStartOnce ==
    ASSUME NEW m, NEW n, NEW i \in Nat,
           NEW k \in Nat, NEW l \in Nat, k <= i, l <= i,
           IsRun(m, n, k, i), IsRun(m, n, l, i)
    PROVE  k = l
  <1>1. k < l => l \in k + 1 .. i
    BY SMT
  <1>2. l < k => k \in l + 1 .. i
    BY SMT
  <1>3. ~(k < l) /\ ~(l < k)
    BY <1>1, <1>2 DEF IsRun
  <1> QED BY <1>3, SMT

LEMMA OddInRun ==
    ASSUME NEW m, NEW n, NEW i \in Nat
    PROVE  IsOddInRun(m, n, i) <=> (IsPair(m, n, i) /\ ~IsOddInRun(m, n, i - 1))
  <1>1. CASE i = 0
    <2>1. ~(\E k \in 1 .. i : TRUE) /\ ~(i > 1)
      BY <1>1, SMT
    <2> QED BY <2>1 DEF IsOddInRun, IsPair
  <1>2. CASE i # 0
    <2>1. i >= 1
      BY <1>2, SMT
    <2>2. PICK k \in 1 .. i : IsRun(m, n, k, i)
      BY <2>1, RunsStart
    <2>3. k \in Nat /\ k >= 1 /\ k <= i
      BY <2>2, SMT
    <2>4. \A l \in 1 .. i : IsRun(m, n, l, i) => l = k
      <3>1. ASSUME NEW l \in 1 .. i, IsRun(m, n, l, i) PROVE l = k
        <4>1. l \in Nat /\ l <= i
          BY <3>1, SMT
        <4> QED BY <2>2, <2>3, <3>1, <4>1, RunsStartOnce
      <3> QED BY <3>1
    <2>5. IsOddInRun(m, n, i) <=> (i - k) % 2 = 1
      BY <2>2, <2>4 DEF IsOddInRun
    <2>6. CASE ~IsPair(m, n, i)
      <3>1. i \notin k + 1 .. i
        BY <2>2, <2>6 DEF IsRun
      <3>2. i - k = 0
        BY <2>3, <3>1, SMT
      <3>3. ~((i - k) % 2 = 1)
        BY <3>2, SMT
      <3> QED BY <2>5, <2>6, <3>3
    <2>7. CASE IsPair(m, n, i)
      <3>1. k # i
        BY <2>2, <2>7 DEF IsRun
      <3>2. i - 1 \in Nat /\ k <= i - 1 /\ k \in 1 .. i - 1
        BY <2>3, <3>1, SMT
      <3>3. \A j : j \in k + 1 .. i - 1 => j \in k + 1 .. i
        BY <2>3, SMT
      <3>4. IsRun(m, n, k, i - 1)
        BY <2>2, <3>3 DEF IsRun
      <3>5. \A l \in 1 .. i - 1 : IsRun(m, n, l, i - 1) => l = k
        <4>1. ASSUME NEW l \in 1 .. i - 1, IsRun(m, n, l, i - 1) PROVE l = k
          <5>1. l \in Nat /\ l <= i - 1
            BY <4>1, SMT
          <5> QED BY <2>3, <3>2, <3>4, <4>1, <5>1, RunsStartOnce
        <4> QED BY <4>1
      <3>6. IsOddInRun(m, n, i - 1) <=> (i - 1 - k) % 2 = 1
        BY <3>2, <3>4, <3>5 DEF IsOddInRun
      <3>7. (i - k) % 2 = 1 <=> ~((i - 1 - k) % 2 = 1)
        BY <2>3, <3>2, SMT
      <3> QED BY <2>5, <2>7, <3>6, <3>7
    <2> QED BY <2>6, <2>7
  <1> QED BY <1>1, <1>2

(* The recursive definition defines something: the function without        *)
(* recursion meets it.                                                     *)
LEMMA SecondsExist ==
    ASSUME NEW m, NEW n
    PROVE  IsSeconds(Seconds(m, n), m, n)
  <1>1. PICK g : g = [i \in Nat |-> IsOddInRun(m, n, i)]
    OBVIOUS
  <1> DEFINE Body(i) == /\ i > 1
                        /\ Ends(m, n, i - 1) /\ Ends(m, n, i) /\ m[i - 1] # m[i]
                        /\ ~g[i - 1]
  <1>2. ASSUME NEW i \in Nat PROVE IsOddInRun(m, n, i) <=> Body(i)
    <2>1. CASE i > 1
      <3>1. i - 1 \in Nat
        BY <2>1, SMT
      <3>2. g[i - 1] = IsOddInRun(m, n, i - 1)
        BY <1>1, <3>1, Zenon
      <3>3. IsOddInRun(m, n, i) <=> (IsPair(m, n, i) /\ ~IsOddInRun(m, n, i - 1))
        BY OddInRun
      <3>4. Body(i) <=> (IsPair(m, n, i) /\ ~IsOddInRun(m, n, i - 1))
        BY <3>2, Zenon DEF IsPair
      <3> QED BY <3>3, <3>4, Zenon
    <2>2. CASE ~(i > 1)
      <3>1. IsOddInRun(m, n, i) <=> (IsPair(m, n, i) /\ ~IsOddInRun(m, n, i - 1))
        BY OddInRun
      <3> QED BY <2>2, <3>1, Zenon DEF IsPair
    <2> QED BY <2>1, <2>2
  <1>3. g = [i \in Nat |-> /\ i > 1
                           /\ Ends(m, n, i - 1) /\ Ends(m, n, i) /\ m[i - 1] # m[i]
                           /\ ~g[i - 1]]
    <2>1. ASSUME NEW i \in Nat PROVE IsOddInRun(m, n, i) = Body(i)
      <3>1. CASE IsOddInRun(m, n, i)
        <4>1. IsOddInRun(m, n, i) = TRUE /\ Body(i) = TRUE
          BY <1>2, <3>1
        <4> QED BY <4>1
      <3>2. CASE ~IsOddInRun(m, n, i)
        <4>1. IsOddInRun(m, n, i) = FALSE /\ Body(i) = FALSE
          BY <1>2, <3>2
        <4> QED BY <4>1
      <3> QED BY <3>1, <3>2
    <2>2. [i \in Nat |-> IsOddInRun(m, n, i)] = [i \in Nat |-> Body(i)]
      BY <2>1, Zenon
    <2> QED BY <1>1, <2>2
  <1>4. IsSeconds(g, m, n)
    BY <1>3, Zenon DEF IsSeconds
  <1> QED BY <1>4, Zenon DEF Seconds

LEMMA SecondOfTwo ==
    ASSUME NEW m, NEW n, NEW i \in Nat
    PROVE  Seconds(m, n)[i] <=> (IsPair(m, n, i) /\ ~Seconds(m, n)[i - 1])
  <1>1. PICK g : g = Seconds(m, n)
    OBVIOUS
  <1>2. g = [j \in Nat |-> /\ j > 1
                           /\ Ends(m, n, j - 1) /\ Ends(m, n, j) /\ m[j - 1] # m[j]
                           /\ ~g[j - 1]]
    <2>1. IsSeconds(g, m, n)
      BY <1>1, SecondsExist
    <2> QED BY <2>1, Zenon DEF IsSeconds
  <1>3. g[i] = (/\ i > 1
                /\ Ends(m, n, i - 1) /\ Ends(m, n, i) /\ m[i - 1] # m[i]
                /\ ~g[i - 1])
    BY <1>2, Zenon
  <1> QED BY <1>1, <1>3, Zenon DEF IsPair

LEMMA SecondsOfText == IsSecondOfTwo = Seconds(memory, TextLength)
  BY Zenon DEF IsSecondOfTwo, Seconds, IsSeconds, Ends, IsLineEnd

LEMMA SecondsOfNextText == IsSecondOfTwo' = Seconds(memory', TextLength')
  BY Zenon DEF IsSecondOfTwo, Seconds, IsSeconds, Ends, IsLineEnd

---------------------------------------------------------------------------
(* The lines of a text, from one start to the next.                        *)

LEMMA SecondInText ==
    ASSUME NEW i \in Nat
    PROVE  IsSecondOfTwo[i] <=> /\ i > 1
                                /\ IsLineEnd(i - 1) /\ IsLineEnd(i)
                                /\ memory[i - 1] # memory[i]
                                /\ ~IsSecondOfTwo[i - 1]
  <1>1. PICK m, n : m = memory /\ n = TextLength
    OBVIOUS
  <1>2. IsSecondOfTwo = Seconds(m, n)
    BY <1>1, SecondsOfText, Zenon
  <1>3. \A j : IsLineEnd(j) <=> Ends(m, n, j)
    BY <1>1, Zenon DEF IsLineEnd, Ends
  <1>4. Seconds(m, n)[i] <=> (IsPair(m, n, i) /\ ~Seconds(m, n)[i - 1])
    BY SecondOfTwo
  <1> QED BY <1>1, <1>2, <1>3, <1>4, Zenon DEF IsPair

LEMMA LineEndsAreInText ==
    ASSUME IsText, NEW i, IsLineEnd(i)
    PROVE  i \in Nat /\ i >= 1 /\ i <= TextLength
  <1>1. TextLength \in Nat /\ i \in 1 .. TextLength
    BY DEF IsText, IsLineEnd
  <1> QED BY <1>1, SMT

LEMMA StartsAreInText ==
    ASSUME IsText, NEW i, StartsLine(i)
    PROVE  i \in Nat /\ i >= 1 /\ i <= TextLength
  <1>1. TextLength \in Nat /\ i \in 1 .. TextLength
    BY DEF IsText, StartsLine
  <1> QED BY <1>1, SMT

\* A line starts at c, and its end, or that of the text, is at e.
IsLineFrom(c, e) ==
    /\ e \in Nat /\ c <= e /\ e <= TextLength + 1
    /\ \A i \in c .. e - 1 : i \in 1 .. TextLength /\ ~IsLineEnd(i)
    /\ IsLineEnd(e) \/ e = TextLength + 1

LEMMA FileFields ==
    ASSUME NEW f \in TextFile
    PROVE  /\ f = [text |-> f.text, prev |-> f.prev, curr |-> f.curr, end |-> f.end,
                   lineNumber |-> f.lineNumber, startLineNumber |-> f.startLineNumber,
                   closed |-> f.closed]
           /\ f.text \in Nat /\ f.text >= 1 /\ f.prev \in Nat /\ f.prev >= 1
           /\ f.curr \in Nat /\ f.curr >= 1 /\ f.end \in Nat /\ f.end >= 1
           /\ f.lineNumber \in Nat /\ f.startLineNumber \in Nat /\ f.closed \in BOOLEAN
  BY SMT DEF TextFile, Place

LEMMA MakesAFile ==
    ASSUME NEW t \in Nat, t >= 1, NEW p \in Nat, p >= 1, NEW c \in Nat, c >= 1,
           NEW e \in Nat, e >= 1, NEW n \in Nat, NEW m \in Nat, NEW b \in BOOLEAN
    PROVE  [text |-> t, prev |-> p, curr |-> c, end |-> e,
            lineNumber |-> n, startLineNumber |-> m, closed |-> b] \in TextFile
  <1>1. t \in Place /\ p \in Place /\ c \in Place /\ e \in Place
    BY SMT DEF Place
  <1> QED BY <1>1, Zenon DEF TextFile

\* No file is read behind the text, nor within the line in front of which it ends.
LEMMA ReadsInText ==
    ASSUME IsText, NEW f \in TextFile, IsInOrder(f), ~IsEndOfFile(f)
    PROVE  /\ StartsLine(f.curr) /\ f.curr < f.end /\ f.end <= TextEnd
           /\ f.end = TextEnd \/ (StartsLine(f.end) /\ f.curr <= f.end)
  <1>1. f.curr \in Nat /\ f.end \in Nat
    BY FileFields
  <1>2. memory[f.curr] # NUL /\ ~(f.curr >= f.end)
    BY DEF IsEndOfFile
  <1>3. f.end <= TextEnd
    <2>1. f.end = TextEnd \/ StartsLine(f.end)
      BY DEF IsInOrder
    <2>2. StartsLine(f.end) => f.end <= TextLength
      BY StartsAreInText
    <2>3. TextLength \in Nat /\ TextEnd \in Nat /\ TextLength + 1 <= TextEnd
      BY DEF IsText
    <2> QED BY <1>1, <2>1, <2>2, <2>3, SMT
  <1>4. TextEnd \in Nat
    BY DEF IsText
  <1>5. StartsLine(f.curr) \/ memory[f.curr] = NUL \/ f.curr >= TextEnd
    BY DEF IsInOrder, IsAtLine
  <1>6. ~(f.curr >= TextEnd) /\ f.curr < f.end
    BY <1>1, <1>2, <1>3, <1>4, SMT
  <1> QED BY <1>2, <1>3, <1>5, <1>6 DEF IsInOrder

LEMMA EndOfLineExists ==
    ASSUME NEW f \in TextFile, f.curr < f.end
    PROVE  LET e == EndOfLine(f) IN
           /\ e \in Nat /\ f.curr <= e /\ e <= f.end
           /\ e >= f.end \/ memory[e] = NUL \/ IsLineEndCharacter(memory[e])
           /\ \A i \in f.curr .. e - 1 : ~IsLineEndCharacter(memory[i]) /\ memory[i] # NUL
  <1>1. f.curr \in Nat /\ f.end \in Nat
    BY FileFields
  <1> DEFINE S == {e \in Nat : /\ f.curr <= e /\ e <= f.end
                               /\ e >= f.end \/ memory[e] = NUL \/ IsLineEndCharacter(memory[e])}
  <1>2. f.end \in S
    BY <1>1, SMT
  <1>3. PICK a \in S : \A y \in S : a <= y
    <2>1. S \in SUBSET Nat /\ S # {}
      BY <1>2
    <2> QED BY <2>1, LeastNumber
  <1>4. a \in Nat /\ f.curr <= a /\ a <= f.end /\ a \in f.curr .. f.end
    BY <1>1, <1>3
  <1>5. ASSUME NEW i \in f.curr .. a - 1 PROVE ~IsLineEndCharacter(memory[i]) /\ memory[i] # NUL
    <2>1. i \in Nat /\ f.curr <= i /\ i <= f.end /\ ~(a <= i)
      BY <1>1, <1>4, <1>5, SMT
    <2>2. i \notin S
      BY <1>3, <2>1
    <2> QED BY <2>1, <2>2
  <1>6. \E e \in f.curr .. f.end :
           /\ e >= f.end \/ memory[e] = NUL \/ IsLineEndCharacter(memory[e])
           /\ \A i \in f.curr .. e - 1 : ~IsLineEndCharacter(memory[i]) /\ memory[i] # NUL
    BY <1>3, <1>4, <1>5
  <1>7. PICK e : e = EndOfLine(f)
    OBVIOUS
  <1>8. /\ e \in f.curr .. f.end
        /\ e >= f.end \/ memory[e] = NUL \/ IsLineEndCharacter(memory[e])
        /\ \A i \in f.curr .. e - 1 : ~IsLineEndCharacter(memory[i]) /\ memory[i] # NUL
    BY <1>6, <1>7, Zenon DEF EndOfLine
  <1>9. e \in Nat /\ f.curr <= e /\ e <= f.end
    BY <1>1, <1>8, SMT
  <1> QED BY <1>7, <1>8, <1>9

LEMMA EndOfLineFound ==
    ASSUME IsText, NEW f \in TextFile, IsInOrder(f), ~IsEndOfFile(f)
    PROVE  /\ IsLineFrom(f.curr, EndOfLine(f))
           /\ IsLineEnd(EndOfLine(f)) => EndOfLine(f) < f.end
  <1>1. PICK e : e = EndOfLine(f)
    OBVIOUS
  <1>2. PICK c, d, n, z : c = f.curr /\ d = f.end /\ n = TextLength /\ z = TextEnd
    OBVIOUS
  <1>3. StartsLine(c) /\ c < d /\ d <= z /\ (d = z \/ StartsLine(d))
    BY <1>2, ReadsInText
  <1>4. /\ e \in Nat /\ c <= e /\ e <= d
        /\ e >= d \/ memory[e] = NUL \/ IsLineEndCharacter(memory[e])
        /\ \A i \in c .. e - 1 : ~IsLineEndCharacter(memory[i]) /\ memory[i] # NUL
    BY <1>1, <1>2, <1>3, EndOfLineExists
  <1>5. c \in Nat /\ c >= 1 /\ c <= n /\ d \in Nat /\ n \in Nat /\ z \in Nat /\ n + 1 <= z
    <2>1. c \in Nat /\ c >= 1 /\ c <= n
      BY <1>2, <1>3, StartsAreInText
    <2> QED BY <1>2, <2>1, FileFields DEF IsText
  <1>6. (n + 1 = z \/ memory[n + 1] = NUL) /\ \A i \in 1 .. n : memory[i] # NUL
    BY <1>2 DEF IsText
  <1>7. e <= n + 1
    <2> SUFFICES ASSUME e > n + 1 PROVE FALSE
      BY <1>4, <1>5, SMT
    <2>1. n + 1 \in c .. e - 1 /\ n + 1 # z
      BY <1>3, <1>4, <1>5, SMT
    <2> QED BY <1>4, <1>6, <2>1
  <1>8. ASSUME NEW i \in c .. e - 1 PROVE i \in 1 .. n /\ ~IsLineEnd(i)
    <2>1. i \in 1 .. n
      BY <1>4, <1>5, <1>7, <1>8, SMT
    <2> QED BY <1>4, <1>8, <2>1 DEF IsLineEnd
  <1>9. ASSUME e = d, e <= n PROVE FALSE
    <2>1. StartsLine(d) /\ d # 1 /\ e - 1 \in c .. e - 1
      BY <1>3, <1>4, <1>5, <1>9, SMT
    <2>2. IsLineEnd(d - 1)
      BY <2>1 DEF StartsLine
    <2> QED BY <1>8, <1>9, <2>1, <2>2
  <1>10. ASSUME e <= n PROVE IsLineEnd(e) /\ e < d
    <2>1. e < d /\ e \in 1 .. n
      BY <1>4, <1>5, <1>9, <1>10, SMT
    <2>2. memory[e] # NUL /\ ~(e >= d)
      BY <1>4, <1>5, <1>6, <2>1, SMT
    <2>3. IsLineEndCharacter(memory[e])
      BY <1>4, <2>2
    <2> QED BY <1>2, <2>1, <2>3 DEF IsLineEnd
  <1>11. e <= n \/ e = n + 1
    BY <1>4, <1>5, <1>7, SMT
  <1>12. IsLineEnd(e) => e <= n
    BY <1>2, LineEndsAreInText
  <1>13. IsLineFrom(c, e)
    BY <1>2, <1>4, <1>7, <1>8, <1>10, <1>11 DEF IsLineFrom
  <1> QED BY <1>1, <1>2, <1>10, <1>12, <1>13

LEMMA NoStartsWithin ==
    ASSUME IsText, NEW c, NEW e, StartsLine(c), IsLineFrom(c, e)
    PROVE  /\ \A j \in c + 1 .. e : ~StartsLine(j)
           /\ ~IsSecondOfTwo[e]
  <1>1. c \in Nat /\ c >= 1 /\ e \in Nat /\ c <= e
    BY StartsAreInText DEF IsLineFrom
  <1>2. ASSUME NEW j \in c + 1 .. e PROVE ~StartsLine(j)
    <2>1. j - 1 \in c .. e - 1 /\ j # 1
      BY <1>1, <1>2, SMT
    <2>2. ~IsLineEnd(j - 1)
      BY <2>1 DEF IsLineFrom
    <2> QED BY <2>1, <2>2 DEF StartsLine
  <1>3. CASE e = c
    <2>1. c = 1 \/ ~IsSecondOfTwo[c]
      BY DEF StartsLine
    <2>2. c = 1 => ~(c > 1)
      BY SMT
    <2>3. c = 1 => ~IsSecondOfTwo[c]
      BY <1>1, <2>2, SecondInText
    <2> QED BY <1>2, <1>3, <2>1, <2>3
  <1>4. CASE e # c
    <2>1. e - 1 \in c .. e - 1
      BY <1>1, <1>4, SMT
    <2>2. ~IsLineEnd(e - 1)
      BY <2>1 DEF IsLineFrom
    <2>3. ~IsSecondOfTwo[e]
      BY <1>1, <2>2, SecondInText
    <2> QED BY <1>2, <2>3
  <1> QED BY <1>3, <1>4

LEMMA CountsAreNumbers ==
    ASSUME NEW i \in Nat
    PROVE  /\ IsFiniteSet({j \in 1 .. i - 1 : StartsLine(j)})
           /\ LinesBefore(i) \in Nat
  <1>1. IsFiniteSet(1 .. i - 1)
    <2>1. 1 \in Int /\ i - 1 \in Int
      BY SMT
    <2> QED BY <2>1, FS_Interval
  <1>2. IsFiniteSet({j \in 1 .. i - 1 : StartsLine(j)})
    <2>1. {j \in 1 .. i - 1 : StartsLine(j)} \subseteq 1 .. i - 1
      OBVIOUS
    <2> QED BY <1>1, <2>1, FS_Subset
  <1> QED BY <1>2, FS_CardinalityType DEF LinesBefore

LEMMA OneLineMore ==
    ASSUME IsText, NEW c, StartsLine(c), NEW d \in Nat, c < d,
           \A j \in c + 1 .. d - 1 : ~StartsLine(j)
    PROVE  LinesBefore(d) = LinesBefore(c) + 1
  <1>1. c \in Nat /\ c >= 1
    BY StartsAreInText
  <1> DEFINE C == {j \in 1 .. c - 1 : StartsLine(j)}
             D == {j \in 1 .. d - 1 : StartsLine(j)}
  <1>2. D = C \cup {c}
    <2>1. \A j : j \in 1 .. d - 1 <=> (j \in 1 .. c - 1 \/ j = c \/ j \in c + 1 .. d - 1)
      BY <1>1, SMT
    <2> QED BY <2>1
  <1>3. c \notin C
    BY <1>1, SMT
  <1>4. IsFiniteSet(C)
    BY <1>1, CountsAreNumbers
  <1>5. Cardinality(C \cup {c}) = Cardinality(C) + 1
    BY <1>3, <1>4, FS_AddElement
  <1> QED BY <1>2, <1>5 DEF LinesBefore

\* After a line comes the start of the next, or nothing; two different characters are passed at once.
LEMMA NextLineStarts ==
    ASSUME IsText, NEW f \in TextFile, IsInOrder(f), ~IsEndOfFile(f),
           NEW d, d = AdvanceToNextLine(f, EndOfLine(f))
    PROVE  /\ IsAtLine(d) /\ f.curr < d
           /\ f.end = TextEnd \/ d <= f.end
           /\ LinesBefore(d) = LinesBefore(f.curr) + 1
  <1>1. PICK c, e, n, z, w : /\ c = f.curr /\ e = EndOfLine(f) /\ n = TextLength /\ z = TextEnd
                             /\ w = f.end
    OBVIOUS
  <1>2. StartsLine(c) /\ c < w /\ w <= z /\ (w = z \/ StartsLine(w))
    BY <1>1, ReadsInText
  <1>3. IsLineFrom(c, e) /\ (IsLineEnd(e) => e < w)
    BY <1>1, EndOfLineFound
  <1>4. /\ c \in Nat /\ c >= 1 /\ c <= n /\ w \in Nat /\ n \in Nat /\ z \in Nat /\ n + 1 <= z
        /\ e \in Nat /\ c <= e /\ e <= n + 1
    <2>1. c \in Nat /\ c >= 1 /\ c <= n
      BY <1>1, <1>2, StartsAreInText
    <2> QED BY <1>1, <1>3, <2>1, FileFields DEF IsText, IsLineFrom
  <1>5. n + 1 = z \/ memory[n + 1] = NUL
    BY <1>1 DEF IsText
  <1>6. (\A j \in c + 1 .. e : ~StartsLine(j)) /\ ~IsSecondOfTwo[e]
    BY <1>2, <1>3, NoStartsWithin
  <1>7. d = IF memory[e] = NUL \/ e >= w THEN e
            ELSE IF {memory[e], memory[e + 1]} = {CR, LF} THEN e + 2
            ELSE e + 1
    <2>1. f = [text |-> f.text, prev |-> f.prev, curr |-> f.curr, end |-> f.end,
               lineNumber |-> f.lineNumber, startLineNumber |-> f.startLineNumber,
               closed |-> f.closed]
      BY FileFields
    <2>2. PICK g : g = [f EXCEPT !.curr = e]
      OBVIOUS
    <2>3. g.curr = e /\ g.end = w
      BY <1>1, <2>1, <2>2, SMT
    <2>4. IsEndOfFile(g) <=> (memory[e] = NUL \/ e >= w)
      BY <2>3 DEF IsEndOfFile
    <2> QED BY <1>1, <2>2, <2>4, Zenon DEF AdvanceToNextLine
  <1>8. \A i : (IsAtLine(i) <=> /\ i \in Nat /\ i >= 1
                                /\ StartsLine(i) \/ (i > n /\ (memory[i] = NUL \/ i >= z)))
    BY <1>1 DEF IsAtLine
  <1>9. \A i : IsLineEnd(i) <=> (i \in 1 .. n /\ IsLineEndCharacter(memory[i]))
    BY <1>1 DEF IsLineEnd
  <1>10. \A i : StartsLine(i) <=> (i \in 1 .. n /\ (i = 1 \/ (IsLineEnd(i - 1) /\ ~IsSecondOfTwo[i])))
    BY <1>1 DEF StartsLine
  <1>11. CASE e = n + 1
    <2>1. d = e
      <3>1. memory[e] = NUL \/ e >= w
        BY <1>2, <1>4, <1>5, <1>11, SMT
      <3> QED BY <1>7, <3>1
    <2>2. e > n /\ e >= 1 /\ (memory[e] = NUL \/ e >= z) /\ c < e
      BY <1>4, <1>5, <1>11, SMT
    <2>3. IsAtLine(d)
      BY <1>4, <1>8, <2>1, <2>2
    <2>4. w = z \/ d <= w
      <3>1. StartsLine(w) => w <= n
        BY <1>1, StartsAreInText
      <3>2. StartsLine(w) => w \in c + 1 .. e
        BY <1>2, <1>4, <1>11, <3>1, SMT
      <3> QED BY <1>2, <1>6, <3>2
    <2>5. \A j \in c + 1 .. d - 1 : ~StartsLine(j)
      <3>1. \A j \in c + 1 .. d - 1 : j \in c + 1 .. e
        BY <1>4, <2>1, SMT
      <3> QED BY <1>6, <3>1
    <2>6. LinesBefore(d) = LinesBefore(c) + 1
      BY <1>2, <1>4, <2>1, <2>2, <2>5, OneLineMore
    <2> QED BY <1>1, <2>1, <2>2, <2>3, <2>4, <2>6
  <1>12. CASE e # n + 1
    <2>1. IsLineEnd(e) /\ e < w /\ e <= n /\ e \in 1 .. n
      <3>1. IsLineEnd(e)
        BY <1>1, <1>3, <1>12 DEF IsLineFrom
      <3> QED BY <1>3, <1>4, <1>9, <1>12, <3>1, SMT
    <2>2. IsLineEndCharacter(memory[e]) /\ memory[e] # NUL
      BY <1>9, <2>1, SMT DEF IsLineEndCharacter, CR, LF, NUL
    <2>3. ~(memory[e] = NUL \/ e >= w)
      BY <1>4, <2>1, <2>2, SMT
    <2>4. IsSecondOfTwo[e + 1] <=> (IsLineEnd(e + 1) /\ memory[e] # memory[e + 1])
      <3>1. e + 1 \in Nat /\ e + 1 > 1 /\ (e + 1) - 1 = e
        BY <1>4, SMT
      <3> QED BY <1>6, <2>1, <3>1, SecondInText
    <2>5. CASE {memory[e], memory[e + 1]} = {CR, LF}
      <3>1. d = e + 2
        BY <1>7, <2>3, <2>5
      <3>2. IsLineEndCharacter(memory[e + 1]) /\ memory[e] # memory[e + 1] /\ memory[e + 1] # NUL
        BY <2>5, SMT DEF IsLineEndCharacter, CR, LF, NUL
      <3>3. e + 2 \in Nat /\ e + 2 >= 1 /\ c < e + 2 /\ (e + 2) - 1 = e + 1 /\ e + 2 > 1
            /\ e + 2 # 1 /\ e + 1 # 1
        BY <1>4, <2>1, SMT
      <3>4. CASE e + 1 <= n
        <4>1. e + 1 \in 1 .. n
          BY <1>4, <3>4, SMT
        <4>2. IsLineEnd(e + 1) /\ IsSecondOfTwo[e + 1]
          BY <1>9, <2>4, <3>2, <4>1
        <4>3. ~IsSecondOfTwo[e + 2]
          BY <3>3, <4>2, SecondInText
        <4>4. e + 2 <= n => StartsLine(e + 2)
          <5>1. e + 2 <= n => e + 2 \in 1 .. n
            BY <1>4, SMT
          <5> QED BY <1>10, <3>3, <4>2, <4>3, <5>1
        <4>5. e + 2 > n => (e + 2 = n + 1 /\ (memory[e + 2] = NUL \/ e + 2 >= z))
          BY <1>4, <1>5, <3>4, SMT
        <4>6. e + 2 <= n \/ e + 2 > n
          BY <1>4, SMT
        <4>7. IsAtLine(d)
          BY <1>8, <3>1, <3>3, <4>4, <4>5, <4>6
        <4>8. ~StartsLine(e + 1)
          BY <1>10, <3>3, <4>2
        <4>9. w = z \/ d <= w
          <5>1. w # e + 1 => e + 2 <= w
            BY <1>4, <2>1, SMT
          <5> QED BY <1>2, <3>1, <4>8, <5>1
        <4>10. \A j \in c + 1 .. d - 1 : ~StartsLine(j)
          <5>1. \A j \in c + 1 .. d - 1 : j \in c + 1 .. e \/ j = e + 1
            BY <1>4, <3>1, SMT
          <5> QED BY <1>6, <4>8, <5>1
        <4>11. LinesBefore(d) = LinesBefore(c) + 1
          BY <1>2, <3>1, <3>3, <4>10, OneLineMore
        <4> QED BY <1>1, <3>1, <3>3, <4>7, <4>9, <4>11
      <3>5. CASE e + 1 > n
        <4>1. e + 1 = n + 1 /\ e + 1 = z /\ e + 2 > n /\ e + 2 >= z
          <5>1. e + 1 = n + 1
            BY <1>4, <2>1, <3>5, SMT
          <5>2. e + 1 = z
            BY <1>5, <3>2, <5>1
          <5> QED BY <1>4, <5>1, <5>2, SMT
        <4>2. IsAtLine(d)
          BY <1>8, <3>1, <3>3, <4>1
        <4>3. ~StartsLine(e + 1)
          <5>1. e + 1 \notin 1 .. n
            BY <1>4, <4>1, SMT
          <5> QED BY <1>10, <5>1
        <4>4. w = z
          <5>1. StartsLine(w) => w \in 1 .. n
            BY <1>10
          <5>2. w \in 1 .. n => w <= e
            BY <1>4, <4>1, SMT
          <5>3. ~(w <= e)
            BY <1>4, <2>1, SMT
          <5> QED BY <1>2, <5>1, <5>2, <5>3
        <4>5. \A j \in c + 1 .. d - 1 : ~StartsLine(j)
          <5>1. \A j \in c + 1 .. d - 1 : j \in c + 1 .. e \/ j = e + 1
            BY <1>4, <3>1, SMT
          <5> QED BY <1>6, <4>3, <5>1
        <4>6. LinesBefore(d) = LinesBefore(c) + 1
          BY <1>2, <3>1, <3>3, <4>5, OneLineMore
        <4> QED BY <1>1, <3>1, <3>3, <4>2, <4>4, <4>6
      <3>6. e + 1 <= n \/ e + 1 > n
        BY <1>4, SMT
      <3> QED BY <3>4, <3>5, <3>6
    <2>6. CASE {memory[e], memory[e + 1]} # {CR, LF}
      <3>1. d = e + 1
        BY <1>7, <2>3, <2>6
      <3>2. ~IsSecondOfTwo[e + 1]
        <4> SUFFICES ASSUME IsLineEnd(e + 1), memory[e] # memory[e + 1] PROVE FALSE
          BY <2>4
        <4>1. IsLineEndCharacter(memory[e + 1])
          BY <1>9
        <4> QED BY <2>2, <2>6, <4>1, SMT DEF IsLineEndCharacter, CR, LF
      <3>3. e + 1 \in Nat /\ e + 1 >= 1 /\ c < e + 1 /\ (e + 1) - 1 = e
        BY <1>4, SMT
      <3>4. e + 1 <= n => StartsLine(e + 1)
        <4>1. e + 1 <= n => e + 1 \in 1 .. n
          BY <1>4, SMT
        <4> QED BY <1>10, <2>1, <3>2, <3>3, <4>1
      <3>5. e + 1 > n => (memory[e + 1] = NUL \/ e + 1 >= z)
        <4>1. e + 1 > n => e + 1 = n + 1
          BY <1>4, <2>1, SMT
        <4>2. e + 1 = z => e + 1 >= z
          BY <1>4, SMT
        <4> QED BY <1>5, <4>1, <4>2
      <3>6. e + 1 <= n \/ e + 1 > n
        BY <1>4, SMT
      <3>7. IsAtLine(d)
        BY <1>8, <3>1, <3>3, <3>4, <3>5, <3>6
      <3>8. d <= w
        BY <1>4, <2>1, <3>1, SMT
      <3>9. \A j \in c + 1 .. d - 1 : ~StartsLine(j)
        <4>1. \A j \in c + 1 .. d - 1 : j \in c + 1 .. e
          BY <1>4, <3>1, SMT
        <4> QED BY <1>6, <4>1
      <3>10. LinesBefore(d) = LinesBefore(c) + 1
        BY <1>2, <3>1, <3>3, <3>9, OneLineMore
      <3> QED BY <1>1, <3>1, <3>3, <3>7, <3>8, <3>10
    <2> QED BY <2>5, <2>6
  <1> QED BY <1>11, <1>12

LEMMA LineIsRead ==
    ASSUME IsText, NEW f \in TextFile, IsInOrder(f), ~IsEndOfFile(f),
           NEW g, g = Advanced(f), NEW l, l = NextLine(f)
    PROVE  /\ g \in TextFile /\ IsInOrder(g) /\ IsLineOf(g, l)
           /\ g.text = f.text /\ g.end = f.end /\ g.closed = f.closed
  <1>1. PICK e, d : e = EndOfLine(f) /\ d = AdvanceToNextLine(f, e)
    OBVIOUS
  <1>2. /\ IsAtLine(d) /\ f.curr < d
        /\ f.end = TextEnd \/ d <= f.end
        /\ LinesBefore(d) = LinesBefore(f.curr) + 1
    BY <1>1, NextLineStarts
  <1>3. /\ f = [text |-> f.text, prev |-> f.prev, curr |-> f.curr, end |-> f.end,
                lineNumber |-> f.lineNumber, startLineNumber |-> f.startLineNumber,
                closed |-> f.closed]
        /\ f.text \in Nat /\ f.text >= 1 /\ f.prev \in Nat /\ f.prev >= 1
        /\ f.curr \in Nat /\ f.curr >= 1 /\ f.end \in Nat /\ f.end >= 1
        /\ f.lineNumber \in Nat /\ f.startLineNumber \in Nat /\ f.closed \in BOOLEAN
    BY FileFields
  <1>4. d \in Nat /\ d >= 1
    BY <1>2 DEF IsAtLine
  <1>5. g = [f EXCEPT !.prev = f.curr, !.curr = d, !.lineNumber = @ + 1]
    BY <1>1, Zenon DEF Advanced
  <1>6. /\ g.text = f.text /\ g.prev = f.curr /\ g.curr = d /\ g.end = f.end
        /\ g.lineNumber = f.lineNumber + 1 /\ g.startLineNumber = f.startLineNumber
        /\ g.closed = f.closed
    BY <1>3, <1>5, SMT
  <1>7. g \in TextFile
    <2>1. g = [text |-> f.text, prev |-> f.curr, curr |-> d, end |-> f.end,
               lineNumber |-> f.lineNumber + 1, startLineNumber |-> f.startLineNumber,
               closed |-> f.closed]
      <3>1. PICK t, p, c, w, n, m, b : /\ t = f.text /\ p = f.prev /\ c = f.curr /\ w = f.end
                                      /\ n = f.lineNumber /\ m = f.startLineNumber /\ b = f.closed
        OBVIOUS
      <3>2. f = [text |-> t, prev |-> p, curr |-> c, end |-> w, lineNumber |-> n,
                 startLineNumber |-> m, closed |-> b]
        BY <1>3, <3>1
      <3>3. g = [text |-> t, prev |-> c, curr |-> d, end |-> w, lineNumber |-> n + 1,
                 startLineNumber |-> m, closed |-> b]
        <4>1. g = [[text |-> t, prev |-> p, curr |-> c, end |-> w, lineNumber |-> n,
                    startLineNumber |-> m, closed |-> b]
                      EXCEPT !.prev = c, !.curr = d, !.lineNumber = n + 1]
          BY <1>5, <3>1, <3>2
        <4> QED BY <4>1, Zenon
      <3> QED BY <3>1, <3>3
    <2>2. f.lineNumber + 1 \in Nat
      BY <1>3, SMT
    <2>3. /\ f.text \in Nat /\ f.text >= 1 /\ f.curr \in Nat /\ f.curr >= 1
          /\ f.end \in Nat /\ f.end >= 1 /\ f.startLineNumber \in Nat
          /\ f.closed \in BOOLEAN
      BY <1>3
    <2>4. [text |-> f.text, prev |-> f.curr, curr |-> d, end |-> f.end,
           lineNumber |-> f.lineNumber + 1, startLineNumber |-> f.startLineNumber,
           closed |-> f.closed] \in TextFile
      BY <1>4, <2>2, <2>3, MakesAFile, Zenon
    <2> QED BY <2>1, <2>4, Zenon
  <1>8. /\ IsAtLine(f.text) /\ f.text <= f.curr
        /\ f.end = TextEnd \/ (StartsLine(f.end) /\ f.curr <= f.end)
        /\ f.lineNumber = LinesBefore(f.curr) /\ f.startLineNumber = LinesBefore(f.text)
    BY DEF IsInOrder
  <1>9. IsInOrder(g)
    <2>1. f.text <= d
      BY <1>2, <1>3, <1>4, <1>8, SMT
    <2> QED BY <1>2, <1>6, <1>8, <2>1 DEF IsInOrder
  <1>10. StartsLine(f.curr) /\ f.curr < f.end
    BY ReadsInText
  <1>11. IsLineFrom(f.curr, e)
    BY <1>1, EndOfLineFound
  <1>12. l.start = f.curr /\ l.length = e - f.curr
    BY <1>1, SMT DEF NextLine, SizedString
  <1>13. e \in Nat /\ f.curr <= e
    BY <1>11 DEF IsLineFrom
  <1>14. l.length \in Nat /\ l.start + l.length = e
    BY <1>3, <1>12, <1>13, SMT
  <1>15. \A p \in Positions(l) : p \in 1 .. TextLength /\ ~IsLineEnd(p)
    <2>1. Positions(l) = f.curr .. e - 1
      <3>1. Positions(l) = l.start .. l.start + l.length - 1
        BY DEF Positions
      <3>2. l.start + l.length - 1 = e - 1
        BY <1>3, <1>12, <1>13, <1>14, SMT
      <3>3. l.start = f.curr
        BY <1>12
      <3> QED BY <3>1, <3>2, <3>3, Zenon
    <2> QED BY <1>11, <2>1 DEF IsLineFrom
  <1>16. IsLineEnd(e) \/ e = TextLength + 1
    BY <1>11 DEF IsLineFrom
  <1>17. IsLineOf(g, l)
    BY <1>6, <1>8, <1>10, <1>12, <1>14, <1>15, <1>16 DEF IsLineOf
  <1> QED BY <1>6, <1>7, <1>9, <1>17

---------------------------------------------------------------------------
(* The line that ends a loop is its mark.                                  *)

\* Strings without a NUL that do not differ are the same.
LEMMA SameStrings ==
    ASSUME NEW a \in Seq(Int), NEW b \in Seq(Int),
           \A i \in 1 .. Len(a) : a[i] # NUL, \A i \in 1 .. Len(b) : b[i] # NUL,
           Compare(a, b) = 0
    PROVE  a = b
  <1>1. PICK k, n : k = Len(a) /\ n = Len(b)
    OBVIOUS
  <1>2. /\ k \in Nat /\ n \in Nat
        /\ \A i \in 1 .. k : a[i] \in Int /\ a[i] # 0
        /\ \A i \in 1 .. n : b[i] \in Int /\ b[i] # 0
    BY <1>1, LenProperties, ElementOfSeq DEF NUL
  <1>3. PICK shorter : shorter = IF k < n THEN k ELSE n
    OBVIOUS
  <1>4. shorter \in Nat /\ shorter <= k /\ shorter <= n /\ (shorter = k \/ shorter = n)
    BY <1>2, <1>3, SMT
  <1> DEFINE D == {i \in 1 .. shorter : a[i] # b[i]} \cup {shorter + 1}
  <1>5. PICK at : at = Min(D)
    OBVIOUS
  <1>6. at \in D /\ \A i \in D : at <= i
    <2>1. D \in SUBSET Nat /\ D # {}
      BY <1>4, SMT
    <2>2. \E x \in D : \A y \in D : x <= y
      BY <2>1, LeastNumber
    <2> QED BY <1>5, <2>2, Zenon DEF Min
  <1>7. CharAt(a, at) - CharAt(b, at) = 0
    <2>1. D = {i \in 1 .. (IF Len(a) < Len(b) THEN Len(a) ELSE Len(b)) : a[i] # b[i]}
                \cup {(IF Len(a) < Len(b) THEN Len(a) ELSE Len(b)) + 1}
      BY <1>1, <1>3
    <2> QED BY <1>5, <2>1, Zenon DEF Compare
  <1>8. at = shorter + 1
    <2> SUFFICES ASSUME at \in 1 .. shorter, a[at] # b[at] PROVE FALSE
      BY <1>6
    <2>1. at <= k /\ at <= n /\ at \in 1 .. k /\ at \in 1 .. n
      BY <1>2, <1>4, SMT
    <2>2. CharAt(a, at) = a[at] /\ CharAt(b, at) = b[at]
      BY <1>1, <2>1 DEF CharAt
    <2> QED BY <1>2, <1>7, <2>1, <2>2, SMT
  <1>9. k = n
    <2>1. CASE shorter < k
      <3>1. at <= k /\ at \in 1 .. k /\ ~(at <= n)
        BY <1>2, <1>4, <1>8, <2>1, SMT
      <3>2. CharAt(a, at) = a[at] /\ CharAt(b, at) = 0
        BY <1>1, <3>1 DEF CharAt, NUL
      <3> QED BY <1>2, <1>7, <3>1, <3>2, SMT
    <2>2. CASE shorter < n
      <3>1. at <= n /\ at \in 1 .. n /\ ~(at <= k)
        BY <1>2, <1>4, <1>8, <2>2, SMT
      <3>2. CharAt(b, at) = b[at] /\ CharAt(a, at) = 0
        BY <1>1, <3>1 DEF CharAt, NUL
      <3> QED BY <1>2, <1>7, <3>1, <3>2, SMT
    <2> QED BY <1>2, <1>4, <2>1, <2>2, SMT
  <1>10. \A i \in 1 .. k : a[i] = b[i]
    <2>1. ASSUME NEW i \in 1 .. k, a[i] # b[i] PROVE FALSE
      <3>1. i \in 1 .. shorter /\ ~(at <= i)
        BY <1>2, <1>4, <1>8, <1>9, <2>1, SMT
      <3> QED BY <1>6, <2>1, <3>1
    <2> QED BY <2>1
  <1> QED BY <1>1, <1>9, <1>10, SeqEqual

LEMMA MarkIsFound ==
    ASSUME memory \in Seq(Int), TextEnd <= Len(memory), IsText,
           NEW f \in TextFile, NEW l, IsLineOf(f, l), Strcmp(memory, l, Mark) = 0
    PROVE  Characters(memory, SizedString(l.start, Len(Mark))) = Mark
  <1>1. PICK s, k, a : s = l.start /\ k = l.length /\ a = Characters(memory, l)
    OBVIOUS
  <1>2. s \in Nat /\ s >= 1 /\ k \in Nat
    BY <1>1, FileFields DEF IsLineOf
  <1>3. TextLength \in Nat /\ TextEnd \in Nat /\ TextLength + 1 <= TextEnd
        /\ \A i \in 1 .. TextLength : memory[i] # NUL
    BY DEF IsText
  <1>4. \A i \in s .. s + k - 1 : memory[i] \in Int /\ memory[i] # NUL
    <2>1. ASSUME NEW i \in s .. s + k - 1 PROVE memory[i] \in Int /\ memory[i] # NUL
      <3>1. i \in 1 .. TextLength
        BY <1>1, <2>1 DEF IsLineOf, Positions
      <3>2. Len(memory) \in Nat
        BY LenProperties
      <3>3. i \in 1 .. Len(memory)
        BY <1>3, <3>1, <3>2, SMT
      <3> QED BY <1>3, <3>1, <3>3, ElementOfSeq
    <2> QED BY <2>1
  <1>5. a = SubSeq(memory, s, s + k - 1)
    BY <1>1 DEF Characters
  <1>6. PICK t : t = s + k - 1
    OBVIOUS
  <1>7. t \in Int /\ s \in Int /\ (IF s <= t THEN t - s + 1 ELSE 0) = k /\ t - s + 1 = k
    BY <1>2, <1>6, SMT
  <1>8. a \in Seq(Int) /\ Len(a) = k /\ \A i \in 1 .. k : a[i] = memory[s + i - 1]
    <2>1. \A i \in s .. t : memory[i] \in Int
      BY <1>4, <1>6
    <2>2. /\ SubSeq(memory, s, t) \in Seq(Int)
          /\ Len(SubSeq(memory, s, t)) = IF s <= t THEN t - s + 1 ELSE 0
          /\ \A i \in 1 .. t - s + 1 : SubSeq(memory, s, t)[i] = memory[s + i - 1]
      BY <1>7, <2>1, SubSeqProperties
    <2>3. a = SubSeq(memory, s, t)
      BY <1>5, <1>6
    <2> QED BY <1>7, <2>2, <2>3
  <1>9. \A i \in 1 .. Len(a) : a[i] # NUL
    <2>1. ASSUME NEW i \in 1 .. k PROVE a[i] # NUL
      <3>1. s + i - 1 \in s .. s + k - 1
        BY <1>2, <2>1, SMT
      <3> QED BY <1>4, <1>8, <2>1, <3>1
    <2> QED BY <1>8, <2>1
  <1>10. Mark \in Seq(Int) /\ \A i \in 1 .. Len(Mark) : Mark[i] # NUL
    <2>1. Mark \in Seq(1 .. 127)
      BY TextFilesAssumption
    <2>2. \A c \in 1 .. 127 : c \in Int /\ c # NUL
      BY SMT DEF NUL
    <2>3. Mark \in Seq(Int)
      BY <2>1, <2>2, SeqMonotonic
    <2> QED BY <2>1, <2>2, <2>3, ElementOfSeq
  <1>11. a = Mark
    <2>1. Compare(a, Mark) = 0
      BY <1>1 DEF Strcmp
    <2> QED BY <1>8, <1>9, <1>10, <2>1, SameStrings
  <1>12. SizedString(s, k).start = s /\ SizedString(s, k).length = k
    BY SMT DEF SizedString
  <1>13. Len(Mark) = k
    BY <1>8, <1>11
  <1> QED BY <1>1, <1>5, <1>11, <1>12, <1>13 DEF Characters

---------------------------------------------------------------------------
(* What each operation leaves of the files.                                *)

LEMMA TopIsInOrder ==
    ASSUME NEW fs, NEW l, AreInOrder(fs, l)
    PROVE  /\ Len(fs) \in Nat /\ Len(fs) \in 1 .. Len(fs) /\ 1 \in 1 .. Len(fs)
           /\ Last(fs) = fs[Len(fs)] /\ Last(fs) \in TextFile /\ IsInOrder(Last(fs))
           /\ \A i \in 1 .. Len(fs) : fs[i] \in TextFile
  <1>1. fs \in Seq(TextFile) /\ Len(fs) >= 1 /\ \A i \in 1 .. Len(fs) : IsInOrder(fs[i])
    BY DEF AreInOrder
  <1>2. Len(fs) \in Nat
    BY <1>1, LenProperties
  <1>3. Len(fs) \in 1 .. Len(fs) /\ 1 \in 1 .. Len(fs)
    BY <1>1, <1>2, SMT
  <1>4. \A i \in 1 .. Len(fs) : fs[i] \in TextFile
    BY <1>1, ElementOfSeq
  <1>5. Last(fs) = fs[Len(fs)]
    BY DEF Last
  <1> QED BY <1>1, <1>2, <1>3, <1>4, <1>5

LEMMA TopMoved ==
    ASSUME NEW fs, NEW l, AreInOrder(fs, l),
           NEW g \in TextFile, IsInOrder(g),
           g.text = Last(fs).text, g.end = Last(fs).end, g.closed = Last(fs).closed,
           NEW k, ~IsNull(k) => IsLineOf(g, k),
           NEW gs, gs = [fs EXCEPT ![Len(fs)] = g]
    PROVE  AreInOrder(gs, k)
  <1>1. PICK n : n = Len(fs)
    OBVIOUS
  <1>2. /\ n \in Nat /\ n \in 1 .. n /\ 1 \in 1 .. n
        /\ Last(fs) = fs[n] /\ \A i \in 1 .. n : fs[i] \in TextFile
    BY <1>1, TopIsInOrder
  <1>3. /\ fs \in Seq(TextFile) /\ n >= 1 /\ fs[1].end = TextEnd /\ ~fs[1].closed
        /\ \A i \in 1 .. n : IsInOrder(fs[i])
        /\ \A i \in 1 .. n - 1 : IsOver(fs[i + 1], fs[i])
    BY <1>1 DEF AreInOrder
  <1>4. /\ gs \in Seq(TextFile) /\ Len(gs) = n
        /\ \A j \in 1 .. n : gs[j] = IF j = n THEN g ELSE fs[j]
    BY <1>1, <1>2, <1>3, ExceptSeq
  <1>5. gs[1].end = TextEnd /\ ~gs[1].closed
    BY <1>2, <1>3, <1>4
  <1>6. \A i \in 1 .. n : IsInOrder(gs[i])
    BY <1>3, <1>4
  <1>7. ASSUME NEW i \in 1 .. n - 1 PROVE IsOver(gs[i + 1], gs[i])
    <2>1. i \in 1 .. n /\ i + 1 \in 1 .. n /\ i # n
      BY <1>2, <1>7, SMT
    <2>2. gs[i] = fs[i]
      BY <1>4, <2>1
    <2>3. gs[i + 1].end = fs[i + 1].end /\ gs[i + 1].closed = fs[i + 1].closed
          /\ gs[i + 1].text = fs[i + 1].text
      BY <1>2, <1>4, <2>1
    <2>4. IsOver(fs[i + 1], fs[i])
      BY <1>3, <1>7
    <2> QED BY <2>2, <2>3, <2>4 DEF IsOver
  <1>8. gs[n] = g
    BY <1>2, <1>4
  <1> QED BY <1>3, <1>4, <1>5, <1>6, <1>7, <1>8 DEF AreInOrder

LEMMA NextLineKeepsOrder ==
    ASSUME IsText, AreInOrder(files, line), GetNextLine
    PROVE  AreInOrder(files', line')
  <1>1. PICK g : g = Advanced(Top)
    OBVIOUS
  <1>2. ~IsEndOfFile(Top) /\ line' = NextLine(Top) /\ files' = [files EXCEPT ![Len(files)] = g]
    BY <1>1 DEF GetNextLine, SetTop
  <1>3. Top = Last(files) /\ Top \in TextFile /\ IsInOrder(Top)
    BY TopIsInOrder DEF Top
  <1>4. /\ g \in TextFile /\ IsInOrder(g) /\ IsLineOf(g, line')
        /\ g.text = Top.text /\ g.end = Top.end /\ g.closed = Top.closed
    BY <1>1, <1>2, <1>3, LineIsRead
  <1> QED BY <1>2, <1>3, <1>4, TopMoved

LEMMA NoLine == IsNull(NullString)
  BY SMT DEF IsNull, NullString, SizedString

(* Reading from the start again, as a file that was never read from there. *)
LEMMA ResetIsInOrder ==
    ASSUME NEW f \in TextFile, IsAtLine(f.text), f.startLineNumber = LinesBefore(f.text),
           f.end = TextEnd \/ (StartsLine(f.end) /\ f.text <= f.end),
           NEW g, g = Reset(f)
    PROVE  /\ g \in TextFile /\ IsInOrder(g)
           /\ g.text = f.text /\ g.end = f.end /\ g.closed = f.closed /\ g.curr = f.text
  <1>1. PICK t, p, c, w, n, m, b : /\ t = f.text /\ p = f.prev /\ c = f.curr /\ w = f.end
                                  /\ n = f.lineNumber /\ m = f.startLineNumber /\ b = f.closed
    OBVIOUS
  <1>2. /\ f = [text |-> t, prev |-> p, curr |-> c, end |-> w, lineNumber |-> n,
                startLineNumber |-> m, closed |-> b]
        /\ t \in Nat /\ t >= 1 /\ p \in Nat /\ p >= 1 /\ c \in Nat /\ c >= 1 /\ w \in Nat /\ w >= 1
        /\ n \in Nat /\ m \in Nat /\ b \in BOOLEAN
    BY <1>1, FileFields
  <1>3. g = [text |-> t, prev |-> t, curr |-> t, end |-> w, lineNumber |-> m,
             startLineNumber |-> m, closed |-> b]
    <2>1. g = [f EXCEPT !.prev = t, !.curr = t, !.lineNumber = m]
      BY <1>1 DEF Reset
    <2>2. g = [[text |-> t, prev |-> p, curr |-> c, end |-> w, lineNumber |-> n,
                startLineNumber |-> m, closed |-> b]
                  EXCEPT !.prev = t, !.curr = t, !.lineNumber = m]
      BY <1>2, <2>1
    <2> QED BY <2>2, Zenon
  <1>4. g \in TextFile
    BY <1>2, <1>3, MakesAFile
  <1>5. /\ g.text = t /\ g.curr = t /\ g.end = w /\ g.lineNumber = m
        /\ g.startLineNumber = m /\ g.closed = b
    BY <1>3
  <1>6. t <= t
    BY <1>2, SMT
  <1>7. IsInOrder(g)
    BY <1>1, <1>5, <1>6 DEF IsInOrder
  <1> QED BY <1>1, <1>4, <1>5, <1>7

LEMMA StartsInFrontOfEnd ==
    ASSUME NEW f \in TextFile, IsInOrder(f)
    PROVE  f.end = TextEnd \/ (StartsLine(f.end) /\ f.text <= f.end)
  <1>1. f.text \in Nat /\ f.curr \in Nat /\ f.end \in Nat
    BY FileFields
  <1>2. f.text <= f.curr /\ (f.end = TextEnd \/ (StartsLine(f.end) /\ f.curr <= f.end))
    BY DEF IsInOrder
  <1>3. f.curr <= f.end => f.text <= f.end
    BY <1>1, <1>2, SMT
  <1> QED BY <1>2, <1>3

LEMMA IterationKeepsOrder ==
    ASSUME IsText, AreInOrder(files, line), NextIteration
    PROVE  AreInOrder(files', line')
  <1>1. PICK g : g = Reset(Top)
    OBVIOUS
  <1>2. line' = NullString /\ files' = [files EXCEPT ![Len(files)] = g]
    BY <1>1 DEF NextIteration, SetTop
  <1>3. Top = Last(files) /\ Top \in TextFile /\ IsInOrder(Top)
    BY TopIsInOrder DEF Top
  <1>4. IsAtLine(Top.text) /\ Top.startLineNumber = LinesBefore(Top.text)
    BY <1>3 DEF IsInOrder
  <1>5. Top.end = TextEnd \/ (StartsLine(Top.end) /\ Top.text <= Top.end)
    BY <1>3, StartsInFrontOfEnd
  <1>6. /\ g \in TextFile /\ IsInOrder(g)
        /\ g.text = Top.text /\ g.end = Top.end /\ g.closed = Top.closed
    BY <1>1, <1>3, <1>4, <1>5, ResetIsInOrder
  <1> QED BY <1>2, <1>3, <1>6, NoLine, TopMoved

LEMMA StartLoopKeepsOrder ==
    ASSUME IsText, AreInOrder(files, line), StartLoop
    PROVE  AreInOrder(files', line')
  <1>1. PICK g, fs, k : g = CreateFromTextFile(Top) /\ fs = files /\ k = Len(fs)
    OBVIOUS
  <1>2. line' = NullString /\ files' = Append(fs, g)
    BY <1>1 DEF StartLoop
  <1>3. /\ k \in Nat /\ k \in 1 .. k /\ 1 \in 1 .. k /\ Top = fs[k] /\ Top \in TextFile /\ IsInOrder(Top)
        /\ fs \in Seq(TextFile) /\ k >= 1 /\ fs[1].end = TextEnd /\ ~fs[1].closed
        /\ \A i \in 1 .. k : IsInOrder(fs[i])
        /\ \A i \in 1 .. k - 1 : IsOver(fs[i + 1], fs[i])
    BY <1>1, TopIsInOrder DEF Top, AreInOrder
  <1>4. PICK t, p, c, w, n, m, b :
           /\ t = Top.text /\ p = Top.prev /\ c = Top.curr /\ w = Top.end
           /\ n = Top.lineNumber /\ m = Top.startLineNumber /\ b = Top.closed
    OBVIOUS
  <1>5. /\ Top = [text |-> t, prev |-> p, curr |-> c, end |-> w, lineNumber |-> n,
                  startLineNumber |-> m, closed |-> b]
        /\ t \in Nat /\ t >= 1 /\ p \in Nat /\ p >= 1 /\ c \in Nat /\ c >= 1 /\ w \in Nat /\ w >= 1
        /\ n \in Nat /\ m \in Nat /\ b \in BOOLEAN
    BY <1>3, <1>4, FileFields
  <1>6. g = [text |-> c, prev |-> p, curr |-> c, end |-> w, lineNumber |-> n,
             startLineNumber |-> n, closed |-> FALSE]
    <2>1. g = [Top EXCEPT !.text = c, !.startLineNumber = n, !.closed = FALSE]
      BY <1>1, <1>4 DEF CreateFromTextFile
    <2>2. g = [[text |-> t, prev |-> p, curr |-> c, end |-> w, lineNumber |-> n,
                startLineNumber |-> m, closed |-> b]
                  EXCEPT !.text = c, !.startLineNumber = n, !.closed = FALSE]
      BY <1>5, <2>1
    <2> QED BY <2>2, Zenon
  <1>7. g \in TextFile
    BY <1>5, <1>6, MakesAFile
  <1>8. /\ g.text = c /\ g.curr = c /\ g.end = w /\ g.lineNumber = n
        /\ g.startLineNumber = n /\ g.closed = FALSE
    BY <1>6
  <1>9. /\ IsAtLine(c) /\ t <= c
        /\ w = TextEnd \/ (StartsLine(w) /\ c <= w)
        /\ n = LinesBefore(c)
    BY <1>3, <1>4 DEF IsInOrder
  <1>10. c <= c
    BY <1>5, SMT
  <1>11. IsInOrder(g)
    BY <1>8, <1>9, <1>10 DEF IsInOrder
  <1>12. IsOver(g, Top)
    BY <1>4, <1>8, <1>9 DEF IsOver
  <1>13. PICK gs : gs = Append(fs, g)
    OBVIOUS
  <1>14. /\ gs \in Seq(TextFile) /\ Len(gs) = k + 1
         /\ \A i \in 1 .. k : gs[i] = fs[i]
         /\ gs[k + 1] = g
    BY <1>1, <1>3, <1>7, <1>13, AppendProperties
  <1>15. k + 1 >= 1 /\ gs[1].end = TextEnd /\ ~gs[1].closed
    BY <1>3, <1>14, SMT
  <1>16. \A i \in 1 .. k + 1 : IsInOrder(gs[i])
    <2>1. \A i \in 1 .. k + 1 : i \in 1 .. k \/ i = k + 1
      BY <1>3, SMT
    <2> QED BY <1>3, <1>11, <1>14, <2>1
  <1>17. \A i \in 1 .. (k + 1) - 1 : IsOver(gs[i + 1], gs[i])
    <2>1. ASSUME NEW i \in 1 .. (k + 1) - 1 PROVE IsOver(gs[i + 1], gs[i])
      <3>1. i \in 1 .. k /\ (i = k \/ (i \in 1 .. k - 1 /\ i + 1 \in 1 .. k))
        BY <1>3, <2>1, SMT
      <3>2. CASE i = k
        BY <1>3, <1>12, <1>14, <3>1, <3>2
      <3>3. CASE i \in 1 .. k - 1 /\ i + 1 \in 1 .. k
        BY <1>3, <1>14, <3>1, <3>3
      <3> QED BY <3>1, <3>2, <3>3
    <2> QED BY <2>1
  <1>18. AreInOrder(gs, NullString)
    BY <1>14, <1>15, <1>16, <1>17, NoLine DEF AreInOrder
  <1> QED BY <1>2, <1>13, <1>18

LEMMA EndLoopKeepsOrder ==
    ASSUME IsText, AreInOrder(files, line), EndLoop
    PROVE  AreInOrder(files', line')
  <1>1. PICK fs, k : fs = files /\ k = Len(fs)
    OBVIOUS
  <1>2. /\ k \in Nat /\ fs \in Seq(TextFile) /\ fs[1].end = TextEnd /\ ~fs[1].closed
        /\ \A i \in 1 .. k : IsInOrder(fs[i])
        /\ \A i \in 1 .. k - 1 : IsOver(fs[i + 1], fs[i])
        /\ \A i \in 1 .. k : fs[i] \in TextFile
    BY <1>1, TopIsInOrder DEF AreInOrder
  <1>3. line' = NullString /\ files' = Front(fs) /\ k > 1
    BY <1>1 DEF EndLoop
  <1>4. PICK h : h = k - 1
    OBVIOUS
  <1>5. h \in Nat /\ h >= 1 /\ h \in Int /\ 1 \in Int /\ h - 1 + 1 = h
        /\ (IF 1 <= h THEN h - 1 + 1 ELSE 0) = h
        /\ (\A i \in 1 .. h : i \in 1 .. k /\ 1 + i - 1 = i)
        /\ \A i \in 1 .. h - 1 : i \in 1 .. h /\ i + 1 \in 1 .. h /\ i \in 1 .. k - 1
    BY <1>2, <1>3, <1>4, SMT
  <1>6. PICK gs : gs = SubSeq(fs, 1, h)
    OBVIOUS
  <1>7. gs = Front(fs)
    BY <1>1, <1>4, <1>6 DEF Front
  <1>8. gs \in Seq(TextFile) /\ Len(gs) = h /\ \A i \in 1 .. h : gs[i] = fs[i]
    <2>1. \A i \in 1 .. h : fs[i] \in TextFile
      BY <1>2, <1>5
    <2>2. /\ SubSeq(fs, 1, h) \in Seq(TextFile)
          /\ Len(SubSeq(fs, 1, h)) = IF 1 <= h THEN h - 1 + 1 ELSE 0
          /\ \A i \in 1 .. h - 1 + 1 : SubSeq(fs, 1, h)[i] = fs[1 + i - 1]
      BY <1>5, <2>1, SubSeqProperties
    <2> QED BY <1>5, <1>6, <2>2
  <1>9. gs[1] = fs[1]
    <2>1. 1 \in 1 .. h
      BY <1>5, SMT
    <2> QED BY <1>8, <2>1
  <1>10. \A i \in 1 .. h : IsInOrder(gs[i])
    BY <1>2, <1>5, <1>8
  <1>11. \A i \in 1 .. h - 1 : IsOver(gs[i + 1], gs[i])
    BY <1>2, <1>5, <1>8
  <1>12. AreInOrder(gs, NullString)
    BY <1>2, <1>5, <1>8, <1>9, <1>10, <1>11, NoLine DEF AreInOrder
  <1> QED BY <1>3, <1>7, <1>12

\* The file below goes on with the line in front of which the loop will end.
LEMMA AdvancedIsInOrder ==
    ASSUME IsText, NEW f \in TextFile, IsInOrder(f), NEW l, IsLineOf(f, l), ~f.closed,
           NEW below \in TextFile, IsInOrder(below), IsOver(f, below),
           NEW a, a = AdvanceTo(below, f)
    PROVE  /\ a \in TextFile /\ IsInOrder(a) /\ a.curr = f.prev
           /\ a.text = below.text /\ a.end = below.end /\ a.closed = below.closed
  <1>1. PICK t, p, c, w, n, m, b :
           /\ t = below.text /\ p = below.prev /\ c = below.curr /\ w = below.end
           /\ n = below.lineNumber /\ m = below.startLineNumber /\ b = below.closed
    OBVIOUS
  <1>2. /\ below = [text |-> t, prev |-> p, curr |-> c, end |-> w, lineNumber |-> n,
                    startLineNumber |-> m, closed |-> b]
        /\ t \in Nat /\ t >= 1 /\ p \in Nat /\ p >= 1 /\ c \in Nat /\ c >= 1 /\ w \in Nat /\ w >= 1
        /\ n \in Nat /\ m \in Nat /\ b \in BOOLEAN
    BY <1>1, FileFields
  <1>3. PICK q, x, y : q = f.prev /\ x = LinesBefore(q) /\ y = f.text
    OBVIOUS
  <1>4. q \in Nat /\ q >= 1 /\ x \in Nat /\ y \in Nat
    BY <1>3, FileFields, CountsAreNumbers
  <1>5. StartsLine(q) /\ y <= q /\ q < w /\ t <= y /\ f.lineNumber = x + 1
    BY <1>1, <1>3 DEF IsLineOf, IsOver
  <1>6. a = [text |-> t, prev |-> q, curr |-> q, end |-> w, lineNumber |-> x,
             startLineNumber |-> m, closed |-> b]
    <2>1. (IF f.lineNumber = 0 THEN 0 ELSE f.lineNumber - 1) = x
      BY <1>4, <1>5, SMT
    <2>2. a = [below EXCEPT !.curr = q, !.prev = q, !.lineNumber = x]
      BY <1>3, <2>1, Zenon DEF AdvanceTo
    <2>3. a = [[text |-> t, prev |-> p, curr |-> c, end |-> w, lineNumber |-> n,
                startLineNumber |-> m, closed |-> b]
                  EXCEPT !.curr = q, !.prev = q, !.lineNumber = x]
      BY <1>2, <2>2
    <2> QED BY <2>3, Zenon
  <1>7. a \in TextFile
    <2>1. [text |-> t, prev |-> q, curr |-> q, end |-> w, lineNumber |-> x,
           startLineNumber |-> m, closed |-> b] \in TextFile
      BY <1>2, <1>4, MakesAFile, Zenon
    <2> QED BY <1>6, <2>1
  <1>8. /\ a.text = t /\ a.curr = q /\ a.end = w /\ a.lineNumber = x
        /\ a.startLineNumber = m /\ a.closed = b
    BY <1>6
  <1>9. t <= q /\ q <= w
    BY <1>2, <1>4, <1>5, SMT
  <1>10. IsAtLine(q)
    BY <1>4, <1>5 DEF IsAtLine
  <1>11. /\ IsAtLine(t) /\ (w = TextEnd \/ StartsLine(w)) /\ m = LinesBefore(t)
    BY <1>1 DEF IsInOrder
  <1>12. IsInOrder(a)
    BY <1>3, <1>8, <1>9, <1>10, <1>11 DEF IsInOrder
  <1> QED BY <1>1, <1>3, <1>7, <1>8, <1>12

\* The loop ends in front of its last line, and is read from its start.
LEMMA ClosedIsInOrder ==
    ASSUME IsText, NEW f \in TextFile, IsInOrder(f), NEW l, IsLineOf(f, l),
           NEW g, g = [Reset(SetEndOfFile(f)) EXCEPT !.closed = TRUE]
    PROVE  /\ g \in TextFile /\ IsInOrder(g) /\ g.end = f.prev /\ g.closed
  <1>1. PICK t, p, c, w, n, m, b : /\ t = f.text /\ p = f.prev /\ c = f.curr /\ w = f.end
                                  /\ n = f.lineNumber /\ m = f.startLineNumber /\ b = f.closed
    OBVIOUS
  <1>2. /\ f = [text |-> t, prev |-> p, curr |-> c, end |-> w, lineNumber |-> n,
                startLineNumber |-> m, closed |-> b]
        /\ t \in Nat /\ t >= 1 /\ p \in Nat /\ p >= 1 /\ c \in Nat /\ c >= 1 /\ w \in Nat /\ w >= 1
        /\ n \in Nat /\ m \in Nat /\ b \in BOOLEAN
    BY <1>1, FileFields
  <1>3. PICK s : s = SetEndOfFile(f)
    OBVIOUS
  <1>4. s = [text |-> t, prev |-> p, curr |-> c, end |-> p, lineNumber |-> n,
             startLineNumber |-> m, closed |-> b]
    <2>1. s = [f EXCEPT !.end = p]
      BY <1>1, <1>3 DEF SetEndOfFile
    <2>2. s = [[text |-> t, prev |-> p, curr |-> c, end |-> w, lineNumber |-> n,
                startLineNumber |-> m, closed |-> b] EXCEPT !.end = p]
      BY <1>2, <2>1
    <2> QED BY <2>2, Zenon
  <1>5. PICK r : r = Reset(s)
    OBVIOUS
  <1>6. r = [text |-> t, prev |-> t, curr |-> t, end |-> p, lineNumber |-> m,
             startLineNumber |-> m, closed |-> b]
    <2>1. r = [s EXCEPT !.prev = t, !.curr = t, !.lineNumber = m]
      <3>1. s.text = t /\ s.startLineNumber = m
        BY <1>4
      <3> QED BY <1>5, <3>1 DEF Reset
    <2>2. r = [[text |-> t, prev |-> p, curr |-> c, end |-> p, lineNumber |-> n,
                startLineNumber |-> m, closed |-> b]
                  EXCEPT !.prev = t, !.curr = t, !.lineNumber = m]
      BY <1>4, <2>1
    <2> QED BY <2>2, Zenon
  <1>7. g = [text |-> t, prev |-> t, curr |-> t, end |-> p, lineNumber |-> m,
             startLineNumber |-> m, closed |-> TRUE]
    <2>1. g = [[text |-> t, prev |-> t, curr |-> t, end |-> p, lineNumber |-> m,
                startLineNumber |-> m, closed |-> b] EXCEPT !.closed = TRUE]
      BY <1>3, <1>5, <1>6
    <2> QED BY <2>1, Zenon
  <1>8. g \in TextFile
    <2>1. PICK y \in BOOLEAN : y = TRUE
      OBVIOUS
    <2>2. [text |-> t, prev |-> t, curr |-> t, end |-> p, lineNumber |-> m,
           startLineNumber |-> m, closed |-> y] \in TextFile
      BY <1>2, MakesAFile
    <2> QED BY <1>7, <2>1, <2>2
  <1>9. /\ g.text = t /\ g.curr = t /\ g.end = p /\ g.lineNumber = m
        /\ g.startLineNumber = m /\ g.closed = TRUE
    BY <1>7
  <1>10. StartsLine(p) /\ t <= p /\ t <= t
    BY <1>1, <1>2, SMT DEF IsLineOf
  <1>11. IsAtLine(t) /\ m = LinesBefore(t)
    BY <1>1 DEF IsInOrder
  <1>12. IsInOrder(g)
    BY <1>9, <1>10, <1>11 DEF IsInOrder
  <1> QED BY <1>1, <1>8, <1>9, <1>12

LEMMA FoundEndKeepsOrder ==
    ASSUME memory \in Seq(Int), TextEnd <= Len(memory), IsText,
           AreInOrder(files, line), FindLoopEnd
    PROVE  AreInOrder(files', line')
  <1>1. PICK fs, k : fs = files /\ k = Len(fs)
    OBVIOUS
  <1>2. /\ k \in Nat /\ k \in 1 .. k /\ fs \in Seq(TextFile) /\ fs[1].end = TextEnd /\ ~fs[1].closed
        /\ \A i \in 1 .. k : IsInOrder(fs[i])
        /\ \A i \in 1 .. k - 1 : IsOver(fs[i + 1], fs[i])
        /\ \A i \in 1 .. k : fs[i] \in TextFile
        /\ Top = fs[k]
    BY <1>1, TopIsInOrder DEF AreInOrder, Top
  <1>3. PICK h : h = k - 2
    OBVIOUS
  <1>4. PICK a, c : a = AdvanceTo(fs[k - 1], Top)
                    /\ c = [Reset(SetEndOfFile(Top)) EXCEPT !.closed = TRUE]
    OBVIOUS
  <1>5. PICK hs : hs = SubSeq(fs, 1, h)
    OBVIOUS
  <1>6. PICK gs : gs = Append(hs \o <<a>>, c)
    OBVIOUS
  <1>7. /\ k > 1 /\ ~Top.closed /\ ~IsNull(line) /\ Strcmp(memory, line, Mark) = 0
        /\ line' = NullString /\ files' = gs
    BY <1>1, <1>3, <1>4, <1>5, <1>6 DEF FindLoopEnd
  <1>8. /\ h \in Nat /\ k = h + 2 /\ k - 1 = h + 1 /\ h \in Int /\ 1 \in Int
        /\ h + 1 \in 1 .. k /\ h + 1 \in 1 .. k - 1 /\ (h + 1) + 1 = k
        /\ (IF 1 <= h THEN h - 1 + 1 ELSE 0) = h
        /\ (\A i \in 1 .. h : i \in 1 .. k /\ 1 + i - 1 = i /\ i \in 1 .. h - 1 + 1)
    BY <1>2, <1>3, <1>7, SMT
  <1>9. hs \in Seq(TextFile) /\ Len(hs) = h /\ \A i \in 1 .. h : hs[i] = fs[i]
    <2>1. \A i \in 1 .. h : fs[i] \in TextFile
      BY <1>2, <1>8
    <2>2. /\ SubSeq(fs, 1, h) \in Seq(TextFile)
          /\ Len(SubSeq(fs, 1, h)) = IF 1 <= h THEN h - 1 + 1 ELSE 0
          /\ \A i \in 1 .. h - 1 + 1 : SubSeq(fs, 1, h)[i] = fs[1 + i - 1]
      BY <1>8, <2>1, SubSeqProperties
    <2> QED BY <1>5, <1>8, <2>2
  <1>10. IsLineOf(Top, line) /\ IsOver(Top, fs[h + 1])
    <2>1. IsLineOf(Top, line)
      BY <1>1, <1>2, <1>7 DEF AreInOrder
    <2> QED BY <1>2, <1>8, <2>1
  <1>11. /\ a \in TextFile /\ IsInOrder(a) /\ a.curr = Top.prev
         /\ a.text = fs[h + 1].text /\ a.end = fs[h + 1].end /\ a.closed = fs[h + 1].closed
    <2>1. a = AdvanceTo(fs[h + 1], Top)
      BY <1>4, <1>8
    <2> QED BY <1>2, <1>7, <1>8, <1>10, <2>1, AdvancedIsInOrder
  <1>12. c \in TextFile /\ IsInOrder(c) /\ c.end = Top.prev /\ c.closed
    BY <1>2, <1>4, <1>10, ClosedIsInOrder
  <1>13. PICK is : is = Append(hs, a)
    OBVIOUS
  <1>14. /\ is \in Seq(TextFile) /\ Len(is) = h + 1
         /\ \A i \in 1 .. h : is[i] = fs[i]
         /\ is[h + 1] = a
    BY <1>9, <1>11, <1>13, AppendProperties
  <1>15. gs = Append(is, c)
    <2>1. is = hs \o <<a>>
      BY <1>9, <1>11, <1>13, AppendIsConcat
    <2> QED BY <1>6, <2>1
  <1>16. /\ gs \in Seq(TextFile) /\ Len(gs) = k
         /\ \A i \in 1 .. h : gs[i] = fs[i]
         /\ gs[h + 1] = a /\ gs[k] = c
    <2>1. /\ Append(is, c) \in Seq(TextFile) /\ Len(Append(is, c)) = Len(is) + 1
          /\ \A i \in 1 .. Len(is) : Append(is, c)[i] = is[i]
          /\ Append(is, c)[Len(is) + 1] = c
      BY <1>12, <1>14, AppendProperties
    <2>2. (h + 1) + 1 = k /\ h + 1 \in 1 .. h + 1 /\ \A i \in 1 .. h : i \in 1 .. h + 1
      BY <1>8, SMT
    <2> QED BY <1>14, <1>15, <2>1, <2>2
  <1>17. IsOver(c, a)
    <2>1. StartsLine(Top.prev) /\ line.start = Top.prev
      BY <1>10 DEF IsLineOf
    <2>2. Characters(memory, SizedString(line.start, Len(Mark))) = Mark
      BY <1>2, <1>7, <1>10, MarkIsFound
    <2> QED BY <1>11, <1>12, <2>1, <2>2 DEF IsOver
  <1>18. gs[1].end = TextEnd /\ ~gs[1].closed /\ k >= 1
    <2>1. CASE h = 0
      <3>1. h + 1 = 1
        BY <2>1, SMT
      <3> QED BY <1>2, <1>8, <1>11, <1>16, <3>1, SMT
    <2>2. CASE h # 0
      <3>1. 1 \in 1 .. h /\ k >= 1
        BY <1>8, <2>2, SMT
      <3> QED BY <1>2, <1>16, <3>1
    <2> QED BY <2>1, <2>2
  <1>19. \A i \in 1 .. k : IsInOrder(gs[i])
    <2>1. \A i \in 1 .. k : i \in 1 .. h \/ i = h + 1 \/ i = k
      BY <1>8, SMT
    <2> QED BY <1>2, <1>8, <1>11, <1>12, <1>16, <2>1
  <1>20. ASSUME NEW i \in 1 .. k - 1 PROVE IsOver(gs[i + 1], gs[i])
    <2>1. i = h + 1 \/ (i = h /\ i \in 1 .. h) \/ (i \in 1 .. h /\ i + 1 \in 1 .. h)
      BY <1>8, <1>20, SMT
    <2>2. IsOver(fs[i + 1], fs[i])
      BY <1>2, <1>20
    <2>3. CASE i = h + 1
      BY <1>8, <1>16, <1>17, <2>3
    <2>4. CASE i = h /\ i \in 1 .. h
      <3>1. gs[i] = fs[i] /\ gs[i + 1] = a
        BY <1>16, <2>4
      <3>2. a.text = fs[i + 1].text /\ a.end = fs[i + 1].end /\ a.closed = fs[i + 1].closed
        BY <1>11, <2>4
      <3> QED BY <2>2, <3>1, <3>2 DEF IsOver
    <2>5. CASE i \in 1 .. h /\ i + 1 \in 1 .. h
      BY <1>16, <2>2, <2>5
    <2> QED BY <2>1, <2>3, <2>4, <2>5
  <1>21. AreInOrder(gs, NullString)
    BY <1>16, <1>18, <1>19, <1>20, NoLine DEF AreInOrder
  <1> QED BY <1>7, <1>21

---------------------------------------------------------------------------
(* The text stays as it is.                                                *)

LengthUpTo(m, z) ==
    LET ends == {i \in 1 .. z : i = z \/ m[i] = NUL}
    IN  (CHOOSE i \in ends : \A j \in ends : i <= j) - 1

LEMMA LengthOfText == TextLength = LengthUpTo(memory, TextEnd)
  BY Zenon DEF TextLength, LengthUpTo, TextEnd

LEMMA LengthOfNextText == TextLength' = LengthUpTo(memory', TextEnd')
  BY Zenon DEF TextLength, LengthUpTo, TextEnd

LEMMA SameLines ==
    ASSUME memory' = memory, TextEnd' = TextEnd
    PROVE  /\ TextLength' = TextLength
           /\ \A i : IsLineEnd(i)' <=> IsLineEnd(i)
           /\ \A i : StartsLine(i)' <=> StartsLine(i)
           /\ \A i : LinesBefore(i)' = LinesBefore(i)
           /\ \A i : IsAtLine(i)' <=> IsAtLine(i)
  <1>1. TextLength' = TextLength
    BY LengthOfText, LengthOfNextText, Zenon
  <1>2. IsSecondOfTwo' = IsSecondOfTwo
    BY <1>1, SecondsOfText, SecondsOfNextText, Zenon
  <1>3. \A i : IsLineEnd(i)' <=> IsLineEnd(i)
    BY <1>1, Zenon DEF IsLineEnd
  <1>4. \A i : StartsLine(i)' <=> StartsLine(i)
    BY <1>1, <1>2, <1>3, Zenon DEF StartsLine
  <1>5. ASSUME NEW i PROVE LinesBefore(i)' = LinesBefore(i)
    <2>1. {j \in 1 .. i - 1 : StartsLine(j)'} = {j \in 1 .. i - 1 : StartsLine(j)}
      BY <1>4
    <2> QED BY <2>1, Zenon DEF LinesBefore
  <1>6. \A i : IsAtLine(i)' <=> IsAtLine(i)
    BY <1>1, <1>4, Zenon DEF IsAtLine
  <1> QED BY <1>1, <1>3, <1>4, <1>5, <1>6

LEMMA OrderStays ==
    ASSUME memory' = memory, TextEnd' = TextEnd, AreInOrder(files', line')
    PROVE  AreInOrder(files, line)'
  <1>1. PICK fs, l : fs = files' /\ l = line'
    OBVIOUS
  <1>2. \A i \in 1 .. Len(fs) : IsInOrder(fs[i])'
    <2>1. ASSUME NEW f, IsInOrder(f) PROVE IsInOrder(f)'
      BY <2>1, SameLines DEF IsInOrder
    <2> QED BY <1>1, <2>1 DEF AreInOrder
  <1>3. \A i \in 1 .. Len(fs) - 1 : IsOver(fs[i + 1], fs[i])'
    <2>1. ASSUME NEW f, NEW g, IsOver(f, g) PROVE IsOver(f, g)'
      BY <2>1, SameLines DEF IsOver
    <2> QED BY <1>1, <2>1 DEF AreInOrder
  <1>4. ~IsNull(l) => IsLineOf(fs[Len(fs)], l)'
    <2>1. ASSUME NEW f, IsLineOf(f, l) PROVE IsLineOf(f, l)'
      BY <2>1, SameLines DEF IsLineOf
    <2> QED BY <1>1, <2>1 DEF AreInOrder
  <1>5. fs \in Seq(TextFile) /\ Len(fs) >= 1 /\ fs[1].end = TextEnd' /\ ~fs[1].closed
    BY <1>1 DEF AreInOrder
  <1> QED BY <1>1, <1>2, <1>3, <1>4, <1>5 DEF AreInOrder

\* The files before the top one stay, and the first file keeps its end.
LEMMA FirstFileStays == AreInOrder(files', line') => TextEnd' = TextEnd
  BY DEF AreInOrder, TextEnd

---------------------------------------------------------------------------
(* The lines of a text are read in order.                                  *)

LEMMA TextHasAnEnd ==
    ASSUME TextEnd \in Nat, TextEnd >= 1
    PROVE  IsText
  <1>1. PICK z : z = TextEnd
    OBVIOUS
  <1> DEFINE ends == {i \in 1 .. z : i = z \/ memory[i] = NUL}
  <1>2. ends \in SUBSET Nat /\ z \in ends
    BY <1>1, SMT
  <1>3. \E i \in ends : \A j \in ends : i <= j
    BY <1>2, LeastNumber
  <1>4. PICK a : a = CHOOSE i \in ends : \A j \in ends : i <= j
    OBVIOUS
  <1>5. a \in ends /\ \A j \in ends : a <= j
    BY <1>3, <1>4, Zenon
  <1>6. TextLength = a - 1
    BY <1>1, <1>4, LengthOfText, Zenon DEF LengthUpTo
  <1>7. a \in Nat /\ a >= 1 /\ a <= z /\ (a = z \/ memory[a] = NUL)
    BY <1>1, <1>5, SMT
  <1>8. a - 1 \in Nat /\ (a - 1) + 1 = a
    BY <1>7, SMT
  <1>9. ASSUME NEW i \in 1 .. a - 1 PROVE memory[i] # NUL
    <2>1. i \in 1 .. z /\ ~(a <= i)
      BY <1>1, <1>7, <1>9, SMT
    <2> QED BY <1>5, <2>1
  <1> QED BY <1>1, <1>6, <1>7, <1>8, <1>9 DEF IsText

LEMMA InitIsInOrder == Init => Inv
  <1> SUFFICES ASSUME Init PROVE Inv
    OBVIOUS
  <1>1. PICK text \in Texts, behind \in Behind :
           memory = text \o behind /\ files = <<CreateFromFile(Len(text))>>
    BY DEF Init
  <1>2. line = NullString
    BY DEF Init
  <1>3. text \in Seq(Int) /\ behind \in Seq(Int) /\ Len(behind) >= 3
    <2>1. text \in Seq(0 .. 127) /\ behind \in Seq(0 .. 127) /\ Len(behind) >= 3
      BY TextFilesAssumption
    <2>2. 0 .. 127 \subseteq Int
      BY SMT
    <2> QED BY <2>1, <2>2, SeqMonotonic
  <1>4. PICK k, f : k = Len(text) /\ f = CreateFromFile(k)
    OBVIOUS
  <1>5. k \in Nat /\ k + 1 \in Nat /\ k + 1 >= 1 /\ 1 \in Nat /\ 1 >= 1 /\ 0 \in Nat /\ 1 <= 1
    BY <1>3, <1>4, LenProperties, SMT
  <1>6. memory \in Seq(Int) /\ k + 1 <= Len(memory)
    <2>1. memory \in Seq(Int) /\ Len(memory) = k + Len(behind)
      BY <1>1, <1>3, <1>4, ConcatProperties
    <2>2. Len(behind) \in Nat
      BY <1>3, LenProperties
    <2> QED BY <1>3, <1>5, <2>1, <2>2, SMT
  <1>7. f = [text |-> 1, prev |-> 1, curr |-> 1, end |-> k + 1, lineNumber |-> 0,
             startLineNumber |-> 0, closed |-> FALSE]
    BY <1>4 DEF CreateFromFile
  <1>8. f \in TextFile
    <2>1. PICK y \in BOOLEAN : y = FALSE
      OBVIOUS
    <2>2. [text |-> 1, prev |-> 1, curr |-> 1, end |-> k + 1, lineNumber |-> 0,
           startLineNumber |-> 0, closed |-> y] \in TextFile
      BY <1>5, MakesAFile, Zenon
    <2> QED BY <1>7, <2>1, <2>2
  <1>9. /\ f.text = 1 /\ f.curr = 1 /\ f.end = k + 1 /\ f.lineNumber = 0
        /\ f.startLineNumber = 0 /\ f.closed = FALSE
    BY <1>7
  <1>10. files = <<f>>
    BY <1>1, <1>4
  <1>11. /\ files \in Seq(TextFile) /\ Len(files) = 1 /\ files[1] = f
         /\ 1 .. 1 = {1} /\ 1 .. 1 - 1 = {}
    BY <1>8, <1>10, SMT
  <1>12. TextEnd = k + 1
    BY <1>9, <1>11 DEF TextEnd
  <1>13. IsText
    BY <1>5, <1>12, TextHasAnEnd
  <1>14. IsAtLine(1)
    <2>1. TextLength \in Nat /\ (TextLength + 1 = TextEnd \/ memory[TextLength + 1] = NUL)
      BY <1>13 DEF IsText
    <2>2. CASE TextLength = 0
      <3>1. TextLength + 1 = 1 /\ 1 > TextLength
        BY <2>2, SMT
      <3> QED BY <1>5, <2>1, <3>1 DEF IsAtLine
    <2>3. CASE TextLength # 0
      <3>1. 1 \in 1 .. TextLength
        BY <2>1, <2>3, SMT
      <3> QED BY <1>5, <3>1 DEF IsAtLine, StartsLine
    <2> QED BY <2>2, <2>3
  <1>15. LinesBefore(1) = 0
    <2>1. {j \in 1 .. 1 - 1 : StartsLine(j)} = {}
      BY <1>11
    <2> QED BY <2>1, FS_EmptySet DEF LinesBefore
  <1>16. IsInOrder(f)
    BY <1>5, <1>9, <1>12, <1>14, <1>15 DEF IsInOrder
  <1>17. AreInOrder(files, line)
    BY <1>2, <1>5, <1>9, <1>11, <1>12, <1>16, NoLine DEF AreInOrder
  <1> QED BY <1>6, <1>12, <1>13, <1>17 DEF Inv

LEMMA NextKeepsOrder == Inv /\ [Next]_vars => Inv'
  <1> SUFFICES ASSUME Inv, [Next]_vars PROVE Inv'
    OBVIOUS
  <1>1. memory \in Seq(Int) /\ TextEnd <= Len(memory) /\ IsText /\ AreInOrder(files, line)
    BY DEF Inv
  <1>2. AreInOrder(files', line') /\ memory' = memory
    <2>1. CASE GetNextLine
      BY <1>1, <2>1, NextLineKeepsOrder DEF GetNextLine
    <2>2. CASE StartLoop
      BY <1>1, <2>2, StartLoopKeepsOrder DEF StartLoop
    <2>3. CASE FindLoopEnd
      BY <1>1, <2>3, FoundEndKeepsOrder DEF FindLoopEnd
    <2>4. CASE NextIteration
      BY <1>1, <2>4, IterationKeepsOrder DEF NextIteration
    <2>5. CASE EndLoop
      BY <1>1, <2>5, EndLoopKeepsOrder DEF EndLoop
    <2>6. CASE ParseLine
      <3>1. UNCHANGED <<memory, files, line>>
        BY <2>6, Zenon DEF ParseLine
      <3> QED BY <1>1, <3>1, Zenon
    <2>7. CASE UNCHANGED vars
      <3>1. UNCHANGED <<memory, files, line>>
        BY <2>7 DEF vars
      <3> QED BY <1>1, <3>1, Zenon
    <2> QED BY <2>1, <2>2, <2>3, <2>4, <2>5, <2>6, <2>7 DEF Next
  <1>3. TextEnd' = TextEnd
    BY <1>2, FirstFileStays
  <1>4. AreInOrder(files, line)'
    BY <1>2, <1>3, OrderStays
  <1>5. IsText'
    BY <1>1, <1>2, <1>3, SameLines DEF IsText
  <1> QED BY <1>1, <1>2, <1>3, <1>4, <1>5 DEF Inv

LEMMA LoopsEnd ==
    ASSUME Inv, NEW i \in DOMAIN files, files[i].closed
    PROVE  /\ i > 1 /\ files[i].end = files[i - 1].curr /\ files[i].curr <= files[i].end
           /\ Characters(memory, SizedString(files[i].end, Len(Mark))) = Mark
  <1>1. IsText /\ AreInOrder(files, line)
    BY DEF Inv
  <1>2. PICK k : k = Len(files)
    OBVIOUS
  <1>3. /\ k \in Nat /\ DOMAIN files = 1 .. k /\ ~files[1].closed
        /\ \A j \in 1 .. k : IsInOrder(files[j])
        /\ \A j \in 1 .. k - 1 : IsOver(files[j + 1], files[j])
    BY <1>1, <1>2, LenProperties DEF AreInOrder
  <1>4. i > 1 /\ i - 1 \in 1 .. k - 1 /\ (i - 1) + 1 = i
    <2>1. i # 1 /\ i \in 1 .. k
      BY <1>3
    <2> QED BY <1>3, <2>1, SMT
  <1>5. IsOver(files[i], files[i - 1])
    BY <1>3, <1>4
  <1>6. /\ files[i].end = files[i - 1].curr /\ StartsLine(files[i].end)
        /\ Characters(memory, SizedString(files[i].end, Len(Mark))) = Mark
    BY <1>5 DEF IsOver
  <1>7. files[i].curr <= files[i].end
    <2>1. files[i].end # TextEnd
      <3>1. files[i].end \in Nat /\ files[i].end <= TextLength
        BY <1>1, <1>6, StartsAreInText
      <3> QED BY <1>1, <3>1, SMT DEF IsText
    <2> QED BY <1>3, <2>1 DEF IsInOrder
  <1> QED BY <1>4, <1>6, <1>7

LEMMA FilesAreInOrder == Inv => LinesAreReadInOrder
  <1> SUFFICES ASSUME Inv PROVE LinesAreReadInOrder
    OBVIOUS
  <1>1. IsText /\ AreInOrder(files, line)
    BY DEF Inv
  <1>2. DOMAIN files = 1 .. Len(files) /\ \A i \in 1 .. Len(files) : IsInOrder(files[i])
    BY <1>1, LenProperties DEF AreInOrder
  <1>3. LoopsEndAtTheirMark
    BY LoopsEnd DEF LoopsEndAtTheirMark
  <1>4. ASSUME NEW i \in DOMAIN files
        PROVE  /\ StartsLine(files[i].curr) \/ files[i].curr > TextLength
               /\ files[i].lineNumber = LinesBefore(files[i].curr)
    BY <1>2, <1>4 DEF IsInOrder, IsAtLine
  <1>5. ASSUME ~IsNull(line)
        PROVE  /\ StartsLine(line.start)
               /\ \A p \in Positions(line) : p <= TextLength /\ ~IsLineEnd(p)
               /\ IsLineEnd(line.start + line.length)
                     \/ line.start + line.length = TextLength + 1
    <2>1. PICK f : IsLineOf(f, line)
      BY <1>1, <1>5 DEF AreInOrder
    <2>2. TextLength \in Nat
      BY <1>1 DEF IsText
    <2>3. \A p \in 1 .. TextLength : p <= TextLength
      BY <2>2, SMT
    <2> QED BY <2>1, <2>3 DEF IsLineOf
  <1> QED BY <1>3, <1>4, <1>5, Zenon DEF LinesAreReadInOrder

(* Whatever the text, its line ends and what is in memory behind it: every *)
(* file is read from the start of a line, knows its number, and sees each  *)
(* line whole, however loops are cut out of one another and repeated; and  *)
(* a loop ends in front of its mark, where the file below it goes on       *)
(* (TextFile_GetNextLine, TextFile_CreateFromTextFile, TextFile_AdvanceTo, *)
(* TextFile_SetEndOfFile, TextFile_Reset).                                 *)
THEOREM TextsAreReadInOrder == Spec => []LinesAreReadInOrder
  <1>1. Init => Inv
    BY InitIsInOrder
  <1>2. Inv /\ [Next]_vars => Inv'
    BY NextKeepsOrder
  <1>3. Inv => LinesAreReadInOrder
    BY FilesAreInOrder
  <1> QED BY <1>1, <1>2, <1>3, PTL DEF Spec
=============================================================================
