------------------------- MODULE ConditionalsProofs -------------------------
(***************************************************************************)
(* Proofs about Conditionals, for every set of operand values and sources  *)
(* of every length: the flags of the innermost clause speak for all the    *)
(* clauses around a line, the lines that waited for a symbol get its       *)
(* value, and the whole refines NestedBranches.                            *)
(***************************************************************************)
EXTENDS Conditionals, SequenceTheorems, TLAPS

USE ValuesAssumption DEF Absent, Referenced

-----------------------------------------------------------------------------
(***************************************************************************)
(* The strengthening that is inductive.                                    *)
(***************************************************************************)
(* A line with the symbol's value was assembled after it was first named.  *)
ReferencesOK ==
    \A i \in DOMAIN lines :
        lines[i].kind = "code" /\ lines[i].operand = "symbol" =>
            /\ symbol # Absent
            /\ ~lines[i].skipped
            /\ IsDefined => lines[i].value = symbol

DoneOK == phase = "done" /\ ~failed => symbol # Referenced

IInv ==
    /\ TypeOK
    /\ SkipsAreInherited
    /\ ReferencesOK
    /\ DoneOK

LEMMA InitEstablishes == Init => IInv
  <1> SUFFICES ASSUME Init PROVE IInv
    OBVIOUS
  <1>1. conditionals \in Seq(Conditional) /\ lines \in Seq(Line)
    BY DEF Init
  <1>2. 0 \in 0 .. Len(lines)
    BY DEF Init
  <1>3. TypeOK
    BY <1>1, <1>2 DEF Init, TypeOK
  <1> QED
    BY <1>3 DEF Init, IInv, SkipsAreInherited, ReferencesOK, DoneOK

-----------------------------------------------------------------------------
(***************************************************************************)
(* The stack.                                                              *)
(***************************************************************************)
(* The innermost clause skips when any clause does. *)
LEMMA SkipStateIsOfTheStack ==
    ASSUME IInv
    PROVE  SkipState <=> \E i \in DOMAIN conditionals : conditionals[i].skip
  <1>1. conditionals \in Seq(Conditional)
    BY DEF IInv, TypeOK
  <1>2. Len(conditionals) \in Nat /\ DOMAIN conditionals = 1 .. Len(conditionals)
    BY <1>1
  <1>3. CASE conditionals = <<>>
    BY <1>3 DEF SkipState
  <1>4. CASE conditionals # <<>>
    <2>1. Len(conditionals) \in DOMAIN conditionals
      BY <1>1, <1>2, <1>4
    <2> QED
      BY <1>2, <1>4, <2>1 DEF SkipState, Last, IInv, SkipsAreInherited
  <1> QED
    BY <1>3, <1>4

LEMMA SkipStateIsBoolean == ASSUME TypeOK PROVE SkipState \in BOOLEAN
  <1>1. CASE conditionals = <<>>
    BY <1>1 DEF SkipState
  <1>2. CASE conditionals # <<>>
    <2>1. conditionals \in Seq(Conditional)
      BY DEF TypeOK
    <2>2. Last(conditionals) \in Conditional
      BY <1>2, <2>1, ElementOfSeq DEF Last
    <2> QED
      BY <2>2 DEF SkipState, Conditional
  <1> QED
    BY <1>1, <1>2

(* A clause that is opened on top. *)
LEMMA PushKeeps ==
    ASSUME IInv, NEW v \in Values,
           conditionals' = Append(conditionals, NewConditional(v))
    PROVE  conditionals' \in Seq(Conditional) /\ SkipsAreInherited'
  <1>1. conditionals \in Seq(Conditional) /\ SkipState \in BOOLEAN
    BY SkipStateIsBoolean DEF IInv, TypeOK
  <1>2. NewConditional(v) \in Conditional
    BY <1>1 DEF NewConditional, Conditional, InheritsSkip
  <1> DEFINE new == NewConditional(v)
  <1>3. new.inherited = SkipState
    BY DEF NewConditional, InheritsSkip
  <1> HIDE DEF new
  <1>4. /\ conditionals' \in Seq(Conditional)
        /\ Len(conditionals') = Len(conditionals) + 1
        /\ \A i \in 1 .. Len(conditionals) : conditionals'[i] = conditionals[i]
        /\ conditionals'[Len(conditionals) + 1] = new
    BY <1>1, <1>2, AppendProperties DEF new
  <1>5. /\ Len(conditionals) \in Nat
        /\ DOMAIN conditionals = 1 .. Len(conditionals)
        /\ DOMAIN conditionals' = 1 .. Len(conditionals) + 1
    BY <1>1, <1>4
  <1>6. ASSUME NEW i \in DOMAIN conditionals'
        PROVE  conditionals'[i].inherited
                   <=> \E j \in DOMAIN conditionals' :
                           j < i /\ conditionals'[j].skip
    <2>1. CASE i = Len(conditionals) + 1
      BY <1>3, <1>4, <1>5, <2>1, SkipStateIsOfTheStack
    <2>2. CASE i # Len(conditionals) + 1
      BY <1>4, <1>5, <2>2 DEF IInv, SkipsAreInherited
    <2> QED
      BY <2>1, <2>2
  <1> QED
    BY <1>4, <1>6 DEF SkipsAreInherited

(* ELSE flips the innermost clause, which no other inherits from. *)
Flipped == [conditionals EXCEPT ![Len(conditionals)] = Flip(@)]

LEMMA FlipKeeps ==
    ASSUME IInv, conditionals # <<>>, conditionals' = Flipped
    PROVE  conditionals' \in Seq(Conditional) /\ SkipsAreInherited'
  <1>1. conditionals \in Seq(Conditional)
    BY DEF IInv, TypeOK
  <1> DEFINE top == Len(conditionals)
  <1>2. top \in 1 .. Len(conditionals) /\ DOMAIN conditionals = 1 .. top
    BY <1>1
  <1>3. conditionals[top] \in Conditional
    BY <1>1, <1>2, ElementOfSeq
  <1> DEFINE new == Flip(conditionals[top])
  <1>4. new \in Conditional /\ new.inherited = conditionals[top].inherited
    BY <1>3 DEF Flip, Conditional
  <1>5. Flipped = [conditionals EXCEPT ![top] = new]
    BY DEF Flipped
  <1> HIDE DEF new
  <1>6. /\ conditionals' \in Seq(Conditional)
        /\ Len(conditionals') = Len(conditionals)
        /\ \A i \in 1 .. Len(conditionals) :
               conditionals'[i] = IF i = top THEN new ELSE conditionals[i]
    BY <1>1, <1>2, <1>4, <1>5, ExceptSeq
  <1>7. /\ DOMAIN conditionals' = 1 .. Len(conditionals)
        /\ Len(conditionals) \in Nat
    <2>1. conditionals' \in Seq(Conditional)
      BY <1>6
    <2> QED
      BY <1>1, <1>6, <2>1
  <1>8. ASSUME NEW i \in DOMAIN conditionals'
        PROVE  conditionals'[i].inherited
                   <=> \E j \in DOMAIN conditionals' :
                           j < i /\ conditionals'[j].skip
    <2>1. conditionals'[i].inherited = conditionals[i].inherited
      BY <1>2, <1>4, <1>6, <1>7
    <2>2. \A j \in DOMAIN conditionals' :
              j < i => conditionals'[j] = conditionals[j]
      <3>1. \A j \in 1 .. Len(conditionals) :
                j # Len(conditionals) => conditionals'[j] = conditionals[j]
        BY <1>6
      <3> QED
        BY <1>7, <3>1
    <2>3. conditionals[i].inherited
              <=> \E j \in DOMAIN conditionals : j < i /\ conditionals[j].skip
      BY <1>2, <1>7 DEF IInv, SkipsAreInherited
    <2> QED
      BY <1>2, <1>7, <2>1, <2>2, <2>3
  <1> QED
    BY <1>6, <1>8 DEF SkipsAreInherited

(* FIN frees the innermost clause. *)
LEMMA PopKeeps ==
    ASSUME IInv, conditionals # <<>>, conditionals' = Front(conditionals)
    PROVE  conditionals' \in Seq(Conditional) /\ SkipsAreInherited'
  <1>1. conditionals \in Seq(Conditional)
    BY DEF IInv, TypeOK
  <1> DEFINE n == Len(conditionals) - 1
  <1>2. n \in Nat /\ DOMAIN conditionals = 1 .. n + 1
    BY <1>1
  <1>3. \A i \in 1 .. n : conditionals[i] \in Conditional
    BY <1>1, <1>2, ElementOfSeq
  <1>4. conditionals' = SubSeq(conditionals, 1, n)
    BY DEF Front
  <1> HIDE DEF n
  <1>5. /\ conditionals' \in Seq(Conditional)
        /\ Len(conditionals') = IF 1 <= n THEN n - 1 + 1 ELSE 0
        /\ \A i \in 1 .. n - 1 + 1 : conditionals'[i] = conditionals[1 + i - 1]
    BY <1>2, <1>3, <1>4, SubSeqProperties
  <1>6. /\ DOMAIN conditionals' = 1 .. n
        /\ \A i \in 1 .. n : conditionals'[i] = conditionals[i]
    BY <1>2, <1>5
  <1>7. ASSUME NEW i \in DOMAIN conditionals'
        PROVE  conditionals'[i].inherited
                   <=> \E j \in DOMAIN conditionals' :
                           j < i /\ conditionals'[j].skip
    BY <1>2, <1>6 DEF IInv, SkipsAreInherited
  <1> QED
    BY <1>5, <1>7 DEF SkipsAreInherited

-----------------------------------------------------------------------------
(***************************************************************************)
(* The lines.                                                              *)
(***************************************************************************)
Started(kind, operand, v) == Append(lines, NewLine(kind, operand, v))

LEMMA AppendLine ==
    ASSUME TypeOK, NEW kind \in {"do", "else", "fin", "code"},
           NEW operand \in {"plain", "symbol"}, NEW v \in Values
    PROVE  /\ Started(kind, operand, v) \in Seq(Line)
           /\ Len(lines) \in Nat
           /\ Len(Started(kind, operand, v)) = Len(lines) + 1
           /\ DOMAIN lines = 1 .. Len(lines)
           /\ DOMAIN Started(kind, operand, v) = 1 .. Len(lines) + 1
           /\ \A i \in DOMAIN lines :
                  /\ lines[i] \in Line
                  /\ Started(kind, operand, v)[i] = lines[i]
           /\ Started(kind, operand, v)[Len(lines) + 1]
                  = NewLine(kind, operand, v)
  <1> DEFINE started == Started(kind, operand, v)
  <1>1. NewLine(kind, operand, v) \in Line
    BY SkipStateIsBoolean DEF NewLine, Line
  <1>2. lines \in Seq(Line)
    BY DEF TypeOK
  <1>3. /\ started \in Seq(Line)
        /\ Len(started) = Len(lines) + 1
        /\ \A i \in 1 .. Len(lines) : started[i] = lines[i]
        /\ started[Len(lines) + 1] = NewLine(kind, operand, v)
    BY <1>1, <1>2, AppendProperties DEF Started
  <1> HIDE DEF started
  <1>4. Len(lines) \in Nat /\ DOMAIN lines = 1 .. Len(lines)
    BY <1>2
  <1>5. \A i \in DOMAIN lines : lines[i] \in Line
    BY <1>2, <1>4, ElementOfSeq
  <1>6. DOMAIN started = 1 .. Len(lines) + 1
    BY <1>3
  <1> QED
    BY <1>3, <1>4, <1>5, <1>6 DEF started

(* A line that names the symbol has its value, or will be executed again.  *)
LEMMA LineKeeps ==
    ASSUME IInv, NEW kind \in {"do", "else", "fin", "code"},
           NEW operand \in {"plain", "symbol"}, NEW v \in Values,
           phase = "first", phase' = "first",
           lines' = Started(kind, operand, v),
           symbol' \in {symbol, Referenced}, symbol' # symbol => ~IsDefined,
           \/ kind # "code"
           \/ operand = "plain"
           \/ /\ symbol' # Absent
              /\ ~SkipState
              /\ symbol' \in Values => v = symbol',
           conditionals' \in Seq(Conditional), SkipsAreInherited',
           argument' \in {argument, Len(lines) + 1},
           failed' \in BOOLEAN, warned' \in BOOLEAN
    PROVE  IInv'
  <1>1. TypeOK
    BY DEF IInv
  <1> DEFINE new == NewLine(kind, operand, v)
  <1>2. /\ lines' \in Seq(Line)
        /\ Len(lines) \in Nat /\ Len(lines') = Len(lines) + 1
        /\ DOMAIN lines = 1 .. Len(lines)
        /\ DOMAIN lines' = 1 .. Len(lines) + 1
        /\ \A i \in DOMAIN lines : lines[i] \in Line /\ lines'[i] = lines[i]
        /\ lines'[Len(lines) + 1] = new
    BY <1>1, AppendLine
  <1>3. new = [kind |-> kind, skipped |-> SkipState, operand |-> operand,
               value |-> v]
    BY DEF NewLine
  <1> HIDE DEF new
  <1>4. argument' \in 0 .. Len(lines')
    BY <1>1, <1>2 DEF TypeOK
  <1>5. symbol' \in Values \cup {Absent, Referenced}
    BY <1>1 DEF TypeOK
  <1>6. TypeOK'
    BY <1>1, <1>2, <1>4, <1>5 DEF TypeOK
  <1>7. ReferencesOK'
    <2> SUFFICES ASSUME NEW i \in DOMAIN lines', lines'[i].kind = "code",
                        lines'[i].operand = "symbol"
                 PROVE  /\ symbol' # Absent
                        /\ ~lines'[i].skipped
                        /\ symbol' \in Values => lines'[i].value = symbol'
      BY DEF ReferencesOK, IsDefined
    <2>1. CASE i = Len(lines) + 1
      BY <1>2, <1>3, <2>1
    <2>2. CASE i # Len(lines) + 1
      <3>1. i \in DOMAIN lines /\ lines'[i] = lines[i]
        BY <1>2, <2>2
      <3> QED
        BY <3>1 DEF IInv, ReferencesOK, IsDefined
    <2> QED
      BY <2>1, <2>2
  <1>8. DoneOK'
    BY <1>1 DEF DoneOK
  <1> QED
    BY <1>6, <1>7, <1>8 DEF IInv

-----------------------------------------------------------------------------
(***************************************************************************)
(* Each action keeps the invariant.                                        *)
(***************************************************************************)
(* The actions that leave the clauses alone.                               *)
LEMMA ClausesAreKept ==
    ASSUME IInv, conditionals' = conditionals
    PROVE  conditionals' \in Seq(Conditional) /\ SkipsAreInherited'
  BY DEF IInv, TypeOK, SkipsAreInherited

LEMMA SymbolValueIsValue == ASSUME TypeOK PROVE SymbolValue \in Values
  BY DEF SymbolValue, IsDefined

(* A line that does not name the symbol. *)
LEMMA PlainLineKeeps ==
    ASSUME IInv, NEW kind \in {"do", "else", "fin", "code"}, NEW v \in Values,
           phase = "first", phase' = "first",
           lines' = Started(kind, "plain", v), symbol' = symbol,
           conditionals' \in Seq(Conditional), SkipsAreInherited',
           argument' \in {argument, Len(lines) + 1},
           failed' \in BOOLEAN, warned' \in BOOLEAN
    PROVE  IInv'
  BY LineKeeps

LEMMA FlagsAreBoolean ==
    ASSUME IInv PROVE failed \in BOOLEAN /\ warned \in BOOLEAN /\ TypeOK
  BY DEF IInv, TypeOK

LEMMA DoKeeps == ASSUME IInv, NEW v \in Values, Do(v) PROVE IInv'
  <1>1. conditionals' \in Seq(Conditional) /\ SkipsAreInherited'
    BY PushKeeps DEF Do
  <1> QED
    BY <1>1, FlagsAreBoolean, PlainLineKeeps
       DEF Do, StartLine, Started

LEMMA DoInvalidKeeps == ASSUME IInv, DoInvalid PROVE IInv'
  <1>1. conditionals' \in Seq(Conditional) /\ SkipsAreInherited'
    BY ClausesAreKept DEF DoInvalid
  <1> QED
    BY <1>1, FlagsAreBoolean, PlainLineKeeps
       DEF DoInvalid, StartLine, Started

LEMMA DoSymbolKeeps == ASSUME IInv, DoSymbol PROVE IInv'
  <1>1. SymbolValue \in Values
    BY SymbolValueIsValue DEF IInv
  <1>2. conditionals' \in Seq(Conditional) /\ SkipsAreInherited'
    BY <1>1, PushKeeps DEF DoSymbol
  <1> QED
    BY <1>1, <1>2, FlagsAreBoolean, LineKeeps
       DEF DoSymbol, StartLine, Started

LEMMA WithoutDoKeeps ==
    ASSUME IInv, NEW kind \in {"else", "fin"}, WithoutDo(kind) PROVE IInv'
  <1>1. conditionals' \in Seq(Conditional) /\ SkipsAreInherited'
    BY ClausesAreKept DEF WithoutDo
  <1> QED
    BY <1>1, FlagsAreBoolean, PlainLineKeeps
       DEF WithoutDo, StartLine, Started

LEMMA LastClause ==
    ASSUME TypeOK, conditionals # <<>>
    PROVE  /\ Last(conditionals) \in Conditional
           /\ Last(conditionals) = conditionals[Len(conditionals)]
           /\ Len(conditionals) \in DOMAIN conditionals
  <1>1. conditionals \in Seq(Conditional)
    BY DEF TypeOK
  <1>2. Len(conditionals) \in 1 .. Len(conditionals)
    BY <1>1
  <1> QED
    BY <1>1, <1>2, ElementOfSeq DEF Last

LEMMA ElseKeeps == ASSUME IInv, Else PROVE IInv'
  <1>1. conditionals' \in Seq(Conditional) /\ SkipsAreInherited'
    BY FlipKeeps DEF Else, Flipped
  <1>2. failed' \in BOOLEAN
    BY LastClause DEF Else, Conditional, IInv, TypeOK
  <1> QED
    BY <1>1, <1>2, FlagsAreBoolean, PlainLineKeeps
       DEF Else, StartLine, Started

LEMMA FinKeeps == ASSUME IInv, Fin PROVE IInv'
  <1>1. conditionals' \in Seq(Conditional) /\ SkipsAreInherited'
    BY PopKeeps DEF Fin
  <1> QED
    BY <1>1, FlagsAreBoolean, PlainLineKeeps
       DEF Fin, StartLine, Started

LEMMA CodeKeeps ==
    ASSUME IInv, Code \/ UnknownOperator \/ MacroCall PROVE IInv'
  <1>1. conditionals' \in Seq(Conditional) /\ SkipsAreInherited'
    BY ClausesAreKept DEF Code, UnknownOperator, MacroCall
  <1> QED
    BY <1>1, FlagsAreBoolean, PlainLineKeeps
       DEF Code, UnknownOperator, MacroCall, StartLine, Started

LEMMA ReferenceKeeps == ASSUME IInv, Reference PROVE IInv'
  <1>1. conditionals' \in Seq(Conditional) /\ SkipsAreInherited'
    BY ClausesAreKept DEF Reference
  <1>2. CASE SkipState
    BY <1>1, <1>2, FlagsAreBoolean, PlainLineKeeps
       DEF Reference, StartLine, Started
  <1>3. CASE ~SkipState
    <2>1. /\ StartLine("code", "symbol", SymbolValue)
          /\ symbol' = IF symbol = Absent THEN Referenced ELSE symbol
          /\ UNCHANGED <<argument, failed, warned>>
      BY <1>3 DEF Reference
    <2>2. SymbolValue \in Values /\ TypeOK
      BY SymbolValueIsValue DEF IInv
    <2>3. symbol' \in Values => SymbolValue = symbol'
      BY <2>1 DEF SymbolValue, IsDefined
    <2> QED
      BY <1>1, <1>3, <2>1, <2>2, <2>3, FlagsAreBoolean, LineKeeps
         DEF StartLine, Started, IsDefined
  <1> QED
    BY <1>2, <1>3

(* A line that is executed again keeps its kind and its place. *)
LEMMA RerunEffect ==
    ASSUME NEW line \in Line, NEW v \in Values
    PROVE  /\ Rerun(line, v) \in Line
           /\ Rerun(line, v).kind = line.kind
           /\ Rerun(line, v).skipped = line.skipped
           /\ Rerun(line, v).operand = line.operand
           /\ line.operand = "symbol" /\ line.kind = "code" /\ ~line.skipped
              => Rerun(line, v).value = v
  BY DEF Rerun, Line

LEMMA DefineKeeps == ASSUME IInv, NEW v \in Values, Define(v) PROVE IInv'
  <1> DEFINE started == Started("code", "plain", 0)
             new == NewLine("code", "plain", 0)
  <1>1. /\ TypeOK /\ phase = "first" /\ phase' = "first"
        /\ UNCHANGED <<argument, warned>>
    BY DEF Define, IInv
  <1>2. /\ started \in Seq(Line)
        /\ Len(lines) \in Nat /\ Len(started) = Len(lines) + 1
        /\ DOMAIN lines = 1 .. Len(lines)
        /\ DOMAIN started = 1 .. Len(lines) + 1
        /\ \A i \in DOMAIN lines : lines[i] \in Line /\ started[i] = lines[i]
        /\ started[Len(lines) + 1] = new
    BY <1>1, AppendLine
  <1>3. new.kind = "code" /\ new.operand = "plain"
    BY DEF NewLine
  <1>4. CASE SkipState \/ IsDefined
    <2>1. /\ lines' = started /\ symbol' = symbol
          /\ conditionals' = conditionals /\ failed' \in BOOLEAN
      BY <1>1, <1>4 DEF Define, DefineInto, TypeOK, Started
    <2> HIDE DEF new, started
    <2>2. argument' \in 0 .. Len(lines')
      BY <1>1, <1>2, <2>1 DEF TypeOK
    <2>3. TypeOK'
      BY <1>1, <1>2, <2>1, <2>2 DEF TypeOK
    <2>4. ReferencesOK'
      <3> SUFFICES ASSUME NEW i \in DOMAIN lines', lines'[i].kind = "code",
                          lines'[i].operand = "symbol"
                   PROVE  i \in DOMAIN lines /\ lines'[i] = lines[i]
        BY <2>1 DEF ReferencesOK, IsDefined, IInv
      <3> QED
        BY <1>2, <1>3, <2>1
    <2> QED
      BY <1>1, <2>1, <2>3, <2>4, ClausesAreKept DEF IInv, DoneOK
  <1>5. CASE ~SkipState /\ ~IsDefined
    <2>1. /\ lines' = [i \in DOMAIN started |-> Rerun(started[i], v)]
          /\ symbol' = v /\ conditionals' = conditionals /\ failed' = failed
      BY <1>5 DEF Define, DefineInto, DoAgain, Started
    <2> HIDE DEF new, started
    <2>2. \A i \in DOMAIN started : started[i] \in Line
      BY <1>2, ElementOfSeq
    <2>3. /\ DOMAIN lines' = 1 .. Len(lines) + 1
          /\ \A i \in DOMAIN lines' : /\ lines'[i] = Rerun(started[i], v)
                                      /\ lines'[i] \in Line
      BY <1>2, <2>1, <2>2, RerunEffect
    <2>4. lines' \in Seq(Line) /\ Len(lines') = Len(lines) + 1
      BY <1>2, <2>1, <2>3
    <2>5. argument' \in 0 .. Len(lines')
      BY <1>1, <1>2, <2>4 DEF TypeOK
    <2>6. TypeOK'
      BY <1>1, <2>1, <2>4, <2>5 DEF TypeOK
    <2>7. ReferencesOK'
      <3> SUFFICES ASSUME NEW i \in DOMAIN lines', lines'[i].kind = "code",
                          lines'[i].operand = "symbol"
                   PROVE  ~lines'[i].skipped /\ lines'[i].value = v
        BY <2>1 DEF ReferencesOK, IsDefined
      <3>1. /\ i \in DOMAIN started /\ started[i] \in Line
            /\ lines'[i] = Rerun(started[i], v)
        BY <1>2, <2>2, <2>3
      <3>2. started[i].kind = "code" /\ started[i].operand = "symbol"
        BY <3>1, RerunEffect
      <3>3. i \in DOMAIN lines /\ started[i] = lines[i]
        BY <1>2, <1>3, <3>1, <3>2
      <3>4. ~started[i].skipped
        BY <3>2, <3>3 DEF IInv, ReferencesOK
      <3> QED
        BY <3>1, <3>2, <3>4, RerunEffect
    <2> QED
      BY <1>1, <2>1, <2>6, <2>7, ClausesAreKept DEF IInv, DoneOK
  <1> QED
    BY <1>4, <1>5

LEMMA EndOfSourceKeeps == ASSUME IInv, EndOfSource PROVE IInv'
  BY DEF EndOfSource, IInv, TypeOK, SkipsAreInherited, ReferencesOK, IsDefined,
         DoneOK

LEMMA StutterKeeps == ASSUME IInv, UNCHANGED vars PROVE IInv'
  BY DEF vars, IInv, TypeOK, SkipsAreInherited, ReferencesOK, IsDefined, DoneOK

LEMMA StepKeeps == IInv /\ [Next]_vars => IInv'
  <1> SUFFICES ASSUME IInv, [Next]_vars PROVE IInv'
    OBVIOUS
  <1>1. CASE \E v \in Values : Do(v)
    BY <1>1, DoKeeps
  <1>2. CASE DoInvalid
    BY <1>2, DoInvalidKeeps
  <1>3. CASE DoSymbol
    BY <1>3, DoSymbolKeeps
  <1>4. CASE \E kind \in {"else", "fin"} : WithoutDo(kind)
    BY <1>4, WithoutDoKeeps
  <1>5. CASE Else
    BY <1>5, ElseKeeps
  <1>6. CASE Fin
    BY <1>6, FinKeeps
  <1>7. CASE Code \/ UnknownOperator \/ MacroCall
    BY <1>7, CodeKeeps
  <1>8. CASE Reference
    BY <1>8, ReferenceKeeps
  <1>9. CASE \E v \in Values : Define(v)
    BY <1>9, DefineKeeps
  <1>10. CASE EndOfSource
    BY <1>10, EndOfSourceKeeps
  <1>11. CASE UNCHANGED vars
    BY <1>11, StutterKeeps
  <1> QED
    BY <1>1, <1>2, <1>3, <1>4, <1>5, <1>6, <1>7, <1>8, <1>9, <1>10, <1>11
       DEF Next

-----------------------------------------------------------------------------
(***************************************************************************)
(* The refinement mapping.                                                 *)
(***************************************************************************)
LEMMA BranchOfIsBranch ==
    ASSUME NEW c \in Conditional
    PROVE  /\ BranchOf(c) \in Nested!Branch
           /\ Nested!IsSelected(BranchOf(c)) <=> ~c.skip
           /\ BranchOf(c).inElse = c.seenElse
           /\ ~c.seenElse => BranchOf(Flip(c)) = Nested!InElse(BranchOf(c))
  BY DEF BranchOf, Nested!Branch, Nested!IsSelected, Nested!InElse, Flip,
         Conditional

LEMMA BranchesOfStack ==
    ASSUME NEW s \in Seq(Conditional)
    PROVE  /\ BranchesOf(s) \in Seq(Nested!Branch)
           /\ Len(BranchesOf(s)) = Len(s)
           /\ \A i \in 1 .. Len(s) : BranchesOf(s)[i] = BranchOf(s[i])
  <1>1. Len(s) \in Nat /\ DOMAIN s = 1 .. Len(s)
    OBVIOUS
  <1>2. \A i \in 1 .. Len(s) : BranchOf(s[i]) \in Nested!Branch
    BY <1>1, ElementOfSeq, BranchOfIsBranch
  <1>3. BranchesOf(s) = [i \in 1 .. Len(s) |-> BranchOf(s[i])]
    BY <1>1 DEF BranchesOf
  <1> HIDE DEF BranchesOf
  <1> QED
    BY <1>1, <1>2, <1>3

LEMMA BranchesOfAppend ==
    ASSUME NEW s \in Seq(Conditional), NEW c \in Conditional
    PROVE  BranchesOf(Append(s, c)) = Append(BranchesOf(s), BranchOf(c))
  <1>1. /\ Append(s, c) \in Seq(Conditional)
        /\ Len(Append(s, c)) = Len(s) + 1 /\ Len(s) \in Nat
        /\ \A i \in 1 .. Len(s) : Append(s, c)[i] = s[i]
        /\ Append(s, c)[Len(s) + 1] = c
    BY AppendProperties
  <1> DEFINE t == Append(s, c)
             u == Append(BranchesOf(s), BranchOf(c))
  <1>2. /\ BranchesOf(t) \in Seq(Nested!Branch)
        /\ Len(BranchesOf(t)) = Len(s) + 1
        /\ \A i \in 1 .. Len(s) + 1 : BranchesOf(t)[i] = BranchOf(t[i])
    BY <1>1, BranchesOfStack
  <1>3. BranchesOf(s) \in Seq(Nested!Branch) /\ BranchOf(c) \in Nested!Branch
    BY BranchesOfStack, BranchOfIsBranch
  <1>4. /\ u \in Seq(Nested!Branch)
        /\ Len(u) = Len(BranchesOf(s)) + 1
        /\ \A i \in 1 .. Len(BranchesOf(s)) : u[i] = BranchesOf(s)[i]
        /\ u[Len(BranchesOf(s)) + 1] = BranchOf(c)
    BY <1>3, AppendProperties
  <1>5. /\ Len(BranchesOf(s)) = Len(s)
        /\ \A i \in 1 .. Len(s) : BranchesOf(s)[i] = BranchOf(s[i])
    BY BranchesOfStack
  <1> HIDE DEF t, u
  <1>6. \A i \in 1 .. Len(s) : t[i] = s[i]
    BY <1>1 DEF t
  <1>7. t[Len(s) + 1] = c /\ Len(s) \in Nat
    BY <1>1 DEF t
  <1>8. \A i \in 1 .. Len(s) + 1 : BranchesOf(t)[i] = u[i]
    <2> SUFFICES ASSUME NEW i \in 1 .. Len(s) + 1
                 PROVE  BranchesOf(t)[i] = u[i]
      OBVIOUS
    <2>1. CASE i = Len(s) + 1
      BY <1>2, <1>4, <1>5, <1>7, <2>1
    <2>2. CASE i # Len(s) + 1
      BY <1>2, <1>4, <1>5, <1>6, <1>7, <2>2
    <2> QED
      BY <2>1, <2>2
  <1>9. BranchesOf(t) = u
    BY <1>2, <1>4, <1>5, <1>8, SeqEqual
  <1> QED
    BY <1>9 DEF t, u

LEMMA FatesOfLines ==
    ASSUME NEW s \in Seq(Line)
    PROVE  /\ FatesOf(s) \in Seq(Nested!Fate)
           /\ Len(FatesOf(s)) = Len(s)
           /\ \A i \in 1 .. Len(s) : FatesOf(s)[i] = FateOf(s[i])
  <1>1. Len(s) \in Nat /\ DOMAIN s = 1 .. Len(s)
    OBVIOUS
  <1>2. \A line \in Line : FateOf(line) \in Nested!Fate
    BY DEF FateOf, Line, Nested!Fate
  <1>3. \A i \in 1 .. Len(s) : FateOf(s[i]) \in Nested!Fate
    BY <1>1, <1>2, ElementOfSeq
  <1>4. FatesOf(s) = [i \in 1 .. Len(s) |-> FateOf(s[i])]
    BY <1>1 DEF FatesOf
  <1> QED
    BY <1>1, <1>3, <1>4

(* Without an error, the line is assembled when the open branches are      *)
(* selected.                                                               *)
LEMMA ActiveIsNotSkipped ==
    ASSUME IInv, ~failed
    PROVE  Nested!Active <=> ~SkipState
  <1>1. conditionals \in Seq(Conditional)
    BY DEF IInv, TypeOK
  <1>2. /\ OpenBranches = BranchesOf(conditionals)
        /\ Len(conditionals) \in Nat
        /\ DOMAIN conditionals = 1 .. Len(conditionals)
    BY <1>1 DEF OpenBranches
  <1>3. \A i \in 1 .. Len(conditionals) :
            OpenBranches[i] = BranchOf(conditionals[i])
    BY <1>1, <1>2, BranchesOfStack
  <1>4. DOMAIN OpenBranches = 1 .. Len(conditionals)
    BY <1>1, <1>2, BranchesOfStack
  <1>5. \A i \in 1 .. Len(conditionals) :
            Nested!IsSelected(OpenBranches[i]) <=> ~conditionals[i].skip
    BY <1>1, <1>3, ElementOfSeq, BranchOfIsBranch
  <1> QED
    BY <1>2, <1>4, <1>5, SkipStateIsOfTheStack DEF Nested!Active

-----------------------------------------------------------------------------
(***************************************************************************)
(* Each step is a step of NestedBranches, or leaves it unchanged.          *)
(***************************************************************************)
LEMMA InitRefines == Init => Nested!Init
  <1> SUFFICES ASSUME Init PROVE Nested!Init
    OBVIOUS
  <1>1. ~failed /\ conditionals = <<>> /\ lines = <<>>
    BY DEF Init
  <1>2. BranchesOf(<<>>) = <<>> /\ FatesOf(<<>>) = <<>>
    BY DEF BranchesOf, FatesOf
  <1> QED
    BY <1>1, <1>2 DEF Nested!Init, OpenBranches, Fates, Init

(* An error is never taken back, and ends what is promised. *)
LEMMA FailedRefines ==
    ASSUME IInv, [Next]_vars, failed'
    PROVE  Nested!Fail \/ UNCHANGED Nested!vars
  <1>1. OpenBranches' = <<>> /\ Fates' = <<>>
    BY DEF OpenBranches, Fates
  <1>2. failed \in BOOLEAN /\ failed' \in BOOLEAN
    BY StepKeeps DEF IInv, TypeOK
  <1>3. CASE failed
    BY <1>1, <1>2, <1>3 DEF OpenBranches, Fates, Nested!vars
  <1>4. CASE ~failed
    BY <1>1, <1>2, <1>4 DEF Nested!Fail
  <1> QED
    BY <1>3, <1>4

LEMMA FailureStays ==
    ASSUME [Next]_vars, failed
    PROVE  failed'
  <1>1. CASE Next
    BY <1>1 DEF Next, Do, DoInvalid, DoSymbol, WithoutDo, Else, Fin, Code,
                Reference, Define, DefineInto, UnknownOperator, MacroCall,
                EndOfSource
  <1>2. CASE UNCHANGED vars
    BY <1>2 DEF vars
  <1> QED
    BY <1>1, <1>2

(* A line joins the others with its own fate. *)
LEMMA PassRefines ==
    ASSUME IInv, ~failed, failed' = failed,
           NEW kind \in {"do", "else", "fin", "code"},
           lines' \in Seq(Line), Len(lines') = Len(lines) + 1,
           \A i \in 1 .. Len(lines) : FateOf(lines'[i]) = FateOf(lines[i]),
           FateOf(lines'[Len(lines) + 1])
               = [kind |-> kind, assembled |-> ~SkipState]
    PROVE  Nested!Pass(kind)
  <1>1. lines \in Seq(Line) /\ Len(lines) \in Nat
    BY DEF IInv, TypeOK
  <1> DEFINE fate == [kind |-> kind, assembled |-> Nested!Active]
             n == Len(lines)
  <1>2. (~SkipState) = Nested!Active
    <2>1. Nested!Active \in BOOLEAN
      BY DEF Nested!Active
    <2> QED
      BY <2>1, ActiveIsNotSkipped
  <1>3. /\ fate \in Nested!Fate
        /\ FateOf(lines'[n + 1]) = fate
    BY <1>2 DEF Nested!Fate, Nested!Active
  <1> HIDE DEF fate
  <1>4. /\ FatesOf(lines) \in Seq(Nested!Fate)
        /\ Len(FatesOf(lines)) = n
        /\ \A i \in 1 .. n : FatesOf(lines)[i] = FateOf(lines[i])
    BY <1>1, FatesOfLines
  <1>5. /\ FatesOf(lines') \in Seq(Nested!Fate)
        /\ Len(FatesOf(lines')) = n + 1
        /\ \A i \in 1 .. n + 1 : FatesOf(lines')[i] = FateOf(lines'[i])
    BY FatesOfLines
  <1> DEFINE u == Append(FatesOf(lines), fate)
  <1>6. /\ u \in Seq(Nested!Fate)
        /\ Len(u) = n + 1
        /\ \A i \in 1 .. n : u[i] = FatesOf(lines)[i]
        /\ u[n + 1] = fate
    BY <1>3, <1>4, AppendProperties
  <1> HIDE DEF u
  <1>7. \A i \in 1 .. n + 1 : FatesOf(lines')[i] = u[i]
    <2> SUFFICES ASSUME NEW i \in 1 .. n + 1
                 PROVE  FatesOf(lines')[i] = u[i]
      OBVIOUS
    <2>1. CASE i = n + 1
      BY <1>1, <1>3, <1>5, <1>6, <2>1
    <2>2. CASE i # n + 1
      <3>1. i \in 1 .. n
        BY <1>1, <2>2
      <3> QED
        BY <1>4, <1>5, <1>6, <3>1
    <2> QED
      BY <2>1, <2>2
  <1>8. FatesOf(lines') = u
    BY <1>5, <1>6, <1>7, SeqEqual
  <1>9. Fates = FatesOf(lines) /\ Fates' = FatesOf(lines')
    BY DEF Fates
  <1> QED
    BY <1>8, <1>9 DEF Nested!Pass, u, fate

LEMMA StartedRefines ==
    ASSUME IInv, ~failed, failed' = failed,
           NEW kind \in {"do", "else", "fin", "code"},
           NEW operand \in {"plain", "symbol"}, NEW v \in Values,
           lines' = Started(kind, operand, v)
    PROVE  Nested!Pass(kind)
  <1>1. TypeOK
    BY DEF IInv
  <1>2. /\ lines' \in Seq(Line)
        /\ Len(lines) \in Nat /\ Len(lines') = Len(lines) + 1
        /\ \A i \in 1 .. Len(lines) : lines'[i] = lines[i]
        /\ lines'[Len(lines) + 1] = NewLine(kind, operand, v)
    <2>1. /\ DOMAIN lines = 1 .. Len(lines) /\ Len(lines) \in Nat
          /\ \A i \in DOMAIN lines : Started(kind, operand, v)[i] = lines[i]
      BY <1>1, AppendLine
    <2>2. /\ Started(kind, operand, v) \in Seq(Line)
          /\ Len(Started(kind, operand, v)) = Len(lines) + 1
          /\ Started(kind, operand, v)[Len(lines) + 1]
                 = NewLine(kind, operand, v)
      BY <1>1, AppendLine
    <2> HIDE DEF NewLine
    <2> QED
      BY <2>1, <2>2
  <1>3. FateOf(NewLine(kind, operand, v))
            = [kind |-> kind, assembled |-> ~SkipState]
    BY DEF FateOf, NewLine
  <1> HIDE DEF NewLine
  <1> QED
    BY <1>2, <1>3, PassRefines

LEMMA DoRefines ==
    ASSUME IInv, ~failed, failed' = failed, NEW operand \in {"plain", "symbol"},
           NEW v \in Values, lines' = Started("do", operand, v),
           conditionals' = Append(conditionals, NewConditional(v))
    PROVE  Nested!Next
  <1>1. Nested!Pass("do")
    BY StartedRefines
  <1>2. conditionals \in Seq(Conditional) /\ SkipState \in BOOLEAN
    BY SkipStateIsBoolean DEF IInv, TypeOK
  <1> DEFINE new == NewConditional(v)
  <1>3. new \in Conditional
    BY <1>2 DEF NewConditional, Conditional, InheritsSkip
  <1>4. BranchOf(new) = [holds |-> v # 0, inElse |-> FALSE]
    BY DEF NewConditional, BranchOf
  <1> HIDE DEF new
  <1>5. BranchesOf(Append(conditionals, new))
            = Append(BranchesOf(conditionals), BranchOf(new))
    BY <1>2, <1>3, BranchesOfAppend
  <1>6. /\ OpenBranches = BranchesOf(conditionals)
        /\ OpenBranches' = BranchesOf(conditionals')
    BY DEF OpenBranches
  <1>7. conditionals' = Append(conditionals, new)
    BY DEF new
  <1>8. OpenBranches' = Append(OpenBranches, [holds |-> v # 0, inElse |-> FALSE])
    BY <1>4, <1>5, <1>6, <1>7
  <1>9. Nested!Open(v # 0)
    BY <1>1, <1>8 DEF Nested!Open
  <1> QED
    BY <1>9 DEF Nested!Next

LEMMA OutsideRefines ==
    ASSUME IInv, ~failed, NEW kind \in {"else", "fin"}, WithoutDo(kind)
    PROVE  Nested!Next
  <1>1. Nested!Pass(kind)
    BY StartedRefines, ValuesAssumption DEF WithoutDo, StartLine, Started
  <1>2. OpenBranches = <<>> /\ OpenBranches' = OpenBranches
    BY DEF WithoutDo, OpenBranches, BranchesOf
  <1> QED
    BY <1>1, <1>2 DEF Nested!Next, Nested!PassOver

LEMMA ElseRefines ==
    ASSUME IInv, ~failed, ~failed', Else
    PROVE  Nested!Next
  <1>1. /\ TypeOK /\ conditionals \in Seq(Conditional) /\ conditionals # <<>>
        /\ conditionals' = Flipped /\ failed' = failed
        /\ ~Last(conditionals).seenElse
    BY DEF IInv, TypeOK, Else, Flipped
  <1>2. Nested!Pass("else")
    BY <1>1, StartedRefines, ValuesAssumption DEF Else, StartLine, Started
  <1> DEFINE top == conditionals[Len(conditionals)]
             n == Len(conditionals)
  <1>3. top \in Conditional /\ ~top.seenElse /\ n \in Nat /\ n \in 1 .. n
    BY <1>1, LastClause
  <1>4. /\ BranchOf(top).inElse = FALSE
        /\ BranchOf(Flip(top)) = Nested!InElse(BranchOf(top))
        /\ Flip(top) \in Conditional /\ Nested!InElse(BranchOf(top)) \in Nested!Branch
    <2>1. Flip(top) \in Conditional
      BY <1>3 DEF Flip, Conditional
    <2>2. BranchOf(Flip(top)) = Nested!InElse(BranchOf(top))
      BY <1>3, BranchOfIsBranch
    <2>3. BranchOf(top).inElse = FALSE
      BY <1>3 DEF BranchOf, Conditional
    <2> QED
      BY <2>1, <2>2, <2>3, BranchOfIsBranch
  <1>5. /\ Flipped \in Seq(Conditional) /\ Len(Flipped) = n
        /\ \A i \in 1 .. n :
               Flipped[i] = IF i = n THEN Flip(top) ELSE conditionals[i]
    BY <1>1, <1>3, <1>4, ExceptSeq DEF Flipped
  <1>6. /\ BranchesOf(conditionals) \in Seq(Nested!Branch)
        /\ Len(BranchesOf(conditionals)) = n
        /\ \A i \in 1 .. n :
               BranchesOf(conditionals)[i] = BranchOf(conditionals[i])
    BY <1>1, BranchesOfStack
  <1>7. /\ BranchesOf(Flipped) \in Seq(Nested!Branch)
        /\ Len(BranchesOf(Flipped)) = n
        /\ \A i \in 1 .. n : BranchesOf(Flipped)[i] = BranchOf(Flipped[i])
    BY <1>5, BranchesOfStack
  <1> DEFINE old == BranchesOf(conditionals)
             elsed == [old EXCEPT ![n] = Nested!InElse(BranchOf(top))]
  <1> HIDE DEF top
  <1>8. /\ elsed \in Seq(Nested!Branch) /\ Len(elsed) = n
        /\ \A i \in 1 .. n : elsed[i] = IF i = n THEN Nested!InElse(BranchOf(top))
                                               ELSE old[i]
    BY <1>3, <1>4, <1>6, ExceptSeq
  <1> HIDE DEF elsed, old
  <1>9. \A i \in 1 .. n : BranchesOf(Flipped)[i] = elsed[i]
    BY <1>4, <1>5, <1>6, <1>7, <1>8 DEF old
  <1>10. BranchesOf(Flipped) = elsed
    BY <1>7, <1>8, <1>9, SeqEqual
  <1>11. old[n] = BranchOf(top) /\ Len(old) = n /\ old # <<>> /\ Last(old) = old[n]
    BY <1>3, <1>6 DEF old, top, Last
  <1>12. OpenBranches = old /\ OpenBranches' = BranchesOf(Flipped)
    BY <1>1 DEF OpenBranches, old
  <1>13. OpenBranches' = [OpenBranches EXCEPT
                              ![Len(OpenBranches)] = Nested!InElse(@)]
    BY <1>10, <1>11, <1>12 DEF elsed
  <1>14. OpenBranches # <<>> /\ ~Last(OpenBranches).inElse
    BY <1>4, <1>11, <1>12
  <1>15. Nested!Switch
    BY <1>2, <1>13, <1>14 DEF Nested!Switch, Nested!Last, Last
  <1> QED
    BY <1>15 DEF Nested!Next

LEMMA FinRefines ==
    ASSUME IInv, ~failed, Fin
    PROVE  Nested!Next
  <1>1. /\ conditionals \in Seq(Conditional) /\ conditionals # <<>>
        /\ conditionals' = Front(conditionals) /\ failed' = failed
    BY DEF IInv, TypeOK, Fin
  <1>2. Nested!Pass("fin")
    BY <1>1, StartedRefines, ValuesAssumption DEF Fin, StartLine, Started
  <1> DEFINE n == Len(conditionals) - 1
             short == SubSeq(conditionals, 1, n)
             old == BranchesOf(conditionals)
             front == SubSeq(old, 1, n)
  <1>3. n \in Nat /\ Len(conditionals) = n + 1
    BY <1>1
  <1>4. /\ old \in Seq(Nested!Branch) /\ Len(old) = n + 1
        /\ \A i \in 1 .. n + 1 : old[i] = BranchOf(conditionals[i])
    BY <1>1, <1>3, BranchesOfStack
  <1> HIDE DEF n
  <1>5. /\ short \in Seq(Conditional) /\ Len(short) = n
        /\ \A i \in 1 .. n : short[i] = conditionals[i]
    <2>1. \A i \in 1 .. n : conditionals[i] \in Conditional
      BY <1>1, <1>3, ElementOfSeq
    <2>2. /\ short \in Seq(Conditional)
          /\ Len(short) = IF 1 <= n THEN n - 1 + 1 ELSE 0
          /\ \A i \in 1 .. n - 1 + 1 : short[i] = conditionals[1 + i - 1]
      BY <1>3, <2>1, SubSeqProperties
    <2> HIDE DEF short
    <2> QED
      BY <1>3, <2>2
  <1>6. /\ front \in Seq(Nested!Branch) /\ Len(front) = n
        /\ \A i \in 1 .. n : front[i] = old[i]
    <2> HIDE DEF old
    <2>1. \A i \in 1 .. n : old[i] \in Nested!Branch
      BY <1>3, <1>4, ElementOfSeq
    <2>2. /\ front \in Seq(Nested!Branch)
          /\ Len(front) = IF 1 <= n THEN n - 1 + 1 ELSE 0
          /\ \A i \in 1 .. n - 1 + 1 : front[i] = old[1 + i - 1]
      BY <1>3, <2>1, SubSeqProperties
    <2> HIDE DEF front
    <2> QED
      BY <1>3, <2>2
  <1> HIDE DEF short, front
  <1>7. /\ BranchesOf(short) \in Seq(Nested!Branch)
        /\ Len(BranchesOf(short)) = n
        /\ \A i \in 1 .. n : BranchesOf(short)[i] = BranchOf(short[i])
    BY <1>5, BranchesOfStack
  <1> HIDE DEF old
  <1>8. \A i \in 1 .. n : BranchesOf(short)[i] = front[i]
    BY <1>3, <1>4, <1>5, <1>6, <1>7
  <1>9. BranchesOf(short) = front
    BY <1>6, <1>7, <1>8, SeqEqual
  <1>10. OpenBranches = old /\ OpenBranches' = BranchesOf(conditionals')
    BY <1>1 DEF OpenBranches, old
  <1>11. conditionals' = short
    BY <1>1 DEF Front, short, n
  <1>12. Front(old) = front
    BY <1>3, <1>4 DEF Front, front
  <1>13. OpenBranches' = Front(OpenBranches)
    BY <1>9, <1>10, <1>11, <1>12
  <1>14. OpenBranches # <<>>
    BY <1>3, <1>4, <1>10
  <1>15. Nested!Close
    BY <1>2, <1>13, <1>14 DEF Nested!Close, Nested!Front, Front
  <1> QED
    BY <1>15 DEF Nested!Next

(* The lines that come again leave every line's fate alone. *)
LEMMA DefineRefines ==
    ASSUME IInv, ~failed, ~failed', NEW v \in Values, Define(v)
    PROVE  Nested!Next
  <1> DEFINE started == Started("code", "plain", 0)
             n == Len(lines)
  <1>1. TypeOK /\ failed' = failed /\ conditionals' = conditionals
    BY DEF IInv, TypeOK, Define, DefineInto, DoAgain
  <1>2. /\ started \in Seq(Line) /\ n \in Nat /\ Len(started) = n + 1
        /\ DOMAIN started = 1 .. n + 1 /\ DOMAIN lines = 1 .. n
    BY <1>1, AppendLine
  <1>3. \A i \in DOMAIN lines : started[i] = lines[i]
    BY <1>1, AppendLine
  <1>4. FateOf(started[n + 1]) = [kind |-> "code", assembled |-> ~SkipState]
    <2>1. started[n + 1] = NewLine("code", "plain", 0)
      BY <1>1, AppendLine
    <2> QED
      BY <2>1 DEF FateOf, NewLine
  <1>5. \/ lines' = started
        \/ lines' = [i \in DOMAIN started |-> Rerun(started[i], v)]
    BY DEF Define, DefineInto, Started
  <1> HIDE DEF started
  <1>6. \A i \in 1 .. n + 1 : started[i] \in Line
    BY <1>2, ElementOfSeq
  <1>7. /\ lines' \in Seq(Line) /\ Len(lines') = n + 1
        /\ \A i \in 1 .. n + 1 : FateOf(lines'[i]) = FateOf(started[i])
    <2>1. CASE lines' = started
      BY <1>2, <2>1
    <2>2. CASE lines' = [i \in DOMAIN started |-> Rerun(started[i], v)]
      <3>1. \A i \in 1 .. n + 1 : lines'[i] = Rerun(started[i], v)
        BY <1>2, <2>2
      <3>2. \A i \in 1 .. n + 1 : /\ lines'[i] \in Line
                                  /\ FateOf(lines'[i]) = FateOf(started[i])
        BY <1>6, <3>1, RerunEffect DEF FateOf
      <3>3. DOMAIN lines' = 1 .. n + 1
        BY <1>2, <2>2
      <3> QED
        BY <1>2, <2>2, <3>2, <3>3
    <2> QED
      BY <1>5, <2>1, <2>2
  <1>8. \A i \in 1 .. n : FateOf(lines'[i]) = FateOf(lines[i])
    BY <1>2, <1>3, <1>7
  <1>9. FateOf(lines'[n + 1]) = [kind |-> "code", assembled |-> ~SkipState]
    BY <1>2, <1>4, <1>7
  <1>10. Nested!Pass("code")
    BY <1>1, <1>7, <1>8, <1>9, PassRefines
  <1>11. OpenBranches' = OpenBranches
    BY <1>1 DEF OpenBranches
  <1>12. Nested!Code
    BY <1>10, <1>11 DEF Nested!Code
  <1> QED
    BY <1>12 DEF Nested!Next

(* A line that leaves the clauses alone. *)
LEMMA CodeRefines ==
    ASSUME IInv, ~failed, failed' = failed, conditionals' = conditionals,
           NEW operand \in {"plain", "symbol"}, NEW v \in Values,
           lines' = Started("code", operand, v)
    PROVE  Nested!Next
  <1>1. Nested!Pass("code")
    BY StartedRefines
  <1>2. OpenBranches' = OpenBranches
    BY DEF OpenBranches
  <1>3. Nested!Code
    BY <1>1, <1>2 DEF Nested!Code
  <1> QED
    BY <1>3 DEF Nested!Next

LEMMA StepRefines == IInv /\ [Next]_vars => [Nested!Next]_Nested!vars
  <1> SUFFICES ASSUME IInv, [Next]_vars
               PROVE  Nested!Next \/ UNCHANGED Nested!vars
    OBVIOUS
  <1>1. CASE failed'
    BY <1>1, FailedRefines DEF Nested!Next
  <1>2. CASE ~failed'
    <2>1. ~failed /\ failed' = failed /\ TypeOK
      BY <1>2, FailureStays, StepKeeps DEF IInv, TypeOK
    <2>2. CASE \E v \in Values : Do(v)
      BY <2>1, <2>2, DoRefines DEF Do, StartLine, Started
    <2>3. CASE DoInvalid
      BY <1>2, <2>3 DEF DoInvalid
    <2>4. CASE DoSymbol
      BY <2>1, <2>4, SymbolValueIsValue, DoRefines
         DEF DoSymbol, StartLine, Started
    <2>5. CASE \E kind \in {"else", "fin"} : WithoutDo(kind)
      BY <2>1, <2>5, OutsideRefines
    <2>6. CASE Else
      BY <1>2, <2>1, <2>6, ElseRefines
    <2>7. CASE Fin
      BY <2>1, <2>7, FinRefines
    <2>8. CASE Code \/ MacroCall
      BY <2>1, <2>8, CodeRefines DEF Code, MacroCall, StartLine, Started
    <2>9. CASE Reference
      <3>1. conditionals' = conditionals /\ SymbolValue \in Values
        BY <2>1, <2>9, SymbolValueIsValue DEF Reference
      <3>2. \/ lines' = Started("code", "plain", 0)
            \/ lines' = Started("code", "symbol", SymbolValue)
        BY <2>9 DEF Reference, StartLine, Started
      <3> QED
        BY <2>1, <3>1, <3>2, CodeRefines
    <2>10. CASE \E v \in Values : Define(v)
      BY <1>2, <2>1, <2>10, DefineRefines
    <2>11. CASE UnknownOperator
      BY <1>2, <2>11 DEF UnknownOperator
    <2>12. CASE EndOfSource \/ UNCHANGED vars
      <3>1. UNCHANGED <<conditionals, lines, failed>>
        BY <2>1, <2>12 DEF EndOfSource, vars
      <3> QED
        BY <3>1 DEF Nested!vars, OpenBranches, Fates
    <2> QED
      BY <2>2, <2>3, <2>4, <2>5, <2>6, <2>7, <2>8, <2>9, <2>10, <2>11, <2>12
         DEF Next
  <1> QED
    BY <1>1, <1>2

-----------------------------------------------------------------------------
(***************************************************************************)
(* The theorems.                                                           *)
(***************************************************************************)
(* The strengthened invariant holds in every state of an assembly. *)
THEOREM Invariance == Spec => []IInv
  BY InitEstablishes, StepKeeps, PTL DEF Spec

(* Every variable keeps its type. *)
THEOREM TypeCorrectness == Spec => []TypeOK
  <1>1. IInv => TypeOK
    BY DEF IInv
  <1> QED
    BY <1>1, Invariance, PTL

(* The innermost clause's flags, which are all that prepareLineInfo and    *)
(* shouldSkipSourceLines read, speak for the whole stack, however deep.    *)
THEOREM InheritanceIsExact == Spec => []SkipsAreInherited
  <1>1. IInv => SkipsAreInherited
    BY DEF IInv
  <1> QED
    BY <1>1, Invariance, PTL

(* A line that waited for a symbol has its value at the end, whichever     *)
(* clauses were open when the symbol was defined.                          *)
THEOREM WaitingLinesAreResolved == Spec => []LinesHaveTheSymbolsValue
  <1>1. IInv => LinesHaveTheSymbolsValue
    <2> SUFFICES ASSUME IInv, phase = "done", ~failed,
                        NEW i \in DOMAIN lines, lines[i].kind = "code",
                        lines[i].operand = "symbol"
                 PROVE  lines[i].value = symbol
      BY DEF LinesHaveTheSymbolsValue
    <2>1. symbol # Absent /\ symbol # Referenced
      BY DEF IInv, ReferencesOK, DoneOK
    <2>2. IsDefined
      BY <2>1 DEF IInv, TypeOK, IsDefined
    <2> QED
      BY <2>2 DEF IInv, ReferencesOK
  <1> QED
    BY <1>1, Invariance, PTL

(* The flags of Conditional implement nested branches: without an error a  *)
(* line is assembled exactly when every DO around it selected its branch.  *)
THEOREM ImplementsNestedBranches == Spec => RefinesNestedBranches
  BY InitRefines, StepRefines, Invariance, PTL
     DEF RefinesNestedBranches, Nested!Spec, Spec
=============================================================================
