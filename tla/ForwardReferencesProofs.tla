---------------------- MODULE ForwardReferencesProofs ----------------------
(***************************************************************************)
(* Proofs about ForwardReferences, for every set of names and statements:  *)
(* type correctness, and that the assembler never writes an output file    *)
(* while a line's operand names an undefined symbol; that an update, which *)
(* frees references while it enumerates them, neither skips one nor        *)
(* follows a freed one, however the updates nest; that no line is left on  *)
(* the list of a symbol that has its final value; and that the machine     *)
(* code of consecutive lines is contiguous.                                *)
(***************************************************************************)
EXTENDS ForwardReferences, SequenceTheorems, TLAPS

USE NamesAssumption, StatementsAssumption, BoundsAssumption

Expr == [value : Nat, zp : BOOLEAN, fwd : BOOLEAN]

Lists(n) == [Keys -> Seq(1 .. n)]

-----------------------------------------------------------------------------
(***************************************************************************)
(* The operators the actions are built from.                               *)
(***************************************************************************)
LEMMA KeyType ==
    ASSUME TypeOK, NEW name \in Names, IsValidName(name)
    PROVE  KeyOf(name, globalLabel) \in Keys
  BY DEF TypeOK, IsValidName, KeyOf, Keys, Names

LEMMA KeysLookedUpType ==
    ASSUME TypeOK, NEW operand \in Operand
    PROVE  KeysLookedUp(operand) \subseteq Keys
  <1> SUFFICES ASSUME NEW n \in NamesLookedUp(operand)
               PROVE  KeyOf(n, globalLabel) \in Keys
    BY DEF KeysLookedUp
  <1>1. n \in Names /\ IsValidName(n)
    BY DEF NamesLookedUp, OperandNames, Operand
  <1> QED
    BY <1>1, KeyType

LEMMA TermType ==
    ASSUME TypeOK, NEW name \in Names \cup {NoName}, IsValidName(name)
    PROVE  Term(name) \in Expr
  <1>1. CASE name = NoName
    BY <1>1 DEF Term, Expr
  <1>2. CASE name # NoName
    <2>1. symbols[KeyOf(name, globalLabel)] \in Symbol
      BY <1>2, KeyType DEF TypeOK
    <2> QED
      BY <1>2, <2>1 DEF Term, Expr, Symbol
  <1> QED
    BY <1>1, <1>2

LEMMA EvaluateType ==
    ASSUME TypeOK, NEW operand \in Operand, IsEvaluated(operand)
    PROVE  Evaluate(operand) \in Expr
  <1>1. /\ operand.first \in Names \cup {NoName}
        /\ operand.second \in Names \cup {NoName}
        /\ operand.const \in Nat
    BY DEF Operand
  <1>2. IsValidName(operand.first) /\ IsValidName(operand.second)
    BY <1>1 DEF IsEvaluated, OperandNames, IsValidName, Names
  <1>3. Term(operand.first) \in Expr /\ Term(operand.second) \in Expr
    BY <1>1, <1>2, TermType
  <1>4. (IF operand.here THEN pc ELSE 0) \in Nat
    BY DEF TypeOK, Word
  <1> QED
    BY <1>1, <1>3, <1>4 DEF Evaluate, Expr

LEMMA CodeType ==
    ASSUME NEW op \in Instructions, NEW expr \in Expr,
           NEW address \in Word
    PROVE  /\ CodeSize(op, expr) \in {0, 2, 3}
           /\ CodeBytes(op, address, expr) \in Word
  <1>1. expr.value \in Nat /\ expr.zp \in BOOLEAN
    BY DEF Expr
  <1>2. BranchOffset(address, expr.value) \in Int
    BY <1>1 DEF BranchOffset, Word
  <1>3. \A n \in Int : n % 256 \in Word /\ n % 65536 \in Word
    BY DEF Word
  <1> QED
    BY <1>1, <1>2, <1>3 DEF CodeSize, CodeBytes

LEMMA LineReferenceAddType ==
    ASSUME NEW n \in Nat, NEW i \in 1 .. n, NEW keys, NEW rs \in Lists(n)
    PROVE  LineReferenceAdd(i, keys, rs) \in Lists(n)
  <1>1. ASSUME NEW k \in Keys
        PROVE  <<i>> \o rs[k] \in Seq(1 .. n)
    <2>1. rs[k] \in Seq(1 .. n) /\ <<i>> \in Seq(1 .. n)
      BY DEF Lists
    <2> QED
      BY <2>1, ConcatProperties
  <1> QED
    BY <1>1 DEF LineReferenceAdd, Lists

LEMMA LineReferenceRemoveType ==
    ASSUME NEW n \in Nat, NEW i, NEW list \in Seq(1 .. n)
    PROVE  LineReferenceRemove(i, list) \in Seq(1 .. n)
  <1>1. CASE i \in Range(list)
    <2> DEFINE j == CHOOSE m \in DOMAIN list : list[m] = i
    <2>1. j \in 1 .. Len(list)
      <3>1. \E m \in DOMAIN list : list[m] = i
        BY <1>1 DEF Range
      <3> QED
        BY <3>1
    <2> HIDE DEF j
    <2>2. /\ \A m \in 1 .. j - 1 : list[m] \in 1 .. n
          /\ \A m \in j + 1 .. Len(list) : list[m] \in 1 .. n
      BY <2>1
    <2>3. SubSeq(list, 1, j - 1) \in Seq(1 .. n)
      BY <2>1, <2>2, SubSeqProperties
    <2>4. SubSeq(list, j + 1, Len(list)) \in Seq(1 .. n)
      BY <2>1, <2>2, SubSeqProperties
    <2>5. RemoveAt(list, j) \in Seq(1 .. n)
      BY <2>3, <2>4, ConcatProperties DEF RemoveAt
    <2> QED
      BY <1>1, <2>5 DEF LineReferenceRemove, j
  <1>2. CASE i \notin Range(list)
    BY <1>2 DEF LineReferenceRemove
  <1> QED
    BY <1>1, <1>2

(* A line that looks up a key which stays undefined is linked to it, and   *)
(* no line is unlinked.                                                    *)
LEMMA LineReferenceAddLinks ==
    ASSUME TypeOK, NEW n \in Nat, NEW i \in 1 .. n, NEW keys,
           NEW rs \in Lists(n), NEW k \in Keys, ~IsDefined(k)
    PROVE  /\ Range(rs[k]) \subseteq Range(LineReferenceAdd(i, keys, rs)[k])
           /\ k \in keys => i \in Range(LineReferenceAdd(i, keys, rs)[k])
  <1> DEFINE new == LineReferenceAdd(i, keys, rs)[k]
  <1>1. new = IF k \in keys /\ i \notin Range(rs[k])
              THEN <<i>> \o rs[k] ELSE rs[k]
    BY DEF LineReferenceAdd
  <1>2. rs[k] \in Seq(1 .. n) /\ <<i>> \in Seq(1 .. n)
    BY DEF Lists
  <1>3. /\ Len(<<i>> \o rs[k]) = 1 + Len(rs[k])
        /\ (<<i>> \o rs[k])[1] = i
        /\ \A j \in 1 .. Len(rs[k]) : (<<i>> \o rs[k])[j + 1] = rs[k][j]
        /\ <<i>> \o rs[k] \in Seq(1 .. n)
    BY <1>2, ConcatProperties
  <1>4. /\ Range(rs[k]) \subseteq Range(<<i>> \o rs[k])
        /\ i \in Range(<<i>> \o rs[k])
    <2> DEFINE list == <<i>> \o rs[k]
    <2>1. DOMAIN list = 1 .. Len(rs[k]) + 1
      BY <1>3
    <2>2. DOMAIN rs[k] = 1 .. Len(rs[k]) /\ Len(rs[k]) \in Nat
      BY <1>2
    <2>3. 1 \in DOMAIN list
      BY <2>1, <2>2
    <2> HIDE DEF list
    <2>4. i \in Range(list)
      BY <1>3, <2>3 DEF Range, list
    <2>5. ASSUME NEW e \in Range(rs[k])
          PROVE  e \in Range(list)
      <3>1. PICK j \in DOMAIN rs[k] : rs[k][j] = e
        BY DEF Range
      <3>2. j + 1 \in DOMAIN list /\ list[j + 1] = e
        BY <1>3, <2>1, <2>2, <3>1 DEF list
      <3> QED
        BY <3>2 DEF Range
    <2> QED
      BY <2>4, <2>5 DEF list
  <1> HIDE DEF new
  <1>5. CASE k \in keys /\ i \notin Range(rs[k])
    BY <1>1, <1>4, <1>5 DEF new
  <1>6. CASE ~(k \in keys /\ i \notin Range(rs[k]))
    BY <1>1, <1>6 DEF new
  <1> QED
    BY <1>5, <1>6

-----------------------------------------------------------------------------
(***************************************************************************)
(* The strengthening that is inductive.                                    *)
(***************************************************************************)
(* Only symbols that are defined are being updated: the references that an *)
(* update unlinks are to symbols no invariant needs them for.              *)
CallsAreDefined == \A j \in DOMAIN calls : IsDefined(calls[j])

(* Updates happen inside a line, and the output is written at the end.     *)
PhaseOK ==
    /\ calls # <<>> => phase \in {"assembled", "labelled"}
    /\ phase \in {"parsed", "assembled", "labelled"} => lines # <<>>
    /\ written => phase = "done"

IInv ==
    /\ TypeOK
    /\ EveryUndefinedReferenceIsRecorded
    /\ WrittenImpliesDefined
    /\ CallsAreDefined
    /\ PhaseOK

(* What assembling a line changes: the types are kept, no definition is    *)
(* lost, every line keeps its links, and the calls are of defined symbols. *)
Assembled(i) ==
    /\ lines' \in Seq(Line)
    /\ Len(lines') = Len(lines)
    /\ symbols' \in [Keys -> Symbol]
    /\ refs' \in Lists(Len(lines))
    /\ cursor' \in Lists(Len(lines))
    /\ calls' \in Seq(Keys)
    /\ failed' \in BOOLEAN
    /\ \A k \in Keys : IsDefined(k) => symbols'[k].line # 0
    /\ \A j \in DOMAIN calls' : symbols'[calls'[j]].line # 0
    /\ \A j \in DOMAIN lines : j # i => lines'[j] = lines[j]
    /\ \A k \in lines'[i].keys :
           symbols'[k].line = 0 => i \in Range(refs'[k])
    /\ \A k \in Keys : ~IsDefined(k) => Range(refs[k]) \subseteq Range(refs'[k])

LEMMA LookedType ==
    ASSUME TypeOK, NEW i \in 1 .. Len(lines)
    PROVE  LET line == Looked(lines[i])
           IN  /\ line \in Line
               /\ line.keys = KeysLookedUp(lines[i].stmt.operand)
               /\ line.stmt = lines[i].stmt
               /\ line.address = lines[i].address
               /\ lines[i].stmt \in Statement
  <1>1. lines[i] \in Line
    BY ElementOfSeq DEF TypeOK
  <1>2. lines[i].stmt \in Statement
    BY <1>1 DEF Line
  <1>3. KeysLookedUp(lines[i].stmt.operand) \subseteq Keys
    BY <1>2, KeysLookedUpType DEF Statement
  <1> QED
    BY <1>1, <1>2, <1>3 DEF Looked, Line, TypeOK

LEMMA AttemptToAddSymbolType ==
    ASSUME TypeOK, CallsAreDefined, NEW i \in 1 .. Len(lines),
           NEW name \in Names, NEW expr \in Expr,
           NEW rs \in Lists(Len(lines)), NEW cs \in Lists(Len(lines)),
           AttemptToAddSymbol(i, name, expr, rs, cs)
    PROVE  /\ symbols' \in [Keys -> Symbol]
           /\ cursor' \in Lists(Len(lines))
           /\ calls' \in Seq(Keys)
           /\ failed' \in BOOLEAN
           /\ \A k \in Keys : IsDefined(k) => symbols'[k].line # 0
           /\ \A j \in DOMAIN calls' : symbols'[calls'[j]].line # 0
  <1> DEFINE k0 == KeyOf(name, globalLabel)
             new == [line |-> i, value |-> expr.value,
                     zp |-> expr.zp, fwd |-> expr.fwd]
  <1>1. CASE CanDefine(i, name)
    <2>1. k0 \in Keys
      BY <1>1, KeyType DEF CanDefine
    <2>2. new \in Symbol /\ new.line # 0
      BY DEF TypeOK, Expr, Symbol
    <2>3. symbols' = [symbols EXCEPT ![k0] = new]
      BY <1>1 DEF AttemptToAddSymbol
    <2> HIDE DEF new
    <2>4. symbols' \in [Keys -> Symbol]
      BY <2>1, <2>2, <2>3 DEF TypeOK
    <2>5. \A k \in Keys : IsDefined(k) \/ k = k0 => symbols'[k].line # 0
      BY <2>1, <2>2, <2>3 DEF TypeOK, IsDefined
    <2> HIDE DEF k0
    <2>6. CASE expr.fwd
      <3>1. cursor' = cs /\ calls' = calls /\ failed' = failed
        BY <1>1, <2>6 DEF AttemptToAddSymbol
      <3> QED
        BY <2>4, <2>5, <3>1 DEF TypeOK, CallsAreDefined
    <2>7. CASE ~expr.fwd
      <3>1. /\ calls' = Append(calls, k0)
            /\ cursor' = [cs EXCEPT ![k0] = rs[k0]]
            /\ failed' = failed
        BY <1>1, <2>7 DEF AttemptToAddSymbol, k0
      <3>2. cursor' \in Lists(Len(lines))
        BY <2>1, <3>1 DEF Lists
      <3>3. calls' \in Seq(Keys)
        BY <2>1, <3>1 DEF TypeOK
      <3>4. \A j \in DOMAIN calls' : symbols'[calls'[j]].line # 0
        <4> SUFFICES ASSUME NEW j \in DOMAIN calls'
                     PROVE  symbols'[calls'[j]].line # 0
          OBVIOUS
        <4>1. /\ calls' \in Seq(Keys)
              /\ Len(calls') = Len(calls) + 1
              /\ \A m \in 1 .. Len(calls) : calls'[m] = calls[m]
              /\ calls'[Len(calls) + 1] = k0
          BY <2>1, <3>1, AppendProperties DEF TypeOK
        <4>2. /\ DOMAIN calls' = 1 .. Len(calls) + 1
              /\ DOMAIN calls = 1 .. Len(calls)
              /\ Len(calls) \in Nat
          BY <4>1 DEF TypeOK
        <4>3. j = Len(calls) + 1 \/ j \in 1 .. Len(calls)
          BY <4>2
        <4>4. calls'[j] = k0 \/ (j \in DOMAIN calls /\ calls'[j] = calls[j])
          BY <4>1, <4>2, <4>3
        <4> QED
          BY <2>1, <2>5, <4>4 DEF TypeOK, CallsAreDefined
      <3> QED
        BY <2>4, <2>5, <3>1, <3>2, <3>3, <3>4 DEF TypeOK
    <2> QED
      BY <2>6, <2>7
  <1>2. CASE ~CanDefine(i, name)
    BY <1>2 DEF AttemptToAddSymbol, TypeOK, CallsAreDefined, IsDefined
  <1> QED
    BY <1>1, <1>2

(* The line that is assembled, and the links its evaluation makes. *)
LEMMA AssembledLine ==
    ASSUME TypeOK, NEW i \in 1 .. Len(lines), NEW new \in Line,
           lines' = [lines EXCEPT ![i] = new]
    PROVE  /\ lines' \in Seq(Line)
           /\ Len(lines') = Len(lines)
           /\ lines'[i] = new
           /\ \A j \in DOMAIN lines : j # i => lines'[j] = lines[j]
  BY ExceptSeq DEF TypeOK

LEMMA LookedLinks ==
    ASSUME TypeOK, NEW i \in 1 .. Len(lines), NEW rs \in Lists(Len(lines)),
           \A k \in Keys : ~IsDefined(k) => rs[k] = refs[k],
           NEW keys \in SUBSET Keys,
           refs' = LineReferenceAdd(i, keys, rs),
           \A k \in Keys : IsDefined(k) => symbols'[k].line # 0
    PROVE  /\ refs' \in Lists(Len(lines))
           /\ \A k \in keys : symbols'[k].line = 0 => i \in Range(refs'[k])
           /\ \A k \in Keys :
                 ~IsDefined(k) => Range(refs[k]) \subseteq Range(refs'[k])
  <1>1. Len(lines) \in Nat
    BY DEF TypeOK
  <1>2. refs' \in Lists(Len(lines))
    BY <1>1, LineReferenceAddType
  <1>3. ASSUME NEW k \in Keys, ~IsDefined(k)
        PROVE  /\ Range(refs[k]) \subseteq Range(refs'[k])
               /\ k \in keys => i \in Range(refs'[k])
    BY <1>1, <1>3, LineReferenceAddLinks
  <1> QED
    BY <1>2, <1>3

LEMMA HandleEQUAssembles ==
    ASSUME TypeOK, CallsAreDefined, NEW i \in 1 .. Len(lines),
           NEW rs \in Lists(Len(lines)), NEW cs \in Lists(Len(lines)),
           \A k \in Keys : ~IsDefined(k) => rs[k] = refs[k],
           HandleEQU(i, rs, cs)
    PROVE  Assembled(i)
  <1> DEFINE line    == Looked(lines[i])
             operand == line.stmt.operand
             label   == line.stmt.label
             added   == LineReferenceAdd(i, line.keys, rs)
  <1>1. /\ line \in Line
        /\ line.stmt \in Statement
        /\ line.keys \subseteq Keys
    BY LookedType DEF Line
  <1>2. operand \in Operand /\ label \in Names \cup {NoName}
    BY <1>1 DEF Statement
  <1>3. refs' = added
    BY DEF HandleEQU
  <1>4. added \in Lists(Len(lines))
    BY LineReferenceAddType DEF TypeOK
  <1>5. CASE IsEvaluated(operand) /\ label \notin LocalNames \cup {NoName}
    <2> DEFINE new == [line EXCEPT !.wasEqu = TRUE]
    <2>1. lines' = [lines EXCEPT ![i] = new]
      BY <1>5 DEF HandleEQU
    <2>2. new \in Line /\ new.keys = line.keys
      BY <1>1 DEF Line
    <2>3. AttemptToAddSymbol(i, label, Evaluate(operand), added, cs)
      BY <1>5 DEF HandleEQU
    <2>4. Evaluate(operand) \in Expr
      BY <1>2, <1>5, EvaluateType
    <2> HIDE DEF new, line
    <2>5. /\ symbols' \in [Keys -> Symbol]
          /\ cursor' \in Lists(Len(lines))
          /\ calls' \in Seq(Keys)
          /\ failed' \in BOOLEAN
          /\ \A k \in Keys : IsDefined(k) => symbols'[k].line # 0
          /\ \A j \in DOMAIN calls' : symbols'[calls'[j]].line # 0
      BY <1>2, <1>4, <1>5, <2>3, <2>4, AttemptToAddSymbolType
    <2>6. /\ lines' \in Seq(Line)
          /\ Len(lines') = Len(lines)
          /\ lines'[i].keys = line.keys
          /\ \A j \in DOMAIN lines : j # i => lines'[j] = lines[j]
      BY <2>1, <2>2, AssembledLine
    <2>7. /\ refs' \in Lists(Len(lines))
          /\ \A k \in line.keys : symbols'[k].line = 0 => i \in Range(refs'[k])
          /\ \A k \in Keys :
                ~IsDefined(k) => Range(refs[k]) \subseteq Range(refs'[k])
      BY <1>1, <1>3, <2>5, LookedLinks
    <2> QED
      BY <2>5, <2>6, <2>7 DEF Assembled
  <1>6. CASE ~(IsEvaluated(operand) /\ label \notin LocalNames \cup {NoName})
    <2>1. /\ lines' = [lines EXCEPT ![i] = line]
          /\ failed' = TRUE /\ cursor' = cs
          /\ symbols' = symbols /\ calls' = calls
      BY <1>6 DEF HandleEQU
    <2> HIDE DEF line
    <2>2. \A k \in Keys : IsDefined(k) => symbols'[k].line # 0
      BY <2>1 DEF IsDefined
    <2>3. \A j \in DOMAIN calls' : symbols'[calls'[j]].line # 0
      BY <2>1 DEF CallsAreDefined, IsDefined
    <2>4. /\ lines' \in Seq(Line)
          /\ Len(lines') = Len(lines)
          /\ lines'[i].keys = line.keys
          /\ \A j \in DOMAIN lines : j # i => lines'[j] = lines[j]
      BY <1>1, <2>1, AssembledLine
    <2>5. /\ refs' \in Lists(Len(lines))
          /\ \A k \in line.keys : symbols'[k].line = 0 => i \in Range(refs'[k])
          /\ \A k \in Keys :
                ~IsDefined(k) => Range(refs[k]) \subseteq Range(refs'[k])
      BY <1>1, <1>3, <2>2, LookedLinks
    <2>6. symbols' \in [Keys -> Symbol] /\ calls' \in Seq(Keys)
      BY <2>1 DEF TypeOK
    <2> QED
      BY <2>1, <2>2, <2>3, <2>4, <2>5, <2>6 DEF Assembled
  <1> QED
    BY <1>5, <1>6

LEMMA HandleInstructionAssembles ==
    ASSUME TypeOK, CallsAreDefined, NEW i \in 1 .. Len(lines),
           NEW rs \in Lists(Len(lines)), NEW cs \in Lists(Len(lines)),
           \A k \in Keys : ~IsDefined(k) => rs[k] = refs[k],
           HandleInstruction(i, rs, cs)
    PROVE  Assembled(i)
  <1> DEFINE line    == Looked(lines[i])
             operand == line.stmt.operand
             op      == line.stmt.op
             expr    == Evaluate(operand)
  <1>1. /\ line \in Line
        /\ line.stmt \in Statement
        /\ line.keys \subseteq Keys
    BY LookedType DEF Line
  <1>2. operand \in Operand /\ line.address \in Word
    BY <1>1 DEF Statement, Line
  <1>3. /\ refs' = LineReferenceAdd(i, line.keys, rs)
        /\ cursor' = cs /\ symbols' = symbols /\ calls' = calls
        /\ op \in Instructions
    BY DEF HandleInstruction
  <1>4. /\ \A k \in Keys : IsDefined(k) => symbols'[k].line # 0
        /\ \A j \in DOMAIN calls' : symbols'[calls'[j]].line # 0
    BY <1>3 DEF CallsAreDefined, IsDefined
  <1>5. \E new \in Line : /\ lines' = [lines EXCEPT ![i] = new]
                          /\ new.keys = line.keys
    <2>1. CASE lines' = [lines EXCEPT ![i] = line]
      BY <1>1, <2>1
    <2>2. CASE lines' # [lines EXCEPT ![i] = line]
      <3> DEFINE size == CodeSize(op, expr)
                 code == CodeBytes(op, line.address, expr)
                 new  == [line EXCEPT !.size = size, !.code = code]
      <3>1. IsEvaluated(operand) /\ lines' = [lines EXCEPT ![i] = new]
        BY <2>2 DEF HandleInstruction
      <3>2. expr \in Expr
        BY <1>2, <3>1, EvaluateType
      <3>3. size \in {0, 2, 3} /\ code \in Word
        BY <1>2, <1>3, <3>2, CodeType
      <3> HIDE DEF size, code, line
      <3>4. new \in Line /\ new.keys = line.keys
        BY <1>1, <3>3 DEF Line
      <3> QED
        BY <3>1, <3>4
    <2> QED
      BY <2>1, <2>2
  <1>6. failed' \in BOOLEAN
    BY DEF HandleInstruction, TypeOK
  <1> HIDE DEF line
  <1>7. /\ lines' \in Seq(Line)
        /\ Len(lines') = Len(lines)
        /\ lines'[i].keys = line.keys
        /\ \A j \in DOMAIN lines : j # i => lines'[j] = lines[j]
    BY <1>5, AssembledLine
  <1>8. /\ refs' \in Lists(Len(lines))
        /\ \A k \in line.keys : symbols'[k].line = 0 => i \in Range(refs'[k])
        /\ \A k \in Keys :
              ~IsDefined(k) => Range(refs[k]) \subseteq Range(refs'[k])
    BY <1>1, <1>3, <1>4, LookedLinks
  <1>9. symbols' \in [Keys -> Symbol] /\ calls' \in Seq(Keys)
    BY <1>3 DEF TypeOK
  <1> QED
    BY <1>3, <1>4, <1>6, <1>7, <1>8, <1>9 DEF Assembled

(* Assembling a line, for the first time or again; a line that has no      *)
(* operator looked nothing up, so it has no links to lose.                 *)
LEMMA FirstPassAssembles ==
    ASSUME IInv, NEW i \in 1 .. Len(lines),
           NEW rs \in Lists(Len(lines)), NEW cs \in Lists(Len(lines)),
           \A k \in Keys : ~IsDefined(k) => rs[k] = refs[k],
           FirstPassAssembleLine(i, rs, cs)
    PROVE  Assembled(i)
  <1>1. CASE AssembleNothing(i, rs, cs)
    <2>1. /\ lines' = lines /\ symbols' = symbols /\ calls' = calls
          /\ refs' = rs /\ cursor' = cs /\ failed' = failed
      BY <1>1 DEF AssembleNothing
    <2>2. lines[i] \in Line /\ i \in DOMAIN lines
      BY ElementOfSeq DEF IInv, TypeOK
    <2>3. \A k \in lines[i].keys : ~IsDefined(k) => i \in Range(refs[k])
      BY <2>2 DEF IInv, EveryUndefinedReferenceIsRecorded
    <2>4. \A k \in lines[i].keys : k \in Keys
      BY <2>2 DEF Line
    <2>5. \A k \in Keys : ~IsDefined(k) => Range(refs[k]) \subseteq Range(refs'[k])
      BY <2>1
    <2> QED
      BY <2>1, <2>3, <2>4, <2>5
         DEF Assembled, IInv, TypeOK, CallsAreDefined, IsDefined
  <1>2. CASE HandleEQU(i, rs, cs)
    BY <1>2, HandleEQUAssembles DEF IInv
  <1>3. CASE HandleInstruction(i, rs, cs)
    BY <1>3, HandleInstructionAssembles DEF IInv
  <1> QED
    BY <1>1, <1>2, <1>3 DEF FirstPassAssembleLine

(* The parts of the invariant that speak of lines, symbols and references. *)
LEMMA AssembledKeepsInvariant ==
    ASSUME IInv, NEW i \in 1 .. Len(lines), Assembled(i),
           UNCHANGED <<globalLabel, pc, written>>,
           phase' \in {"assembled", "labelled"}, ~written
    PROVE  IInv'
  <1>1. TypeOK'
    BY DEF IInv, TypeOK, Assembled, Lists
  <1>2. DOMAIN lines' = DOMAIN lines /\ i \in DOMAIN lines
    BY DEF IInv, TypeOK, Assembled
  <1>3. EveryUndefinedReferenceIsRecorded'
    <2> SUFFICES ASSUME NEW j \in DOMAIN lines', NEW k \in lines'[j].keys,
                        symbols'[k].line = 0
                 PROVE  j \in Range(refs'[k])
      BY DEF EveryUndefinedReferenceIsRecorded, IsDefined
    <2>1. CASE j = i
      BY <2>1 DEF Assembled
    <2>2. CASE j # i
      <3>1. j \in DOMAIN lines /\ k \in lines[j].keys
        BY <1>2, <2>2 DEF Assembled
      <3>2. lines[j] \in Line
        BY <3>1, ElementOfSeq DEF IInv, TypeOK
      <3>3. k \in Keys
        BY <3>1, <3>2 DEF Line
      <3>4. ~IsDefined(k)
        BY <3>3 DEF Assembled
      <3>5. j \in Range(refs[k])
        BY <3>1, <3>4 DEF IInv, EveryUndefinedReferenceIsRecorded
      <3> QED
        BY <3>3, <3>4, <3>5 DEF Assembled
    <2> QED
      BY <2>1, <2>2
  <1>4. WrittenImpliesDefined'
    BY DEF WrittenImpliesDefined
  <1>5. CallsAreDefined'
    BY DEF CallsAreDefined, IsDefined, Assembled
  <1>6. PhaseOK'
    BY <1>2 DEF PhaseOK, IInv, TypeOK, Assembled
  <1> QED
    BY <1>1, <1>3, <1>4, <1>5, <1>6 DEF IInv

-----------------------------------------------------------------------------
(***************************************************************************)
(* Each action keeps the invariant.                                        *)
(***************************************************************************)
LEMMA InitEstablishes == Init => IInv
  <1> SUFFICES ASSUME Init PROVE IInv
    OBVIOUS
  <1>1. TypeOK
    <2>1. UndefinedSymbol \in Symbol
      BY DEF UndefinedSymbol, Symbol
    <2>2. lines \in Seq(Line) /\ Len(lines) <= MaxLines
      BY DEF Init
    <2>3. symbols \in [Keys -> Symbol]
      BY <2>1 DEF Init
    <2>4. /\ refs \in [Keys -> Seq(1 .. Len(lines))]
          /\ cursor \in [Keys -> Seq(1 .. Len(lines))]
          /\ calls \in Seq(Keys)
      BY DEF Init
    <2> QED
      BY <2>2, <2>3, <2>4 DEF Init, TypeOK
  <1> QED
    BY <1>1 DEF Init, IInv, EveryUndefinedReferenceIsRecorded,
       WrittenImpliesDefined, CallsAreDefined, PhaseOK

LEMMA ParseLineKeeps ==
    ASSUME IInv, NEW stmt \in Statements, ParseLine(stmt)
    PROVE  IInv'
  <1> DEFINE scope == IF stmt.label \in GlobalNames THEN stmt.label
                      ELSE globalLabel
             new   == NewLine(stmt, scope)
  <1>1. /\ lines' = Append(lines, new) /\ globalLabel' = scope
        /\ phase' = "parsed" /\ Len(lines) < MaxLines /\ phase = "read"
        /\ UNCHANGED <<symbols, refs, cursor, calls, pc, failed, written>>
    BY DEF ParseLine
  <1>2. scope \in GlobalNames \cup {NoName}
    BY DEF IInv, TypeOK
  <1> HIDE DEF scope
  <1>3. new \in Line /\ new.keys = {}
    BY <1>2 DEF NewLine, Line, IInv, TypeOK, Word
  <1> HIDE DEF new
  <1>4. /\ lines' \in Seq(Line)
        /\ Len(lines') = Len(lines) + 1
        /\ \A j \in 1 .. Len(lines) : lines'[j] = lines[j]
        /\ lines'[Len(lines) + 1] = new
    BY <1>1, <1>3, AppendProperties DEF IInv, TypeOK
  <1>5. Len(lines) \in Nat /\ DOMAIN lines = 1 .. Len(lines)
    BY DEF IInv, TypeOK
  <1>6. \A list \in Seq(1 .. Len(lines)) : list \in Seq(1 .. Len(lines) + 1)
    BY <1>5, SeqMonotonic
  <1>7. TypeOK'
    BY <1>1, <1>2, <1>4, <1>5, <1>6 DEF IInv, TypeOK
  <1>8. EveryUndefinedReferenceIsRecorded'
    <2> SUFFICES ASSUME NEW j \in DOMAIN lines', NEW k \in lines'[j].keys,
                        symbols[k].line = 0
                 PROVE  j \in Range(refs[k])
      BY <1>1 DEF EveryUndefinedReferenceIsRecorded, IsDefined
    <2>1. j \in 1 .. Len(lines) \/ j = Len(lines) + 1
      BY <1>4, <1>5
    <2>2. j \in DOMAIN lines /\ k \in lines[j].keys
      BY <1>3, <1>4, <1>5, <2>1
    <2> QED
      BY <2>2 DEF IInv, EveryUndefinedReferenceIsRecorded, IsDefined
  <1>9. WrittenImpliesDefined'
    BY <1>1 DEF WrittenImpliesDefined, IInv, PhaseOK
  <1>10. CallsAreDefined' /\ PhaseOK'
    BY <1>1, <1>4, <1>5 DEF IInv, CallsAreDefined, IsDefined, PhaseOK
  <1> QED
    BY <1>7, <1>8, <1>9, <1>10 DEF IInv

LEMMA AssembleSourceLineKeeps ==
    ASSUME IInv, AssembleSourceLine
    PROVE  IInv'
  <1>1. Len(lines) \in 1 .. Len(lines)
    BY DEF IInv, TypeOK, PhaseOK, AssembleSourceLine
  <1>2. refs \in Lists(Len(lines)) /\ cursor \in Lists(Len(lines))
    BY DEF IInv, TypeOK, Lists
  <1>3. Assembled(Len(lines))
    BY <1>1, <1>2, FirstPassAssembles DEF AssembleSourceLine
  <1> QED
    BY <1>1, <1>3, AssembledKeepsInvariant
       DEF AssembleSourceLine, IInv, PhaseOK

LEMMA UpdateLineKeeps ==
    ASSUME IInv, UpdateLine
    PROVE  IInv'
  <1> DEFINE k  == Last(calls)
             i  == Head(cursor[k])
             rs == [refs EXCEPT ![k] = LineReferenceRemove(i, @)]
             cs == LineReferenceEnumNext(k)
  <1>1. calls # <<>> /\ cursor[k] # <<>> /\ FirstPassAssembleLine(i, rs, cs)
    BY DEF UpdateLine
  <1>2. Len(calls) \in DOMAIN calls /\ k \in Keys /\ IsDefined(k)
    BY <1>1 DEF IInv, TypeOK, CallsAreDefined, Last
  <1> HIDE DEF k
  <1>3. cursor[k] \in Seq(1 .. Len(lines)) /\ refs[k] \in Seq(1 .. Len(lines))
    BY <1>2 DEF IInv, TypeOK
  <1>4. i \in 1 .. Len(lines) /\ Tail(cursor[k]) \in Seq(1 .. Len(lines))
    BY <1>1, <1>3, HeadTailProperties
  <1>5. LineReferenceRemove(i, refs[k]) \in Seq(1 .. Len(lines))
    BY <1>3, LineReferenceRemoveType DEF IInv, TypeOK
  <1> HIDE DEF i
  <1>6. rs \in Lists(Len(lines))
    BY <1>2, <1>5 DEF Lists, IInv, TypeOK
  <1>7. cs \in Lists(Len(lines))
    BY <1>2, <1>4 DEF Lists, LineReferenceEnumNext, IInv, TypeOK
  <1>8. \A q \in Keys : ~IsDefined(q) => rs[q] = refs[q]
    BY <1>2 DEF IInv, TypeOK
  <1> HIDE DEF rs, cs
  <1>9. Assembled(i)
    BY <1>1, <1>4, <1>6, <1>7, <1>8, FirstPassAssembles
  <1> QED
    BY <1>1, <1>4, <1>9, AssembledKeepsInvariant
       DEF UpdateLine, IInv, PhaseOK

LEMMA FinishUpdateKeeps ==
    ASSUME IInv, FinishUpdate
    PROVE  IInv'
  <1>1. /\ calls # <<>> /\ calls' = Front(calls)
        /\ UNCHANGED <<lines, symbols, refs, cursor, globalLabel, pc, phase,
                       failed, written>>
    BY DEF FinishUpdate
  <1>2. /\ calls' \in Seq(Keys)
        /\ \A j \in DOMAIN calls' : j \in DOMAIN calls /\ calls'[j] = calls[j]
    <2>1. Len(calls) \in Nat \ {0} /\ \A j \in 1 .. Len(calls) : calls[j] \in Keys
      BY <1>1 DEF IInv, TypeOK
    <2> DEFINE n == Len(calls) - 1
    <2>2. n \in Nat /\ n < Len(calls) /\ \A j \in 1 .. n : calls[j] \in Keys
      BY <2>1
    <2>3. calls' = SubSeq(calls, 1, n)
      BY <1>1 DEF Front
    <2> HIDE DEF n
    <2>4. SubSeq(calls, 1, n) \in Seq(Keys)
      BY <2>2, SubSeqProperties
    <2>5. Len(SubSeq(calls, 1, n)) = n
      BY <2>2
    <2>6. \A j \in 1 .. n : SubSeq(calls, 1, n)[j] = calls[j]
      BY <2>2
    <2>7. DOMAIN calls' = 1 .. n
      BY <2>3, <2>4, <2>5
    <2>8. DOMAIN calls = 1 .. Len(calls)
      BY DEF IInv, TypeOK
    <2> QED
      BY <2>2, <2>3, <2>4, <2>6, <2>7, <2>8
  <1>3. TypeOK'
    BY <1>1, <1>2 DEF IInv, TypeOK
  <1> QED
    BY <1>1, <1>2, <1>3 DEF IInv, EveryUndefinedReferenceIsRecorded,
       WrittenImpliesDefined, CallsAreDefined, IsDefined, PhaseOK

(* The line's label is defined in place; the lists do not change. *)
LEMMA AddUnhandledLabelKeeps ==
    ASSUME IInv, AddUnhandledLabel
    PROVE  IInv'
  <1> DEFINE i    == Len(lines)
             line == lines[i]
             expr == [value |-> line.address, zp |-> line.address <= 255,
                      fwd |-> FALSE]
  <1>1. i \in 1 .. Len(lines) /\ i \in DOMAIN lines /\ line \in Line
    BY DEF IInv, TypeOK, PhaseOK, AddUnhandledLabel
  <1>2. line.stmt.label \in Names \cup {NoName} /\ expr \in Expr
    BY <1>1 DEF Line, Statement, Expr, Word
  <1>3. /\ phase = "assembled" /\ phase' = "labelled"
        /\ UNCHANGED <<lines, refs, globalLabel, pc, written>>
    BY DEF AddUnhandledLabel
  <1>4. refs \in Lists(Len(lines)) /\ cursor \in Lists(Len(lines))
    BY DEF IInv, TypeOK, Lists
  <1>5. /\ symbols' \in [Keys -> Symbol]
        /\ cursor' \in Lists(Len(lines))
        /\ calls' \in Seq(Keys)
        /\ failed' \in BOOLEAN
        /\ \A k \in Keys : IsDefined(k) => symbols'[k].line # 0
        /\ \A j \in DOMAIN calls' : symbols'[calls'[j]].line # 0
    <2>1. CASE line.stmt.label = NoName \/ line.wasEqu
      <3>1. UNCHANGED <<symbols, cursor, calls, failed>>
        BY <2>1 DEF AddUnhandledLabel
      <3> QED
        BY <1>4, <3>1 DEF IInv, TypeOK, CallsAreDefined, IsDefined
    <2>2. CASE ~(line.stmt.label = NoName \/ line.wasEqu)
      <3>1. AttemptToAddSymbol(i, line.stmt.label, expr, refs, cursor)
        BY <2>2 DEF AddUnhandledLabel
      <3>2. line.stmt.label \in Names
        BY <1>2, <2>2
      <3> HIDE DEF expr
      <3> QED
        BY <1>1, <1>2, <1>4, <3>1, <3>2, AttemptToAddSymbolType DEF IInv
    <2> QED
      BY <2>1, <2>2
  <1>6. Assembled(i)
    <2>1. \A k \in line.keys : ~IsDefined(k) => i \in Range(refs[k])
      BY <1>1 DEF IInv, EveryUndefinedReferenceIsRecorded
    <2>2. line.keys \subseteq Keys
      BY <1>1 DEF Line
    <2> QED
      BY <1>1, <1>3, <1>4, <1>5, <2>1, <2>2 DEF Assembled, IInv, TypeOK
  <1> HIDE DEF i
  <1> QED
    BY <1>1, <1>3, <1>6, AssembledKeepsInvariant DEF IInv, PhaseOK

LEMMA AdvanceProgramCounterKeeps ==
    ASSUME IInv, AdvanceProgramCounter
    PROVE  IInv'
  <1>1. /\ phase' = "read" /\ phase = "labelled" /\ calls = <<>>
        /\ UNCHANGED <<lines, symbols, refs, cursor, calls, globalLabel,
                       failed, written>>
    BY DEF AdvanceProgramCounter
  <1>2. pc' \in Word
    <2>1. lines[Len(lines)] \in Line
      BY <1>1 DEF IInv, TypeOK, PhaseOK
    <2>2. pc + lines[Len(lines)].size \in Nat
      BY <2>1 DEF IInv, TypeOK, Line, Word
    <2> QED
      BY <2>2 DEF AdvanceProgramCounter, NextProgramCounter, Word
  <1>3. TypeOK'
    BY <1>1, <1>2 DEF IInv, TypeOK
  <1> QED
    BY <1>1, <1>3 DEF IInv, EveryUndefinedReferenceIsRecorded,
       WrittenImpliesDefined, CallsAreDefined, IsDefined, PhaseOK

(* No list has a line left, so no line's operand names a symbol that is    *)
(* undefined: such a line would be on the list.                            *)
LEMMA EndOfSourceKeeps ==
    ASSUME IInv, EndOfSource
    PROVE  IInv'
  <1>1. /\ phase = "read" /\ phase' = "done" /\ written' = ~failed'
        /\ failed' = (failed \/ HasUndefinedSymbols)
        /\ UNCHANGED <<lines, symbols, refs, cursor, calls, globalLabel, pc>>
    BY DEF EndOfSource
  <1>2. TypeOK'
    BY <1>1 DEF IInv, TypeOK, HasUndefinedSymbols
  <1>3. WrittenImpliesDefined'
    <2> SUFFICES ASSUME written', NEW i \in DOMAIN lines, NEW k \in lines[i].keys
                 PROVE  IsDefined(k)
      BY <1>1 DEF WrittenImpliesDefined, IsDefined
    <2>1. \A q \in Keys : refs[q] = <<>>
      BY <1>1 DEF HasUndefinedSymbols
    <2>2. k \in Keys
      <3>1. lines[i] \in Line
        BY ElementOfSeq DEF IInv, TypeOK
      <3> QED
        BY <3>1 DEF Line
    <2>3. Range(refs[k]) = {}
      BY <2>1, <2>2 DEF Range
    <2> QED
      BY <2>3 DEF IInv, EveryUndefinedReferenceIsRecorded
  <1> QED
    BY <1>1, <1>2, <1>3 DEF IInv, EveryUndefinedReferenceIsRecorded,
       CallsAreDefined, IsDefined, PhaseOK

LEMMA StepKeeps == IInv /\ [Next]_vars => IInv'
  <1> SUFFICES ASSUME IInv, [Next]_vars PROVE IInv'
    OBVIOUS
  <1>1. ASSUME NEW stmt \in Statements, ParseLine(stmt) PROVE IInv'
    BY <1>1, ParseLineKeeps
  <1>2. CASE AssembleSourceLine
    BY <1>2, AssembleSourceLineKeeps
  <1>3. CASE UpdateLine
    BY <1>3, UpdateLineKeeps
  <1>4. CASE FinishUpdate
    BY <1>4, FinishUpdateKeeps
  <1>5. CASE AddUnhandledLabel
    BY <1>5, AddUnhandledLabelKeeps
  <1>6. CASE AdvanceProgramCounter
    BY <1>6, AdvanceProgramCounterKeeps
  <1>7. CASE EndOfSource
    BY <1>7, EndOfSourceKeeps
  <1>8. CASE UNCHANGED vars
    BY <1>8 DEF vars, IInv, TypeOK, EveryUndefinedReferenceIsRecorded,
       WrittenImpliesDefined, CallsAreDefined, IsDefined, PhaseOK
  <1> QED
    BY <1>1, <1>2, <1>3, <1>4, <1>5, <1>6, <1>7, <1>8 DEF Next

(* The inductive invariant holds in every reachable state. *)
THEOREM Invariance == Spec => []IInv
  <1> QED
    BY InitEstablishes, StepKeeps, PTL DEF Spec

(* The assembler's state keeps its types, whatever the source: addresses   *)
(* and the program counter stay within 16 bits, and every list of          *)
(* references, cursor and update is over lines and symbols that exist.     *)
THEOREM TypeCorrectness == Spec => []TypeOK
  <1>1. IInv => TypeOK
    BY DEF IInv
  <1> QED
    BY <1>1, Invariance, PTL

(* A line that named an undefined symbol is never forgotten: it stays on   *)
(* that symbol's list of line references until the symbol is defined.      *)
THEOREM ReferencesAreRecorded == Spec => []EveryUndefinedReferenceIsRecorded
  <1>1. IInv => EveryUndefinedReferenceIsRecorded
    BY DEF IInv
  <1> QED
    BY <1>1, Invariance, PTL

(* The output is written only if every symbol named in it was defined.     *)
THEOREM OutputIsResolved == Spec => []WrittenImpliesDefined
  <1>1. IInv => WrittenImpliesDefined
    BY DEF IInv
  <1> QED
    BY <1>1, Invariance, PTL

-----------------------------------------------------------------------------
(***************************************************************************)
(* The lists of lines that wait, and their cursors.                        *)
(***************************************************************************)
(***************************************************************************)
(* The strengthening.  It is stated of lists rs and cursors cs, since a    *)
(* line is assembled with those that the step before it left.              *)
(***************************************************************************)
(* A line is on a list at most once. *)
IsDistinct(list) == \A a, b \in DOMAIN list : list[a] = list[b] => a = b

IsBeingUpdated(k) == \E j \in DOMAIN calls : calls[j] = k

(* Lines may wait for a symbol that has no final value, or is being updated. *)
MayHaveWaiters(k) == ~IsDefined(k) \/ symbols[k].fwd \/ IsBeingUpdated(k)

AreInStep(rs, cs) ==
    /\ \A k \in Keys : IsDistinct(rs[k])
    /\ \A j \in DOMAIN calls : cs[calls[j]] = rs[calls[j]]
    /\ \A k \in Keys : rs[k] # <<>> => MayHaveWaiters(k)

ListsInv == AreInStep(refs, cursor)

-----------------------------------------------------------------------------
(***************************************************************************)
(* The lists.                                                              *)
(***************************************************************************)
(* Linking a line that is not on the list keeps its lines distinct. *)
LEMMA LinkedIsDistinct ==
    ASSUME NEW n \in Nat, NEW i \in 1 .. n, NEW list \in Seq(1 .. n),
           IsDistinct(list), i \notin Range(list)
    PROVE  IsDistinct(<<i>> \o list)
  <1> DEFINE new == <<i>> \o list
  <1>1. /\ new \in Seq(1 .. n)
        /\ Len(new) = 1 + Len(list)
        /\ new[1] = i
        /\ \A j \in 2 .. 1 + Len(list) : new[j] = list[j - 1]
    <2>1. <<i>> \in Seq(1 .. n) /\ Len(<<i>>) = 1 /\ <<i>>[1] = i
      OBVIOUS
    <2>2. Len(list) \in Nat
      OBVIOUS
    <2>3. /\ new \in Seq(1 .. n)
          /\ Len(new) = Len(<<i>>) + Len(list)
          /\ \A j \in 1 .. Len(<<i>>) + Len(list) :
                new[j] = IF j <= Len(<<i>>) THEN <<i>>[j]
                         ELSE list[j - Len(<<i>>)]
      BY <2>1, ConcatProperties
    <2> HIDE DEF new
    <2> QED
      BY <2>1, <2>2, <2>3
  <1>2. DOMAIN new = 1 .. 1 + Len(list) /\ DOMAIN list = 1 .. Len(list)
        /\ Len(list) \in Nat
    BY <1>1
  <1> HIDE DEF new
  <1>3. ASSUME NEW a \in DOMAIN list PROVE list[a] # i
    BY <1>3 DEF Range
  <1>4. ASSUME NEW a \in DOMAIN new
        PROVE  \/ a = 1 /\ new[a] = i
               \/ a - 1 \in DOMAIN list /\ new[a] = list[a - 1]
    <2>1. a \in 1 .. 1 + Len(list)
      BY <1>2
    <2>2. a = 1 \/ (a \in 2 .. 1 + Len(list) /\ a - 1 \in 1 .. Len(list))
      BY <1>2, <2>1
    <2> QED
      BY <1>1, <1>2, <2>2
  <1>5. \A a \in DOMAIN new : a \in Int
    BY <1>2
  <1>6. ASSUME NEW a \in DOMAIN new, NEW b \in DOMAIN new, new[a] = new[b]
        PROVE  a = b
    <2>1. CASE a = 1 /\ b = 1
      BY <2>1
    <2>2. CASE /\ a - 1 \in DOMAIN list /\ new[a] = list[a - 1]
               /\ b - 1 \in DOMAIN list /\ new[b] = list[b - 1]
      <3>1. a - 1 = b - 1
        BY <1>6, <2>2 DEF IsDistinct
      <3> QED
        BY <1>5, <3>1
    <2> QED
      BY <1>3, <1>4, <1>6, <2>1, <2>2
  <1> QED
    BY <1>6 DEF IsDistinct, new

(* Freeing the line at the head of a list leaves its tail, where the       *)
(* enumeration goes on.                                                    *)
LEMMA RemovedHeadLeavesTail ==
    ASSUME NEW n \in Nat, NEW list \in Seq(1 .. n), list # <<>>,
           IsDistinct(list)
    PROVE  /\ LineReferenceRemove(Head(list), list) = Tail(list)
           /\ IsDistinct(Tail(list))
  <1>1. 1 \in DOMAIN list /\ list[1] = Head(list)
        /\ Len(list) \in Nat \ {0} /\ DOMAIN list = 1 .. Len(list)
    OBVIOUS
  <1>2. Head(list) \in Range(list)
    BY <1>1 DEF Range
  <1> DEFINE j == CHOOSE m \in DOMAIN list : list[m] = Head(list)
  <1>3. j = 1
    <2>1. j \in DOMAIN list /\ list[j] = Head(list)
      BY <1>1
    <2> QED
      BY <1>1, <2>1 DEF IsDistinct
  <1>4. LineReferenceRemove(Head(list), list) = RemoveAt(list, 1)
    <2> HIDE DEF j
    <2>1. LineReferenceRemove(Head(list), list) = RemoveAt(list, j)
      BY <1>2 DEF LineReferenceRemove, j
    <2> QED
      BY <1>3, <2>1
  <1>5. RemoveAt(list, 1) = SubSeq(list, 1, 0) \o SubSeq(list, 2, Len(list))
    BY DEF RemoveAt
  <1>6. SubSeq(list, 1, 0) = <<>>
    BY SubSeqEmpty
  <1>7. Tail(list) = SubSeq(list, 2, Len(list)) /\ Tail(list) \in Seq(1 .. n)
    BY TailIsSubSeq, HeadTailProperties
  <1>8. <<>> \o Tail(list) = Tail(list)
    BY <1>7, ConcatEmptySeq
  <1>9. LineReferenceRemove(Head(list), list) = Tail(list)
    BY <1>4, <1>5, <1>6, <1>7, <1>8
  <1>10. IsDistinct(Tail(list))
    <2>1. /\ DOMAIN Tail(list) = 1 .. Len(list) - 1
          /\ \A a \in DOMAIN Tail(list) :
                a + 1 \in DOMAIN list /\ Tail(list)[a] = list[a + 1]
      BY <1>1, HeadTailProperties
    <2>2. ASSUME NEW a \in DOMAIN Tail(list), NEW b \in DOMAIN Tail(list),
                 Tail(list)[a] = Tail(list)[b]
          PROVE  a = b
      <3>1. a + 1 = b + 1
        BY <2>1, <2>2 DEF IsDistinct
      <3> QED
        BY <1>1, <2>1, <3>1
    <2> QED
      BY <2>2 DEF IsDistinct
  <1> QED
    BY <1>9, <1>10

(* Linking a line touches only the lists of symbols that are undefined. *)
LEMMA AddKeepsStep ==
    ASSUME TypeOK, CallsAreDefined, NEW i \in 1 .. Len(lines), NEW keys,
           NEW rs \in Lists(Len(lines)), NEW cs, AreInStep(rs, cs)
    PROVE  AreInStep(LineReferenceAdd(i, keys, rs), cs)
  <1> DEFINE new == LineReferenceAdd(i, keys, rs)
  <1>1. \A k \in Keys : new[k] =
            IF k \in keys /\ ~IsDefined(k) /\ i \notin Range(rs[k])
            THEN <<i>> \o rs[k] ELSE rs[k]
    BY DEF LineReferenceAdd
  <1> HIDE DEF new
  <1>2. ASSUME NEW k \in Keys PROVE IsDistinct(new[k])
    <2>1. IsDistinct(rs[k]) /\ rs[k] \in Seq(1 .. Len(lines))
      BY DEF AreInStep, Lists
    <2>2. Len(lines) \in Nat
      BY DEF TypeOK
    <2>3. i \notin Range(rs[k]) => IsDistinct(<<i>> \o rs[k])
      BY <2>1, <2>2, LinkedIsDistinct
    <2> QED
      BY <1>1, <2>1, <2>3
  <1>3. ASSUME NEW j \in DOMAIN calls PROVE cs[calls[j]] = new[calls[j]]
    <2>1. calls[j] \in Keys /\ IsDefined(calls[j])
      BY ElementOfSeq DEF TypeOK, CallsAreDefined
    <2> QED
      BY <1>1, <2>1 DEF AreInStep
  <1>4. ASSUME NEW k \in Keys, new[k] # <<>> PROVE MayHaveWaiters(k)
    <2>1. CASE IsDefined(k)
      BY <1>1, <1>4, <2>1 DEF AreInStep
    <2>2. CASE ~IsDefined(k)
      BY <2>2 DEF MayHaveWaiters
    <2> QED
      BY <2>1, <2>2
  <1> QED
    BY <1>2, <1>3, <1>4 DEF AreInStep, new

(* A definition that is final puts its symbol on the stack and starts its  *)
(* enumeration anew; another one leaves the symbol waiting.                *)
LEMMA DefinitionKeepsStep ==
    ASSUME TypeOK, NEW i \in 1 .. Len(lines), NEW name \in Names, NEW expr,
           NEW rs \in Lists(Len(lines)), NEW cs \in Lists(Len(lines)),
           AreInStep(rs, cs), refs' = rs,
           AttemptToAddSymbol(i, name, expr, rs, cs)
    PROVE  ListsInv'
  <1> DEFINE k0  == KeyOf(name, globalLabel)
             new == [line |-> i, value |-> expr.value,
                     zp |-> expr.zp, fwd |-> expr.fwd]
  <1>1. \A k \in Keys : IsDistinct(refs'[k])
    BY DEF AreInStep
  <1>2. CASE ~CanDefine(i, name)
    <2>1. symbols' = symbols /\ calls' = calls /\ cursor' = cs
      BY <1>2 DEF AttemptToAddSymbol
    <2> QED
      BY <1>1, <2>1 DEF ListsInv, AreInStep, MayHaveWaiters, IsDefined,
         IsBeingUpdated
  <1>3. CASE CanDefine(i, name)
    <2>1. k0 \in Keys
      BY <1>3, KeyType DEF CanDefine
    <2>2. symbols' = [symbols EXCEPT ![k0] = new] /\ new.fwd = expr.fwd
      BY <1>3 DEF AttemptToAddSymbol
    <2> HIDE DEF new
    <2>3. /\ symbols'[k0].fwd = expr.fwd
          /\ \A k \in Keys : k # k0 => symbols'[k] = symbols[k]
      BY <2>1, <2>2 DEF TypeOK
    <2>4. CASE expr.fwd
      <3>1. calls' = calls /\ cursor' = cs
        BY <1>3, <2>4 DEF AttemptToAddSymbol
      <3>2. \A k \in Keys : MayHaveWaiters(k) => MayHaveWaiters(k)'
        BY <2>3, <2>4, <3>1 DEF MayHaveWaiters, IsDefined, IsBeingUpdated
      <3> QED
        BY <1>1, <3>1, <3>2 DEF ListsInv, AreInStep
    <2>5. CASE ~expr.fwd
      <3>1. calls' = Append(calls, k0) /\ cursor' = [cs EXCEPT ![k0] = rs[k0]]
        BY <1>3, <2>5 DEF AttemptToAddSymbol, k0
      <3> HIDE DEF k0
      <3>2. /\ calls' \in Seq(Keys)
            /\ Len(calls') = Len(calls) + 1
            /\ \A j \in 1 .. Len(calls) : calls'[j] = calls[j]
            /\ calls'[Len(calls) + 1] = k0
        BY <2>1, <3>1, AppendProperties DEF TypeOK
      <3>3. /\ DOMAIN calls' = 1 .. Len(calls) + 1
            /\ DOMAIN calls = 1 .. Len(calls)
            /\ Len(calls) \in Nat
        BY <3>2 DEF TypeOK
      <3>4. /\ \A j \in DOMAIN calls :
                  j \in DOMAIN calls' /\ calls'[j] = calls[j]
            /\ Len(calls) + 1 \in DOMAIN calls'
        BY <3>2, <3>3
      <3>5. \A j \in DOMAIN calls' : \/ calls'[j] = k0
                                     \/ /\ j \in DOMAIN calls
                                        /\ calls'[j] = calls[j]
        <4>1. \A j \in DOMAIN calls' :
                  j = Len(calls) + 1 \/ j \in 1 .. Len(calls)
          BY <3>3
        <4> QED
          BY <3>2, <3>3, <4>1
      <3>6. /\ cursor'[k0] = rs[k0]
            /\ \A k \in Keys : k # k0 => cursor'[k] = cs[k]
        BY <2>1, <3>1 DEF Lists
      <3>7. ASSUME NEW j \in DOMAIN calls'
            PROVE  cursor'[calls'[j]] = refs'[calls'[j]]
        <4>1. CASE calls'[j] = k0
          BY <3>6, <4>1
        <4>2. CASE calls'[j] # k0
          <5>1. j \in DOMAIN calls /\ calls'[j] = calls[j]
            BY <3>5, <4>2
          <5>2. calls[j] \in Keys
            BY <3>3, <5>1, ElementOfSeq DEF TypeOK
          <5> QED
            BY <3>6, <4>2, <5>1, <5>2 DEF AreInStep
        <4> QED
          BY <4>1, <4>2
      <3>8. ASSUME NEW k \in Keys, refs'[k] # <<>>
            PROVE  MayHaveWaiters(k)'
        <4>1. CASE k = k0
          BY <3>2, <3>4, <4>1 DEF MayHaveWaiters, IsBeingUpdated
        <4>2. CASE k # k0
          <5>1. MayHaveWaiters(k) /\ symbols'[k] = symbols[k]
            BY <2>3, <3>8, <4>2 DEF AreInStep
          <5>2. IsBeingUpdated(k) => IsBeingUpdated(k)'
            BY <3>4 DEF IsBeingUpdated
          <5> QED
            BY <5>1, <5>2 DEF MayHaveWaiters, IsDefined
        <4> QED
          BY <4>1, <4>2
      <3> QED
        BY <1>1, <3>7, <3>8 DEF ListsInv, AreInStep
    <2> QED
      BY <2>4, <2>5
  <1> QED
    BY <1>2, <1>3

LEMMA FirstPassKeepsStep ==
    ASSUME TypeOK, CallsAreDefined, NEW i \in 1 .. Len(lines),
           NEW rs \in Lists(Len(lines)), NEW cs \in Lists(Len(lines)),
           AreInStep(rs, cs), FirstPassAssembleLine(i, rs, cs)
    PROVE  ListsInv'
  <1> DEFINE line    == Looked(lines[i])
             operand == line.stmt.operand
             label   == line.stmt.label
             added   == LineReferenceAdd(i, line.keys, rs)
  <1>1. line.stmt \in Statement
    BY LookedType
  <1>2. added \in Lists(Len(lines)) /\ AreInStep(added, cs)
    BY LineReferenceAddType, AddKeepsStep DEF TypeOK
  <1>3. ASSUME symbols' = symbols, calls' = calls, cursor' = cs,
               refs' = rs \/ refs' = added
        PROVE  ListsInv'
    BY <1>2, <1>3 DEF ListsInv, AreInStep, MayHaveWaiters, IsDefined,
       IsBeingUpdated
  <1>4. CASE AssembleNothing(i, rs, cs)
    BY <1>3, <1>4 DEF AssembleNothing
  <1>5. CASE HandleInstruction(i, rs, cs)
    BY <1>3, <1>5 DEF HandleInstruction
  <1>6. CASE HandleEQU(i, rs, cs)
    <2>1. refs' = added
      BY <1>6 DEF HandleEQU
    <2>2. CASE IsEvaluated(operand) /\ label \notin LocalNames \cup {NoName}
      <3>1. AttemptToAddSymbol(i, label, Evaluate(operand), added, cs)
        BY <1>6, <2>2 DEF HandleEQU
      <3>2. label \in Names
        BY <1>1, <2>2 DEF Statement
      <3> HIDE DEF line, added
      <3> QED
        BY <1>2, <2>1, <3>1, <3>2, DefinitionKeepsStep
    <2>3. CASE ~(IsEvaluated(operand) /\ label \notin LocalNames \cup {NoName})
      <3>1. symbols' = symbols /\ calls' = calls /\ cursor' = cs
        BY <1>6, <2>3 DEF HandleEQU
      <3> HIDE DEF line, added
      <3> QED
        BY <1>3, <2>1, <3>1
    <2> QED
      BY <2>2, <2>3
  <1> QED
    BY <1>4, <1>5, <1>6 DEF FirstPassAssembleLine

-----------------------------------------------------------------------------
(***************************************************************************)
(* Each action keeps the lists and the cursors in step.                    *)
(***************************************************************************)
LEMMA InitEstablishesLists == Init => ListsInv
  <1> SUFFICES ASSUME Init PROVE ListsInv
    OBVIOUS
  <1>1. /\ \A k \in Keys : refs[k] = <<>>
        /\ DOMAIN calls = {}
    BY DEF Init
  <1> QED
    BY <1>1 DEF ListsInv, AreInStep, IsDistinct

LEMMA UpdateLineKeepsLists ==
    ASSUME IInv, ListsInv, UpdateLine
    PROVE  ListsInv'
  <1> DEFINE k  == Last(calls)
             i  == Head(cursor[k])
             rs == [refs EXCEPT ![k] = LineReferenceRemove(i, @)]
             cs == LineReferenceEnumNext(k)
  <1>1. calls # <<>> /\ cursor[k] # <<>> /\ FirstPassAssembleLine(i, rs, cs)
    BY DEF UpdateLine
  <1>2. Len(calls) \in DOMAIN calls /\ calls[Len(calls)] = k /\ k \in Keys
    BY <1>1 DEF IInv, TypeOK, Last
  <1> HIDE DEF k
  <1>3. cursor[k] = refs[k] /\ IsDistinct(refs[k])
    BY <1>2 DEF ListsInv, AreInStep
  <1>4. refs[k] \in Seq(1 .. Len(lines)) /\ Len(lines) \in Nat
    BY <1>2 DEF IInv, TypeOK
  <1>5. i \in 1 .. Len(lines) /\ Tail(refs[k]) \in Seq(1 .. Len(lines))
    BY <1>1, <1>3, <1>4, HeadTailProperties
  <1>6. /\ LineReferenceRemove(i, refs[k]) = Tail(refs[k])
        /\ IsDistinct(Tail(refs[k]))
    BY <1>1, <1>3, <1>4, RemovedHeadLeavesTail
  <1> HIDE DEF i
  <1>7. rs = [refs EXCEPT ![k] = Tail(refs[k])]
    BY <1>2, <1>6 DEF IInv, TypeOK
  <1>8. cs = [cursor EXCEPT ![k] = Tail(refs[k])]
    BY <1>2, <1>3 DEF LineReferenceEnumNext, IInv, TypeOK
  <1> HIDE DEF rs, cs
  <1>9. /\ rs[k] = Tail(refs[k]) /\ cs[k] = Tail(refs[k])
        /\ \A q \in Keys : q # k => rs[q] = refs[q] /\ cs[q] = cursor[q]
    BY <1>2, <1>7, <1>8 DEF IInv, TypeOK
  <1>10. rs \in Lists(Len(lines)) /\ cs \in Lists(Len(lines))
    BY <1>2, <1>5, <1>7, <1>8 DEF Lists, IInv, TypeOK
  <1>11. AreInStep(rs, cs)
    <2>1. ASSUME NEW q \in Keys PROVE IsDistinct(rs[q])
      BY <1>6, <1>9 DEF ListsInv, AreInStep
    <2>2. ASSUME NEW j \in DOMAIN calls PROVE cs[calls[j]] = rs[calls[j]]
      <3>1. calls[j] \in Keys
        BY ElementOfSeq DEF IInv, TypeOK
      <3> QED
        BY <1>9, <3>1 DEF ListsInv, AreInStep
    <2>3. ASSUME NEW q \in Keys, rs[q] # <<>> PROVE MayHaveWaiters(q)
      <3>1. CASE q = k
        BY <1>2, <3>1 DEF MayHaveWaiters, IsBeingUpdated
      <3>2. CASE q # k
        BY <1>9, <2>3, <3>2 DEF ListsInv, AreInStep
      <3> QED
        BY <3>1, <3>2
    <2> QED
      BY <2>1, <2>2, <2>3 DEF AreInStep
  <1> QED
    BY <1>1, <1>5, <1>10, <1>11, FirstPassKeepsStep DEF IInv

(* The symbol on top of the stack leaves it with an empty list. *)
LEMMA FinishUpdateKeepsLists ==
    ASSUME IInv, ListsInv, FinishUpdate
    PROVE  ListsInv'
  <1> DEFINE n == Len(calls) - 1
             k == Last(calls)
  <1>1. /\ calls # <<>> /\ calls' = Front(calls) /\ cursor[k] = <<>>
        /\ UNCHANGED <<symbols, refs, cursor>>
    BY DEF FinishUpdate
  <1>2. /\ Len(calls) \in Nat \ {0} /\ DOMAIN calls = 1 .. Len(calls)
        /\ \A j \in 1 .. Len(calls) : calls[j] \in Keys
        /\ calls[Len(calls)] = k
    BY <1>1 DEF IInv, TypeOK, Last
  <1>3. refs[k] = <<>>
    BY <1>1, <1>2 DEF ListsInv, AreInStep
  <1> HIDE DEF k
  <1>4. calls' = SubSeq(calls, 1, n)
    BY <1>1 DEF Front
  <1>5. n \in Nat /\ n + 1 = Len(calls)
    BY <1>2
  <1> HIDE DEF n
  <1>6. /\ DOMAIN calls' = 1 .. n
        /\ \A j \in 1 .. n : calls'[j] = calls[j]
    <2>1. \A j \in 1 .. n : calls[j] \in Keys
      BY <1>2, <1>5
    <2>2. /\ SubSeq(calls, 1, n) \in Seq(Keys)
          /\ Len(SubSeq(calls, 1, n)) = n
          /\ \A j \in 1 .. n : SubSeq(calls, 1, n)[j] = calls[j]
      BY <1>5, <2>1, SubSeqProperties
    <2> QED
      BY <1>4, <2>2
  <1>7. ASSUME NEW j \in DOMAIN calls'
        PROVE  cursor'[calls'[j]] = refs'[calls'[j]]
    <2>1. j \in DOMAIN calls /\ calls'[j] = calls[j]
      BY <1>2, <1>5, <1>6
    <2> QED
      BY <1>1, <2>1 DEF ListsInv, AreInStep
  <1>8. ASSUME NEW q \in Keys, refs[q] # <<>> PROVE MayHaveWaiters(q)'
    <2>1. q # k /\ MayHaveWaiters(q)
      BY <1>3, <1>8 DEF ListsInv, AreInStep
    <2>2. ASSUME NEW j \in DOMAIN calls, calls[j] = q
          PROVE  j \in DOMAIN calls' /\ calls'[j] = q
      <3>1. j # Len(calls)
        BY <1>2, <2>1, <2>2
      <3>2. j \in 1 .. n
        BY <1>2, <1>5, <3>1
      <3> QED
        BY <1>6, <2>2, <3>2
    <2>3. IsBeingUpdated(q) => IsBeingUpdated(q)'
      BY <2>2 DEF IsBeingUpdated
    <2> QED
      BY <1>1, <2>1, <2>3 DEF MayHaveWaiters, IsDefined
  <1> QED
    BY <1>1, <1>7, <1>8 DEF ListsInv, AreInStep

LEMMA AddUnhandledLabelKeepsLists ==
    ASSUME IInv, ListsInv, AddUnhandledLabel
    PROVE  ListsInv'
  <1> DEFINE i    == Len(lines)
             line == lines[i]
             expr == [value |-> line.address, zp |-> line.address <= 255,
                      fwd |-> FALSE]
  <1>1. i \in 1 .. Len(lines) /\ line \in Line
    BY DEF IInv, TypeOK, PhaseOK, AddUnhandledLabel
  <1>2. line.stmt.label \in Names \cup {NoName}
    BY <1>1 DEF Line, Statement
  <1>3. /\ refs \in Lists(Len(lines)) /\ cursor \in Lists(Len(lines))
        /\ refs' = refs
    BY DEF IInv, TypeOK, Lists, AddUnhandledLabel
  <1>4. CASE line.stmt.label = NoName \/ line.wasEqu
    <2>1. UNCHANGED <<symbols, cursor, calls>>
      BY <1>4 DEF AddUnhandledLabel
    <2> QED
      BY <1>3, <2>1 DEF ListsInv, AreInStep, MayHaveWaiters, IsDefined,
         IsBeingUpdated
  <1>5. CASE ~(line.stmt.label = NoName \/ line.wasEqu)
    <2>1. AttemptToAddSymbol(i, line.stmt.label, expr, refs, cursor)
      BY <1>5 DEF AddUnhandledLabel
    <2>2. line.stmt.label \in Names
      BY <1>2, <1>5
    <2> HIDE DEF expr, i
    <2> QED
      BY <1>1, <1>3, <2>1, <2>2, DefinitionKeepsStep DEF IInv, ListsInv
  <1> QED
    BY <1>4, <1>5

LEMMA StepKeepsLists ==
    ASSUME IInv, ListsInv, [Next]_vars
    PROVE  ListsInv'
  <1> USE DEF IInv
  <1>1. ASSUME UNCHANGED <<symbols, refs, cursor, calls>> PROVE ListsInv'
    BY <1>1 DEF ListsInv, AreInStep, MayHaveWaiters, IsDefined, IsBeingUpdated
  <1>2. ASSUME NEW stmt \in Statements, ParseLine(stmt) PROVE ListsInv'
    BY <1>1, <1>2 DEF ParseLine
  <1>3. CASE AssembleSourceLine
    <2>1. Len(lines) \in 1 .. Len(lines)
      BY <1>3 DEF TypeOK, PhaseOK, AssembleSourceLine
    <2>2. refs \in Lists(Len(lines)) /\ cursor \in Lists(Len(lines))
      BY DEF TypeOK, Lists
    <2>3. FirstPassAssembleLine(Len(lines), refs, cursor)
      BY <1>3 DEF AssembleSourceLine
    <2> QED
      BY <2>1, <2>2, <2>3, FirstPassKeepsStep DEF ListsInv
  <1>4. CASE UpdateLine
    BY <1>4, UpdateLineKeepsLists
  <1>5. CASE FinishUpdate
    BY <1>5, FinishUpdateKeepsLists
  <1>6. CASE AddUnhandledLabel
    BY <1>6, AddUnhandledLabelKeepsLists
  <1>7. CASE AdvanceProgramCounter
    BY <1>1, <1>7 DEF AdvanceProgramCounter
  <1>8. CASE EndOfSource
    BY <1>1, <1>8 DEF EndOfSource
  <1>9. CASE UNCHANGED vars
    BY <1>1, <1>9 DEF vars
  <1> QED
    BY <1>2, <1>3, <1>4, <1>5, <1>6, <1>7, <1>8, <1>9 DEF Next

LEMMA ListsInvariance == Spec => []ListsInv
  <1>1. IInv /\ ListsInv /\ [Next]_vars => ListsInv'
    BY StepKeepsLists
  <1> QED
    BY <1>1, InitEstablishesLists, Invariance, PTL DEF Spec

(* A cursor is where the list it enumerates begins, in every update on the *)
(* stack and although nested updates link and free lines in between: the   *)
(* cursor neither points to a freed reference nor skips one.               *)
THEOREM CursorsFollowTheirLists == Spec => []CursorFollowsTheList
  <1>1. ListsInv => CursorFollowsTheList
    BY DEF ListsInv, AreInStep, CursorFollowsTheList
  <1> QED
    BY <1>1, ListsInvariance, PTL

(* When no update is under way, only symbols without a final value have    *)
(* lines waiting for them: no update ends before its list is empty.        *)
THEOREM UpdatesAreComplete == Spec => []NoReferenceIsLeftBehind
  <1>1. ListsInv => NoReferenceIsLeftBehind
    BY DEF ListsInv, AreInStep, MayHaveWaiters, IsBeingUpdated,
       NoReferenceIsLeftBehind
  <1> QED
    BY <1>1, ListsInvariance, PTL

-----------------------------------------------------------------------------
(***************************************************************************)
(* The strengthening.  What a line assembled again may not change is the   *)
(* size that the following lines counted on; that size is known to be      *)
(* final only because no assembled instruction has size 0, which the code  *)
(* takes for "never assembled".                                            *)
(***************************************************************************)
IsInstruction(i) == lines[i].stmt.op \in Instructions

LastLine == lines[Len(lines)]

InstructionsHaveSize ==
    \A i \in DOMAIN lines :
        IsInstruction(i) /\ ~(phase = "parsed" /\ i = Len(lines)) =>
            lines[i].size # 0

PcFollowsTheLines ==
    lines # <<>> =>
        IF phase \in {"read", "done"}
        THEN pc = (LastLine.address + LastLine.size) % 65536
        ELSE pc = LastLine.address

AddressesInv ==
    /\ LinesAreContiguous
    /\ ~failed => InstructionsHaveSize /\ PcFollowsTheLines

(* What assembling line i without an error leaves of the lines. *)
KeepsLines(i) ==
    /\ ~failed
    /\ Len(lines') = Len(lines)
    /\ DOMAIN lines' = DOMAIN lines
    /\ \A j \in DOMAIN lines :
          /\ lines'[j].address = lines[j].address
          /\ lines'[j].stmt = lines[j].stmt
          /\ j # i \/ lines[j].size # 0 \/ ~IsInstruction(j) =>
                lines'[j].size = lines[j].size
    /\ IsInstruction(i) => lines'[i].size # 0

LEMMA IntervalsEqual ==
    ASSUME NEW m \in Nat, NEW n \in Nat, 1 .. m = 1 .. n
    PROVE  m = n
  <1>1. \A k \in Nat : k \in 1 .. m <=> k \in 1 .. n
    OBVIOUS
  <1>2. m \in 1 .. m \/ m = 0
    OBVIOUS
  <1>3. n \in 1 .. n \/ n = 0
    OBVIOUS
  <1> QED
    BY <1>1, <1>2, <1>3

LEMMA FirstPassKeepsLines ==
    ASSUME TypeOK, TypeOK', NEW i \in 1 .. Len(lines), NEW rs, NEW cs,
           FirstPassAssembleLine(i, rs, cs), ~failed'
    PROVE  KeepsLines(i)
  <1> DEFINE line    == Looked(lines[i])
             operand == line.stmt.operand
             op      == line.stmt.op
             expr    == Evaluate(operand)
  <1>1. /\ i \in DOMAIN lines /\ lines[i] \in Line
        /\ DOMAIN lines = 1 .. Len(lines) /\ DOMAIN lines' = 1 .. Len(lines')
        /\ Len(lines) \in Nat /\ Len(lines') \in Nat
    BY ElementOfSeq DEF TypeOK
  <1>2. /\ line \in Line
        /\ line.stmt = lines[i].stmt
        /\ line.address = lines[i].address
        /\ line.size = lines[i].size
    <2>1. line.size = lines[i].size
      BY <1>1 DEF Looked, Line
    <2> QED
      BY <2>1, LookedType
  <1>3. ASSUME NEW new, lines' = [lines EXCEPT ![i] = new],
               new.stmt = lines[i].stmt, new.address = lines[i].address,
               lines[i].size # 0 \/ ~IsInstruction(i) =>
                   new.size = lines[i].size,
               IsInstruction(i) => new.size # 0,
               ~failed
        PROVE  KeepsLines(i)
    <2>1. DOMAIN lines' = DOMAIN lines
      BY <1>3
    <2>2. Len(lines') = Len(lines)
      BY <1>1, <2>1, IntervalsEqual
    <2>3. /\ lines'[i] = new
          /\ \A j \in DOMAIN lines : j # i => lines'[j] = lines[j]
      BY <1>1, <1>3
    <2> QED
      BY <1>3, <2>1, <2>2, <2>3 DEF KeepsLines
  <1>4. CASE AssembleNothing(i, rs, cs)
    <2>1. lines' = lines /\ failed' = failed /\ ~IsInstruction(i)
      BY <1>4 DEF AssembleNothing, IsInstruction, Instructions
    <2> QED
      BY <2>1 DEF KeepsLines
  <1>5. CASE HandleEQU(i, rs, cs)
    <2>1. ~IsInstruction(i)
      BY <1>2, <1>5 DEF HandleEQU, IsInstruction, Instructions
    <2>2. CASE /\ IsEvaluated(operand)
               /\ line.stmt.label \notin LocalNames \cup {NoName}
      <3> DEFINE new == [line EXCEPT !.wasEqu = TRUE]
      <3>1. lines' = [lines EXCEPT ![i] = new]
        BY <1>5, <2>2 DEF HandleEQU
      <3>2. failed' = failed
        BY <1>5, <2>2 DEF HandleEQU, AttemptToAddSymbol
      <3> HIDE DEF line
      <3>3. /\ new.stmt = line.stmt /\ new.address = line.address
            /\ new.size = line.size
        BY <1>2 DEF Line
      <3> HIDE DEF new
      <3> QED
        BY <1>2, <1>3, <2>1, <3>1, <3>2, <3>3
    <2>3. CASE ~(/\ IsEvaluated(operand)
                 /\ line.stmt.label \notin LocalNames \cup {NoName})
      BY <1>5, <2>3 DEF HandleEQU
    <2> QED
      BY <2>2, <2>3
  <1>6. CASE HandleInstruction(i, rs, cs)
    <2> DEFINE size == CodeSize(op, expr)
               code == CodeBytes(op, line.address, expr)
               new  == [line EXCEPT !.size = size, !.code = code]
    <2>1. /\ lines' = [lines EXCEPT ![i] = new] /\ failed' = failed
          /\ ~IsMisfit(line, expr) /\ op \in Instructions
      BY <1>6 DEF HandleInstruction
    <2>2. size # 0
      BY DEF CodeSize
    <2>3. lines[i].size = 0 \/ lines[i].size = size
      BY <1>2, <2>1 DEF IsMisfit
    <2>4. IsInstruction(i)
      BY <1>2, <2>1 DEF IsInstruction
    <2> HIDE DEF line, size, code
    <2>5. /\ new.stmt = line.stmt /\ new.address = line.address
          /\ new.size = size
      BY <1>2 DEF Line
    <2> HIDE DEF new
    <2> QED
      BY <1>2, <1>3, <2>1, <2>2, <2>3, <2>4, <2>5
  <1> QED
    BY <1>4, <1>5, <1>6 DEF FirstPassAssembleLine

(* Assembling the current line, or a line again.  Only the current line    *)
(* may get a size it did not have, and no line follows it.                 *)
LEMMA KeptLinesKeepAddresses ==
    ASSUME IInv, AddressesInv, NEW i \in 1 .. Len(lines), KeepsLines(i),
           phase \in {"parsed", "assembled", "labelled"},
           phase = "parsed" => i = Len(lines),
           phase' \in {"assembled", "labelled"}, pc' = pc
    PROVE  AddressesInv'
  <1> DEFINE n == Len(lines)
  <1>1. /\ LinesAreContiguous /\ InstructionsHaveSize /\ PcFollowsTheLines
        /\ ~failed
    BY DEF AddressesInv, KeepsLines
  <1>2. DOMAIN lines = 1 .. n /\ n \in Nat
    BY DEF IInv, TypeOK
  <1>3. i \in 1 .. n /\ Len(lines) = n /\ Len(lines') = n
    BY DEF KeepsLines
  <1> HIDE DEF n
  <1>4. n \in DOMAIN lines
    BY <1>2, <1>3
  <1>5. ASSUME NEW j \in 1 .. n - 1
        PROVE  /\ j \in DOMAIN lines /\ j + 1 \in DOMAIN lines
               /\ lines'[j].size = lines[j].size
    <2>1. j \in DOMAIN lines /\ j + 1 \in DOMAIN lines /\ j # n
      BY <1>2, <1>3
    <2>2. ~IsInstruction(j) \/ lines[j].size # 0
      BY <1>1, <1>2, <2>1 DEF InstructionsHaveSize
    <2> QED
      BY <2>1, <2>2 DEF KeepsLines
  <1>6. LinesAreContiguous'
    <2>1. ASSUME NEW j \in 1 .. n - 1
          PROVE  lines'[j + 1].address =
                     (lines'[j].address + lines'[j].size) % 65536
      <3>1. /\ lines'[j + 1].address = lines[j + 1].address
            /\ lines'[j].address = lines[j].address
            /\ lines'[j].size = lines[j].size
        BY <1>5 DEF KeepsLines
      <3>2. lines[j + 1].address = (lines[j].address + lines[j].size) % 65536
        BY <1>1, <1>2 DEF LinesAreContiguous
      <3> QED
        BY <3>1, <3>2
    <2> QED
      BY <1>2, <1>3, <2>1 DEF LinesAreContiguous
  <1>7. InstructionsHaveSize'
    <2> SUFFICES ASSUME NEW j \in DOMAIN lines, IsInstruction(j)'
                 PROVE  lines'[j].size # 0
      BY DEF InstructionsHaveSize, KeepsLines
    <2>1. IsInstruction(j)
      BY DEF IsInstruction, KeepsLines
    <2>2. CASE j = i
      BY <2>1, <2>2 DEF KeepsLines
    <2>3. CASE j # i
      <3>1. lines[j].size # 0
        BY <1>1, <2>1, <2>3 DEF InstructionsHaveSize
      <3> QED
        BY <2>3, <3>1 DEF KeepsLines
    <2> QED
      BY <2>2, <2>3
  <1>8. PcFollowsTheLines'
    <2>1. LastLine'.address = LastLine.address
      BY <1>2, <1>3, <1>4 DEF LastLine, KeepsLines
    <2>2. pc = LastLine.address
      BY <1>1, <1>4 DEF PcFollowsTheLines
    <2> QED
      BY <2>1, <2>2 DEF PcFollowsTheLines
  <1> QED
    BY <1>6, <1>7, <1>8 DEF AddressesInv

-----------------------------------------------------------------------------
(***************************************************************************)
(* Each action keeps the addresses.                                        *)
(***************************************************************************)
LEMMA ParseLineKeepsAddresses ==
    ASSUME IInv, AddressesInv, NEW stmt \in Statements, ParseLine(stmt),
           TypeOK', ~failed'
    PROVE  AddressesInv'
  <1> DEFINE scope == IF stmt.label \in GlobalNames THEN stmt.label
                      ELSE globalLabel
             new   == NewLine(stmt, scope)
             n     == Len(lines)
  <1>1. /\ lines' = Append(lines, new) /\ phase = "read" /\ phase' = "parsed"
        /\ UNCHANGED <<pc, failed>>
    BY DEF ParseLine
  <1>2. new.address = pc
    BY DEF NewLine
  <1> HIDE DEF new
  <1>3. /\ n \in Nat /\ DOMAIN lines = 1 .. n /\ lines \in Seq(Line)
    BY DEF IInv, TypeOK
  <1>4. /\ Len(lines') = n + 1 /\ DOMAIN lines' = 1 .. n + 1
        /\ \A j \in 1 .. n : lines'[j] = lines[j]
        /\ lines'[n + 1] = new
    BY <1>1, <1>3
  <1>5. LinesAreContiguous /\ InstructionsHaveSize /\ PcFollowsTheLines
    BY <1>1 DEF AddressesInv
  <1>6. LinesAreContiguous'
    <2> SUFFICES ASSUME NEW j \in 1 .. n
                 PROVE  lines'[j + 1].address =
                            (lines'[j].address + lines'[j].size) % 65536
      BY <1>3, <1>4 DEF LinesAreContiguous
    <2>1. CASE j = n
      <3>1. lines # <<>> /\ LastLine = lines[j]
        BY <1>3, <2>1 DEF LastLine
      <3>2. pc = (lines[j].address + lines[j].size) % 65536
        BY <1>1, <1>5, <3>1 DEF PcFollowsTheLines
      <3> QED
        BY <1>2, <1>4, <2>1, <3>2
    <2>2. CASE j # n
      <3>1. j \in 1 .. n - 1 /\ j + 1 \in 1 .. n
        <4> HIDE DEF n
        <4> QED
          BY <1>3, <2>2
      <3>2. lines[j + 1].address = (lines[j].address + lines[j].size) % 65536
        BY <1>1, <1>5, <3>1 DEF LinesAreContiguous
      <3> QED
        BY <1>4, <3>1, <3>2
    <2> QED
      BY <2>1, <2>2
  <1>7. InstructionsHaveSize'
    <2> SUFFICES ASSUME NEW j \in 1 .. n + 1, IsInstruction(j)', j # n + 1
                 PROVE  lines'[j].size # 0
      BY <1>1, <1>4 DEF InstructionsHaveSize
    <2>1. j \in 1 .. n
      BY <1>3
    <2>2. IsInstruction(j) /\ j \in DOMAIN lines
      BY <1>3, <1>4, <2>1 DEF IsInstruction
    <2> QED
      BY <1>1, <1>4, <1>5, <2>1, <2>2 DEF InstructionsHaveSize
  <1>8. PcFollowsTheLines'
    BY <1>1, <1>2, <1>4 DEF PcFollowsTheLines, LastLine
  <1> QED
    BY <1>6, <1>7, <1>8 DEF AddressesInv

LEMMA AdvanceKeepsAddresses ==
    ASSUME IInv, AddressesInv, AdvanceProgramCounter, ~failed'
    PROVE  AddressesInv'
  <1>1. /\ phase = "labelled" /\ phase' = "read"
        /\ pc' = (pc + LastLine.size) % 65536
        /\ UNCHANGED <<lines, failed>>
    BY DEF AdvanceProgramCounter, NextProgramCounter, LastLine
  <1>2. LinesAreContiguous /\ InstructionsHaveSize /\ PcFollowsTheLines
    BY <1>1 DEF AddressesInv
  <1>3. pc = LastLine.address
    BY <1>1, <1>2 DEF PcFollowsTheLines, IInv, PhaseOK
  <1>4. LinesAreContiguous'
    BY <1>1, <1>2 DEF LinesAreContiguous
  <1>5. InstructionsHaveSize'
    BY <1>1, <1>2 DEF InstructionsHaveSize, IsInstruction
  <1>6. PcFollowsTheLines'
    BY <1>1, <1>3 DEF PcFollowsTheLines, LastLine
  <1> QED
    BY <1>4, <1>5, <1>6 DEF AddressesInv

LEMMA StepKeepsAddresses ==
    ASSUME IInv, AddressesInv, [Next]_vars
    PROVE  AddressesInv'
  <1>1. CASE failed'
    BY <1>1 DEF AddressesInv, LinesAreContiguous
  <1>2. CASE ~failed'
    <2>1. TypeOK'
      BY StepKeeps DEF IInv
    <2>2. TypeOK
      BY DEF IInv
    <2>3. ASSUME UNCHANGED <<lines, pc, failed>>,
                 \/ phase' = phase
                 \/ phase = "read" /\ phase' = "done"
                 \/ phase = "assembled" /\ phase' = "labelled"
          PROVE  AddressesInv'
      <3>1. /\ LinesAreContiguous /\ InstructionsHaveSize /\ PcFollowsTheLines
        BY <1>2, <2>3 DEF AddressesInv
      <3>2. LinesAreContiguous'
        BY <2>3, <3>1 DEF LinesAreContiguous
      <3>3. InstructionsHaveSize'
        BY <2>3, <3>1 DEF InstructionsHaveSize, IsInstruction
      <3>4. PcFollowsTheLines'
        BY <2>3, <3>1 DEF PcFollowsTheLines, LastLine
      <3> QED
        BY <3>2, <3>3, <3>4 DEF AddressesInv
    <2>4. ASSUME NEW stmt \in Statements, ParseLine(stmt)
          PROVE  AddressesInv'
      BY <1>2, <2>1, <2>4, ParseLineKeepsAddresses
    <2>5. CASE AssembleSourceLine
      <3>1. Len(lines) \in 1 .. Len(lines)
        BY <2>5 DEF IInv, TypeOK, PhaseOK, AssembleSourceLine
      <3>2. KeepsLines(Len(lines))
        BY <1>2, <2>1, <2>2, <2>5, <3>1, FirstPassKeepsLines
           DEF AssembleSourceLine
      <3> QED
        BY <2>5, <3>1, <3>2, KeptLinesKeepAddresses DEF AssembleSourceLine
    <2>6. CASE UpdateLine
      <3> DEFINE k == Last(calls)
                 i == Head(cursor[k])
      <3>1. calls # <<>> /\ cursor[k] # <<>>
        BY <2>6 DEF UpdateLine
      <3>2. phase \in {"assembled", "labelled"} /\ phase' = phase /\ pc' = pc
        BY <2>6, <3>1 DEF UpdateLine, IInv, PhaseOK
      <3>3. k \in Keys
        BY <2>2, <3>1 DEF TypeOK, Last
      <3>4. cursor[k] \in Seq(1 .. Len(lines))
        BY <2>2, <3>3 DEF TypeOK
      <3>5. i \in 1 .. Len(lines)
        BY <3>1, <3>4, HeadTailProperties
      <3>6. FirstPassAssembleLine(i,
                [refs EXCEPT ![k] = LineReferenceRemove(i, @)],
                LineReferenceEnumNext(k))
        BY <2>6 DEF UpdateLine
      <3> HIDE DEF i, k
      <3>7. KeepsLines(i)
        BY <1>2, <2>1, <2>2, <3>5, <3>6, FirstPassKeepsLines
      <3> QED
        BY <3>2, <3>5, <3>7, KeptLinesKeepAddresses
    <2>7. CASE FinishUpdate
      BY <2>3, <2>7 DEF FinishUpdate
    <2>8. CASE AddUnhandledLabel
      <3>1. failed' = failed
        BY <1>2, <2>8 DEF AddUnhandledLabel, AttemptToAddSymbol
      <3> QED
        BY <2>3, <2>8, <3>1 DEF AddUnhandledLabel
    <2>9. CASE AdvanceProgramCounter
      BY <1>2, <2>9, AdvanceKeepsAddresses
    <2>10. CASE EndOfSource
      <3>1. failed' = failed
        BY <1>2, <2>2, <2>10 DEF EndOfSource, TypeOK
      <3> QED
        BY <2>3, <2>10, <3>1 DEF EndOfSource
    <2>11. CASE UNCHANGED vars
      BY <2>3, <2>11 DEF vars
    <2> QED
      BY <2>4, <2>5, <2>6, <2>7, <2>8, <2>9, <2>10, <2>11 DEF Next
  <1> QED
    BY <1>1, <1>2

LEMMA InitEstablishesAddresses == Init => AddressesInv
  <1> SUFFICES ASSUME Init PROVE AddressesInv
    OBVIOUS
  <1>1. lines = <<>> /\ Len(lines) = 0 /\ DOMAIN lines = {}
    BY DEF Init
  <1> QED
    BY <1>1 DEF AddressesInv, LinesAreContiguous, InstructionsHaveSize,
       PcFollowsTheLines

(* The code of each line ends where that of the next line begins, modulo   *)
(* 2^16, unless an error was reported: a line that is assembled again, in  *)
(* whatever nesting of updates, cannot change the size that the addresses  *)
(* behind it were counted with.                                            *)
THEOREM LinesStayContiguous == Spec => []LinesAreContiguous
  <1>1. IInv /\ AddressesInv /\ [Next]_vars => AddressesInv'
    BY StepKeepsAddresses
  <1>2. AddressesInv => LinesAreContiguous
    BY DEF AddressesInv
  <1> QED
    BY <1>1, <1>2, InitEstablishesAddresses, Invariance, PTL DEF Spec

-----------------------------------------------------------------------------
(***************************************************************************)
(* The machine code: what is written is the code of each operand under the *)
(* final symbol table, however the definitions and the uses are ordered    *)
(* and however the updates nest, and a branch that is written reaches its  *)
(* target.                                                                 *)
(***************************************************************************)

-----------------------------------------------------------------------------
(***************************************************************************)
(* What the strengthening is stated with.                                  *)
(***************************************************************************)
(* The name a key was made of. *)
KeyName(k) == IF k[2] = NoName THEN k[1] ELSE k[2]

GlobalKey(name) == <<name, NoName>>

IsFinal(k) == IsDefined(k) /\ ~symbols[k].fwd

(* Evaluate, of a symbol table, a global label and a program counter. *)
TermUnder(table, name, scope) ==
    IF name = NoName
    THEN [value |-> 0, zp |-> TRUE, fwd |-> FALSE]
    ELSE LET s == table[KeyOf(name, scope)]
         IN  [value |-> s.value, zp |-> s.zp, fwd |-> s.fwd \/ s.line = 0]

ExprUnder(table, operand, scope, here) ==
    LET x   == TermUnder(table, operand.first, scope)
        y   == TermUnder(table, operand.second, scope)
        sum == operand.const + (IF operand.here THEN here ELSE 0)
                   + x.value + y.value
    IN  [value |-> sum,
         zp    |-> x.zp /\ y.zp /\ sum <= 255,
         fwd   |-> x.fwd \/ y.fwd]

(* The operand of a line where the line was assembled last. *)
LastExpr(table, line) ==
    ExprUnder(table, line.stmt.operand, line.in, line.at)

OperandKeys(line) ==
    {KeyOf(n, line.in) : n \in OperandNames(line.stmt.operand)}

SymbolAs(j, expr) ==
    [line |-> j, value |-> expr.value, zp |-> expr.zp, fwd |-> expr.fwd]

AddressExpr(line) ==
    [value |-> line.address, zp |-> line.address <= 255, fwd |-> FALSE]

(* The names that no variable reaches through the EQUs read so far. *)
Steady ==
    UNION {names \in SUBSET (GlobalNames \cup LocalNames) : AreClosed(names)}

IsSteady(line) == OperandNames(line.stmt.operand) \subseteq Steady

(* The next definition of the current line's label is an error. *)
IsRedefinition ==
    /\ phase \in {"parsed", "assembled"}
    /\ LastLine.stmt.label \in GlobalNames
    /\ symbols[GlobalKey(LastLine.stmt.label)].line \notin {0, Len(lines)}

(* A local label that will not be defined any more. *)
IsPast(x) ==
    /\ x[2] # NoName
    /\ ~IsDefined(x)
    /\ x[1] # globalLabel \/ IsRedefinition

-----------------------------------------------------------------------------
(***************************************************************************)
(* The strengthening.                                                      *)
(***************************************************************************)
(* A symbol is that of a line with its name: of a line's address, or of an *)
(* EQU.                                                                    *)
SymbolsHaveLines ==
    \A k \in Keys : IsDefined(k) =>
        LET j == symbols[k].line
        IN  /\ j \in DOMAIN lines
            /\ lines[j].stmt.label = KeyName(k)
            /\ lines[j].stmt.op # "equ" =>
                   symbols[k] = SymbolAs(j, AddressExpr(lines[j]))
            /\ lines[j].stmt.op = "equ" => k[2] = NoName /\ lines[j].wasEqu

(* A symbol with a final value has the value its EQU's operand has now. *)
EquatesAreCurrent ==
    \A k \in Keys : IsFinal(k) /\ KeyName(k) \in Steady =>
        LET line == lines[symbols[k].line]
        IN  line.stmt.op = "equ" =>
                symbols[k] = SymbolAs(symbols[k].line, LastExpr(symbols, line))

(* An EQU that succeeded is the one that defines its label. *)
EquatesDefine ==
    /\ \A j \in DOMAIN lines :
          lines[j].wasEqu /\ lines[j].stmt.label \in GlobalNames =>
              symbols[GlobalKey(lines[j].stmt.label)].line = j
    /\ phase = "assembled" /\ LastLine.stmt.op = "equ" => LastLine.wasEqu
    /\ phase = "parsed" => \A k \in Keys : symbols[k].line # Len(lines)

(* A line waits for symbols of its operand. *)
LinksAreOfOperands ==
    \A x \in Keys : \A j \in Range(refs[x]) :
        KeyName(x) \in OperandNames(lines[j].stmt.operand)

(* An assembled line has looked up all of its operand. *)
KeysAreOperands ==
    \A i \in DOMAIN lines :
        lines[i].size # 0 \/ lines[i].wasEqu =>
            lines[i].keys = OperandKeys(lines[i])

(* A global label that another has followed is defined, so that it cannot  *)
(* become the global label again without an error.                         *)
ScopesPass ==
    /\ \/ globalLabel = NoName
       \/ IsDefined(GlobalKey(globalLabel))
       \/ LastLine.stmt.label = globalLabel /\ phase \in {"parsed", "assembled"}
    /\ \A x \in Keys : refs[x] # <<>> /\ x[2] # NoName =>
           x[1] = globalLabel \/ IsDefined(GlobalKey(x[1]))

(* An EQU with a final value that may be assembled again, because it is    *)
(* still on a list, was assembled where it would be assembled now.         *)
EquatesAreFresh ==
    \A k \in Keys : IsFinal(k) /\ KeyName(k) \in Steady =>
        LET j == symbols[k].line
        IN  lines[j].stmt.op = "equ" =>
                \A x \in Keys : j \in Range(refs[x]) =>
                    \/ lines[j].at = pc /\ lines[j].in = globalLabel
                    \/ IsPast(x)

IsRegular(i) ==
    /\ lines[i].stmt.op \in Instructions
    /\ lines[i].size # 0
    /\ ~lines[i].missed
    /\ IsSteady(lines[i])

IsWaiting(i) == \E k \in lines[i].keys : i \in Range(refs[k])

(* An instruction waits for each symbol of its operand that is not final. *)
InstructionsWait ==
    \A i \in DOMAIN lines : IsRegular(i) =>
        \A k \in lines[i].keys : i \in Range(refs[k]) \/ IsFinal(k)

IsCodeOf(line, expr) ==
    /\ line.size = CodeSize(line.stmt.op, expr)
    /\ line.code = CodeBytes(line.stmt.op, line.address, expr)
    /\ line.stmt.op = "branch" =>
           IsInReach(BranchOffset(line.address, expr.value))

(* The code of an instruction that waits for no symbol is that of its      *)
(* operand now.                                                            *)
CodeIsCurrent ==
    \A i \in DOMAIN lines : IsRegular(i) /\ ~IsWaiting(i) =>
        IsCodeOf(lines[i], LastExpr(symbols, lines[i]))

CodeParts ==
    /\ SymbolsHaveLines
    /\ EquatesAreCurrent
    /\ EquatesDefine
    /\ LinksAreOfOperands
    /\ KeysAreOperands
    /\ ScopesPass
    /\ EquatesAreFresh
    /\ InstructionsWait
    /\ CodeIsCurrent

CodeInv == ~failed => CodeParts

-----------------------------------------------------------------------------
(***************************************************************************)
(* The operators.                                                          *)
(***************************************************************************)
LEMMA KeyParts ==
    ASSUME NEW k \in Keys
    PROVE  /\ \/ k[1] \in GlobalNames \cup VariableNames /\ k[2] = NoName
              \/ k[1] \in GlobalNames /\ k[2] \in LocalNames
           /\ k = <<k[1], k[2]>>
           /\ k[2] = NoName => KeyName(k) = k[1] /\ k = GlobalKey(k[1])
           /\ k[2] # NoName => KeyName(k) = k[2] /\ k[2] \in LocalNames
  BY DEF Keys, KeyName, GlobalKey, Names

(* The key of a name is made of it, and only a local one's depends on the  *)
(* scope.                                                                  *)
LEMMA KeyOfName ==
    ASSUME NEW name \in Names, NEW scope
    PROVE  /\ KeyName(KeyOf(name, scope)) = name
           /\ name \in LocalNames => /\ KeyOf(name, scope)[1] = scope
                                     /\ KeyOf(name, scope)[2] = name
           /\ name \notin LocalNames =>
                  /\ KeyOf(name, scope) = GlobalKey(name)
                  /\ KeyOf(name, scope)[1] = name
                  /\ KeyOf(name, scope)[2] = NoName
  BY DEF KeyOf, KeyName, GlobalKey, Names

LEMMA SteadyNames ==
    /\ Steady \subseteq GlobalNames \cup LocalNames
    /\ NoName \notin Steady
    /\ Steady \cap VariableNames = {}
  <1>1. Steady \subseteq GlobalNames \cup LocalNames
    BY DEF Steady
  <1> QED
    BY <1>1 DEF Names

LEMMA UsesNoVariableIsSteady ==
    ASSUME NEW line, UsesNoVariable(line)
    PROVE  IsSteady(line)
  BY DEF UsesNoVariable, IsSteady, Steady

(* The operand of a steady label's EQU names steady symbols only. *)
LEMMA SteadyEquate ==
    ASSUME NEW j \in DOMAIN lines, lines[j].stmt.op = "equ",
           lines[j].stmt.label \in Steady
    PROVE  IsSteady(lines[j])
  <1>1. PICK names \in SUBSET (GlobalNames \cup LocalNames) :
            AreClosed(names) /\ lines[j].stmt.label \in names
    BY DEF Steady
  <1>2. OperandNames(lines[j].stmt.operand) \subseteq names
    BY <1>1 DEF AreClosed
  <1> QED
    BY <1>1, <1>2 DEF IsSteady, Steady

(* Reading more lines makes no name steady. *)
LEMMA SteadyShrinks ==
    ASSUME \A j \in DOMAIN lines :
               j \in DOMAIN lines' /\ lines'[j].stmt = lines[j].stmt
    PROVE  Steady' \subseteq Steady
  <1> SUFFICES ASSUME NEW names \in SUBSET (GlobalNames \cup LocalNames),
                      AreClosed(names)'
               PROVE  AreClosed(names)
    BY DEF Steady
  <1>1. names \cap VariableNames = {}
    BY DEF AreClosed
  <1>2. ASSUME NEW j \in DOMAIN lines, lines[j].stmt.op = "equ",
               lines[j].stmt.label \in names
        PROVE  OperandNames(lines[j].stmt.operand) \subseteq names
    BY <1>2 DEF AreClosed
  <1> QED
    BY <1>1, <1>2 DEF AreClosed

LEMMA EvaluateIsExprUnder ==
    ASSUME TypeOK, NEW operand \in Operand, IsEvaluated(operand)
    PROVE  Evaluate(operand) = ExprUnder(symbols, operand, globalLabel, pc)
  <1> DEFINE X == TermUnder(symbols, operand.first, globalLabel)
             Y == TermUnder(symbols, operand.second, globalLabel)
             H == IF operand.here THEN pc ELSE 0
  <1>1. X = Term(operand.first) /\ Y = Term(operand.second)
    BY DEF Term, TermUnder
  <1>2. Evaluate(operand) =
            LET sum == operand.const + H + X.value + Y.value
            IN  [value |-> sum, zp |-> X.zp /\ Y.zp /\ sum <= 255,
                 fwd |-> X.fwd \/ Y.fwd]
    BY <1>1 DEF Evaluate
  <1> QED
    BY <1>2 DEF ExprUnder

(* An operand depends on the symbols it names, and on no other. *)
LEMMA ExprKept ==
    ASSUME NEW operand, NEW scope, NEW here, NEW table, NEW new,
           \A n \in OperandNames(operand) :
               new[KeyOf(n, scope)] = table[KeyOf(n, scope)]
    PROVE  ExprUnder(new, operand, scope, here) =
               ExprUnder(table, operand, scope, here)
  <1>1. /\ operand.first # NoName => operand.first \in OperandNames(operand)
        /\ operand.second # NoName => operand.second \in OperandNames(operand)
    BY DEF OperandNames
  <1>2. /\ TermUnder(new, operand.first, scope) =
               TermUnder(table, operand.first, scope)
        /\ TermUnder(new, operand.second, scope) =
               TermUnder(table, operand.second, scope)
    BY <1>1 DEF TermUnder
  <1> QED
    BY <1>2 DEF ExprUnder

(* An operand is forward as long as one of its symbols is not final. *)
LEMMA ForwardOperand ==
    ASSUME NEW operand, NEW scope, NEW here
    PROVE  ExprUnder(symbols, operand, scope, here).fwd <=>
               \E n \in OperandNames(operand) : ~IsFinal(KeyOf(n, scope))
  <1>1. ExprUnder(symbols, operand, scope, here).fwd <=>
            \/ TermUnder(symbols, operand.first, scope).fwd
            \/ TermUnder(symbols, operand.second, scope).fwd
    BY DEF ExprUnder
  <1>2. \A n : n # NoName =>
            (TermUnder(symbols, n, scope).fwd <=> ~IsFinal(KeyOf(n, scope)))
    BY DEF TermUnder, IsFinal, IsDefined
  <1>3. ~TermUnder(symbols, NoName, scope).fwd
    BY DEF TermUnder
  <1> QED
    BY <1>1, <1>2, <1>3 DEF OperandNames

-----------------------------------------------------------------------------
(***************************************************************************)
(* What a step within a source line does to line i, when it reports no     *)
(* error: nothing, or it assembles an instruction or an EQU, or it defines *)
(* a label as the line's address.                                          *)
(***************************************************************************)
(* Other lines are left alone, and they stay on the lists they are on. *)
KeepsOthers(i) ==
    /\ ~failed /\ ~failed'
    /\ pc' = pc /\ globalLabel' = globalLabel
    /\ DOMAIN lines' = DOMAIN lines /\ Len(lines') = Len(lines)
    /\ \A j \in DOMAIN lines : j # i => lines'[j] = lines[j]
    /\ lines'[i].stmt = lines[i].stmt
    /\ lines'[i].address = lines[i].address
    /\ \A x \in Keys : \A j \in Range(refs'[x]) : j # i => j \in Range(refs[x])
    /\ \A x \in Keys : \A j \in Range(refs[x]) : j # i => j \in Range(refs'[x])

LeavesLine(i) ==
    /\ KeepsOthers(i)
    /\ lines'[i] = lines[i]
    /\ \A x \in Keys : i \in Range(refs'[x]) => i \in Range(refs[x])

(* The operand of line i is looked up here and now. *)
LooksUp(i) ==
    /\ KeepsOthers(i)
    /\ lines'[i].at = pc
    /\ lines'[i].in = globalLabel
    /\ lines'[i].keys = OperandKeys(lines'[i])
    /\ lines'[i].missed =
           \E k \in lines'[i].keys : IsDefined(k) /\ symbols[k].fwd
    /\ \A x \in Keys : i \in Range(refs'[x]) =>
           i \in Range(refs[x]) \/ x \in lines'[i].keys
    /\ \A x \in lines'[i].keys : ~IsDefined(x) => i \in Range(refs'[x])

LabelKey(i) == KeyOf(lines[i].stmt.label, globalLabel)

Defines(i, expr) ==
    /\ lines[i].stmt.label \in Names
    /\ CanDefine(i, lines[i].stmt.label)
    /\ LabelKey(i) \in Keys
    /\ symbols' = [symbols EXCEPT ![LabelKey(i)] = SymbolAs(i, expr)]

Idles(i) == LeavesLine(i) /\ symbols' = symbols

IdlesAsNothing(i) == Idles(i) /\ lines[i].stmt.op = "none"

(* addUnhandledLabel on a line without a label, or with an EQU's. *)
IdlesAsHandled(i) ==
    Idles(i) /\ (lines[i].stmt.label = NoName \/ lines[i].wasEqu)

Instructs(i) ==
    /\ LooksUp(i)
    /\ lines[i].stmt.op \in Instructions
    /\ lines'[i].wasEqu = lines[i].wasEqu
    /\ LET expr == LastExpr(symbols, lines'[i])
       IN  /\ lines'[i].size = CodeSize(lines[i].stmt.op, expr)
           /\ lines'[i].code =
                  CodeBytes(lines[i].stmt.op, lines[i].address, expr)
           /\ ~IsRefused(lines[i].stmt.op, lines[i].address, expr)
    /\ symbols' = symbols

Equates(i) ==
    /\ LooksUp(i)
    /\ lines[i].stmt.op = "equ"
    /\ lines'[i].wasEqu
    /\ lines[i].stmt.label \notin LocalNames
    /\ Defines(i, LastExpr(symbols, lines'[i]))

Labels(i) ==
    /\ LeavesLine(i)
    /\ lines[i].stmt.op # "equ"
    /\ Defines(i, AddressExpr(lines[i]))

Assembles(i) == IdlesAsNothing(i) \/ Instructs(i) \/ Equates(i)

(* The steps of a source line: it is assembled, a line that waits for a    *)
(* symbol that is defined is, or its label is defined.                     *)
InLine(i) ==
    /\ i \in DOMAIN lines
    /\ \/ /\ Assembles(i) /\ i = Len(lines)
          /\ phase = "parsed" /\ phase' = "assembled"
       \/ /\ Assembles(i)
          /\ \E x \in Keys : IsDefined(x) /\ i \in Range(refs[x])
          /\ phase \in {"assembled", "labelled"} /\ phase' = phase
       \/ /\ IdlesAsHandled(i) \/ Labels(i)
          /\ i = Len(lines) /\ refs' = refs
          /\ phase = "assembled" /\ phase' = "labelled"

(* Linking line i puts it on no other list, and takes no line off one. *)
LEMMA AddedLinks ==
    ASSUME TypeOK, NEW i \in 1 .. Len(lines), NEW keys,
           NEW rs \in Lists(Len(lines)), NEW x \in Keys
    PROVE  LET new == LineReferenceAdd(i, keys, rs)
           IN  /\ Range(rs[x]) \subseteq Range(new[x])
               /\ \A j \in Range(new[x]) : j # i => j \in Range(rs[x])
               /\ i \in Range(new[x]) => i \in Range(rs[x]) \/ x \in keys
               /\ x \in keys /\ ~IsDefined(x) => i \in Range(new[x])
  <1> DEFINE new == LineReferenceAdd(i, keys, rs)[x]
  <1>1. new = IF x \in keys /\ ~IsDefined(x) /\ i \notin Range(rs[x])
              THEN <<i>> \o rs[x] ELSE rs[x]
    BY DEF LineReferenceAdd
  <1>2. rs[x] \in Seq(1 .. Len(lines)) /\ Len(lines) \in Nat
    BY DEF Lists, TypeOK
  <1>3. Range(<<i>> \o rs[x]) = {i} \cup Range(rs[x])
    <2> DEFINE list == <<i>> \o rs[x]
    <2>1. /\ Len(list) = 1 + Len(rs[x])
          /\ list[1] = i
          /\ \A j \in 1 .. Len(rs[x]) : list[j + 1] = rs[x][j]
          /\ list \in Seq(1 .. Len(lines))
      <3>1. <<i>> \in Seq(1 .. Len(lines))
        OBVIOUS
      <3> QED
        BY <1>2, <3>1, ConcatProperties
    <2>2. /\ DOMAIN list = 1 .. Len(rs[x]) + 1
          /\ DOMAIN rs[x] = 1 .. Len(rs[x]) /\ Len(rs[x]) \in Nat
      BY <1>2, <2>1
    <2> HIDE DEF list
    <2>3. ASSUME NEW j \in DOMAIN list
          PROVE  list[j] = i \/ list[j] \in Range(rs[x])
      <3>1. j = 1 \/ (j - 1 \in DOMAIN rs[x] /\ j = (j - 1) + 1)
        BY <2>2
      <3>2. \A m \in DOMAIN rs[x] : rs[x][m] \in Range(rs[x])
        BY DEF Range
      <3>3. \A m \in DOMAIN rs[x] : list[m + 1] = rs[x][m]
        BY <2>1, <2>2
      <3>4. CASE j = 1
        BY <2>1, <3>4
      <3>5. CASE j - 1 \in DOMAIN rs[x] /\ j = (j - 1) + 1
        <4>1. list[(j - 1) + 1] = rs[x][j - 1]
          BY <3>3, <3>5
        <4> QED
          BY <3>2, <3>5, <4>1
      <3> QED
        BY <3>1, <3>4, <3>5
    <2>4. i \in Range(list)
      <3>1. 1 \in DOMAIN list
        BY <2>2
      <3> QED
        BY <2>1, <3>1 DEF Range
    <2>5. ASSUME NEW m \in DOMAIN rs[x]
          PROVE  rs[x][m] \in Range(list)
      <3>1. m + 1 \in DOMAIN list /\ list[m + 1] = rs[x][m]
        BY <2>1, <2>2
      <3> QED
        BY <3>1 DEF Range
    <2>6. Range(list) \subseteq {i} \cup Range(rs[x])
      BY <2>3 DEF Range
    <2>7. Range(rs[x]) \subseteq Range(list)
      BY <2>5 DEF Range
    <2> QED
      BY <2>4, <2>6, <2>7 DEF list
  <1> QED
    BY <1>1, <1>3

(* Removing line i from a list takes no other line off it. *)
LEMMA RemovedLinks ==
    ASSUME NEW n \in Nat, NEW list \in Seq(1 .. n), list # <<>>,
           IsDistinct(list)
    PROVE  LET new == LineReferenceRemove(Head(list), list)
           IN  /\ Range(new) \subseteq Range(list)
               /\ \A j \in Range(list) : j # Head(list) => j \in Range(new)
  <1>1. LineReferenceRemove(Head(list), list) = Tail(list)
    BY RemovedHeadLeavesTail
  <1>2. /\ Len(list) \in Nat \ {0} /\ DOMAIN list = 1 .. Len(list)
        /\ DOMAIN Tail(list) = 1 .. Len(list) - 1
        /\ \A a \in DOMAIN Tail(list) :
              a + 1 \in DOMAIN list /\ Tail(list)[a] = list[a + 1]
        /\ Head(list) = list[1]
    BY HeadTailProperties
  <1>3. Range(Tail(list)) \subseteq Range(list)
    BY <1>2 DEF Range
  <1>4. ASSUME NEW a \in DOMAIN list, list[a] # Head(list)
        PROVE  list[a] \in Range(Tail(list))
    <2>1. a # 1
      BY <1>2, <1>4
    <2>2. a - 1 \in DOMAIN Tail(list) /\ (a - 1) + 1 = a
      BY <1>2, <2>1
    <2>3. Tail(list)[a - 1] = list[a]
      <3>1. Tail(list)[a - 1] = list[(a - 1) + 1]
        BY <1>2, <2>2
      <3> QED
        BY <2>2, <3>1
    <2> QED
      BY <2>2, <2>3 DEF Range
  <1> QED
    BY <1>1, <1>3, <1>4 DEF Range

(* A line is assembled with lists from which it alone may have been taken. *)
AreListsWithout(i, rs) ==
    /\ rs \in Lists(Len(lines))
    /\ \A x \in Keys :
          /\ Range(rs[x]) \subseteq Range(refs[x])
          /\ \A j \in Range(refs[x]) : j # i => j \in Range(rs[x])

LEMMA LookedFields ==
    ASSUME TypeOK, NEW i \in 1 .. Len(lines),
           IsEvaluated(lines[i].stmt.operand)
    PROVE  LET line == Looked(lines[i])
           IN  /\ line.stmt = lines[i].stmt
               /\ line.address = lines[i].address
               /\ line.size = lines[i].size
               /\ line.wasEqu = lines[i].wasEqu
               /\ line.at = pc
               /\ line.in = globalLabel
               /\ line.keys = OperandKeys(line)
               /\ line.missed = \E k \in line.keys :
                                    IsDefined(k) /\ symbols[k].fwd
  <1> DEFINE line    == Looked(lines[i])
             operand == lines[i].stmt.operand
             keys    == KeysLookedUp(operand)
  <1>1. lines[i] \in Line
    BY ElementOfSeq DEF TypeOK
  <1>2. line = [lines[i] EXCEPT !.keys = keys, !.at = pc, !.in = globalLabel,
                    !.missed = \E k \in keys : IsDefined(k) /\ symbols[k].fwd]
    BY DEF Looked
  <1>3. operand \in Operand
    BY <1>1 DEF Line, Statement
  <1>4. NamesLookedUp(operand) = OperandNames(operand)
    <2>1. IsValidName(operand.first)
      BY <1>3 DEF IsEvaluated, OperandNames, IsValidName, Operand, Names
    <2> QED
      BY <2>1 DEF NamesLookedUp, IsEvaluated
  <1>5. keys = {KeyOf(n, globalLabel) : n \in OperandNames(operand)}
    BY <1>4 DEF KeysLookedUp
  <1> DEFINE missed == \E k \in keys : IsDefined(k) /\ symbols[k].fwd
  <1> HIDE DEF keys
  <1>6. /\ line.stmt = lines[i].stmt
        /\ line.address = lines[i].address
        /\ line.size = lines[i].size
        /\ line.wasEqu = lines[i].wasEqu
        /\ line.at = pc
        /\ line.in = globalLabel
        /\ line.keys = keys
        /\ line.missed = missed
    <2>1. line = [lines[i] EXCEPT !.keys = keys, !.at = pc,
                                  !.in = globalLabel, !.missed = missed]
      BY <1>2
    <2> HIDE DEF missed, line
    <2> QED
      BY <1>1, <2>1 DEF Line
  <1>7. OperandKeys(line) = keys
    BY <1>5, <1>6 DEF OperandKeys
  <1> QED
    BY <1>6, <1>7

LEMMA FirstPassSteps ==
    ASSUME IInv, NEW i \in 1 .. Len(lines), NEW rs, NEW cs,
           AreListsWithout(i, rs), FirstPassAssembleLine(i, rs, cs),
           ~failed', pc' = pc, globalLabel' = globalLabel
    PROVE  Assembles(i)
  <1> DEFINE line    == Looked(lines[i])
             operand == line.stmt.operand
             op      == line.stmt.op
             label   == line.stmt.label
             expr    == Evaluate(operand)
  <1>1. /\ TypeOK /\ i \in DOMAIN lines /\ lines[i] \in Line
        /\ DOMAIN lines = 1 .. Len(lines)
        /\ line \in Line /\ line.stmt = lines[i].stmt
        /\ lines[i].stmt \in Statement
    BY LookedType, ElementOfSeq DEF IInv, TypeOK
  <1>2. operand \in Operand /\ label \in Names \cup {NoName}
    BY <1>1 DEF Statement
  <1>3. ASSUME NEW keys, refs' = LineReferenceAdd(i, keys, rs), NEW x \in Keys
        PROVE  /\ \A j \in Range(refs'[x]) : j # i => j \in Range(refs[x])
               /\ \A j \in Range(refs[x]) : j # i => j \in Range(refs'[x])
               /\ i \in Range(refs'[x]) => i \in Range(refs[x]) \/ x \in keys
               /\ x \in keys /\ ~IsDefined(x) => i \in Range(refs'[x])
    <2>1. rs \in Lists(Len(lines))
      BY DEF AreListsWithout
    <2>2. /\ Range(rs[x]) \subseteq Range(refs'[x])
          /\ \A j \in Range(refs'[x]) : j # i => j \in Range(rs[x])
          /\ i \in Range(refs'[x]) => i \in Range(rs[x]) \/ x \in keys
          /\ x \in keys /\ ~IsDefined(x) => i \in Range(refs'[x])
      BY <1>1, <1>3, <2>1, AddedLinks
    <2> QED
      BY <2>2 DEF AreListsWithout
  <1>4. CASE AssembleNothing(i, rs, cs)
    <2>1. /\ lines' = lines /\ symbols' = symbols /\ refs' = rs /\ ~failed
          /\ lines[i].stmt.op = "none"
      BY <1>4 DEF AssembleNothing
    <2> QED
      BY <2>1 DEF Assembles, IdlesAsNothing, Idles, LeavesLine, KeepsOthers, AreListsWithout
  <1>5. ASSUME NEW new \in Line, lines' = [lines EXCEPT ![i] = new],
               IsEvaluated(operand), ~failed,
               refs' = LineReferenceAdd(i, line.keys, rs),
               new.stmt = line.stmt, new.address = line.address,
               new.at = line.at, new.in = line.in, new.keys = line.keys,
               new.missed = line.missed
        PROVE  LooksUp(i) /\ lines'[i] = new /\ LastExpr(symbols, new) = expr
    <2>1. /\ Len(lines') = Len(lines)
          /\ lines'[i] = new
          /\ \A j \in DOMAIN lines : j # i => lines'[j] = lines[j]
      BY <1>1, <1>5, AssembledLine
    <2>2. DOMAIN lines' = DOMAIN lines
      BY <1>5
    <2>3. /\ line.address = lines[i].address
          /\ line.at = pc /\ line.in = globalLabel
          /\ line.keys = OperandKeys(line)
          /\ line.missed = \E k \in line.keys : IsDefined(k) /\ symbols[k].fwd
      BY <1>1, <1>5, LookedFields
    <2>4. line.keys \subseteq Keys
      BY <1>1 DEF Line
    <2>5. OperandKeys(new) = OperandKeys(line)
      BY <1>5 DEF OperandKeys
    <2>6. LastExpr(symbols, new) = expr
      BY <1>1, <1>2, <1>5, <2>3, EvaluateIsExprUnder DEF LastExpr
    <2>7. KeepsOthers(i)
      <3>1. \A x \in Keys :
                /\ \A j \in Range(refs'[x]) : j # i => j \in Range(refs[x])
                /\ \A j \in Range(refs[x]) : j # i => j \in Range(refs'[x])
        BY <1>3, <1>5
      <3> HIDE DEF line
      <3> QED
        BY <1>1, <1>5, <2>1, <2>2, <2>3, <3>1 DEF KeepsOthers
    <2>8. /\ \A x \in Keys : i \in Range(refs'[x]) =>
                 i \in Range(refs[x]) \/ x \in line.keys
          /\ \A x \in line.keys : ~IsDefined(x) => i \in Range(refs'[x])
      BY <1>3, <1>5, <2>4
    <2> HIDE DEF line
    <2>9. LooksUp(i)
      BY <1>5, <2>1, <2>3, <2>5, <2>7, <2>8 DEF LooksUp
    <2> QED
      BY <2>1, <2>6, <2>9
  <1>6. CASE HandleEQU(i, rs, cs)
    <2> DEFINE added == LineReferenceAdd(i, line.keys, rs)
               new   == [line EXCEPT !.wasEqu = TRUE]
    <2>1. IsEvaluated(operand) /\ label \notin LocalNames \cup {NoName}
      BY <1>6 DEF HandleEQU
    <2>2. /\ lines' = [lines EXCEPT ![i] = new] /\ refs' = added
          /\ op = "equ"
          /\ AttemptToAddSymbol(i, label, expr, added, cs)
      BY <1>6, <2>1 DEF HandleEQU
    <2>3. /\ CanDefine(i, label) /\ ~failed
          /\ symbols' = [symbols EXCEPT ![KeyOf(label, globalLabel)] =
                             SymbolAs(i, expr)]
      BY <2>2 DEF AttemptToAddSymbol, SymbolAs
    <2> HIDE DEF line
    <2>4. /\ new \in Line /\ new.stmt = line.stmt
          /\ new.address = line.address /\ new.wasEqu
          /\ new.at = line.at /\ new.in = line.in /\ new.keys = line.keys
          /\ new.missed = line.missed
      BY <1>1 DEF Line
    <2> HIDE DEF new
    <2>5. LooksUp(i) /\ lines'[i] = new /\ LastExpr(symbols, new) = expr
      BY <1>5, <2>1, <2>2, <2>3, <2>4
    <2>6. KeyOf(label, globalLabel) \in Keys
      BY <1>1, <1>2, <2>1, <2>3, KeyType DEF CanDefine
    <2> QED
      BY <1>1, <1>2, <2>1, <2>2, <2>3, <2>4, <2>5, <2>6
         DEF Assembles, Equates, Defines, LabelKey
  <1>7. CASE HandleInstruction(i, rs, cs)
    <2> DEFINE size == CodeSize(op, expr)
               code == CodeBytes(op, line.address, expr)
               new  == [line EXCEPT !.size = size, !.code = code]
    <2>1. /\ IsEvaluated(operand) /\ ~failed
          /\ ~IsRefused(op, line.address, expr)
          /\ lines' = [lines EXCEPT ![i] = new]
          /\ refs' = LineReferenceAdd(i, line.keys, rs)
          /\ op \in Instructions /\ symbols' = symbols
      BY <1>7 DEF HandleInstruction
    <2>2. size \in {0, 2, 3} /\ code \in Word
      BY <1>1, <1>2, <2>1, EvaluateType, CodeType DEF Line
    <2>3. line.wasEqu = lines[i].wasEqu /\ line.address = lines[i].address
      BY <1>1, <2>1, LookedFields
    <2> HIDE DEF line, size, code
    <2>4. /\ new \in Line /\ new.stmt = line.stmt
          /\ new.address = line.address /\ new.wasEqu = line.wasEqu
          /\ new.at = line.at /\ new.in = line.in /\ new.keys = line.keys
          /\ new.missed = line.missed /\ new.size = size /\ new.code = code
      BY <1>1, <2>2 DEF Line
    <2> HIDE DEF new
    <2>5. LooksUp(i) /\ lines'[i] = new /\ LastExpr(symbols, new) = expr
      BY <1>5, <2>1, <2>4
    <2> QED
      BY <1>1, <2>1, <2>3, <2>4, <2>5
         DEF Assembles, Instructs, size, code
  <1> QED
    BY <1>4, <1>6, <1>7 DEF FirstPassAssembleLine

LEMMA AssembleSourceLineInLine ==
    ASSUME IInv, AssembleSourceLine, ~failed'
    PROVE  InLine(Len(lines))
  <1>1. Len(lines) \in 1 .. Len(lines) /\ Len(lines) \in DOMAIN lines
    BY DEF IInv, TypeOK, PhaseOK, AssembleSourceLine
  <1>2. AreListsWithout(Len(lines), refs)
    BY DEF AreListsWithout, IInv, TypeOK, Lists
  <1>3. /\ FirstPassAssembleLine(Len(lines), refs, cursor)
        /\ phase = "parsed" /\ phase' = "assembled"
        /\ pc' = pc /\ globalLabel' = globalLabel
    BY DEF AssembleSourceLine
  <1>4. Assembles(Len(lines))
    BY <1>1, <1>2, <1>3, FirstPassSteps
  <1> QED
    BY <1>1, <1>3, <1>4 DEF InLine

LEMMA UpdateLineInLine ==
    ASSUME IInv, ListsInv, UpdateLine, ~failed'
    PROVE  \E i \in DOMAIN lines : InLine(i)
  <1> DEFINE k  == Last(calls)
             i  == Head(cursor[k])
             rs == [refs EXCEPT ![k] = LineReferenceRemove(i, @)]
             cs == LineReferenceEnumNext(k)
  <1>1. /\ calls # <<>> /\ cursor[k] # <<>>
        /\ FirstPassAssembleLine(i, rs, cs)
        /\ pc' = pc /\ globalLabel' = globalLabel /\ phase' = phase
    BY DEF UpdateLine
  <1>2. /\ Len(calls) \in DOMAIN calls /\ calls[Len(calls)] = k
        /\ k \in Keys /\ IsDefined(k)
    BY <1>1 DEF IInv, TypeOK, CallsAreDefined, Last
  <1> HIDE DEF k
  <1>3. cursor[k] = refs[k] /\ IsDistinct(refs[k])
    BY <1>2 DEF ListsInv, AreInStep
  <1>4. /\ refs[k] \in Seq(1 .. Len(lines)) /\ Len(lines) \in Nat
        /\ refs \in Lists(Len(lines)) /\ DOMAIN lines = 1 .. Len(lines)
    BY <1>2 DEF IInv, TypeOK, Lists
  <1>5. i \in 1 .. Len(lines) /\ i \in DOMAIN lines /\ i = Head(refs[k])
    BY <1>1, <1>3, <1>4, HeadTailProperties
  <1>6. i \in Range(refs[k])
    <2>1. 1 \in DOMAIN refs[k] /\ i = refs[k][1]
      BY <1>1, <1>3, <1>4, <1>5
    <2> QED
      BY <2>1 DEF Range
  <1> HIDE DEF i
  <1>7. /\ Range(LineReferenceRemove(i, refs[k])) \subseteq Range(refs[k])
        /\ \A j \in Range(refs[k]) :
              j # i => j \in Range(LineReferenceRemove(i, refs[k]))
    BY <1>1, <1>3, <1>4, <1>5, RemovedLinks
  <1>8. LineReferenceRemove(i, refs[k]) \in Seq(1 .. Len(lines))
    BY <1>4, LineReferenceRemoveType
  <1>9. /\ rs \in Lists(Len(lines))
        /\ rs[k] = LineReferenceRemove(i, refs[k])
        /\ \A x \in Keys : x # k => rs[x] = refs[x]
    BY <1>2, <1>4, <1>8 DEF Lists
  <1> HIDE DEF rs, cs
  <1>10. AreListsWithout(i, rs)
    BY <1>7, <1>9 DEF AreListsWithout
  <1>11. Assembles(i)
    BY <1>1, <1>5, <1>10, FirstPassSteps
  <1>12. phase \in {"assembled", "labelled"}
    BY <1>1 DEF IInv, PhaseOK
  <1> QED
    BY <1>1, <1>2, <1>5, <1>6, <1>11, <1>12 DEF InLine

LEMMA AddUnhandledLabelInLine ==
    ASSUME IInv, CodeInv, AddUnhandledLabel, ~failed'
    PROVE  InLine(Len(lines))
  <1> DEFINE i    == Len(lines)
             line == lines[i]
  <1>1. /\ i \in 1 .. Len(lines) /\ i \in DOMAIN lines /\ line \in Line
        /\ TypeOK
    BY DEF IInv, TypeOK, PhaseOK, AddUnhandledLabel
  <1>2. line.stmt.label \in Names \cup {NoName}
    BY <1>1 DEF Line, Statement
  <1>3. /\ phase = "assembled" /\ phase' = "labelled"
        /\ lines' = lines /\ refs' = refs
        /\ globalLabel' = globalLabel /\ pc' = pc
    BY DEF AddUnhandledLabel
  <1>4. CASE line.stmt.label = NoName \/ line.wasEqu
    <2>1. symbols' = symbols /\ failed' = failed
      BY <1>4 DEF AddUnhandledLabel
    <2> QED
      BY <1>1, <1>3, <1>4, <2>1
         DEF InLine, IdlesAsHandled, Idles, LeavesLine, KeepsOthers
  <1>5. CASE ~(line.stmt.label = NoName \/ line.wasEqu)
    <2> DEFINE expr == [value |-> line.address, zp |-> line.address <= 255,
                        fwd |-> FALSE]
    <2>1. AttemptToAddSymbol(i, line.stmt.label, expr, refs, cursor)
      BY <1>5 DEF AddUnhandledLabel
    <2>2. expr = AddressExpr(line)
      BY DEF AddressExpr
    <2> HIDE DEF expr
    <2>3. /\ CanDefine(i, line.stmt.label) /\ failed' = failed
          /\ symbols' = [symbols EXCEPT
                 ![KeyOf(line.stmt.label, globalLabel)] = SymbolAs(i, expr)]
      BY <2>1 DEF AttemptToAddSymbol, SymbolAs
    <2>4. KeyOf(line.stmt.label, globalLabel) \in Keys
      BY <1>1, <1>2, <1>5, <2>3, KeyType DEF CanDefine
    <2>5. line.stmt.op # "equ"
      BY <1>3, <1>5, <2>3 DEF CodeInv, CodeParts, EquatesDefine, LastLine
    <2> QED
      BY <1>1, <1>2, <1>3, <1>5, <2>2, <2>3, <2>4, <2>5
         DEF InLine, Labels, LeavesLine, KeepsOthers, Defines, LabelKey
  <1> QED
    BY <1>4, <1>5

-----------------------------------------------------------------------------
(***************************************************************************)
(* Symbols with a final value.                                             *)
(***************************************************************************)
LEMMA InLineKeepsOthers ==
    ASSUME NEW i, InLine(i)
    PROVE  KeepsOthers(i)
  BY DEF InLine, Assembles, IdlesAsNothing, IdlesAsHandled, Idles, Instructs,
     Equates, Labels, LeavesLine, LooksUp

LEMMA DefinedSymbol ==
    ASSUME TypeOK, NEW i \in DOMAIN lines, NEW expr, Defines(i, expr)
    PROVE  /\ symbols'[LabelKey(i)] = SymbolAs(i, expr)
           /\ \A k \in Keys : k # LabelKey(i) => symbols'[k] = symbols[k]
           /\ KeyName(LabelKey(i)) = lines[i].stmt.label
           /\ LabelKey(i) \in Keys
           /\ lines[i].stmt.label \notin VariableNames =>
                  symbols[LabelKey(i)].line \in {0, i}
  <1> DEFINE k == LabelKey(i)
  <1>1. /\ k \in Keys
        /\ symbols' = [symbols EXCEPT ![k] = SymbolAs(i, expr)]
        /\ lines[i].stmt.label \in Names
        /\ CanDefine(i, lines[i].stmt.label)
    BY DEF Defines
  <1>2. KeyName(k) = lines[i].stmt.label
    BY <1>1, KeyOfName DEF LabelKey
  <1>3. lines[i].stmt.label \notin VariableNames => symbols[k].line \in {0, i}
    BY <1>1 DEF CanDefine, LabelKey
  <1> HIDE DEF k
  <1>4. /\ symbols'[k] = SymbolAs(i, expr)
        /\ \A q \in Keys : q # k => symbols'[q] = symbols[q]
    BY <1>1 DEF TypeOK
  <1> QED
    BY <1>1, <1>2, <1>3, <1>4 DEF k

(* A symbol with a final value that depends on no variable keeps it: its   *)
(* EQU may be assembled again, and then evaluates to the same value.       *)
LEMMA InLineKeepsFinal ==
    ASSUME IInv, CodeParts, NEW i, InLine(i),
           NEW k \in Keys, IsFinal(k), KeyName(k) \in Steady
    PROVE  symbols'[k] = symbols[k]
  <1>1. TypeOK /\ i \in DOMAIN lines /\ ~failed
    BY InLineKeepsOthers DEF IInv, InLine, KeepsOthers
  <1>2. CASE symbols' = symbols
    BY <1>2
  <1>3. ASSUME NEW expr, Defines(i, expr), symbols'[k] # symbols[k]
        PROVE  /\ k = LabelKey(i)
               /\ symbols[k].line = i
               /\ symbols'[k] = SymbolAs(i, expr)
    <2>1. k = LabelKey(i) /\ symbols'[k] = SymbolAs(i, expr)
      BY <1>1, <1>3, DefinedSymbol
    <2>2. lines[i].stmt.label \notin VariableNames
      BY <1>1, <1>3, <2>1, DefinedSymbol, SteadyNames
    <2>3. symbols[k].line \in {0, i}
      BY <1>1, <1>3, <2>1, <2>2, DefinedSymbol
    <2> QED
      BY <2>1, <2>3 DEF IsFinal, IsDefined
  <1>4. CASE Equates(i)
    <2> DEFINE expr == LastExpr(symbols, lines'[i])
    <2>1. /\ LooksUp(i) /\ lines[i].stmt.op = "equ" /\ Defines(i, expr)
      BY <1>4 DEF Equates
    <2> HIDE DEF expr
    <2> SUFFICES ASSUME symbols'[k] # symbols[k] PROVE FALSE
      OBVIOUS
    <2>2. symbols[k].line = i /\ symbols'[k] = SymbolAs(i, expr)
      BY <1>3, <2>1
    <2>3. symbols[k] = SymbolAs(i, LastExpr(symbols, lines[i]))
      BY <2>1, <2>2 DEF CodeParts, EquatesAreCurrent
    <2>4. phase # "parsed"
      BY <1>1, <2>2 DEF CodeParts, EquatesDefine, InLine
    <2>5. PICK x \in Keys : IsDefined(x) /\ i \in Range(refs[x])
      BY <2>1, <2>4 DEF InLine, IdlesAsHandled, Labels, IdlesAsNothing,
         Idles, Equates, Assembles
    <2>6. lines[i].at = pc /\ lines[i].in = globalLabel
      BY <2>1, <2>2, <2>5 DEF CodeParts, EquatesAreFresh, IsPast
    <2>7. /\ lines'[i].at = pc /\ lines'[i].in = globalLabel
          /\ lines'[i].stmt = lines[i].stmt
      BY <2>1 DEF LooksUp, KeepsOthers
    <2>8. LastExpr(symbols, lines[i]) = expr
      BY <2>6, <2>7 DEF LastExpr, expr
    <2> QED
      BY <2>2, <2>3, <2>8
  <1>5. CASE Labels(i)
    <2>1. Defines(i, AddressExpr(lines[i])) /\ lines[i].stmt.op # "equ"
      BY <1>5 DEF Labels
    <2> SUFFICES ASSUME symbols'[k] # symbols[k] PROVE FALSE
      OBVIOUS
    <2>2. /\ symbols[k].line = i
          /\ symbols'[k] = SymbolAs(i, AddressExpr(lines[i]))
      BY <1>3, <2>1
    <2>3. symbols[k] = SymbolAs(i, AddressExpr(lines[i]))
      BY <2>1, <2>2 DEF CodeParts, SymbolsHaveLines, IsFinal
    <2> QED
      BY <2>2, <2>3
  <1> QED
    BY <1>2, <1>4, <1>5 DEF InLine, Assembles, IdlesAsNothing,
       IdlesAsHandled, Idles, Instructs

(* No step makes a symbol undefined, and one of a label that is no         *)
(* variable stays with the line that defines it.                           *)
LEMMA InLineKeepsDefined ==
    ASSUME TypeOK, NEW i, InLine(i), NEW k \in Keys, IsDefined(k)
    PROVE  /\ symbols'[k].line # 0
           /\ k[1] \in GlobalNames => symbols'[k].line = symbols[k].line
  <1>1. i \in DOMAIN lines /\ i # 0
    BY DEF InLine, TypeOK
  <1>2. CASE symbols' = symbols
    BY <1>2 DEF IsDefined
  <1>3. ASSUME NEW expr, Defines(i, expr)
        PROVE  /\ symbols'[k].line # 0
               /\ k[1] \in GlobalNames => symbols'[k].line = symbols[k].line
    <2>1. CASE k # LabelKey(i)
      <3>1. symbols'[k] = symbols[k]
        BY <1>1, <1>3, <2>1, DefinedSymbol
      <3> QED
        BY <3>1 DEF IsDefined
    <2>2. CASE k = LabelKey(i)
      <3>1. symbols'[k].line = i
        <4>1. symbols'[k] = SymbolAs(i, expr)
          BY <1>1, <1>3, <2>2, DefinedSymbol
        <4> QED
          BY <4>1 DEF SymbolAs
      <3>2. k[1] \in GlobalNames => KeyName(k) \notin VariableNames
        BY KeyParts DEF Names
      <3>3. k[1] \in GlobalNames => symbols[k].line \in {0, i}
        BY <1>1, <1>3, <2>2, <3>2, DefinedSymbol
      <3> QED
        BY <1>1, <3>1, <3>3 DEF IsDefined
    <2> QED
      BY <2>1, <2>2
  <1> QED
    BY <1>2, <1>3 DEF InLine, Assembles, IdlesAsNothing, IdlesAsHandled,
       Idles, Instructs, Equates, Labels

-----------------------------------------------------------------------------
(***************************************************************************)
(* A step within a source line keeps each part of the strengthening.       *)
(***************************************************************************)
LEMMA WaitingLines ==
    ASSUME TypeOK, NEW x \in Keys
    PROVE  /\ Range(refs[x]) \subseteq DOMAIN lines
           /\ refs[x] # <<>> <=> Range(refs[x]) # {}
  <1>1. /\ refs[x] \in Seq(1 .. Len(lines)) /\ DOMAIN lines = 1 .. Len(lines)
        /\ DOMAIN refs[x] = 1 .. Len(refs[x]) /\ Len(refs[x]) \in Nat
    BY DEF TypeOK
  <1>2. Range(refs[x]) \subseteq DOMAIN lines
    BY <1>1 DEF Range
  <1>3. refs[x] # <<>> => 1 \in DOMAIN refs[x]
    BY <1>1
  <1>4. refs[x] = <<>> => DOMAIN refs[x] = {}
    OBVIOUS
  <1>5. Range(refs[x]) # {} <=> DOMAIN refs[x] # {}
    BY DEF Range
  <1> QED
    BY <1>2, <1>3, <1>4, <1>5

(* What every line keeps. *)
LEMMA InLineKeepsLines ==
    ASSUME TypeOK, NEW i, InLine(i)
    PROVE  /\ DOMAIN lines' = DOMAIN lines /\ Len(lines') = Len(lines)
           /\ \A j \in DOMAIN lines :
                 /\ lines'[j].stmt = lines[j].stmt
                 /\ lines'[j].address = lines[j].address
                 /\ lines[j].wasEqu => lines'[j].wasEqu
           /\ Steady' \subseteq Steady
           /\ pc' = pc /\ globalLabel' = globalLabel
           /\ LastLine'.stmt = LastLine.stmt
  <1>1. KeepsOthers(i) /\ i \in DOMAIN lines
    BY InLineKeepsOthers DEF InLine
  <1>2. lines[i].wasEqu => lines'[i].wasEqu
    BY DEF InLine, Assembles, IdlesAsNothing, IdlesAsHandled, Idles,
       Instructs, Equates, Labels, LeavesLine
  <1>3. \A j \in DOMAIN lines :
                 /\ lines'[j].stmt = lines[j].stmt
                 /\ lines'[j].address = lines[j].address
                 /\ lines[j].wasEqu => lines'[j].wasEqu
    BY <1>1, <1>2 DEF KeepsOthers
  <1>4. DOMAIN lines' = DOMAIN lines /\ Len(lines') = Len(lines)
    BY <1>1 DEF KeepsOthers
  <1>5. Steady' \subseteq Steady
    BY <1>3, <1>4, SteadyShrinks
  <1>6. LastLine'.stmt = LastLine.stmt
    <2>1. Len(lines) \in DOMAIN lines
      BY <1>1 DEF TypeOK
    <2> QED
      BY <1>3, <1>4, <2>1 DEF LastLine
  <1> QED
    BY <1>1, <1>3, <1>4, <1>5, <1>6 DEF KeepsOthers

(* The operand of an assembled line whose symbols have their final value   *)
(* keeps its own.                                                          *)
LEMMA OperandStays ==
    ASSUME IInv, CodeParts, NEW i, InLine(i), NEW line,
           OperandNames(line.stmt.operand) \subseteq Names,
           OperandKeys(line) \subseteq Keys, IsSteady(line),
           ~LastExpr(symbols, line).fwd
    PROVE  LastExpr(symbols', line) = LastExpr(symbols, line)
  <1> DEFINE operand == line.stmt.operand
  <1>1. \A n \in OperandNames(operand) : IsFinal(KeyOf(n, line.in))
    BY ForwardOperand DEF LastExpr
  <1>2. ASSUME NEW n \in OperandNames(operand)
        PROVE  symbols'[KeyOf(n, line.in)] = symbols[KeyOf(n, line.in)]
    <2>1. /\ KeyOf(n, line.in) \in Keys
          /\ KeyName(KeyOf(n, line.in)) \in Steady
      BY KeyOfName DEF OperandKeys, IsSteady
    <2> QED
      BY <1>1, <2>1, InLineKeepsFinal
  <1> QED
    BY <1>2, ExprKept DEF LastExpr

LEMMA LineNames ==
    ASSUME TypeOK, NEW j \in DOMAIN lines
    PROVE  /\ OperandNames(lines[j].stmt.operand) \subseteq Names
           /\ lines[j].stmt.label \in Names \cup {NoName}
           /\ lines[j].keys \subseteq Keys
           /\ lines[j].stmt.op \in Instructions \cup {"none", "equ"}
  <1>1. lines[j] \in Line
    BY ElementOfSeq DEF TypeOK
  <1>2. lines[j].stmt.operand \in Operand
    BY <1>1 DEF Line, Statement
  <1> QED
    BY <1>1, <1>2 DEF Line, Statement, OperandNames, Operand

LEMMA InLineKeepsSymbolsHaveLines ==
    ASSUME IInv, CodeParts, NEW i, InLine(i)
    PROVE  SymbolsHaveLines'
  <1>1. TypeOK /\ i \in DOMAIN lines
    BY DEF IInv, InLine
  <1> SUFFICES ASSUME NEW k \in Keys, symbols'[k].line # 0
               PROVE  LET j == symbols'[k].line
                      IN  /\ j \in DOMAIN lines'
                          /\ lines'[j].stmt.label = KeyName(k)
                          /\ lines'[j].stmt.op # "equ" =>
                                 symbols'[k] = SymbolAs(j, AddressExpr(lines'[j]))
                          /\ lines'[j].stmt.op = "equ" =>
                                 k[2] = NoName /\ lines'[j].wasEqu
    BY DEF SymbolsHaveLines, IsDefined
  <1>2. CASE symbols'[k] = symbols[k]
    <2> DEFINE j == symbols[k].line
    <2>1. /\ j \in DOMAIN lines
          /\ lines[j].stmt.label = KeyName(k)
          /\ lines[j].stmt.op # "equ" =>
                 symbols[k] = SymbolAs(j, AddressExpr(lines[j]))
          /\ lines[j].stmt.op = "equ" => k[2] = NoName /\ lines[j].wasEqu
      BY <1>2 DEF CodeParts, SymbolsHaveLines, IsDefined
    <2> HIDE DEF j
    <2>2. AddressExpr(lines'[j]) = AddressExpr(lines[j])
      BY <1>1, <2>1, InLineKeepsLines DEF AddressExpr
    <2> QED
      BY <1>1, <1>2, <2>1, <2>2, InLineKeepsLines DEF j
  <1>3. CASE symbols'[k] # symbols[k]
    <2>1. ASSUME NEW expr, Defines(i, expr)
          PROVE  /\ k = LabelKey(i) /\ symbols'[k] = SymbolAs(i, expr)
                 /\ symbols'[k].line = i
                 /\ lines[i].stmt.label = KeyName(k)
      <3>1. /\ k = LabelKey(i) /\ symbols'[k] = SymbolAs(i, expr)
            /\ lines[i].stmt.label = KeyName(k)
        BY <1>1, <1>3, <2>1, DefinedSymbol
      <3> QED
        BY <3>1 DEF SymbolAs
    <2>2. CASE Equates(i)
      <3>1. /\ lines[i].stmt.op = "equ" /\ lines'[i].wasEqu
            /\ lines[i].stmt.label \notin LocalNames
            /\ lines[i].stmt.label \in Names
            /\ Defines(i, LastExpr(symbols, lines'[i]))
        BY <2>2 DEF Equates, Defines
      <3>2. k[2] = NoName
        BY <2>1, <3>1, KeyOfName DEF LabelKey
      <3> QED
        BY <1>1, <2>1, <3>1, <3>2, InLineKeepsLines
    <2>3. CASE Labels(i)
      <3>1. Defines(i, AddressExpr(lines[i])) /\ lines[i].stmt.op # "equ"
            /\ lines'[i] = lines[i]
        BY <2>3 DEF Labels, LeavesLine
      <3> QED
        BY <1>1, <2>1, <3>1, InLineKeepsLines
    <2> QED
      BY <1>3, <2>2, <2>3 DEF InLine, Assembles, IdlesAsNothing,
         IdlesAsHandled, Idles, Instructs
  <1> QED
    BY <1>2, <1>3

(* A line that is an EQU is left alone, or defines its label. *)
LEMMA InLineEquate ==
    ASSUME TypeOK, NEW i, InLine(i), NEW j \in DOMAIN lines,
           lines[j].stmt.op = "equ"
    PROVE  \/ Equates(i) /\ j = i
           \/ /\ lines'[j] = lines[j]
              /\ \A x \in Keys : j \in Range(refs'[x]) => j \in Range(refs[x])
              /\ \A k \in Keys : symbols'[k] # symbols[k] => symbols'[k].line # j
  <1>1. KeepsOthers(i) /\ i \in DOMAIN lines
    BY InLineKeepsOthers DEF InLine
  <1>2. CASE j = i
    BY <1>2 DEF InLine, Assembles, IdlesAsNothing, IdlesAsHandled, Idles,
       Instructs, Labels, LeavesLine, Instructions
  <1>3. CASE j # i
    <2>1. /\ lines'[j] = lines[j]
          /\ \A x \in Keys : j \in Range(refs'[x]) => j \in Range(refs[x])
      BY <1>1, <1>3 DEF KeepsOthers
    <2>2. ASSUME NEW k \in Keys, symbols'[k] # symbols[k]
          PROVE  symbols'[k].line = i
      <3>1. PICK expr : Defines(i, expr)
        BY <2>2 DEF InLine, Assembles, IdlesAsNothing, IdlesAsHandled,
           Idles, Instructs, Equates, Labels
      <3>2. symbols'[k] = SymbolAs(i, expr)
        BY <1>1, <2>2, <3>1, DefinedSymbol
      <3> QED
        BY <3>2 DEF SymbolAs
    <2> QED
      BY <1>3, <2>1, <2>2
  <1> QED
    BY <1>2, <1>3

LEMMA InLineKeepsEquatesAreCurrent ==
    ASSUME IInv, IInv', CodeParts, NEW i, InLine(i)
    PROVE  EquatesAreCurrent'
  <1>1. TypeOK /\ i \in DOMAIN lines
    BY DEF IInv, InLine
  <1> SUFFICES ASSUME NEW k \in Keys, symbols'[k].line # 0,
                      ~symbols'[k].fwd, KeyName(k) \in Steady',
                      NEW j, j = symbols'[k].line,
                      lines'[j].stmt.op = "equ"
               PROVE  symbols'[k] = SymbolAs(j, LastExpr(symbols', lines'[j]))
    BY DEF EquatesAreCurrent, IsFinal, IsDefined
  <1>2. /\ j \in DOMAIN lines /\ lines[j].stmt = lines'[j].stmt
        /\ lines'[j].stmt.label = KeyName(k) /\ k[2] = NoName
    <2>1. SymbolsHaveLines'
      BY InLineKeepsSymbolsHaveLines
    <2>2. j \in DOMAIN lines' /\ lines'[j].stmt.label = KeyName(k)
          /\ k[2] = NoName
      BY <2>1 DEF SymbolsHaveLines, IsDefined
    <2> QED
      BY <1>1, <2>2, InLineKeepsLines
  <1>3. KeyName(k) \in Steady /\ IsSteady(lines[j])
    <2>1. KeyName(k) \in Steady
      BY <1>1, InLineKeepsLines
    <2> QED
      BY <1>2, <2>1, SteadyEquate
  <1>4. OperandNames(lines[j].stmt.operand) \subseteq Names
    BY <1>1, <1>2, LineNames
  <1>5. CASE Equates(i) /\ j = i
    <2> DEFINE line == lines'[j]
               expr == LastExpr(symbols, line)
    <2>1. Defines(i, expr) /\ lines[i].stmt.label \notin LocalNames
          /\ line.keys = OperandKeys(line)
      BY <1>5 DEF Equates, LooksUp
    <2>2. line.keys \subseteq Keys
      <3>1. TypeOK' /\ j \in DOMAIN lines'
        BY <1>1, <1>2, InLineKeepsLines DEF IInv
      <3>2. line \in Line
        BY <3>1, ElementOfSeq DEF TypeOK
      <3> QED
        BY <3>2 DEF Line
    <2>3. IsSteady(line)
      BY <1>2, <1>3 DEF IsSteady
    <2> HIDE DEF line
    <2>4. k = LabelKey(i)
      <3>1. lines[i].stmt.label \in Names /\ lines[i].stmt.label = KeyName(k)
        BY <1>2, <1>5, <2>1 DEF Defines
      <3>2. LabelKey(i) = GlobalKey(KeyName(k))
        BY <2>1, <3>1, KeyOfName DEF LabelKey
      <3> QED
        BY <1>2, <3>2, KeyParts
    <2>5. symbols'[k] = SymbolAs(i, expr)
      BY <1>1, <2>1, <2>4, DefinedSymbol
    <2>6. ~expr.fwd
      BY <2>5 DEF SymbolAs
    <2>7. OperandNames(line.stmt.operand) \subseteq Names
      BY <1>2, <1>4 DEF line
    <2>8. LastExpr(symbols', line) = expr
      BY <2>1, <2>2, <2>3, <2>6, <2>7, OperandStays
    <2> QED
      BY <1>5, <2>5, <2>8 DEF line
  <1>6. CASE lines'[j] = lines[j] /\ symbols'[k] = symbols[k]
    <2> DEFINE line == lines[j]
    <2>1. symbols[k] = SymbolAs(j, LastExpr(symbols, line))
      BY <1>2, <1>3, <1>6 DEF CodeParts, EquatesAreCurrent, IsFinal, IsDefined
    <2>2. line.keys = OperandKeys(line) /\ line.keys \subseteq Keys
      <3>1. line.wasEqu
        BY <1>2, <1>6 DEF CodeParts, SymbolsHaveLines, IsDefined
      <3> QED
        BY <1>1, <1>2, <3>1, LineNames DEF CodeParts, KeysAreOperands
    <2> HIDE DEF line
    <2>3. ~LastExpr(symbols, line).fwd
      BY <1>6, <2>1 DEF SymbolAs
    <2>4. OperandNames(line.stmt.operand) \subseteq Names /\ IsSteady(line)
      BY <1>3, <1>4 DEF line
    <2>5. LastExpr(symbols', line) = LastExpr(symbols, line)
      BY <2>2, <2>3, <2>4, OperandStays
    <2> QED
      BY <1>6, <2>1, <2>5 DEF line
  <1> QED
    BY <1>1, <1>2, <1>5, <1>6, InLineEquate

LEMMA InLineKeepsEquatesDefine ==
    ASSUME IInv, CodeParts, NEW i, InLine(i)
    PROVE  EquatesDefine'
  <1>1. TypeOK /\ i \in DOMAIN lines
    BY DEF IInv, InLine
  <1>2. ASSUME NEW j \in DOMAIN lines', lines'[j].wasEqu,
               lines'[j].stmt.label \in GlobalNames
        PROVE  symbols'[GlobalKey(lines'[j].stmt.label)].line = j
    <2> DEFINE k == GlobalKey(lines[j].stmt.label)
    <2>1. /\ j \in DOMAIN lines /\ lines'[j].stmt = lines[j].stmt
          /\ lines[j].stmt.label \in GlobalNames
          /\ k \in Keys /\ k[1] \in GlobalNames
      BY <1>1, <1>2, InLineKeepsLines DEF GlobalKey, Keys
    <2>2. CASE lines[j].wasEqu
      <3>1. symbols[k].line = j /\ j # 0
        BY <1>1, <2>1, <2>2 DEF CodeParts, EquatesDefine, TypeOK
      <3> QED
        BY <1>1, <2>1, <3>1, InLineKeepsDefined DEF IsDefined
    <2>3. CASE ~lines[j].wasEqu
      <3>1. j = i /\ Equates(i)
        <4>1. lines'[j] # lines[j]
          BY <1>2, <2>3
        <4>2. j = i
          BY <2>1, <4>1, InLineKeepsOthers DEF KeepsOthers
        <4> QED
          BY <1>2, <2>3, <4>1, <4>2 DEF InLine, Assembles, IdlesAsNothing,
             IdlesAsHandled, Idles, Instructs, Labels, LeavesLine
      <3>2. /\ Defines(i, LastExpr(symbols, lines'[i]))
            /\ lines[i].stmt.label \notin LocalNames
            /\ lines[i].stmt.label \in Names
        BY <3>1 DEF Equates, Defines
      <3>3. LabelKey(i) = k
        BY <3>1, <3>2, KeyOfName DEF LabelKey
      <3>4. symbols'[k] = SymbolAs(i, LastExpr(symbols, lines'[i]))
        BY <1>1, <3>2, <3>3, DefinedSymbol
      <3> QED
        BY <2>1, <3>1, <3>4 DEF SymbolAs
    <2> QED
      BY <2>2, <2>3
  <1>3. ASSUME phase' = "assembled", LastLine'.stmt.op = "equ"
        PROVE  LastLine'.wasEqu
    <2>1. /\ LastLine.stmt.op = "equ" /\ Len(lines) \in DOMAIN lines
          /\ Len(lines') = Len(lines)
      BY <1>1, <1>3, InLineKeepsLines DEF TypeOK
    <2>2. CASE phase = "assembled"
      <3>1. lines[Len(lines)].wasEqu
        BY <2>1, <2>2 DEF CodeParts, EquatesDefine, LastLine
      <3> QED
        BY <1>1, <2>1, <3>1, InLineKeepsLines DEF LastLine
    <2>3. CASE phase # "assembled"
      <3>1. Assembles(i) /\ i = Len(lines)
        BY <1>3, <2>3 DEF InLine
      <3>2. Equates(i)
        BY <2>1, <3>1 DEF Assembles, IdlesAsNothing, Instructs, LastLine,
           Instructions
      <3> QED
        BY <2>1, <3>1, <3>2 DEF Equates, LastLine
    <2> QED
      BY <2>2, <2>3
  <1>4. phase' # "parsed"
    BY DEF InLine
  <1> QED
    BY <1>2, <1>3, <1>4 DEF EquatesDefine

LEMMA InLineKeepsLinks ==
    ASSUME IInv, IInv', CodeParts, NEW i, InLine(i)
    PROVE  LinksAreOfOperands' /\ KeysAreOperands'
  <1>1. TypeOK /\ TypeOK' /\ i \in DOMAIN lines /\ KeepsOthers(i)
    BY InLineKeepsOthers DEF IInv, InLine
  <1>2. LooksUp(i) \/ LeavesLine(i)
    BY DEF InLine, Assembles, IdlesAsNothing, IdlesAsHandled, Idles,
       Instructs, Equates, Labels
  <1>3. ASSUME NEW x \in Keys, NEW j \in Range(refs'[x])
        PROVE  KeyName(x) \in OperandNames(lines'[j].stmt.operand)
    <2>1. /\ j \in DOMAIN lines' /\ j \in DOMAIN lines
          /\ lines'[j].stmt = lines[j].stmt
      BY <1>1, WaitingLines, InLineKeepsLines DEF TypeOK, Range
    <2>2. CASE j \in Range(refs[x])
      BY <2>1, <2>2 DEF CodeParts, LinksAreOfOperands
    <2>3. CASE j \notin Range(refs[x])
      <3>1. j = i /\ LooksUp(i)
        BY <1>1, <1>2, <1>3, <2>3 DEF KeepsOthers, LeavesLine
      <3>2. x \in OperandKeys(lines'[i])
        BY <1>3, <2>3, <3>1 DEF LooksUp
      <3>3. PICK n \in OperandNames(lines'[i].stmt.operand) :
                x = KeyOf(n, lines'[i].in)
        BY <3>2 DEF OperandKeys
      <3>4. n \in Names
        BY <1>1, <2>1, <3>1, <3>3, LineNames
      <3> QED
        BY <3>1, <3>3, <3>4, KeyOfName
    <2> QED
      BY <2>2, <2>3
  <1>4. ASSUME NEW j \in DOMAIN lines', lines'[j].size # 0 \/ lines'[j].wasEqu
        PROVE  lines'[j].keys = OperandKeys(lines'[j])
    <2>1. j \in DOMAIN lines
      BY <1>1 DEF KeepsOthers
    <2>2. CASE lines'[j] = lines[j]
      BY <1>4, <2>1, <2>2 DEF CodeParts, KeysAreOperands
    <2>3. CASE lines'[j] # lines[j]
      <3>1. j = i /\ LooksUp(i)
        BY <1>1, <1>2, <2>1, <2>3 DEF KeepsOthers, LeavesLine
      <3> QED
        BY <3>1 DEF LooksUp
    <2> QED
      BY <2>2, <2>3
  <1>5. LinksAreOfOperands'
    BY <1>3 DEF LinksAreOfOperands
  <1>6. KeysAreOperands'
    BY <1>4 DEF KeysAreOperands, OperandKeys
  <1> QED
    BY <1>5, <1>6

(* The definition of a global label, if the line defines one. *)
LEMMA GlobalDefinition ==
    ASSUME TypeOK, NEW i \in DOMAIN lines, NEW expr, Defines(i, expr),
           lines[i].stmt.label \in GlobalNames
    PROVE  /\ LabelKey(i) = GlobalKey(lines[i].stmt.label)
           /\ symbols'[LabelKey(i)].line = i
           /\ symbols[LabelKey(i)].line \in {0, i}
  <1>1. lines[i].stmt.label \notin LocalNames \cup VariableNames
    OBVIOUS
  <1>2. LabelKey(i) = GlobalKey(lines[i].stmt.label)
    BY <1>1, KeyOfName DEF LabelKey, Defines
  <1>3. /\ symbols'[LabelKey(i)] = SymbolAs(i, expr)
        /\ symbols[LabelKey(i)].line \in {0, i}
    BY <1>1, DefinedSymbol
  <1> QED
    BY <1>2, <1>3 DEF SymbolAs

LEMMA InLineKeepsScopesPass ==
    ASSUME IInv, IInv', CodeParts, NEW i, InLine(i)
    PROVE  ScopesPass'
  <1>1. TypeOK /\ TypeOK' /\ i \in DOMAIN lines /\ i # 0 /\ KeepsOthers(i)
    <2>1. TypeOK /\ TypeOK' /\ i \in DOMAIN lines
      BY DEF IInv, InLine
    <2>2. i # 0
      BY <2>1 DEF TypeOK
    <2> QED
      BY <2>1, <2>2, InLineKeepsOthers
  <1>2. \A g \in GlobalNames : IsDefined(GlobalKey(g)) => IsDefined(GlobalKey(g))'
    <2>1. \A g \in GlobalNames : GlobalKey(g) \in Keys
      BY DEF GlobalKey, Keys
    <2> QED
      BY <1>1, <2>1, InLineKeepsDefined DEF IsDefined
  <1>3. globalLabel \in GlobalNames \cup {NoName} /\ globalLabel' = globalLabel
    BY <1>1 DEF TypeOK, KeepsOthers
  <1>4. \/ globalLabel' = NoName
        \/ IsDefined(GlobalKey(globalLabel))'
        \/ LastLine'.stmt.label = globalLabel' /\ phase' \in {"parsed", "assembled"}
    <2> SUFFICES ASSUME globalLabel # NoName,
                        LastLine.stmt.label = globalLabel,
                        phase \in {"parsed", "assembled"},
                        phase' \notin {"parsed", "assembled"}
                 PROVE  IsDefined(GlobalKey(globalLabel))'
      BY <1>1, <1>2, <1>3, InLineKeepsLines DEF CodeParts, ScopesPass
    <2>1. (IdlesAsHandled(i) \/ Labels(i)) /\ i = Len(lines)
      BY DEF InLine
    <2>2. lines[i].stmt.label = globalLabel /\ globalLabel \in GlobalNames
      BY <1>3, <2>1 DEF LastLine
    <2>3. CASE IdlesAsHandled(i)
      <3>1. lines[i].wasEqu
        BY <1>3, <2>2, <2>3 DEF IdlesAsHandled
      <3>2. symbols[GlobalKey(globalLabel)].line = i
        BY <1>1, <2>2, <3>1 DEF CodeParts, EquatesDefine
      <3> QED
        BY <1>1, <1>2, <2>2, <3>2, <1>3 DEF IsDefined
    <2>4. CASE Labels(i)
      <3>1. Defines(i, AddressExpr(lines[i]))
        BY <2>4 DEF Labels
      <3>2. symbols'[GlobalKey(globalLabel)].line = i
        BY <1>1, <2>2, <3>1, GlobalDefinition
      <3> QED
        BY <1>1, <1>3, <3>2 DEF IsDefined
    <2> QED
      BY <2>1, <2>3, <2>4
  <1>5. ASSUME NEW x \in Keys, refs'[x] # <<>>, x[2] # NoName
        PROVE  x[1] = globalLabel' \/ IsDefined(GlobalKey(x[1]))'
    <2>1. x[1] \in GlobalNames /\ x[2] \in LocalNames
      BY <1>5, KeyParts
    <2>2. CASE refs[x] # <<>>
      <3>1. x[1] = globalLabel \/ IsDefined(GlobalKey(x[1]))
        BY <1>5, <2>2 DEF CodeParts, ScopesPass
      <3> QED
        BY <1>2, <1>3, <2>1, <3>1
    <2>3. CASE refs[x] = <<>>
      <3>1. PICK j : j \in Range(refs'[x])
        <4>1. refs'[x] \in Seq(1 .. Len(lines'))
          BY <1>1 DEF TypeOK
        <4>2. 1 \in DOMAIN refs'[x]
          BY <1>5, <4>1
        <4> QED
          BY <4>2 DEF Range
      <3>2. Range(refs[x]) = {}
        BY <1>1, <2>3, WaitingLines
      <3>3. j = i
        BY <1>1, <3>1, <3>2 DEF KeepsOthers
      <3>4. LooksUp(i)
        BY <3>1, <3>2, <3>3 DEF InLine, Assembles, IdlesAsNothing,
           IdlesAsHandled, Idles, Instructs, Equates, Labels, LeavesLine
      <3>5. x \in OperandKeys(lines'[i]) /\ lines'[i].in = globalLabel
        BY <3>1, <3>2, <3>3, <3>4 DEF LooksUp
      <3>6. PICK n \in OperandNames(lines'[i].stmt.operand) :
                x = KeyOf(n, globalLabel)
        BY <3>5 DEF OperandKeys
      <3>7. n \in Names
        BY <1>1, <3>6, LineNames DEF KeepsOthers
      <3> QED
        BY <1>3, <1>5, <3>6, <3>7, KeyOfName
    <2> QED
      BY <2>2, <2>3
  <1> QED
    BY <1>4, <1>5 DEF ScopesPass

(* A local label of a scope that has passed stays undefined. *)
LEMMA InLineKeepsPast ==
    ASSUME IInv, CodeParts, NEW i, InLine(i), NEW x \in Keys, IsPast(x)
    PROVE  IsPast(x)'
  <1>1. TypeOK /\ i \in DOMAIN lines /\ i # 0 /\ KeepsOthers(i)
    BY InLineKeepsOthers DEF IInv, InLine, TypeOK
  <1>2. x[2] # NoName /\ ~IsDefined(x) /\ (x[1] # globalLabel \/ IsRedefinition)
    BY DEF IsPast
  <1>3. IsRedefinition => IsRedefinition'
    <2> SUFFICES ASSUME IsRedefinition PROVE IsRedefinition'
      OBVIOUS
    <2> DEFINE g == LastLine.stmt.label
               k == GlobalKey(g)
    <2>1. /\ phase \in {"parsed", "assembled"} /\ g \in GlobalNames
          /\ symbols[k].line \notin {0, Len(lines)}
      BY DEF IsRedefinition
    <2>2. k \in Keys /\ k[1] \in GlobalNames
      BY <2>1 DEF GlobalKey, Keys
    <2>3. symbols'[k].line = symbols[k].line
      BY <1>1, <2>1, <2>2, InLineKeepsDefined DEF IsDefined
    <2>4. LastLine'.stmt.label = g /\ Len(lines') = Len(lines)
      BY <1>1, InLineKeepsLines
    <2>5. phase' \in {"parsed", "assembled"}
      <3> SUFFICES ASSUME IdlesAsHandled(i) \/ Labels(i), i = Len(lines)
                   PROVE  FALSE
        BY <2>1 DEF InLine
      <3>1. g = lines[i].stmt.label /\ g # NoName
        BY <2>1 DEF LastLine, Names
      <3>2. CASE IdlesAsHandled(i)
        <4>1. lines[i].wasEqu
          BY <3>1, <3>2 DEF IdlesAsHandled
        <4> QED
          BY <1>1, <2>1, <3>1, <4>1 DEF CodeParts, EquatesDefine
      <3>3. CASE Labels(i)
        <4>1. Defines(i, AddressExpr(lines[i]))
          BY <3>3 DEF Labels
        <4>2. symbols[k].line \in {0, i}
          BY <1>1, <2>1, <3>1, <4>1, GlobalDefinition
        <4> QED
          BY <2>1, <4>2
      <3> QED
        BY <3>2, <3>3
    <2> QED
      BY <2>1, <2>3, <2>4, <2>5 DEF IsRedefinition
  <1>4. ~IsDefined(x)'
    <2> SUFFICES ASSUME symbols'[x] # symbols[x] PROVE FALSE
      BY <1>2 DEF IsDefined
    <2>1. PICK expr : Defines(i, expr)
      BY DEF InLine, Assembles, IdlesAsNothing, IdlesAsHandled, Idles,
         Instructs, Equates, Labels
    <2>2. x = LabelKey(i) /\ lines[i].stmt.label \in Names
      BY <1>1, <2>1, DefinedSymbol DEF Defines
    <2>3. lines[i].stmt.label \in LocalNames /\ x[1] = globalLabel
      BY <1>2, <2>2, KeyOfName DEF LabelKey
    <2>4. Labels(i)
      BY <2>3 DEF InLine, Assembles, IdlesAsNothing, IdlesAsHandled, Idles,
         Instructs, Equates
    <2>5. i = Len(lines)
      BY <2>4 DEF InLine, Assembles, Labels, IdlesAsNothing, Idles,
         Instructs, Equates, Defines, LabelKey
    <2> QED
      BY <1>2, <2>3, <2>5 DEF IsRedefinition, LastLine
  <1> QED
    BY <1>1, <1>2, <1>3, <1>4 DEF IsPast, KeepsOthers

LEMMA InLineKeepsFresh ==
    ASSUME IInv, IInv', CodeParts, NEW i, InLine(i)
    PROVE  EquatesAreFresh'
  <1>1. TypeOK /\ i \in DOMAIN lines
    BY DEF IInv, InLine
  <1> SUFFICES ASSUME NEW k \in Keys, symbols'[k].line # 0,
                      ~symbols'[k].fwd, KeyName(k) \in Steady',
                      NEW j, j = symbols'[k].line,
                      lines'[j].stmt.op = "equ",
                      NEW x \in Keys, j \in Range(refs'[x])
               PROVE  \/ lines'[j].at = pc' /\ lines'[j].in = globalLabel'
                      \/ IsPast(x)'
    BY DEF EquatesAreFresh, IsFinal, IsDefined
  <1>2. j \in DOMAIN lines /\ lines[j].stmt.op = "equ"
    <2>1. j \in DOMAIN lines'
      BY InLineKeepsSymbolsHaveLines DEF SymbolsHaveLines, IsDefined
    <2> QED
      BY <1>1, <2>1, InLineKeepsLines
  <1>3. pc' = pc /\ globalLabel' = globalLabel /\ KeyName(k) \in Steady
    BY <1>1, InLineKeepsLines
  <1>4. CASE Equates(i) /\ j = i
    BY <1>3, <1>4 DEF Equates, LooksUp
  <1>5. CASE /\ lines'[j] = lines[j] /\ symbols'[k] = symbols[k]
             /\ j \in Range(refs[x])
    <2>1. \/ lines[j].at = pc /\ lines[j].in = globalLabel
          \/ IsPast(x)
      BY <1>2, <1>3, <1>5 DEF CodeParts, EquatesAreFresh, IsFinal, IsDefined
    <2> QED
      BY <1>3, <1>5, <2>1, InLineKeepsPast
  <1> QED
    BY <1>1, <1>2, <1>4, <1>5, InLineEquate

(* An instruction is left alone, on the lists it is on, or assembled. *)
LEMMA InLineInstruction ==
    ASSUME TypeOK, NEW i, InLine(i), NEW j \in DOMAIN lines,
           lines[j].stmt.op \in Instructions
    PROVE  \/ Instructs(i) /\ j = i
           \/ /\ lines'[j] = lines[j]
              /\ \A x \in Keys : j \in Range(refs[x]) => j \in Range(refs'[x])
  <1>1. KeepsOthers(i) /\ i \in DOMAIN lines
    BY InLineKeepsOthers DEF InLine
  <1>2. CASE j = i
    BY <1>2 DEF InLine, Assembles, IdlesAsNothing, IdlesAsHandled, Idles,
       Equates, Labels, LeavesLine, Instructions
  <1>3. CASE j # i
    BY <1>1, <1>3 DEF KeepsOthers
  <1> QED
    BY <1>2, <1>3

(* An instruction that has been assembled waits, or its operand is final. *)
LEMMA InstructedOperand ==
    ASSUME TypeOK, NEW i, Instructs(i), ~lines'[i].missed,
           NEW k \in lines'[i].keys
    PROVE  i \in Range(refs'[k]) \/ (IsFinal(k) /\ IsFinal(k)')
  <1>1. LooksUp(i) /\ symbols' = symbols
    BY DEF Instructs
  <1> QED
    BY <1>1 DEF LooksUp, IsFinal, IsDefined

LEMMA InLineKeepsCode ==
    ASSUME IInv, IInv', CodeParts, NEW i, InLine(i)
    PROVE  InstructionsWait' /\ CodeIsCurrent'
  <1>1. TypeOK /\ i \in DOMAIN lines
    BY DEF IInv, InLine
  <1>2. ASSUME NEW j \in DOMAIN lines', IsRegular(j)'
        PROVE  /\ \A k \in lines'[j].keys :
                      j \in Range(refs'[k]) \/ IsFinal(k)'
               /\ ~IsWaiting(j)' =>
                      IsCodeOf(lines'[j], LastExpr(symbols', lines'[j]))
    <2>1. /\ j \in DOMAIN lines /\ lines'[j].stmt = lines[j].stmt
          /\ lines[j].stmt.op \in Instructions /\ IsSteady(lines[j])
          /\ lines'[j].size # 0 /\ ~lines'[j].missed
      BY <1>1, <1>2, InLineKeepsLines DEF IsRegular, IsSteady
    <2>2. CASE Instructs(i) /\ j = i
      <3> DEFINE expr == LastExpr(symbols, lines'[i])
      <3>1. \A k \in lines'[i].keys : i \in Range(refs'[k]) \/ IsFinal(k)
        BY <1>1, <2>1, <2>2, InstructedOperand
      <3>2. \A k \in lines'[i].keys : i \in Range(refs'[k]) \/ IsFinal(k)'
        BY <1>1, <2>1, <2>2, InstructedOperand
      <3>3. ASSUME ~IsWaiting(i)'
            PROVE  IsCodeOf(lines'[i], LastExpr(symbols', lines'[i]))
        <4>1. /\ LooksUp(i) /\ symbols' = symbols
              /\ lines'[i].size = CodeSize(lines[i].stmt.op, expr)
              /\ lines'[i].code =
                     CodeBytes(lines[i].stmt.op, lines[i].address, expr)
              /\ ~IsRefused(lines[i].stmt.op, lines[i].address, expr)
          BY <2>2 DEF Instructs
        <4>2. \A k \in OperandKeys(lines'[i]) : IsFinal(k)
          BY <3>1, <3>3, <4>1 DEF IsWaiting, LooksUp
        <4>3. ~expr.fwd
          BY <4>2, ForwardOperand DEF OperandKeys, LastExpr
        <4>4. lines'[i].address = lines[i].address
          BY <4>1 DEF LooksUp, KeepsOthers
        <4>5. lines[i].stmt.op = "branch" =>
                  IsInReach(BranchOffset(lines[i].address, expr.value))
          BY <4>1, <4>3 DEF IsRefused
        <4> HIDE DEF expr
        <4>6. IsCodeOf(lines'[i], expr)
          BY <2>1, <2>2, <4>1, <4>4, <4>5 DEF IsCodeOf
        <4> QED
          BY <4>1, <4>6 DEF expr
      <3> QED
        BY <2>2, <3>2, <3>3
    <2>3. CASE /\ lines'[j] = lines[j]
               /\ \A x \in Keys : j \in Range(refs[x]) => j \in Range(refs'[x])
      <3> DEFINE line == lines[j]
      <3>1. IsRegular(j)
        BY <2>1, <2>3 DEF IsRegular
      <3>2. line.keys = OperandKeys(line) /\ line.keys \subseteq Keys
            /\ OperandNames(line.stmt.operand) \subseteq Names
        BY <1>1, <2>1, <3>1, LineNames DEF CodeParts, KeysAreOperands, IsRegular
      <3>3. \A k \in line.keys : j \in Range(refs[k]) \/ IsFinal(k)
        BY <2>1, <3>1 DEF CodeParts, InstructionsWait
      <3>4. ASSUME NEW k \in line.keys, IsFinal(k)
            PROVE  IsFinal(k)'
        <4>1. k \in Keys /\ KeyName(k) \in Steady
          <5>1. PICK n \in OperandNames(line.stmt.operand) : k = KeyOf(n, line.in)
            BY <3>2 DEF OperandKeys
          <5> QED
            BY <2>1, <3>2, <5>1, KeyOfName DEF IsSteady
        <4>2. symbols'[k] = symbols[k]
          BY <3>4, <4>1, InLineKeepsFinal
        <4> QED
          BY <3>4, <4>2 DEF IsFinal, IsDefined
      <3>5. \A k \in line.keys : j \in Range(refs[k]) => j \in Range(refs'[k])
        BY <2>3, <3>2
      <3>6. ASSUME ~IsWaiting(j)'
            PROVE  IsCodeOf(lines'[j], LastExpr(symbols', lines'[j]))
        <4>1. ~IsWaiting(j)
          BY <2>3, <3>5, <3>6 DEF IsWaiting
        <4>2. IsCodeOf(line, LastExpr(symbols, line))
          BY <2>1, <3>1, <4>1 DEF CodeParts, CodeIsCurrent
        <4>3. \A k \in line.keys : IsFinal(k)
          BY <3>3, <4>1 DEF IsWaiting
        <4>4. ~LastExpr(symbols, line).fwd
          BY <3>2, <4>3, ForwardOperand DEF OperandKeys, LastExpr
        <4>5. LastExpr(symbols', line) = LastExpr(symbols, line)
          <5> HIDE DEF line
          <5> QED
            BY <2>1, <3>2, <4>4, OperandStays DEF line
        <4> QED
          BY <2>3, <4>2, <4>5
      <3> QED
        BY <2>3, <3>3, <3>4, <3>5, <3>6
    <2> QED
      BY <1>1, <2>1, <2>2, <2>3, InLineInstruction
  <1>3. InstructionsWait'
    BY <1>2 DEF InstructionsWait
  <1>4. CodeIsCurrent'
    BY <1>2 DEF CodeIsCurrent, LastExpr
  <1> QED
    BY <1>3, <1>4

LEMMA InLineKeepsCodeParts ==
    ASSUME IInv, IInv', CodeParts, NEW i, InLine(i)
    PROVE  CodeParts'
  BY InLineKeepsSymbolsHaveLines, InLineKeepsEquatesAreCurrent,
     InLineKeepsEquatesDefine, InLineKeepsLinks, InLineKeepsScopesPass,
     InLineKeepsFresh, InLineKeepsCode DEF CodeParts

-----------------------------------------------------------------------------
(***************************************************************************)
(* The other actions.                                                      *)
(***************************************************************************)
(* Between two lines an EQU with a final value waits only for local labels *)
(* of scopes that have passed.                                             *)
LEMMA WaitingEquatesArePast ==
    ASSUME IInv, ListsInv, CodeParts, calls = <<>>,
           NEW k \in Keys, IsFinal(k), KeyName(k) \in Steady,
           NEW j, j = symbols[k].line, lines[j].stmt.op = "equ",
           NEW x \in Keys, j \in Range(refs[x])
    PROVE  IsPast(x)
  <1>1. TypeOK /\ ~IsFinal(x)
    <2>1. TypeOK
      BY DEF IInv
    <2>2. refs[x] # <<>>
      BY <2>1, WaitingLines
    <2>3. ~IsBeingUpdated(x)
      BY DEF IsBeingUpdated
    <2> QED
      BY <2>1, <2>2, <2>3 DEF ListsInv, AreInStep, MayHaveWaiters, IsFinal
  <1> DEFINE n == KeyName(x)
  <1>2. j \in DOMAIN lines /\ n \in OperandNames(lines[j].stmt.operand)
        /\ n \in Names
    <2>1. j \in DOMAIN lines
      BY DEF CodeParts, SymbolsHaveLines, IsFinal
    <2> QED
      BY <1>1, <2>1, LineNames DEF CodeParts, LinksAreOfOperands
  <1>3. IsFinal(KeyOf(n, lines[j].in))
    <2>1. symbols[k] = SymbolAs(j, LastExpr(symbols, lines[j]))
      BY DEF CodeParts, EquatesAreCurrent
    <2>2. ~LastExpr(symbols, lines[j]).fwd
      BY <2>1 DEF SymbolAs, IsFinal
    <2> HIDE DEF n
    <2> QED
      BY <1>2, <2>2, ForwardOperand DEF LastExpr
  <1>4. x # KeyOf(n, lines[j].in)
    BY <1>1, <1>3
  <1>5. /\ x[2] # NoName /\ n = x[2] /\ n \in LocalNames /\ x = <<x[1], n>>
        /\ x[1] # lines[j].in
    <2>1. x[2] # NoName
      <3> SUFFICES ASSUME x[2] = NoName PROVE FALSE
        OBVIOUS
      <3>1. n = x[1] /\ x = GlobalKey(n) /\ n \notin LocalNames
        BY KeyParts
      <3> HIDE DEF n
      <3> QED
        BY <1>2, <1>4, <3>1, KeyOfName
    <2>2. n = x[2] /\ n \in LocalNames /\ x = <<x[1], n>>
      BY <2>1, KeyParts
    <2> QED
      BY <1>4, <2>1, <2>2 DEF KeyOf
  <1>6. ~IsDefined(x)
    <2> SUFFICES ASSUME IsDefined(x) PROVE FALSE
      OBVIOUS
    <2>1. symbols[x].fwd
      BY <1>1 DEF IsFinal
    <2>2. \E m, line : symbols[x] = SymbolAs(m, AddressExpr(line))
      BY <1>5 DEF CodeParts, SymbolsHaveLines
    <2> QED
      BY <2>1, <2>2 DEF SymbolAs, AddressExpr
  <1>7. (lines[j].at = pc /\ lines[j].in = globalLabel) \/ IsPast(x)
    BY DEF CodeParts, EquatesAreFresh
  <1> QED
    BY <1>5, <1>6, <1>7 DEF IsPast

LEMMA ParseLineKeepsCode ==
    ASSUME IInv, ListsInv, CodeParts, NEW stmt \in Statements, ParseLine(stmt)
    PROVE  CodeParts'
  <1> DEFINE scope == IF stmt.label \in GlobalNames THEN stmt.label
                      ELSE globalLabel
             new   == NewLine(stmt, scope)
             n     == Len(lines)
  <1>1. /\ lines' = Append(lines, new) /\ globalLabel' = scope
        /\ phase = "read" /\ phase' = "parsed"
        /\ symbols' = symbols /\ refs' = refs
    BY DEF ParseLine
  <1>2. new.size = 0 /\ ~new.wasEqu /\ new.stmt = stmt
    BY DEF NewLine
  <1> HIDE DEF new
  <1>3. /\ n \in Nat /\ DOMAIN lines = 1 .. n /\ TypeOK /\ calls = <<>>
        /\ Len(lines') = n + 1 /\ DOMAIN lines' = 1 .. n + 1
        /\ \A j \in 1 .. n : lines'[j] = lines[j]
        /\ lines'[n + 1] = new
    <2>1. TypeOK /\ calls = <<>>
      BY <1>1 DEF IInv, PhaseOK
    <2>2. lines \in Seq(Line) /\ n \in Nat /\ DOMAIN lines = 1 .. n
      BY <2>1 DEF TypeOK
    <2> QED
      BY <1>1, <2>1, <2>2
  <1>4. /\ \A j \in DOMAIN lines :
              /\ j \in DOMAIN lines' /\ lines'[j] = lines[j]
              /\ j # n + 1 /\ j # 0
        /\ \A j \in DOMAIN lines' :
              j \in DOMAIN lines \/ (j = n + 1 /\ lines'[j] = new)
        /\ n + 1 # 0
    BY <1>3
  <1>5. Steady' \subseteq Steady
    BY <1>4, SteadyShrinks
  <1>6. \A k \in Keys : IsDefined(k) => symbols[k].line \in DOMAIN lines
    BY DEF CodeParts, SymbolsHaveLines
  <1>7. \A k \in Keys : symbols[k].line # n + 1
    BY <1>4, <1>6 DEF IsDefined
  <1>8. LastLine' = new
    BY <1>3 DEF LastLine
  <1> HIDE DEF n
  <1>9. SymbolsHaveLines'
    <2> SUFFICES ASSUME NEW k \in Keys, IsDefined(k), NEW j,
                        j = symbols[k].line
                 PROVE  /\ j \in DOMAIN lines'
                        /\ lines'[j].stmt.label = KeyName(k)
                        /\ lines'[j].stmt.op # "equ" =>
                              symbols[k] = SymbolAs(j, AddressExpr(lines'[j]))
                        /\ lines'[j].stmt.op = "equ" =>
                              k[2] = NoName /\ lines'[j].wasEqu
      BY <1>1 DEF SymbolsHaveLines, IsDefined
    <2>1. /\ lines[j].stmt.label = KeyName(k)
          /\ lines[j].stmt.op # "equ" =>
                symbols[k] = SymbolAs(j, AddressExpr(lines[j]))
          /\ lines[j].stmt.op = "equ" =>
                k[2] = NoName /\ lines[j].wasEqu
      BY DEF CodeParts, SymbolsHaveLines
    <2>2. j \in DOMAIN lines' /\ lines'[j] = lines[j]
      BY <1>4, <1>6
    <2> QED
      BY <2>1, <2>2
  <1>10. EquatesAreCurrent'
    <2> SUFFICES ASSUME NEW k \in Keys, IsFinal(k), KeyName(k) \in Steady,
                        NEW j, j = symbols[k].line,
                        lines'[j].stmt.op = "equ"
                 PROVE  symbols[k] = SymbolAs(j, LastExpr(symbols, lines'[j]))
      BY <1>1, <1>5 DEF EquatesAreCurrent, IsFinal, IsDefined
    <2>1. lines'[j] = lines[j]
      BY <1>4, <1>6 DEF IsFinal
    <2> QED
      BY <2>1 DEF CodeParts, EquatesAreCurrent
  <1>11. EquatesDefine'
    <2>1. ASSUME NEW j \in DOMAIN lines', lines'[j].wasEqu,
                 lines'[j].stmt.label \in GlobalNames
          PROVE  symbols[GlobalKey(lines'[j].stmt.label)].line = j
      <3>1. j \in DOMAIN lines /\ lines'[j] = lines[j]
        BY <1>2, <1>4, <2>1
      <3> QED
        BY <2>1, <3>1 DEF CodeParts, EquatesDefine
    <2>2. \A k \in Keys : symbols[k].line # Len(lines')
      BY <1>3, <1>7 DEF n
    <2> QED
      BY <1>1, <2>1, <2>2 DEF EquatesDefine
  <1>12. LinksAreOfOperands'
    <2> SUFFICES ASSUME NEW x \in Keys, NEW j \in Range(refs[x])
                 PROVE  KeyName(x) \in OperandNames(lines'[j].stmt.operand)
      BY <1>1 DEF LinksAreOfOperands
    <2>1. lines'[j] = lines[j]
      BY <1>3, <1>4, WaitingLines
    <2> QED
      BY <2>1 DEF CodeParts, LinksAreOfOperands
  <1>13. KeysAreOperands'
    <2> SUFFICES ASSUME NEW j \in DOMAIN lines',
                        lines'[j].size # 0 \/ lines'[j].wasEqu
                 PROVE  lines'[j].keys = OperandKeys(lines'[j])
      BY DEF KeysAreOperands, OperandKeys
    <2>1. j \in DOMAIN lines /\ lines'[j] = lines[j]
      BY <1>2, <1>4
    <2> QED
      BY <2>1 DEF CodeParts, KeysAreOperands
  <1>14. globalLabel = NoName \/ IsDefined(GlobalKey(globalLabel))
    BY <1>1 DEF CodeParts, ScopesPass
  <1>15. \A x \in Keys : refs[x] # <<>> /\ x[2] # NoName =>
             IsDefined(GlobalKey(x[1])) /\ x[1] \in GlobalNames
    <2> SUFFICES ASSUME NEW x \in Keys, refs[x] # <<>>, x[2] # NoName
                 PROVE  IsDefined(GlobalKey(x[1])) /\ x[1] \in GlobalNames
      OBVIOUS
    <2>1. x[1] \in GlobalNames /\ x[1] # NoName
      BY KeyParts DEF Names
    <2> QED
      BY <1>14, <2>1 DEF CodeParts, ScopesPass
  <1>16. ScopesPass'
    <2>1. CASE stmt.label \in GlobalNames
      BY <1>1, <1>2, <1>8, <1>15, <2>1 DEF ScopesPass, IsDefined
    <2>2. CASE stmt.label \notin GlobalNames
      BY <1>1, <1>14, <1>15, <2>2 DEF ScopesPass, IsDefined
    <2> QED
      BY <2>1, <2>2
  <1>17. EquatesAreFresh'
    <2> SUFFICES ASSUME NEW k \in Keys, IsFinal(k), KeyName(k) \in Steady,
                        NEW j, j = symbols[k].line,
                        lines'[j].stmt.op = "equ",
                        NEW x \in Keys, j \in Range(refs[x])
                 PROVE  IsPast(x)'
      BY <1>1, <1>5 DEF EquatesAreFresh, IsFinal, IsDefined
    <2>1. lines'[j] = lines[j]
      BY <1>4, <1>6 DEF IsFinal
    <2>2. IsPast(x)
      BY <1>3, <2>1, WaitingEquatesArePast
    <2>3. x[2] # NoName /\ ~IsDefined(x) /\ x[1] # globalLabel
      BY <1>1, <2>2 DEF IsPast, IsRedefinition
    <2>4. x[1] # scope \/ IsRedefinition'
      <3> SUFFICES ASSUME x[1] = scope PROVE IsRedefinition'
        OBVIOUS
      <3>1. x[1] = stmt.label /\ stmt.label \in GlobalNames
        BY <2>3
      <3>2. refs[x] # <<>>
        BY <1>3, WaitingLines
      <3>3. IsDefined(GlobalKey(x[1])) /\ GlobalKey(x[1]) \in Keys
        BY <1>15, <2>3, <3>1, <3>2 DEF GlobalKey, Keys
      <3>4. symbols[GlobalKey(x[1])].line \notin {0, Len(lines')}
        BY <1>3, <1>7, <3>3 DEF IsDefined, n
      <3> QED
        BY <1>1, <1>2, <1>8, <3>1, <3>4 DEF IsRedefinition
    <2> QED
      BY <1>1, <2>3, <2>4 DEF IsPast, IsDefined
  <1>18. ASSUME NEW j \in DOMAIN lines', IsRegular(j)'
         PROVE  j \in DOMAIN lines /\ lines'[j] = lines[j] /\ IsRegular(j)
    BY <1>2, <1>4, <1>5, <1>18 DEF IsRegular, IsSteady
  <1>19. InstructionsWait'
    BY <1>1, <1>18 DEF InstructionsWait, CodeParts, IsFinal, IsDefined
  <1>20. CodeIsCurrent'
    <2> SUFFICES ASSUME NEW j \in DOMAIN lines', IsRegular(j)', ~IsWaiting(j)'
                 PROVE  IsCodeOf(lines'[j], LastExpr(symbols', lines'[j]))
      BY DEF CodeIsCurrent, LastExpr
    <2>1. j \in DOMAIN lines /\ lines'[j] = lines[j] /\ IsRegular(j)
      BY <1>18
    <2>2. ~IsWaiting(j)
      BY <1>1, <2>1 DEF IsWaiting
    <2> QED
      BY <1>1, <2>1, <2>2 DEF CodeParts, CodeIsCurrent
  <1> QED
    BY <1>9, <1>10, <1>11, <1>12, <1>13, <1>16, <1>17, <1>19, <1>20
       DEF CodeParts

(* The steps that change no line, symbol or list. *)
LEMMA OtherStepsKeepCode ==
    ASSUME CodeParts, UNCHANGED <<lines, symbols, refs, globalLabel>>,
           EquatesAreFresh',
           \/ phase' = phase
           \/ phase \in {"read", "labelled"} /\ phase' \in {"read", "done"}
    PROVE  CodeParts'
  <1>1. SymbolsHaveLines' /\ LinksAreOfOperands' /\ KeysAreOperands'
    BY DEF CodeParts, SymbolsHaveLines, LinksAreOfOperands, KeysAreOperands,
       IsDefined
  <1>2. Steady' = Steady
    BY DEF Steady, AreClosed
  <1>3. EquatesAreCurrent'
    BY <1>2 DEF CodeParts, EquatesAreCurrent, IsFinal, IsDefined
  <1>4. EquatesDefine'
    BY DEF CodeParts, EquatesDefine, LastLine
  <1>5. ScopesPass'
    BY DEF CodeParts, ScopesPass, LastLine, IsDefined
  <1>6. \A j \in DOMAIN lines :
            /\ IsRegular(j)' <=> IsRegular(j)
            /\ IsWaiting(j)' <=> IsWaiting(j)
    BY <1>2 DEF IsRegular, IsSteady, IsWaiting
  <1>7. InstructionsWait'
    BY <1>6 DEF CodeParts, InstructionsWait, IsFinal, IsDefined
  <1>8. CodeIsCurrent'
    BY <1>6 DEF CodeParts, CodeIsCurrent
  <1> QED
    BY <1>1, <1>3, <1>4, <1>5, <1>7, <1>8 DEF CodeParts

LEMMA StepKeepsCode ==
    ASSUME IInv, IInv', ListsInv, CodeInv, [Next]_vars
    PROVE  CodeInv'
  <1> SUFFICES ASSUME ~failed' PROVE CodeParts'
    BY DEF CodeInv
  <1>1. ASSUME ~failed PROVE CodeParts
    BY <1>1 DEF CodeInv
  <1>2. ASSUME NEW i, InLine(i) PROVE CodeParts'
    BY <1>1, <1>2, InLineKeepsOthers, InLineKeepsCodeParts DEF KeepsOthers
  <1>3. ASSUME NEW stmt \in Statements, ParseLine(stmt) PROVE CodeParts'
    <2>1. ~failed
      BY <1>3 DEF ParseLine
    <2> QED
      BY <1>1, <1>3, <2>1, ParseLineKeepsCode
  <1>4. CASE AssembleSourceLine
    BY <1>2, <1>4, AssembleSourceLineInLine
  <1>5. CASE UpdateLine
    BY <1>2, <1>5, UpdateLineInLine
  <1>6. CASE AddUnhandledLabel
    BY <1>2, <1>6, AddUnhandledLabelInLine
  <1>7. CASE FinishUpdate \/ UNCHANGED vars
    <2>1. UNCHANGED <<lines, symbols, refs, globalLabel, pc, phase, failed>>
      BY <1>7 DEF FinishUpdate, vars
    <2>2. CodeParts
      BY <1>1, <2>1
    <2>3. EquatesAreFresh'
      <3>1. Steady' = Steady
        BY <2>1 DEF Steady, AreClosed
      <3> QED
        BY <2>1, <2>2, <3>1 DEF CodeParts, EquatesAreFresh, IsFinal, IsPast,
           IsRedefinition, IsDefined, LastLine
    <2> QED
      BY <2>1, <2>2, <2>3, OtherStepsKeepCode
  <1>8. CASE EndOfSource
    <2>1. /\ UNCHANGED <<lines, symbols, refs, globalLabel, pc>>
          /\ phase = "read" /\ phase' = "done" /\ ~failed
      BY <1>8 DEF EndOfSource
    <2>2. CodeParts
      BY <1>1, <2>1
    <2>3. EquatesAreFresh'
      <3>1. Steady' = Steady
        BY <2>1 DEF Steady, AreClosed
      <3>2. \A x \in Keys : IsPast(x) => IsPast(x)'
        BY <2>1 DEF IsPast, IsRedefinition, IsDefined
      <3> QED
        BY <2>1, <2>2, <3>1, <3>2 DEF CodeParts, EquatesAreFresh, IsFinal,
           IsDefined
    <2> QED
      BY <2>1, <2>2, <2>3, OtherStepsKeepCode
  <1>9. CASE AdvanceProgramCounter
    <2>1. /\ UNCHANGED <<lines, symbols, refs, globalLabel>> /\ calls = <<>>
          /\ phase = "labelled" /\ phase' = "read" /\ ~failed
      BY <1>9 DEF AdvanceProgramCounter
    <2>2. CodeParts
      BY <1>1, <2>1
    <2>3. EquatesAreFresh'
      <3> SUFFICES ASSUME NEW k \in Keys, IsFinal(k), KeyName(k) \in Steady,
                          NEW j, j = symbols[k].line,
                          lines[j].stmt.op = "equ",
                          NEW x \in Keys, j \in Range(refs[x])
                   PROVE  IsPast(x)'
        <4>1. Steady' = Steady
          BY <2>1 DEF Steady, AreClosed
        <4> QED
          BY <2>1, <4>1 DEF EquatesAreFresh, IsFinal, IsDefined
      <3>1. IsPast(x)
        BY <2>1, <2>2, WaitingEquatesArePast
      <3> QED
        BY <2>1, <3>1 DEF IsPast, IsRedefinition, IsDefined
    <2> QED
      BY <2>1, <2>2, <2>3, OtherStepsKeepCode
  <1> QED
    BY <1>3, <1>4, <1>5, <1>6, <1>7, <1>8, <1>9 DEF Next

LEMMA InitEstablishesCode == Init => CodeInv
  <1> SUFFICES ASSUME Init PROVE CodeParts
    BY DEF CodeInv
  <1>1. /\ DOMAIN lines = {}
        /\ \A k \in Keys : ~IsDefined(k) /\ refs[k] = <<>> /\ Range(refs[k]) = {}
        /\ globalLabel = NoName /\ phase = "read"
    BY DEF Init, IsDefined, UndefinedSymbol, Range
  <1> QED
    BY <1>1 DEF CodeParts, SymbolsHaveLines, EquatesAreCurrent, EquatesDefine,
       LinksAreOfOperands, KeysAreOperands, ScopesPass, EquatesAreFresh,
       InstructionsWait, CodeIsCurrent, IsFinal

-----------------------------------------------------------------------------
(***************************************************************************)
(* What is written.                                                        *)
(***************************************************************************)
WrittenIsFinal ==
    written => phase = "done" /\ ~failed /\ ~HasUndefinedSymbols

LEMMA StepKeepsWrittenIsFinal ==
    ASSUME IInv, WrittenIsFinal, [Next]_vars
    PROVE  WrittenIsFinal'
  <1>1. CASE EndOfSource
    BY <1>1 DEF EndOfSource, WrittenIsFinal, HasUndefinedSymbols
  <1>2. CASE UNCHANGED vars
    BY <1>2 DEF vars, WrittenIsFinal, HasUndefinedSymbols
  <1>3. CASE ~EndOfSource /\ ~UNCHANGED vars
    <2>1. phase # "done" /\ written' = written
      BY <1>3 DEF Next, ParseLine, AssembleSourceLine, UpdateLine,
         FinishUpdate, AddUnhandledLabel, AdvanceProgramCounter, IInv, PhaseOK
    <2> QED
      BY <2>1 DEF WrittenIsFinal
  <1> QED
    BY <1>1, <1>2, <1>3

(* A plain operand has the value it would have where its line was read. *)
LEMMA PlainOperand ==
    ASSUME TypeOK, NEW i \in DOMAIN lines, IsPlain(lines[i]),
           OperandKeys(lines[i]) \subseteq Keys
    PROVE  /\ LastExpr(symbols, lines[i]).value = CurrentExpr(lines[i]).value
           /\ LastExpr(symbols, lines[i]).zp = CurrentExpr(lines[i]).zp
  <1> DEFINE line    == lines[i]
             operand == line.stmt.operand
             Of(n)   == IF n = NoName THEN [value |-> 0, zp |-> TRUE]
                        ELSE [value |-> symbols[KeyOf(n, line.scope)].value,
                              zp |-> symbols[KeyOf(n, line.scope)].zp]
             X == TermUnder(symbols, operand.first, line.in)
             Y == TermUnder(symbols, operand.second, line.in)
             C == operand.const
             H == IF operand.here THEN line.at ELSE 0
  <1>1. line \in Line /\ operand \in Operand
    <2>1. line \in Line
      BY ElementOfSeq DEF TypeOK
    <2> QED
      BY <2>1 DEF Line, Statement
  <1>2. ASSUME NEW n \in {operand.first, operand.second}
        PROVE  /\ TermUnder(symbols, n, line.in).value = Of(n).value
               /\ TermUnder(symbols, n, line.in).zp = Of(n).zp
               /\ TermUnder(symbols, n, line.in).value \in Nat
    <2>1. CASE n = NoName
      BY <2>1 DEF TermUnder
    <2>2. CASE n # NoName
      <3>1. n \in OperandNames(operand)
        BY <2>2 DEF OperandNames
      <3>2. KeyOf(n, line.in) \in Keys
        BY <3>1 DEF OperandKeys
      <3>3. KeyOf(n, line.scope) = KeyOf(n, line.in)
        BY <3>1 DEF IsPlain, Mentions, KeyOf
      <3>4. symbols[KeyOf(n, line.in)] \in Symbol
        BY <3>2 DEF TypeOK
      <3> HIDE DEF line
      <3> QED
        BY <2>2, <3>3, <3>4 DEF TermUnder, Symbol
    <2> QED
      BY <2>1, <2>2
  <1>3. H \in Nat /\ C \in Nat /\ H = IF operand.here THEN line.address ELSE 0
    BY <1>1 DEF IsPlain, Line, Word, Operand
  <1>4. /\ LastExpr(symbols, line).value = C + H + X.value + Y.value
        /\ LastExpr(symbols, line).zp =
               (X.zp /\ Y.zp /\ C + H + X.value + Y.value <= 255)
    BY DEF LastExpr, ExprUnder
  <1> DEFINE P == Of(operand.first)
             Q == Of(operand.second)
  <1>5. /\ CurrentExpr(line).value = C + P.value + Q.value + H
        /\ CurrentExpr(line).zp =
               (P.zp /\ Q.zp /\ C + P.value + Q.value + H <= 255)
    BY <1>3 DEF CurrentExpr
  <1>6. /\ X.value = P.value /\ X.zp = P.zp /\ X.value \in Nat
        /\ Y.value = Q.value /\ Y.zp = Q.zp /\ Y.value \in Nat
    BY <1>2
  <1> HIDE DEF X, Y, P, Q, C, H
  <1>7. C + H + X.value + Y.value = C + P.value + Q.value + H
    BY <1>3, <1>6
  <1> QED
    BY <1>4, <1>5, <1>6, <1>7

(* The code of every plain instruction, once the output is written. *)
LEMMA WrittenCode ==
    ASSUME IInv, AddressesInv, CodeInv, WrittenIsFinal, written,
           NEW i \in InstructionLines, IsPlain(lines[i])
    PROVE  /\ lines[i].stmt.op \in Instructions
           /\ IsCodeOf(lines[i], LastExpr(symbols, lines[i]))
           /\ LastExpr(symbols, lines[i]).value = CurrentExpr(lines[i]).value
           /\ LastExpr(symbols, lines[i]).zp = CurrentExpr(lines[i]).zp
  <1>1. /\ TypeOK /\ i \in DOMAIN lines /\ lines[i].stmt.op \in Instructions
        /\ phase = "done" /\ CodeParts /\ InstructionsHaveSize
        /\ ~HasUndefinedSymbols
    BY DEF IInv, InstructionLines, WrittenIsFinal, CodeInv, AddressesInv
  <1>2. lines[i].size # 0
    BY <1>1 DEF InstructionsHaveSize, IsInstruction
  <1>3. lines[i].keys = OperandKeys(lines[i]) /\ lines[i].keys \subseteq Keys
    BY <1>1, <1>2, LineNames DEF CodeParts, KeysAreOperands
  <1>4. IsRegular(i)
    BY <1>1, <1>2, UsesNoVariableIsSteady DEF IsRegular, IsPlain
  <1>5. ~IsWaiting(i)
    <2>1. \A k \in Keys : Range(refs[k]) = {}
      BY <1>1, WaitingLines DEF HasUndefinedSymbols
    <2> QED
      BY <1>3, <2>1 DEF IsWaiting
  <1>6. IsCodeOf(lines[i], LastExpr(symbols, lines[i]))
    BY <1>1, <1>4, <1>5 DEF CodeParts, CodeIsCurrent
  <1> QED
    BY <1>1, <1>3, <1>6, PlainOperand

MachineCodeInv == IInv /\ ListsInv /\ AddressesInv /\ CodeInv /\ WrittenIsFinal

LEMMA MachineCodeInvariance == Spec => []MachineCodeInv
  <1>1. Init => MachineCodeInv
    <2>1. Init => WrittenIsFinal
      BY DEF Init, WrittenIsFinal
    <2> QED
      BY <2>1, InitEstablishes, InitEstablishesLists,
         InitEstablishesAddresses, InitEstablishesCode DEF MachineCodeInv
  <1>2. MachineCodeInv /\ [Next]_vars => MachineCodeInv'
    <2> SUFFICES ASSUME MachineCodeInv, [Next]_vars PROVE MachineCodeInv'
      OBVIOUS
    <2>1. IInv /\ ListsInv /\ AddressesInv /\ CodeInv /\ WrittenIsFinal
      BY DEF MachineCodeInv
    <2>2. IInv'
      BY <2>1, StepKeeps
    <2>3. ListsInv' /\ AddressesInv'
      BY <2>1, StepKeepsLists, StepKeepsAddresses
    <2>4. CodeInv' /\ WrittenIsFinal'
      BY <2>1, <2>2, StepKeepsCode, StepKeepsWrittenIsFinal
    <2> QED
      BY <2>2, <2>3, <2>4 DEF MachineCodeInv
  <1> QED
    BY <1>1, <1>2, PTL DEF Spec

(* Unless an error is reported, a symbol that has its final value keeps    *)
(* it, when it is no variable and depends on none: an EQU is assembled     *)
(* again for each symbol it waited for, after lines may have used it.      *)
FinalSymbolsStay ==
    [][~failed' =>
           \A k \in Keys : IsFinal(k) /\ KeyName(k) \in Steady =>
               symbols'[k] = symbols[k]]_vars

(* What was used to assemble a line is not redefined behind its back: no   *)
(* step changes a final symbol that no variable reaches.                   *)
THEOREM FinalSymbolsAreStable == Spec => FinalSymbolsStay
  <1>1. ASSUME MachineCodeInv, [Next]_vars, ~failed',
               NEW k \in Keys, IsFinal(k), KeyName(k) \in Steady
        PROVE  symbols'[k] = symbols[k]
    <2>1. IInv /\ ListsInv /\ CodeInv
      BY <1>1 DEF MachineCodeInv
    <2>2. ASSUME NEW i, InLine(i) PROVE symbols'[k] = symbols[k]
      <3>1. CodeParts
        BY <2>1, <2>2, InLineKeepsOthers DEF CodeInv, KeepsOthers
      <3> QED
        BY <1>1, <2>1, <2>2, <3>1, InLineKeepsFinal
    <2>3. CASE AssembleSourceLine \/ UpdateLine \/ AddUnhandledLabel
      BY <1>1, <2>1, <2>2, <2>3, AssembleSourceLineInLine, UpdateLineInLine,
         AddUnhandledLabelInLine
    <2>4. CASE ~(AssembleSourceLine \/ UpdateLine \/ AddUnhandledLabel)
      BY <1>1, <2>4 DEF Next, vars, ParseLine, FinishUpdate,
         AdvanceProgramCounter, EndOfSource
    <2> QED
      BY <2>3, <2>4
  <1>2. MachineCodeInv /\ [Next]_vars =>
            [~failed' =>
                \A k \in Keys : IsFinal(k) /\ KeyName(k) \in Steady =>
                    symbols'[k] = symbols[k]]_vars
    BY <1>1
  <1> QED
    BY <1>2, MachineCodeInvariance, PTL DEF Spec, FinalSymbolsStay

(* The machine code that is written for a line is that of its operand      *)
(* under the final symbol table, although it was assembled when some of    *)
(* its symbols were still undefined: for every source, every order of      *)
(* definitions and uses, and every nesting of updates.  The lines that are *)
(* not plain are those the known departures are about.                     *)
THEOREM CodeIsOfTheFinalSymbols == Spec => []CodeMatchesSymbols
  <1>1. MachineCodeInv => CodeMatchesSymbols
    <2> SUFFICES ASSUME MachineCodeInv, written,
                        NEW i \in InstructionLines, IsPlain(lines[i])
                 PROVE  IsCodeCurrent(lines[i])
      BY DEF CodeMatchesSymbols
    <2> DEFINE last == LastExpr(symbols, lines[i])
               now  == CurrentExpr(lines[i])
    <2>1. IsCodeOf(lines[i], last) /\ last.value = now.value /\ last.zp = now.zp
      BY WrittenCode DEF MachineCodeInv
    <2>2. /\ CodeSize(lines[i].stmt.op, last) = CodeSize(lines[i].stmt.op, now)
          /\ CodeBytes(lines[i].stmt.op, lines[i].address, last) =
                 CodeBytes(lines[i].stmt.op, lines[i].address, now)
      BY <2>1 DEF CodeSize, CodeBytes
    <2> QED
      BY <2>1, <2>2 DEF IsCodeOf, IsCodeCurrent
  <1> QED
    BY <1>1, MachineCodeInvariance, PTL

(* A branch that is written reaches the address its operand has in the     *)
(* end, although a forward branch is accepted unchecked when it is read.   *)
THEOREM WrittenBranchesReach == Spec => []BranchesReach
  <1>1. MachineCodeInv => BranchesReach
    <2> SUFFICES ASSUME MachineCodeInv, written,
                        NEW i \in InstructionLines, IsPlain(lines[i]),
                        lines[i].stmt.op = "branch"
                 PROVE  IsInReach(BranchOffset(lines[i].address,
                                               CurrentExpr(lines[i]).value))
      BY DEF BranchesReach
    <2>1. /\ IsCodeOf(lines[i], LastExpr(symbols, lines[i]))
          /\ LastExpr(symbols, lines[i]).value = CurrentExpr(lines[i]).value
      BY WrittenCode DEF MachineCodeInv
    <2> QED
      BY <2>1 DEF IsCodeOf
  <1> QED
    BY <1>1, MachineCodeInvariance, PTL
=============================================================================
