------------------------------ MODULE Operands -------------------------------
(***************************************************************************)
(* How snap reads a line and its operand field: ParseLine.c,               *)
(* AddressingMode.c and ExpressionEval.c.  A line is a sequence of tokens: *)
(* " " is white space, an operator or a label is one token, and so is a    *)
(* number; where single characters count (quotes, hex data) each is a      *)
(* token.  Numbers have up to 32 bits here; longer ones are an error.      *)
(***************************************************************************)
EXTENDS Integers, SequencesExt, Bitwise

CONSTANTS
    WordSize,   \* 2^32: the values of a uint32_t
    Numerals,   \* the numbers that sources contain: base and digits of each
    Characters, \* the characters that quotes contain, with their codes
    Labels      \* the names of labels

ASSUME OperandsAssumption ==
    /\ WordSize \in Nat \ {0}
    /\ \A n \in DOMAIN Numerals :
          /\ Numerals[n].base \in {2, 10, 16}
          /\ \A i \in DOMAIN Numerals[n].digits :
                Numerals[n].digits[i] \in 0 .. Numerals[n].base - 1
    /\ \A c \in DOMAIN Characters : Characters[c] \in 0 .. 255

Undefined == -1

(* The place of the first token of the kind at or behind i, or the end.    *)
NextIn(s, kinds, i) ==
    Min({j \in i .. Len(s) : s[j] \in kinds} \cup {Len(s) + 1})

(* SizedString_strchr *)
Has(s, token) == token \in Range(s)

Location(s, token) == NextIn(s, {token}, 1)

(* SizedString_SplitString: what is before and after the first token.      *)
Before(s, token) == SubSeq(s, 1, Location(s, token) - 1)

After(s, token) == SubSeq(s, Location(s, token) + 1, Len(s))

-----------------------------------------------------------------------------
(***************************************************************************)
(* ParseLine.c: label, operator and operands.  A comment starts with ; at  *)
(* the start of the line or behind white space, or with * at the start.    *)
(* Operands keep the white space, and all other text, in front of it.      *)
(***************************************************************************)
SkipOverWhitespace(s, i) ==
    Min({j \in i .. Len(s) : s[j] # " "} \cup {Len(s) + 1})

StartsComment(s, i) == s[i] = ";" /\ (i = 1 \/ s[i - 1] = " ")

IsEndOfLineOrComment(s, i) == i > Len(s) \/ StartsComment(s, i)

EndOfOperands(s, i) ==
    Min({j \in i .. Len(s) : StartsComment(s, j)} \cup {Len(s) + 1})

(* A field from i to the place before j, unless a comment starts at i. *)
Field(s, i, j) == IF IsEndOfLineOrComment(s, i) THEN <<>> ELSE SubSeq(s, i, j - 1)

ParseLine(s) ==
    IF s = <<>> \/ Head(s) \in {"*", ";"}
    THEN [label |-> <<>>, op |-> <<>>, operands |-> <<>>, toTheEnd |-> <<>>]
    ELSE LET labelEnd      == NextIn(s, {" "}, 1)
             opStart       == SkipOverWhitespace(s, labelEnd)
             opEnd         == IF IsEndOfLineOrComment(s, opStart)
                              THEN opStart
                              ELSE NextIn(s, {" "}, opStart)
             operandsStart == SkipOverWhitespace(s, opEnd)
             operands      == Field(s, operandsStart, EndOfOperands(s, operandsStart))
         IN  [label |-> SubSeq(s, 1, labelEnd - 1),
              op |-> Field(s, opStart, opEnd),
              operands |-> operands,
              \* fullOperandStringWithSpaces: comment and all
              toTheEnd |-> IF operands = <<>> THEN <<>>
                           ELSE SubSeq(s, operandsStart, Len(s))]

-----------------------------------------------------------------------------
(***************************************************************************)
(* ExpressionEval.c.  The environment env gives the program counter and    *)
(* the symbols.  An expression ends in a value, in a throw (of which an    *)
(* error tells), or in a division by zero, which ends the program.  refs   *)
(* are the undefined symbols it looked up, which link their lines to them  *)
(* however the expression ends; rest is what has not been read.            *)
(***************************************************************************)
Unsigned(n) == n % WordSize

(* ExpressionEval_CreateAbsoluteExpression *)
Absolute(value, rest) ==
    [end |-> "value", value |-> value,
     type |-> IF value <= 255 THEN "zeropage" ELSE "absolute",
     forward |-> FALSE, refs |-> {}, rest |-> rest]

Failure(end, refs) ==
    [end |-> end, value |-> 0, type |-> "absolute", forward |-> FALSE,
     refs |-> refs, rest |-> <<>>]

(* parseLabelReference: a symbol nobody defined is 0 and not in page zero. *)
LabelReference(label, env, rest) ==
    IF env.symbols[label] # Undefined
    THEN Absolute(env.symbols[label], rest)
    ELSE [Absolute(0, rest) EXCEPT !.type = "absolute", !.forward = TRUE,
                                   !.refs = {label}]

(* parseASCIIValue: the character behind the quote, and a second quote if  *)
(* there is one.                                                           *)
Quoted(s) ==
    LET quote == Head(s)
        code  == IF Len(s) = 1 THEN 0 ELSE Characters[s[2]]
        value == IF quote = "\"" /\ code < 128 THEN code + 128 ELSE code
        skip  == IF Len(s) > 2 /\ s[3] = quote THEN 3 ELSE Min({2, Len(s)})
    IN  Absolute(value, SubSeq(s, skip + 1, Len(s)))

Operators == {"+", "-", "*", "/", "!", ".", "&"}

(* The handlers of the operators, on 32-bit words. *)
Operate(op, l, r) ==
    CASE op = "+" -> Unsigned(l + r)
      [] op = "-" -> Unsigned(l - r)
      [] op = "*" -> Unsigned(l * r)
      [] op = "/" -> l \div r
      [] op = "!" -> l ^^ r
      [] op = "." -> l | r
      [] op = "&" -> l & r

(* Mutant: the type of the left operand stays. *)
LeftType(left, right, value) == left.type

(* combineExpressionTypeAndFlags: a sum is in page zero if both operands   *)
(* and the value are.                                                      *)
CombinedType(left, right, value) ==
    IF left.type = "zeropage" /\ right.type = "zeropage" /\ value <= 255
    THEN "zeropage"
    ELSE "absolute"

Combine(left, op, right) ==
    LET value == Operate(op, left.value, right.value)
    IN  [end |-> "value", value |-> value,
         type |-> CombinedType(left, right, value),
         forward |-> left.forward \/ right.forward,
         refs |-> left.refs \cup right.refs, rest |-> right.rest]

(* parseValue.  The bounds of the model keep numbers within a word. *)
ParseValue(numeral) ==
    FoldLeft(LAMBDA value, digit : numeral.base * value + digit, 0, numeral.digits)

(* The value of the rest of an expression, changed by < > or ^. *)
Part(e, divisor) == [e EXCEPT !.value = (@ \div divisor) % 256]

(* The minus sign, which drops what is known of a forward reference. *)
Negative(e) ==
    IF e.end # "value" THEN e
    ELSE [Absolute(Unsigned(0 - e.value), e.rest) EXCEPT !.refs = e.refs]

RECURSIVE Evaluate(_, _), Primitive(_, _, _), Operations(_, _), Operation(_, _, _)

(* evaluatePrimitive: < > and ^ take the rest of the expression, and the   *)
(* minus sign one operand.                                                 *)
Primitive(token, rest, env) ==
    CASE token \in DOMAIN Numerals -> Absolute(ParseValue(Numerals[token]), rest)
      [] token \in {"'", "\""} -> Quoted(<<token>> \o rest)
      [] token = "*" -> Absolute(env.pc, rest)
      [] token = "<" -> Part(Evaluate(rest, env), 1)
      [] token \in {">", "^"} -> Part(Evaluate(rest, env), 256)
      [] token = "-" /\ rest # <<>> -> Negative(Primitive(Head(rest), Tail(rest), env))
      [] token \in Labels -> LabelReference(token, env, rest)
      [] OTHER -> Failure("throw", {})

(* evaluateOperation, until nothing is left: from left to right, without   *)
(* precedence; white space ends the expression.                            *)
Operations(left, env) ==
    CASE left.end # "value" \/ left.rest = <<>> -> left
      [] left.end = "value" /\ left.rest # <<>> /\ Head(left.rest) = " " ->
            [left EXCEPT !.rest = <<>>]
      [] left.end = "value" /\ Len(left.rest) > 1 /\ Head(left.rest) \in Operators ->
            Operation(left, Primitive(left.rest[2], SubSeq(left.rest, 3, Len(left.rest)), env),
                      env)
      [] OTHER -> Failure("throw", left.refs)

Operation(left, right, env) ==
    IF right.end # "value" THEN Failure(right.end, left.refs \cup right.refs)
    ELSE IF Head(left.rest) = "/" /\ right.value = 0
         THEN Failure("crash", left.refs \cup right.refs)
         ELSE Operations(Combine(left, Head(left.rest), right), env)

(* expressionEval *)
Evaluate(s, env) ==
    IF s = <<>> THEN Failure("throw", {})
    ELSE Operations(Primitive(Head(s), Tail(s), env), env)

Typed(e, isImmediate) ==
    IF isImmediate THEN [e EXCEPT !.type = "immediate"] ELSE e

ExpressionEval(s, env) ==
    LET isImmediate == s # <<>> /\ Head(s) = "#"
    IN  Typed(Evaluate(IF isImmediate THEN Tail(s) ELSE s, env), isImmediate)

-----------------------------------------------------------------------------
(***************************************************************************)
(* AddressingMode.c: the mode is chosen by where the first comma and the   *)
(* first parentheses are.                                                  *)
(***************************************************************************)
HasOpeningParenAtBeginning(s) == s # <<>> /\ Head(s) = "("

HasParens(s) == Has(s, "(") /\ Has(s, ")")

HasNoParens(s) == ~Has(s, "(") /\ ~Has(s, ")")

TruncateAtFirstWhitespace(s) == Before(s, " ")

Mode(mode, expression) ==
    IF expression.end = "value"
    THEN [mode |-> mode, end |-> "value", expression |-> expression]
    ELSE [mode |-> "invalid", end |-> expression.end, expression |-> expression]

InvalidMode == Mode("invalid", Failure("throw", {}))

(* The index register is checked before the expression is evaluated.       *)
Indexed(mode, register, index, s, env) ==
    IF index = <<register>> THEN Mode(mode, ExpressionEval(s, env)) ELSE InvalidMode

IndexedIndirect(inside, env) ==
    Indexed("izx", "X", Before(After(inside, ","), ")"), Before(inside, ","), env)

(* The address in parentheses must be in page zero. *)
InPageZero(mode) ==
    IF mode.end = "value" /\ mode.expression.type # "zeropage"
    THEN [mode EXCEPT !.mode = "invalid", !.end = "throw"]
    ELSE mode

IndirectIndexed(inside, env) ==
    InPageZero(Indexed("izy", "Y",
                       TruncateAtFirstWhitespace(After(After(inside, ")"), ",")),
                       Before(inside, ")"), env))

IndexedAbsolute(s, index, env) ==
    IF index \in {<<"X">>, <<"Y">>}
    THEN Mode(IF index = <<"X">> THEN "abx" ELSE "aby", ExpressionEval(Before(s, ","), env))
    ELSE InvalidMode

ImmediateOrAbsolute(s, env) ==
    Mode(IF Head(s) = "#" THEN "imm" ELSE "abs", ExpressionEval(s, env))

Indirect(inside, env) == Mode("ind", ExpressionEval(Before(inside, ")"), env))

UsesParens(s) == HasParens(s) /\ HasOpeningParenAtBeginning(s)

IsClosingParenAfterComma(s) == Location(s, ")") > Location(s, ",")

UsesIndexedIndirect(s) == UsesParens(s) /\ Has(s, ",") /\ IsClosingParenAfterComma(s)
UsesIndirectIndexed(s) == UsesParens(s) /\ Has(s, ",") /\ ~IsClosingParenAfterComma(s)
UsesIndirect(s) == UsesParens(s) /\ ~Has(s, ",")
UsesIndexed(s) == HasNoParens(s) /\ Has(s, ",")
HasNoCommaOrParens(s) == HasNoParens(s) /\ ~Has(s, ",")

AddressingModeEval(s, env) ==
    CASE s = <<>> -> Mode("impl", Absolute(0, <<>>))
      [] UsesIndexedIndirect(s) -> IndexedIndirect(After(s, "("), env)
      [] UsesIndirectIndexed(s) -> IndirectIndexed(After(s, "("), env)
      [] UsesIndirect(s) -> Indirect(After(s, "("), env)
      [] UsesIndexed(s) -> IndexedAbsolute(s, TruncateAtFirstWhitespace(After(s, ",")), env)
      [] s # <<>> /\ HasNoCommaOrParens(s) -> ImmediateOrAbsolute(s, env)
      [] OTHER -> InvalidMode
=============================================================================
