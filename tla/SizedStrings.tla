---------------------------- MODULE SizedStrings ----------------------------
(***************************************************************************)
(* Strings that are a place in memory and a length (libcommon/src/         *)
(* SizedString.c), fields of a line (ParseCSV.c) and the numbers they      *)
(* hold.                                                                   *)
(*                                                                         *)
(* The memory m is a sequence of characters, which are their ASCII codes.  *)
(* A sized string does not end with a NUL: what follows it in memory is    *)
(* the rest of its line, or what happens to be behind a buffer.            *)
(***************************************************************************)
EXTENDS Integers, SequencesExt

NUL == 0
LF == 10
CR == 13
Comma == 44
Zero == 48
LowerX == 120

SizedString(start, length) == [start |-> start, length |-> length]

NullString == SizedString(0, 0)

IsNull(s) == s.start = 0

Positions(s) == s.start .. s.start + s.length - 1

Characters(m, s) == SubSeq(m, s.start, s.start + s.length - 1)

ToLower(c) == IF c \in 65 .. 90 THEN c + 32 ELSE c

(* The difference of two characters, or of a character and the NUL that    *)
(* stands for the end of the shorter string.                               *)
CharAt(text, i) == IF i <= Len(text) THEN text[i] ELSE NUL

(* The four comparisons: up to the first difference, as long as both last. *)
Compare(a, b) ==
    LET shorter == IF Len(a) < Len(b) THEN Len(a) ELSE Len(b)
        at == Min({i \in 1 .. shorter : a[i] # b[i]} \cup {shorter + 1})
    IN  CharAt(a, at) - CharAt(b, at)

(* SizedString_strcmp and SizedString_Compare *)
Strcmp(m, s, text) == Compare(Characters(m, s), text)

Lowered(text) == [i \in DOMAIN text |-> ToLower(text[i])]

(* SizedString_strcasecmp and SizedString_CompareWithoutCase *)
Strcasecmp(m, s, text) == Compare(Lowered(Characters(m, s)), Lowered(text))

-----------------------------------------------------------------------------
(***************************************************************************)
(* Enumeration.  The characters that remain are counted in a size_t: an    *)
(* enumerator that has left the string has a huge number of them.          *)
(***************************************************************************)
EnumCurr(m, s, at) == IF at \in Positions(s) THEN m[at] ELSE NUL

EnumNext(m, s, at) == IF EnumCurr(m, s, at) = NUL THEN at ELSE at + 1

EnumRemains(s, at) == at >= s.start /\ at # s.start + s.length

(* Where c is, or where the enumeration ends. *)
FindChar(m, s, at, c) ==
    LET left == {i \in Positions(s) : i >= at /\ m[i] = c}
    IN  IF left = {} THEN s.start + s.length
        ELSE CHOOSE i \in left : \A j \in left : i <= j

CharCount(m, s, c) == Len(SelectSeq(Characters(m, s), LAMBDA d : d = c))

(* isStringEmptyOrNull, getFieldCount *)
FieldCount(m, s, separator) ==
    IF IsNull(s) \/ s.length = 0 THEN 0 ELSE CharCount(m, s, separator) + 1

(* Mutant: the enumerator stays on the separator, which ends up in front   *)
(* of the next field.                                                      *)
FieldsWithSeparators(m, s, separator) ==
    LET from[at \in s.start .. s.start + s.length] ==
            LET end == FindChar(m, s, at + 1, separator)
            IN  <<SizedString(at, end - at)>>
                    \o IF EnumCurr(m, s, end) = NUL THEN <<>> ELSE from[end]
    IN  IF IsNull(s) \/ s.length = 0 THEN <<>> ELSE from[s.start]

(* setupFieldPointers, without the null string behind the last *)
FieldPointers(m, s, separator) ==
    LET from[at \in s.start .. s.start + s.length] ==
            LET end == FindChar(m, s, at, separator)
            IN  <<SizedString(at, end - at)>>
                    \o IF EnumCurr(m, s, end) = NUL THEN <<>>
                       ELSE from[EnumNext(m, s, end)]
    IN  IF IsNull(s) \/ s.length = 0 THEN <<>> ELSE from[s.start]

-----------------------------------------------------------------------------
(***************************************************************************)
(* Numbers, of a given width: an unsigned int is less than size.           *)
(***************************************************************************)
NotADigit == 36

Digit(c) ==
    CASE c \in 48 .. 57 -> c - 48
      [] c \in 97 .. 122 -> c - 97 + 10
      [] c \in 65 .. 90 -> c - 65 + 10
      [] OTHER -> NotADigit

(* Both look at the memory, whatever the length of the string. *)
IsHexPrefix(m, at) == m[at] = Zero /\ ToLower(m[at + 1]) = LowerX

IsOctalPrefix(m, at) == m[at] = Zero

(* determineBaseAndUpdateEnumerator: the base, and the characters skipped. *)
BaseAndPrefix(m, at, base) ==
    CASE base \in {0, 16} /\ IsHexPrefix(m, at) -> <<16, 2>>
      [] base \in {0, 8} /\ ~(base \in {0, 16} /\ IsHexPrefix(m, at))
             /\ IsOctalPrefix(m, at) -> <<8, 1>>
      [] OTHER -> <<IF base = 0 THEN 10 ELSE base, 0>>

(* Mutant: a digit is any letter or number. *)
TakeAnyDigit(digit, base) == digit # NotADigit

IsDigitOf(digit, base) == digit # NotADigit /\ digit < base

(* parseValue: an overflow is noticed when the value has become less. *)
ParseValue(m, s, start, base, size) ==
    LET from[at \in s.start .. s.start + s.length + 2,
             value \in 0 .. size - 1, overflow \in BOOLEAN] ==
            LET digit == Digit(EnumCurr(m, s, at))
                next == (value * base + digit) % size
            IN  IF EnumRemains(s, at) /\ IsDigitOf(digit, base)
                THEN from[EnumNext(m, s, at), next, overflow \/ next < value]
                ELSE IF overflow THEN size - 1 ELSE value
    IN  from[start, 0, FALSE]

(* SizedString_strtoul *)
Strtoul(m, s, base, size) ==
    IF IsNull(s) THEN 0
    ELSE LET b == BaseAndPrefix(m, s.start, base)
         IN  ParseValue(m, s, s.start + b[2], b[1], size)
=============================================================================
