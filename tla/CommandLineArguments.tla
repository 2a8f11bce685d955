----------------------- MODULE CommandLineArguments -----------------------
(***************************************************************************)
(* The arguments of a test program                                         *)
(* (CppUTest/src/CppUTest/CommandLineArguments.cpp) and the filters they   *)
(* set (TestFilter.cpp).                                                   *)
(*                                                                         *)
(* An argument is what it starts with, that the parser knows, and the text *)
(* behind that; a word that is none of these has the flag "".  TEST( has   *)
(* the group and the name that the verbose output puts between its         *)
(* parentheses.                                                            *)
(***************************************************************************)
EXTENDS Integers, Sequences, SequencesExt

CONSTANTS
  Numbers,  \* [text -> Nat]: the words that are numbers
  Within    \* the pairs of a text and one that contains it, "" and equal ones left out

Flag(flag, value) == [flag |-> flag, value |-> value, name |-> ""]
Word(value) == Flag("", value)
Verbose(group, name) == [flag |-> "TEST(", value |-> group, name |-> name]

Text(argument) == IF argument.flag = "" THEN argument.value ELSE argument.flag

AtoI(text) == IF text \in DOMAIN Numbers THEN Numbers[text] ELSE 0

TestFilter(text, strict) == [text |-> text, strict |-> strict]

Match(filter, name) ==
  \/ filter.text = name
  \/ ~filter.strict /\ (filter.text = "" \/ <<filter.text, name>> \in Within)

ShouldRun(parsed, group, name) == Match(parsed.group, group) /\ Match(parsed.name, name)

NoArguments ==
  [correct |-> TRUE, skip |-> FALSE, repeat |-> 1, separate |-> FALSE, junit |-> FALSE,
   group |-> TestFilter("", FALSE), name |-> TestFilter("", FALSE)]

(* What follows the letters of an argument, or else the argument behind it. *)
TakesNext(arguments, i) == arguments[i].value = "" /\ i < Len(arguments)

GetParameterField(arguments, i) ==
  IF TakesNext(arguments, i) THEN Text(arguments[i + 1]) ELSE arguments[i].value

(* -r without a number is 2, and leaves what follows it alone. *)
SetRepeatCount(parsed, arguments, i) ==
  LET count == AtoI(GetParameterField(arguments, i))
  IN  [parsed EXCEPT !.repeat = IF count = 0 THEN 2 ELSE count,
                     !.skip = TakesNext(arguments, i) /\ count # 0]

SetFilter(parsed, field, arguments, i, strict) ==
  [parsed EXCEPT ![field] = TestFilter(GetParameterField(arguments, i), strict),
                 !.skip = TakesNext(arguments, i)]

SetTestToRunBasedOnVerboseOutput(parsed, argument) ==
  [parsed EXCEPT !.group = TestFilter(argument.value, TRUE),
                 !.name = TestFilter(argument.name, TRUE)]

SetOutputType(parsed, arguments, i) ==
  LET type == GetParameterField(arguments, i)
  IN  [parsed EXCEPT !.correct = type \in {"normal", "eclipse", "junit"},
                     !.junit = IF type \in {"normal", "eclipse"} THEN FALSE
                               ELSE type = "junit" \/ @,
                     !.skip = TakesNext(arguments, i)]

ParseOne(parsed, arguments, i) ==
  LET flag == arguments[i].flag IN
  CASE flag = "-v" -> parsed
    [] flag = "-p" -> [parsed EXCEPT !.separate = TRUE]
    [] flag = "-r" -> SetRepeatCount(parsed, arguments, i)
    [] flag = "-g" -> SetFilter(parsed, "group", arguments, i, FALSE)
    [] flag = "-sg" -> SetFilter(parsed, "group", arguments, i, TRUE)
    [] flag = "-n" -> SetFilter(parsed, "name", arguments, i, FALSE)
    [] flag = "-sn" -> SetFilter(parsed, "name", arguments, i, TRUE)
    [] flag = "TEST(" -> SetTestToRunBasedOnVerboseOutput(parsed, arguments[i])
    [] flag = "-o" -> SetOutputType(parsed, arguments, i)
    [] OTHER -> [parsed EXCEPT !.correct = FALSE]

(* The first wrong argument ends the parsing. *)
Parse(arguments) ==
  LET Step(parsed, i) == IF ~parsed.correct THEN parsed
                         ELSE IF parsed.skip THEN [parsed EXCEPT !.skip = FALSE]
                         ELSE ParseOne(parsed, arguments, i)
  IN  FoldLeft(Step, NoArguments, [i \in DOMAIN arguments |-> i])

=============================================================================
