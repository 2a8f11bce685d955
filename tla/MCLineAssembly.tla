--------------------------- MODULE MCLineAssembly ----------------------------
(***************************************************************************)
(* Small sources for LineAssembly, and what their lines mean: every        *)
(* instruction with every form of operand under every set of instructions, *)
(* and lines of data, around the one label F.                              *)
(***************************************************************************)
EXTENDS LineAssembly

P == INSTANCE Processor

F == "F"

Decimal(digits) == [base |-> 10, digits |-> digits]
Hex(digits) == [base |-> 16, digits |-> digits]

MCNumerals == ("0" :> Decimal(<<0>>)) @@ ("1" :> Decimal(<<1>>))
    @@ ("2" :> Decimal(<<2>>)) @@ ("3" :> Decimal(<<3>>)) @@ ("5" :> Decimal(<<5>>))
    @@ ("250" :> Decimal(<<2, 5, 0>>)) @@ ("300" :> Decimal(<<3, 0, 0>>))
    @@ ("%10" :> [base |-> 2, digits |-> <<1, 0>>])
    @@ ("$10000" :> Hex(<<1, 0, 0, 0, 0>>)) @@ ("$2000B" :> Hex(<<2, 0, 0, 0, 11>>))

MCCharacters == ("\"" :> 34) @@ ("'" :> 39) @@ ("A" :> 65) @@ ("B" :> 66)
    @@ (" " :> 32) @@ (";" :> 59) @@ ("," :> 44) @@ ("0" :> 48)

-----------------------------------------------------------------------------
(* A value of the sum of a number and of F, if it is in it, or one of its  *)
(* bytes.                                                                  *)
Sum(n) == [const |-> n, label |-> FALSE, part |-> "all"]
SumF(n) == [const |-> n, label |-> TRUE, part |-> "all"]
LowF == [SumF(0) EXCEPT !.part = "low"]
HighF == [SumF(0) EXCEPT !.part = "high"]

ValueOf(v) ==
    LET sum == v.const + (IF v.label THEN symbols[F] ELSE 0)
    IN  CASE v.part = "all" -> sum
          [] v.part = "low" -> sum % 256
          [] v.part = "high" -> (sum \div 256) % 256

Form(tokens, shape, value) == [tokens |-> tokens, shape |-> shape, value |-> value]

Forms ==
    {Form(<<>>, "none", Sum(0)),
     Form(<<"#", "5">>, "#", Sum(5)),
     Form(<<"#", F>>, "#", LowF),
     Form(<<"#", ">", F, "+", "1">>, "#", [SumF(1) EXCEPT !.part = "high"]),
     Form(<<"5">>, "a", Sum(5)),
     Form(<<"5", "+", "250", "-", "1">>, "a", Sum(254)),
     Form(<<F>>, "a", SumF(0)),
     Form(<<F, "+", "1", " ", ";", "5">>, "a", SumF(1)),
     Form(<<"1", "+", F>>, "a", SumF(1)),
     Form(<<"<", F>>, "a", LowF),
     Form(<<"300">>, "a", Sum(300)),
     Form(<<"5", ",", "X">>, "a,x", Sum(5)),
     Form(<<F, ",", "X">>, "a,x", SumF(0)),
     Form(<<F, ",", "Y">>, "a,y", SumF(0)),
     Form(<<"5", ",", "Y", " ", ";">>, "a,y", Sum(5)),
     Form(<<"(", "5", ",", "X", ")">>, "(a,x)", Sum(5)),
     Form(<<"(", F, ",", "X", ")">>, "(a,x)", SumF(0)),
     Form(<<"(", "5", ")", ",", "Y">>, "(a),y", Sum(5)),
     Form(<<"(", "5", ")">>, "(a)", Sum(5)),
     Form(<<"(", F, ")">>, "(a)", SumF(0))}

(* The modes of the processor that a form can stand for. *)
Modes(shape) ==
    CASE shape = "none" -> {"impl"}
      [] shape = "#" -> {"imm"}
      [] shape = "a" -> {"zp", "abs", "rel", "long"}
      [] shape = "a,x" -> {"zpx", "abx", "longx"}
      [] shape = "a,y" -> {"zpy", "aby"}
      [] shape = "(a,x)" -> {"izx", "iax"}
      [] shape = "(a),y" -> {"izy"}
      [] shape = "(a)" -> {"izp", "ind"}

(* Mnemonics with a second name. *)
Processors(op) ==
    CASE op = "BGE" -> "BCS" [] op = "BLT" -> "BCC" [] op = "INA" -> "INC"
      [] op = "DEA" -> "DEC" [] op = "LDAL" -> "LDA" [] op = "STAL" -> "STA"
      [] OTHER -> op

Mnemonics == {op \in DOMAIN Set65816 : Set65816[op].handler = "opcode"}

Line(label, op, tokens) ==
    label \o <<" ", op>> \o (IF tokens = <<>> THEN <<>> ELSE <<" ">> \o tokens)

InstructionTexts == {Line(<<>>, op, f.tokens) : op \in Mnemonics, f \in Forms}

-----------------------------------------------------------------------------
(* A line of data and its bytes. *)
Data(op, tokens, bytes) == [text |-> Line(<<>>, op, tokens), bytes |-> bytes]

DataLines ==
    {Data("DB", <<"5", ",", F>>, <<Sum(5), LowF>>),
     Data("DFB", <<">", F, ",", "<", F, ",">>, <<HighF, LowF>>),
     Data("DA", <<F, "+", "1", ",", "300">>,
          <<[SumF(1) EXCEPT !.part = "low"], [SumF(1) EXCEPT !.part = "high"],
            Sum(44), Sum(1)>>),
     Data("DW", <<"\"", "A">>, <<Sum(193), Sum(0)>>),
     Data("DB", <<"'", "A", "'", "+", "1">>, <<Sum(66)>>),
     Data("HEX", <<"1", "2", ",", "0", "A", " ", "B">>, <<Sum(18), Sum(10)>>),
     Data("ASC", <<"'", "A", ";", "'", ",", "0", "1">>, <<Sum(65), Sum(59), Sum(1)>>),
     Data("ASC", <<"\"", " ", "A", "\"">>, <<Sum(160), Sum(193)>>),
     Data("REV", <<"'", "A", "B", "'">>, <<Sum(66), Sum(65)>>),
     Data("DS", <<"2", ",", F>>, <<LowF, LowF>>),
     Data("DS", <<"3">>, <<Sum(0), Sum(0), Sum(0)>>),
     Data("MVN", <<"$2000B", ",", "$10000">>, <<Sum(84), Sum(2), Sum(1)>>),
     Data("MVP", <<"$10000", ",", "5">>, <<Sum(68), Sum(1), Sum(0)>>),
     Data("XCE", <<>>, <<Sum(251)>>),
     Data("REP", <<"5">>, <<Sum(194), Sum(5)>>),
     Data("SEP", <<"250">>, <<Sum(226), Sum(250)>>)}

(* Lines with mistakes, which fail, and one that pads a page. *)
OddTexts ==
    {Line(<<>>, "DB", <<F, ",", "$">>), Line(<<>>, "DA", <<F, ",", "$">>),
     Line(<<F>>, "DB", <<F>>), Line(<<>>, "DB", <<>>), Line(<<>>, "???", <<>>),
     Line(<<>>, "HEX", <<"1">>), Line(<<>>, "HEX", <<"1", "2", "3", "5", "1", "1">>),
     Line(<<>>, "ASC", <<"\"">>), Line(<<>>, "ASC", <<"'", "A">>),
     Line(<<>>, "REV", <<"\"", "\"">>), Line(<<>>, "DS", <<F>>),
     Line(<<>>, "DB", <<"5", "/", F>>), Line(<<>>, "DS", <<"#", "3">>),
     Line(<<>>, "DS", <<"\\", ",", "1">>), Line(<<>>, "MVN", <<"5">>)}

Label == <<F>>
XC == Line(<<>>, "XC", <<>>)
XCOff == Line(<<>>, "XC", <<"OFF">>)

DataTexts == {d.text : d \in DataLines} \cup OddTexts

(* Up to two XC, then one instruction with the label before or after it;   *)
(* or two lines of data and the label in any order, under the first and    *)
(* the last set.                                                           *)
MCTexts(texts) ==
    LET count(S) == Cardinality({i \in DOMAIN texts : texts[i] \in S})
        n        == Len(texts)
        xcs      == count({XC})
    IN  UNION {IF n = xcs /\ n < 3 THEN {XC} ELSE {},
               IF n = xcs /\ n > 0 THEN {XCOff} ELSE {},
               IF count({Label}) = 0 \/ n = 1 THEN {Label} ELSE {},
               IF n = xcs + count({Label}) /\ xcs < 3 /\ count({Label}) < 2
               THEN InstructionTexts
               ELSE {},
               IF xcs \in {0, 2} /\ count(DataTexts) < 2 - (xcs \div 2)
                  /\ count(InstructionTexts) = 0
               THEN DataTexts
               ELSE {}}

-----------------------------------------------------------------------------
CodeOf(line) == SubSeq(buffer.bytes, line.at + 1, line.at + line.size)

(* The instruction the processor finds in the line's bytes is the one that *)
(* was written, with the operand that was meant.                           *)
Executes(line) ==
    LET code  == CodeOf(line)
        found == P!Decode(code[1], line.set)
        form  == CHOOSE f \in Forms : Line(<<>>, line.text[2], f.tokens) = line.text
        value == ValueOf(form.value)
    IN  /\ line.at # Null
        /\ found.op = Processors(line.text[2])
        /\ found.mode \in Modes(form.shape)
        /\ line.size = P!Length(found.mode)
        /\ CASE found.mode = "impl" -> TRUE
             [] found.mode = "imm" -> code[2] = value % 256
             [] found.mode = "rel" -> P!Target(line.address, code[2]) = value % 65536
             [] found.mode \in {"long", "longx"} -> P!OperandOf(code) = value
             [] OTHER -> P!OperandOf(code) = value % 65536

IsSaved == phase = "done" /\ ~failed

(* An output file holds, for each instruction of the source, what the      *)
(* processor of its set takes for that instruction, with that operand: the *)
(* line may have been assembled before its label was defined and again     *)
(* after, with another size of operand, and other lines may have been      *)
(* written around it (handleOpcode, AddressingMode_Eval, ExpressionEval).  *)
InstructionsAreWhatWasWritten ==
    \A i \in DOMAIN lines :
        lines[i].text \in InstructionTexts => Executes(lines[i])

(* An output file holds the bytes that each line of data means, also when  *)
(* they were stored on a second run and when more data followed (handleDB, *)
(* handleDA, handleHEX, handleASC, handleREV, handleDS, handleMVx).        *)
DataIsWhatWasWritten ==
    \A i \in DOMAIN lines : \A d \in DataLines :
        lines[i].text = d.text /\ (d.text[2] \in DOMAIN InstructionSetTable[lines[i].set]) =>
            CodeOf(lines[i]) = [n \in DOMAIN d.bytes |-> ValueOf(d.bytes[n]) % 256]

(* What is saved is what was written. *)
CodeIsWhatWasWritten ==
    IsSaved => InstructionsAreWhatWasWritten /\ DataIsWhatWasWritten

(* The place behind the code of the first n lines. *)
RECURSIVE EndOfCode(_)
EndOfCode(n) == IF n = 0 THEN 0 ELSE EndOfCode(n - 1) + lines[n].size

(* Unless an error was reported, the listing has every line of the source  *)
(* once and in order, and the bytes of the object buffer once and in       *)
(* order, each at the address its line was assembled for, although updates *)
(* run lines again in between and move pLineInfo away from the list's end  *)
(* (prepareLineInfoForThisLine, BinaryBuffer_Alloc, ListFile_OutputLine).  *)
ListAndBufferFollowTheSource ==
    ~failed /\ phase # "crashed" =>
        /\ SelectSeq([r \in DOMAIN Listing |-> Listing[r].number],
                     LAMBDA n : n # 0) = [i \in DOMAIN lines |-> i]
        /\ FlattenSeq([r \in DOMAIN Listing |-> Listing[r].code])
               = SubSeq(buffer.bytes, 1, buffer.current)
        /\ \A i \in DOMAIN lines : lines[i].size > 0 => lines[i].at = EndOfCode(i - 1)
        /\ \A r, q \in DOMAIN Listing :
               /\ r < q
               /\ Listing[r].code # <<>> /\ Listing[q].code # <<>>
               /\ \A k \in r + 1 .. q - 1 : Listing[k].code = <<>>
               => Listing[q].address = (Listing[r].address + Len(Listing[r].code)) % 65536

(* XC takes nothing away: an instruction that the instruction set before   *)
(* can assemble has the same bytes under the next one (createFull-         *)
(* InstructionSetTables).                                                  *)
XCTakesNothingAway ==
    [][\A n \in DOMAIN lines' \ DOMAIN lines :
          LET line == [lines'[n] EXCEPT !.at = Null, !.size = 0, !.set = @ - 1]
          IN  lines'[n].set > 1 /\ line.text \in InstructionTexts =>
                  \A c \in Outcomes(line) :
                      c.end = "ok" /\ c.failed = failed =>
                          lines'[n].size = c.line.size /\ buffer' = c.buffer]_vars

(* A source for a 65816 with one MX directive and immediate operands.      *)
LongTexts(texts) ==
    CASE Len(texts) < 2 -> {XC}
      [] Len(texts) = 2 -> {Line(<<>>, "MX", <<m>>) : m \in {"0", "1", "%10", "3"}}
      [] Len(texts) > 2 -> {Line(<<>>, op, <<"#", n>>) : op \in {"LDA", "LDX"}, n \in {"5", "300"}}

(* notes/snap.creole:684 on MX: "If the expression is %00 or %10, then     *)
(* 16-bit A is assumed, otherwise 8-bit A is assumed", with LDA #$1234 as  *)
(* the example of the first.                                               *)
MXIsAssumed ==
    \A i, j \in DOMAIN lines :
        i < j /\ lines[i].text[2] = "MX" /\ lines[j].text[2] = "LDA" =>
            lines[j].size = IF lines[i].text[4] \in {"0", "%10"} THEN 3 ELSE 2
=============================================================================
