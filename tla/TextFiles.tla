------------------------------ MODULE TextFiles ------------------------------
(***************************************************************************)
(* Texts that are read line by line (libcommon/src/TextFile.c), and lines  *)
(* that are split into fields (ParseCSV.c), whose numbers are read         *)
(* (SizedString.c), as crackle does with its script and snap with its      *)
(* sources.                                                                *)
(*                                                                         *)
(* A text file may be derived from another, of which it starts at the      *)
(* current line: this is how LUP finds and repeats its body.  The search   *)
(* for the end of the body reads the derived file up to the line that      *)
(* marks it; the derived file then ends in front of that line, and the one *)
(* it is derived from goes on with it.                                     *)
(*                                                                         *)
(* What is read of a file is not followed by a NUL, and TextFile looks at  *)
(* the character behind the end before it compares the position with it:   *)
(* what is there is not known.                                             *)
(***************************************************************************)
EXTENDS SizedStrings

CONSTANTS
    Texts,    \* what a file may hold
    Behind,   \* what may be in memory behind the buffer of a file
    Mark,     \* the line that ends a loop
    Keywords, \* what the first field of a line may be, in small letters
    UintSize, \* the numbers of an unsigned int
    MaxFiles  \* bound: files derived from one another

(* A text has at least two characters behind it, to be looked at. *)
ASSUME TextFilesAssumption ==
    /\ Texts \subseteq Seq(0 .. 127)
    /\ \A t \in Behind : t \in Seq(0 .. 127) /\ Len(t) >= 3
    /\ Mark \in Seq(1 .. 127) /\ Keywords \subseteq Seq(1 .. 127)
    /\ UintSize \in Nat \ {0}
    /\ MaxFiles \in Nat

VARIABLES
    memory, \* pFileBuffer of the file, and what is behind it
    files,  \* the text files, each derived from the one before
    line,   \* the line read last
    parser  \* the fields of a line, and the array they are in

vars == <<memory, files, line, parser>>

-----------------------------------------------------------------------------
(***************************************************************************)
(* A text file: its text starts at `text', pPrev, pCurr and pEnd are       *)
(* places in memory.  A file that was closed has found its mark.           *)
(***************************************************************************)
Place == Nat \ {0}

TextFile == [text : Place, prev : Place, curr : Place, end : Place,
             lineNumber : Nat, startLineNumber : Nat, closed : BOOLEAN]

(* TextFile_CreateFromFile *)
CreateFromFile(length) ==
    [text |-> 1, prev |-> 1, curr |-> 1, end |-> length + 1,
     lineNumber |-> 0, startLineNumber |-> 0, closed |-> FALSE]

(* TextFile_CreateFromTextFile: pPrev is that of the other file. *)
CreateFromTextFile(file) ==
    [file EXCEPT !.text = file.curr, !.startLineNumber = file.lineNumber,
                 !.closed = FALSE]

IsEndOfFile(file) == memory[file.curr] = NUL \/ file.curr >= file.end

IsLineEndCharacter(c) == c \in {CR, LF}

(* findEndOfLine *)
EndOfLine(file) ==
    CHOOSE e \in file.curr .. file.end :
        /\ \/ e >= file.end
           \/ memory[e] = NUL
           \/ IsLineEndCharacter(memory[e])
        /\ \A i \in file.curr .. e - 1 :
               ~IsLineEndCharacter(memory[i]) /\ memory[i] # NUL

(* Mutant: each of two characters that end a line ends one. *)
AdvanceByOne(file, e) ==
    IF IsEndOfFile([file EXCEPT !.curr = e]) THEN e ELSE e + 1

(* advanceToNextLine: the character behind one that ends a line is looked  *)
(* at even if the text ends there.                                         *)
AdvanceToNextLine(file, e) ==
    IF IsEndOfFile([file EXCEPT !.curr = e]) THEN e
    ELSE IF {memory[e], memory[e + 1]} = {CR, LF} THEN e + 2
    ELSE e + 1

(* TextFile_GetNextLine, when the file has not ended *)
Advanced(file) ==
    [file EXCEPT !.prev = file.curr,
                 !.curr = AdvanceToNextLine(file, EndOfLine(file)),
                 !.lineNumber = @ + 1]

NextLine(file) == SizedString(file.curr, EndOfLine(file) - file.curr)

(* Mutant: the number of the line is that of the line itself. *)
AdvanceAndKeepNumber(file, match) ==
    [file EXCEPT !.curr = match.prev, !.prev = match.prev,
                 !.lineNumber = match.lineNumber]

(* TextFile_AdvanceTo *)
AdvanceTo(file, match) ==
    [file EXCEPT !.curr = match.prev, !.prev = match.prev,
                 !.lineNumber = IF match.lineNumber = 0 THEN 0
                                ELSE match.lineNumber - 1]

(* TextFile_SetEndOfFile *)
SetEndOfFile(file) == [file EXCEPT !.end = file.prev]

(* TextFile_Reset *)
Reset(file) ==
    [file EXCEPT !.prev = file.text, !.curr = file.text,
                 !.lineNumber = file.startLineNumber]

-----------------------------------------------------------------------------
Top == Last(files)

SetTop(file) == [files EXCEPT ![Len(files)] = file]

GetNextLine ==
    /\ ~IsEndOfFile(Top)
    /\ line' = NextLine(Top)
    /\ files' = SetTop(Advanced(Top))
    /\ UNCHANGED <<memory, parser>>

(* A loop starts behind the line just read. *)
StartLoop ==
    /\ Len(files) < MaxFiles
    /\ ~IsNull(line)
    /\ files' = Append(files, CreateFromTextFile(Top))
    /\ line' = NullString
    /\ UNCHANGED <<memory, parser>>

(* The search has found the line that ends the loop. *)
FindLoopEnd ==
    /\ Len(files) > 1
    /\ ~Top.closed
    /\ ~IsNull(line) /\ Strcmp(memory, line, Mark) = 0
    /\ files' = Append(SubSeq(files, 1, Len(files) - 2)
                           \o <<AdvanceTo(files[Len(files) - 1], Top)>>,
                       [Reset(SetEndOfFile(Top)) EXCEPT !.closed = TRUE])
    /\ line' = NullString
    /\ UNCHANGED <<memory, parser>>

NextIteration ==
    /\ Top.closed /\ IsEndOfFile(Top)
    /\ files' = SetTop(Reset(Top))
    /\ line' = NullString
    /\ UNCHANGED <<memory, parser>>

(* The loop, or a search without success, has come to its end. *)
EndLoop ==
    /\ Len(files) > 1
    /\ IsEndOfFile(Top)
    /\ files' = Front(files)
    /\ line' = NullString
    /\ UNCHANGED <<memory, parser>>

(* Mutant: the array has no room for the null string behind the fields. *)
GrowForFields(allocated, count) == IF count > allocated THEN count ELSE allocated

(* growFieldArrayIfNecessary *)
Grow(allocated, count) ==
    IF count + 1 > allocated THEN count + 1 ELSE allocated

(* processNextScriptLine: the keyword that is the first field, none if the *)
(* line is blank or not known.                                             *)
KeywordsOf(fields) ==
    {k \in Keywords : fields # <<>> /\ Strcasecmp(memory, fields[1], k) = 0}

(* ParseCSV_Parse, and the numbers of the fields *)
ParseLine ==
    LET fields == FieldPointers(memory, line, Comma)
        count == FieldCount(memory, line, Comma)
    IN  /\ ~IsNull(line)
        /\ parser' = [line |-> line, fieldCount |-> count, fields |-> fields,
                      allocated |-> Grow(parser.allocated, count),
                      keywords |-> KeywordsOf(fields),
                      values |-> [i \in DOMAIN fields |->
                                     Strtoul(memory, fields[i], 0, UintSize)]]
        /\ UNCHANGED <<memory, files, line>>

Init ==
    /\ \E text \in Texts : \E behind \in Behind :
           /\ memory = text \o behind
           /\ files = <<CreateFromFile(Len(text))>>
    /\ line = NullString
    /\ parser = [line |-> NullString, fieldCount |-> 0, fields |-> <<>>,
                 allocated |-> 0, keywords |-> {}, values |-> <<>>]

Next ==
    \/ GetNextLine
    \/ StartLoop
    \/ FindLoopEnd
    \/ NextIteration
    \/ EndLoop
    \/ ParseLine

Spec == Init /\ [][Next]_vars

-----------------------------------------------------------------------------
(***************************************************************************)
(* The lines of a text.                                                    *)
(***************************************************************************)
(* The text is what is in front of its end, or of a NUL.                   *)
TextLength ==
    LET ends == {i \in 1 .. files[1].end :
                     i = files[1].end \/ memory[i] = NUL}
    IN  (CHOOSE i \in ends : \A j \in ends : i <= j) - 1

IsLineEnd(i) == i \in 1 .. TextLength /\ IsLineEndCharacter(memory[i])

(* The second of two different characters that end one line. *)
IsSecondOfTwo[i \in Nat] ==
    /\ i > 1
    /\ IsLineEnd(i - 1) /\ IsLineEnd(i) /\ memory[i - 1] # memory[i]
    /\ ~IsSecondOfTwo[i - 1]

StartsLine(i) ==
    i \in 1 .. TextLength
        /\ (i = 1 \/ (IsLineEnd(i - 1) /\ ~IsSecondOfTwo[i]))

LinesBefore(i) == Cardinality({j \in 1 .. i - 1 : StartsLine(j)})

(* A loop that has found its mark ends in front of it, and the file below  *)
(* goes on with it, however often and deep its body is read.               *)
LoopsEndAtTheirMark ==
    \A i \in DOMAIN files : files[i].closed =>
        /\ i > 1
        /\ files[i].end = files[i - 1].curr
        /\ files[i].curr <= files[i].end
        /\ Characters(memory, SizedString(files[i].end, Len(Mark))) = Mark

(* Every file is read from the start of a line, has counted the lines      *)
(* before, and sees a line as a whole: no character is lost or read twice  *)
(* by the searches and repetitions of loops, whatever is behind the text.  *)
(* TextFile_GetNextLine, TextFile_AdvanceTo, TextFile_Reset.               *)
LinesAreReadInOrder ==
    /\ LoopsEndAtTheirMark
    /\ \A i \in DOMAIN files :
           /\ StartsLine(files[i].curr) \/ files[i].curr > TextLength
           /\ files[i].lineNumber = LinesBefore(files[i].curr)
    /\ ~IsNull(line) =>
           /\ StartsLine(line.start)
           /\ \A p \in Positions(line) : p <= TextLength /\ ~IsLineEnd(p)
           /\ LET behind == line.start + line.length
              IN  IsLineEnd(behind) \/ behind = TextLength + 1

(* The fields of a line, with a separator between, are the line, and the   *)
(* array has room for them and for the null string behind them; a keyword  *)
(* is the whole first field but for the case of its letters.               *)
(* ParseCSV_Parse: getFieldCount and setupFieldPointers count apart.       *)
FieldsAreTheLine ==
    LET fields == parser.fields
        texts == [i \in DOMAIN fields |-> Characters(memory, fields[i])]
        joined == FoldLeft(LAMBDA before, text :
                              IF before = <<>> THEN <<text>>
                              ELSE <<Last(before) \o <<Comma>> \o text>>,
                          <<>>, texts)
    IN  ~IsNull(parser.line) =>
            /\ Len(fields) = parser.fieldCount
            /\ parser.fieldCount < parser.allocated
            /\ \A i \in DOMAIN texts : \A p \in DOMAIN texts[i] : texts[i][p] # Comma
            /\ parser.keywords =
                   {k \in Keywords :
                       texts # <<>> /\ [p \in DOMAIN texts[1] |-> ToLower(texts[1][p])] = k}
            /\ Characters(memory, parser.line)
                   = (IF joined = <<>> THEN <<>> ELSE joined[1])

(* The number a text stands for: its base, and its digits up to the first  *)
(* character that is none.                                                 *)
BaseOf(text) ==
    IF Len(text) > 1 /\ text[1] = Zero /\ ToLower(text[2]) = LowerX THEN 16
    ELSE IF text # <<>> /\ text[1] = Zero THEN 8 ELSE 10

DigitsOf(text) ==
    LET digits == IF BaseOf(text) = 16 THEN SubSeq(text, 3, Len(text)) ELSE text
        bad == SelectInSeq(digits, LAMBDA c : Digit(c) >= BaseOf(text))
    IN  IF bad = 0 THEN digits ELSE SubSeq(digits, 1, bad - 1)

NumberOf(text) ==
    FoldLeft(LAMBDA number, c : number * BaseOf(text) + Digit(c), 0, DigitsOf(text))

NumberOfField(i) == NumberOf(Characters(memory, parser.fields[i]))

(* A field's value is the number it stands for, whatever is behind it in   *)
(* memory; one that is too great is the greatest, or what is left of it    *)
(* when the overflow is not noticed.  SizedString_strtoul.                 *)
ValuesAreTheNumbers ==
    \A i \in DOMAIN parser.values :
        \/ parser.values[i] = NumberOfField(i) % UintSize
        \/ NumberOfField(i) >= UintSize /\ parser.values[i] = UintSize - 1

(* libcommon/tests/SizedStringTest.cpp: a number that is too great is the  *)
(* greatest.  TLC refutes it: 0x123456789 becomes 0x23456789, which is not *)
(* less than 0x12345678.                                                   *)
OverflowIsNoticed ==
    \A i \in DOMAIN parser.values :
        NumberOfField(i) >= UintSize => parser.values[i] = UintSize - 1
=============================================================================
