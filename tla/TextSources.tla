---------------------------- MODULE TextSources ----------------------------
(***************************************************************************)
(* The stack of text sources the assembler reads its lines from            *)
(* (getNextSourceLine and the PUT, LUP and MAC handlers of libsnap/src/    *)
(* Assembler.c, TextSource.c and its three kinds of source), and the lines *)
(* that are assembled again (updateLineWithForwardReference).              *)
(*                                                                         *)
(* PUT pushes a file.  LUP pushes a loop over the lines up to the next --^ *)
(* and moves the source below to that line.  MAC takes the lines up to the *)
(* next <<< out of its file, and a call of the macro pushes them.  When    *)
(* the source on top has ended it is popped, once, and if the one below    *)
(* has ended too the assembler stops reading.  Lines in skipped code are   *)
(* left to Conditionals.                                                   *)
(*                                                                         *)
(* A line whose operand names an undefined symbol is assembled with what   *)
(* is known, and once more when the symbol gets its value, in the middle   *)
(* of the line that defines it.  A PUT, a LUP or a call of a macro then    *)
(* pushes its source again, on the source that is on top by then.          *)
(***************************************************************************)
EXTENDS Integers, SequencesExt

CONSTANTS
    Files,   \* the files that can be read
    Main,    \* the source file on the command line
    NoFile,  \* the file of a line that names none
    Macros,  \* names of macros
    NoName,  \* the macro of a line that names none
    NoMacro, \* a macro that is not defined
    Texts,   \* what the files may hold: functions from Files to lines
    Symbols, \* the symbols that operands name
    NoSymbol, \* the symbol of an operand without one; a label no operand names
    Parameter, \* the variable that stands for ]1 to ]9
    MaxCount, \* bound: the count of a LUP
    MaxDepth \* bound: the sources a PUT or a call may add to

(***************************************************************************)
(* A line is code, or one of the directives, of which "lupend" is --^ and  *)
(* "macend" is <<<.  A PUT leaves out the first `skip' lines of its file.  *)
(* A count of 0 stands for one out of range, and an operand that cannot be *)
(* evaluated, or the name of a file that is not found, is bad.  While the  *)
(* symbol that the operand uses has no value, the operand has the value    *)
(* `early'.  An EQU that has defined its label may do so again: the symbol *)
(* is its own.                                                             *)
(***************************************************************************)
Line ==
    {l \in [op : {"code", "blank", "equ", "put", "lup", "lupend", "mac", "macend", "call"},
            label : Symbols \cup {NoSymbol}, uses : Symbols \cup {NoSymbol},
            early : 0 .. MaxCount, own : BOOLEAN,
            file : Files \cup {NoFile}, skip : Nat, count : 0 .. MaxCount,
            macro : Macros \cup {NoName}, bad : BOOLEAN] :
        /\ l.op = "blank" => l.uses = NoSymbol
        /\ l.op = "equ" /\ ~l.bad => l.label \in Symbols
        /\ l.own => l.op = "equ" /\ ~l.bad
        /\ l.op = "put" /\ ~l.bad => l.file \in Files
        /\ l.op = "call" => l.macro \in Macros}

Blank == [op |-> "blank", label |-> NoSymbol, uses |-> NoSymbol, early |-> 0, own |-> FALSE,
          file |-> NoFile, skip |-> 0, count |-> 0, macro |-> NoName, bad |-> FALSE]

ASSUME TextsAssumption ==
    /\ Main \in Files /\ NoFile \notin Files
    /\ NoName \notin Macros
    /\ NoMacro \notin Seq(Line)
    /\ Parameter \in Symbols /\ NoSymbol \notin Symbols
    /\ MaxCount \in Nat /\ MaxDepth \in Nat
    /\ Texts \subseteq [Files -> Seq(Line)]

VARIABLES
    texts,   \* the lines of each file
    stack,   \* pTextSourceStack, the top last
    current, \* the line being assembled
    macros,  \* pMacroDefinitionsList
    seenLUP, \* a LUP has been seen, and no --^ since
    symbols, \* whether each symbol has a value, or one with a forward reference
    waiting, \* the pLineReferences of each symbol
    updates, \* the symbols whose lines are assembled again, innermost last
    phase,   \* the place in the assembler, or how it has ended
    failed,  \* errorCount > 0
    covered  \* history: a second run pushed a source that had ended, or on one

vars == <<texts, stack, current, macros, seenLUP, symbols, waiting, updates,
          phase, failed, covered>>

-----------------------------------------------------------------------------
(***************************************************************************)
(* A text source.  `next' lines of it have been read, and a loop is in the *)
(* last of its iterations when that counter is 1.                          *)
(***************************************************************************)
Source == [kind : {"file", "lup", "macro"}, lines : Seq(Line), next : Nat,
           iterations : Nat]

NewSource(kind, lines, iterations) ==
    [kind |-> kind, lines |-> lines, next |-> 0, iterations |-> iterations]

Top == Last(stack)

IsTextAtEnd(source) == source.next = Len(source.lines)

(* Mutant: a loop ends with its lines, whatever its counter. *)
EndsWithItsText(source) == IsTextAtEnd(source)

IsEndOfFile(source) ==
    IsTextAtEnd(source) /\ (source.kind = "lup" => source.iterations = 1)

ShouldStartNextIteration(source) ==
    source.kind = "lup" /\ IsTextAtEnd(source) /\ source.iterations > 1

(* The source from which the next line is taken. *)
Rewound(source) ==
    IF ShouldStartNextIteration(source)
    THEN [source EXCEPT !.next = 0, !.iterations = @ - 1]
    ELSE source

(* TextSource_GetNextLine: the line, and the source behind it. *)
TextLine(text) == IF IsTextAtEnd(text) THEN Blank ELSE text.lines[text.next + 1]

NextLine(source) == TextLine(Rewound(source))

Consumed(text) == IF IsTextAtEnd(text) THEN text ELSE [text EXCEPT !.next = @ + 1]

Advanced(source) == Consumed(Rewound(source))

(* Reading will find two sources that have ended on top of each other.     *)
Covers(source) == updates # <<>> /\ (IsEndOfFile(Top) \/ IsEndOfFile(source))

Push(source) ==
    /\ Len(stack) <= MaxDepth
    /\ stack' = Append(stack, source)
    /\ covered' = (covered \/ Covers(source))

SetTop(source) == [stack EXCEPT ![Len(stack)] = source]

-----------------------------------------------------------------------------
(* Mutant: reading ends with the first source that has ended. *)
NeverPopped == stack

StackPop == Front(stack)

(* attemptToPopTextFileAndGetNextLine pops one source. *)
Popped == IF IsEndOfFile(Top) THEN StackPop ELSE stack

HasLine == Popped # <<>> /\ ~IsEndOfFile(Last(Popped))

(* getNextSourceLine *)
ReadLine ==
    /\ phase = "read"
    /\ HasLine
    /\ current' = NextLine(Last(Popped))
    /\ stack' = [Popped EXCEPT ![Len(Popped)] = Advanced(@)]
    /\ phase' = "line"
    /\ UNCHANGED <<texts, macros, seenLUP, symbols, waiting, updates, failed, covered>>

(* A symbol some line still waits for is undefined, which is an error.     *)
EndOfSource ==
    /\ phase = "read"
    /\ ~HasLine
    /\ stack' = Popped
    /\ phase' = "done"
    /\ failed' = (failed \/ \E s \in Symbols : waiting[s] # <<>>)
    /\ UNCHANGED <<texts, current, macros, seenLUP, symbols, waiting, updates, covered>>

-----------------------------------------------------------------------------
(***************************************************************************)
(* Symbols, and the lines that wait for them.                              *)
(***************************************************************************)
IsNamed(s) == symbols[s] # "undefined" \/ waiting[s] # <<>>

IsFinal(line) == line.uses = NoSymbol \/ symbols[line.uses] = "final"

(* Assembler_FindLabel, for the symbol in the line's operand: the line     *)
(* waits for it, in front of those that do.                                *)
Referenced(line) ==
    IF line.uses = NoSymbol \/ symbols[line.uses] # "undefined" THEN waiting
    ELSE [waiting EXCEPT ![line.uses] = <<line>> \o @]

(* Where a line is left that runs for the second time, or defines no label *)
(* after it was assembled.                                                 *)
Resumed == IF updates = <<>> THEN "read" ELSE "update"

Returned == IF updates = <<>> /\ current.label # NoSymbol THEN "label" ELSE Resumed

(* Every line ends here, unless the assembler does. *)
Assemble(op) ==
    /\ phase = "line"
    /\ current.op = op
    /\ phase' = Returned
    /\ UNCHANGED <<texts, current, symbols, updates>>

(* attemptToAddSymbol: a variable may be assigned again. *)
CanAdd(line) ==
    line.label = Parameter \/ symbols[line.label] = "undefined" \/ line.own

(* updateLinesWhichForwardReferencedThisLabel comes first if the symbol    *)
(* has its value now.                                                      *)
Define(s, value, next) ==
    /\ symbols' = [symbols EXCEPT ![s] = value]
    /\ IF value = "final"
       THEN /\ updates' = Append(updates, [symbol |-> s, line |-> current, phase |-> next])
            /\ phase' = "update"
       ELSE phase' = next /\ UNCHANGED updates

(* The value of the operand. *)
Value == IF IsFinal(current) THEN "final" ELSE "forward"

AddUnhandledLabel ==
    /\ phase = "label"
    /\ CanAdd(current)
    /\ Define(current.label, "final", "read")
    /\ UNCHANGED <<texts, stack, current, macros, seenLUP, waiting, failed, covered>>

LabelInvalid ==
    /\ phase = "label"
    /\ ~CanAdd(current)
    /\ phase' = "read"
    /\ failed' = TRUE
    /\ UNCHANGED <<texts, stack, current, macros, seenLUP, symbols, waiting, updates, covered>>

HandleEQU ==
    /\ phase = "line"
    /\ current.op = "equ" /\ ~current.bad
    /\ CanAdd(current)
    /\ waiting' = Referenced([current EXCEPT !.own = TRUE])
    /\ Define(current.label, Value, Resumed)
    /\ UNCHANGED <<texts, stack, current, macros, seenLUP, failed, covered>>

(* The label of an EQU that cannot be evaluated is that of any other line. *)
EquInvalid ==
    /\ phase = "line"
    /\ current.op = "equ"
    /\ \/ current.bad /\ phase' = Returned
       \/ ~current.bad /\ ~CanAdd(current) /\ phase' = Resumed
    /\ waiting' = Referenced(current)
    /\ failed' = TRUE
    /\ UNCHANGED <<texts, stack, current, macros, seenLUP, symbols, updates, covered>>

(* Symbol_LineReferenceEnumNext and updateLineWithForwardReference, to the *)
(* line that is assembled again.                                           *)
RunAgain ==
    LET s == Last(updates).symbol
    IN  /\ phase = "update"
        /\ waiting[s] # <<>>
        /\ current' = Head(waiting[s])
        /\ waiting' = [waiting EXCEPT ![s] = Tail(@)]
        /\ phase' = "line"
        /\ UNCHANGED <<texts, stack, macros, seenLUP, symbols, updates, failed, covered>>

EndUpdate ==
    LET update == Last(updates)
    IN  /\ phase = "update"
        /\ waiting[update.symbol] = <<>>
        /\ updates' = Front(updates)
        /\ current' = update.line
        /\ phase' = update.phase
        /\ UNCHANGED <<texts, stack, macros, seenLUP, symbols, waiting, failed, covered>>

-----------------------------------------------------------------------------
Code ==
    /\ Assemble("code") \/ Assemble("blank")
    /\ waiting' = Referenced(current)
    /\ UNCHANGED <<stack, macros, seenLUP, failed, covered>>

SkipCount == IF IsFinal(current) THEN current.skip ELSE current.early

Skip(lines, skip) == IF skip < Len(lines) THEN skip ELSE Len(lines)

HandlePUT ==
    LET lines  == texts[current.file]
        source == NewSource("file", lines, 1)
    IN  /\ Assemble("put")
        /\ ~current.bad
        /\ waiting' = Referenced(current)
        /\ Push([source EXCEPT !.next = Skip(lines, SkipCount)])
        /\ UNCHANGED <<macros, seenLUP, failed>>

PutInvalid ==
    /\ Assemble("put")
    /\ current.bad
    /\ waiting' = Referenced(current)
    /\ failed' = TRUE
    /\ UNCHANGED <<stack, macros, seenLUP, covered>>

-----------------------------------------------------------------------------
(* The first line of op that the source on top has still to read, or the   *)
(* end of the source.                                                      *)
FirstOf(ops) ==
    CHOOSE e \in Top.next + 1 .. Len(Top.lines) + 1 :
        /\ e <= Len(Top.lines) => Top.lines[e].op \in ops
        /\ \A i \in Top.next + 1 .. e - 1 : Top.lines[i].op \notin ops

(* A macro's source has no text file: LUP, MAC and a call read through a   *)
(* null pointer.                                                           *)
HasTextFile == Top.kind # "macro"

(* Mutant: 0 is in range. *)
AnyCount(count) == TRUE

IsInRange(count) == count >= 1

(* Mutant: the source below goes on behind the --^. *)
AdvancePast(e) == SetTop([Top EXCEPT !.next = e])

(* TextFile_AdvanceTo *)
AdvanceTo(e) == SetTop([Top EXCEPT !.next = e - 1])

(* The source of a loop reads the lines in front of e a second time.       *)
LoopText(e) == SubSeq(Top.lines, Top.next + 1, e - 1)

LoopCount == IF IsFinal(current) THEN current.count ELSE current.early

LoopSource(e) == NewSource("lup", LoopText(e), LoopCount)

(* disallowForwardReferences stops only a symbol nobody has named before.  *)
IsDisallowed == current.uses # NoSymbol /\ ~IsNamed(current.uses)

IsEvaluated == ~current.bad /\ ~IsDisallowed

HandleLUP ==
    LET e == FirstOf({"lupend"})
    IN  /\ Assemble("lup")
        /\ IsEvaluated
        /\ waiting' = Referenced(current)
        /\ IsInRange(LoopCount)
        /\ HasTextFile
        /\ e <= Len(Top.lines)
        /\ stack' = Append(AdvanceTo(e), LoopSource(e))
        /\ covered' = (covered \/ Covers(LoopSource(e)))
        /\ seenLUP' = TRUE
        /\ UNCHANGED <<macros, failed>>

(* An operand in error, or no --^ before the source ends.                  *)
LupInvalid ==
    /\ Assemble("lup")
    /\ \/ IsDisallowed /\ UNCHANGED waiting
       \/ /\ ~IsDisallowed
          /\ current.bad \/ (/\ IsInRange(LoopCount) /\ HasTextFile
                             /\ FirstOf({"lupend"}) > Len(Top.lines))
          /\ waiting' = Referenced(current)
    /\ failed' = TRUE
    /\ seenLUP' = TRUE
    /\ UNCHANGED <<stack, macros, covered>>

(* A count out of range is a warning. *)
LupOutOfRange ==
    /\ Assemble("lup")
    /\ IsEvaluated /\ ~IsInRange(LoopCount)
    /\ waiting' = Referenced(current)
    /\ seenLUP' = TRUE
    /\ UNCHANGED <<stack, macros, failed, covered>>

HandleLUPend ==
    /\ Assemble("lupend")
    /\ failed' = (failed \/ ~seenLUP)
    /\ seenLUP' = FALSE
    /\ UNCHANGED <<stack, macros, waiting, covered>>

-----------------------------------------------------------------------------
FindMacroDefinition(m) == macros[m]

CanDefine(m) == m # NoName /\ FindMacroDefinition(m) = NoMacro

(* A MAC takes the lines to the first <<< or the end of the source; at the *)
(* next MAC it gives up, and the lines it has seen are lost.               *)
HandleMAC ==
    LET e == FirstOf({"mac", "macend"})
    IN  /\ Assemble("mac")
        /\ CanDefine(current.macro)
        /\ HasTextFile
        /\ stack' = SetTop([Top EXCEPT !.next = Skip(Top.lines, e)])
        /\ IF e <= Len(Top.lines) /\ Top.lines[e].op = "mac"
           THEN failed' = TRUE /\ UNCHANGED macros
           ELSE /\ macros' = [macros EXCEPT ![current.macro] =
                       SubSeq(Top.lines, Top.next + 1, e - 1)]
                /\ UNCHANGED failed
        /\ UNCHANGED <<seenLUP, waiting, covered>>

MacInvalid ==
    /\ Assemble("mac")
    /\ ~CanDefine(current.macro)
    /\ failed' = TRUE
    /\ UNCHANGED <<stack, macros, seenLUP, waiting, covered>>

HandleMACend ==
    /\ Assemble("macend")
    /\ failed' = TRUE
    /\ UNCHANGED <<stack, macros, seenLUP, waiting, covered>>

IsCall == phase = "line" /\ current.op = "call" /\ FindMacroDefinition(current.macro) # NoMacro

(* The operands of a call are assigned to ]1, ]2 and so on, and the lines  *)
(* that wait for those are assembled again, before the macro is pushed.    *)
AssignParameters ==
    /\ IsCall
    /\ ~current.bad
    /\ waiting' = Referenced(current)
    /\ Define(Parameter, Value, "push")
    /\ UNCHANGED <<texts, stack, current, macros, seenLUP, failed, covered>>

HandleMacroExpansion ==
    /\ phase = "push"
    /\ HasTextFile
    /\ Push(NewSource("macro", FindMacroDefinition(current.macro), 1))
    /\ phase' = Returned
    /\ UNCHANGED <<texts, current, macros, seenLUP, symbols, waiting, updates, failed>>

HandleInvalidOperator ==
    /\ Assemble("call")
    /\ FindMacroDefinition(current.macro) = NoMacro
    /\ failed' = TRUE
    /\ UNCHANGED <<stack, macros, seenLUP, waiting, covered>>

(* The operands of a call are evaluated outside of every __try.            *)
Abort ==
    /\ IsCall
    /\ current.bad
    /\ phase' = "aborted"
    /\ UNCHANGED <<texts, stack, current, macros, seenLUP, symbols, waiting, updates,
                   failed, covered>>

(* The text file of a macro's source is a null pointer.  When there is no  *)
(* line at all behind a LUP, the search for its end has parsed none and    *)
(* compares an uninitialized record: its pointers may be wild, or it holds *)
(* no --^ and the LUP is in error.                                         *)
Crash ==
    /\ \/ /\ phase = "line" /\ current.op = "lup" /\ IsEvaluated /\ IsInRange(LoopCount)
          /\ ~HasTextFile \/ IsTextAtEnd(Top)
       \/ phase = "line" /\ current.op = "mac" /\ CanDefine(current.macro) /\ ~HasTextFile
       \/ phase = "push" /\ ~HasTextFile
    /\ phase' = "crashed"
    /\ UNCHANGED <<texts, stack, current, macros, seenLUP, symbols, waiting, updates,
                   failed, covered>>

Init ==
    /\ texts \in Texts
    /\ stack = <<NewSource("file", texts[Main], 1)>>
    /\ current = Blank
    /\ macros = [m \in Macros |-> NoMacro]
    /\ seenLUP = FALSE
    /\ symbols = [s \in Symbols |-> "undefined"]
    /\ waiting = [s \in Symbols |-> <<>>]
    /\ updates = <<>>
    /\ phase = "read"
    /\ failed = FALSE
    /\ covered = FALSE

Next ==
    \/ ReadLine
    \/ EndOfSource
    \/ AddUnhandledLabel
    \/ LabelInvalid
    \/ HandleEQU
    \/ EquInvalid
    \/ RunAgain
    \/ EndUpdate
    \/ Code
    \/ HandlePUT
    \/ PutInvalid
    \/ HandleLUP
    \/ LupInvalid
    \/ LupOutOfRange
    \/ HandleLUPend
    \/ HandleMAC
    \/ MacInvalid
    \/ HandleMACend
    \/ AssignParameters
    \/ HandleMacroExpansion
    \/ HandleInvalidOperator
    \/ Abort
    \/ Crash

Spec == Init /\ [][Next]_vars

(* The program is sequential: while it can read or assemble, it does.      *)
FairSpec == Spec /\ WF_vars(Next)

-----------------------------------------------------------------------------
(***************************************************************************)
(* Safety.                                                                 *)
(***************************************************************************)
(* No source is read past its end, a line is assembled while its source is *)
(* on the stack, and what an update goes back to is the line before it.    *)
Update == [symbol : Symbols, line : Line, phase : {"read", "update", "push"}]

TypeOK ==
    /\ texts \in [Files -> Seq(Line)]
    /\ stack \in Seq(Source)
    /\ \A i \in DOMAIN stack : stack[i].next <= Len(stack[i].lines)
    /\ current \in Line
    /\ macros \in [Macros -> Seq(Line) \cup {NoMacro}]
    /\ {seenLUP, failed, covered} \subseteq BOOLEAN
    /\ symbols \in [Symbols -> {"undefined", "forward", "final"}]
    /\ waiting \in [Symbols -> Seq(Line)]
    /\ updates \in Seq(Update)
    /\ phase \in {"read", "line", "label", "update", "push", "done", "aborted", "crashed"}
    /\ phase # "done" => stack # <<>>

(* While a loop runs, the source below it stands in front of the --^ that  *)
(* ends the loop, and the lines of the loop are those in front of that:    *)
(* whatever the body pushes, and whatever is assembled again in it,        *)
(* reading goes on there.                                                  *)
IsLoopOf(loop, base) ==
    /\ base.next < Len(base.lines)
    /\ base.lines[base.next + 1].op = "lupend"
    /\ Len(loop.lines) <= base.next
    /\ loop.lines = SubSeq(base.lines, base.next - Len(loop.lines) + 1, base.next)
    /\ loop.iterations >= 1

LoopsResumeAtTheirEnd ==
    \A i \in DOMAIN stack : stack[i].kind = "lup" =>
        i > 1 /\ IsLoopOf(stack[i], stack[i - 1])

(* A line that pushes a source with the end of its own source behind it.   *)
EndsWithPush(lines) ==
    lines # <<>> /\ Last(lines).op \in {"put", "call"}

HasLoopThatEndsWithPush(lines) ==
    \E j \in DOMAIN lines :
        /\ j < Len(lines) /\ lines[j + 1].op = "lupend"
        /\ lines[j].op \in {"put", "call"}

IsIncluded(f) ==
    \E g \in Files : \E i \in DOMAIN texts[g] :
        /\ texts[g][i].op = "put" /\ ~texts[g][i].bad
        /\ texts[g][i].file = f

(* Every source is read to its end before the assembler stops, unless a    *)
(* PUT or a macro call is the last line of an included file, a macro or a  *)
(* loop, or a second run has put two sources that end together on top of   *)
(* each other: reading ends below two sources that have ended.             *)
NothingIsLost ==
    phase = "done" =>
        \/ \A i \in DOMAIN stack : IsEndOfFile(stack[i])
        \/ \E f \in Files : IsIncluded(f) /\ EndsWithPush(texts[f])
        \/ \E f \in Files : HasLoopThatEndsWithPush(texts[f])
        \/ \E m \in Macros : macros[m] # NoMacro /\ EndsWithPush(macros[m])
        \/ covered

(***************************************************************************)
(* Refinement: the lines are read in the order of one sequence, into which *)
(* PUT, LUP and macro calls insert theirs, and a line that waits is carried *)
(* out again when its symbol has a value, before the next line is read.    *)
(***************************************************************************)
(* The lines the sources on the stack have still to give. *)
Unread(source) ==
    LET again == source.iterations - 1
    IN  SubSeq(source.lines, source.next + 1, Len(source.lines))
            \o IF source.kind # "lup" THEN <<>>
               ELSE IF source.lines = <<>> THEN [i \in 1 .. again |-> Blank]
               ELSE FlattenSeq([i \in 1 .. again |-> source.lines])

Pending == FlattenSeq([i \in DOMAIN stack |-> Unread(stack[Len(stack) + 1 - i])])

(* The calls that are to go on when the updates in them have ended, and    *)
(* the line that is assembled.                                             *)
Suspended ==
    FlattenSeq([i \in DOMAIN updates |->
        IF updates[i].phase = "push" THEN <<updates[i].line>> ELSE <<>>])

Assembled ==
    Suspended \o IF phase \in {"line", "push", "aborted", "crashed"} THEN <<current>> ELSE <<>>

Reader == INSTANCE LineReader
              WITH pending <- Pending, Lines <- Line, current <- Assembled

RefinesLineReader == Reader!Spec

(***************************************************************************)
(* Liveness.                                                               *)
(***************************************************************************)
(* Loops and macros come to an end, and so does reading, unless files      *)
(* include each other without end.                                         *)
ReadingEnds ==
    <>(phase \in {"done", "aborted", "crashed"} \/ Len(stack) > MaxDepth)

(***************************************************************************)
(* What the documentation promises and the code does not do.               *)
(***************************************************************************)
(* notes/snap.creole: PUTs can be nested.  When the PUT is the last line   *)
(* of an included file, the rest of the file around that is not read.      *)
EveryLineIsRead == phase = "done" => Pending = <<>>

(* notes/snap.creole: --^ is an error if it does not follow a LUP.  A loop *)
(* in a file that is included from a loop takes the outer LUP away.        *)
LoopEndsAreAccepted ==
    phase = "done" /\ failed =>
        \E f \in Files : \E i \in DOMAIN texts[f] :
            \/ texts[f][i].op \notin {"code", "put", "lup", "lupend"}
            \/ texts[f][i].bad
            \/ texts[f][i].uses # NoSymbol \/ texts[f][i].label # NoSymbol
            \/ /\ texts[f][i].op = "lupend"
               /\ ~\E j \in 1 .. i - 1 :
                      /\ texts[f][j].op = "lup"
                      /\ \A k \in j + 1 .. i - 1 : texts[f][k].op # "lupend"
            \/ /\ texts[f][i].op = "lup"
               /\ ~\E j \in i + 1 .. Len(texts[f]) :
                      /\ texts[f][j].op = "lupend"
                      /\ \A k \in i + 1 .. j - 1 : texts[f][k].op # "lup"

(* Assembler.c:2356: a "directive can't forward reference labels".  A LUP  *)
(* of a symbol that an earlier line named is assembled with a count of its *)
(* own making, and again when the symbol is defined.                       *)
LupsKnowTheirCount == phase = "line" /\ current.op = "lup" => updates = <<>>

(* notes/snap.creole: the code of a LUP whose count is 0 is ignored.  It   *)
(* is assembled once.                                                      *)
EmptyLoopsAreIgnored ==
    [][LupOutOfRange /\ FirstOf({"lupend"}) <= Len(Top.lines)
       => Pending'[1].op = "lupend"]_vars
=============================================================================
