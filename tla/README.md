# A verification of snap and crackle

`snap` is a 6502 cross-assembler that takes the sources of Apple II assemblers of
the Merlin kind in a single pass. `crackle` takes the object files that snap
saves and puts them, as a script says, on a disk image. Both are sequential C
programs. What makes them hard is not concurrency but *re-entry and order*: a
line that names an undefined symbol is assembled again in the middle of the line
that defines it, updates nest, directives take effect again, text sources push
each other while positions in them are kept, one line's place on a disk
depends on what the line before left behind, and an exception leaves all of
this by `longjmp`. The repository also carries CppUTest, the framework its tests
are built with: what a test leaves behind in it is the next test's beginning.

This directory holds TLA+ modules of those parts, TLC configurations that check
them on small instances, and TLAPS proofs of what matters most for every
instance. `PROJECT.json` maps every definition to the lines it models.

Run a check with `tlc -config X.cfg M` and a proof with `tlapm M.tla`, for a
run X of module M below.

## 1. Inventory

| Component (src/) | State it keeps | Operations | Interacts with | Hard behaviour | Correct when |
|---|---|---|---|---|---|
| Lines, symbols, forward references (`libsnap/src/Assembler.c`, `SymbolTable.c`, `ExpressionEval.c`) | the `LineInfo` list, the symbol table, per symbol a list of waiting lines and **one** enumeration cursor, `globalLabel`, `programCounter`, `errorCount` | read a line, define a label, EQU, assign a variable, assemble an instruction, run a waiting line again | evaluates operands (expressions), allocates code (buffers), is skipped (conditionals) | updates nest while an enumeration is under way; a second run sees another program counter and scope; the size of an instruction is guessed before its symbol is known | no reference is lost, no line is left behind, addresses stay contiguous, the code that is written is that of the final symbols |
| Object code and files (`Assembler.c`, `BinaryBuffer.c`) | object and dummy buffer (`pCurrent`, `pBase`, `baseAddress`), `programCounterBeforeDUM`, queue of writes | emit, ORG, DUM, DEND, DS, SAV, USR, write the queue | program counter of the line, second runs of directives | 16-bit addresses over 64 KiB buffers, full buffers, failing writes | code does not overlap, a saved byte loads where its line was assembled for, files hold whole lines, success means everything was written |
| Conditional assembly (`Assembler.c`) | stack of clauses with flag bits | DO, ELSE, FIN, every handler's test of the flags | every handler; second runs | flags are inherited on push and flipped in place; a second run happens under another clause | the lines assembled are those nested branches select |
| Text sources (`TextSource.c`, `TextFileSource.c`, `LupSource.c`, `MacroExpansionSource.c`, `libcommon/src/TextFile.c`) | a stack of positions in texts, loop counters, macro definitions, a "LUP seen" bit | read, pop, PUT, LUP, `--^`, MAC, `<<<`, macro call | the assembler's reading loop; second runs | sources that end together, loops in files in loops, empty loops, macros left open, a PUT, LUP or call that waited for a symbol and inserts its lines a second time | lines are read in the order of one flat sequence, and none is lost |
| Instructions and data, with expressions, addressing modes, opcode tables and the line parser (`Assembler.c`, `ExpressionEval.c`, `AddressingMode.c`, `InstructionSets.c`, `ParseLine.c`, `ListFile.c`) | three merged opcode tables, the set in force (`XC`), `longA`/`longXY` (`MX`), the bytes of each line in the object buffer, rows of the list | parse a line, classify its operand, evaluate it from left to right, emit an opcode or data, run the line again | symbols, forward references, buffers | text that reads as more than one mode; a size guessed before the symbol is known; data emitted byte by byte and given back when a later value is in error; a newer set that replaces older entries | a processor reads the bytes as the instruction that was written, list and buffer follow the source, XC only adds |
| Disk image scripts (`libcrackle/src/DiskImage.c`) | `lastBlock`, `lastLength`, the object read last, its length and the place in its header | BLOCK, RWTS16, RWTS16CP, RW18, comment; relocate image tables; write the image | block or nibble image through a table of functions | a line in error is reported and the script goes on; `*` depends on the line before; 32-bit sums | data lands where the line, the header or the line before says, and nowhere else |
| Block images (`BlockDiskImage.c`) | the image | validate, convert RW18 places, copy | script | bounds | sides and tracks are laid out without gap or overlap |
| Nibble images (`NibbleDiskImage.c`) | the image, encoder state | encode and decode sectors and tracks | script | written in pieces, RW18 reads, changes and writes back | what is encoded decodes to itself |
| Exceptions, main programs, command lines (`include/try_catch.h`, `snap/`, `crackle/`, `SnapCommandLine.c`, `CrackleCommandLine.c`) | the stack of handlers, each in the frame of its function, the exception code; everything allocated | `__try`, `__catch`, `__throw`, `__rethrow`, `__nothrow`; take arguments, create, run, free | everything that allocates, opens or throws | `break` and `return` out of a `__try` leave its handler behind; a destructor runs over what was half built | a throw reaches the innermost `__try` that is alive, nothing is used after it was freed, all is given back, success means that the files were written |
| Text files, strings, CSV (`libcommon/src/TextFile.c`, `SizedString.c`, `ParseCSV.c`) | a buffer shared by derived files, the place and line number of each, an array of fields | next line, rewind, derive, mark the end; split; compare; read numbers | text sources, script lines | a buffer without NUL and looked at one behind its end; CR, LF and both; arrays that are reused; 32-bit numbers | lines come once and in order, fields are the line, a number is what its digits say |
| CppUTest: runner, registry, plugins (`CppUTest/src`) | the current test and result, filters, the chain of plugins, a stack of jump buffers | parse arguments, run all tests, each through its phases, in one process or a child each; fail; crash | leak detector, mocks, pointers set by tests | failures leave by `longjmp`, also from a constructor, past the code that restores things | a test that did nothing wrong is not blamed, nothing is left of a test, the exit status tells |
| CppUTest: leak detector (`MemoryLeakDetector.cpp`, …) | a node for each block, the period it was stored in | alloc, free, realloc, check at the end of a test | every allocation | periods, mismatched allocators, corrupted guards, simulated lack of memory | leaks are those of the test that is over |
| CppUTest: mocks (`CppUTestExt`) | expectations, the call being matched, call orders, scopes | expect, call, ignore, disable, check, clear | plugin at the end of a test | calls narrow a list of candidates step by step | expected calls pass, others fail |

The hazards of this code, each at its line and with the properties that would
catch it, are in `PROJECT.json` under `hazards`.

## 2. The modules

| Module | Models | Checked by | Proved in |
|---|---|---|---|
| `ForwardReferences` | lines, symbols and their waiting lines | `MCForwardReferences` | `ForwardReferencesProofs` |
| `ObjectImage` | buffers, origins, files | `MCObjectImage` | `ObjectImageProofs` |
| `NestedBranches` | *abstract*: what DO, ELSE and FIN promise | through `Conditionals` | `ConditionalsProofs` |
| `Conditionals` | the stack of clauses and its flag bits | `MCConditionals` | `ConditionalsProofs` |
| `LineReader` | *abstract*: one flat sequence of lines | through `TextSources` | `TextSourcesProofs` |
| `TextSources` | the stack of text sources | `MCTextSources` | `TextSourcesProofs` |
| `InstructionSets` | the opcode tables and their merge | through `LineAssembly` | – |
| `Operands` | line parser, expressions, addressing modes | through `LineAssembly` | – |
| `LineAssembly` | from the text of a line to its bytes, and again | `MCLineAssembly` | – |
| `Processor` | *reference*: how the processors read instructions; models no code | through `MCLineAssembly` | – |
| `BlockScript` | a script on a block image | `MCBlockScript` | `DiskImageProofs` |
| `DiskContents` | *abstract*: what a nibble image promises to hold | through `NibbleImage` | `DiskImageProofs` |
| `NibbleImage` | insertions on a nibble image, in two formats | `MCNibbleImage` | – |
| `Nibbles` | the encodings of sectors, and their decoders | `MCNibbles` | – |
| `Statements` | the statements of C that matter to an exception, as instructions | through `Unwinding` | – |
| `NestedTries` | *discipline*: where the statements of a program keep their `__try` blocks balanced | `MCUnwinding` | `UnwindingProofs` |
| `Unwinding` | frames, handlers, `setjmp` and `longjmp`, the heap | `MCUnwinding` | `UnwindingProofs` |
| `SnapFunctions`, `CrackleFunctions` | the functions of both programs in those statements | `MCUnwinding` | – |
| `SizedStrings` | strings with a length, numbers, fields | through `TextFiles` | `TextFilesProofs` |
| `TextFiles` | texts read by line, and lines by field | `MCTextFiles` | `TextFilesProofs` |
| `CommandLineArguments` | the arguments of a test program | through `TestRun` | – |
| `LeakDetector` | the memory leak detector | through `TestRun` | `TestRunProofs` |
| `MockSupport` | the mocks | through `TestRun` | `TestRunProofs` |
| `TestRun` | runner, registry, plugins, jumps and processes | `MCTestRun` | `TestRunProofs` |

**ForwardReferences.** `lines` is the `LineInfo` list, `symbols` the symbol
table, `refs` and `cursor` the list of references and the enumeration cursor of
each symbol, `calls` the C stack of `updateLinesWhichForwardReferencedThisLabel`
(one entry per symbol being updated), `phase` the place in
`firstPassAssembleLine`. `ParseLine` reads a line, `AssembleSourceLine`
runs its handler, `UpdateLine` takes the next waiting line and runs *its*
handler with the program counter and global label of the moment, and may push
another symbol; `FinishUpdate` returns; `AddUnhandledLabel` defines a
label the handler has not; `AdvanceProgramCounter` adds the machine code;
`EndOfSource` is `checkForUndefinedSymbols` and the second pass. An operand
is a constant, `*` and up to two symbols, which is what flags and scopes can
tell apart. `Line` has history fields (`in`, `at`, `missed`) that only properties
read: the scope and address of the run that made the code, and whether a symbol
was defined but not known when it was used.

**ObjectImage.** Machine code is the buffer, place, size and address of its
line. Each emitting line, directive and second run of a directive is an action;
`Sav` and `usr` append to the queue, `WriteFile` writes the next file and may
fail, `FinishWriting` is the outcome. `repeated` is history: a directive has
run a second time.

**Conditionals** refines **NestedBranches**: the abstract module has a stack of
branches that hold or not and a switch at ELSE; the code has `skip`,
`inherited` and `seenElse` bits on each clause and looks at the innermost
only. `Define` runs the lines that wait for the symbol, whatever clause is open.
After an error nothing is promised, so both sides forget their branches.

**TextSources** refines **LineReader**: a PUT, a loop and a macro insert
their lines in front of one pending sequence. The mapping unrolls the stack:
the unread lines of the top, the loop bodies still to be repeated, and so down.
A line whose operand names an undefined symbol is put on that symbol's list
(`waiting`), and runs again in the middle of the line that gives the symbol its value
(`RunAgain`, Assembler.c:1128): an EQU, a label, or a macro call, whose operands are
assigned to `]1` to `]9` before its lines are pushed. `updates` is the C stack of
`updateLinesWhichForwardReferencedThisLabel`, and what each goes back to. A PUT, a LUP
or a macro call that has waited inserts its lines *again* then, in front of whatever is
to be read next, as only `handleDO` asks whether it runs for the second time. `LineReader`
says just that: a waiting line comes up once more (`Again`) when its symbol has its
value, before the next line is read. A LUP waits only for a symbol that some earlier
line has named, as `disallowForwardReferences` looks no further. `covered` is history: a
second run has pushed a source that has ended, or pushed on one, so that reading will stop
below both. An expression names one symbol, and `early` is the value it has while that is
undefined.
The stack is
popped once at most before a line is read (`Popped`), as in
`attemptToPopTextFileAndGetNextLine`; reading stops when what is below has ended
as well. `Abort` and `Crash` are the ends the code comes to when the operands of a
macro call throw outside of every `__try`, and when a directive uses the text
file of a macro, which has none. The search for the end of a LUP that is the last line
of its source reads an uninitialized record: the LUP is in error, or the
program crashes (builds with and without optimisation do the one and the other).

**BlockScript.** An image is the sequence of copies made to it (a byte is that
of the last copy over it). `lastBlock` and `lastLength` are as in the code.
Each line reads its object anew, computes its place (`BlockInsert`,
`Rw18Insert`), and `InsertObjectFile` validates and copies. A sum that wraps in
32 bits may pass validation; the copy then leaves its buffers and the program
is "crashed". BLOCK remembers its place *before* validation (`Remember`).
RWTS16 lines are refused, as a block image does. The bytes of an object are
not modelled, so relocation of an image table shows in the length only.

**NibbleImage** refines **DiskContents**: the abstract module has numbered sectors
and the bytes of RW18 tracks, and no places on a track; the code lays cells over
an image in which both formats overlap, and reads an RW18 track back before it
changes a part of it. A cell is a run of nibbles written together. Each turn of
the loops of `insertRWTS16Data` and `insertRW18Data` is an action
(`WriteRWTS16Sector`, `WriteRW18Track`), and so is each refusal, which leaves
what was written before. `stored` is history: what can be read from the image,
worked out from its cells after every write, and what the refinement maps.
A sector put inside the data of an RW18 track leaves all of the track's marks as
they were: only a checksum tells, and whether it does is a matter of chance
(`Reads`), so the track is "worn" and nothing is promised of its bytes.

**Nibbles** has the encodings nibble by nibble, with the decoder the code has for
RW18 (`IsAccepted`, `ReadByte`) and, for RWTS16, which the code only writes, the
reading of DOS 3.3 stated with the properties.

**LineAssembly** takes lines as sequences of tokens, and `Operands` reads them
as `ParseLine`, `AddressingMode` and `ExpressionEval` do: in the order of their
tests, with their errors. A line owns the bytes of its last allocation.
A data directive grows it by one value at a time, and gives it back when a value is in
error, which only works while it is the last one: on a second run it is not, and the
throw goes through to the line that defines the symbol, past the code that restores
`pLineInfo` (Assembler.c:1518). `MCLineAssembly` writes every instruction with every
form of operand, and has `Processor` decode the bytes. MX is taken as the merge of the
tables leaves it: ignored.

**Unwinding** runs programs. A function of the C source is a block of
`Statements`: calls, allocations, assignments of pointers, tests on them,
`__try` blocks, throws, and choices for all that depends on data; `Unwinding` is the
machine that steps through it. A handler lives in the frame of its function, at an
address that the next call to the same place uses again. `top` is
`g_pExceptionHandlers`, `heap` has what is allocated, and a place such as
`pThis->pSymbols` is followed through it, so that a null or freed object on the way is
seen. Variables keep their values over a `longjmp`, as GCC leaves them at -O0 and
-O2 in a function that calls `setjmp`. Lines that LUP, MAC and macro calls would read
within a macro are left to `TextSources` (`NotInMacros`), where the text file is NULL. One
argument stands for USR's four and for PUT's three optional ones. `aborted` is the
`assert` of `reportScriptLineException`, which memory that runs out meets
(DiskImage.c:363). A directive that waits for a symbol runs again within the line that defines it
(`WaitingLines`). Macros and their lines are never freed, nor is a file that a PUT found in one
directory and then in a later one (`OnlyMacrosAndDroppedFilesLeak`, with `filesDropped` counting the
latter), and
crackle reports success when lines of its script failed, so that success speaks
of the image alone.

**TextFiles.** A text is a sequence of characters with unknown ones behind it:
`TextFile_IsEndOfFile` and the step over the end of a line look one character
behind the buffer before they compare with its end (TextFile.c:253, 280). A chain of derived
files shares the text, as LUP does. `SizedStrings` has the comparisons and
`strtoul` with its prefixes; `UintSize` stands for 2^32.

**TestRun.** `pc` is the function of the runner that is executing. Each
test has five phases, from constructor to destructor, and in each of them does any
operation of its repertoire: allocate with one of the allocators, free, corrupt, set a pointer,
expect, call, check, fail, crash. A failure is a `longjmp` to the innermost `setjmp`. With
`-p` each test runs in a child, and the processes are a stack of saved states.
`guilty`, `escaped` and `swallowed` are history: which test did what deserves a
failure; a failure left a constructor or a destructor, whose `setjmp` is that of
`runOneTest`, so that the mocks, pointers and leak period were not restored, and
the next test finds them, or a child goes on with the tests that are left;
`checkExpectations` cleared the mocks and dropped their failure because
an *earlier* test had failed (MockSupport.cpp:264). The properties say what holds with
these taken out, and each is a hazard at its line. Two pieces of state outlive a test and no
plugin sets them back, so `TestsAreIsolated` leaves them out: `allocator`, what `malloc` calls,
and `countdown`, after how many calls it finds no memory (TestHarness_c.cpp:80).

The modules are separate state machines. Where components meet, each
module has the side it needs: second runs are in `ForwardReferences`,
`ObjectImage`, `Conditionals`, `LineAssembly` and `TextSources`, with the
part of the state that module is about; loops are in `TextSources` as positions and in
`TextFiles` as characters; a script line is in `BlockScript` as a place on the disk,
in `TextFiles` as text, and in `CrackleFunctions` as what may throw.

## 3. Runs

| Run | Expect | What it shows |
|---|---|---|
| `ForwardReferences` | pass | every source over EQU chains, labels, instructions that outgrow their guess and branches, from `$fd` (the edge of the zero page) and `$fffc` (the wrap), over local labels, variables and `*`, with circular EQUs, and over a variable assigned twice behind an EQU: lists and cursors stay exact through nested updates, lines stay contiguous, code matches the final symbols, branches reach, every source is finished |
| `ObjectImage` | pass | every source of 5 lines of code and directives, with forward referenced operands, a buffer that fills up, and writes that fail |
| `Conditionals` | pass | every source of up to 6 lines: flag bits implement nested branches |
| `TextSources` | pass | some 35 000 file contents of loops, files and macros nested in each other, lines in error, and lines that wait for a symbol and insert their lines again: one flat sequence is read, and reading ends |
| `LineAssembly` | pass | every instruction in every form of operand under each set, and pairs of data lines with and without mistakes, around a label that is defined before or after them: the processor reads what was written |
| `BlockScript` | pass | scripts of 3 lines at the edges of blocks, tracks, sides, objects and the image |
| `NibbleImage` | pass | three insertions of sectors, protected sectors and RW18 data over each other, into the next track and off the disk: what is read back is what was put, and an intact RW18 track holds no sector |
| `Nibbles` | pass | sectors of both formats decode to the data and place they were written with, no data looks like a mark, a changed nibble is noticed |
| `Unwinding` | pass | both programs from main to its end, with two directories to search and one allocation or `fopen` that fails anywhere: but for what the search of a PUT leaves behind, throws reach their `__try` and nothing dead is used; only macros and files found twice leak, success means written, every run ends |
| `UnwindingPutSearch` | violation | PUT goes on to the next directory although it found the file, which is how its handler comes to be linked to itself, and the first file to be lost |
| `TestRun` | pass | two tests that do anything, in one process or one each: who is blamed, what is left, where jumps land, what the status says |
| `TextFiles` | pass | texts of up to five characters with anything behind them: lines, loops in loops, fields and numbers |

**Bounds.** In `ForwardReferences` a source of the first two vocabularies has 4
lines (use, EQU, EQU, definition: two definitions nest), and one of the third has 5:
a use, an EQU that names a variable and a label, two assignments of the
variable that wait for the label, and the label. That is the shortest
source in which an EQU is assembled twice with different values. `MaxLines` is 5 in
`ObjectImage` for a directive, code, DUM, DEND and SAV, and 6 in `Conditionals` for
a DO within a DO with both their ELSE or FIN. Two line sizes of
`ObjectImage` (2 and 40000) fill the real buffer of 65536 with two lines, and its addresses
lie on both sides of the wrap. `MaxDepth` ends the inclusion of a file in itself,
and `MaxCount` 3 gives a loop a first, a middle and a last iteration. Its
`WaitingTexts` have a macro in front of up to four lines that use or define one of
two symbols, and files whose last line defines one: two lines wait for one symbol, a
symbol is defined within the update of another, and a second run pushes on a file that
has ended (without `covered` TLC refutes `NothingIsLost`). In
`BlockScript` two lines interact through what is remembered and a third shows
whether that was right; `Word` is 2^24 instead of 2^32, as TLC's integers have
32 bits, and is above twice the image, which is all that the sums need; `WordSize` in
`LineAssembly` is the same for the values of expressions, whose types have 8, 16 and 24 bits.
`LineAssembly` has 4 lines: two that use a label, its definition and one more; a
`BufferSize` of 7 bytes is full in the middle of a data line, `MaxHexBytes` 2 is one
value less than the longest HEX line, and the addresses 253 and 65533 are those at
which the label is next to the edge of the zero page and of the address space.
In `NibbleImage` a track has 21 cells: five sectors of two bytes, one of them
within the data of an RW18 sector and the others on its frame, and two RW18 sectors
of three pages of two bytes; three insertions are an RW18 track, a sector on it
and an RW18 part again. `Nibbles` has sectors of the real 256 bytes, as the
auxiliary bytes wrap at that size, and RW18 pages of 4 bytes, each of which is
encoded like the others; data differs from a row or from zeros in one byte, at
the edges of the three parts of 86 bytes.
In `Unwinding` two lines of any kind, five arguments and one failure
(`MaxFailures`) reach every throw with every handler on the stack; its loops over
lines and symbols are the same for more. `Directories` is 2, the fewest with which the
search of a PUT enters its `__try` a second time with the handler of the first still on
top, and can find a file twice. With a third it would link the handler to itself once more
and may lose a second file, which `filesDropped` would count. `TestRun` has two tests that run, `MaxBlocks` 4
blocks and `MaxSet` 2 pointers, and bounds the operations of each repertoire
(`MaxSteps`); random walks with greater bounds, 60 million states of them, find nothing else.
`TextFiles` has three files on one text (`MaxFiles`): a loop within a loop; `UintSize` 64 is
passed by numbers of two digits.

**Deadlock** is not checked: every one of these programs ends.

**Fairness.** The programs are sequential and do not wait for anything: while a
step is possible the program takes it. `WF_vars(Next)` says that and no more. It
is used by `ForwardReferences` (`EverySourceIsFinished`),
`TextSources` (`ReadingEnds`) and `Unwinding` (`EveryRunEnds`).

**Mutants.** Each property of a passing run is paired with a bug in a mapped
definition (the operators named as mutants in the modules) that TLC finds by
that property.

## 4. Proofs

All for every value of the constants, under the named assumptions beside them.

*ForwardReferences.* `IInv` adds to the type invariant that a line with an
undefined symbol in its operand is on that symbol's list
(`EveryUndefinedReferenceIsRecorded`), that only *defined* symbols are being
updated (`CallsAreDefined`) and where the phases are. The second is why the
first is inductive: an update unlinks references, and this says they are to
symbols that no longer need them. Each handler is summed up once as
`Assembled(i)` (what assembling line i may change), which both a first
and a second run satisfy. From it: `TypeCorrectness`, `ReferencesAreRecorded`,
`OutputIsResolved`.

*Lists and cursors*. There is one cursor for each symbol, and it must survive
that lines are linked to and unlinked from the list it walks, by updates that began
within it. `AreInStep` is the inductive form: lists hold a line once, the
cursor of every symbol on the stack of calls *is* its list, and a line waits only for a
symbol without a final value or one being updated. `RemovedHeadLeavesTail` is
the step of the walk: the head is unlinked, and what is left is the tail. From it:
`CursorsFollowTheirLists`, `UpdatesAreComplete`.

*Addresses*. `AddressesInv` adds to contiguity that an instruction has a
size above 0 once it was assembled, as the code takes a size of 0 to mean "never", and that the
program counter outside of updates is behind the last line (`PcFollowsTheLines`).
From it: `LinesStayContiguous`, by what a second assembly leaves alone.

*Machine code* (`ForwardReferencesProofs` to here). The code of a line is made when the line is read, and again whenever a
symbol it waits for is defined, each time from the symbols of that moment. Why is it
that of the symbols in the end? `CodeInv` says, as long as no error was reported, that

- an instruction that waits for nothing has the code of its operand *now*
  (`CodeIsCurrent`), and one that does not wait for a symbol of its operand has that
  symbol's final value (`InstructionsWait`);
- a symbol with a final value has the value its EQU would give it *now*
  (`EquatesAreCurrent`). This needs that an EQU that is still on some list was
  assembled where it would be assembled again: its program counter and its global
  label are the present ones, or the local label it waits for will never be defined
  (`EquatesAreFresh`). That a scope does not come back is `ScopesPass`: a global label that
  another one has followed is defined, so that to define it again is an error;
- lists, keys and symbols belong to the operands and labels of their lines
  (`SymbolsHaveLines`, `EquatesDefine`, `LinksAreOfOperands`, `KeysAreOperands`).

All of it speaks of `Steady` names, those that no variable reaches through EQUs: the
greatest set of names closed under the operands of their EQUs. Without that it is
false (`DefinitionsAreStable` below). The key of the step is that no step changes a
final symbol with a steady name, although EQUs run again: `FinalSymbolsAreStable`.
From it: `CodeIsOfTheFinalSymbols`; and `WrittenBranchesReach`, as the final assembly
of a branch checks its offset, and a forward branch was accepted unchecked.

*ObjectImage.* `OriginOK` ties the end of the object buffer to the program
counter and each line since the last ORG to its address, modulo 2^16;
`BaseIsBetweenLines` says that an ORG falls between lines. With the layout they
give `CodeNeverOverlaps`, `FilesLoadWhereAssembled`, `FilesNeverCutALine`. That the results
of the writes are a prefix of the queue (`ResultsFollowTheQueue`) gives
`SuccessIsComplete`.

*Conditionals.* `SkipsAreInherited` is what lets the innermost clause speak for
the whole stack, and is inductive with `ReferencesOK`. From them:
`InheritanceIsExact`, `WaitingLinesAreResolved`, and
`ImplementsNestedBranches`, the refinement of `NestedBranches`.

*DiskContents.* `FormatsStayApart`: an RW18 track whose checksums are right holds
no sector, by induction over the insertions, one lemma for a sector and one for
a track; it needs the number of tracks and of sectors only. That the image
implements `DiskContents` is model-checked.

*TextSources.* A loop and the source it was cut out of lie on one stack and move on their
own. `LoopsResumeAtTheirEnd` is inductive with the type invariant and `UpdatesReturn`, that what
an update goes back to is not in the middle of reading: a LUP that runs again finds its `--^`
in whatever source is on top, and the lines in front of that are a loop's like those of a first run.
Three lemmas say what popping, moving the top and pushing leave of such a stack; `FirstExists`
finds the `--^`, by the least number of a set. From it: `TypeCorrectness`, `LoopsResume`.

For `EverySourceIsRead` the invariant is `LinesInv`: the lines of each source are those of a file, a
loop's body or a macro (`SourcesHaveOrigins`), a macro that is complete has lines of its own
(`MacrosHaveTextLines`), and a source that has ended *below* the top ends in the line
that pushed what is above it (`OnlyPushesEndBelow`), unless a second run has pushed on it
(`covered`). Only such a source can be dropped by
reading, which pops one source and stops if the next has ended. The proof showed that
the property has to count a main file that PUTs itself among the included files;
`OwnTexts` of `MCTextSources` has such files.

`ImplementsLineReader` is the refinement. What the sources on the stack still give is one
sequence (`Left`): the unread lines of the top, the bodies its loop will repeat, and what is
left of the sources under it. To read takes the first line of it, to pop takes nothing, to push puts
lines in front, and the lines of a macro's body are moved off it; there is a lemma for each of
these and one for each action. The mapping flattens a stack by a recursive function: its equations are
shown to have a solution for sequences of every length, and to fix it
(`FlatteningExists`, `FlattenedSequences`), so the rest uses the equations only. That no line is read
while one waits for a symbol with a value needs `WaitInv`: lines wait for the symbol their operand
names, updates are of symbols that have their value, and such a symbol has lines on its list only
while it is being updated. The lines under way in `LineReader` are the calls
that updates have interrupted, and the line being assembled (`Assembled`).

*TextFiles.* A place in a text is good to read from (`IsAtLine`) if a line starts there, or if it is
behind the text and reading stops there: at a NUL, or at the end of the file whatever is in memory
behind. `IsInOrder` says of each file that it starts and stands at such places, has counted the
lines before both, and ends with the text or in front of a line, so that no search sees
part of a line; `IsLineOf` that the line read last lies between where the file was and where it is;
`IsOver` that a loop which found its mark ends in front of it, where the file below goes on,
and that one still searching sees as far as the file below. Where a line starts depends on which characters
are the second of a CR LF or LF CR, and that on those before: in CR LF CR LF it is the second and the
fourth. This is a recursive function, shown to exist by a form without recursion, an odd
distance from the start of the run of pairs (`IsOddInRun`, `SecondsExist`). The lines before a
place are counted as a set, of which reading a line adds one (`OneLineMore`). From it:
`TextsAreReadInOrder`, for every text, mark, depth of loops and memory behind the text.

*Unwinding.* The transitions are those of a program, which is data. `NestedTries` says what of
its text matters, as assumptions that TLC evaluates for both programs: `__try` blocks
nest, no `return` is in one, `__rethrow` is in a `__catch` and only frees things before, and what is
outside of every `__try` in `main` does not throw. `IInv` ties the stack of handlers to that of
frames: on top is the handler of the innermost `__try` that the running instruction is in, or
else the one the function found when it was called; behind a handler is that of the next `__try`
around it, and so on down the callers; each leads to the end of its own block; and the
exception code is set on the way from a `__catch` to its `__rethrow`.
From it, as long as no `break` leaves a `__try` (`[][~LeavesTry]_vars`):
`ExceptionsReachTheirTryWithoutBreaks`, and `NoThrowIntoADeadFrame`, the part of
`MemoryIsSafe` about the stack. A program with no such `break` needs no hypothesis on its runs
(`ExceptionsOfProgramsWithoutBreaks`). The hypothesis is not idle: the one `break` that leaves a
`__try` of either program is that of `openPutFileUsingSearchPath` (Assembler.c:1768). A
directory in which the file is found leaves its handler behind, and if there is another
directory the handler is then linked to itself, and on top when the function returns. So of snap as it
is `ExceptionsReachTheirTry` and `MemoryIsSafe` do not hold, and the run checks
`ExceptionsReachTheirTryButForPuts` and `MemoryIsSafeButForPuts`: this function is the only
one that leaves a handler behind, and the only throw into a dead frame is the one
of the source made for the file it found.

*BlockScript.* `CopiesAreAtTheirPlaces` says that each copy of an RW18 line was
validated and is at the byte of its side that the line names, `LastIsRemembered` that what
is remembered of a BLOCK line is the copy made last. Three lemmas on remainders say when a sum of
32 bits comes out as it is; they need of the width only that it is a multiple of a block and above
two images. From them: `SidesStayApart`, `StarContinuesWholeBlocks`,
`EscapesAreWrapped`, for scripts of any length.

*TestRun.* Two invariants, for all repertoires of tests, pointers and numbers of blocks.
`JumpsInv` has the number of jump buffers in use in each place (`Depth`: none
outside of a test, that of `runOneTest` in it, and one more in a phase), what is in
them, and that every parent waits in `runOneTest`, which is what makes a child's state
good when it is taken over from its parent and given back. From it:
`FailuresReturnToTheirPhase`. Of an operation of a test one only has to know that it goes on, jumps,
or dies with its process; each of the operations is shown to do one of the three, and to
keep the data in order.

`IsolationInv` holds until a failure leaves a constructor or a destructor
("escaped"). It says which of the three plugins has cleaned up at each place (`Restored`,
`MocksChecked`, `LeaksChecked`, in the order of the plugins in the chain), and
that the *first* entry of a pointer in the list of set pointers has the value from before
the test (`CanBeRestored`). That is why restoring has to go from the last entry to the first:
`RestorePointers` says so as "each pointer has the value of its first entry". What
a parent will go on with is clean in the same sense (`IsClean`). From it: `TestsLeaveNothing`,
after any number of tests.

`MocksInv` is about the call that each support is matching: it has succeeded, and then it is
fulfilled and its candidates were not called before; or it is in progress, and each candidate agrees with the
parameters so far and still lacks some; or it has failed. It holds of the mocks of a parent
too, which a child's end gives back. That parameters come one by one is a chain of calls, a recursive
function of the place in it. From it: `CallsStayConsistent`, that no call changes from a
state to the same state or leaves the one it failed in, which the code says "cannot happen".

**Only model-checked**, and why:

- liveness, which is beyond the prover;
- `NibbleImage` and its refinement, as what can be read back is worked out over runs of cells;
- `Nibbles`, `Operands` and `LineAssembly`: operators on bits, and operators that are declared
  `RECURSIVE`, which the prover does not take (a recursive *function* it does, by what its
  equations say);
- of `Unwinding` what depends on the data of the two programs: the heap, with
  `OnlyMacrosAndDroppedFilesLeak`, `SuccessMeansWritten`, and what a
  program with a `break` out of a `__try` does (`ExceptionsReachTheirTryButForPuts`,
  `MemoryIsSafeButForPuts`);
- of `TestRun` `OnlyTheGuiltyAreBlamed`, as a call takes the first expectation that fits and that this
  does not matter depends on which are expected, and `ExitStatusTells`: the status is a
  number of failures that a process passes on modulo 256, so it tells as long as there
  are fewer (which is so in this instance, and not for every constant);
- of `TextFiles` `FieldsAreTheLine` and `ValuesAreTheNumbers`: fields and numbers are folds
  over characters with an operator as a parameter, which the prover cannot instantiate.

## 5. Where code and documents differ

One difference has a run and an entry under `findings`: `TriesAgainAfterAFailure`. The modules state
more of them at their end, each with the text it is taken from; a cfg that
names one finds a counterexample:

| Definition | What the code does |
|---|---|
| `DelayedEvaluationCompletes` (`ForwardReferences`) | a line that uses a symbol EQU to an undefined one is written with a stale value |
| `CurrentAddressIsOfTheLine` (`ForwardReferences`) | `*` in a line that waits is the address of the defining line |
| `LocalLabelsKeepTheirScope` (`ForwardReferences`) | a waiting line's local label is looked up in the scope of the defining line |
| `MostRecentAssignment` (`ForwardReferences`) | an assignment to a variable that waited overwrites later ones |
| `DefinitionsAreStable` (`ForwardReferences`) | an EQU that names a variable and an undefined symbol is assembled once for each value the variable takes on, and lines that had the first value keep it |
| `ForwardOriginsHold` (`ObjectImage`) | an ORG or DUM of a forward reference takes effect again at the definition |
| `HeaderHoldsLength` (`ObjectImage`, with `FullSizes` and `OneAddress`) | a full buffer of 65536 bytes has length 0 in its header |
| `SkippedCodeHasNoEffect` (`Conditionals`) | unknown operators and macro calls take effect in skipped code |
| `DoHasTheSymbolsValue` (`Conditionals`) | DO takes an undefined symbol that an earlier line named as 0 |
| `UnmatchedIsAnError` (`Conditionals`) | FIN without DO is a warning |
| `EveryLineIsRead` (`TextSources`) | a PUT as last line of an included file drops the rest of the file around it; so does an included file whose last line defines a symbol that a PUT or a macro call waits for |
| `LupsKnowTheirCount` (`TextSources`) | a LUP of an undefined symbol that an earlier line named takes it as 0 or whatever its expression makes of that, and runs again at the definition |
| `LoopEndsAreAccepted` (`TextSources`) | one bit for all loops: a loop in a file included from a loop makes the outer `--^` an error |
| `EmptyLoopsAreIgnored` (`TextSources`) | a LUP of count 0 assembles its body once |
| `StarContinues` (`BlockScript`) | `*` behind data that began within a block overwrites it |
| `MXIsAssumed` (`MCLineAssembly`, with `LongTexts`) | MX is ignored: its handler for the 65816 does not replace the one that ignores it, as tables are merged opcode by opcode and keep the handler |
| `ExceptionsReachTheirTry` (`Unwinding`) | the search for a PUT's file returns with its own handler on top when the file is in a directory that is not the last |
| `MemoryIsSafe` (`Unwinding`) | memory that runs out while the source for such a file is made jumps into the frame of that search, which is gone |
| `OverflowIsNoticed` (`TextFiles`) | a number that overflows to a greater one is taken |

`DefinitionsAreStable` is the one nobody would have looked for. A build of snap shows it:

```
 org $8000
 lda #<c
c equ a+]v
]v equ a
]v equ a+1
a nop
```

is written with `A9 05`, as `c` was while `a` was 0 for `]v`, although the list has `c` as
`$10004` in the end: the definition of `a` runs the EQU and both assignments again, each
assignment runs the EQU again, and only its first value runs `lda`.

## 6. What is not modelled

- Of scripts, the parsing of RWTS16 and RWTS16CP lines; what a nibble image does with
  them is in `NibbleImage`.
- `FileOpen.c`'s translation of paths, and the wording and layout of messages, of the
  list and of the output of tests: text only. The exit status of a main program is success or
  failure; that snap returns its number of errors modulo 256 is a hazard without a property.
- An empty directory in the search path reads the byte in front of a string
  (TextFile.c:73); a directory here has a name.
- Hash buckets and free lists of the symbol table and of the leak detector are functions from
  keys; sorting and binary search of opcode tables are a function from operators.
- Of CppUTest: `SimpleString`, outputs, reports and the platforms of other
  compilers; return values, stored data, comparators and the C interface of mocks; ordered
  tests, of which this repository has none outside of CppUTest's own tests.
- The test doubles are not part of the programs: `Unwinding` has the failures they inject.
- A disk image that cannot be written is in `Unwinding` only.

## 7. Plan

Done: the modules, runs and proofs above. Left, in this order:

1. The parsing of RWTS16 and RWTS16CP script lines, with `NibbleImage` as the
   image behind the script.
2. The merge of instruction tables as a lemma: the latest table wins, for every
   table.
