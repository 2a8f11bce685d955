---------------------------- MODULE MCUnwinding -----------------------------
(* Both programs, from main to the end of main. *)
EXTENDS NestedTries, CrackleFunctions, FiniteSets

BothPrograms == SnapProgram @@ CrackleProgram
BothGlobals == SnapGlobals @@ CrackleGlobals
TheMains == {"snap", "crackle"}

Releases ==
    {"DiskImage_Free", "TextFile_Free", "TextSource_FreeAll", "Assembler_Free", "ParseCSV_Free",
     "SymbolTable_Free", "BinaryBuffer_Free"}

TheContained == TheMains \cup Releases
TheQuiet == Releases

\* The only break of both programs that leaves a __try (Assembler.c:1768).
ASSUME BreaksAssumption ==
    {fn \in Functions : Breaks(fn) # {}} = {"openPutFileUsingSearchPath"}

---------------------------------------------------------------------------
\* What openPutFileUsingSearchPath does when a file is in a directory that is not the last: its break
\* leaves the handler of the __try on top, the next __try puts the same handler there again, linked
\* to itself, and what comes after the loop takes it for the __try around.
LeftByPut(a) == a[2] = "openPutFileUsingSearchPath"
IsLinkedToItself(a) == a \in DOMAIN handlers /\ handlers[a].pPrevious = a

\* An exception reaches the __try around it: a function that returns leaves on top the handler that
\* was there when it was called, what a __catch throws again is an exception, and main catches all.
\* The only function that leaves another one there is the search for a PUT, once its handler is
\* linked to itself.
ExceptionsReachTheirTryButForPuts ==
    /\ outcome = "running" =>
           /\ Now.op = "return" /\ top # Frame.entry => LeftByPut(top) /\ IsLinkedToItself(top)
           /\ Now.op = "rethrow" => code # noException
    /\ outcome # "unhandled"

\* Nothing is used after it was freed, freed twice or reached through NULL, and no throw jumps into
\* the frame of a function that has returned, but for one: that of the source for the file that a
\* PUT has found, when memory runs out.
MemoryIsSafeButForPuts ==
    /\ outcome = "running" => ~ GoesWild(Now)
    /\ outcome = "wild" => LeftByPut(top) /\ Frame.fn = "TextFileSource_Create"

OfKind(kind) == {id \in DOMAIN heap : heap[id].kind = kind}

\* main frees all it took and closes all it opened, on every way through the exceptions, but for
\* the definitions of macros and their lines, which Assembler_Free and freeObject know nothing of,
\* and the files a PUT has opened and then opened again in another directory, each whole.
OnlyMacrosAndDroppedFilesLeak ==
    outcome \in {"success", "failure"} =>
        /\ {heap[id].kind : id \in DOMAIN heap} \subseteq
               {"MacroDefinition", "macro lines", "TextFile", "filename", "text"}
        /\ \A kind \in {"TextFile", "filename", "text"} :
               Cardinality(OfKind(kind)) = globals["filesDropped"]

\* A program that reports success has written its image, or every file its source asked for, whole:
\* no exception on the way was caught and forgotten.
SuccessMeansWritten == outcome = "success" => globals["filesWritten"] = globals["filesToWrite"]

\* PUT looks in the next directory when it "Failed to open in this directory" (Assembler.c:1772).
TriesAgainAfterAFailure ==
    (outcome = "running" /\ Frame.fn = "openPutFileUsingSearchPath" /\ Now.op = "call") => Here(Var("pTextFile")) = NULL
=============================================================================
