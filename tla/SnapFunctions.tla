---------------------------- MODULE SnapFunctions ---------------------------
(***************************************************************************)
(* snap as statements: main, the creation of the assembler, the lines that *)
(* allocate or open something, the second pass, and the release of it all. *)
(* Everything a line depends on but memory and exceptions is a choice.     *)
(*                                                                         *)
(* The LineInfo linesHead, which is part of the Assembler, is the          *)
(* Assembler itself, with the pNext of linesHead as its field.             *)
(***************************************************************************)
EXTENDS Statements, Sequences

CONSTANTS
    MaxLines,     \* bound: the lines in all the sources of a run
    MaxArguments, \* bound: the arguments of the command line
    Directories   \* the number of directories in --putdirs

This(f) == <<"pThis", f>>

\* The kinds of lines, by the function that a line of that kind calls.
Lines == <<"handlePUT", "handleLUP", "handleMAC", "handleMacroExpansion", "handleDO", "handleFIN", "handleSAV",
           "handleUSR", "handleOpcode", "addUnhandledLabel">>

\* Those whose operands may name a symbol to wait for, as they are when they are assembled again.
WaitingLines == <<"handlePUT", "handleLUP", "handleMacroExpansion", "handleUSR", "emitInstruction">>

\* Those that read through the text file of their source, which a macro expansion has not.
NotInMacros == {"handleLUP", "handleMAC", "handleMacroExpansion"}

\* LOG_ERROR
LogError == Count(This("errorCount"))

\* Counted for the properties: the files that are to be written, those written whole, and the
\* files opened for a PUT that another one then took the place of.
SnapGlobals ==
    [x \in {"pSourceFilename", "pListFilename", "pPutDirectories", "g_pFreeList",
            "filesToWrite", "filesWritten", "filesDropped"} |-> NULL]

---------------------------------------------------------------------------
(* The command line *)

StringParameter(field) ==
    Either(<<<<Throw(invalidArgumentException)>>,
            <<Put(Var(field), 1), Count(Var("arguments"))>>>>)

ParseFilenameArgument ==
    If(IsNull(Var("pSourceFilename")),
       <<Put(Var("pSourceFilename"), 1)>>,
       <<Throw(invalidArgumentException)>>)

ParseArgument ==
    Either(<<<<ParseFilenameArgument>>,
            <<Throw(invalidArgumentException)>>,
            <<StringParameter("pListFilename")>>,
            <<StringParameter("pPutDirectories")>>,
            <<Break>>>>)

SnapCommandLineInit == Function(<<>>, <<"arguments">>, <<
    Try("arguments", <<
        While(Less(Var("arguments"), MaxArguments), <<Count(Var("arguments")), ParseArgument>>),
        If(IsNull(Var("pSourceFilename")), <<Throw(invalidArgumentException)>>, <<>>)>>,
      <<Rethrow>>)>>)

SnapMain == Function(<<>>, <<"returnValue", "pAssembler">>, <<
    Try("main", <<
        Call(Nowhere, "SnapCommandLine_Init", <<>>),
        Call(Var("pAssembler"), "Assembler_CreateFromFile", <<>>),
        Call(Nowhere, "Assembler_Run", <<Var("pAssembler")>>),
        Copy(Var("returnValue"), At("pAssembler", "errorCount"))>>,
      <<Put(Var("returnValue"), 1)>>),
    Call(Nowhere, "Assembler_Free", <<Var("pAssembler")>>),
    Return(Var("returnValue"))>>)

---------------------------------------------------------------------------
(* Text files and sources *)

\* allocateStringAndCopyMergedFilename: directory, name and suffix in one string.
MergedFilename(place) == New(place, "filename", outOfMemoryException)

TextFileCreateFromFile == Function(<<>>, <<"pFile", "pThis">>, <<
    Try("create", <<
        New(Var("pThis"), "TextFile", outOfMemoryException),
        MergedFilename(This("pFilename")),
        New(Var("pFile"), "FILE", fileOpenException),
        Either(<<<<>>, <<Throw(fileException)>>>>),
        New(This("pFileBuffer"), "text", outOfMemoryException),
        Either(<<<<>>, <<Throw(fileException)>>>>)>>,
      <<Call(Nowhere, "TextFile_Free", <<Var("pThis")>>), Free(<<Var("pFile")>>), Rethrow>>),
    Free(<<Var("pFile")>>),
    Return(Var("pThis"))>>)

TextFileCreateFromTextFile == Function(<<"pTextFile">>, <<"pThis">>, <<
    New(Var("pThis"), "TextFile", outOfMemoryException),
    Copy(This("pFileBuffer"), At("pTextFile", "pFileBuffer")),
    Copy(This("pFilename"), At("pTextFile", "pFilename")),
    Copy(This("pBaseTextFile"), Var("pTextFile")),
    Return(Var("pThis"))>>)

\* Mutant: the name of the file is not freed.
TextFileFreeKeepsFilename == Function(<<"pThis">>, <<>>, <<
    If(IsNull(Var("pThis")), <<Return(Nowhere)>>, <<>>),
    If(IsNull(This("pBaseTextFile")), <<Free(<<This("pFileBuffer")>>)>>, <<>>),
    Free(<<Var("pThis")>>)>>)

TextFileFree == Function(<<"pThis">>, <<>>, <<
    If(IsNull(Var("pThis")), <<Return(Nowhere)>>, <<>>),
    If(IsNull(This("pBaseTextFile")), <<Free(<<This("pFileBuffer"), This("pFilename")>>)>>, <<>>),
    Free(<<Var("pThis")>>)>>)

\* TextSource_AddToFreeList
AddToFreeList == <<
    Copy(This("pFreeNext"), Var("g_pFreeList")),
    Copy(Var("g_pFreeList"), Var("pThis"))>>

\* freeObject of a source: its text file is not part of it.
FreeObject == <<Free(<<Var("pThis")>>)>>

\* TextFileSource_Create and LupSource_Create
TextSourceCreate == Function(<<"pTextFile">>, <<"pThis">>, <<
    Try("create",
      <<New(Var("pThis"), "TextSource", outOfMemoryException), Copy(This("pTextFile"), Var("pTextFile"))>> \o AddToFreeList,
      FreeObject \o <<Rethrow>>),
    Return(Var("pThis"))>>)

MacroExpansionSourceCreate == Function(<<>>, <<"pThis">>, <<
    Try("create",
      <<New(Var("pThis"), "TextSource", outOfMemoryException),
        New(This("macroExpansionLines"), "macro lines", outOfMemoryException)>> \o AddToFreeList,
      FreeObject \o <<Rethrow>>),
    Return(Var("pThis"))>>)

TextSourceFreeAll == Function(<<>>, <<"pCurr", "pNext">>, <<
    Copy(Var("pCurr"), Var("g_pFreeList")),
    While(Some(Var("pCurr")), <<
        Copy(Var("pNext"), At("pCurr", "pFreeNext")),
        Call(Nowhere, "TextFile_Free", <<At("pCurr", "pTextFile")>>),
        Free(<<Var("pCurr")>>),
        Copy(Var("pCurr"), Var("pNext"))>>),
    Put(Var("g_pFreeList"), NULL)>>)

\* TextSource_StackPush
StackPush == <<
    Copy(At("pTextSource", "pStackPrev"), This("pTextSourceStack")),
    Copy(This("pTextSourceStack"), Var("pTextSource"))>>

---------------------------------------------------------------------------
(* The assembler is created and freed *)

AssemblerCreateFromFile == Function(<<>>, <<"pThis", "pTextFile">>, <<
    Try("create", <<
        New(Var("pThis"), "Assembler", outOfMemoryException),
        Call(Var("pTextFile"), "TextFile_CreateFromFile", <<>>),
        Call(Nowhere, "commonObjectInit", <<Var("pThis"), Var("pTextFile")>>)>>,
      <<Call(Nowhere, "Assembler_Free", <<Var("pThis")>>), Rethrow>>),
    Return(Var("pThis"))>>)

ListFileCreate == New(This("pListFile"), "ListFile", outOfMemoryException)

ParseCSVCreate(place) == New(place, "ParseCSV", outOfMemoryException)

\* Mutant: the text file is freed although its source has it.
CommonObjectInitKeepsTextFile == Function(<<"pThis", "pTextFile">>, <<"pTextSource">>, <<
    Try("init",
      <<Call(Var("pTextSource"), "TextFileSource_Create", <<Var("pTextFile")>>)>> \o StackPush \o
      <<ListFileCreate,
        Call(This("pSymbols"), "SymbolTable_Create", <<>>),
        Call(This("pObjectBuffer"), "BinaryBuffer_Create", <<>>),
        Copy(This("pLineInfo"), Var("pThis")),
        Call(Nowhere, "SymbolTable_Add", <<This("pSymbols")>>)>>,
      <<Call(Nowhere, "TextFile_Free", <<Var("pTextFile")>>), Rethrow>>)>>)

CommonObjectInit == Function(<<"pThis", "pTextFile">>, <<"pTextSource">>, <<
    Try("init",
      <<Call(Var("pTextSource"), "TextFileSource_Create", <<Var("pTextFile")>>),
        Put(Var("pTextFile"), NULL)>> \o StackPush \o
      <<If(Some(Var("pListFilename")), <<New(This("pFileForListing"), "FILE", fileOpenException)>>, <<>>),
        ListFileCreate,
        Call(This("pSymbols"), "SymbolTable_Create", <<>>),
        Call(This("pObjectBuffer"), "BinaryBuffer_Create", <<>>),
        Call(This("pDummyBuffer"), "BinaryBuffer_Create", <<>>),
        Call(Nowhere, "createParseObjectForPutSearchPath", <<Var("pThis")>>),
        Call(Nowhere, "createFullInstructionSetTables", <<Var("pThis")>>),
        Copy(This("pLineInfo"), Var("pThis")),
        Call(Nowhere, "SymbolTable_Add", <<This("pSymbols")>>)>>,
      <<Call(Nowhere, "TextFile_Free", <<Var("pTextFile")>>), Rethrow>>)>>)

CreateParseObjectForPutSearchPath == Function(<<"pThis">>, <<"pParser">>, <<
    If(IsNull(Var("pPutDirectories")), <<Return(Nowhere)>>, <<>>),
    Try("parse", <<
        ParseCSVCreate(Var("pParser")),
        Call(Nowhere, "ParseCSV_Parse", <<Var("pParser")>>)>>,
      <<Call(Nowhere, "ParseCSV_Free", <<Var("pParser")>>), Rethrow>>),
    Copy(This("pPutSearchPath"), Var("pParser"))>>)

\* The fields grow for the line: realloc takes the old ones when it succeeds.
ParseCSVParse == Function(<<"pThis">>, <<"pRealloc">>, <<
    If(Some(This("pFields")), <<Either(<<<<>>, <<Return(Nowhere)>>>>)>>, <<>>),
    New(Var("pRealloc"), "fields", outOfMemoryException),
    Free(<<This("pFields")>>),
    Copy(This("pFields"), Var("pRealloc"))>>)

ParseCSVFree == Function(<<"pThis">>, <<>>, <<
    If(IsNull(Var("pThis")), <<Return(Nowhere)>>, <<>>),
    Free(<<This("pFields"), Var("pThis")>>)>>)

CreateFullInstructionSetTables == Function(<<"pThis">>, <<>>, <<
    New(This("instructionSet6502"), "instruction set", outOfMemoryException),
    New(This("instructionSet65C02"), "instruction set", outOfMemoryException),
    New(This("instructionSet65816"), "instruction set", outOfMemoryException)>>)

AssemblerFree == Function(<<"pThis">>, <<>>, <<
    If(IsNull(Var("pThis")), <<Return(Nowhere)>>, <<>>),
    FreeList(This("pNext"), "pNext", "none"),
    FreeList(This("pConditionals"), "pPrev", "none"),
    Free(<<This("instructionSet6502"), This("instructionSet65C02"), This("instructionSet65816")>>),
    Call(Nowhere, "ParseCSV_Free", <<This("pPutSearchPath")>>),
    Free(<<This("pListFile")>>),
    Call(Nowhere, "BinaryBuffer_Free", <<This("pDummyBuffer")>>),
    Call(Nowhere, "BinaryBuffer_Free", <<This("pObjectBuffer")>>),
    Call(Nowhere, "SymbolTable_Free", <<This("pSymbols")>>),
    Call(Nowhere, "TextSource_FreeAll", <<>>),
    Free(<<This("pFileForListing"), Var("pThis")>>)>>)

---------------------------------------------------------------------------
(* Symbols and the files to write *)

SymbolTableCreate == Function(<<>>, <<"pThis">>, <<
    Try("create", <<
        New(Var("pThis"), "SymbolTable", outOfMemoryException),
        New(This("ppBuckets"), "buckets", outOfMemoryException)>>,
      <<Call(Nowhere, "SymbolTable_Free", <<Var("pThis")>>), Rethrow>>),
    Return(Var("pThis"))>>)

\* All symbols are in one bucket.
Symbols == <<"pThis", "ppBuckets", "pFirst">>

SymbolTableFree == Function(<<"pThis">>, <<>>, <<
    If(IsNull(Var("pThis")), <<Return(Nowhere)>>, <<>>),
    If(Some(This("ppBuckets")), <<FreeList(Symbols, "pNext", "pLineReferences")>>, <<>>),
    Free(<<This("ppBuckets"), Var("pThis")>>)>>)

SymbolTableAdd == Function(<<"pThis">>, <<"pElement">>, <<
    New(Var("pElement"), "Symbol", outOfMemoryException),
    Copy(At("pElement", "pNext"), Symbols),
    Copy(Symbols, Var("pElement")),
    Return(Var("pElement"))>>)

BinaryBufferCreate == Function(<<>>, <<"pThis">>, <<
    New(Var("pThis"), "BinaryBuffer", outOfMemoryException),
    Malloc(This("pBuffer"), "bytes"),
    If(IsNull(This("pBuffer")),
       <<Call(Nowhere, "BinaryBuffer_Free", <<Var("pThis")>>), Throw(outOfMemoryException)>>,
       <<>>),
    Return(Var("pThis"))>>)

BinaryBufferFree == Function(<<"pThis">>, <<>>, <<
    If(IsNull(Var("pThis")), <<Return(Nowhere)>>, <<>>),
    FreeList(This("pFileWriteHead"), "pNext", "none"),
    Free(<<This("pBuffer"), Var("pThis")>>)>>)

\* The name of the file may be too long.
QueueWriteToFile == Function(<<"pThis">>, <<"pEntry">>, <<
    Try("queue", <<
        New(Var("pEntry"), "FileWriteEntry", outOfMemoryException),
        Either(<<<<>>, <<Throw(invalidArgumentException)>>>>),
        If(IsNull(This("pFileWriteTail")),
           <<Copy(This("pFileWriteHead"), Var("pEntry"))>>,
           <<Copy(<<"pThis", "pFileWriteTail", "pNext">>, Var("pEntry"))>>),
        Copy(This("pFileWriteTail"), Var("pEntry")),
        Count(Var("filesToWrite"))>>,
      <<Free(<<Var("pEntry")>>), Rethrow>>),
    Return(Var("pEntry"))>>)

BinaryBufferQueueWriteToFile == Function(<<"pThis">>, <<"pEntry">>, <<
    Try("header", <<Call(Var("pEntry"), "queueWriteToFile", <<Var("pThis")>>)>>, <<Rethrow>>)>>)

BinaryBufferQueueRW18WriteToFile == Function(<<"pThis">>, <<"pEntry">>, <<
    Call(Var("pEntry"), "queueWriteToFile", <<Var("pThis")>>)>>)

\* Mutant: only the result of the last file counts.
ProcessWriteFileQueueForgets == Function(<<"pThis">>, <<"pEntry", "exceptionThrown">>, <<
    Copy(Var("pEntry"), This("pFileWriteHead")),
    While(Some(Var("pEntry")), <<
        Try("entry", <<Call(Nowhere, "writeEntryToDisk", <<Var("pEntry")>>)>>, <<>>),
        GetExceptionCode(Var("exceptionThrown")),
        Copy(Var("pEntry"), At("pEntry", "pNext"))>>),
    If(Some(Var("exceptionThrown")), <<ThrowValue(Var("exceptionThrown"))>>, <<>>)>>)

BinaryBufferProcessWriteFileQueue == Function(<<"pThis">>, <<"pEntry", "exceptionThrown">>, <<
    Copy(Var("pEntry"), This("pFileWriteHead")),
    While(Some(Var("pEntry")), <<
        Try("entry",
          <<Call(Nowhere, "writeEntryToDisk", <<Var("pEntry")>>)>>,
          <<GetExceptionCode(Var("exceptionThrown"))>>),
        Copy(Var("pEntry"), At("pEntry", "pNext"))>>),
    If(Some(Var("exceptionThrown")), <<ThrowValue(Var("exceptionThrown"))>>, <<>>)>>)

WriteEntryToDisk == Function(<<"pEntry">>, <<"pFile">>, <<
    New(Var("pFile"), "FILE", fileException),
    Free(<<Var("pFile")>>),
    Either(<<<<Count(Var("filesWritten"))>>, <<Throw(fileException)>>>>)>>)

---------------------------------------------------------------------------
(* A run of the assembler *)

\* The enumeration of all symbols, which are in one bucket.
EnumStart == Copy(Var("pSymbol"), <<"pThis", "pSymbols", "ppBuckets", "pFirst">>)
EnumNext == Copy(Var("pSymbol"), At("pSymbol", "pNext"))

CheckForUndefinedSymbols == <<
    EnumStart,
    While(Some(Var("pSymbol")), <<
        If(Some(At("pSymbol", "pLineReferences")), <<LogError>>, <<>>),
        EnumNext>>)>>

AssemblerRun == Function(<<"pThis">>, <<"pSymbol">>,
    <<Call(Nowhere, "firstPass", <<Var("pThis")>>)>> \o
    CheckForUndefinedSymbols \o
    <<Call(Nowhere, "secondPass", <<Var("pThis")>>)>>)

\* The sources that end are popped: reading ends with the last, or with two that end together.
FirstPass == Function(<<"pThis">>, <<"lines">>, <<
    While(Less(Var("lines"), MaxLines), <<
        Either(<<<<>>,
                <<Copy(This("pTextSourceStack"), <<"pThis", "pTextSourceStack", "pStackPrev">>),
                  If(IsNull(This("pTextSourceStack")), <<Break>>, <<Either(<<<<>>, <<Break>>>>)>>)>>>>),
        Count(Var("lines")),
        Call(Nowhere, "parseLine", <<Var("pThis")>>)>>)>>)

SecondPass == Function(<<"pThis">>, <<>>, <<
    If(Some(This("errorCount")), <<Return(Nowhere)>>, <<>>),
    Try("save",
      <<Call(Nowhere, "BinaryBuffer_ProcessWriteFileQueue", <<This("pObjectBuffer")>>)>>,
      <<LogError, Rethrow>>)>>)

\* The handler of one of these kinds of lines.
OneOf(lines) == Either([i \in DOMAIN lines |-> <<Call(Nowhere, lines[i], <<Var("pThis")>>)>>])

\* firstPassAssembleLine, for a line of one of these kinds.
AssembleLine(lines) ==
    If(Some(<<"pThis", "pTextSourceStack", "pTextFile">>),
       <<OneOf(lines)>>,
       <<OneOf(SelectSeq(lines, LAMBDA line : line \notin NotInMacros))>>)

\* prepareLineInfoForThisLine, and what the line's operator or label does.
ParseLine == Function(<<"pThis">>, <<"pLineInfo">>, <<
    New(Var("pLineInfo"), "LineInfo", outOfMemoryException),
    Copy(<<"pThis", "pLineInfo", "pNext">>, Var("pLineInfo")),
    Copy(This("pLineInfo"), Var("pLineInfo")),
    AssembleLine(Lines)>>)

\* ExpressionEval, which reports what it throws.
ExpressionEval == Either(<<<<>>, <<LogError, Throw(invalidArgumentException)>>>>)

\* The arguments of a directive, up to the next comma: one that must be there, one that may
\* be an expression, and one that must be an expression.
NextStringArgument == Either(<<<<>>, <<Throw(invalidArgumentCountException)>>>>)
NextOptionalArgument == ExpressionEval
NextArgument == <<NextStringArgument, ExpressionEval>>

\* Up to the next semicolon, an expression or nothing.
NextOptionalExpression == ExpressionEval

\* One optional argument stands for the three.
HandlePUT == Function(<<"pThis">>, <<"pIncludedFile", "pTextSource">>, <<
    Try("operands", <<NextStringArgument, NextOptionalArgument>>, <<LogError>> \o Nothrow),
    Try("put",
      <<Call(Var("pIncludedFile"), "openPutFileUsingSearchPath", <<Var("pThis")>>),
        Call(Var("pTextSource"), "TextFileSource_Create", <<Var("pIncludedFile")>>)>> \o StackPush \o
      <<Put(Var("pIncludedFile"), NULL)>>,
      <<Call(Nowhere, "TextFile_Free", <<Var("pIncludedFile")>>), LogError>> \o Nothrow)>>)

OpenPutFileUsingSearchPath == Function(<<"pThis">>, <<"pTextFile", "i", "pOpened">>, <<
    If(IsNull(This("pPutSearchPath")),
       <<Call(Var("pTextFile"), "TextFile_CreateFromFile", <<>>), Return(Var("pTextFile"))>>,
       <<>>),
    While(Less(Var("i"), Directories), <<
        Try("directory",
          <<Copy(Var("pOpened"), Var("pTextFile")),
            Call(Var("pTextFile"), "TextFile_CreateFromFile", <<>>),
            If(Some(Var("pOpened")), <<Count(Var("filesDropped"))>>, <<>>),
            Break>>,
          <<ClearExceptionCode>>),
        Count(Var("i"))>>),
    If(Is(Var("i"), Directories), <<Throw(fileOpenException)>>, <<>>),
    Return(Var("pTextFile"))>>)

HandleLUP == Function(<<"pThis">>, <<"pLoopTextFile", "pTextSource">>, <<
    Try("loop",
      <<Either(<<<<>>, <<LogError, Throw(invalidArgumentException)>>>>),
        Call(Var("pLoopTextFile"), "TextFile_CreateFromTextFile", <<<<"pThis", "pTextSourceStack", "pTextFile">>>>),
        Either(<<<<>>, <<LogError, Throw(invalidArgumentException)>>>>),
        Call(Var("pTextSource"), "LupSource_Create", <<Var("pLoopTextFile")>>),
        Put(Var("pLoopTextFile"), NULL)>> \o StackPush,
      <<Call(Nowhere, "TextFile_Free", <<Var("pLoopTextFile")>>),
        If(CodeIs({outOfMemoryException}), <<LogError>>, <<>>)>> \o Nothrow)>>)

\* The lines of the macro grow with realloc, which leaves the old ones when it fails.
HandleMAC == Function(<<"pThis">>, <<"macroExpansionLines", "pRealloc", "pMacroDefinition">>, <<
    Try("define", <<
        Either(<<<<>>, <<LogError, Throw(invalidArgumentException)>>>>),
        New(Var("macroExpansionLines"), "macro lines", outOfMemoryException),
        Either(<<<<>>,
                <<LogError, Throw(invalidArgumentException)>>,
                <<New(Var("pRealloc"), "macro lines", outOfMemoryException),
                  Free(<<Var("macroExpansionLines")>>),
                  Copy(Var("macroExpansionLines"), Var("pRealloc"))>>>>),
        New(Var("pMacroDefinition"), "MacroDefinition", outOfMemoryException),
        Copy(At("pMacroDefinition", "macroExpansionLines"), Var("macroExpansionLines")),
        Copy(At("pMacroDefinition", "pNext"), This("pMacroDefinitionsList")),
        Copy(This("pMacroDefinitionsList"), Var("pMacroDefinition"))>>,
      <<If(CodeIs({outOfMemoryException}), <<LogError>>, <<>>)>> \o Nothrow)>>)

\* One argument stands for the nine; nothing here catches what it throws.
HandleMacroExpansion == Function(<<"pThis">>, <<"pTextSource">>, <<
    If(IsNull(This("pMacroDefinitionsList")), <<LogError, Return(Nowhere)>>, <<>>),
    NextOptionalExpression,
    Call(Nowhere, "attemptToAddSymbol", <<Var("pThis")>>),
    Call(Var("pTextSource"), "MacroExpansionSource_Create", <<>>)>> \o StackPush)

\* validateOperandWasProvided
ValidateOperandWasProvided == Either(<<<<>>, <<LogError, Throw(missingOperandException)>>>>)

HandleDO == Function(<<"pThis">>, <<"pAlloc">>, <<
    Try("do", <<
        ValidateOperandWasProvided,
        Try("push",
          <<New(Var("pAlloc"), "Conditional", outOfMemoryException),
            Copy(At("pAlloc", "pPrev"), This("pConditionals")),
            Copy(This("pConditionals"), Var("pAlloc"))>>,
          <<LogError, Rethrow>>)>>,
      Nothrow)>>)

HandleFIN == Function(<<"pThis">>, <<"pPrev">>, <<
    Try("fin", <<
        If(IsNull(This("pConditionals")), <<Throw(invalidArgumentException)>>, <<>>),
        Copy(Var("pPrev"), <<"pThis", "pConditionals", "pPrev">>),
        Free(<<This("pConditionals")>>),
        Copy(This("pConditionals"), Var("pPrev"))>>,
      Nothrow)>>)

HandleSAV == Function(<<"pThis">>, <<>>, <<
    Try("save", <<
        ValidateOperandWasProvided,
        Call(Nowhere, "BinaryBuffer_QueueWriteToFile", <<This("pObjectBuffer")>>)>>,
      <<If(CodeIs({missingOperandException}), <<>>, <<LogError>>)>> \o Nothrow)>>)

\* One argument stands for the four; one too many is an exception as one too few is.
HandleUSR == Function(<<"pThis">>, <<>>, <<
    Try("save",
      <<ValidateOperandWasProvided>> \o NextArgument \o
      <<Call(Nowhere, "BinaryBuffer_QueueRW18WriteToFile", <<This("pObjectBuffer")>>)>>,
      <<If(CodeIs({missingOperandException}), <<>>, <<LogError>>)>> \o Nothrow)>>)

AddUnhandledLabel == Function(<<"pThis">>, <<>>, <<
    Try("label", <<Call(Nowhere, "attemptToAddSymbol", <<Var("pThis")>>)>>, Nothrow)>>)

\* The symbol is a new one, or the one that was added last.
ThisSymbol(place, added) ==
    Either(<<<<Copy(place, <<"pThis", "pSymbols", "ppBuckets", "pFirst">>)>>, added>>)

\* The lines that wait for the symbol are assembled again.
AttemptToAddSymbol == Function(<<"pThis">>, <<"pSymbol", "pReference">>, <<
    Either(<<<<>>, <<LogError, Throw(invalidArgumentException)>>>>),
    ThisSymbol(Var("pSymbol"),
        <<Try("add",
            <<Call(Var("pSymbol"), "SymbolTable_Add", <<This("pSymbols")>>)>>,
            <<LogError, Rethrow>>)>>),
    While(Some(At("pSymbol", "pLineReferences")), <<
        Copy(Var("pReference"), At("pSymbol", "pLineReferences")),
        Copy(At("pSymbol", "pLineReferences"), At("pReference", "pNext")),
        Free(<<Var("pReference")>>),
        AssembleLine(WaitingLines)>>)>>)

\* An instruction with a label as its operand.
HandleOpcode == Function(<<"pThis">>, <<"pSymbol", "pReference">>, <<
    Try("operand",
      <<ThisSymbol(Var("pSymbol"), <<Call(Var("pSymbol"), "SymbolTable_Add", <<This("pSymbols")>>)>>),
        Either(<<<<>>,
                <<New(Var("pReference"), "SymbolLineReference", outOfMemoryException),
                  Copy(At("pReference", "pNext"), At("pSymbol", "pLineReferences")),
                  Copy(At("pSymbol", "pLineReferences"), Var("pReference"))>>>>)>>,
      Nothrow),
    Call(Nowhere, "emitInstruction", <<Var("pThis")>>)>>)

EmitInstruction == Function(<<"pThis">>, <<>>, <<
    Try("emit", <<Either(<<<<>>, <<LogError, Throw(outOfMemoryException)>>>>)>>, Nothrow)>>)

SnapProgram == [
    snap                               |-> SnapMain,
    SnapCommandLine_Init               |-> SnapCommandLineInit,
    TextFile_CreateFromFile            |-> TextFileCreateFromFile,
    TextFile_CreateFromTextFile        |-> TextFileCreateFromTextFile,
    TextFile_Free                      |-> TextFileFree,
    TextFileSource_Create              |-> TextSourceCreate,
    LupSource_Create                   |-> TextSourceCreate,
    MacroExpansionSource_Create        |-> MacroExpansionSourceCreate,
    TextSource_FreeAll                 |-> TextSourceFreeAll,
    Assembler_CreateFromFile           |-> AssemblerCreateFromFile,
    commonObjectInit                   |-> CommonObjectInit,
    createParseObjectForPutSearchPath  |-> CreateParseObjectForPutSearchPath,
    createFullInstructionSetTables     |-> CreateFullInstructionSetTables,
    Assembler_Free                     |-> AssemblerFree,
    ParseCSV_Parse                     |-> ParseCSVParse,
    ParseCSV_Free                      |-> ParseCSVFree,
    SymbolTable_Create                 |-> SymbolTableCreate,
    SymbolTable_Free                   |-> SymbolTableFree,
    SymbolTable_Add                    |-> SymbolTableAdd,
    BinaryBuffer_Create                |-> BinaryBufferCreate,
    BinaryBuffer_Free                  |-> BinaryBufferFree,
    queueWriteToFile                   |-> QueueWriteToFile,
    BinaryBuffer_QueueWriteToFile      |-> BinaryBufferQueueWriteToFile,
    BinaryBuffer_QueueRW18WriteToFile  |-> BinaryBufferQueueRW18WriteToFile,
    BinaryBuffer_ProcessWriteFileQueue |-> BinaryBufferProcessWriteFileQueue,
    writeEntryToDisk                   |-> WriteEntryToDisk,
    Assembler_Run                      |-> AssemblerRun,
    firstPass                          |-> FirstPass,
    secondPass                         |-> SecondPass,
    parseLine                          |-> ParseLine,
    handlePUT                          |-> HandlePUT,
    openPutFileUsingSearchPath         |-> OpenPutFileUsingSearchPath,
    handleLUP                          |-> HandleLUP,
    handleMAC                          |-> HandleMAC,
    handleMacroExpansion               |-> HandleMacroExpansion,
    handleDO                           |-> HandleDO,
    handleFIN                          |-> HandleFIN,
    handleSAV                          |-> HandleSAV,
    handleUSR                          |-> HandleUSR,
    handleOpcode                       |-> HandleOpcode,
    emitInstruction                    |-> EmitInstruction,
    addUnhandledLabel                  |-> AddUnhandledLabel,
    attemptToAddSymbol                 |-> AttemptToAddSymbol]
=============================================================================
