-------------------------- MODULE CrackleFunctions --------------------------
(***************************************************************************)
(* crackle as statements: main, the image, and the lines of the script.    *)
(* What is written into the image is in BlockScript and NibbleImage; here  *)
(* it succeeds or throws.  A ByteBuffer is a field of the DiskImage.       *)
(***************************************************************************)
EXTENDS SnapFunctions, TLC

CrackleGlobals ==
    [x \in {"imageFormat", "pScriptFilename", "pOutputImageFilename"} |-> NULL]

---------------------------------------------------------------------------
(* The command line *)

CrackleFilenameArgument ==
    If(IsNull(Var("pScriptFilename")),
       <<Put(Var("pScriptFilename"), 1)>>,
       <<If(IsNull(Var("pOutputImageFilename")),
            <<Put(Var("pOutputImageFilename"), 1)>>,
            <<Throw(invalidArgumentException)>>)>>)

CrackleCommandLineInit == Function(<<>>, <<"arguments">>, <<
    Try("arguments", <<
        While(Less(Var("arguments"), MaxArguments), <<
            Count(Var("arguments")),
            Either(<<<<CrackleFilenameArgument>>,
                    <<Throw(invalidArgumentException)>>,
                    <<Put(Var("imageFormat"), 1), Count(Var("arguments"))>>,
                    <<Break>>>>)>>),
        If(IsNull(Var("pScriptFilename")), <<Throw(invalidArgumentException)>>, <<>>),
        If(IsNull(Var("pOutputImageFilename")), <<Throw(invalidArgumentException)>>, <<>>),
        If(IsNull(Var("imageFormat")), <<Throw(invalidArgumentException)>>, <<>>)>>,
      <<Rethrow>>)>>)

CrackleMain == Function(<<>>, <<"returnValue", "pDiskImage">>, <<
    Try("main", <<
        Call(Nowhere, "CrackleCommandLine_Init", <<>>),
        Call(Var("pDiskImage"), "DiskImage_Create", <<>>),
        Count(Var("filesToWrite")),
        Call(Nowhere, "DiskImage_ProcessScriptFile", <<Var("pDiskImage")>>),
        Call(Nowhere, "DiskImage_WriteImage", <<Var("pDiskImage")>>)>>,
      <<Put(Var("returnValue"), 1)>>),
    Call(Nowhere, "DiskImage_Free", <<Var("pDiskImage")>>),
    Return(Var("returnValue"))>>)

---------------------------------------------------------------------------
(* The image *)

DiskImageInit == <<
    Call(Nowhere, "ByteBuffer_Allocate image", <<Var("pThis")>>),
    ParseCSVCreate(This("pParser"))>>

\* BlockDiskImage_Create and NibbleDiskImage_Create, which is the same.
DiskImageCreate == Function(<<>>, <<"pThis">>, <<
    Try("create",
      <<New(Var("pThis"), "DiskImage", outOfMemoryException)>> \o DiskImageInit,
      <<Call(Nowhere, "DiskImage_Free", <<Var("pThis")>>), Rethrow>>),
    Return(Var("pThis"))>>)

ByteBufferFree(buffer) == <<Free(<<This(buffer)>>), Put(This(buffer), NULL)>>

ByteBufferAllocate(buffer) == Function(<<"pThis">>, <<>>, <<
    Try("allocate",
      ByteBufferFree(buffer) \o <<New(This(buffer), "bytes", outOfMemoryException)>>,
      ByteBufferFree(buffer) \o <<Rethrow>>)>>)

ByteBufferWriteToFile ==
    Either(<<<<Count(Var("filesWritten"))>>, <<Throw(fileException)>>>>)

\* The callers read no more than the buffer holds, so that only the file can fail.
ByteBufferReadPartialFromFile == Either(<<<<>>, <<Throw(fileException)>>>>)

CloseTextFile == <<
    Call(Nowhere, "TextFile_Free", <<This("pTextFile")>>),
    Put(This("pTextFile"), NULL)>>

DiskImageFree == Function(<<"pThis">>, <<>>,
    <<If(IsNull(Var("pThis")), <<Return(Nowhere)>>, <<>>)>> \o
    ByteBufferFree("object") \o ByteBufferFree("image") \o
    <<Call(Nowhere, "ParseCSV_Free", <<This("pParser")>>)>> \o CloseTextFile \o
    <<Free(<<Var("pThis")>>)>>)

DiskImageWriteImage == Function(<<"pThis">>, <<"pFile">>, <<
    Try("write", <<
        New(Var("pFile"), "FILE", fileOpenException),
        ByteBufferWriteToFile>>,
      <<Free(<<Var("pFile")>>), Rethrow>>),
    Free(<<Var("pFile")>>)>>)

---------------------------------------------------------------------------
(* The script *)

DiskImageProcessScriptFile == Function(<<"pThis">>, <<"lines">>,
    <<Try("open", <<Call(This("pTextFile"), "TextFile_CreateFromFile", <<>>)>>, <<Rethrow>>),
      While(Less(Var("lines"), MaxLines), <<
        Either(<<<<Call(Nowhere, "processNextScriptLine", <<Var("pThis")>>)>>, <<Break>>>>),
        Count(Var("lines"))>>)>> \o
    CloseTextFile)

\* A line that cannot be inserted is reported, and the next is tried.
ProcessNextScriptLine == Function(<<"pThis">>, <<>>, <<
    Call(Nowhere, "ParseCSV_Parse", <<This("pParser")>>),
    Either(<<<<>>, <<Return(Nowhere)>>>>),
    Try("line",
      <<Either(<<<<Call(Nowhere, "readObjectFile", <<Var("pThis")>>)>>, <<>>, <<Throw(invalidArgumentException)>>>>),
        Either(<<<<>>, <<Throw(fileException)>>, <<Throw(invalidSectorException)>>>>)>>,
      <<Call(Nowhere, "reportScriptLineException", <<Var("pThis")>>)>> \o Nothrow)>>)

ReadObjectFile == Function(<<"pThis">>, <<"pFilename">>, <<
    Try("read", <<
        New(Var("pFilename"), "filename", outOfMemoryException),
        Call(Nowhere, "DiskImage_ReadObjectFile", <<Var("pThis")>>)>>,
      <<Free(<<Var("pFilename")>>), Rethrow>>),
    Free(<<Var("pFilename")>>)>>)

DiskImageReadObjectFile == Function(<<"pThis">>, <<"pFile">>, <<
    Try("read", <<
        New(Var("pFile"), "FILE", fileOpenException),
        Either(<<<<>>, <<Throw(fileException)>>>>),
        Call(Nowhere, "ByteBuffer_Allocate object", <<Var("pThis")>>),
        ByteBufferReadPartialFromFile>>,
      <<Free(<<Var("pFile")>>), Rethrow>>),
    Free(<<Var("pFile")>>)>>)

\* The exceptions that the report of a line asserts there are, but for others that are like these.
ReportScriptLineException == Function(<<"pThis">>, <<>>, <<
    Require(CodeIs({fileOpenException, fileException, invalidArgumentException, invalidSectorException}))>>)

CrackleProgram == [
    crackle                     |-> CrackleMain,
    CrackleCommandLine_Init     |-> CrackleCommandLineInit,
    DiskImage_Create            |-> DiskImageCreate,
    DiskImage_Free              |-> DiskImageFree,
    DiskImage_WriteImage        |-> DiskImageWriteImage,
    DiskImage_ProcessScriptFile |-> DiskImageProcessScriptFile,
    processNextScriptLine       |-> ProcessNextScriptLine,
    readObjectFile              |-> ReadObjectFile,
    DiskImage_ReadObjectFile    |-> DiskImageReadObjectFile,
    reportScriptLineException   |-> ReportScriptLineException]
    @@ ("ByteBuffer_Allocate image" :> ByteBufferAllocate("image"))
    @@ ("ByteBuffer_Allocate object" :> ByteBufferAllocate("object"))
=============================================================================
