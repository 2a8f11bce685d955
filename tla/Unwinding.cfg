SPECIFICATION Spec
CONSTANTS
    Program <- BothPrograms
    Globals <- BothGlobals
    Mains <- TheMains
    MaxLines = 2
    MaxArguments = 5
    Directories = 2
    MaxFailures = 1
    Contained <- TheContained
    Quiet <- TheQuiet
CHECK_DEADLOCK FALSE
INVARIANTS
    MemoryIsSafeButForPuts
    ExceptionsReachTheirTryButForPuts
    OnlyMacrosAndDroppedFilesLeak
    SuccessMeansWritten
PROPERTY
    EveryRunEnds
