SPECIFICATION Spec
CONSTANTS
    BufferSize = 65536
    LineSizes <- SmallSizes
    Addresses <- TwoAddresses
    MaxLines = 5
CHECK_DEADLOCK FALSE
INVARIANTS
    CodeIsLaidOut
    SavedCodeLoadsAtItsAddress
    FilesHoldWholeLines
    SuccessMeansAllWritten
