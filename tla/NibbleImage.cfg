CONSTANTS
    Tracks = 2
    Sectors = 5
    SectorSize = 2
    Gap1 = 2
    Gap3 = 1
    Bundles = 2
    PageSize = 2
    Lead = 1
    Inserts <- MCInserts
    Junk <- MCJunk
    NoSide = NoSide
    NoSector = NoSector
    Protected = Protected
    MaxInserts = 3
SPECIFICATION Spec
PROPERTY RefinesDiskContents
\* A script is over at its last line.
CHECK_DEADLOCK FALSE
