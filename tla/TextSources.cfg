SPECIFICATION FairSpec
CONSTANTS
    main = main
    a = a
    b = b
    m = m
    x = x
    y = y
    parameter = parameter
    Files = {main, a, b}
    Main = main
    NoFile = NoFile
    Macros = {m}
    NoName = NoName
    NoMacro = NoMacro
    Symbols = {x, y, parameter}
    NoSymbol = NoSymbol
    Parameter = parameter
    Texts <- AllTexts
    MaxCount = 3
    MaxDepth = 4
CHECK_DEADLOCK FALSE
INVARIANTS
    LoopsResumeAtTheirEnd
    NothingIsLost
PROPERTIES
    RefinesLineReader
    ReadingEnds
