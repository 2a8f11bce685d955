SPECIFICATION FairSpec
CONSTANTS
    a = a
    b = b
    c = c
    loc = loc
    v = v
    NoName = NoName
    GlobalNames = {a, b, c}
    LocalNames = {loc}
    VariableNames = {v}
    Statements <- AllStatements
    StartAddresses <- TwoStarts
    MaxLines = 5
CONSTRAINT OneVocabulary
CHECK_DEADLOCK FALSE
INVARIANTS
    EveryUndefinedReferenceIsRecorded
    CursorFollowsTheList
    NoReferenceIsLeftBehind
    LinesAreContiguous
    CodeMatchesSymbols
PROPERTIES
    EverySourceIsFinished
