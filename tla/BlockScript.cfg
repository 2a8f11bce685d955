SPECIFICATION Spec
CONSTANTS
    Objects <- TheObjects
    Lines <- TheLines
    Word = 16777216
    MaxLines = 3
CHECK_DEADLOCK FALSE
INVARIANTS
    SidesAreApart
PROPERTIES
    StarContinuesABlock
    OnlyWrappedSumsEscape
