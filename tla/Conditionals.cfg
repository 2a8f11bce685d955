\* Every source of up to six lines.
SPECIFICATION Spec
CONSTANTS
    Values <- MCValues
    MaxLines = 6
CHECK_DEADLOCK FALSE
INVARIANTS
    SkipsAreInherited
    LinesHaveTheSymbolsValue
PROPERTIES
    RefinesNestedBranches
