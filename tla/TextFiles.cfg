CONSTANTS
    Texts <- MCTexts
    Behind <- MCBehind
    Mark <- MCMark
    Keywords <- MCKeywords
    UintSize = 64
    MaxFiles = 3
SPECIFICATION Spec
INVARIANTS LinesAreReadInOrder FieldsAreTheLine ValuesAreTheNumbers
\* The text comes to its end.
CHECK_DEADLOCK FALSE
