SPECIFICATION Spec
CONSTANTS
    WordSize = 16777216
    Numerals <- MCNumerals
    Characters <- MCCharacters
    Labels = {"F"}
    Texts <- MCTexts
    StartAddresses = {253, 65533}
    BufferSize = 7
    MaxHexBytes = 2
    MaxLines = 4
CHECK_DEADLOCK FALSE
INVARIANTS
    CodeIsWhatWasWritten
    ListAndBufferFollowTheSource
PROPERTIES
    XCTakesNothingAway
