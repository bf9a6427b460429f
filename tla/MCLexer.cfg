CONSTANTS
    Letters <- MCLetters
    Reserved <- MCReserved
    Texts <- MCTexts
    MaxInt = 12
    Unrepresentable <- MCUnrepresentable
SPECIFICATION Spec
CHECK_DEADLOCK FALSE
INVARIANTS
    TypeOK
    LongestLexemes
    NothingLost
    PlacesTrue
    OnlyErrorsRefused
