CONSTANTS
    Lexemes <- MCLexemes
    Sources <- MCSources
    Sentences <- MCSentences
SPECIFICATION FairSpec
CHECK_DEADLOCK FALSE
INVARIANTS
    TypeOK
    AcceptedIsComplete
    TreesRecovered
PROPERTIES
    TokensInOrder
    Stops
