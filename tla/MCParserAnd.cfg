CONSTANTS
    Lexemes <- MCLexemes
    Sources <- AndSources
    Sentences <- AndSentences
SPECIFICATION Spec
CHECK_DEADLOCK FALSE
INVARIANT TreesRecovered
