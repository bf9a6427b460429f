CONSTANTS
    Names <- MCNames
    Stmts <- MCStmts
    Programs <- MCPrograms
SPECIFICATION Spec
CHECK_DEADLOCK FALSE
INVARIANTS
    TypeOK
    ContextsMatched
    SlotsApart
    SlotsExist
    ResolvedLexically
