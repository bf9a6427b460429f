CONSTANTS
    Depth = 2
    LoopDepth = 3
    FloatUnit = 2
    Programs <- MCPrograms
    Stmts <- MCStmts
    Exprs <- MCExprs
SPECIFICATION FairSpec
CHECK_DEADLOCK FALSE
INVARIANTS
    TypeOK
    ContextsMatched
    RetComesLast
    SelfContained
    NoForgottenJump
PROPERTIES
    Terminates
    PatchedOnce
