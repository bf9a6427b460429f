CONSTANTS
    Width = 8
    FloatUnit = 2
    MaxInputs = 3
    Depth = 2
    LoopDepth = 3
    InputLines <- MCLines
    Programs <- MCPrograms
    Stmts <- MCStmts
    Exprs <- MCExprs
SPECIFICATION FairSpec
CHECK_DEADLOCK FALSE
INVARIANTS
    MeaningPreserved
    StaysInFunction
    OnlyValueErrors
    ReturnsOneValue
PROPERTIES
    CallerOperandsUntouched
    Exits
