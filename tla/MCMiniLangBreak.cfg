CONSTANTS
    Width = 8
    FloatUnit = 2
    MaxInputs = 3
    Depth = 2
    LoopDepth = 3
    InputLines <- MCLines
    Programs <- MCBreakPrograms
    Stmts <- MCStmts
    Exprs <- MCExprs
SPECIFICATION Spec
CHECK_DEADLOCK FALSE
INVARIANTS
    MeaningPreserved
