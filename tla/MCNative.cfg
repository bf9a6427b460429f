CONSTANTS
    Width = 7
    WordWidth = 14
    FloatUnit = 2
    Depth = 3
    Programs <- MCPrograms
SPECIFICATION Spec
CHECK_DEADLOCK FALSE
INVARIANTS
    LabelsResolve
    NativeMeaning
    StackAligned
PROPERTIES
    CallerUntouched
