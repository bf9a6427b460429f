CONSTANTS
    Width = 7
    WordWidth = 14
    FloatUnit = 2
    Depth = 1
    Programs <- MCComputedElement
SPECIFICATION Spec
CHECK_DEADLOCK FALSE
INVARIANT NativeMeaning
