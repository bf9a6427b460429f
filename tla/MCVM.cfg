CONSTANTS
    Width = 8
    FloatUnit = 2
    MaxInputs = 3
    InputLines <- MCLines
    Bytecodes <- MCBytecodes
SPECIFICATION Spec
CHECK_DEADLOCK FALSE
INVARIANTS
    TypeOK
    ReturnsToItsCall
PROPERTIES
    CallersFrozen
