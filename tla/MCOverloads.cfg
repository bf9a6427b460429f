CONSTANTS
    Programs <- MCPrograms
    Calls <- MCCalls
SPECIFICATION Spec
CHECK_DEADLOCK FALSE
INVARIANTS
    TypeOK
    UniqueCheapest
    TypedByOneBinding
    ExactBeforeConverted
    OwnTypesSelectIt
