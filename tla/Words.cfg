SPECIFICATION Spec
CONSTANTS
    Families <- AllFamilies
    Builtins <- BuiltinNames
    BUFFER_SIZE = 2
INVARIANTS
    TypeOK
    LexedAsWritten
    MeansAsWritten
    BuiltinHere
    NoUnexpectedError
\* A line is dealt with once.
CHECK_DEADLOCK FALSE
