SPECIFICATION Spec
CONSTANTS
    Families <- QuoteFamilies
    Builtins <- BuiltinNames
    BUFFER_SIZE = 2
INVARIANTS
    NoUnexpectedError
\* A line is dealt with once.
CHECK_DEADLOCK FALSE
