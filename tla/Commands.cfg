SPECIFICATION Spec
CONSTANTS
    Families <- MCFamilies
    Files <- MCFiles
    Directories <- MCDirectories
    NewKinds <- MCNewKinds
    MaxChanges = 2
    Statuses <- MCStatuses
    LONG_MAX = 1023
    INT_MAX = 255
INVARIANTS
    TypeOK
    LeftmostRuns
    StatusTellsWhy
PROPERTIES
    ExitTakesItsArgument
\* A session ends with its script.
CHECK_DEADLOCK FALSE
