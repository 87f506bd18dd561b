SPECIFICATION FairSpec
CONSTANTS
    Lines <- TypedLines
    MaxLines = 2
    MaxSignals = 3
INVARIANTS
    TypeOK
    CancelledNotRun
PROPERTIES
    InterruptReported
    CutByItsOwn
    ShellSurvives
    WaitsForAll
    CtrlCEndsLine
\* A line may run until its user interrupts it.
CHECK_DEADLOCK FALSE
