SPECIFICATION Spec
CONSTANTS
    Ast <- RedirectAst
    Lines <- RedirectLines
    MaxLines = 2
    NProc = 4
    MaxFd = 9
    NPipe = 4
    PipeCap = 1
    MaxProcessCount = 5
INVARIANTS
    OneShell
    CleanPrompt
PROPERTIES
    InputDelivered
    KeepsPromise
