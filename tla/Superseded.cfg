SPECIFICATION Spec
CONSTANTS
    Ast <- SupersededAst
    Lines <- SupersededLines
    MaxLines = 2
    NProc = 3
    MaxFd = 8
    NPipe = 3
    PipeCap = 1
    MaxProcessCount = 5
INVARIANTS
    OneShell
