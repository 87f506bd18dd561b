SPECIFICATION Spec
CONSTANTS
    Ast <- LimitAst
    Lines <- LimitLines
    MaxLines = 2
    NProc = 5
    MaxFd = 7
    NPipe = 3
    PipeCap = 1
    MaxProcessCount = 3
INVARIANTS
    PidsInBounds
