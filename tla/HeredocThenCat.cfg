SPECIFICATION Spec
CONSTANTS
    Ast <- HeredocThenCatAst
    Lines <- HeredocThenCatLines
    MaxLines = 1
    NProc = 3
    MaxFd = 8
    NPipe = 3
    PipeCap = 1
    MaxProcessCount = 5
PROPERTIES
    OnlyExitEnds
