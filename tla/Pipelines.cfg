SPECIFICATION Spec
CONSTANTS
    Ast <- PipeAst
    Lines <- PipeLines
    MaxLines = 2
    NProc = 4
    MaxFd = 8
    NPipe = 2
    PipeCap = 1
    MaxProcessCount = 5
INVARIANTS
    TypeOK
    NoLostChild
    PipelineWired
    NoPipeHeldInWait
    SubshellIsolation
PROPERTIES
    OnlyExitEnds
    KeepsPromise
