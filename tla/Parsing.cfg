SPECIFICATION Spec
CONSTANTS
    MaxTokens = 7
INVARIANTS
    AcceptsLines
    ErrorReported
    TreeShape
    MeansTheLine
