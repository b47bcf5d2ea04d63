SPECIFICATION Spec
CONSTANTS
    A = 7
    W = 4
    SPINSZ = 16
    ALIGN = 4
    BLOCK = 4
    MOD_SZ = 3
    GRAIN = 16
    BANK = 4
    PAGE = 8
    NO_PAGE = 99
    MAX_ERRORS = 5
    Iter = 2
    Bits <- MCBits
    Scenarios <- MCScenarios
INVARIANTS
    TypeOK
    NoFalseErrors
    StaysInShare
    InStep
    FaultFound
    SummaryRight
    RunNeedsNeighbours
    ErrorsShown
