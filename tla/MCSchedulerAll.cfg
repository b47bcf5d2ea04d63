SPECIFICATION Spec
CONSTANTS
    N = 2
    Tests <- TwoTests
    Pmap <- TwoSegments
    WIN_SZ = 6
    win0_start = 3
    win1_end = 4
    LowBlock = 1
    HighBlock = 4
    BarrierBlock = 2
    TicksPerTest = 2
    Inputs <- Modes
CHECK_DEADLOCK FALSE
INVARIANTS
    NeverTestsItself
    TestersCounted
    FullCoverage
PROPERTIES
    StopsOnlyOvertaken
