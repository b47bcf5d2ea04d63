SPECIFICATION Spec
CONSTANTS
    N = 1
    Tests <- TwoTests
    Pmap <- TwoSegments
    WIN_SZ = 9
    win0_start = 3
    win1_end = 4
    LowBlock = 1
    HighBlock = 4
    BarrierBlock = 2
    TicksPerTest = 2
    Inputs <- DefaultTests
INVARIANTS
    NeverTestsItself
