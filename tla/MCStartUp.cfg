SPECIFICATION StartSpec
CONSTANTS
    MAX_CPUS = 4
    PG = 3
    RES_START = 9
    RES_END = 15
    ADDR_TOP = 48
    E820MAX = 5
    HIGH = 8
    LOW = 6
    ENOUGH = 9
    Machines <- MCMachines
INVARIANTS
    TypeOK
    OrdinalsUnique
    OrdinalsDense
    NobodyEarly
    OneOnBootStack
    TestsTheRam
    BarrierKeptOut
    CpusIdentified
PROPERTIES
    Settles
    SafeSpec
