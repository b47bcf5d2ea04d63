SPECIFICATION Spec
CONSTANTS
    CPUs = {c1, c2, c3, c4}
    NumCpus = 4
INVARIANTS
    TypeOK
    BarrierInv
PROPERTIES
    ImplementsRendezvous
    CallsReturn
