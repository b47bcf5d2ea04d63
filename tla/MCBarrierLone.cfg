SPECIFICATION Spec
CONSTANTS
    CPUs = {c1}
    NumCpus = 2
CHECK_DEADLOCK FALSE
PROPERTIES
    CallsReturn
