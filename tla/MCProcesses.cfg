CONSTANTS
    c1 = c1
    c2 = c2
    None = None
    Cpu <- MCCpu
    NPROC = 3
    NPID = 5
SPECIFICATION Spec
SYMMETRY MCSymmetry
CHECK_DEADLOCK FALSE
INVARIANTS
    StackKept
    NoMissedExit
PROPERTY ReapsOwnChild
