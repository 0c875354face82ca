CONSTANTS
    t1 = t1
    t2 = t2
    b1 = b1
    b2 = b2
    d1 = d1
    d2 = d2
    Absent = Absent
    Boot = Boot
    Thread <- MCThread
    Block <- MCBlock
    Data <- MCData
    OP_MAX_NUM_BLOCKS = 2
    LOG_SIZE = 4
    MaxTs = 3
    MaxCrashes = 2
SPECIFICATION WSpec
SYMMETRY MCSymmetry
PROPERTIES
    ImplementsAtomicDisk
    LogIntact
