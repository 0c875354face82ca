CONSTANTS
    t1 = t1
    t2 = t2
    t3 = t3
    b1 = b1
    b2 = b2
    b3 = b3
    s1 = s1
    s2 = s2
    s3 = s3
    None = None
    Thread <- MCThread
    Block <- MCBlock
    Slot <- MCSlot
    EVICTION_THRESHOLD = 2
SPECIFICATION Spec
SYMMETRY MCSymmetry
INVARIANTS
    UniqueBlockNo
    AloneGetsOwnBlock
