CONSTANTS
    p1 = p1
    p2 = p2
    c0 = c0
    c1 = c1
    None = None
    First = p1
    Proc <- MCProc
    Cpu <- MCCpu
    Path <- MCPath
    Image <- MCImage
    Call <- MCCall
    NINODES = 4
    NFILE = 1
    NOFILE = 2
SPECIFICATION Spec
INVARIANTS RefCounts FileRefs NamedIsAllocated
CHECK_DEADLOCK FALSE
SYMMETRY MCCpus
