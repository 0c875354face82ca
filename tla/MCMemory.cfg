CONSTANTS
    p1 = p1
    p2 = p2
    c0 = c0
    c1 = c1
    a1 = a1
    a2 = a2
    None = None
    Proc <- MCProc
    Cpu <- MCCpu
    init = p1
    Page <- MCPage
    NPages = 15
    Low = 3
    Base = 1
    Entries = 1
    max_count = 2
SPECIFICATION Spec
INVARIANTS PagesConserved RunsOnOwnTable RoomAtHead
SYMMETRY MCSymmetry
CHECK_DEADLOCK FALSE
