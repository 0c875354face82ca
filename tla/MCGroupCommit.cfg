CONSTANTS
    t1 = t1
    t2 = t2
    t3 = t3
    b1 = b1
    b2 = b2
    b3 = b3
    Thread <- MCThread
    Block <- MCBlock
    OP_MAX_NUM_BLOCKS = 1
    LOG_SIZE = 2
    MaxTs = 4
SPECIFICATION FairSpec
INVARIANTS
    LogAccounting
    CommitFits
    CommittedInLog
PROPERTIES
    EndOpReturns
    BeginOpReturns
