CONSTANTS
    t1 = t1
    b1 = b1
    Thread <- MCThread
    Block <- MCBlock
    OP_MAX_NUM_BLOCKS = 1
    LOG_SIZE = 3
    MaxTs = 3
SPECIFICATION NSpec
PROPERTY NamexReturns
CHECK_DEADLOCK FALSE
