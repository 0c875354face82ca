CONSTANTS
    c1 = c1
    c2 = c2
    Core0 = c1
    None = None
    Lock = Lock
    Disk = Disk
    Cpu <- MCCpu
    NPROC = 5
    Idle = {2}
SPECIFICATION FairSpec
INVARIANTS
    OneCpu
    OneHolder
    NoLostWakeup
PROPERTIES
    SleeperWoken
    RunnableRuns
