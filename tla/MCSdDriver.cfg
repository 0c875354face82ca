CONSTANTS
    t1 = t1
    t2 = t2
    t3 = t3
    c0 = c0
    c1 = c1
    None = None
    Core0 = c0
    Thread <- MCThreads
    Cpu <- MCCpu
    MaxOdd = 1
    Kind <- MCKinds
    HostVersion <- MCVersions
    MaxFaults = 2
SPECIFICATION DSpec
INVARIANTS OneRequestAtATime AnswerIsForFront DriverKnowsCard StartFindsRegisterEmpty ClockWithinLimit
PROPERTIES SdrwReturns SdInitReturns
CHECK_DEADLOCK FALSE
CONSTRAINT NotRaced
