SPECIFICATION Spec
CONSTANTS
    slow = slow
    fast = fast
    zero = zero
    Param <- MCTwoParam
    Accepted <- MCTwoAccepted
    PowerOnCfg = slow
    NoCfg = NoCfg
    MaxSpeed = 1
    InitDelay = 1
    DelayMod = 4
    HangDelay = 2
    CycleTime = {2}
    HalfPeriod = 1
    RxTxDelay = 1
    Readings = 2
    Settle = 1
    TimeoutRst = 1
    TimeoutCfg = 1
    RxTimeout = 1
    MaxQueue = 3
    Backlog = 1
    RebootCycles = 6
    MaxRxErr = 3
PROPERTY ToleratesOneTimeout
