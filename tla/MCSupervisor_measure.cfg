SPECIFICATION FairSpec
CONSTANTS
    slow = slow
    fast = fast
    zero = zero
    Param <- MCParam
    Accepted <- MCAccepted
    PowerOnCfg = slow
    NoCfg = NoCfg
    MaxSpeed = 0
    InitDelay = 0
    DelayMod = 4
    HangDelay = 2
    CycleTime = {2, 3}
    HalfPeriod = 1
    RxTxDelay = 1
    Readings = 2
    Settle = 1
    TimeoutRst = 0
    TimeoutCfg = 1
    RxTimeout = 1
    MaxQueue = 2
    Backlog = 1
    RebootCycles = 1
    MaxRxErr = 1
INVARIANT TypeOK
PROPERTY MeasuredInRange
PROPERTY Recovers
