SPECIFICATION Spec
CONSTANTS
    Gen = {0}
    StepLen = 4
    Steps = 2
    CycleMod = 2
    Vel <- MCVel
    Delay = {0, 1}
    Cfg <- MCCfg
    TrisWord = {in, out}
    LatWord = {low}
    AllIn = in
    in = in
    out = out
    low = low
    Far = 3
INVARIANT TypeOK
INVARIANT StoppedUntilCommanded
PROPERTY MinPulseWidth
PROPERTY DirHold
PROPERTY DirSetup
