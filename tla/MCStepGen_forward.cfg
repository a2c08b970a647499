SPECIFICATION FairSpec
CONSTANTS
    Gen = {0}
    StepLen = 8
    Steps = 4
    CycleMod = 1
    Vel <- MCForward
    Delay = {0, 1, 2}
    Cfg <- MCWideCfg
    TrisWord = {in, out}
    LatWord = {low}
    AllIn = in
    in = in
    out = out
    low = low
    Far = 3
INVARIANT StepsTrackPosition
PROPERTY EveryCmdAnswered
