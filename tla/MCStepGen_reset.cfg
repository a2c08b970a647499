SPECIFICATION Spec
CONSTANTS
    Gen = {0}
    StepLen = 4
    Steps = 2
    CycleMod = 1
    Vel <- MCVel
    Delay = {0}
    Cfg <- MCCfg
    TrisWord = {in, out}
    LatWord = {low}
    AllIn = in
    in = in
    out = out
    low = low
    Far = 3
PROPERTY DirSetupAlways
