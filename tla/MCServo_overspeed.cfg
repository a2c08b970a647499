SPECIFICATION Spec
CONSTANTS
    Range32 = 256
    StepLimit = 3
    MaxVels = {0, 1, 5}
    MaxAccels = {2}
    Targets <- MCTargets
    Speeds <- MCSpeeds
    MaxRxErr = 2
    Fast = 3
    Reach = 5
    Early = FALSE
    Settings <- MCOneSetting
    Level = {0, 5, 7}
    Leftover <- MCLeftover
INVARIANT MaxVelKept
