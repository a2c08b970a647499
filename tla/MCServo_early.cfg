SPECIFICATION FairSpec
CONSTANTS
    Range32 = 256
    StepLimit = 3
    MaxVels = {0, 1}
    MaxAccels = {2}
    Targets <- MCTargets
    Speeds <- MCOneSpeed
    MaxRxErr = 2
    Fast = 2
    Reach = 5
    Early = TRUE
    Settings <- MCOneSetting
    Level = {0, 5, 7}
    Leftover <- MCLeftover
PROPERTY FeedbackExact
PROPERTY MotionLimited
PROPERTY Settles
