SPECIFICATION FairSpec
CONSTANTS
    Range32 = 256
    StepLimit = 3
    MaxVels = {0, 1}
    MaxAccels = {2}
    Targets <- MCNearTargets
    Speeds <- MCOneSpeed
    MaxRxErr = 2
    Fast = 2
    Reach = 4
    Early = FALSE
    Settings <- MCSettings
    Level = {0, 5, 7}
    Leftover <- MCLeftover
INVARIANT PinsFollow
PROPERTY FeedbackExact
PROPERTY MotionLimited
PROPERTY Settles
