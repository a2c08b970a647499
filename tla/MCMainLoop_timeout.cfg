SPECIFICATION FairSpec
CONSTANTS
    Interval = 3
    ArpInterval = 6
    ClockMod = 36
    Startup = 2
    Wdt = 4
    Delay = {0, 1, 5}
    Host = {h1, h2}
    Port = {p1, p2}
    None = None
    Late = 2
INVARIANT MotionEnds
INVARIANT TimersOnTime
INVARIANT OneClient
PROPERTY PortFreed
PROPERTY LiveHostKept
