SPECIFICATION FairSpec
CONSTANTS
    Client = Client
    Server = Server
    Length <- MCLength
    Mss = 2
    SeqRange = 8
    Iss = {6}
    MaxRtx = 2
    MaxSynRtx = 2
    Stops = {Server}
    MaxFlight = 2
INVARIANT TypeOK
INVARIANT InStep
PROPERTY StreamKept
PROPERTY NeverStuck
CHECK_DEADLOCK FALSE
