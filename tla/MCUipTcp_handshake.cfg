SPECIFICATION Spec
CONSTANTS
    Client = Client
    Server = Server
    Length <- MCLength
    Mss = 2
    SeqRange = 8
    Iss = {6}
    MaxRtx = 3
    MaxSynRtx = 3
    Stops = {Server}
    MaxFlight = 2
PROPERTY OpensDespiteLoss
CHECK_DEADLOCK FALSE
