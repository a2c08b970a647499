SPECIFICATION InputSpec
CONSTANTS
    Byte = 4
    Echo = 2
    ICMP = 1
    UDP = 5
    HostAddr = 11
    Port <- MCPort
    Senders <- MCSenders
    Datas <- MCDatas
INVARIANT GoodAccepted
INVARIANT HandedIntact
INVARIANT EchoEndToEnd
PROPERTY AnswerVerifies
