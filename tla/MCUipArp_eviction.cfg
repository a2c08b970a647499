SPECIFICATION Spec
CONSTANTS
    host1 = host1
    host2 = host2
    host3 = host3
    far = far
    mac1 = mac1
    mac2 = mac2
    ARPTAB_SIZE = 2
    MAXAGE = 3
    TimeMod = 7
    Ip = {host1, host2, host3, far}
    OnNet = {host1, host2, host3}
    Null = Null
    Broadcast = Broadcast
    Mac = {mac1, mac2}
    NoMac = NoMac
PROPERTY OldestEvicted
