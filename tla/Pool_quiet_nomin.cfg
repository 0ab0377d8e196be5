CONSTANTS
    c1 = c1  c2 = c2  c3 = c3  c4 = c4  c5 = c5  a = a  b = b  d = d  s1 = s1  s2 = s2
    Conn = {c1, c2, c3}
    Client = {a, b}
    Slot = {s1}
    NoConn = NoConn
    N = 1
    MinPoolSize = 0
    MaxPoolSize = 1
    MaxWaiters = 1
    MaxStreams = 2
    MayDrop = {a, b}
    OneShot = {a, b}
SPECIFICATION FairSpec
PROPERTIES EveryWaiterAnswered
CHECK_DEADLOCK FALSE
