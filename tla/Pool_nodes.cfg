CONSTANTS
    c1 = c1  c2 = c2  c3 = c3  c4 = c4  c5 = c5  a = a  b = b  d = d  s1 = s1  s2 = s2
    Conn = {c1, c2, c3, c4}
    Client = {a, b}
    Slot = {s1, s2}
    NoConn = NoConn
    N = 2
    MinPoolSize = 1
    MaxPoolSize = 2
    MaxWaiters = 0
    MaxStreams = 2
    MayDrop = {a, b}
    OneShot = {}
SPECIFICATION Spec
PROPERTIES NodesSpec
SYMMETRY FullSymmetry
