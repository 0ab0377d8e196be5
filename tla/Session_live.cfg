CONSTANTS
    a = a  b = b  m = m  n1 = n1  s1 = s1  s2 = s2  q1 = q1  q2 = q2
    Cmd = {a, b, m}
    Stream = {s1}
    Node = {n1}
    Query = {q1, q2}
    None = None
    NodeOf <- MCNodeOf
    Queries <- MCQueries
    NeedPrepare <- MCNeedPrepare
    MaxRetries <- MCMaxRetries
    Retried = {a}
    AsText = {b}
    Moved = {m}
SPECIFICATION FairSpec
PROPERTIES EveryCommandEnds KeepsChannels
CHECK_DEADLOCK FALSE
