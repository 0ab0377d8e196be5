CONSTANTS
    a = a  b = b  m = m  n1 = n1  s1 = s1  s2 = s2  q1 = q1  q2 = q2
    Cmd = {a, b}
    Stream = {s1, s2}
    Node = {n1}
    Query = {q1, q2}
    None = None
    NodeOf <- MCNodeOf
    Queries <- MCQueries
    NeedPrepare <- MCNeedPrepare
    MaxRetries <- MCMaxRetries
    Retried = {b}
    AsText = {}
    Moved = {}
SPECIFICATION Spec
INVARIANTS TypeOK RightIds SuccessMeansExecuted RetriesBounded ExecutionsBounded
PROPERTIES FinalErrorsAreFinal
SYMMETRY StreamSymmetry
CHECK_DEADLOCK FALSE
