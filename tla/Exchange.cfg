CONSTANTS
    Bits = 8
    SecondsPerDay = 86400
    NanoSecondsPerSecond = 1000
    MilliSecondsPerSecond = 1000
    Zones = {}
    Offset <- NoZone
    Summer <- NoZone
    SummerShift = 0
    OverflowWraps = TRUE
    Clients <- Client
    Capacity = 1
    Scripts <- MCScripts
    Compressing <- First
    DefaultConsistency = 4
    PrepareAllQueries = FALSE
SPECIFICATION Spec
INVARIANTS RequestSaysCommand AnswerArrives RowsFillInOrder OneOwner
PROPERTIES KeepsLists
CHECK_DEADLOCK FALSE
