CONSTANTS
    Bits = 3
    SecondsPerDay = 6
    NanoSecondsPerSecond = 4
    MilliSecondsPerSecond = 2
    Zones = {"east", "west", "south"}
    Offset <- ZoneOffsets
    Summer <- Summers
    SummerShift = 1
    OverflowWraps = TRUE
    Items <- NoItems
    Bodies <- DateBodiesInRange
    Decimals <- NoItems
SPECIFICATION Spec
INVARIANT BodiesComeBack
CHECK_DEADLOCK FALSE
