CONSTANTS
    Bits = 3
    SecondsPerDay = 6
    NanoSecondsPerSecond = 4
    MilliSecondsPerSecond = 2
    Zones = {"east", "west", "south"}
    Offset <- ZoneOffsets
    Summer <- Summers
    SummerShift = 1
    OverflowWraps = TRUE
    Items <- MCItems
    Bodies <- BodiesInRange
    Decimals <- MCDecimals
SPECIFICATION Spec
INVARIANTS DecodeInvertsEncode TruncationRefused BodiesComeBack VintsShortest DecimalsAreNumbers
CHECK_DEADLOCK FALSE
