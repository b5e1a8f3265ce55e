SPECIFICATION HandSpec
CONSTANTS
    Places <- MCPlaces
    Shifts <- MCShifts
    TimedShifts <- MCTimedShifts
    MaxFaults = 1
    EdgeReset = FALSE
    LastingFault = TRUE
    Reach <- MCReach
    None = None
    a1 = a1
    a2 = a2
    RcuAxes = {a1, a2}
    Links <- MCLinks
    NoAxis = None
    FilterLength = 3
    Clicks <- MCClicks
    ReleaseFirst = TRUE
PROPERTY
    ShiftMovesBy
CHECK_DEADLOCK FALSE
