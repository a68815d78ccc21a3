CONSTANTS
    Starts = {s1, s2}
    PingBound = 2
    PauseBound = 2
SPECIFICATION HSpec
INVARIANT EmergencyStopHolds
