SPECIFICATION Spec
CONSTANTS
    a1 = a1
    p1 = p1
    t1 = t1
    t2 = t2
    h1 = h1
    h2 = h2
    None = None
    Agents <- MCAgents
    Projects <- MCProjects
    Terminals <- MCTerminals
    Handlers <- MCHandlers
    MaxConsecutiveCrashes = 2
    CrashBound = 3
    ExitBound = 1
SYMMETRY Symmetric
INVARIANTS
    TypeOK
    FailedMeansExhausted
    ArmedSinceLastExit
PROPERTIES
    OnlyFailedRestartsStrand
    QuietStopHolds
