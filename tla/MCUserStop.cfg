SPECIFICATION StopSpec
CONSTANTS
    a1 = a1
    t1 = t1
    t2 = t2
    h1 = h1
    h2 = h2
    None = None
    Agents <- MCAgents
    Projects = {}
    Terminals <- MCTerminals
    Handlers <- MCHandlers
    MaxConsecutiveCrashes = 5
    CrashBound = 3
    ExitBound = 1
PROPERTY StopIsHonoured
