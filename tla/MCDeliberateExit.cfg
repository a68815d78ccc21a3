SPECIFICATION Spec
CONSTANTS
    a1 = a1
    p1 = p1
    t1 = t1
    t2 = t2
    h1 = h1
    h2 = h2
    None = None
    Agents <- MCAgents
    Projects <- MCProjects
    Terminals <- MCTerminals
    Handlers <- MCOneHandler
    MaxConsecutiveCrashes = 3
    CrashBound = 4
    ExitBound = 1
PROPERTY DeliberateExitIsNoCrash
