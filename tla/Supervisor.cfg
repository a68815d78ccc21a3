CONSTANTS
    Starts = {s1, s2}
    PingBound = 2
    PauseBound = 2
SPECIFICATION Spec
INVARIANTS
    TypeOK
    TimersMatchMode
    PausesAreAnnounced
    ModeOutsideRun
PROPERTIES
    ClockInheritedOnlyByOvertaken
    StopConditionStops
    DeadManPauses
