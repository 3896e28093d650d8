SPECIFICATION FairSpec
CONSTANTS
    Timers = {t1, t2}
    Intervals = {0, 1, 2}
    TicksPerMs = 2
    NsPerMs = 4
    Modulus = 8
    IntMax = 3
    MaxCalls = 5
INVARIANTS
    TypeOK
    RunningIffScheduled
    NoDanglingTimer
    SortedByEnd
PROPERTIES
    FiresWhenDue
    EveryTimerFires
CHECK_DEADLOCK FALSE
