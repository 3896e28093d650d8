SPECIFICATION FairSpec
CONSTANTS
    Timers = {t1, t2}
    Intervals = {1, 5}
    TicksPerMs = 2
    NsPerMs = 4
    Modulus = 8
    IntMax = 3
    MaxCalls = 3
PROPERTIES
    CalledWhenTimeOut
CHECK_DEADLOCK FALSE
