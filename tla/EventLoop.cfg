SPECIFICATION FairSpec
CONSTANTS
    MaxCalls = 5
INVARIANTS
    TypeOK
    NoLostWakeup
    FifoExactlyOnce
    GracefulStopDropsNothing
PROPERTIES
    EveryEventDispatched
    StopEndsLoop
    ImplementsMailbox
CHECK_DEADLOCK FALSE
