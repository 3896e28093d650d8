SPECIFICATION FairSpec
CONSTANTS
    Threads = {app, a, b}
    App = app
    SlowInit = FALSE
INVARIANTS
    TypeOK
    NoUseAfterFree
PROPERTIES
    EveryThreadReaped
    ShutdownCompletes
CHECK_DEADLOCK FALSE
