SPECIFICATION Spec
CONSTANTS
    Threads = {app, a, b}
    App = app
    SlowInit = TRUE
INVARIANTS
    JoinOnlyOnInitError
CHECK_DEADLOCK FALSE
