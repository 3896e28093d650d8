SPECIFICATION Spec
CONSTANTS
    Channels = {c1, c2}
    MaxWorkers = 1
    Limits = {2}
    MaxOwn = 0
    None = None
    Server = Server
PROPERTIES
    RoundRobin
CHECK_DEADLOCK FALSE
