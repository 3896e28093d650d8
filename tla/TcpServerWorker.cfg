SPECIFICATION FairSpec
CONSTANTS
    Channels = {c1, c2, c3}
    MaxWorkers = 2
    Limits = {1, 4}
    MaxOwn = 1
    None = None
    Server = Server
INVARIANTS
    TypeOK
    OneOwner
    EvenShares
PROPERTIES
    ClosedByOwner
    EveryConnectionSettles
CHECK_DEADLOCK FALSE
