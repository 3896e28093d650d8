SPECIFICATION FairSpec
CONSTANTS
    MaxHandles = 3
    MaxAddresses = 2
    MaxConnects = 2
INVARIANTS
    TypeOK
    SocketHeldOnce
PROPERTIES
    ImplementsConnect
CHECK_DEADLOCK FALSE
