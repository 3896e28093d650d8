CONSTANTS
    None = None
    Channels = {c1}
    Fds = {f1, f2}
    MaxConns = 2
    MaxSends = 0
    MaxIn = 1
    Size = 2
    Styles = {"reads", "leaves", "late"}
    MaxLate = 1
SPECIFICATION FairSpec
INVARIANTS SocketOwners CloseNotToldAfterClose
PROPERTIES EofTold ClosingEnds
CHECK_DEADLOCK FALSE
