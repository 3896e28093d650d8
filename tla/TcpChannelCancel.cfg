CONSTANTS
    None = None
    Channels = {c1}
    Fds = {f1}
    MaxConns = 1
    MaxSends = 2
    MaxIn = 0
    Size = 2
    Styles = {"reads"}
    MaxLate = 1
SPECIFICATION Spec
INVARIANT SuccessMeansSent
CHECK_DEADLOCK FALSE
