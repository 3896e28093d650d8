SPECIFICATION Spec
CONSTANTS
    MaxRequests = 2
    Timeouts = {TRUE, FALSE}
    BodySize = 2
    MaxSends = 1
    Capacity = 8
    Extended = {TRUE}
    AloneSends = 2
    AloneCapacity = 6
    AloneExtended = {FALSE}
INVARIANTS
    TypeOK
    OneAnswer
    AnswerIntact
    RequestsAnswered
    FramesIntact
    CloseHandshake
    FormatsAgree
CHECK_DEADLOCK FALSE
