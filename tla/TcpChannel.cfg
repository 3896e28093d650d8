CONSTANTS
    None = None
    Channels = {c1}
    Fds = {f1}
    MaxConns = 1
    MaxSends = 2
    MaxIn = 1
    Size = 2
    Styles = {"leaves"}
    MaxLate = 1
SPECIFICATION FairSpec
INVARIANTS TypeOK SendOrder AnswersTruthful
PROPERTY SendsAnswered
CHECK_DEADLOCK FALSE
