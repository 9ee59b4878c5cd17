SPECIFICATION Spec
CONSTANTS
    Consumers = {c1}
    Calls = {k1, k2}
    Sizes = {1, 2}
    MaxMessages = 2
    MaxBytes = 3
    MaxPoll = 2
    MaxArrivals = 3
    NoConsumer = NoConsumer
SYMMETRY Symmetry
INVARIANTS
    TypeOK
    LossesCounted
    QueueIsLatest
    BytesAgree
PROPERTIES
    PollIsAuthorised
CHECK_DEADLOCK FALSE
