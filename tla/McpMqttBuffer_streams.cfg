SPECIFICATION FairSpec
CONSTANTS
    Consumers = {c1, c2}
    Calls = {k1}
    Sizes = {1}
    MaxMessages = 1
    MaxBytes = 1
    MaxPoll = 1
    MaxArrivals = 1
    NoConsumer = NoConsumer
PROPERTIES
    StreamsGoQuiet
CHECK_DEADLOCK FALSE
