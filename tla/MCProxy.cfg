SPECIFICATION MCSpec
CONSTANTS
    None = None
    MaxChannel = 2
    ReadSize = 2
    SimplexCredit = 1
    MultiplexCredit = 2
    LineSize = 2
    SockSize = 1
    MaxSend <- GuestSends2
    Closers = {"line", "guest", "host"}
INVARIANTS
    InOrder
    CreditAccounted
CHECK_DEADLOCK FALSE
