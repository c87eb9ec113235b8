SPECIFICATION Spec
CONSTANTS
    None = None
    MaxChannel = 1
    ReadSize = 3
    SimplexCredit = 2
    MultiplexCredit = 2
    LineSize = 2
    SockSize = 1
    MaxSend <- GuestSends5
    Closers = {"guest"}
INVARIANT
    CreditSuffices
CHECK_DEADLOCK FALSE
