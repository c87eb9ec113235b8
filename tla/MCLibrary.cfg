SPECIFICATION Spec
CONSTANTS
    Words <- MCWords
    MyName <- MCName
    Uuids <- MCUuids
    MaxStarts = 3
    Pieces <- MCPieces
    MaxPieces = 4
    Code <- MCCode
    Expressions <- MCExpressions
    Tokens <- MCTokens
    MaxTokens = 4
    XDocuments <- MCDocs
    XsCases <- MCCases
    Chunk = 4
    Keys = {k1, k2}
    MaxLength = 9
    p1 = p1
    p2 = p2
    Proc = {p1, p2}
    Bus = Bus
    None = None
    Period = 1
    NoForkFor = {p2}
    Deleted = {p1}
INVARIANTS
    StateFileSound
    ReadsTheText
    DocumentIsKept
    ExpressionsAsMeant
    ArrivesAsMeant
    BufferFits
    EventsReachTheirSocket
    WaitQueueSound
PROPERTIES
    ChildrenAreReaped
    MessagesAreHandled
CHECK_DEADLOCK FALSE
