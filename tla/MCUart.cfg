SPECIFICATION MCSpec
CONSTANTS
    u1 = u1
    u2 = u2
    u3 = u3
    Threads = {u1, u2, u3}
    main = u1
    Users = {u1, u2}
    NoThread = NoThread
    Clock = 40
    Limit = 8
    TxSize = 2
    RxSize = 2
    Depth = 1
    RxDepth = 2
    Baud = 7
    Speeds = {0, 1, 5, 6, 7, 19, 20, 21}
    Bytes = {0, 1}
    Data <- DataUnderTest
    Chars = {0}
    Lengths <- LengthsUnderTest
    Cases <- CasesUnderTest
INVARIANTS PortOK TestPasses
PROPERTIES CallersReturn BytesArrive ImplementsStream
CHECK_DEADLOCK FALSE
