SPECIFICATION DevicesSpec
CONSTANTS
    c1 = c1
    NoCallback = NoCallback
    Callbacks = {c1}
    Timeouts = {1, 3, 5}
    Intervals = {0, 2, 4}
    Word = 8
    MinTimeout = 2
    Divs = {39, 79}
    TickUsec = 2
    Ticks = {0, 3, 5}
    Generations = 3
    MaxCalls = 2
    Threads = {t1, t2}
    Pins = {p1, p2}
    Slots = 2
    t1 = t1
    t2 = t2
    p1 = p1
    p2 = p2
    NoThread = NoThread
    NoPin = NoPin
    SharePins = FALSE
    Preemptive = FALSE
    Nobody = Nobody
    main = main
    w1 = w1
    w2 = w2
    Workers = {w1, w2}
    Devices = {"/dev/random", "/dev/urandom"}
    BlockSize = 2
    Lengths = {1, 3}
INVARIANTS
    RunningAsSet
    PinsOK
    TestsPass
PROPERTIES
    CallbackHasLastWord
    MatchAnswered
    NoEventDropped
    EventServed
    BlocksOnce
    RandomReadsReturn
CHECK_DEADLOCK FALSE
