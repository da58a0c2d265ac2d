SPECIFICATION Spec
CONSTANTS
    t1 = t1
    t2 = t2
    Threads = {t1, t2}
    Irq = Irq
    NoChan = NoChan
    NoThread = NoThread
    Channels <- OneChannel
    Widths = {1}
    Lens = {1}
    MaxUnits = 1
    TestBuild = TRUE
    ConcurrentPut = TRUE
    CrossChannel = FALSE
INVARIANTS
    ChannelToken
    DrainHandshake
    DrainedBeforeReuse
    HardwareOwned
PROPERTIES
    CallsEnd
    ImplementsLease
