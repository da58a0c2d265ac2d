SPECIFICATION Safety
CONSTANTS
    t1 = t1
    t2 = t2
    t3 = t3
    Threads = {t1, t2, t3}
    Irq = Irq
    NoChan = NoChan
    NoThread = NoThread
    Channels <- OneChannel
    Widths = {1}
    Lens = {1}
    MaxUnits = 1
    TestBuild = FALSE
    ConcurrentPut = TRUE
    CrossChannel = FALSE
INVARIANTS
    OwnerKeepsChannel
