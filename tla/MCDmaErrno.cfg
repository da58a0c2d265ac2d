SPECIFICATION Safety
CONSTANTS
    t1 = t1
    t2 = t2
    Threads = {t1, t2}
    Irq = Irq
    NoChan = NoChan
    NoThread = NoThread
    Channels <- OneChannel
    Widths = {1}
    Lens = {1}
    MaxUnits = 1
    TestBuild = FALSE
    ConcurrentPut = FALSE
    CrossChannel = FALSE
INVARIANTS
    RefusedStartSaysBusy
