SPECIFICATION Safety
CONSTANTS
    Threads = {t0}
    Irq = Irq
    NoChan = NoChan
    NoThread = NoThread
    Channels <- TwoChannels
    Widths = {1, 2}
    Lens = {1, 2, 4}
    MaxUnits = 2
    TestBuild = FALSE
    ConcurrentPut = FALSE
    CrossChannel = FALSE
INVARIANTS
    CompleteMeansMoved
    ResidualCovers
