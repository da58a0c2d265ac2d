SPECIFICATION SpiTestSpec
CONSTANTS
    main = "main"
    board = "board"
    Workers = {"worker 1", "worker 2"}
    Clients = {"main", "board", "worker 1", "worker 2"}
    NoClient = NoClient
    Items = {"frequency", "mode", "bits", "order"}
    Values = {0, 1, 2, 3, 8, 16, 100000, 400000, 1000000}
    Default <- DefaultUnderTest
    Unknown = Unknown
    Devs = {"target 0"}
    FakeTargets = {"target 0", "target 1"}
    Strange = Strange
    NoDev = NoDev
    MaxRefs = 3
    Sessions <- SessionsUnderTest
    Clock = 40000000
    Highest = 1000000000
    BoundaryLengths <- LengthsUnderTest
    Iterations = 2
INVARIANTS
    MovesAsGiven
CHECK_DEADLOCK FALSE
