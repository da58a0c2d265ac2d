SPECIFICATION MCSpec
CONSTANTS
    Num = 5
    Den = 4
    MaxTicks = 7
    h1 = h1
    h2 = h2
    Handlers = {h1, h2}
    NoHandler = NoHandler
    MaxAge = 9
    Cases = {"001", "002", "003", "004", "005"}
    first = h1
    second = h2
    Nap = 2
    Naps = 2
INVARIANTS
    ReasonIsTrue
    StatusesTrue
    TestPasses
PROPERTIES
    FedDogSleeps
    UnfedDogActs
