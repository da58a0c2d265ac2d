SPECIFICATION TestSpec
CONSTANTS
    Num = 5
    Den = 4
    MaxTicks = 7
    h1 = h1
    h2 = h2
    Handlers = {h1, h2}
    NoHandler = NoHandler
    MaxAge = 9
    Cases = {"all"}
    first = h1
    second = h2
    Nap = 2
    Naps = 2
INVARIANT WatchdogTestPasses
