SPECIFICATION BusesSpec
CONSTANTS
    t1 = t1
    t2 = t2
    Clients = {t1, t2}
    NoClient = NoClient
    mode = mode
    bits = bits
    Items = {mode, bits}
    v0 = v0
    v1 = v1
    Values = {v0, v1}
    Default <- DefaultUnderTest
    Unknown = Unknown
    d1 = d1
    d2 = d2
    Devs = {d1, d2}
    Strange = Strange
    NoDev = NoDev
    MaxRefs = 3
    a1 = a1
    a2 = a2
    std = std
    fast = fast
    slow = slow
    Threads = {t1, t2, main}
    NoThread = NoThread
    Messages <- I2cMessages
    MaxCount = 3
    Addresses = {a1, a2}
    I2cFrequencies = {std, fast}
    DefaultFrequency = std
    MaxLength = 5
    MaxPrefix = 4
    Errors = {"LHAL ETIMEDOUT", "EIO"}
    Statuses = {"TIMEOUT", "NACK"}
    Pins = {p1, p2}
    MaxUsers = 2
    Off = Off
    Word = 4
    p1 = p1
    p2 = p2
    NoPins = NoPins
    low = low
    high = high
    main = main
    wide = wide
    NoBuffer = NoBuffer
    Source = 61
    MaxDivider = 9
    MaxPeriod = 11
    DutyOne = 8
    Frequencies <- PwmFrequencies
    Duties = {0, 6, 7}
    Polarities = {low, high}
    Low = low
INVARIANTS
    BusUp
    OutputAsAsked
    TestsPass
PROPERTIES
    ConfigAsAsked
    SelectedTalks
    GroupsAreWhole
SYMMETRY ClientSymmetry
CHECK_DEADLOCK FALSE
