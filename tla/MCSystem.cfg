SPECIFICATION SystemSpec
CONSTANTS
    MinDelay = 2
    MaxDelay = 5
    Half = 4
    Lag = 1
    Horizon = 9
    Line = 3
    Top = 26
    IntMax = 7
    RamStart = 3
    RamEnd = 21
    XipStart = 21
    XipEnd = 24
    Used = {4, 5, 6, 9}
    Ranges <- RangesUnderTest
    g_buffer = 3
    g_code = 15
    Foreign = 18
    Quiet = TRUE
    Modulus = 64
    Num = 5
    Den = 3
    Nsec = 3
    MinTicks = 2
    Guard = 2
    Latencies = {0, 7}
    Times <- AlarmTimes
    RelTimes = {1}
    StartTime <- AlarmStart
    TimeMax = 60
    StartCounter = 58
    RtcHorizon = 12
    NoAlarm = NoAlarm
    i1 = i1
    i2 = i2
    c1 = c1
    c2 = c2
    Irqs = {i1, i2}
    CoreIrqs = {i1}
    EdgeIrqs = {i1}
    CallsOf <- CallsUnderTest
    NoCall = NoCall
    Nobody = Nobody
INVARIANTS
    FiresOnTime
    EdgesKept
    ProcessorSees
    OthersSee
    TestsPass
PROPERTIES
    AlarmOnTime
    OwnHandler
CHECK_DEADLOCK FALSE
