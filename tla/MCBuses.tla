------------------------------ MODULE MCBuses -------------------------------
(* The two shared buses of the chip, SPI (SpiBus, SpiTests) and I2C (I2cBus,  *)
(* I2cTests), and the PWM channel (Pwm).  They share no state: a behaviour is *)
(* one of one of them.                                                        *)
EXTENDS SpiBus, I2cBus, Pwm, TLC

CONSTANTS t1, t2, mode, bits, v0, v1, d1, d2, a1, a2, std, fast, slow,
          p1, p2, low, high, main, wide

VARIABLES
    bus,            \* "spi", "spi test", "i2c", "i2c test" or "pwm"
    testLock, testRefs, testCache, testConfigError, testSelected, testSelectionError, testLastError,
    testClock, testHw, testAsserted, testMine, testAsked, testTarget,
    registered, spiHealthy, session, installed, errno, errors, spiScript, spiBad, seen,
    current, chosen, spiFake, inject, base, reports, honest,
    config, script, bad, fake, reference, cells, pointer, cycle, healthy

DefaultUnderTest == [i \in {mode, bits} |-> v0]

M(addr, freq, flags, length) ==
    [addr |-> addr, freq |-> freq, flags |-> flags, length |-> length, buffer |-> "buffer"]

\* Writes, reads and prefixes; a prefix of a read and one too long.
I2cMessages ==
    {M(a1, std, {}, 1), M(a1, std, {"read"}, 1),
     M(a1, fast, {"read"}, 1), M(a2, std, {"read"}, 5), M(a1, std, {"nostop"}, 4),
     M(a1, std, {"nostop", "read"}, 1), M(a1, std, {"nostop"}, 5)}

\* The EEPROM has 6 or 8 bytes, in pages of 2; what is written lies in one
\* page, ends or starts inside of one, or reaches out of the memory.
Hardware(name, freq, offset, length, capacity, allow_write, no_target) ==
    [name |-> name, freq |-> freq, offset |-> offset, length |-> length, page |-> 2,
     capacity |-> capacity, allow_write |-> allow_write, no_target |-> no_target]

I2cOptions ==
    {Hardware("fake", std, 0, 1, 0, FALSE, FALSE), Hardware("eeprom", std, 0, 1, 6, FALSE, FALSE)}
      \cup {Hardware("probe", f, 0, 1, 0, FALSE, n) : f \in {std, fast}, n \in BOOLEAN}
      \cup {Hardware(c, std, 3, 5, 0, FALSE, FALSE) : c \in {"combined", "boundary", "concurrent"}}
      \cup {Hardware("eeprom", std, o, n, c, TRUE, FALSE) : o \in 0 .. 3, n \in {1, 3, 5}, c \in {6, 8}}

I2c == INSTANCE I2cTests WITH
    Workers <- Clients, Fast <- fast, NoFrequency <- slow, Target <- a1, Other <- a2, Wide <- wide,
    Options <- I2cOptions, BoundaryLengths <- <<1, 4, 5>>, Iterations <- 2, Space <- 8

OnDevice(name, frequency, mode0, bits0, order, device) ==
    [name |-> name, frequency |-> frequency, mode |-> mode0, bits |-> bits0, order |-> order,
     target |-> device, length |-> 33]

\* Each case by itself, and cases after one on the device.
SpiSessions ==
    {<<[name |-> n]>> :
        n \in {"lifecycle", "config", "exchange", "sequence", "errors", "concurrent", "all"}}
      \cup {<<OnDevice("loopback", f, 3, 16, 1, d)>> :
              f \in {1, 1100000}, d \in {"target 0", "none"}}
      \cup {<<OnDevice(n, 400000, 2, 16, 0, "target 0")>> : n \in {"paths", "hw sequence", "boundary"}}
      \cup {<<OnDevice("loopback", 100000, 0, 8, 1, "target 0"), next0>> :
              next0 \in {OnDevice("paths", 1000000, 0, 8, 0, "target 0"), [name |-> "exchange"],
                         [name |-> "sequence"]}}

SpiTest == INSTANCE SpiTests WITH
    Clients <- {"main", "board", "worker 1", "worker 2"}, main <- "main", board <- "board",
    Workers <- {"worker 1", "worker 2"}, Items <- {"frequency", "mode", "bits", "order"},
    Values <- {0, 1, 2, 3, 8, 16, 100000, 400000, 1000000},
    Default <- [frequency |-> 400000, mode |-> 0, bits |-> 8, order |-> 0],
    Devs <- {"target 0"}, FakeTargets <- {"target 0", "target 1"}, Strange <- "none",
    Sessions <- SpiSessions, Clock <- 40000000, Highest <- 1000000000,
    BoundaryLengths <- <<1, 33>>, Iterations <- 2,
    lock <- testLock, refs <- testRefs, cache <- testCache, configError <- testConfigError,
    selected <- testSelected, selectionError <- testSelectionError, lastError <- testLastError,
    clock <- testClock, hw <- testHw, asserted <- testAsserted, mine <- testMine,
    asked <- testAsked, target <- testTarget,
    healthy <- spiHealthy, script <- spiScript, bad <- spiBad, fake <- spiFake

\* Every frequency that a source of 61 Hz and fields of 4 bits can make.
PwmFrequencies == 0 .. 31

ASSUME I2cAssumption == I2cConstantsOK
\* Accepted pins carry the signals they were configured for, whatever the
\* groups had before.
ASSUME PinsAssumption ==
    \A miso, mosi \in 0 .. 40, swap \in [0 .. 3 -> BOOLEAN] :
        PinsAccepted(miso, mosi) =>
            LET after == ConfigurePins(swap, miso, mosi) IN
            SignalAt(after, miso) = "MISO" /\ SignalAt(after, mosi) = "MOSI"

\* No divider comes closer to a frequency from below; 0 where none does.
ASSUME DividerAssumption ==
    \A hz \in {1, 78124, 78125, 78126, 100000, 399999, 400000, 1100000, 6666667, 20000000, 20000001} :
        LET below == {d \in 1 .. 256 : (20000000 + d - 1) \div d <= hz} IN
        SpiTest!ActualFrequency(hz) =
            IF below = {} THEN 0
            ELSE 40000000 \div (2 * CHOOSE d \in below : \A e \in below : d <= e)

ASSUME SpiTestAssumption == SpiTest!ConstantsOK
ASSUME PwmAssumption == PwmConstantsOK

i2cTestVars == <<config, script, bad, fake, reference, cells, pointer, cycle, healthy>>
spiTestVars == <<testLock, testRefs, testCache, testConfigError, testSelected, testSelectionError,
                 testLastError, testClock, testHw, testAsserted, testMine, testAsked, testTarget,
                 registered, spiHealthy, session, installed, errno, errors, spiScript, spiBad,
                 seen, current, chosen, spiFake, inject, base, reports, honest>>

\* Parts that are not used start in one state.
BusesInit ==
    /\ bus \in {"spi", "spi test", "i2c", "i2c test", "pwm"}
    /\ PwmInit /\ I2c!I2cTestInit
    /\ IF bus = "i2c test" THEN I2c!Registered
       ELSE I2cInit /\ config.name = "fake" /\ healthy = TRUE
    /\ Init
    /\ IF bus = "spi test" THEN SpiTest!SpiTestInit
       ELSE /\ SpiTest!Init
            /\ registered = FALSE /\ spiHealthy = FALSE /\ session = <<>> /\ installed = FALSE
            /\ errno = "OK" /\ errors = 0 /\ spiScript = <<>> /\ spiBad = {} /\ seen = <<>>
            /\ current = <<>> /\ chosen = {} /\ spiFake = <<>> /\ inject = <<>> /\ base = <<>>
            /\ reports = <<>> /\ honest = TRUE

SpiSteps == bus = "spi" /\ Next /\ UNCHANGED <<bus, spiTestVars, i2cVars, i2cTestVars, pwmVars>>
SpiTestSteps ==
    bus = "spi test" /\ SpiTest!SpiTestNext /\ UNCHANGED <<bus, vars, i2cVars, i2cTestVars, pwmVars>>
I2cSteps ==
    /\ bus = "i2c" /\ \E t \in Clients : Step(t)
    /\ UNCHANGED <<bus, vars, spiTestVars, i2cTestVars, pwmVars>>
I2cTestSteps ==
    bus = "i2c test" /\ I2c!I2cTestNext /\ UNCHANGED <<bus, vars, spiTestVars, pwmVars>>
PwmSteps ==
    bus = "pwm" /\ PwmNext /\ UNCHANGED <<bus, vars, spiTestVars, i2cVars, i2cTestVars>>

BusesSpec ==
    /\ BusesInit
    /\ [][SpiSteps \/ SpiTestSteps \/ I2cSteps \/ I2cTestSteps \/ PwmSteps]_
           <<bus, vars, spiTestVars, i2cVars, i2cTestVars, pwmVars>>

\* Types of the bus; the test programs of the buses pass, and what they say of
\* the EEPROM and of transfers on the controller is true.
TestsPass ==
    /\ TypeOK /\ I2cTypeOK /\ I2c!I2cTestPasses /\ I2c!EepromTold
    /\ bus = "spi test" => SpiTest!SpiTestPasses /\ SpiTest!SpiTestTold

ClientSymmetry == Permutations(Clients) \cup Permutations(Items) \cup Permutations(Devs)
                  \cup Permutations({p1, p2})
=============================================================================
