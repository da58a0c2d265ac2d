------------------------------ MODULE SpiTests ------------------------------
(***************************************************************************)
(* The test program of the SPI bus,                                        *)
(* apps/mcu_peripheral_tests/spi/spi_test_main.c, as a client of SpiBus:   *)
(* its cases on a transport of its own, which replaces the controller and  *)
(* the chip selects, and its cases on the controller with MOSI tied to     *)
(* MISO.  A case is the sequence of its calls and of what it expects then; *)
(* at the first thing it does not find the case goes to its end.           *)
(*                                                                         *)
(* "dual" repeats the worker of "concurrent" on two buses that share no    *)
(* state and is left out, as are calls with ports that do not exist.       *)
(***************************************************************************)
EXTENDS SpiBus, Integers, FiniteSets, SequencesExt

CONSTANTS
    main, board, Workers,   \* threads of the program, and the board's bring-up
    FakeTargets,            \* SPI_TEST_TARGET0 and _TARGET1
    Sessions,               \* command lines, as typed one after the other
    Clock,                  \* the source of the divider
    Highest,                \* a frequency as high as UINT32_MAX
    BoundaryLengths, Iterations

\* An order is 1 for LSB first.
ConstantsOK ==
    /\ Items = {"frequency", "mode", "bits", "order"}
    /\ Clients = {main, board} \cup Workers
    /\ Default = [i \in Items |-> CASE i = "frequency" -> 400000 [] i = "bits" -> 8 [] OTHER -> 0]

VARIABLES
    registered, healthy,    \* the board has the bus; the controller does not fail
    session,                \* the command lines of this behaviour
    installed,              \* test_ops # NULL
    errno, errors,          \* last_error and error_count
    script, bad,            \* calls to come of each thread, cases that failed
    seen,                   \* of each thread: what its last calls returned and received
    current, chosen,        \* struct spi_fake_state_s: what it was set to, its selects,
    fake, inject, base,     \* its counts, the results it is to give, the counts before
    reports, honest         \* what was printed; real exchanges went as they were asked to

progVars == <<registered, healthy, session>>
fakeRegs == <<current, chosen>>
fakeVars == <<fakeRegs, fake, inject, base>>
testVars == <<progVars, installed, errno, errors, script, bad, seen, fakeVars, reports, honest>>

\* The driver with the transport of the test in place of the controller.
Fake == INSTANCE SpiBus WITH hw <- current, asserted <- chosen, Devs <- FakeTargets
-----------------------------------------------------------------------------
(* Frequencies                                                             *)

\* bl616cl_spi_actual_frequency: the divider has 8 bits and divides by twice
\* its value plus one; 0 is a frequency that is too low.
ActualFrequency(hz) ==
    IF hz < (Clock + 511) \div 512 THEN 0
    ELSE LET up == (Clock + 2 * hz - 1) \div (2 * hz) IN
         Clock \div (2 * (IF up > 256 THEN 256 ELSE up))

\* What the driver refuses without a word to the transport.
Refusal(i, v) ==
    CASE i = "frequency" /\ v = 0 -> "EINVAL"
      [] i = "frequency" /\ v # 0 -> IF ActualFrequency(v) = 0 THEN "EIO" ELSE "OK"
      [] i = "mode" -> IF v \in 0 .. 3 THEN "OK" ELSE "EINVAL"
      [] i = "bits" -> IF v \in {8, 16} THEN "OK" ELSE "EINVAL"
      [] OTHER -> "OK"

Speed(hz) == IF hz = 0 \/ ActualFrequency(hz) < 1000000 THEN "slow" ELSE "fast"
-----------------------------------------------------------------------------
(* The calls of a case                                                     *)

Op(part, do, arg) == [part |-> part, do |-> do, arg |-> arg]
Set(part, i, v) == Op(part, "set", <<i, v>>)
Move(part, words, tx, rx) ==
    Op(part, "exchange", [words |-> words, tx |-> tx, rx |-> rx, aligned |-> TRUE])
Want(part, what) == Op(part, "expect", what)
Accepted(part, i, v) == <<Set(part, i, v), Want(part, [ret |-> "OK"])>>

\* The counts that follow are counted from here, and what is received.
spi_fake_snapshot(part) == Op(part, "snapshot", TRUE)
Received(part, words, nbytes) ==
    <<Op(part, "clear", TRUE), Move(part, words, TRUE, TRUE),
      Want(part, [data |-> {"echo"}, nbytes |-> nbytes])>>

\* The upper half (nuttx/spi/spi_transfer.h): a failing hwfeatures ends the
\* loop.  c gives the settings and the device, trans what each part is.
spi_transfer(part, c, trans) ==
    <<Op(part, "lock", TRUE), Set(part, "frequency", c.frequency), Set(part, "mode", c.mode),
      Set(part, "bits", c.bits), Op(part, "select", c.target)>>
      \o FlattenSeq([k \in DOMAIN trans |->
           <<Op("transfer", "select", c.target), Set("transfer", "order", c.order),
             Want("transfer", [ret |-> "OK"]),
             Move("transfer", trans[k].words, trans[k].tx, trans[k].rx)>>
           \o (IF trans[k].deselect THEN <<Op("transfer", "deselect", c.target)>> ELSE <<>>)])
      \o <<Op(part, "deselect", c.target), Op(part, "unlock", TRUE), Want(part, [ret |-> "OK"])>>

Trans(words, tx, rx, deselect) == [words |-> words, tx |-> tx, rx |-> rx, deselect |-> deselect]

Settings(name, frequency, mode, bits, order, device, length) ==
    [name |-> name, frequency |-> frequency, mode |-> mode, bits |-> bits, order |-> order,
     target |-> device, length |-> length]

Target0 == CHOOSE d \in FakeTargets : TRUE
Target1 == CHOOSE d \in FakeTargets : d # Target0

spi_fake_lifecycle(owned) ==
    LET p == "lifecycle" IN
    <<Op(p, IF owned THEN "initialize" ELSE "addref", TRUE), Op(p, "uninitialize", TRUE),
      Want(p, [mode |-> 0, bits |-> 8]),
      Op(p, "install", FALSE), Op(p, "install", TRUE)>>

spi_fake_config ==
    LET p == "config"
        x == <<Move(p, 1, FALSE, FALSE)>>
        hz(v) == Accepted(p, "frequency", v)
    IN  FlattenSeq([m \in 1 .. 4 |-> <<Set(p, "mode", m - 1)>> \o x])
          \o <<Set(p, "bits", 8)>> \o x \o <<Set(p, "bits", 16)>> \o x
          \o hz(100000) \o x \o hz(1000000) \o x \o hz(1100000) \o x
          \o <<Set(p, "frequency", 1), Want(p, [ret |-> "EIO", error |-> "EIO"])>>
          \o hz(Highest)
          \o <<Set(p, "frequency", 0), Want(p, [ret |-> "EINVAL", error |-> "EINVAL"])>>
          \o hz(400000)
          \o <<Op(p, "inject", [feature |-> "EIO", exchange |-> "OK"]), spi_fake_snapshot(p),
               Set(p, "mode", 1)>> \o x
          \o <<Want(p, [error |-> "EIO", exchanges |-> 0]),
               Op(p, "inject", [feature |-> "OK", exchange |-> "OK"]), Set(p, "mode", 1)>>
          \o Accepted(p, "order", 1) \o x \o Accepted(p, "order", 0) \o x
          \o <<Set(p, "mode", 4), Set(p, "bits", 0), Set(p, "bits", 7), Set(p, "bits", 24),
               Set(p, "bits", 32), Want(p, [error |-> "EINVAL", mode |-> 1, bits |-> 16]),
               Set(p, "mode", 1), Set(p, "bits", 16),
               Want(p, [modes |-> 0 .. 3, widths |-> {8, 16}, speeds |-> {"slow", "fast"},
                        orders |-> {0, 1}])>>

spi_fake_exchange_case ==
    LET p == "exchange" IN
    <<Set(p, "mode", 0), Set(p, "bits", 8), spi_fake_snapshot(p), Move(p, 0, TRUE, TRUE),
      Want(p, [exchanges |-> 0])>>
      \o FlattenSeq([k \in 1 .. 5 |-> LET n == <<1, 31, 32, 33, 128>>[k] IN Received(p, n, n)])
      \o <<Move(p, 128, TRUE, FALSE), Op(p, "clear", TRUE), Move(p, 128, FALSE, TRUE),
           Want(p, [data |-> {"ones"}]), Move(p, 1, FALSE, FALSE), Set(p, "bits", 16)>>
      \o Received(p, 4, 8) \o Received(p, 1, 2)
      \o <<spi_fake_snapshot(p),
           Op(p, "exchange", [words |-> 1, tx |-> TRUE, rx |-> TRUE, aligned |-> FALSE]),
           Want(p, [error |-> "EINVAL", exchanges |-> 0]),
           Set(p, "bits", 8), Move(p, 1, TRUE, TRUE), Want(p, [error |-> "OK"])>>

\* The first part keeps the select, or gives it up.
TwoParts(release) == <<Trans(1, TRUE, TRUE, release), Trans(1, TRUE, TRUE, TRUE)>>

spi_fake_sequence ==
    LET p == "sequence"
        with(d) == Settings(p, 400000, 0, 8, 0, d, 1)
        pass(release, n) ==
          <<spi_fake_snapshot(p), Op(p, "clear", TRUE)>>
            \o spi_transfer(p, with(Target0), TwoParts(release))
            \o <<Want(p, [data |-> {"echo"}, error |-> "OK", selects |-> 3, deselects |-> n])>>
    IN  pass(FALSE, 2) \o pass(TRUE, 3)
          \o <<spi_fake_snapshot(p), Op(p, "select", Target1), Op(p, "select", Target1),
               Op(p, "deselect", Target1), Op(p, "deselect", Target1),
               Want(p, [selects |-> 2, deselects |-> 2, last |-> Target1, dropped |-> Target1]),
               spi_fake_snapshot(p)>>
          \o spi_transfer(p, with(Strange), TwoParts(FALSE))
          \o <<Want(p, [exchanges |-> 0, rejected |-> 3, error |-> "ENODEV"]),
               Op(p, "select", Target0), Op(p, "deselect", Target0)>>

\* LHAL counts its errors otherwise than the system.
Normal(e) == IF e = "LHAL ETIMEDOUT" THEN "ETIMEDOUT" ELSE e

spi_fake_errors ==
    LET p == "errors"
        one(e) ==
          <<spi_fake_snapshot(p), Op(p, "inject", [feature |-> "OK", exchange |-> e]),
            Move(p, 1, TRUE, TRUE), Want(p, [error |-> Normal(e), errors |-> 1, recoveries |-> 1]),
            Op(p, "inject", [feature |-> "OK", exchange |-> "OK"])>>
            \o Received(p, 1, 1) \o <<Want(p, [error |-> "OK"])>>
    IN  <<Set(p, "bits", 8)>> \o one("LHAL ETIMEDOUT") \o one("EIO")

\* Thread 1 asks for mode 0, 8 bits and 100 kHz, thread 2 for the others.
spi_fake_worker(id) ==
    LET p == "worker" IN
    FlattenSeq([k \in 1 .. Iterations |->
        <<Op(p, "lock", TRUE), Set(p, "mode", IF id = 1 THEN 0 ELSE 3),
          Set(p, "bits", IF id = 1 THEN 8 ELSE 16)>>
        \o Accepted(p, "frequency", IF id = 1 THEN 100000 ELSE 1000000)
        \o <<Op(p, "clear", TRUE), Move(p, IF id = 1 THEN 16 ELSE 8, TRUE, TRUE),
             Op(p, "unlock", TRUE), Want(p, [data |-> {"echo"}, nbytes |-> 16])>>])

spi_fake_concurrent ==
    LET p == "concurrent" IN
    <<Op(p, "create", TRUE), Op(p, "join", TRUE),
      Want(p, [most |-> 1, modes |-> {0, 3}, widths |-> {8, 16}, speeds |-> {"slow", "fast"}])>>

spi_run_fake(name) ==
    LET owned == ~registered
        case(p, ops) ==
          IF name \in {p, "all"} THEN <<Op(p, "reset", TRUE)>> \o ops \o <<Op(p, "report", p)>>
          ELSE <<>>
    IN  (IF owned THEN <<Op("fake", "initialize", TRUE)>> ELSE <<>>)
          \o <<Op("fake", "install", TRUE)>>
          \o case("lifecycle", spi_fake_lifecycle(owned)) \o case("config", spi_fake_config)
          \o case("exchange", spi_fake_exchange_case) \o case("sequence", spi_fake_sequence)
          \o case("errors", spi_fake_errors) \o case("concurrent", spi_fake_concurrent)
          \o <<Op("end", "install", FALSE)>>
          \o (IF owned THEN <<Op("end", "uninitialize", TRUE)>> ELSE <<>>)

\* One transfer on the device, with what must come back.
Transferred(c, tx, rx) ==
    <<Op(c.name, "clear", TRUE)>> \o spi_transfer(c.name, c, <<Trans(c.length, tx, rx, TRUE)>>)
      \o <<Want(c.name, [error |-> "OK"])>>

spi_hw_loopback(c) == Transferred(c, TRUE, TRUE) \o <<Want(c.name, [data |-> {"echo"}])>>

spi_hw_paths(c) ==
    spi_hw_loopback(c) \o Transferred(c, TRUE, FALSE)
      \o Transferred(c, FALSE, TRUE) \o <<Want(c.name, [data |-> {"ones"}])>>

spi_hw_sequence(c) ==
    FlattenSeq([k \in 1 .. 2 |->
        <<Op(c.name, "clear", TRUE)>> \o spi_transfer(c.name, c, TwoParts(k = 2))
          \o <<Want(c.name, [error |-> "OK"]), Want(c.name, [data |-> {"echo"}])>>])

spi_hw_boundary(c) ==
    FlattenSeq([m \in 1 .. 4 |-> FlattenSeq([w \in 1 .. 2 |->
        FlattenSeq([k \in DOMAIN BoundaryLengths |->
            spi_hw_loopback([c EXCEPT !.mode = m - 1, !.bits = 8 * w,
                                      !.length = BoundaryLengths[k]])])])])

\* main, with the options of a command line
Command(c) ==
    CASE c.name = "loopback" -> spi_hw_loopback(c) \o <<Op("end", "close", TRUE)>>
      [] c.name = "paths" -> spi_hw_paths(c) \o <<Op("end", "close", TRUE)>>
      [] c.name = "hw sequence" -> spi_hw_sequence(c) \o <<Op("end", "close", TRUE)>>
      [] c.name = "boundary" -> spi_hw_boundary(c) \o <<Op("end", "close", TRUE)>>
      [] OTHER -> spi_run_fake(c.name)

OnDevice(c) == c.name \in {"loopback", "paths", "hw sequence", "boundary"}
-----------------------------------------------------------------------------
NoCounts ==
    [features |-> 0, exchanges |-> 0, recoveries |-> 0, selects |-> 0, deselects |-> 0,
     rejected |-> 0, active |-> 0, most |-> 0, modes |-> {}, widths |-> {}, orders |-> {},
     speeds |-> {}, last |-> NoDev, dropped |-> NoDev, nbytes |-> 0]

NothingSeen == [ret |-> "OK", data |-> {}]

\* A bus that the board has registered is up; the program asks for one, if
\* the board has none, in the cases on its transport only.
SpiTestInit ==
    /\ registered \in BOOLEAN /\ healthy \in BOOLEAN
    /\ lock = NoClient /\ lastError = FALSE
    /\ mine = [t \in Clients |-> IF t = board /\ registered THEN 1 ELSE 0]
    /\ refs = mine[board]
    /\ clock = registered /\ hw = IF registered THEN Default ELSE Nothing
    /\ cache = Default /\ configError = {}
    /\ selected = NoDev /\ selectionError = FALSE /\ asserted = {}
    /\ asked = Nothing /\ target = NoDev
    /\ installed = FALSE /\ errno = "OK" /\ errors = 0
    /\ session \in Sessions
    /\ (\E k \in DOMAIN session : OnDevice(session[k])) => registered
    /\ script = [t \in Clients |->
         IF t = main THEN FlattenSeq([k \in DOMAIN session |-> Command(session[k])]) ELSE <<>>]
    /\ bad = {} /\ seen = [t \in Clients |-> NothingSeen]
    /\ current = [i \in Items |-> 0] /\ chosen = {}
    /\ fake = NoCounts /\ base = [counts |-> NoCounts, errors |-> 0]
    /\ inject = [feature |-> "OK", exchange |-> "OK"]
    /\ reports = <<>> /\ honest = TRUE
-----------------------------------------------------------------------------
(* The steps.  Each begins with the call that a thread has come to.        *)

At(t, do) == script[t] # <<>> /\ Head(script[t]).do = do
Arg(t) == Head(script[t]).arg
Done(t) == script' = [script EXCEPT ![t] = Tail(@)]
Returns(t, r) == seen' = [seen EXCEPT ![t].ret = r]

\* A success that clears last_error, and a failure.
Cleared == errno' = (IF lastError' THEN errno ELSE "OK") /\ UNCHANGED errors
Failed(e) == errno' = e /\ errors' = errors + 1

\* The transport of the test counts what it is called for.
Counted(f) == [fake EXCEPT ![f] = @ + 1]
OnReal == ~installed /\ UNCHANGED <<fakeRegs, fake>>
OnFake == installed /\ UNCHANGED <<hw, asserted>>
CaseVars == <<progVars, installed, inject, base, reports>>

SetStep(t) ==
    /\ At(t, "set") /\ Done(t)
    /\ UNCHANGED <<CaseVars, bad, honest>>
    /\ LET i == Arg(t)[1]  v == Arg(t)[2] IN
       \/ /\ Refusal(i, v) # "OK"
          /\ UNCHANGED <<hw, fakeRegs, fake>> /\ NotWritten(i, v)
          /\ Failed(Refusal(i, v)) /\ Returns(t, Refusal(i, v))
       \/ /\ Refusal(i, v) = "OK" /\ LeftAlone(i, v)
          /\ UNCHANGED <<errno, errors, fakeRegs, fake>> /\ Returns(t, "OK")
       \/ /\ Refusal(i, v) = "OK" /\ OnReal
          /\ \/ Written(i, v) /\ Cleared /\ Returns(t, "OK")
             \/ ~healthy /\ NotWritten(i, v) /\ Failed("EIO") /\ Returns(t, "EIO")
       \/ /\ Refusal(i, v) = "OK" /\ OnFake
          /\ fake' = Counted("features")
          /\ IF inject.feature = "OK"
             THEN Fake!Written(i, v) /\ Cleared
             ELSE Fake!NotWritten(i, v) /\ current' = [current EXCEPT ![i] = v]
                  /\ Failed(inject.feature)
          /\ Returns(t, inject.feature) /\ UNCHANGED chosen

SelectStep(t) ==
    /\ At(t, "select") /\ Done(t)
    /\ LET d == Arg(t) IN
       \/ OnReal /\ Chosen(d) /\ (IF Accepts(d) THEN UNCHANGED <<errno, errors>> ELSE Failed("ENODEV"))
       \/ /\ OnFake /\ Fake!Chosen(d) /\ UNCHANGED current
          /\ LET others == IF DeselectFirst(d)
                           THEN [fake EXCEPT !.deselects = @ + 1, !.dropped = selected]
                           ELSE fake
             IN  IF Fake!Accepts(d)
                 THEN /\ fake' = [others EXCEPT !.selects = @ + 1, !.last = d]
                      /\ UNCHANGED <<errno, errors>>
                 ELSE fake' = [others EXCEPT !.rejected = @ + 1] /\ Failed("ENODEV")
    /\ UNCHANGED <<CaseVars, bad, seen, honest>>

DeselectStep(t) ==
    /\ At(t, "deselect") /\ Done(t)
    /\ \/ OnReal /\ Dropped(Arg(t))
       \/ /\ OnFake /\ Fake!Dropped(Arg(t)) /\ UNCHANGED current
          /\ fake' = [fake EXCEPT !.deselects = @ + 1, !.dropped = Arg(t)]
    /\ UNCHANGED <<CaseVars, errno, errors, bad, seen, honest>>

\* What the controller has is what the holder of the bus asked for.
AsRequested ==
    /\ \A i \in {"mode", "bits", "order"} : hw[i] = asked[i]
    /\ hw["frequency"] # Unknown
    /\ ActualFrequency(hw["frequency"]) <= asked["frequency"]
    /\ asserted = {target}

\* The guards of bl616cl_spi_exchange, then the transport is called.
ExchangeStep(t) ==
    /\ At(t, "exchange")
    /\ LET x == Arg(t)
           width == cache["bits"]
           old == IF x.rx THEN [seen EXCEPT ![t].data = @ \cup {"old"}] ELSE seen
           begun == script' = [script EXCEPT ![t] = <<Op(Head(@).part, "moving", x)>> \o Tail(@)]
       IN
       \/ /\ x.words = 0 \/ Suppressed
          /\ Done(t) /\ seen' = old
          /\ UNCHANGED <<vars, errno, errors, fakeRegs, fake, honest>>
       \/ /\ x.words > 0 /\ width = 16 /\ ~x.aligned
          /\ NotMoved /\ Failed("EINVAL") /\ Done(t) /\ seen' = old
          /\ UNCHANGED <<fakeRegs, fake, honest>>
       \/ /\ x.words > 0 /\ (x.aligned \/ width = 8) /\ ~Suppressed /\ begun
          /\ IF installed
             THEN /\ fake' = [fake EXCEPT
                       !.exchanges = @ + 1, !.active = @ + 1,
                       !.most = IF fake.active + 1 > @ THEN fake.active + 1 ELSE @,
                       !.modes = @ \cup {current["mode"]},
                       !.widths = @ \cup {IF current["bits"] = 16 THEN 16 ELSE 8},
                       !.orders = @ \cup {current["order"]},
                       !.speeds = @ \cup {Speed(current["frequency"])},
                       !.nbytes = x.words * (width \div 8)]
                  /\ UNCHANGED honest
             ELSE honest' = (honest /\ AsRequested) /\ UNCHANGED fake
          /\ UNCHANGED <<vars, errno, errors, fakeRegs, seen>>
    /\ UNCHANGED <<CaseVars, bad>>

\* The words have moved: the same come back, or ones where none were sent.
MovingStep(t) ==
    /\ At(t, "moving") /\ Done(t)
    /\ LET x == Arg(t)
           got == [seen EXCEPT ![t].data = IF x.rx THEN @ \cup {IF x.tx THEN "echo" ELSE "ones"} ELSE @]
           half == IF x.rx THEN [seen EXCEPT ![t].data = @ \cup {"old"}] ELSE seen
       IN
       \/ /\ OnReal /\ Moved /\ Cleared /\ seen' = got
       \/ /\ OnReal /\ ~healthy /\ MoveFailed /\ Failed("EIO") /\ seen' = half
       \/ /\ OnFake /\ inject.exchange = "OK"
          /\ Fake!Moved /\ Cleared /\ seen' = got
          /\ fake' = [fake EXCEPT !.active = @ - 1] /\ UNCHANGED fakeRegs
       \/ /\ OnFake /\ inject.exchange # "OK"
          /\ Fake!NotMoved /\ Failed(Normal(inject.exchange)) /\ seen' = half
          /\ fake' = [fake EXCEPT !.active = @ - 1, !.recoveries = @ + 1] /\ UNCHANGED fakeRegs
    /\ UNCHANGED <<CaseVars, bad, honest>>

LockStep(t) ==
    /\ At(t, "lock") /\ Taken(t) /\ Done(t)
    /\ UNCHANGED <<CaseVars, errno, errors, bad, seen, fakeRegs, fake, honest>>

UnlockStep(t) ==
    /\ At(t, "unlock") /\ Unlock(t) /\ Done(t)
    /\ UNCHANGED <<CaseVars, errno, errors, bad, seen, fakeRegs, fake, honest>>
-----------------------------------------------------------------------------
\* bl616cl_spi_test_initialize, bl616cl_spi_test_addref and the release of a
\* reference
InitializeStep(t) ==
    /\ At(t, "initialize") /\ Initialize(t) /\ Done(t)
    /\ IF refs = 0 THEN errno' = "OK" /\ errors' = 0 ELSE UNCHANGED <<errno, errors>>
    /\ UNCHANGED <<CaseVars, bad, seen, fakeRegs, fake, honest>>

AddrefStep(t) ==
    /\ At(t, "addref") /\ refs > 0 /\ Initialize(t) /\ Done(t)
    /\ UNCHANGED <<CaseVars, errno, errors, bad, seen, fakeRegs, fake, honest>>

UninitializeStep(t) ==
    /\ At(t, "uninitialize") /\ Uninitialize(t) /\ Done(t)
    /\ installed' = (installed /\ ~LastReference)
    /\ UNCHANGED <<progVars, inject, base, reports, errno, errors, bad, seen, fakeRegs, fake, honest>>

\* bl616cl_spi_test_install swaps the transport and nothing else.
InstallStep(t) ==
    /\ At(t, "install") /\ lock = NoClient /\ refs > 0 /\ Done(t)
    /\ installed' = Arg(t)
    /\ UNCHANGED <<vars, progVars, inject, base, reports, errno, errors, bad, seen, fakeRegs, fake, honest>>

\* What the program does by itself.
OwnStep(t) ==
    /\ \/ At(t, "inject") /\ inject' = Arg(t) /\ UNCHANGED <<fake, base, seen, reports>>
       \/ /\ At(t, "reset") /\ fake' = NoCounts
          /\ base' = [counts |-> NoCounts, errors |-> errors] /\ UNCHANGED <<inject, seen, reports>>
       \/ /\ At(t, "snapshot") /\ base' = [counts |-> fake, errors |-> errors]
          /\ UNCHANGED <<inject, fake, seen, reports>>
       \/ /\ At(t, "clear") /\ seen' = [seen EXCEPT ![t].data = {}]
          /\ UNCHANGED <<inject, fake, base, reports>>
       \/ /\ At(t, "report")
          /\ reports' = Append(reports, <<Arg(t), fake.features, fake.exchanges, fake.recoveries>>)
          /\ UNCHANGED <<inject, fake, base, seen>>
       \/ At(t, "close") /\ UNCHANGED <<inject, fake, base, seen, reports>>
    /\ Done(t)
    /\ UNCHANGED <<vars, progVars, installed, errno, errors, bad, fakeRegs, honest>>

\* Both workers are let go together, and main waits for them.
WorkersStep ==
    /\ \/ /\ At(main, "create")
          /\ LET first == CHOOSE w \in Workers : TRUE IN
             script' = [t \in Clients |->
               IF t = main THEN Tail(script[main])
               ELSE IF t \in Workers THEN spi_fake_worker(IF t = first THEN 1 ELSE 2) ELSE <<>>]
       \/ At(main, "join") /\ (\A w \in Workers : script[w] = <<>>) /\ Done(main)
    /\ UNCHANGED <<vars, CaseVars, errno, errors, bad, seen, fakeRegs, fake, honest>>

\* What a case can look at.
Observed(t, f) ==
    CASE f \in {"ret", "data"} -> seen[t][f]
      [] f = "error" -> errno
      [] f = "errors" -> errors - base.errors
      [] f \in {"mode", "bits"} -> cache[f]
      [] f \in {"most", "modes", "widths", "orders", "speeds", "last", "dropped", "nbytes"} -> fake[f]
      [] OTHER -> fake[f] - base.counts[f]

\* A failing transfer leaves its loop, a failing case goes to its end; a
\* worker unlocks before it returns.
Rest(t, part) ==
    LET s == Tail(script[t])
        k == IF part = "transfer" THEN SelectInSeq(s, LAMBDA op : op.part # "transfer")
             ELSE SelectInSeq(s, LAMBDA op : op.part = "end")
        rest == IF k = 0 THEN <<>> ELSE SubSeq(s, k, Len(s))
    IN  IF lock = t /\ part # "transfer" THEN <<Op("end", "unlock", TRUE)>> \o rest ELSE rest

ExpectStep(t) ==
    /\ At(t, "expect")
    /\ IF \A f \in DOMAIN Arg(t) : Observed(t, f) = Arg(t)[f]
       THEN Done(t) /\ UNCHANGED bad
       ELSE LET part == Head(script[t]).part IN
            /\ script' = [script EXCEPT ![t] = Rest(t, part)]
            /\ bad' = IF part = "transfer" THEN bad ELSE bad \cup {part}
    /\ UNCHANGED <<vars, CaseVars, errno, errors, seen, fakeRegs, fake, honest>>

Calls(t) ==
    \/ SetStep(t) \/ SelectStep(t) \/ DeselectStep(t) \/ ExchangeStep(t) \/ MovingStep(t)
    \/ LockStep(t) \/ UnlockStep(t)
    \/ InitializeStep(t) \/ AddrefStep(t) \/ UninitializeStep(t) \/ InstallStep(t)
    \/ OwnStep(t) \/ ExpectStep(t)

SpiTestNext == WorkersStep \/ \E t \in {main} \cup Workers : Calls(t)

SpiTestSpec == SpiTestInit /\ [][SpiTestNext]_<<vars, testVars>>
-----------------------------------------------------------------------------
(* Properties                                                              *)

Ended == \A t \in Clients : script[t] = <<>>

\* What README.md of the program reports of "fake all" (lines 315-321); the
\* features of "concurrent" depend on how its workers take turns.
Measured(case) ==
    CASE case = "lifecycle" -> <<0, 0, 0>>
      [] case = "config" -> <<15, 11, 0>>
      [] case = "exchange" -> <<4, 11, 0>>
      [] case = "sequence" -> <<0, 4, 0>>
      [] case = "errors" -> <<0, 4, 2>>

\* The board has the device, and the divider reaches the frequency.
Possible(c) == OnDevice(c) => c.target \in Devs /\ ActualFrequency(c.frequency) > 0

\* On a controller that does not fail, every case passes that asks for what
\* is possible, and no other; a run of all cases counts what was measured.
SpiTestPasses ==
    /\ healthy /\ Ended => (bad = {} <=> \A k \in DOMAIN session : Possible(session[k]))
    /\ Len(reports) = 6 =>
         /\ \A k \in 1 .. 5 : <<reports[k][2], reports[k][3], reports[k][4]>> = Measured(reports[k][1])
         /\ reports[6][3] = 2 * Iterations

\* When a command on the device says PASS, all its words moved with the
\* settings, at no more than the frequency and with the device it was given,
\* whatever failed on the way.
SpiTestTold == Ended /\ bad = {} => honest

\* Words of the device move with the settings of the command line ("hw
\* loopback" in README.md of the program, lines 358-361).
MovesAsGiven == honest
=============================================================================
