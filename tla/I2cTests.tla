------------------------------ MODULE I2cTests -------------------------------
(***************************************************************************)
(* The test program of the I2C buses,                                      *)
(* apps/mcu_peripheral_tests/i2c/i2c_test_main.c, as a client of one bus:  *)
(* its cases on a transport of its own and its cases on an EEPROM.  A case *)
(* is the sequence of its calls with what it expects of each.  A call      *)
(* belongs to a part of the case; when it fails, the rest of the part is   *)
(* left out.                                                               *)
(*                                                                         *)
(* The cases on two buses ("dual") repeat the concurrent ones on buses     *)
(* that share no state and are left out; an address has one byte.          *)
(***************************************************************************)
EXTENDS I2cBus, FiniteSets, SequencesExt

CONSTANTS
    main, Workers,  \* threads of the program
    Fast,           \* I2C_SPEED_FAST; DefaultFrequency is I2C_SPEED_STANDARD
    NoFrequency,    \* a frequency that is not supported
    Target, Other, Wide,    \* two addresses, and one of more than 7 bits
    Options,        \* command lines
    BoundaryLengths,
    Iterations,
    Space           \* what an address of the EEPROM reaches

VARIABLES
    config, script, bad,    \* the options, calls to come of each thread, parts that failed
    fake,           \* struct i2c_fake_state_s
    reference,      \* what a case has read to compare with or to restore
    cells, pointer, cycle,  \* the EEPROM: bytes, address counter, its write cycle
    healthy         \* transfers on the real bus do not fail

fakeVars == <<script, bad, fake, reference>>
eepromVars == <<cells, pointer, cycle>>
i2cTestVars == <<config, healthy, fakeVars, eepromVars>>

\* What i2c_parse_hw_options accepts.
Accepted(c) ==
    /\ c.length \in 1 .. MaxLength /\ c.page \in 1 .. MaxLength - 1
    /\ c.name # "probe" => c.offset + c.length <= Space
    /\ c.name = "eeprom" =>
         c.capacity \in 1 .. Space /\ c.offset + c.length <= c.capacity /\ c.page <= c.capacity
    /\ c.no_target => c.name = "probe"
-----------------------------------------------------------------------------
(* The calls of a case                                                     *)

Message(freq, flags, length, buffer) ==
    [addr |-> Target, freq |-> freq, flags |-> flags, length |-> length, buffer |-> buffer]

M(freq, flags, length) == Message(freq, flags, length, "buffer")

Op(part, do, arg) == [part |-> part, do |-> do, arg |-> arg]

\* What the transport of the test sees of a group.
Call(freq, ms) == [frequency |-> freq, msgs |-> [i \in DOMAIN ms |-> <<ms[i].flags, ms[i].length>>]]

\* A transfer with the results that the transport is to give, and the events
\* and calls it must see.
Fake(part, chained, results, errno, events, calls) ==
    Op(part, "fake", [chain |-> chained, configure |-> results[1], transfer |-> results[2],
                      status |-> results[3], ret |-> errno, events |-> events, calls |-> calls])

Passes(part, chained, calls) ==
    Fake(part, chained, <<"OK", "OK", NoStatus>>, "OK",
         FlattenSeq([i \in DOMAIN calls |-> <<"configure", "transfer">>]), calls)

i2c_fake_expect_rejected(part, chained, errno) ==
    <<Fake(part, chained, <<"OK", "OK", NoStatus>>, errno, <<>>, <<>>)>>

\* i2c_fake_begin and i2c_fake_end around a case
Installed(part, ops) ==
    <<Op(part, "install", TRUE)>> \o ops \o <<Op("end", "install", FALSE)>>

i2c_test_fake_flags ==
    LET w == M(DefaultFrequency, {}, 1)
        r == M(Fast, {"read"}, 4)
        p == M(Fast, {"nostop"}, 1)
    IN  Installed("flags",
            <<Passes("flags", <<w, r>>, <<Call(DefaultFrequency, <<w>>), Call(Fast, <<r>>)>>),
              Passes("flags", <<p, r>>, <<Call(Fast, <<p, r>>)>>)>>)

i2c_test_fake_boundary ==
    LET single(flags, n) ==
          LET m == M(DefaultFrequency, flags, n) IN <<Passes("boundary", <<m>>, <<Call(DefaultFrequency, <<m>>)>>)>>
        combined(n, k) ==
          LET c == <<M(Fast, {"nostop"}, n), M(Fast, {"read"}, k)>>
          IN  <<Passes("boundary", c, <<Call(Fast, c)>>)>>
    IN  Installed("boundary",
            single({}, 1) \o single({"read"}, 1) \o single({}, MaxLength)
              \o single({"read"}, MaxLength)
              \o combined(1, 1) \o combined(1, MaxLength)
              \o combined(MaxPrefix, 1) \o combined(MaxPrefix, MaxLength))

i2c_test_fake_invalid ==
    LET m == M(DefaultFrequency, {}, 1)
        p == M(DefaultFrequency, {"nostop"}, 1)
        r == M(DefaultFrequency, {"read"}, 1)
    IN  Installed("invalid",
            i2c_fake_expect_rejected("zero-count", <<>>, "EINVAL")
              \o i2c_fake_expect_rejected("frequency", <<[m EXCEPT !.freq = NoFrequency]>>, "EINVAL")
              \o i2c_fake_expect_rejected("address-128", <<[m EXCEPT !.addr = Wide]>>, "EINVAL")
              \o i2c_fake_expect_rejected("ten-bit", <<[m EXCEPT !.flags = {"ten"}]>>, "EOPNOTSUPP")
              \o i2c_fake_expect_rejected("nostart", <<[m EXCEPT !.flags = {"nostart"}]>>, "EOPNOTSUPP")
              \o i2c_fake_expect_rejected("unknown-flags", <<[m EXCEPT !.flags = {"unknown"}]>>, "EINVAL")
              \o i2c_fake_expect_rejected("zero-length", <<[m EXCEPT !.length = 0]>>, "EINVAL")
              \o i2c_fake_expect_rejected("oversize", <<[m EXCEPT !.length = MaxLength + 1]>>, "EINVAL")
              \o i2c_fake_expect_rejected("null-buffer", <<[m EXCEPT !.buffer = NoBuffer]>>, "EINVAL")
              \o i2c_fake_expect_rejected("terminal-nostop", <<p>>, "EOPNOTSUPP")
              \o i2c_fake_expect_rejected("prefix-17", <<[p EXCEPT !.length = MaxPrefix + 1], r>>, "EOPNOTSUPP")
              \o i2c_fake_expect_rejected("address-mismatch", <<p, [r EXCEPT !.addr = Other]>>, "EINVAL")
              \o i2c_fake_expect_rejected("frequency-mismatch", <<p, [r EXCEPT !.freq = Fast]>>, "EINVAL")
              \o i2c_fake_expect_rejected("three-phase", <<p, [r EXCEPT !.flags = {"read", "nostop"}], r>>,
                          "EOPNOTSUPP"))

i2c_test_fake_errors ==
    LET r == M(DefaultFrequency, {"read"}, 1)
        seen == <<Call(DefaultFrequency, <<r>>)>>
    IN  Installed("errors",
            <<Fake("errors", <<r>>, <<"ERANGE", "OK", "TIMEOUT">>, "ERANGE",
                   <<"configure", "status", "cleanup">>, <<>>),
              Fake("errors", <<r>>, <<"OK", "EIO", "NACK">>, "EIO",
                   <<"configure", "transfer", "status", "cleanup">>, seen),
              Passes("errors", <<r>>, seen)>>)

\* i2c_fake_worker
Again == [i \in 1 .. Iterations |-> Op("worker", "again", <<M(DefaultFrequency, {"read"}, 1)>>)]

i2c_test_fake_concurrent ==
    Installed("concurrent", <<Op("concurrent", "create", Again), Op("concurrent", "join", TRUE)>>)

i2c_run_fake ==
    i2c_test_fake_flags \o i2c_test_fake_boundary \o i2c_test_fake_invalid
      \o i2c_test_fake_errors \o i2c_test_fake_concurrent
-----------------------------------------------------------------------------
(* Cases on the EEPROM.  A read is compared with what "want" names.        *)

i2c_combined_read_fd(part, c, length, want) ==
    Op(part, "transfer",
       [chain |-> <<Message(c.freq, {"nostop"}, 1, <<c.offset>>),
                    Message(c.freq, {"read"}, length, "buffer")>>,
        want |-> want])

\* The bytes up to the end of a page.
Room(current, page) == page - (current % page)

\* Its chunks end with their page; one that does not fit the EEPROM is EFBIG.
i2c_eeprom_write_fd(part, c, from) ==
    LET least(S) == CHOOSE n \in S : \A m \in S : n <= m
        chunk(done) == least({c.length - done, Room(c.offset + done, c.page), MaxLength - 1})
        rest[done \in 0 .. c.length] ==
          IF done = c.length THEN <<>>
          ELSE LET write == [at |-> c.offset + done, first |-> done + 1, last |-> done + chunk(done),
                             from |-> from]
               IN  IF write.at + chunk(done) > c.capacity THEN <<Op(part, "EFBIG", write)>>
                   ELSE <<Op(part, "write", write), Op(part, "usleep", write)>>
                          \o rest[done + chunk(done)]
    IN  rest[0]

i2c_test_hw_probe(c) ==
    <<Op("probe", "transfer",
         [chain |-> <<Message(c.freq, IF c.no_target THEN {} ELSE {"read"}, 1, <<0>>)>>,
          want |-> IF c.no_target THEN "ETIMEDOUT" ELSE "any"])>>

i2c_test_hw_combined(c) == <<i2c_combined_read_fd("combined", c, c.length, "any")>>

i2c_test_hw_boundary(c) ==
    LET fits == SelectSeq(BoundaryLengths, LAMBDA n : n <= c.length)
    IN  [i \in DOMAIN fits |-> i2c_combined_read_fd("boundary", c, fits[i], "any")]

i2c_test_hw_eeprom(c) ==
    IF ~c.allow_write THEN <<Op("backup", "refuse", "--allow-write-required")>>
    ELSE <<i2c_combined_read_fd("backup", c, c.length, "keep")>>
           \o i2c_eeprom_write_fd("pattern", c, "pattern")
           \o <<i2c_combined_read_fd("pattern", c, c.length, "pattern")>>
           \o i2c_eeprom_write_fd("restore", c, "reference")
           \o <<i2c_combined_read_fd("restore", c, c.length, "reference")>>

\* i2c_hw_worker
i2c_hw_worker(c) ==
    [i \in 1 .. Iterations |-> i2c_combined_read_fd("worker", c, c.length, "reference")]

\* i2c_read_reference comes first.
i2c_test_hw_concurrent(c) ==
    <<i2c_combined_read_fd("concurrent", c, c.length, "keep"),
      Op("concurrent", "create", i2c_hw_worker(c)), Op("concurrent", "join", FALSE)>>

i2c_run_hw(c) ==
    CASE c.name = "probe" -> i2c_test_hw_probe(c)
      [] c.name = "combined" -> i2c_test_hw_combined(c)
      [] c.name = "boundary" -> i2c_test_hw_boundary(c)
      [] c.name = "eeprom" -> i2c_test_hw_eeprom(c)
      [] c.name = "concurrent" -> i2c_test_hw_concurrent(c)

Pattern(c) == [i \in 1 .. c.length |-> <<"pattern", c.offset + i - 1>>]

Reset(results) ==
    [configure |-> results[1], transfer |-> results[2], status |-> results[3],
     events |-> <<>>, calls |-> <<>>, active |-> 0, max_active |-> 0]

Original == [a \in 0 .. Space - 1 |-> <<"original", a>>]

\* The board has registered the bus.
I2cTestInit ==
    /\ config \in {c \in Options : c.name = "fake" \/ Accepted(c)}
    /\ script = [t \in {main} \cup Workers |->
                   IF t # main THEN <<>>
                   ELSE IF config.name = "fake" THEN i2c_run_fake ELSE i2c_run_hw(config)]
    /\ bad = {} /\ fake = Reset(<<"OK", "OK", NoStatus>>) /\ reference = <<>>
    /\ cells = Original /\ pointer = 0 /\ cycle = FALSE
    /\ healthy \in BOOLEAN

\* bl616cl_i2cbus_initialize by the board
Registered ==
    /\ i2cLock = NoThread /\ i2cRefs = 1 /\ pins \in Pins
    /\ test_ops = FALSE /\ last_status = NoStatus
    /\ i2cClock = TRUE /\ controller = DefaultFrequency /\ routed = pins
    /\ chain = <<>> /\ next = 1 /\ phase = "none" /\ ret = "OK"
    /\ i2cMine = [t \in Threads |-> IF t = main THEN 1 ELSE 0]
-----------------------------------------------------------------------------
(* Steps of the program                                                    *)

Skipped(part) == IF part = "backup" THEN {"backup", "pattern", "restore"} ELSE {part}

\* The call at hand has ended: well, or not.
Ended(t, well) ==
    LET op == Head(script[t])
    IN  /\ script' = [script EXCEPT ![t] = IF well THEN Tail(@)
                        ELSE SelectSeq(@, LAMBDA o : o.part \notin Skipped(op.part))]
        /\ bad' = IF well THEN bad ELSE bad \cup {op.part}

At(t, do) == script[t] # <<>> /\ Head(script[t]).do = do /\ i2cLock # t

Arg(t) == Head(script[t]).arg

InstallStep ==
    /\ At(main, "install")
    /\ Install(Arg(main))
    /\ fake' = Reset(<<"OK", "OK", NoStatus>>)
    /\ Ended(main, TRUE)
    /\ UNCHANGED <<config, healthy, reference, eepromVars>>

\* The transfer of a call
ChainOf(t) ==
    LET a == Arg(t)
    IN  CASE Head(script[t]).do = "again" -> a
          [] Head(script[t]).do \in {"fake", "transfer"} -> a.chain
          [] Head(script[t]).do = "write" ->
               LET all == IF a.from = "pattern" THEN Pattern(config) ELSE reference
               IN  <<Message(config.freq, {}, 2 + a.last - a.first,
                             <<a.at>> \o SubSeq(all, a.first, a.last))>>

\* i2c_fake_reset before it
BeginStep(t) ==
    /\ \E do \in {"fake", "again", "transfer", "write"} : At(t, do)
    /\ Begin(t, ChainOf(t))
    /\ fake' = IF At(t, "fake")
               THEN Reset(<<Arg(t).configure, Arg(t).transfer, Arg(t).status>>) ELSE fake
    /\ UNCHANGED <<config, healthy, script, bad, reference, eepromVars>>

\* One that is refused never reaches the transport.
RefusedStep(t) ==
    /\ \E do \in {"fake", "again", "transfer", "write"} : At(t, do)
    /\ Validate(ChainOf(t)) # "OK"
    /\ fake' = IF At(t, "fake") THEN Reset(<<"OK", "OK", NoStatus>>) ELSE fake
    /\ Ended(t, At(t, "fake") /\ Arg(t).ret = Validate(ChainOf(t)) /\ Arg(t).events = <<>>)
    /\ UNCHANGED <<i2cVars, config, healthy, reference, eepromVars>>

CreateStep ==
    /\ At(main, "create")
    /\ script' = [t \in {main} \cup Workers |-> IF t = main THEN Tail(script[t]) ELSE Arg(main)]
    /\ UNCHANGED <<i2cVars, config, healthy, bad, fake, reference, eepromVars>>

\* On the transport of the test, one transfer at a time and every one.
JoinStep ==
    /\ At(main, "join") /\ \A w \in Workers : script[w] = <<>>
    /\ Ended(main, /\ "worker" \notin bad
                   /\ Arg(main) => /\ fake.max_active = 1
                                   /\ Len(fake.calls) = Cardinality(Workers) * Iterations)
    /\ UNCHANGED <<i2cVars, config, healthy, fake, reference, eepromVars>>

\* usleep is longer than a write cycle.
UsleepStep ==
    /\ At(main, "usleep") /\ ~cycle
    /\ Ended(main, TRUE)
    /\ UNCHANGED <<i2cVars, config, healthy, fake, reference, eepromVars>>

FailsStep ==
    /\ \E do \in {"EFBIG", "refuse"} : At(main, do)
    /\ Ended(main, FALSE)
    /\ UNCHANGED <<i2cVars, config, healthy, fake, reference, eepromVars>>
-----------------------------------------------------------------------------
(* The transport of the test, i2c_fake_ops                                 *)

Saw(event) == [fake EXCEPT !.events = Append(@, event)]

\* What the case finds when its transfer has returned r.
Expected(t, r, f) ==
    \/ Head(script[t]).do = "again" /\ r = "OK"
    \/ /\ Head(script[t]).do = "fake"
       /\ r = Arg(t).ret /\ f.events = Arg(t).events /\ f.calls = Arg(t).calls
       /\ last_status = Arg(t).status

Keeps == UNCHANGED <<config, healthy, reference, eepromVars>>

FakeStep(t) ==
    /\ test_ops /\ i2cLock = t /\ Keeps
    /\ \/ Configure(t, fake.configure) /\ fake' = Saw("configure") /\ UNCHANGED <<script, bad>>
       \/ /\ Move(t)
          /\ fake' = [Saw("transfer") EXCEPT
                        !.calls = Append(@, Call(chain[next].freq, Group)),
                        !.active = @ + 1,
                        !.max_active = IF fake.active + 1 > @ THEN fake.active + 1 ELSE @]
          /\ UNCHANGED <<script, bad>>
       \/ /\ fake.transfer = "OK" /\ GroupMoved(t)
          /\ fake' = [fake EXCEPT !.active = @ - 1]
          /\ IF i2cLock' = t THEN UNCHANGED <<script, bad>> ELSE Ended(t, Expected(t, "OK", fake'))
       \/ /\ fake.transfer # "OK" /\ MoveFails(t, fake.transfer)
          /\ fake' = [fake EXCEPT !.active = @ - 1]
          /\ UNCHANGED <<script, bad>>
       \/ Status(t, fake.status) /\ fake' = Saw("status") /\ UNCHANGED <<script, bad>>
       \/ Cleanup(t) /\ fake' = Saw("cleanup") /\ Ended(t, Expected(t, ret, fake'))
-----------------------------------------------------------------------------
(* The EEPROM on the bus                                                   *)

Size == IF config.capacity = 0 THEN Space ELSE config.capacity

Acknowledges == ~config.no_target /\ ~cycle

\* A write that reaches the end of a page goes on at its start.
Written(at, bytes) ==
    LET cell(k) == ((at \div config.page) * config.page) + ((at + k - 1) % config.page)
    IN  [a \in DOMAIN cells |->
           LET ks == {k \in DOMAIN bytes : cell(k) = a}
           IN  IF ks = {} THEN cells[a] ELSE bytes[CHOOSE k \in ks : \A j \in ks : j <= k]]

ReadFrom(p, n) == [k \in 1 .. n |-> cells[(p + k - 1) % Size]]

LastMessage == Group[Len(Group)]

\* A prefix sets the address counter.
Start == IF NoStop(Group[1]) THEN Head(Group[1].buffer) ELSE pointer

Found(t, data) ==
    \/ Head(script[t]).do = "write"
    \/ /\ Head(script[t]).do = "transfer"
       /\ \/ Arg(t).want \in {"any", "keep"}
          \/ Arg(t).want = "pattern" /\ data = Pattern(config)
          \/ Arg(t).want = "reference" /\ data = reference

MovedStep(t) ==
    /\ Acknowledges /\ GroupMoved(t)
    /\ IF "read" \in LastMessage.flags
       THEN LET data == ReadFrom(Start, LastMessage.length)
            IN  /\ pointer' = (Start + LastMessage.length) % Size
                /\ UNCHANGED <<cells, cycle>>
                /\ reference' = IF Head(script[t]).do = "transfer" /\ Arg(t).want = "keep"
                                THEN data ELSE reference
                /\ IF i2cLock' = t THEN UNCHANGED <<script, bad>> ELSE Ended(t, Found(t, data))
       ELSE /\ cells' = Written(Head(LastMessage.buffer), Tail(LastMessage.buffer))
            /\ pointer' = Start /\ cycle' = (Tail(LastMessage.buffer) # <<>>)
            /\ UNCHANGED reference
            /\ IF i2cLock' = t THEN UNCHANGED <<script, bad>> ELSE Ended(t, Found(t, <<>>))

\* Of a write that fails on the way, some bytes may be stored.
MoveFailsStep(t) ==
    /\ \/ ~Acknowledges /\ MoveFails(t, "LHAL ETIMEDOUT") /\ UNCHANGED eepromVars
       \/ /\ Acknowledges /\ ~healthy
          /\ MoveFails(t, "LHAL ETIMEDOUT") \/ MoveFails(t, "EIO")
          /\ \/ UNCHANGED eepromVars
             \/ /\ "read" \notin LastMessage.flags
                /\ \E n \in 1 .. Len(LastMessage.buffer) - 1 :
                     cells' = Written(Head(LastMessage.buffer), SubSeq(Tail(LastMessage.buffer), 1, n))
                /\ cycle' = TRUE /\ UNCHANGED pointer
    /\ UNCHANGED <<script, bad, reference>>

RealStep(t) ==
    /\ ~test_ops /\ i2cLock = t /\ UNCHANGED <<config, healthy, fake>>
    /\ \/ /\ Configure(t, "OK") \/ Move(t) \/ \E s \in Statuses : Status(t, s)
          /\ UNCHANGED <<script, bad, reference, eepromVars>>
       \/ MovedStep(t) \/ MoveFailsStep(t)
       \/ /\ Cleanup(t)
          /\ Ended(t, Head(script[t]).do = "transfer" /\ Arg(t).want = ret)
          /\ UNCHANGED <<reference, eepromVars>>

CycleEnds ==
    /\ cycle /\ cycle' = FALSE
    /\ UNCHANGED <<i2cVars, config, healthy, fakeVars, cells, pointer>>

I2cTestNext ==
    \/ InstallStep \/ CreateStep \/ JoinStep \/ UsleepStep \/ FailsStep \/ CycleEnds
    \/ \E t \in {main} \cup Workers : BeginStep(t) \/ RefusedStep(t) \/ FakeStep(t) \/ RealStep(t)
-----------------------------------------------------------------------------
(* Properties                                                              *)

Over == \A t \in {main} \cup Workers : script[t] = <<>>

\* On a bus whose transfers do not fail every case passes; only the EEPROM is
\* not written without leave.
I2cTestPasses ==
    bad # {} => ~healthy \/ (config.name = "eeprom" /\ ~config.allow_write)

\* What the EEPROM case says of the EEPROM is true, whatever transfers fail:
\* unless it says that the restore failed, every byte is the one it found.
EepromTold == config.name = "eeprom" /\ Over /\ "restore" \notin bad => cells = Original
=============================================================================
