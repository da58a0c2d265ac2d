------------------------------ MODULE UartTests ------------------------------
(***************************************************************************)
(* The test program of the second serial port,                             *)
(* apps/mcu_peripheral_tests/uart/uart_test_main.c, as a client of the     *)
(* port whose two wires are joined.  A case is the sequence of its calls   *)
(* with what it expects of each; reader and writer threads have a sequence *)
(* of their own.                                                           *)
(*                                                                         *)
(* A time limit passes only when nothing else can happen: the limits of    *)
(* the program are several times what its transfers take.  A case that     *)
(* misses bytes is "partial", as in the program, and not failed.           *)
(***************************************************************************)
EXTENDS Uart, FiniteSets

CONSTANTS
    main,           \* the thread of the program
    Cases,          \* the cases of "all", in order
    Lengths         \* of the loopbacks of case 002

VARIABLES
    script,         \* for each thread, the calls to come
    verdict,        \* "running", "pass", "partial" or "fail"
    todo,           \* cases to come
    got,            \* the bytes that each thread's read has so far
    old             \* the configuration a case compares with or restores

testVars == <<script, verdict, todo, got, old>>

Call(op, arg) == [op |-> op, arg |-> arg]

uart_open(nonblock) == Call("open", nonblock)
uart_close(nonblock) == Call("close", nonblock)
Tcflush(in, out) == Call("tcflush", <<in, out>>)
FlushAll == Tcflush(TRUE, TRUE)
Tcdrain == Call("tcdrain", <<>>)
Set(term, want) == Call("tcsetattr", [term |-> term, want |-> want])
IsOld == Call("same", <<>>)
uart_write_all(data) == Call("write", data)
uart_read_exact(data) == Call("read", data)
Ioctl(what) == Call("ioctl", what)
Spawn(calls) == Call("create", calls)     \* a thread for each call
Join(missing) == Call("join", missing)    \* what missing bytes make of the case

\* uart_raw of the configuration that is there, at another speed
uart_configure_raw(speed) == Set([Termios(Default) EXCEPT !.speed = speed], "ok")

Payload(n, seed) == [i \in 1 .. n |-> (seed + i) % 2]

\* The other threads read while the main one writes.
Loopback(n, seed, missing) ==
    <<FlushAll, Spawn(<<uart_read_exact(Payload(n, seed))>>),
      uart_write_all(Payload(n, seed)), Join(missing)>>
uart_loopback(n, seed) == Loopback(n, seed, "partial")

uart_format_loopback(b) == <<FlushAll, uart_write_all(<<b>>), uart_read_exact(<<b>>)>>

Opened(body) == <<uart_open(TRUE), uart_configure_raw(Baud)>> \o body \o <<uart_close(TRUE)>>

\* It opens the console too, which is another port.
uart_case_001 == <<uart_open(TRUE), Ioctl("default"), uart_close(TRUE)>>

Loopbacks[n \in Nat] ==
    IF n = 0 THEN <<>> ELSE Loopbacks[n - 1] \o uart_loopback(Lengths[n], n)

uart_case_002 == Opened(Loopbacks[Len(Lengths)])

Rates == CHOOSE s \in [0 .. 2 -> Speeds] :
            \A i, j \in 0 .. 2 : ValidBaud(s[i]) /\ (i # j => s[i] # s[j])

\* The k-th of the 24 formats, with its rate.
Format(k) ==
    LET size == k \div 6  parity == (k \div 2) % 3  stop == k % 2
    IN  [speed |-> Rates[(size + parity + stop) % 3], CSIZE |-> 5 + size,
         CSTOPB |-> stop = 1, PARENB |-> parity > 0, PARODD |-> parity = 2, CRTSCTS |-> FALSE]

Formats[k \in 0 .. 24] ==
    IF k = 0 THEN <<>>
    ELSE Formats[k - 1] \o <<Set(Format(k - 1), "ok")>> \o uart_format_loopback(1)

uart_case_003 ==
    <<uart_open(TRUE), Ioctl("save")>> \o Formats[24] \o <<Call("restore", <<>>), uart_close(TRUE)>>

uart_expect_set_failure(speed, flow, errno) ==
    <<Call("refused", [speed |-> speed, flow |-> flow, want |-> errno]), IsOld>>

uart_case_004 ==
    <<uart_open(FALSE), Ioctl("save")>>
      \o uart_expect_set_failure(0, FALSE, "inval")
      \o uart_expect_set_failure(Clock \div 2, FALSE, "inval")
      \o uart_expect_set_failure((Clock \div 2) + 1, FALSE, "inval")
      \o uart_expect_set_failure(1, FALSE, "inval")
      \o uart_expect_set_failure(Baud, TRUE, "notsup")
      \o uart_expect_set_failure(Baud, TRUE, "notsup")
      \o uart_expect_set_failure(Baud, TRUE, "notsup")
      \o <<uart_close(FALSE)>>

uart_case_005 ==
    Opened(<<FlushAll, Ioctl("EAGAIN"), Ioctl("POLLOUT"), Ioctl("empty"),
             Call("write some", Payload(TxSize + Depth + 1, 0)), Ioctl("occupied"),
             Tcflush(FALSE, TRUE), Tcdrain, Tcflush(TRUE, FALSE)>>)

uart_case_006 ==
    Opened(<<FlushAll, uart_write_all(<<1>>), Tcdrain, Call("POLLIN", <<>>), Ioctl("POLLIN"),
             Tcflush(TRUE, FALSE), Ioctl("none"), Tcflush(FALSE, TRUE)>>
             \o uart_loopback(Depth + 1, 0))

uart_case_007 ==
    <<uart_open(FALSE), uart_open(TRUE), uart_configure_raw(Baud)>>
      \o uart_loopback(1, 1)
      \o <<uart_write_all(Payload(TxSize + 1, 0)), uart_close(TRUE), Tcflush(FALSE, TRUE),
           uart_close(FALSE), uart_open(TRUE)>>
      \o uart_loopback(1, 0) \o <<uart_close(TRUE)>>

uart_writer(value) == uart_write_all(<<value>>)

\* A reader and two writers, each with the port open; the order of the bytes of
\* the writers is open.
uart_case_008 ==
    <<uart_open(TRUE), uart_open(TRUE), uart_open(TRUE), uart_configure_raw(Baud), FlushAll,
      Spawn(<<uart_writer(0), uart_writer(1)>>), Join("fail"),
      uart_close(TRUE), uart_close(TRUE), Call("counts", <<0, 1>>), uart_close(TRUE)>>

\* More than the receive buffer holds, read only when it is all sent; then the
\* port has to work again.
uart_case_009 ==
    Opened(<<FlushAll, uart_write_all(Payload(RxSize + 2, 0)), Call("POLLIN", <<>>),
             Call("read all", <<>>), FlushAll>> \o Loopback(Depth + 1, 1, "fail"))

uart_case_010 == Opened(uart_loopback(TxSize + 1, 0) \o uart_loopback(TxSize + 1, 1))

\* 011 and 012 only say that the build is to be looked at.
uart_run_case(name) ==
    CASE name = "001" -> uart_case_001
      [] name = "002" -> uart_case_002
      [] name = "003" -> uart_case_003
      [] name = "004" -> uart_case_004
      [] name = "005" -> uart_case_005
      [] name = "006" -> uart_case_006
      [] name = "007" -> uart_case_007
      [] name = "008" -> uart_case_008
      [] name = "009" -> uart_case_009
      [] name = "010" -> uart_case_010

TestInit ==
    /\ script = [t \in Threads |-> IF t = main THEN uart_run_case(Head(Cases)) ELSE <<>>]
    /\ todo = Tail(Cases)
    /\ verdict = "pass" /\ got = [t \in Threads |-> <<>>] /\ old = Default
-----------------------------------------------------------------------------
(* A thread does its next call                                             *)

Turn(t) == script[t] # <<>> /\ pc[t] = "idle"
call(t) == Head(script[t])
Helpers == Threads \ {main}

Becomes(t, calls) == script' = [script EXCEPT ![t] = calls] /\ UNCHANGED todo
Done(t) == Becomes(t, Tail(script[t])) /\ UNCHANGED verdict

Worse(v) == IF verdict = "fail" THEN verdict ELSE v

\* The case ends here: it restores what it has to and closes what it opened.
Abandon(v) ==
    LET left(op) == SelectSeq(script[main], LAMBDA c : c.op = op)
    IN  /\ Becomes(main, left("restore") \o SubSeq(left("close"), 1, open_count))
        /\ verdict' = Worse(v)

\* main fails the case; another thread leaves a note for main's join.
Expect(t, ok, v) ==
    IF ok THEN Done(t)
    ELSE IF t = main THEN Abandon(v)
    ELSE Becomes(t, <<Call(v, <<>>)>>) /\ UNCHANGED verdict

Only(t, A) == A /\ UNCHANGED <<got, old>>
Looks == UNCHANGED <<vars, got, old>>

\* Nothing moves any more: what a thread waits for has timed out.
Silent(t) ==
    /\ isr = "idle" /\ ~Due /\ txfifo = <<>> /\ rxfifo = <<>> /\ ~rto
    /\ \A u \in Threads \ {t} :
          pc[u] = "idle" /\ (script[u] # <<>> => call(u).op \in {"join", "read", "partial", "fail"})

OpenStep(t) ==
    \/ call(t).op = "open" /\ Only(t, Open(t)) /\ open_count' # open_count /\ Done(t)
    \/ call(t).op = "close" /\ Only(t, Close(t, call(t).arg)) /\ Done(t)

ControlStep(t) ==
    \/ call(t).op = "tcflush" /\ Only(t, Flush(t, call(t).arg[1], call(t).arg[2])) /\ Done(t)
    \/ call(t).op = "tcdrain" /\ Only(t, Drain(t)) /\ Done(t)

\* The hardware takes every setting that the driver asks of it.
SetStep(t, term, want) ==
    /\ Only(t, Tcsets(t, term))
    /\ Accepted(term) = "ok" => priv' = Candidate(term) /\ ~spoiled'
    /\ Expect(t, Accepted(term) = want, "fail")

TermiosStep(t) ==
    \/ call(t).op = "tcsetattr" /\ SetStep(t, call(t).arg.term, call(t).arg.want)
    \/ call(t).op = "restore" /\ SetStep(t, Termios(old), "ok")
    \/ /\ call(t).op = "refused"
       /\ SetStep(t, [Termios(old) EXCEPT !.speed = call(t).arg.speed,
                                          !.CRTSCTS = call(t).arg.flow], call(t).arg.want)
    \/ /\ call(t).op = "same" /\ CanCall(t)
       /\ Expect(t, Termios(priv) = Termios(old), "fail") /\ Looks

Seen(what) ==
    CASE what = "default" -> Termios(priv) = Termios(Default)
      [] what = "EAGAIN" -> recv = <<>>
      [] what = "POLLOUT" -> recv = <<>> /\ Len(xmit) < TxSize
      [] what = "POLLIN" -> recv # <<>>
      [] what = "empty" -> recv = <<>> /\ xmit = <<>>
      [] what = "occupied" -> xmit # <<>>
      [] what = "none" -> recv = <<>>
      [] what = "save" -> TRUE

IoctlStep(t) ==
    /\ call(t).op = "ioctl" /\ CanCall(t)
    /\ Expect(t, Seen(call(t).arg), "fail")
    /\ old' = IF call(t).arg = "save" THEN priv ELSE old
    /\ UNCHANGED <<vars, got>>

\* A non-blocking write of what is left; poll waits for room, and not for ever.
WriteStep(t) ==
    \/ /\ call(t).op \in {"write", "write some"}
       /\ Only(t, Write(t, call(t).arg, TRUE))
       /\ Becomes(t, (IF call(t).op = "write" THEN <<Call("written", <<>>)>> ELSE <<>>)
                        \o Tail(script[t]))
       /\ UNCHANGED verdict
    \/ call(t).op = "written" /\ rest[t] = <<>> /\ CanCall(t) /\ Done(t) /\ Looks
    \/ /\ call(t).op = "written" /\ rest[t] # <<>> /\ Len(xmit) < TxSize
       /\ Only(t, Write(t, rest[t], TRUE)) /\ UNCHANGED <<script, todo, verdict>>
    \/ /\ call(t).op = "written" /\ rest[t] # <<>> /\ Len(xmit) = TxSize /\ Silent(t)
       /\ Expect(t, FALSE, "fail") /\ Looks

SameBytes(s, u) == \A b \in Bytes : Cardinality({i \in DOMAIN s : s[i] = b})
                                    = Cardinality({i \in DOMAIN u : u[i] = b})

Wants(c) == CASE c.op \in {"read", "counts"} -> Len(c.arg)
              [] c.op = "read all" -> RxSize + 2

ReadStep(t) ==
    /\ call(t).op \in {"read", "counts", "read all"}
    /\ \/ /\ recv # <<>> /\ Read(t)
          /\ LET all == Append(got[t], Head(recv))
             IN  IF Len(all) < Wants(call(t))
                 THEN got' = [got EXCEPT ![t] = all] /\ UNCHANGED <<script, todo, verdict>>
                 ELSE /\ got' = [got EXCEPT ![t] = <<>>]
                      /\ Expect(t, CASE call(t).op = "read" -> all = call(t).arg
                                     [] call(t).op = "counts" -> SameBytes(all, call(t).arg)
                                     [] OTHER -> TRUE, "fail")
       \/ /\ recv = <<>> /\ Silent(t)
          /\ got' = [got EXCEPT ![t] = <<>>]
          /\ Expect(t, call(t).op = "read all" /\ got[t] # <<>>, "partial")
          /\ UNCHANGED vars
    /\ UNCHANGED old

PollStep(t) ==
    /\ call(t).op = "POLLIN" /\ CanCall(t)
    /\ recv # <<>> \/ Silent(t)
    /\ Expect(t, recv # <<>>, "partial") /\ Looks

CreateStep(t) ==
    /\ call(t).op = "create" /\ CanCall(t)
    /\ \E order \in [1 .. Len(call(t).arg) -> Helpers] :
          /\ \A i, j \in DOMAIN order : i # j => order[i] # order[j]
          /\ script' = [u \in Threads |->
                IF u = main THEN Tail(script[u])
                ELSE IF \E i \in DOMAIN order : order[i] = u
                     THEN <<call(t).arg[CHOOSE i \in DOMAIN order : order[i] = u]>>
                     ELSE <<>>]
    /\ UNCHANGED <<verdict, todo>> /\ Looks

\* pthread_join of all, and what they found
JoinStep(t) ==
    /\ call(t).op = "join" /\ CanCall(t)
    /\ \A u \in Helpers : pc[u] = "idle"
          /\ (script[u] # <<>> => call(u).op \in {"partial", "fail"})
    /\ LET notes == {call(u).op : u \in {w \in Helpers : script[w] # <<>>}}
           cleared == [u \in Threads |-> IF u = main THEN script[u] ELSE <<>>]
           v == IF "fail" \in notes THEN "fail" ELSE call(t).arg
       IN  IF notes = {} THEN Done(t)
           ELSE LET left(op) == SelectSeq(script[main], LAMBDA c : c.op = op)
                IN  /\ script' = [cleared EXCEPT ![main] =
                           SubSeq(left("close"), 1, open_count)]
                    /\ verdict' = Worse(v) /\ UNCHANGED todo
    /\ Looks

CallStep(t) ==
    /\ Turn(t) /\ Quick
    /\ OpenStep(t) \/ ControlStep(t) \/ TermiosStep(t) \/ IoctlStep(t) \/ WriteStep(t)
         \/ ReadStep(t) \/ PollStep(t) \/ CreateStep(t) \/ JoinStep(t)

\* A line is slow: an interrupt is served before the next byte has arrived, and
\* no byte leaves between two calls that compare the length of the queue.
Slow == Due \/ (script[main] # <<>> /\ call(main) = Ioctl("occupied"))

Moves ==
    /\ Irq \/ (~Slow /\ (Shift \/ Rto)) \/ \E t \in Threads : Goes(t)
    /\ UNCHANGED testVars

NextCase ==
    /\ Quick /\ \A t \in Threads : script[t] = <<>> /\ pc[t] = "idle"
    /\ todo # <<>>
    /\ script' = [script EXCEPT ![main] = uart_run_case(Head(todo))]
    /\ todo' = Tail(todo)
    /\ UNCHANGED <<vars, verdict, got, old>>

TestNext == (\E t \in Threads : CallStep(t)) \/ Moves \/ NextCase
-----------------------------------------------------------------------------
\* The port passes its test: however its interrupts, its threads and the line
\* interleave, no case of "all" finds a refused setting that left a trace, a
\* queue that does not add up, a byte that nobody sent, or a port that an
\* overflow or a close has left useless.
UartTestPasses == verdict # "fail"

\* Whoever writes, or closes the port, comes back: no byte is left in the buffer
\* with the interrupt masked that would send it; and every case comes to its end.
CallersReturn ==
    /\ WritersReturn
    /\ script[main] # <<>> ~> script[main] = <<>>
=============================================================================
