-------------------------------- MODULE Uart ---------------------------------
(***************************************************************************)
(* One serial port: chips/bl616cl/bl616cl_serial.c and bl616cl_lowputc.c   *)
(* under the serial upper half of the operating system.  The transmitter   *)
(* is wired to the receiver.                                               *)
(*                                                                         *)
(* A write fills the transmit buffer with the transmit interrupt masked,   *)
(* and unmasks it at the end, or to wait for room; the interrupt, and the  *)
(* unmasking itself, move bytes on to the FIFO.  The receiver interrupts   *)
(* when its FIFO is full enough, or when bytes lie in it for a while.      *)
(*                                                                         *)
(* On the one core an interrupt runs as soon as it is raised, and to its   *)
(* end, before a thread goes on; the hardware never waits.                 *)
(*                                                                         *)
(* An operator with "_" in its name is a faulty variant of the operator    *)
(* that follows it; no specification uses it.                              *)
(***************************************************************************)
EXTENDS Integers, Sequences

CONSTANTS
    Threads, NoThread,
    Users,          \* threads that make any call in any order
    Clock,          \* of the peripheral
    Limit,          \* BL616CL_UART_DIVISOR_LIMIT
    TxSize, RxSize, \* bytes in the software buffers
    Depth, RxDepth, \* bytes in the FIFOs
    Baud,           \* CONFIG_UART1_BAUD
    Speeds,         \* rates that TCSETS may be asked for
    Bytes,
    Data,           \* what users may write at once
    Chars           \* bytes for the console

ASSUME ClockAssumption == Clock \in Nat /\ Limit \in Nat
ASSUME UserAssumption == Users \subseteq Threads /\ Users # {}
ASSUME RateAssumption == Baud \in Nat /\ Speeds \subseteq Nat
ASSUME ThreadAssumption == NoThread \notin Threads
ASSUME SizeAssumption == {TxSize, RxSize, Depth, RxDepth} \subseteq Nat \ {0}
ASSUME DataAssumption == Data \subseteq Seq(Bytes) /\ Chars \subseteq Bytes

Fields == <<"baud", "data_bits", "stop_b2", "parity">>

\* g_uart1_config: 8 bits, no parity and one stop bit
Default == [baud |-> Baud, data_bits |-> 8, stop_b2 |-> 0, parity |-> 0]

VARIABLES
    isconsole,
    open_count,
    priv,           \* struct bl616cl_uart_s: the configuration that is kept
    hw,             \* the configuration in the registers
    spoiled,        \* a rollback failed
    clocked,        \* g_uart_clock_configured
    enabled, txint, rxint, attached,
    xmit, recv,     \* the buffers of struct uart_dev_s
    txfifo, rxfifo, rto,
    isr,            \* "idle", or "clear": RTO is still to be cleared
    xmitlock, xmitwaiting,
    pc, rest        \* what each thread does, and the bytes it has still to write

hwVars == <<enabled, txfifo, rxfifo, rto>>
setVars == <<priv, hw, spoiled, clocked>>
bufVars == <<xmit, recv>>
vars == <<isconsole, open_count, setVars, hwVars, txint, rxint, attached, bufVars, isr,
          xmitlock, xmitwaiting, pc, rest>>

Init ==
    /\ isconsole \in BOOLEAN /\ open_count = 0
    /\ priv = Default /\ hw = Default /\ spoiled = FALSE /\ clocked = FALSE
    /\ enabled = FALSE /\ txint = FALSE /\ rxint = FALSE /\ attached = FALSE
    /\ xmit = <<>> /\ recv = <<>> /\ txfifo = <<>> /\ rxfifo = <<>> /\ rto = FALSE
    /\ isr = "idle" /\ xmitlock = NoThread /\ xmitwaiting = FALSE
    /\ pc = [t \in Threads |-> "idle"] /\ rest = [t \in Threads |-> <<>>]

Return(t) == pc' = [pc EXCEPT ![t] = "idle"]
-----------------------------------------------------------------------------
(* The rate                                                                *)

\* The divisor that bflb_uart_init and UART_CMD_SET_BAUD_RATE compute.
Divisor(baud) == (((Clock * 10) \div baud) + 5) \div 10

ValidBaud_unlimited(baud) == baud # 0 /\ baud * 2 < Clock

\* bl616cl_validate_baud
ValidBaud(baud) ==
    /\ baud # 0 /\ baud * 2 < Clock
    /\ Divisor(baud) \in 1 .. Limit - 1
-----------------------------------------------------------------------------
(* Bytes move                                                              *)

Room == Depth - Len(txfifo)
Moved == IF Room < Len(xmit) THEN Room ELSE Len(xmit)

Xmitchars_repeats ==
    /\ txfifo' = txfifo \o SubSeq(xmit, 1, Moved)
    /\ xmit' = SubSeq(xmit, IF Moved > 1 THEN Moved ELSE 1, Len(xmit))
    /\ txint' = (Moved < Len(xmit))
    /\ xmitwaiting' = (xmitwaiting /\ Moved = 0)

\* uart_xmitchars: fill the FIFO; with nothing left the interrupt is masked, and
\* a writer that waits for room is woken when a byte went.
Xmitchars ==
    /\ txfifo' = txfifo \o SubSeq(xmit, 1, Moved)
    /\ xmit' = SubSeq(xmit, Moved + 1, Len(xmit))
    /\ txint' = (Moved < Len(xmit))
    /\ xmitwaiting' = (xmitwaiting /\ Moved = 0)

\* bl616cl_txint(true) unmasks and transmits at once.
TxintOn == Xmitchars

\* uart_recvchars: what finds no room in the buffer is lost.
Recvchars ==
    /\ recv' = LET all == recv \o rxfifo
               IN  SubSeq(all, 1, IF Len(all) < RxSize THEN Len(all) ELSE RxSize)
    /\ rxfifo' = <<>>

TxDue_ignored == FALSE
TxDue == txint /\ Room > 0
RxDue == rxint /\ Len(rxfifo) = RxDepth
RtoDue_ignored == FALSE
RtoDue == rxint /\ rto

Due == isr = "idle" /\ attached /\ (TxDue \/ RxDue \/ RtoDue)

\* A thread runs: no interrupt does, or is about to.
Quick == isr = "idle" /\ ~Due

\* bl616cl_interrupt, up to the clearing of RTO
Interrupt ==
    /\ Due
    /\ IF TxDue THEN Xmitchars ELSE UNCHANGED <<txfifo, xmit, txint, xmitwaiting>>
    /\ IF RxDue \/ RtoDue THEN Recvchars ELSE UNCHANGED <<recv, rxfifo>>
    /\ isr' = IF RtoDue THEN "clear" ELSE "idle"
    /\ UNCHANGED <<isconsole, open_count, setVars, enabled, rto, rxint, attached,
                   xmitlock, pc, rest>>

InterruptEnds ==
    /\ isr = "clear"
    /\ rto' = FALSE /\ isr' = "idle"
    /\ UNCHANGED <<isconsole, open_count, setVars, enabled, txfifo, rxfifo, txint, rxint,
                   attached, bufVars, xmitlock, xmitwaiting, pc, rest>>

\* A byte leaves the transmitter and arrives, if there is room for it.
Shift ==
    /\ enabled /\ txfifo # <<>>
    /\ txfifo' = Tail(txfifo)
    /\ rxfifo' = IF Len(rxfifo) < RxDepth THEN Append(rxfifo, Head(txfifo)) ELSE rxfifo
    /\ UNCHANGED <<isconsole, open_count, setVars, enabled, rto, txint, rxint, attached,
                   bufVars, isr, xmitlock, xmitwaiting, pc, rest>>

\* Bytes lie in the receiver for longer than an interrupt takes.
Rto ==
    /\ enabled /\ rxfifo # <<>> /\ ~rto /\ isr = "idle"
    /\ rto' = TRUE
    /\ UNCHANGED <<isconsole, open_count, setVars, enabled, txfifo, rxfifo, txint, rxint,
                   attached, bufVars, isr, xmitlock, xmitwaiting, pc, rest>>
-----------------------------------------------------------------------------
(* open and close                                                          *)

\* bl616cl_uart_clock_enable: the first time, and it may fail.
UartClockEnable(ok) == (clocked => ok) /\ clocked' = (clocked \/ ok)

\* bl616cl_validate_format
ValidFormat(c) == c["data_bits"] \in 5 .. 8 /\ c["parity"] \in 0 .. 2 /\ c["stop_b2"] \in 0 .. 1

\* bl616cl_lowputc_config: pins and registers, with empty FIFOs
LowputcConfig ==
    /\ hw' = priv /\ spoiled' = FALSE
    /\ enabled' = TRUE /\ txfifo' = <<>> /\ rxfifo' = <<>> /\ rto' = FALSE

Rxint(enable) == rxint' = enable

Attach == attached' = TRUE

\* bl616cl_setup, with every interrupt masked behind it; without the clock, or
\* with a configuration that no port can have, it fails.
Setup ==
    /\ UartClockEnable(TRUE)
    /\ LowputcConfig

Open(t) ==
    /\ Quick /\ \A u \in Threads : pc[u] # "closing"
    /\ pc[t] = "idle"
    /\ \/ /\ open_count = 0 /\ ValidBaud(priv["baud"]) /\ ValidFormat(priv)
          /\ Setup /\ Attach /\ Rxint(TRUE) /\ txint' = FALSE
          /\ xmit' = <<>> /\ recv' = <<>> /\ open_count' = 1
          /\ Return(t)
       \/ /\ open_count = 0 /\ UartClockEnable(FALSE)
          /\ Return(t)
          /\ UNCHANGED <<hw, spoiled, hwVars, attached, rxint, txint, bufVars, open_count>>
       \/ /\ open_count > 0 /\ open_count' = open_count + 1
          /\ Return(t)
          /\ UNCHANGED <<hw, spoiled, clocked, hwVars, attached, rxint, txint, bufVars>>
    /\ UNCHANGED <<isconsole, priv, isr, xmitlock, xmitwaiting, rest>>

Detach == attached' = FALSE

\* bl616cl_shutdown, which the console is spared
Shutdown ==
    /\ rxint' = FALSE
    /\ txint' = (txint /\ isconsole)
    /\ enabled' = isconsole
    /\ UNCHANGED <<txfifo, rxfifo, rto>>

\* Nobody else is inside the port.
Alone(t) == \A u \in Threads \ {t} : pc[u] = "idle"

\* The last close waits for the transmitter, unless it must not block.
Close(t, nonblock) ==
    /\ Quick /\ pc[t] = "idle" /\ open_count > 0
    /\ \/ /\ open_count > 1
          /\ open_count' = open_count - 1
          /\ Return(t)
          /\ UNCHANGED <<hwVars, txint, rxint, attached>>
       \/ /\ open_count = 1 /\ nonblock /\ Alone(t)
          /\ open_count' = 0
          /\ Detach /\ Shutdown /\ Return(t)
       \/ /\ open_count = 1 /\ ~nonblock /\ Alone(t)
          /\ open_count' = 0 /\ Rxint(FALSE)
          /\ pc' = [pc EXCEPT ![t] = "closing"]
          /\ UNCHANGED <<hwVars, txint, attached>>
    /\ UNCHANGED <<isconsole, setVars, bufVars, isr, xmitlock, xmitwaiting, rest>>

\* bl616cl_txempty: the FIFO and the shift register are empty.
Drained == xmit = <<>> /\ txfifo = <<>>

Closed(t) ==
    /\ Quick /\ pc[t] = "closing" /\ Drained
    /\ Detach /\ Shutdown /\ Return(t)
    /\ UNCHANGED <<isconsole, open_count, setVars, bufVars, isr, xmitlock, xmitwaiting, rest>>
-----------------------------------------------------------------------------
(* write and read                                                          *)

CanCall(t) == Quick /\ pc[t] = "idle" /\ open_count > 0
    /\ \A u \in Threads : pc[u] # "closing"

Write(t, data, nonblock) ==
    /\ CanCall(t) /\ xmitlock = NoThread /\ data # <<>>
    /\ xmitlock' = t /\ txint' = FALSE
    /\ pc' = [pc EXCEPT ![t] = IF nonblock THEN "try" ELSE "put"]
    /\ rest' = [rest EXCEPT ![t] = data]
    /\ UNCHANGED <<isconsole, open_count, setVars, hwVars, rxint, attached, bufVars, isr,
                   xmitwaiting>>

Put(t) ==
    /\ Quick /\ pc[t] \in {"try", "put"} /\ rest[t] # <<>> /\ Len(xmit) < TxSize
    /\ xmit' = Append(xmit, Head(rest[t]))
    /\ rest' = [rest EXCEPT ![t] = Tail(@)]
    /\ UNCHANGED <<isconsole, open_count, setVars, hwVars, txint, rxint, attached, recv, isr,
                   xmitlock, xmitwaiting, pc>>

\* There is no room: the writer unmasks the interrupt and sleeps.  What the
\* unmasking itself sends does not wake it before it sleeps, but the count of
\* the semaphore does then.
Block(t) ==
    /\ Quick /\ pc[t] = "put" /\ rest[t] # <<>> /\ Len(xmit) = TxSize
    /\ pc' = [pc EXCEPT ![t] = "blocked"]
    /\ IF Moved > 0 THEN TxintOn ELSE xmitwaiting' = TRUE /\ txint' = TRUE
                                       /\ UNCHANGED <<txfifo, xmit>>
    /\ UNCHANGED <<isconsole, open_count, setVars, enabled, rxfifo, rto, rxint, attached,
                   recv, isr, xmitlock, rest>>

Unblock(t) ==
    /\ Quick /\ pc[t] = "blocked" /\ ~xmitwaiting
    /\ pc' = [pc EXCEPT ![t] = "put"] /\ txint' = FALSE
    /\ UNCHANGED <<isconsole, open_count, setVars, hwVars, rxint, attached, bufVars, isr,
                   xmitlock, xmitwaiting, rest>>

WriteEnds(t) ==
    /\ Quick
    /\ \/ pc[t] \in {"try", "put"} /\ rest[t] = <<>>
       \/ pc[t] = "try" /\ Len(xmit) = TxSize
    /\ xmitlock' = NoThread
    /\ IF xmit # <<>> THEN TxintOn ELSE UNCHANGED <<txfifo, xmit, txint, xmitwaiting>>
    /\ Return(t)
    /\ UNCHANGED <<isconsole, open_count, setVars, enabled, rxfifo, rto, rxint, attached,
                   recv, isr, rest>>

\* A read takes one byte; without one it is EAGAIN, or waits.
Read(t) ==
    /\ CanCall(t)
    /\ recv' = IF recv = <<>> THEN recv ELSE Tail(recv)
    /\ Return(t)
    /\ UNCHANGED <<isconsole, open_count, setVars, hwVars, txint, rxint, attached, xmit, isr,
                   xmitlock, xmitwaiting, rest>>

\* TCFLSH of the upper half
Flush(t, in, out) ==
    /\ CanCall(t)
    /\ recv' = IF in THEN <<>> ELSE recv
    /\ xmit' = IF out THEN <<>> ELSE xmit
    /\ xmitwaiting' = (xmitwaiting /\ ~out)
    /\ Return(t)
    /\ UNCHANGED <<isconsole, open_count, setVars, hwVars, txint, rxint, attached, isr,
                   xmitlock, rest>>

\* TCDRN of the upper half returns when bl616cl_txempty agrees.
Drain(t) ==
    /\ CanCall(t) /\ Drained
    /\ Return(t)
    /\ UNCHANGED <<isconsole, open_count, setVars, hwVars, txint, rxint, attached, bufVars,
                   isr, xmitlock, xmitwaiting, rest>>

\* up_putc and riscv_lowputc: a byte for the console goes past the buffer.
Lowputc(b) ==
    /\ Quick /\ isconsole /\ enabled /\ Room > 0
    /\ txfifo' = Append(txfifo, b)
    /\ UNCHANGED <<isconsole, open_count, setVars, enabled, rxfifo, rto, txint, rxint,
                   attached, bufVars, isr, xmitlock, xmitwaiting, pc, rest>>
-----------------------------------------------------------------------------
(* bl616cl_ioctl                                                           *)

\* What a caller sees and sets: the flags of a struct termios that matter.
Termios(c) == [speed |-> c["baud"], CSIZE |-> c["data_bits"], CSTOPB |-> c["stop_b2"] = 1,
               PARENB |-> c["parity"] # 0, PARODD |-> c["parity"] = 1, CRTSCTS |-> FALSE]

\* PARODD without PARENB means nothing; 2 is even.
Candidate(term) == [baud |-> term.speed, data_bits |-> term.CSIZE,
                    stop_b2 |-> IF term.CSTOPB THEN 1 ELSE 0,
                    parity |-> IF ~term.PARENB THEN 0 ELSE IF term.PARODD THEN 1 ELSE 2]

Accepted(term) == IF term.CRTSCTS THEN "notsup"
                  ELSE IF ~ValidBaud(term.speed) THEN "inval" ELSE "ok"

\* bl616cl_apply_termios of c, of which the first n registers are written
Applied(old, c, n) == [f \in DOMAIN c |-> IF \E i \in 1 .. n : Fields[i] = f
                                          THEN c[f] ELSE old[f]]

RolledBack_not(torn, old, n) == torn

RolledBack(torn, old, n) == Applied(torn, old, n)

\* TCSETS: the registers and what is kept change together, or, when the SDK
\* fails after n registers, neither does; unless it fails the rollback too.
Tcsets(t, term) ==
    /\ CanCall(t)
    /\ LET c == Candidate(term)
       IN \/ /\ Accepted(term) # "ok"
             /\ Return(t)
             /\ UNCHANGED setVars
          \/ /\ Accepted(term) = "ok"
             /\ hw' = Applied(hw, c, Len(Fields)) /\ priv' = c /\ spoiled' = FALSE
             /\ Return(t)
             /\ UNCHANGED clocked
          \/ /\ Accepted(term) = "ok"
             /\ \E n \in 0 .. Len(Fields) - 1, back \in 0 .. Len(Fields) :
                   /\ hw' = RolledBack(Applied(hw, c, n), priv, back)
                   /\ spoiled' = (back < Len(Fields))
             /\ Return(t)
             /\ UNCHANGED <<priv, clocked>>
    /\ UNCHANGED <<isconsole, open_count, hwVars, txint, rxint, attached, bufVars, isr,
                   xmitlock, xmitwaiting, rest>>
-----------------------------------------------------------------------------
Goes(t) == Put(t) \/ Block(t) \/ Unblock(t) \/ WriteEnds(t) \/ Closed(t)

Irq == Interrupt \/ InterruptEnds
Hardware == Irq \/ Shift \/ Rto

OpenClose(t) ==
    \/ open_count < 2 /\ Open(t)
    \/ \E nonblock \in BOOLEAN : Close(t, nonblock)

Calls(t) ==
    \/ OpenClose(t)
    \/ \E data \in Data, nonblock \in BOOLEAN : Write(t, data, nonblock)
    \/ Read(t)
    \/ \E in, out \in BOOLEAN : (in \/ out) /\ Flush(t, in, out)
    \/ Drain(t)

Terms == {[Termios(Default) EXCEPT !.PARENB = TRUE, !.PARODD = o, !.CSIZE = 5,
                                   !.CSTOPB = TRUE] : o \in BOOLEAN}
           \cup {[Termios(Default) EXCEPT !.speed = s, !.CRTSCTS = (s = 0)] : s \in Speeds}

\* Transfers, and settings: neither depends on the other.
Transfers ==
    \/ \E t \in Users : Calls(t) \/ Goes(t)
    \/ Hardware
    \/ \E b \in Chars : Lowputc(b)

Settings == LET t == CHOOSE u \in Users : TRUE
            IN  OpenClose(t) \/ Goes(t) \/ \E m \in Terms : Tcsets(t, m)

Next == Transfers \/ Settings

\* A thread inside the port goes on when interrupts let it, the line moves, and
\* an interrupt that is raised again and again is taken.
Fairness ==
    /\ \A t \in Threads : SF_vars(Goes(t))
    /\ SF_vars(Irq) /\ WF_vars(Shift) /\ WF_vars(Rto)

Spec == Init /\ [][Next]_vars /\ Fairness
-----------------------------------------------------------------------------
TypeOK ==
    /\ open_count \in Nat /\ xmit \in Seq(Bytes) /\ recv \in Seq(Bytes)
    /\ Len(xmit) <= TxSize /\ Len(recv) <= RxSize
    /\ Len(txfifo) <= Depth /\ Len(rxfifo) <= RxDepth
    /\ {spoiled, clocked, enabled, txint, rxint, attached, rto, xmitwaiting} \subseteq BOOLEAN
    /\ xmitlock \in Threads \cup {NoThread}

\* The registers hold the configuration that is kept, whatever was refused and
\* wherever the SDK failed, and its rate has a divisor of 16 bits that is right to
\* the rounding: unless a rollback failed.
AsConfigured ==
    enabled /\ ~spoiled =>
        /\ hw = priv
        /\ LET error == (Divisor(hw["baud"]) * hw["baud"]) - Clock
           IN  /\ Divisor(hw["baud"]) \in 2 .. Limit - 1
               /\ 10 * error <= 6 * hw["baud"] /\ -(10 * error) <= 6 * hw["baud"]

\* One thread writes at a time.  While a writer sleeps until there is room, or a
\* last close until everything is sent, the interrupt that would move the bytes
\* in the buffer is unmasked and has a handler, and the port is on.
NobodyStranded ==
    \A t \in Threads :
        /\ pc[t] \in {"try", "put", "blocked"} => xmitlock = t
        /\ pc[t] = "blocked" /\ xmitwaiting => enabled /\ attached /\ txint /\ xmit # <<>>
        /\ pc[t] = "closing" => enabled /\ attached /\ (xmit # <<>> => txint)

\* The port as a whole: types, configuration, and nobody waits in vain.
PortOK == TypeOK /\ AsConfigured /\ NobodyStranded

\* The transmitter is wired to the receiver: the bytes in the port are those on
\* their way out, and those that arrived.
Pending == IF xmitlock = NoThread THEN <<>> ELSE rest[xmitlock]
Sent == txfifo \o xmit
Received == recv \o rxfifo

Stream == INSTANCE ByteStream
          WITH console <- isconsole, users <- open_count, writer <- xmitlock,
               pending <- Pending, sent <- Sent, received <- Received

\* Through buffers, FIFOs and interrupts, bytes arrive once each and in order.
ImplementsStream == Stream!Spec

\* Whoever writes, or closes the port, comes back: no byte is left in the buffer
\* with the interrupt masked that would send it.
WritersReturn == \A t \in Threads : pc[t] # "idle" ~> pc[t] = "idle"

\* What arrives is handed on, by the threshold or by the timeout.
BytesArrive == rxfifo # <<>> ~> (rxfifo = <<>> \/ ~attached \/ ~rxint)
=============================================================================
