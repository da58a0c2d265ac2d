----------------------------- MODULE Uart_proofs -----------------------------
(***************************************************************************)
(* Proofs about module Uart, for any clock, rates, buffers and threads.    *)
(*                                                                         *)
(* What is kept of a port's configuration is always one that was accepted, *)
(* and the registers hold it except while the port is off or a rollback    *)
(* has failed; an accepted rate is near the one that its divisor makes.    *)
(*                                                                         *)
(* A writer owns the transmit buffer until its last byte is put; whatever  *)
(* nobody owns any more is sent by an interrupt that is unmasked.          *)
(***************************************************************************)
EXTENDS Uart, SequenceTheorems, TLAPS

USE ClockAssumption

Settled ==
    /\ DOMAIN priv = {"baud", "data_bits", "stop_b2", "parity"}
    /\ priv = [baud |-> priv["baud"], data_bits |-> priv["data_bits"],
               stop_b2 |-> priv["stop_b2"], parity |-> priv["parity"]]
    /\ priv["baud"] \in Nat

\* The registers of a port that is on are what is kept of it.
Programmed == enabled => ValidBaud(priv["baud"]) /\ (~spoiled => hw = priv)
-----------------------------------------------------------------------------
\* The divisor rounds the quotient of clock and rate: it is off by no more than
\* six tenths, and a rate below half the clock has one of at least 2.
LEMMA DivisorIsNear ==
    ASSUME NEW baud \in Nat, ValidBaud(baud)
    PROVE  LET error == (Divisor(baud) * baud) - Clock
           IN  /\ Divisor(baud) \in 2 .. Limit - 1
               /\ 10 * error <= 6 * baud /\ -(10 * error) <= 6 * baud
<1> DEFINE q == (Clock * 10) \div baud
           r == (Clock * 10) % baud
           d == (q + 5) \div 10
           s == (q + 5) % 10
<1>1. baud \in Nat \ {0} /\ baud * 2 < Clock /\ d \in 1 .. Limit - 1
  BY DEF ValidBaud, Divisor
<1>2. q \in Nat /\ r \in 0 .. baud - 1 /\ Clock * 10 = baud * q + r
  BY <1>1
<1> HIDE DEF q, r
<1>3. d \in Nat /\ s \in 0 .. 9 /\ q + 5 = 10 * d + s
  BY <1>2
<1>4. q >= 20
  <2> SUFFICES ASSUME q <= 19 PROVE FALSE
    BY <1>2
  <2>1. baud * q \in Int /\ baud * q <= baud * 19
    BY <1>1, <1>2
  <2>2. baud * 20 < Clock * 10
    BY <1>1
  <2> QED  BY <1>1, <1>2, <2>1, <2>2
<1>5. d >= 2
  BY <1>2, <1>3, <1>4
<1>6. 10 * (d * baud) = Clock * 10 - r + (5 - s) * baud
  <2>1. (10 * d + s) * baud = (q + 5) * baud
    BY <1>3
  <2>2. (10 * d + s) * baud = 10 * (d * baud) + s * baud
    BY <1>1, <1>3
  <2>3. (q + 5) * baud = q * baud + 5 * baud
    BY <1>1, <1>2
  <2>4. (5 - s) * baud = 5 * baud - s * baud
    BY <1>1, <1>3
  <2>5. d * baud \in Int /\ s * baud \in Int /\ q * baud \in Int /\ baud * q = q * baud
    BY <1>1, <1>2, <1>3
  <2> QED  BY <1>1, <1>2, <2>1, <2>2, <2>3, <2>4, <2>5
<1>7. (5 - s) * baud <= 5 * baud /\ (5 - s) * baud >= -(4 * baud) /\ (5 - s) * baud \in Int
  BY <1>1, <1>3
<1>8. d * baud \in Int
  BY <1>1, <1>3
<1>9. 10 * (d * baud - Clock) <= 6 * baud /\ -(10 * (d * baud - Clock)) <= 6 * baud
  BY <1>1, <1>2, <1>6, <1>7, <1>8
<1> QED  BY <1>1, <1>5, <1>9 DEF Divisor, q
-----------------------------------------------------------------------------
(* The configuration                                                       *)

LEMMA SettledInit == Init => Settled /\ Programmed
BY RateAssumption DEF Init, Default, Settled, Programmed

\* A candidate that was accepted is a configuration.
LEMMA CandidateIs ==
    ASSUME NEW term \in Terms, Accepted(term) = "ok"
    PROVE  LET c == Candidate(term)
           IN  /\ DOMAIN c = {"baud", "data_bits", "stop_b2", "parity"}
               /\ c = [baud |-> c["baud"], data_bits |-> c["data_bits"],
                       stop_b2 |-> c["stop_b2"], parity |-> c["parity"]]
               /\ c["baud"] \in Nat /\ ValidBaud(c["baud"])
<1>1. ValidBaud(term.speed)
  BY DEF Accepted
<1>2. term.speed \in Nat
  BY RateAssumption DEF Terms, Termios, Default
<1> QED  BY <1>1, <1>2 DEF Candidate

\* All four registers written leave the whole configuration in them.
LEMMA AppliedAll ==
    ASSUME NEW old, NEW c,
           DOMAIN c = {"baud", "data_bits", "stop_b2", "parity"},
           c = [baud |-> c["baud"], data_bits |-> c["data_bits"],
                stop_b2 |-> c["stop_b2"], parity |-> c["parity"]]
    PROVE  Applied(old, c, 4) = c
<1>1. \A f \in DOMAIN c : \E i \in 1 .. 4 : Fields[i] = f
  <2>1. Fields[1] = "baud" /\ Fields[2] = "data_bits" /\ Fields[3] = "stop_b2"
          /\ Fields[4] = "parity"
    BY DEF Fields
  <2> QED  BY <2>1
<1>2. Applied(old, c, 4) = [f \in DOMAIN c |-> c[f]]
  BY <1>1 DEF Applied
<1> QED  BY <1>2

LEMMA FieldsAre == Len(Fields) = 4
BY DEF Fields

\* TCSETS, accepted or refused, and whichever register the SDK fails at.
LEMMA TcsetsKeeps ==
    ASSUME Settled, Programmed, NEW t, NEW term \in Terms, Tcsets(t, term)
    PROVE  Settled' /\ Programmed'
<1> DEFINE c == Candidate(term)
<1>1. enabled' = enabled
  BY DEF Tcsets, hwVars
<1>2. CASE UNCHANGED setVars
  BY <1>1, <1>2 DEF setVars, Settled, Programmed
<1>3. ASSUME Accepted(term) = "ok", hw' = Applied(hw, c, Len(Fields)), priv' = c
      PROVE  Settled' /\ Programmed'
  <2>1. hw' = c
    BY <1>3, CandidateIs, AppliedAll, FieldsAre
  <2> HIDE DEF c
  <2> QED  BY <1>3, <2>1, CandidateIs DEF Settled, Programmed, c
<1>4. ASSUME NEW n \in 0 .. Len(Fields) - 1, NEW back \in 0 .. Len(Fields),
             Accepted(term) = "ok",
             hw' = RolledBack(Applied(hw, c, n), priv, back),
             spoiled' = (back < Len(Fields)), UNCHANGED priv
      PROVE  Settled' /\ Programmed'
  <2>1. CASE back < Len(Fields)
    BY <1>1, <1>4, <2>1 DEF Settled, Programmed, ValidBaud, Divisor
  <2>2. CASE back = 4
    <3>1. hw' = priv'
      BY <1>4, <2>2, AppliedAll DEF RolledBack, Settled
    <3> QED  BY <1>1, <1>4, <3>1 DEF Settled, Programmed, ValidBaud, Divisor
  <2> QED  BY <1>4, <2>1, <2>2, FieldsAre
<1> QED  BY <1>2, <1>3, <1>4 DEF Tcsets
-----------------------------------------------------------------------------
(* Open and close                                                          *)

\* A port that is open, or is being closed by the only thread inside, is on.
Opened ==
    /\ open_count \in Nat /\ DOMAIN pc = Threads
    /\ open_count > 0 => enabled
    /\ \A t \in Threads :
         pc[t] = "closing" => /\ enabled /\ open_count = 0
                              /\ \A u \in Threads \ {t} : pc[u] = "idle"

Inv == Settled /\ Programmed /\ Opened

portVars == <<priv, hw, spoiled, enabled>>

LEMMA SameConfiguration == Settled /\ Programmed /\ UNCHANGED portVars => Settled' /\ Programmed'
BY DEF portVars, Settled, Programmed, ValidBaud, Divisor

\* A thread that goes on, and neither begins nor ends to close.
LEMMA ThreadGoes ==
    ASSUME Inv, UNCHANGED portVars, UNCHANGED open_count,
           NEW t \in Threads, NEW x, pc' = [pc EXCEPT ![t] = x], x # "closing",
           x = "idle" \/ pc[t] # "idle" \/ \A u \in Threads : pc[u] # "closing",
           pc[t] # "closing"
    PROVE  Inv'
<1>1. Opened'
  BY DEF Inv, Opened, portVars
<1> QED  BY <1>1, SameConfiguration DEF Inv

LEMMA OpenKeeps == ASSUME Inv, NEW t \in Threads, Open(t) PROVE Inv'
<1> USE DEF Open, Return
<1>1. pc' = [pc EXCEPT ![t] = "idle"] /\ UNCHANGED priv
  OBVIOUS
<1>2. CASE /\ open_count = 0 /\ ValidBaud(priv["baud"]) /\ Setup /\ open_count' = 1
  <2>1. enabled' /\ hw' = priv /\ priv' = priv
    BY <1>1, <1>2 DEF Setup, LowputcConfig
  <2>2. Settled' /\ Programmed'
    BY <1>2, <2>1 DEF Inv, Settled, Programmed, ValidBaud, Divisor
  <2>3. Opened'
    BY <1>1, <1>2, <2>1 DEF Inv, Opened
  <2> QED  BY <2>2, <2>3 DEF Inv
<1>3. CASE UNCHANGED <<hw, spoiled, hwVars, open_count>>
  <2>1. UNCHANGED portVars
    BY <1>1, <1>3 DEF hwVars, portVars
  <2> QED  BY <1>1, <1>3, <2>1, ThreadGoes
<1>4. CASE open_count > 0 /\ open_count' = open_count + 1 /\ UNCHANGED <<hw, spoiled, hwVars>>
  <2>1. UNCHANGED portVars
    BY <1>1, <1>4 DEF hwVars, portVars
  <2>2. Opened'
    BY <1>1, <1>4, <2>1 DEF Inv, Opened, portVars
  <2> QED  BY <2>1, <2>2, SameConfiguration DEF Inv
<1> QED  BY <1>2, <1>3, <1>4

\* The port is shut down by the last thread inside; the console stays on.
LEMMA ShutdownKeeps ==
    ASSUME Inv, NEW t \in Threads, Shutdown, enabled, open_count' = 0, UNCHANGED setVars,
           pc' = [pc EXCEPT ![t] = "idle"], \A u \in Threads \ {t} : pc[u] = "idle"
    PROVE  Inv'
<1>1. Opened'
  BY DEF Inv, Opened
<1>2. Settled' /\ Programmed'
  BY DEF Shutdown, setVars, Inv, Settled, Programmed, ValidBaud, Divisor
<1> QED  BY <1>1, <1>2 DEF Inv

LEMMA CloseKeeps == ASSUME Inv, NEW t \in Threads, NEW nonblock, Close(t, nonblock) PROVE Inv'
<1> USE DEF Close, Return
<1>1. pc[t] = "idle" /\ open_count > 0 /\ UNCHANGED setVars /\ open_count \in Nat /\ enabled
  BY DEF Inv, Opened
<1>2. CASE open_count > 1 /\ open_count' = open_count - 1 /\ pc' = [pc EXCEPT ![t] = "idle"]
             /\ UNCHANGED hwVars
  <2>1. UNCHANGED portVars
    BY <1>1, <1>2 DEF hwVars, setVars, portVars
  <2>2. Opened'
    BY <1>1, <1>2, <2>1 DEF Inv, Opened, portVars
  <2> QED  BY <2>1, <2>2, SameConfiguration DEF Inv
<1>3. CASE Shutdown /\ Alone(t) /\ open_count' = 0 /\ pc' = [pc EXCEPT ![t] = "idle"]
  BY <1>1, <1>3, ShutdownKeeps DEF Alone
<1>4. CASE Alone(t) /\ open_count' = 0 /\ pc' = [pc EXCEPT ![t] = "closing"] /\ UNCHANGED hwVars
  <2>1. UNCHANGED portVars
    BY <1>1, <1>4 DEF hwVars, setVars, portVars
  <2>2. Opened'
    BY <1>1, <1>4, <2>1 DEF Inv, Opened, portVars, Alone
  <2> QED  BY <2>1, <2>2, SameConfiguration DEF Inv
<1> QED  BY <1>2, <1>3, <1>4

LEMMA GoesKeeps == ASSUME Inv, NEW t \in Threads, Goes(t) PROVE Inv'
<1>1. CASE Put(t)
  <2>1. UNCHANGED <<portVars, open_count, pc>>
    BY <1>1 DEF Put, setVars, hwVars, portVars
  <2> QED  BY <2>1, SameConfiguration DEF Inv, Opened, portVars
<1>2. CASE Block(t)
  <2>1. UNCHANGED <<portVars, open_count>> /\ pc[t] = "put" /\ pc' = [pc EXCEPT ![t] = "blocked"]
    BY <1>2 DEF Block, setVars, portVars
  <2> QED  BY <2>1, ThreadGoes
<1>3. CASE Unblock(t)
  <2>1. UNCHANGED <<portVars, open_count>> /\ pc[t] = "blocked" /\ pc' = [pc EXCEPT ![t] = "put"]
    BY <1>3 DEF Unblock, setVars, hwVars, portVars
  <2> QED  BY <2>1, ThreadGoes
<1>4. CASE WriteEnds(t)
  <2>1. UNCHANGED <<portVars, open_count>> /\ pc[t] \in {"try", "put"}
          /\ pc' = [pc EXCEPT ![t] = "idle"]
    BY <1>4 DEF WriteEnds, Return, setVars, portVars
  <2> QED  BY <2>1, ThreadGoes
<1>5. CASE Closed(t)
  <2>1. pc[t] = "closing" /\ Shutdown /\ UNCHANGED <<open_count, setVars>>
          /\ pc' = [pc EXCEPT ![t] = "idle"]
    BY <1>5 DEF Closed, Return
  <2>2. enabled /\ open_count = 0 /\ \A u \in Threads \ {t} : pc[u] = "idle"
    BY <2>1 DEF Inv, Opened
  <2> QED  BY <2>1, <2>2, ShutdownKeeps
<1> QED  BY <1>1, <1>2, <1>3, <1>4, <1>5 DEF Goes

LEMMA OpenCloseKeeps == ASSUME Inv, NEW t \in Threads, OpenClose(t) PROVE Inv'
BY OpenKeeps, CloseKeeps DEF OpenClose

LEMMA CallsKeep == ASSUME Inv, NEW t \in Threads, Calls(t) PROVE Inv'
<1>1. CASE OpenClose(t)
  BY <1>1, OpenCloseKeeps
<1>2. ASSUME NEW data, NEW nonblock, Write(t, data, nonblock) PROVE Inv'
  <2>1. PICK x \in {"try", "put"} : pc' = [pc EXCEPT ![t] = x]
    BY <1>2 DEF Write
  <2>2. UNCHANGED <<portVars, open_count>> /\ \A u \in Threads : pc[u] # "closing"
    BY <1>2 DEF Write, CanCall, setVars, hwVars, portVars
  <2> QED  BY <2>1, <2>2, ThreadGoes
<1>3. ASSUME UNCHANGED <<open_count, setVars, hwVars>>, Return(t), CanCall(t) PROVE Inv'
  <2>1. UNCHANGED portVars
    BY <1>3 DEF setVars, hwVars, portVars
  <2> QED  BY <1>3, <2>1, ThreadGoes DEF Return, CanCall
<1>4. CASE Read(t) \/ Drain(t) \/ (\E in, out \in BOOLEAN : Flush(t, in, out))
  BY <1>3, <1>4 DEF Read, Drain, Flush
<1> QED  BY <1>1, <1>2, <1>4 DEF Calls

LEMMA HardwareKeeps == ASSUME Inv, Hardware PROVE Inv'
<1>1. UNCHANGED <<portVars, open_count, pc>>
  BY DEF Hardware, Irq, Interrupt, InterruptEnds, Shift, Rto, setVars, portVars
<1> QED  BY <1>1, SameConfiguration DEF Inv, Opened, portVars

LEMMA InvNext == Inv /\ [Next]_vars => Inv'
<1> SUFFICES ASSUME Inv, [Next]_vars PROVE Inv'
  OBVIOUS
<1>1. ASSUME NEW t \in Users, Calls(t) \/ Goes(t) PROVE Inv'
  BY <1>1, CallsKeep, GoesKeeps, UserAssumption
<1>2. CASE Hardware
  BY <1>2, HardwareKeeps
<1>3. ASSUME NEW b, Lowputc(b) PROVE Inv'
  <2>1. UNCHANGED <<portVars, open_count, pc>>
    BY <1>3 DEF Lowputc, setVars, portVars
  <2> QED  BY <2>1, SameConfiguration DEF Inv, Opened, portVars
<1>4. CASE Settings
  <2> DEFINE t == CHOOSE u \in Users : TRUE
  <2>1. t \in Threads
    BY UserAssumption
  <2> HIDE DEF t
  <2>2. CASE OpenClose(t) \/ Goes(t)
    BY <2>1, <2>2, OpenCloseKeeps, GoesKeeps
  <2>3. ASSUME NEW term \in Terms, Tcsets(t, term) PROVE Inv'
    <3>1. Settled' /\ Programmed'
      BY <2>3, TcsetsKeeps DEF Inv
    <3>2. UNCHANGED <<open_count, enabled>> /\ pc' = [pc EXCEPT ![t] = "idle"]
      BY <2>3 DEF Tcsets, hwVars, Return
    <3>3. Opened'
      BY <2>1, <3>2 DEF Inv, Opened
    <3> QED  BY <3>1, <3>3 DEF Inv
  <2> QED  BY <1>4, <2>2, <2>3 DEF Settings, t
<1>5. CASE UNCHANGED vars
  <2>1. UNCHANGED <<portVars, open_count, pc>>
    BY <1>5 DEF vars, setVars, hwVars, portVars
  <2> QED  BY <2>1, SameConfiguration DEF Inv, Opened, portVars
<1> QED  BY <1>1, <1>2, <1>3, <1>4, <1>5 DEF Next, Transfers

LEMMA InvInit == Init => Inv
BY SettledInit DEF Init, Inv, Opened

\* Through every open, close, refused or failed TCSETS and rollback.
LEMMA InvConfigures == Inv => AsConfigured
BY DivisorIsNear DEF Inv, Settled, Programmed, AsConfigured
-----------------------------------------------------------------------------
(* Types, and who waits                                                    *)

Buffers ==
    /\ xmit \in Seq(Bytes) /\ Len(xmit) <= TxSize
    /\ recv \in Seq(Bytes) /\ Len(recv) <= RxSize
    /\ txfifo \in Seq(Bytes) /\ Len(txfifo) <= Depth
    /\ rxfifo \in Seq(Bytes) /\ Len(rxfifo) <= RxDepth
    /\ rest \in [Threads -> Seq(Bytes)]

Flags ==
    /\ open_count \in Nat /\ isconsole \in BOOLEAN
    /\ spoiled \in BOOLEAN /\ clocked \in BOOLEAN /\ enabled \in BOOLEAN
    /\ txint \in BOOLEAN /\ rxint \in BOOLEAN /\ attached \in BOOLEAN
    /\ rto \in BOOLEAN /\ xmitwaiting \in BOOLEAN
    /\ xmitlock \in Threads \cup {NoThread}
    /\ pc \in [Threads -> {"idle", "try", "put", "blocked", "closing"}]

Writing(t) == pc[t] \in {"try", "put", "blocked"}

\* The lock of the transmit buffer is the writer's, and a port with a writer is
\* open.
Turn ==
    \A t \in Threads : /\ Writing(t) <=> xmitlock = t
                       /\ Writing(t) => open_count > 0

\* The bytes in the buffer are nobody's any more.
Left ==
    /\ xmit # <<>>
    /\ \A t \in Threads : pc[t] \notin {"try", "put"}
    /\ open_count > 0 \/ \E t \in Threads : pc[t] = "closing"

\* ... and are sent by the interrupt; who waits for room is one who sleeps, with
\* bytes in the buffer.
Served ==
    /\ open_count > 0 => attached
    /\ \A t \in Threads : pc[t] = "closing" => attached
    /\ xmitwaiting => xmit # <<>> /\ \E t \in Threads : pc[t] = "blocked"
    /\ Left => txint

\* The steps of a thread, and of everything else.
Step(t) ==
    \/ open_count < 2 /\ Open(t)
    \/ \E nonblock \in BOOLEAN : Close(t, nonblock)
    \/ \E data \in Seq(Bytes), nonblock \in BOOLEAN : Write(t, data, nonblock)
    \/ Goes(t) \/ Read(t) \/ Drain(t)
    \/ \E in, out \in BOOLEAN : Flush(t, in, out)
    \/ \E term \in Terms : Tcsets(t, term)

System ==
    \/ Interrupt \/ InterruptEnds \/ Shift \/ Rto
    \/ \E b \in Bytes : Lowputc(b)
    \/ UNCHANGED vars

LEMMA StepsAre == ASSUME [Next]_vars PROVE (\E t \in Threads : Step(t)) \/ System
<1>1. ASSUME NEW t \in Threads, Calls(t) PROVE Step(t)
  BY <1>1, DataAssumption DEF Calls, OpenClose, Step
<1>2. CASE Transfers
  <2>1. CASE \E t \in Users : Calls(t) \/ Goes(t)
    BY <1>1, <2>1, UserAssumption DEF Step
  <2> QED  BY <1>2, <2>1, DataAssumption DEF Transfers, Hardware, Irq, System
<1>3. CASE Settings
  <2> DEFINE t == CHOOSE u \in Users : TRUE
  <2>1. t \in Threads
    BY UserAssumption
  <2> HIDE DEF t
  <2>2. OpenClose(t) \/ Goes(t) \/ \E m \in Terms : Tcsets(t, m)
    BY <1>3 DEF Settings, t
  <2>3. Step(t)
    BY <2>2 DEF Step, OpenClose
  <2> QED  BY <2>1, <2>3
<1>4. CASE UNCHANGED vars
  BY <1>4 DEF System
<1> QED  BY <1>2, <1>3, <1>4 DEF Next

\* What uart_xmitchars moves leaves the buffer for the FIFO, as far as there is
\* room; the interrupt stays unmasked exactly for what is left.
LEMMA XmitcharsDoes ==
  ASSUME Buffers, Xmitchars
  PROVE  /\ xmit' \in Seq(Bytes) /\ Len(xmit') <= TxSize
         /\ txfifo' \in Seq(Bytes) /\ Len(txfifo') <= Depth
         /\ txint' \in BOOLEAN /\ xmitwaiting' \in BOOLEAN /\ (txint' <=> xmit' # <<>>)
         /\ xmitwaiting' => xmitwaiting /\ (xmit # <<>> => xmit' # <<>>)
<1> DEFINE m == Moved
           n == Len(xmit)
<1>0. n \in Nat /\ Len(txfifo) \in Nat /\ Depth \in Nat /\ TxSize \in Nat
  BY SizeAssumption, LenProperties DEF Buffers
<1>1. m \in Nat /\ m <= n /\ Len(txfifo) + m <= Depth
  BY <1>0 DEF Buffers, Moved, Room
<1>2. \A i \in 1 .. n : xmit[i] \in Bytes
  BY LenProperties DEF Buffers
<1>3. /\ txfifo' = txfifo \o SubSeq(xmit, 1, m) /\ xmit' = SubSeq(xmit, m + 1, n)
      /\ txint' = (m < n) /\ xmitwaiting' = (xmitwaiting /\ m = 0)
  BY DEF Xmitchars
<1> HIDE DEF m, n
<1>4. SubSeq(xmit, 1, m) \in Seq(Bytes) /\ Len(SubSeq(xmit, 1, m)) = m
  <2>1. \A i \in 1 .. m : xmit[i] \in Bytes
    BY <1>0, <1>1, <1>2
  <2> QED  BY <1>1, <2>1, SubSeqProperties
<1>5. xmit' \in Seq(Bytes) /\ Len(xmit') = n - m
  <2>1. \A i \in m + 1 .. n : xmit[i] \in Bytes
    BY <1>0, <1>1, <1>2
  <2> QED  BY <1>0, <1>1, <1>3, <2>1, SubSeqProperties
<1>6. txfifo' \in Seq(Bytes) /\ Len(txfifo') = Len(txfifo) + m
  BY <1>3, <1>4, ConcatProperties DEF Buffers
<1>7. xmit' # <<>> <=> m < n
  BY <1>0, <1>1, <1>5, EmptySeq
<1>8. xmit # <<>> => n # 0
  BY EmptySeq DEF n, Buffers
<1>9. Len(xmit') <= TxSize
  BY <1>0, <1>1, <1>5 DEF Buffers, n
<1>10. txint' \in BOOLEAN /\ (txint' <=> xmit' # <<>>)
  <2> DEFINE more == m < n
  <2>1. txint' = more /\ more \in BOOLEAN /\ (xmit' # <<>> <=> more)
    BY <1>3, <1>7
  <2> HIDE DEF more
  <2> QED  BY <2>1
<1>11. xmitwaiting' \in BOOLEAN /\ (xmitwaiting' => xmitwaiting /\ m = 0)
  BY <1>3
<1>12. m = 0 /\ xmit # <<>> => xmit' # <<>>
  BY <1>0, <1>7, <1>8
<1> QED  BY <1>1, <1>5, <1>6, <1>9, <1>10, <1>11, <1>12

LEMMA RecvcharsDoes ==
  ASSUME Buffers, Recvchars
  PROVE  /\ recv' \in Seq(Bytes) /\ Len(recv') <= RxSize
         /\ rxfifo' \in Seq(Bytes) /\ Len(rxfifo') <= RxDepth
<1> DEFINE all == recv \o rxfifo
           n == Len(all)
           m == IF n < RxSize THEN n ELSE RxSize
<1>1. all \in Seq(Bytes)
  BY ConcatProperties DEF Buffers
<1>2. recv' = SubSeq(all, 1, m) /\ rxfifo' = <<>>
  BY DEF Recvchars
<1> HIDE DEF all
<1>3. n \in Nat /\ RxSize \in Nat /\ RxDepth \in Nat /\ \A i \in 1 .. n : all[i] \in Bytes
  BY <1>1, SizeAssumption, LenProperties
<1> HIDE DEF n
<1>4. m \in Nat /\ m <= RxSize /\ \A i \in 1 .. m : all[i] \in Bytes
  BY <1>3
<1> HIDE DEF m
<1>5. recv' \in Seq(Bytes) /\ Len(recv') = m
  BY <1>2, <1>4, SubSeqProperties
<1> QED  BY <1>2, <1>3, <1>4, <1>5, EmptySeq

LEMMA BuffersStep == ASSUME Buffers, [Next]_vars PROVE Buffers'
<1> USE DEF Buffers
<1>0. /\ TxSize \in Nat \ {0} /\ RxSize \in Nat \ {0} /\ Depth \in Nat \ {0}
      /\ RxDepth \in Nat \ {0}
      /\ <<>> \in Seq(Bytes) /\ Len(<<>>) = 0
      /\ \A s \in Seq(Bytes) : Len(s) \in Nat /\ (s # <<>> => Len(s) # 0)
  BY SizeAssumption, EmptySeq, LenProperties
<1>e. /\ Len(<<>>) <= TxSize /\ Len(<<>>) <= RxSize
      /\ Len(<<>>) <= Depth /\ Len(<<>>) <= RxDepth
  BY <1>0
<1>1. ASSUME NEW t \in Threads, Step(t) PROVE Buffers'
  <2>1. CASE Open(t)
    <3>1. \/ xmit' = <<>> /\ recv' = <<>> /\ txfifo' = <<>> /\ rxfifo' = <<>>
          \/ UNCHANGED <<xmit, recv, txfifo, rxfifo>>
      BY <2>1 DEF Open, Setup, LowputcConfig, hwVars, bufVars
    <3>2. UNCHANGED rest
      BY <2>1 DEF Open
    <3>3. CASE UNCHANGED <<xmit, recv, txfifo, rxfifo>>
      BY <3>2, <3>3
    <3>4. CASE xmit' = <<>> /\ recv' = <<>> /\ txfifo' = <<>> /\ rxfifo' = <<>>
      BY <1>0, <1>e, <3>2, <3>4, Zenon
    <3> QED  BY <3>1, <3>3, <3>4
  <2>8. ASSUME NEW in, NEW out, Flush(t, in, out) PROVE Buffers'
    <3>1. (xmit' = <<>> \/ xmit' = xmit) /\ (recv' = <<>> \/ recv' = recv)
      BY <2>8 DEF Flush
    <3>2. UNCHANGED <<txfifo, rxfifo, rest>>
      BY <2>8 DEF Flush, hwVars
    <3>3. xmit' \in Seq(Bytes) /\ Len(xmit') <= TxSize
      BY <1>0, <1>e, <3>1, Zenon
    <3>4. recv' \in Seq(Bytes) /\ Len(recv') <= RxSize
      BY <1>0, <1>e, <3>1, Zenon
    <3> QED  BY <3>2, <3>3, <3>4
  <2>2. ASSUME NEW n, Close(t, n) PROVE Buffers'
    BY <2>2 DEF Close, Shutdown, hwVars, setVars, bufVars
  <2>3. ASSUME NEW data \in Seq(Bytes), NEW n, Write(t, data, n) PROVE Buffers'
    BY <2>3 DEF Write, setVars, hwVars, bufVars
  <2>4. CASE Put(t)
    <3>1. /\ rest[t] \in Seq(Bytes) /\ rest[t] # <<>> /\ Len(xmit) < TxSize
          /\ xmit' = Append(xmit, Head(rest[t])) /\ rest' = [rest EXCEPT ![t] = Tail(@)]
          /\ UNCHANGED <<recv, txfifo, rxfifo>>
      BY <2>4 DEF Put, setVars, hwVars
    <3>2. Head(rest[t]) \in Bytes /\ Tail(rest[t]) \in Seq(Bytes)
      BY <3>1, HeadTailProperties
    <3>3. xmit' \in Seq(Bytes) /\ Len(xmit') = Len(xmit) + 1
      BY <3>1, <3>2, AppendProperties
    <3> QED  BY <1>0, <3>1, <3>2, <3>3
  <2>5. CASE Block(t) \/ WriteEnds(t)
    <3>1. Xmitchars \/ UNCHANGED <<txfifo, xmit>>
      BY <2>5 DEF Block, WriteEnds, TxintOn
    <3>2. UNCHANGED <<recv, rxfifo, rest>>
      BY <2>5 DEF Block, WriteEnds
    <3> QED  BY <3>1, <3>2, XmitcharsDoes
  <2>6. CASE Unblock(t) \/ Closed(t) \/ Drain(t) \/ (\E m \in Terms : Tcsets(t, m))
    <3>1. UNCHANGED <<xmit, recv, txfifo, rxfifo, rest>>
      BY <2>6 DEF Unblock, Closed, Shutdown, Drain, Tcsets, setVars, hwVars, bufVars
    <3> QED  BY <3>1
  <2>7. CASE Read(t)
    <3>1. recv # <<>> => Tail(recv) \in Seq(Bytes) /\ Len(Tail(recv)) = Len(recv) - 1
      BY HeadTailProperties
    <3> QED  BY <1>0, <2>7, <3>1 DEF Read, setVars, hwVars
  <2> QED  BY <1>1, <2>1, <2>2, <2>3, <2>4, <2>5, <2>6, <2>7, <2>8 DEF Step, Goes
<1>2. CASE Interrupt
  <2>1. Xmitchars \/ UNCHANGED <<txfifo, xmit>>
    BY <1>2 DEF Interrupt
  <2>2. Recvchars \/ UNCHANGED <<recv, rxfifo>>
    BY <1>2 DEF Interrupt
  <2>3. UNCHANGED rest
    BY <1>2 DEF Interrupt
  <2> QED  BY <2>1, <2>2, <2>3, XmitcharsDoes, RecvcharsDoes
<1>3. CASE InterruptEnds \/ Rto \/ UNCHANGED vars
  <2>1. UNCHANGED <<xmit, recv, txfifo, rxfifo, rest>>
    BY <1>3 DEF InterruptEnds, Rto, vars, setVars, hwVars, bufVars
  <2> QED  BY <2>1
<1>4. CASE Shift
  <2>1. /\ txfifo # <<>> /\ txfifo' = Tail(txfifo) /\ UNCHANGED <<xmit, recv, rest>>
        /\ rxfifo' = IF Len(rxfifo) < RxDepth THEN Append(rxfifo, Head(txfifo)) ELSE rxfifo
    BY <1>4 DEF Shift, bufVars
  <2>2. Head(txfifo) \in Bytes /\ Tail(txfifo) \in Seq(Bytes) /\ Len(Tail(txfifo)) = Len(txfifo) - 1
    BY <2>1, HeadTailProperties
  <2>3. Append(rxfifo, Head(txfifo)) \in Seq(Bytes)
          /\ Len(Append(rxfifo, Head(txfifo))) = Len(rxfifo) + 1
    BY <2>2, AppendProperties
  <2>4. rxfifo' \in Seq(Bytes) /\ Len(rxfifo') <= RxDepth
    BY <1>0, <2>1, <2>3
  <2> QED  BY <1>0, <2>1, <2>2, <2>4
<1>5. ASSUME NEW b \in Bytes, Lowputc(b) PROVE Buffers'
  <2>1. /\ Room > 0 /\ txfifo' = Append(txfifo, b)
        /\ UNCHANGED <<xmit, recv, rxfifo, rest>>
    BY <1>5 DEF Lowputc, bufVars
  <2>2. txfifo' \in Seq(Bytes) /\ Len(txfifo') = Len(txfifo) + 1
    BY <2>1, AppendProperties
  <2> QED  BY <1>0, <2>1, <2>2 DEF Room
<1> QED  BY <1>1, <1>2, <1>3, <1>4, <1>5, StepsAre DEF System

LEMMA FlagsStep ==
  ASSUME Buffers, Flags, Turn, [Next]_vars
  PROVE  Flags'
<1> DEFINE Booleans == /\ isconsole \in BOOLEAN /\ spoiled \in BOOLEAN /\ clocked \in BOOLEAN
                       /\ enabled \in BOOLEAN /\ txint \in BOOLEAN /\ rxint \in BOOLEAN
                       /\ attached \in BOOLEAN /\ rto \in BOOLEAN /\ xmitwaiting \in BOOLEAN
           Others == /\ open_count \in Nat /\ xmitlock \in Threads \cup {NoThread}
                     /\ pc \in [Threads -> {"idle", "try", "put", "blocked", "closing"}]
<1>0. Booleans /\ Others
  BY DEF Flags
<1>1. ASSUME NEW t \in Threads, Step(t) PROVE Booleans' /\ Others'
  <2>1. CASE open_count < 2 /\ Open(t)
    <3>1. Booleans'
      BY <1>0, <2>1 DEF Open, Setup, LowputcConfig, UartClockEnable, Attach, Rxint, hwVars
    <3>2. open_count' \in {1, open_count, open_count + 1} /\ pc' = [pc EXCEPT ![t] = "idle"]
            /\ xmitlock' = xmitlock
      BY <2>1 DEF Open, Return
    <3>3. Others'
      BY <1>0, <2>1, <3>2
    <3> QED  BY <3>1, <3>3
  <2>2. ASSUME NEW n \in BOOLEAN, Close(t, n) PROVE Booleans' /\ Others'
    <3>1. Booleans'
      BY <1>0, <2>2 DEF Close, Detach, Shutdown, Rxint, hwVars, setVars
    <3>2. /\ open_count' \in {0, open_count - 1} /\ open_count > 0 /\ xmitlock' = xmitlock
          /\ pc' = [pc EXCEPT ![t] = "idle"] \/ pc' = [pc EXCEPT ![t] = "closing"]
      BY <2>2 DEF Close, Return
    <3>3. Others'
      BY <1>0, <3>2
    <3> QED  BY <3>1, <3>3
  <2>3. ASSUME NEW data, NEW n \in BOOLEAN, Write(t, data, n) PROVE Booleans' /\ Others'
    BY <1>0, <2>3 DEF Write, hwVars, setVars
  <2>4. CASE Put(t) \/ Unblock(t) \/ Read(t) \/ Drain(t)
    BY <1>0, <2>4 DEF Put, Unblock, Read, Drain, Return, hwVars, setVars
  <2>5. CASE Block(t) \/ WriteEnds(t)
    <3>1. \/ Xmitchars
          \/ xmitwaiting' = TRUE /\ txint' = TRUE
          \/ UNCHANGED <<xmitwaiting, txint>>
      BY <2>5 DEF Block, WriteEnds, TxintOn
    <3>2. xmitwaiting' \in BOOLEAN /\ txint' \in BOOLEAN
      BY <1>0, <3>1, XmitcharsDoes
    <3>3. Booleans'
      BY <1>0, <2>5, <3>2 DEF Block, WriteEnds, setVars
    <3>4. Others'
      BY <1>0, <2>5 DEF Block, WriteEnds, Return
    <3> QED  BY <3>3, <3>4
  <2>6. CASE Closed(t)
    BY <1>0, <2>6 DEF Closed, Detach, Shutdown, Return, setVars
  <2>7. ASSUME NEW in \in BOOLEAN, NEW out \in BOOLEAN, Flush(t, in, out)
        PROVE  Booleans' /\ Others'
    BY <1>0, <2>7 DEF Flush, Return, hwVars, setVars
  <2>8. ASSUME NEW m, Tcsets(t, m) PROVE Booleans' /\ Others'
    <3>1. \/ spoiled' = spoiled \/ spoiled' = FALSE
          \/ \E back \in 0 .. Len(Fields) : spoiled' = (back < Len(Fields))
      BY <2>8 DEF Tcsets, setVars
    <3>2. clocked' = clocked
      BY <2>8 DEF Tcsets, setVars
    <3>3. spoiled' \in BOOLEAN
      <4>1. ASSUME NEW back, spoiled' = (back < Len(Fields)) PROVE spoiled' \in BOOLEAN
        <5> DEFINE torn == back < Len(Fields)
        <5>1. spoiled' = torn /\ torn \in BOOLEAN
          BY <4>1
        <5> HIDE DEF torn
        <5> QED  BY <5>1
      <4> QED  BY <1>0, <3>1, <4>1
    <3> QED  BY <1>0, <2>8, <3>2, <3>3 DEF Tcsets, Return, hwVars
  <2> QED  BY <1>1, <2>1, <2>2, <2>3, <2>4, <2>5, <2>6, <2>7, <2>8 DEF Step, Goes
<1>2. CASE Interrupt
  <2>1. Xmitchars \/ UNCHANGED <<xmitwaiting, txint>>
    BY <1>2 DEF Interrupt
  <2>2. xmitwaiting' \in BOOLEAN /\ txint' \in BOOLEAN
    BY <1>0, <2>1, XmitcharsDoes
  <2> QED  BY <1>0, <1>2, <2>2 DEF Interrupt, setVars, Flags
<1>3. CASE InterruptEnds \/ Shift \/ Rto \/ (\E b \in Bytes : Lowputc(b)) \/ UNCHANGED vars
  BY <1>0, <1>3 DEF InterruptEnds, Shift, Rto, Lowputc, vars, setVars, hwVars, Flags
<1> QED  BY <1>1, <1>2, <1>3, StepsAre DEF System, Flags

PortInv == Inv /\ Buffers /\ Flags /\ Turn /\ Served

\* The lock is taken with the buffer, and given back when the write returns.
LEMMA TurnStep == ASSUME PortInv, [Next]_vars PROVE Turn'
<1> USE DEF PortInv
<1>0. /\ pc \in [Threads -> {"idle", "try", "put", "blocked", "closing"}]
      /\ xmitlock \in Threads \cup {NoThread} /\ NoThread \notin Threads /\ open_count \in Nat
  BY ThreadAssumption DEF Flags
<1>1. ASSUME NEW t \in Threads, Step(t) PROVE Turn'
  <2>1. CASE Open(t)
    <3>1. /\ pc[t] = "idle" /\ pc' = [pc EXCEPT ![t] = "idle"] /\ xmitlock' = xmitlock
          /\ open_count' \in {1, open_count + 1, open_count}
      BY <2>1 DEF Open, Return
    <3> QED  BY <1>0, <3>1 DEF Turn, Writing
  <2>2. ASSUME NEW n \in BOOLEAN, Close(t, n) PROVE Turn'
    <3>1. CASE open_count > 1
      <4>0. open_count # 1
        BY <1>0, <3>1
      <4>1. /\ pc[t] = "idle" /\ pc' = [pc EXCEPT ![t] = "idle"] /\ xmitlock' = xmitlock
            /\ open_count' = open_count - 1
        BY <2>2, <4>0, Zenon DEF Close, Return
      <4>2. pc' = pc /\ open_count' > 0
        BY <1>0, <3>1, <4>1
      <4> QED  BY <4>1, <4>2, <3>1 DEF Turn, Writing
    <3>2. CASE ~(open_count > 1)
      <4>1. /\ Alone(t) /\ pc[t] = "idle" /\ xmitlock' = xmitlock
            /\ pc' = [pc EXCEPT ![t] = "idle"] \/ pc' = [pc EXCEPT ![t] = "closing"]
        BY <2>2, <3>2 DEF Close, Return
      <4>2. \A u \in Threads : ~Writing(u) /\ ~Writing(u)'
        BY <1>0, <4>1 DEF Alone, Writing
      <4> QED  BY <4>1, <4>2 DEF Turn
    <3> QED  BY <3>1, <3>2
  <2>3. ASSUME NEW data, NEW n \in BOOLEAN, Write(t, data, n) PROVE Turn'
    <3>1. /\ open_count > 0 /\ open_count' = open_count /\ xmitlock = NoThread /\ xmitlock' = t
          /\ \E x \in {"try", "put"} : pc' = [pc EXCEPT ![t] = x]
      BY <2>3 DEF Write, CanCall
    <3> QED  BY <1>0, <3>1 DEF Turn, Writing
  <2>4. CASE Put(t)
    BY <2>4 DEF Put, Turn, Writing
  <2>5. CASE Block(t) \/ Unblock(t)
    <3>1. /\ Writing(t) /\ UNCHANGED <<open_count, xmitlock>>
          /\ pc' = [pc EXCEPT ![t] = "blocked"] \/ pc' = [pc EXCEPT ![t] = "put"]
      BY <2>5 DEF Block, Unblock, Writing
    <3> QED  BY <1>0, <3>1 DEF Turn, Writing
  <2>6. CASE WriteEnds(t)
    <3>1. /\ Writing(t) /\ open_count' = open_count /\ xmitlock' = NoThread
          /\ pc' = [pc EXCEPT ![t] = "idle"]
      BY <2>6 DEF WriteEnds, Return, Writing
    <3> QED  BY <1>0, <3>1 DEF Turn, Writing
  <2>7. CASE /\ pc[t] \in {"idle", "closing"} /\ UNCHANGED <<open_count, xmitlock>>
             /\ pc' = [pc EXCEPT ![t] = "idle"]
    BY <1>0, <2>7 DEF Turn, Writing
  <2>8. CASE Closed(t) \/ Read(t) \/ Drain(t) \/ (\E in, out \in BOOLEAN : Flush(t, in, out))
             \/ (\E term \in Terms : Tcsets(t, term))
    BY <2>7, <2>8 DEF Closed, Read, Drain, Flush, Tcsets, CanCall, Return
  <2> QED  BY <1>1, <2>1, <2>2, <2>3, <2>4, <2>5, <2>6, <2>8 DEF Step, Goes
<1>2. CASE System
  <2>1. UNCHANGED <<pc, xmitlock, open_count>>
    BY <1>2 DEF System, Interrupt, InterruptEnds, Shift, Rto, Lowputc, vars
  <2> QED  BY <2>1 DEF Turn, Writing
<1> QED  BY <1>1, <1>2, StepsAre

\* Nobody sleeps for room without the lock, or in a port that is shut.
LEMMA NobodyWaits ==
  ASSUME PortInv, NEW t \in Threads,
         \/ pc[t] \in {"try", "put"}
         \/ xmitlock = NoThread
         \/ \A u \in Threads : pc[u] # "blocked"
         \/ open_count = 0
  PROVE  ~xmitwaiting
<1> SUFFICES ASSUME NEW u \in Threads, pc[u] = "blocked" PROVE FALSE
  BY DEF PortInv, Served
<1>1. xmitlock = u /\ open_count > 0
  BY DEF PortInv, Turn, Writing
<1>2. pc[t] \in {"try", "put"} => xmitlock = t
  BY DEF PortInv, Turn, Writing
<1> QED  BY <1>1, <1>2, ThreadAssumption

LEMMA ServedStep == ASSUME PortInv, [Next]_vars PROVE Served'
<1>0. /\ pc \in [Threads -> {"idle", "try", "put", "blocked", "closing"}]
      /\ open_count \in Nat /\ Served /\ Buffers
  BY DEF PortInv, Flags
<1>s. ASSUME UNCHANGED <<open_count, attached, pc, xmit, xmitwaiting, txint>> PROVE Served'
  BY <1>0, <1>s DEF Served, Left
<1>i. ASSUME NEW t \in Threads, pc[t] = "idle", pc' = [pc EXCEPT ![t] = "idle"] PROVE pc' = pc
  BY <1>0, <1>i
<1>1. ASSUME NEW t \in Threads, Step(t) PROVE Served'
  <2>1. CASE Open(t)
    <3>1. /\ pc' = pc /\ xmitwaiting' = xmitwaiting /\ \A u \in Threads : pc[u] # "closing"
      BY <2>1, <1>i DEF Open, Return
    <3>2. CASE open_count = 0 /\ Attach /\ xmit' = <<>>
      <4>1. attached' /\ ~xmitwaiting'
        BY <3>1, <3>2, NobodyWaits DEF Attach
      <4> QED  BY <3>2, <4>1 DEF Served, Left
    <3>3. CASE UNCHANGED <<attached, txint, xmit, open_count>>
      BY <1>s, <3>1, <3>3
    <3>4. CASE open_count > 0 /\ UNCHANGED <<attached, txint, xmit>>
      BY <1>0, <3>1, <3>4 DEF Served, Left
    <3> QED  BY <2>1, <3>2, <3>3, <3>4 DEF Open, bufVars
  <2>2. ASSUME NEW n \in BOOLEAN, Close(t, n) PROVE Served'
    <3>0. /\ pc[t] = "idle" /\ open_count > 0 /\ attached
          /\ UNCHANGED <<xmit, xmitwaiting>>
      BY <1>0, <2>2 DEF Close, bufVars, Served
    <3>1. CASE open_count > 1
      <4>0. open_count # 1
        BY <1>0, <3>1
      <4>1. UNCHANGED <<attached, txint>> /\ pc' = [pc EXCEPT ![t] = "idle"]
        BY <2>2, <4>0, Zenon DEF Close, Return
      <4>2. pc' = pc
        BY <1>i, <3>0, <4>1
      <4> QED  BY <1>0, <3>0, <3>1, <4>1, <4>2 DEF Served, Left
    <3>2. CASE ~(open_count > 1)
      <4>1. Alone(t) /\ open_count' = 0
        BY <2>2, <3>2 DEF Close
      <4>2. \A u \in Threads : pc[u] = "idle"
        BY <3>0, <4>1 DEF Alone
      <4>3. ~xmitwaiting
        BY <4>2, NobodyWaits
      <4>4. CASE pc' = [pc EXCEPT ![t] = "idle"]
        <5>1. pc' = pc
          BY <1>i, <3>0, <4>4
        <5> QED  BY <3>0, <4>1, <4>2, <4>3, <5>1 DEF Served, Left
      <4>5. CASE pc' = [pc EXCEPT ![t] = "closing"] /\ UNCHANGED <<txint, attached>>
        <5>1. Left' => Left
          BY <3>0, <4>2, <4>5 DEF Left
        <5>2. txint' = txint /\ attached'
          BY <3>0, <4>5
        <5> QED  BY <1>0, <3>0, <4>3, <5>1, <5>2 DEF Served
      <4> QED  BY <2>2, <3>2, <4>4, <4>5 DEF Close, Return
    <3> QED  BY <3>1, <3>2
  <2>3. ASSUME NEW data, NEW n \in BOOLEAN, Write(t, data, n) PROVE Served'
    <3>1. /\ xmitlock = NoThread /\ UNCHANGED <<open_count, attached, xmit, xmitwaiting>>
          /\ \E x \in {"try", "put"} : pc' = [pc EXCEPT ![t] = x]
      BY <2>3 DEF Write, bufVars
    <3>2. ~xmitwaiting'
      BY <3>1, NobodyWaits
    <3>3. pc'[t] \in {"try", "put"} /\ ~Left'
      BY <1>0, <3>1 DEF Left
    <3>4. \A u \in Threads : pc'[u] = "closing" => pc[u] = "closing"
      BY <1>0, <3>1
    <3> QED  BY <1>0, <3>1, <3>2, <3>3, <3>4 DEF Served
  <2>4. CASE Put(t)
    <3>1. pc[t] \in {"try", "put"} /\ UNCHANGED <<open_count, attached, pc, xmitwaiting>>
      BY <2>4 DEF Put
    <3>2. ~xmitwaiting'
      BY <3>1, NobodyWaits
    <3>3. ~Left'
      BY <3>1 DEF Left
    <3> QED  BY <1>0, <3>1, <3>2, <3>3 DEF Served
  <2>5. CASE Block(t)
    <3>1. /\ pc[t] = "put" /\ Len(xmit) = TxSize /\ UNCHANGED <<open_count, attached>>
          /\ pc' = [pc EXCEPT ![t] = "blocked"]
          /\ Xmitchars \/ (xmitwaiting' = TRUE /\ txint' = TRUE /\ UNCHANGED xmit)
      BY <2>5 DEF Block, TxintOn
    <3>2. ~xmitwaiting
      BY <3>1, NobodyWaits
    <3>3. xmit # <<>>
      BY <3>1, SizeAssumption, EmptySeq
    <3>4. /\ pc'[t] = "blocked"
          /\ \A u \in Threads : pc'[u] = "closing" => pc[u] = "closing"
      BY <1>0, <3>1
    <3>5. CASE Xmitchars
      BY <1>0, <3>1, <3>2, <3>4, <3>5, XmitcharsDoes DEF Served, Left
    <3>6. CASE xmitwaiting' = TRUE /\ txint' = TRUE /\ UNCHANGED xmit
      BY <1>0, <3>1, <3>3, <3>4, <3>6 DEF Served
    <3> QED  BY <3>1, <3>5, <3>6
  <2>6. CASE Unblock(t)
    <3>1. /\ ~xmitwaiting /\ UNCHANGED <<open_count, attached, xmit, xmitwaiting>>
          /\ pc' = [pc EXCEPT ![t] = "put"]
      BY <2>6 DEF Unblock, bufVars
    <3>2. ~Left' /\ \A u \in Threads : pc'[u] = "closing" => pc[u] = "closing"
      BY <1>0, <3>1 DEF Left
    <3> QED  BY <1>0, <3>1, <3>2 DEF Served
  <2>7. CASE WriteEnds(t)
    <3>1. /\ pc[t] \in {"try", "put"} /\ UNCHANGED <<open_count, attached>>
          /\ pc' = [pc EXCEPT ![t] = "idle"]
          /\ Xmitchars \/ (xmit = <<>> /\ UNCHANGED <<xmit, xmitwaiting>>)
      BY <2>7 DEF WriteEnds, TxintOn, Return
    <3>2. ~xmitwaiting
      BY <3>1, NobodyWaits
    <3>3. \A u \in Threads : pc'[u] = "closing" => pc[u] = "closing"
      BY <1>0, <3>1
    <3>4. CASE Xmitchars
      BY <1>0, <3>1, <3>2, <3>3, <3>4, XmitcharsDoes DEF Served, Left
    <3>5. CASE xmit = <<>> /\ UNCHANGED <<xmit, xmitwaiting>>
      BY <1>0, <3>1, <3>2, <3>3, <3>5 DEF Served, Left
    <3> QED  BY <3>1, <3>4, <3>5
  <2>8. CASE Closed(t)
    <3>1. /\ pc[t] = "closing" /\ UNCHANGED <<open_count, xmitwaiting>>
          /\ pc' = [pc EXCEPT ![t] = "idle"]
      BY <2>8 DEF Closed, Return
    <3>2. open_count = 0 /\ \A u \in Threads \ {t} : pc[u] = "idle"
      BY <3>1 DEF PortInv, Inv, Opened
    <3>3. ~xmitwaiting
      BY <3>2, NobodyWaits
    <3>4. \A u \in Threads : pc'[u] = "idle"
      BY <1>0, <3>1, <3>2
    <3> QED  BY <3>1, <3>2, <3>3, <3>4 DEF Served, Left
  <2>9. CASE Read(t) \/ Drain(t) \/ (\E term \in Terms : Tcsets(t, term))
    <3>1. UNCHANGED <<open_count, attached, pc, xmit, xmitwaiting, txint>>
      BY <2>9, <1>i DEF Read, Drain, Tcsets, CanCall, Return, bufVars
    <3> QED  BY <1>s, <3>1
  <2>10. ASSUME NEW in \in BOOLEAN, NEW out \in BOOLEAN, Flush(t, in, out) PROVE Served'
    <3>1. /\ UNCHANGED <<open_count, attached, pc, txint>>
          /\ \/ xmit' = <<>> /\ ~xmitwaiting'
             \/ xmit' = xmit /\ (xmitwaiting' => xmitwaiting)
      BY <2>10, <1>i DEF Flush, CanCall, Return
    <3> QED  BY <1>0, <3>1 DEF Served, Left
  <2> QED
    BY <1>1, <2>1, <2>2, <2>3, <2>4, <2>5, <2>6, <2>7, <2>8, <2>9, <2>10 DEF Step, Goes
<1>2. CASE Interrupt
  <2>1. UNCHANGED <<open_count, attached, pc>>
    BY <1>2 DEF Interrupt
  <2>2. CASE Xmitchars
    BY <1>0, <2>1, <2>2, XmitcharsDoes DEF Served, Left
  <2>3. CASE UNCHANGED <<xmit, txint, xmitwaiting>>
    BY <1>s, <2>1, <2>3
  <2> QED  BY <1>2, <2>2, <2>3 DEF Interrupt
<1>3. CASE InterruptEnds \/ Shift \/ Rto \/ (\E b \in Bytes : Lowputc(b)) \/ UNCHANGED vars
  <2>1. UNCHANGED <<open_count, attached, pc, xmit, xmitwaiting, txint>>
    BY <1>3 DEF InterruptEnds, Shift, Rto, Lowputc, vars, bufVars
  <2> QED  BY <1>s, <2>1
<1> QED  BY <1>1, <1>2, <1>3, StepsAre DEF System

LEMMA PortInit == Init => PortInv
<1> SUFFICES ASSUME Init PROVE PortInv
  OBVIOUS
<1>1. \A t \in Threads : pc[t] = "idle"
  BY DEF Init
<1>2. Buffers
  BY SizeAssumption, EmptySeq DEF Init, Buffers
<1>3. Flags
  <2>1. open_count \in Nat
    BY DEF Init
  <2>2. xmitlock \in Threads \cup {NoThread}
          /\ pc \in [Threads -> {"idle", "try", "put", "blocked", "closing"}]
    BY DEF Init
  <2> QED  BY <2>1, <2>2 DEF Init, Flags
<1>4. Turn /\ Served
  BY <1>1, ThreadAssumption DEF Init, Turn, Writing, Served, Left
<1> QED  BY <1>2, <1>3, <1>4, InvInit DEF PortInv

LEMMA PortStep == PortInv /\ [Next]_vars => PortInv'
<1> SUFFICES ASSUME PortInv, [Next]_vars PROVE PortInv'
  OBVIOUS
<1>1. Inv' /\ Buffers'
  BY InvNext, BuffersStep DEF PortInv
<1>2. Flags'
  BY FlagsStep DEF PortInv
<1> QED  BY <1>1, <1>2, TurnStep, ServedStep DEF PortInv

\* The port for any number of threads, sizes of buffers and FIFOs, clock and
\* rates: the registers hold what is kept, and nobody who sleeps in it is left
\* without the interrupt that would wake it.
THEOREM PortCorrect == Spec => []PortOK
<1>1. PortInv => TypeOK
  BY DEF PortInv, Buffers, Flags, TypeOK
<1>2. PortInv => AsConfigured
  BY InvConfigures DEF PortInv
<1>3. PortInv => NobodyStranded
  <2> SUFFICES ASSUME PortInv PROVE NobodyStranded
    OBVIOUS
  <2>1. ASSUME NEW t \in Threads, pc[t] \in {"try", "put", "blocked"} PROVE xmitlock = t
    BY <2>1 DEF PortInv, Turn, Writing
  <2>2. ASSUME NEW t \in Threads, pc[t] = "blocked", xmitwaiting
        PROVE  enabled /\ attached /\ txint /\ xmit # <<>>
    <3>1. \A u \in Threads : pc[u] \notin {"try", "put"}
      BY <2>2, NobodyWaits
    <3>2. open_count > 0 /\ xmit # <<>>
      BY <2>2 DEF PortInv, Turn, Writing, Served
    <3> QED  BY <3>1, <3>2 DEF PortInv, Inv, Opened, Served, Left
  <2>3. ASSUME NEW t \in Threads, pc[t] = "closing"
        PROVE  enabled /\ attached /\ (xmit # <<>> => txint)
    <3>1. \A u \in Threads : pc[u] \notin {"try", "put"}
      BY <2>3 DEF PortInv, Inv, Opened
    <3> QED  BY <2>3, <3>1 DEF PortInv, Inv, Opened, Served, Left
  <2> QED  BY <2>1, <2>2, <2>3 DEF NobodyStranded
<1> QED  BY PortInit, PortStep, <1>1, <1>2, <1>3, PTL DEF Spec, PortOK
-----------------------------------------------------------------------------
(* The bytes: Uart implements ByteStream                                   *)

LEMMA Assoc ==
  ASSUME NEW S, NEW a \in Seq(S), NEW b \in Seq(S), NEW c \in Seq(S)
  PROVE  (a \o b) \o c = a \o (b \o c)
BY ConcatAssociative

\* What moves from the front of one sequence to the end of another stays in its
\* place.
LEMMA FrontMoves ==
  ASSUME NEW S, NEW s \in Seq(S), NEW u \in Seq(S), NEW m \in 0 .. Len(u)
  PROVE  (s \o SubSeq(u, 1, m)) \o SubSeq(u, m + 1, Len(u)) = s \o u
<1>0. Len(u) \in Nat /\ \A i \in 1 .. Len(u) : u[i] \in S
  BY LenProperties
<1>1. SubSeq(u, 1, m) \in Seq(S)
  BY <1>0, SubSeqProperties
<1>2. SubSeq(u, m + 1, Len(u)) \in Seq(S)
  BY <1>0, SubSeqProperties
<1>3. SubSeq(u, 1, m) \o SubSeq(u, m + 1, Len(u)) = u
  <2>1. 1 \in 1 .. Len(u) + 1 /\ m \in 1 - 1 .. Len(u) /\ Len(u) \in m .. Len(u)
    BY <1>0
  <2>2. SubSeq(u, 1, m) \o SubSeq(u, m + 1, Len(u)) = SubSeq(u, 1, Len(u))
    BY <2>1, ConcatAdjacentSubSeq
  <2> QED  BY <2>2, SubSeqFull
<1> DEFINE front == SubSeq(u, 1, m)
           back == SubSeq(u, m + 1, Len(u))
<1>4. front \in Seq(S) /\ back \in Seq(S) /\ front \o back = u
  BY <1>1, <1>2, <1>3
<1> HIDE DEF front, back
<1>5. (s \o front) \o back = s \o (front \o back)
  <2>1. s \in Seq(S) /\ front \in Seq(S) /\ back \in Seq(S)
    BY <1>4
  <2> QED  BY ONLY <2>1, Assoc
<1>6. (s \o front) \o back = s \o u
  BY <1>4, <1>5, Zenon
<1> QED  BY <1>6 DEF front, back

LEMMA FrontMovesBy ==
  ASSUME Buffers, Xmitchars
  PROVE  Sent' = Sent
<1>1. Len(xmit) \in Nat /\ Len(txfifo) \in Nat /\ Depth \in Nat
  BY SizeAssumption, LenProperties DEF Buffers
<1>2. Moved \in 0 .. Len(xmit)
  BY <1>1 DEF Buffers, Moved, Room
<1> QED  BY <1>2, FrontMoves DEF Buffers, Xmitchars, Sent

LEMMA AppendRight ==
  ASSUME NEW S, NEW s \in Seq(S), NEW u \in Seq(S), NEW x \in S
  PROVE  s \o Append(u, x) = Append(s \o u, x)
<1>1. <<x>> \in Seq(S) /\ s \o u \in Seq(S)
  BY ConcatProperties
<1> QED  BY <1>1, AppendIsConcat, ConcatAssociative

LEMMA FirstOfBoth ==
  ASSUME NEW S, NEW s \in Seq(S), NEW u \in Seq(S), s # <<>>
  PROVE  s \o u # <<>> /\ Head(s \o u) = Head(s) /\ Tail(s \o u) = Tail(s) \o u
<1>0. Len(s) \in Nat \ {0} /\ Len(u) \in Nat
  BY EmptySeq, LenProperties
<1>1. s \o u \in Seq(S) /\ s \o u # <<>> /\ Len(s \o u) = Len(s) + Len(u)
  BY <1>0, ConcatProperties, EmptySeq
<1>2. Head(s \o u) = Head(s)
  <2>1. (s \o u)[1] = s[1]
    BY <1>0, ConcatProperties
  <2> QED  BY <2>1
<1>3. Tail(s \o u) = Tail(s) \o u
  <2>1. /\ Tail(s) \in Seq(S) /\ Len(Tail(s)) = Len(s) - 1
        /\ \A i \in 1 .. Len(s) - 1 : Tail(s)[i] = s[i + 1]
    BY HeadTailProperties
  <2>2. /\ Tail(s \o u) \in Seq(S) /\ Len(Tail(s \o u)) = Len(s) + Len(u) - 1
        /\ \A i \in 1 .. Len(s) + Len(u) - 1 : Tail(s \o u)[i] = (s \o u)[i + 1]
    BY <1>1, HeadTailProperties
  <2>3. /\ Tail(s) \o u \in Seq(S) /\ Len(Tail(s) \o u) = Len(s) - 1 + Len(u)
        /\ \A i \in 1 .. Len(s) - 1 + Len(u) :
             (Tail(s) \o u)[i] = IF i <= Len(s) - 1 THEN Tail(s)[i] ELSE u[i - (Len(s) - 1)]
    BY <2>1, ConcatProperties
  <2>4. \A i \in 1 .. Len(s) + Len(u) :
          (s \o u)[i] = IF i <= Len(s) THEN s[i] ELSE u[i - Len(s)]
    BY ConcatProperties
  <2>5. \A i \in 1 .. Len(s) + Len(u) - 1 : Tail(s \o u)[i] = (Tail(s) \o u)[i]
    BY <1>0, <2>1, <2>2, <2>3, <2>4
  <2>6. Len(Tail(s \o u)) = Len(Tail(s) \o u)
    BY <1>0, <2>2, <2>3
  <2> QED  BY <1>0, <2>2, <2>3, <2>5, <2>6, SeqEqual
<1> QED  BY <1>1, <1>2, <1>3

LEMMA FirstPart ==
  ASSUME NEW S, NEW s \in Seq(S), NEW u \in Seq(S)
  PROVE  SubSeq(s \o u, 1, Len(s)) = s
<1>0. Len(s) \in Nat
  BY LenProperties
<1>1. CASE s = <<>>
  BY <1>0, <1>1, SubSeqEmpty, EmptySeq
<1>2. CASE s # <<>>
  <2>1. 1 \in 1 .. Len(s) /\ Len(s) \in 1 .. Len(s)
    BY <1>0, <1>2, EmptySeq
  <2> QED  BY <2>1, SubSeqOfConcat1, SubSeqFull
<1> QED  BY <1>1, <1>2

LEMMA LastPart ==
  ASSUME NEW S, NEW s \in Seq(S), NEW u \in Seq(S)
  PROVE  SubSeq(s \o u, Len(s) + 1, Len(s \o u)) = u
<1>0. Len(s) \in Nat /\ Len(u) \in Nat /\ Len(s \o u) = Len(s) + Len(u)
  BY LenProperties, ConcatProperties
<1>1. CASE u = <<>>
  BY <1>0, <1>1, SubSeqEmpty, EmptySeq
<1>2. CASE u # <<>>
  <2>1. Len(u) # 0
    BY <1>2, EmptySeq
  <2>2. /\ Len(s) + 1 \in Len(s) + 1 .. Len(s) + Len(u)
        /\ Len(s) + Len(u) \in Len(s) + 1 .. Len(s) + Len(u)
    BY <1>0, <2>1
  <2>3. SubSeq(s \o u, Len(s) + 1, Len(s) + Len(u))
          = SubSeq(u, Len(s) + 1 - Len(s), Len(s) + Len(u) - Len(s))
    BY <2>2, SubSeqOfConcat2
  <2>4. Len(s) + 1 - Len(s) = 1 /\ Len(s) + Len(u) - Len(s) = Len(u)
    BY <1>0
  <2> QED  BY <1>0, <2>3, <2>4, SubSeqFull
<1> QED  BY <1>1, <1>2

LEMMA StreamInit == Init => Stream!Init
<1> SUFFICES ASSUME Init PROVE Stream!Init
  OBVIOUS
<1>1. <<>> \o <<>> = <<>>
  OBVIOUS
<1> QED  BY <1>1 DEF Init, Stream!Init, Pending, Sent, Received

LEMMA StreamOpens == ASSUME PortInv, NEW t \in Threads, Open(t)
                     PROVE  Stream!Open \/ UNCHANGED Stream!vars
<1>0. UNCHANGED <<isconsole, xmitlock, rest>> /\ Pending' = Pending
  BY DEF Open, Pending
<1>1. CASE open_count = 0 /\ Setup /\ xmit' = <<>> /\ recv' = <<>> /\ open_count' = 1
  <2>1. txfifo' = <<>> /\ rxfifo' = <<>> /\ <<>> \o <<>> = <<>>
    BY <1>1 DEF Setup, LowputcConfig
  <2>2. Sent' = <<>> /\ Received' = <<>>
    BY <1>1, <2>1 DEF Sent, Received
  <2> QED  BY <1>0, <1>1, <2>2 DEF Stream!Open
<1>2. CASE open_count' = open_count /\ UNCHANGED <<hwVars, bufVars>>
  BY <1>0, <1>2 DEF Stream!vars, Sent, Received, hwVars, bufVars
<1>3. CASE open_count > 0 /\ open_count' = open_count + 1 /\ UNCHANGED <<hwVars, bufVars>>
  BY <1>0, <1>3 DEF Stream!Open, Sent, Received, hwVars, bufVars
<1> QED  BY <1>1, <1>2, <1>3 DEF Open

\* A byte that is put leaves what is pending for the end of what is sent.
LEMMA StreamSends == ASSUME PortInv, NEW t \in Threads, Put(t) PROVE Stream!Send
<1>0. /\ xmit \in Seq(Bytes) /\ txfifo \in Seq(Bytes) /\ rest \in [Threads -> Seq(Bytes)]
      /\ xmitlock = t /\ open_count > 0 /\ t # NoThread
  BY ThreadAssumption DEF PortInv, Buffers, Turn, Writing, Put
<1>1. /\ rest[t] # <<>> /\ xmit' = Append(xmit, Head(rest[t]))
      /\ rest' = [rest EXCEPT ![t] = Tail(@)]
      /\ UNCHANGED <<isconsole, open_count, xmitlock, txfifo, recv, rxfifo>>
  BY DEF Put, hwVars
<1>2. Pending = rest[t] /\ Pending' = Tail(rest[t])
  BY <1>0, <1>1 DEF Pending
<1>3. Head(rest[t]) \in Bytes
  BY <1>0, <1>1, HeadTailProperties
<1>4. Sent' = Append(Sent, Head(rest[t]))
  BY <1>0, <1>1, <1>3, AppendRight DEF Sent
<1> QED  BY <1>0, <1>1, <1>2, <1>4 DEF Stream!Send, Received

\* What a flush leaves has gone as far as the FIFOs.
LEMMA StreamFlushes ==
  ASSUME PortInv, NEW t \in Threads, NEW in \in BOOLEAN, NEW out \in BOOLEAN, Flush(t, in, out)
  PROVE  Stream!Flush
<1>0. /\ xmit \in Seq(Bytes) /\ txfifo \in Seq(Bytes) /\ recv \in Seq(Bytes)
      /\ rxfifo \in Seq(Bytes) /\ Len(txfifo) <= Depth /\ Len(rxfifo) <= RxDepth
      /\ open_count > 0 /\ UNCHANGED <<isconsole, open_count, xmitlock, rest, txfifo, rxfifo>>
      /\ xmit' = (IF out THEN <<>> ELSE xmit) /\ recv' = (IF in THEN <<>> ELSE recv)
  BY DEF PortInv, Buffers, Flush, CanCall, hwVars
<1>1. /\ Len(Sent) = Len(txfifo) + Len(xmit) /\ Len(Received) = Len(recv) + Len(rxfifo)
      /\ Len(txfifo) \in Nat /\ Len(xmit) \in Nat /\ Len(recv) \in Nat /\ Len(rxfifo) \in Nat
  BY <1>0, LenProperties, ConcatProperties DEF Sent, Received
<1>2. Sent' \in {Sent, SubSeq(Sent, 1, Len(txfifo))}
  <2>1. txfifo \o <<>> = txfifo
    BY <1>0, ConcatEmptySeq
  <2>2. SubSeq(Sent, 1, Len(txfifo)) = txfifo
    BY <1>0, FirstPart DEF Sent
  <2> QED  BY <1>0, <2>1, <2>2 DEF Sent
<1>3. Received' \in {Received, SubSeq(Received, Len(recv) + 1, Len(Received))}
  <2>1. <<>> \o rxfifo = rxfifo
    BY <1>0, ConcatEmptySeq
  <2>2. SubSeq(Received, Len(recv) + 1, Len(Received)) = rxfifo
    BY <1>0, LastPart DEF Received
  <2> QED  BY <1>0, <2>1, <2>2 DEF Received
<1>4. Len(txfifo) \in 0 .. Len(Sent) /\ Len(txfifo) <= Depth
  BY <1>0, <1>1
<1>5. Len(recv) \in 0 .. Len(Received) /\ Len(Received) - Len(recv) <= RxDepth
  <2>1. RxDepth \in Nat
    BY SizeAssumption
  <2> QED  BY <1>0, <1>1, <2>1
<1>6. Pending' = Pending
  BY <1>0 DEF Pending
<1> QED  BY <1>0, <1>2, <1>3, <1>4, <1>5, <1>6 DEF Stream!Flush

\* The interrupt moves bytes on in both directions.  What finds no room for the
\* reader is the end of what was received.
LEMMA StreamMoves == ASSUME PortInv, Interrupt PROVE Stream!Overrun \/ UNCHANGED Stream!vars
<1>0. UNCHANGED <<isconsole, open_count, xmitlock, rest>> /\ Pending' = Pending
  BY DEF Interrupt, Pending
<1>1. Sent' = Sent
  <2>1. Xmitchars \/ UNCHANGED <<txfifo, xmit>>
    BY DEF Interrupt
  <2> QED  BY <2>1, FrontMovesBy DEF PortInv, Sent
<1>2. CASE UNCHANGED <<recv, rxfifo>>
  BY <1>0, <1>1, <1>2 DEF Stream!vars, Received
<1>3. CASE Recvchars
  <2> DEFINE m == IF Len(Received) < RxSize THEN Len(Received) ELSE RxSize
  <2>1. recv' = SubSeq(Received, 1, m) /\ rxfifo' = <<>>
    BY <1>3 DEF Recvchars, Received
  <2>2. Received \in Seq(Bytes) /\ Len(Received) \in Nat /\ RxSize \in Nat
    BY SizeAssumption, ConcatProperties, LenProperties DEF PortInv, Buffers, Received
  <2>3. recv' \in Seq(Bytes)
    BY <1>3, RecvcharsDoes DEF PortInv
  <2>4. Received' = recv'
    <3>1. \A s \in Seq(Bytes) : s \o <<>> = s
      BY ConcatEmptySeq
    <3> QED  BY <2>1, <2>3, <3>1 DEF Received
  <2>5. CASE Len(Received) > RxSize
    <3>1. m = RxSize
      BY <2>2, <2>5
    <3> QED  BY <1>0, <1>1, <2>1, <2>4, <2>5, <3>1 DEF Stream!Overrun
  <2>6. CASE Len(Received) <= RxSize
    <3>1. m = Len(Received)
      BY <2>2, <2>6
    <3>2. Received' = Received
      BY <2>1, <2>2, <2>4, <3>1, SubSeqFull
    <3> QED  BY <1>0, <1>1, <3>2 DEF Stream!vars
  <2> QED  BY <2>2, <2>5, <2>6
<1> QED  BY <1>2, <1>3 DEF Interrupt

\* The line takes the first byte from one side to the end of the other.
LEMMA StreamArrives == ASSUME PortInv, Shift PROVE Stream!Arrive
<1>0. /\ xmit \in Seq(Bytes) /\ txfifo \in Seq(Bytes) /\ recv \in Seq(Bytes)
      /\ rxfifo \in Seq(Bytes) /\ txfifo # <<>>
      /\ txfifo' = Tail(txfifo)
      /\ UNCHANGED <<isconsole, open_count, xmitlock, rest, xmit, recv>>
      /\ rxfifo' = IF Len(rxfifo) < RxDepth THEN Append(rxfifo, Head(txfifo)) ELSE rxfifo
  BY DEF PortInv, Buffers, Shift, bufVars
<1>1. Sent # <<>> /\ Head(Sent) = Head(txfifo) /\ Sent' = Tail(Sent)
  BY <1>0, FirstOfBoth DEF Sent
<1>2. \/ Received' = Append(Received, Head(Sent))
      \/ Len(Received) >= RxDepth /\ Received' = Received
  <2>1. CASE Len(rxfifo) < RxDepth
    <3>1. Head(txfifo) \in Bytes
      BY <1>0, HeadTailProperties
    <3>2. rxfifo' = Append(rxfifo, Head(txfifo))
      BY <1>0, <2>1
    <3> QED  BY <1>0, <1>1, <3>1, <3>2, AppendRight DEF Received
  <2>2. CASE ~(Len(rxfifo) < RxDepth)
    <3>1. /\ Len(Received) = Len(recv) + Len(rxfifo) /\ Len(recv) \in Nat /\ Len(rxfifo) \in Nat
          /\ RxDepth \in Nat
      BY <1>0, SizeAssumption, ConcatProperties, LenProperties DEF Received
    <3>2. Len(Received) >= RxDepth
      BY <2>2, <3>1
    <3> QED  BY <1>0, <2>2, <3>2 DEF Received
  <2> QED  BY <2>1, <2>2
<1>3. Pending' = Pending
  BY <1>0 DEF Pending
<1> QED  BY <1>0, <1>1, <1>2, <1>3 DEF Stream!Arrive

LEMMA StreamPassed == ASSUME PortInv, NEW b \in Bytes, Lowputc(b) PROVE Stream!PassBy
<1> DEFINE n == Len(txfifo)
<1>0. /\ xmit \in Seq(Bytes) /\ txfifo \in Seq(Bytes) /\ isconsole
      /\ txfifo' = Append(txfifo, b)
      /\ UNCHANGED <<isconsole, open_count, xmitlock, rest, xmit, recv, rxfifo>>
  BY DEF PortInv, Buffers, Lowputc, bufVars
<1>1. /\ n \in Nat /\ Len(xmit) \in Nat /\ Len(Sent) = n + Len(xmit) /\ Depth - n > 0
      /\ Depth \in Nat
  BY <1>0, SizeAssumption, LenProperties, ConcatProperties DEF Sent, Lowputc, Room
<1>2. n \in 0 .. Len(Sent) /\ n < Depth
  BY <1>1
<1>3. SubSeq(Sent, 1, n) = txfifo /\ SubSeq(Sent, n + 1, Len(Sent)) = xmit
  BY <1>0, FirstPart, LastPart DEF Sent
<1>4. Append(txfifo, b) = txfifo \o <<b>>
  BY <1>0, AppendIsConcat
<1>5. Sent' = SubSeq(Sent, 1, n) \o <<b>> \o SubSeq(Sent, n + 1, Len(Sent))
  BY <1>0, <1>3, <1>4 DEF Sent
<1>6. Pending' = Pending /\ Received' = Received
  BY <1>0 DEF Pending, Received
<1> HIDE DEF n
<1> QED  BY <1>0, <1>2, <1>5, <1>6 DEF Stream!PassBy

LEMMA StreamStep == ASSUME PortInv, [Next]_vars PROVE [Stream!Next]_(Stream!vars)
<1>s. ASSUME UNCHANGED <<isconsole, open_count, xmitlock, rest, recv, rxfifo>>, Sent' = Sent
      PROVE  UNCHANGED Stream!vars
  BY <1>s DEF Stream!vars, Pending, Received
<1>u. UNCHANGED <<txfifo, xmit>> \/ Xmitchars => Sent' = Sent
  BY FrontMovesBy DEF PortInv, Sent
<1>1. ASSUME NEW t \in Threads, Step(t) PROVE [Stream!Next]_(Stream!vars)
  <2>1. CASE Open(t)
    BY <2>1, StreamOpens DEF Stream!Next
  <2>2. ASSUME NEW n \in BOOLEAN, Close(t, n) PROVE Stream!Close
    <3>1. /\ open_count > 0 /\ open_count' = open_count - 1
          /\ UNCHANGED <<isconsole, xmitlock, rest, xmit, recv, txfifo, rxfifo>>
      <4>1. open_count > 0 /\ UNCHANGED <<isconsole, xmitlock, rest, xmit, recv>>
        BY <2>2 DEF Close, bufVars
      <4>2. open_count' = open_count - 1 \/ (open_count = 1 /\ open_count' = 0)
        BY <2>2, Zenon DEF Close
      <4>3. 0 = 1 - 1
        OBVIOUS
      <4>4. UNCHANGED <<txfifo, rxfifo>>
        BY <2>2 DEF Close, Shutdown, hwVars
      <4> QED  BY <4>1, <4>2, <4>3, <4>4
    <3> QED  BY <3>1 DEF Stream!Close, Pending, Sent, Received
  <2>3. ASSUME NEW data \in Seq(Bytes), NEW n \in BOOLEAN, Write(t, data, n)
        PROVE  Stream!Begin(t)
    <3>1. /\ open_count > 0 /\ xmitlock = NoThread /\ xmitlock' = t /\ data # <<>>
          /\ rest' = [rest EXCEPT ![t] = data]
          /\ UNCHANGED <<isconsole, open_count, xmit, recv, txfifo, rxfifo>>
      BY <2>3 DEF Write, CanCall, hwVars, bufVars
    <3>2. Pending' = data
      BY <3>1, ThreadAssumption DEF Pending, PortInv, Buffers
    <3> QED  BY <3>1, <3>2 DEF Stream!Begin, Sent, Received
  <2>4. CASE Put(t)
    BY <2>4, StreamSends DEF Stream!Next
  <2>5. CASE Block(t)
    <3>1. Sent' = Sent
      BY <1>u, <2>5 DEF Block, TxintOn
    <3> QED  BY <1>s, <2>5, <3>1 DEF Block
  <2>6. CASE WriteEnds(t)
    <3>1. Sent' = Sent
      BY <1>u, <2>6 DEF WriteEnds, TxintOn
    <3>2. xmitlock = t /\ t # NoThread
      BY <2>6, ThreadAssumption DEF WriteEnds, PortInv, Turn, Writing
    <3>3. xmitlock' = NoThread /\ UNCHANGED <<isconsole, open_count, recv, rxfifo>>
      BY <2>6 DEF WriteEnds
    <3>4. Stream!End
      BY <3>1, <3>2, <3>3 DEF Stream!End, Pending, Received
    <3> QED  BY <3>4 DEF Stream!Next
  <2>7. CASE Read(t)
    <3>1. /\ open_count > 0 /\ recv' = (IF recv = <<>> THEN recv ELSE Tail(recv))
          /\ UNCHANGED <<isconsole, open_count, xmitlock, rest, xmit, txfifo, rxfifo>>
      BY <2>7 DEF Read, CanCall, hwVars
    <3>2. Sent' = Sent /\ Pending' = Pending
      BY <3>1 DEF Sent, Pending
    <3>3. CASE recv = <<>>
      BY <1>s, <3>1, <3>2, <3>3
    <3>4. CASE recv # <<>>
      <4>1. Received # <<>> /\ Received' = Tail(Received)
        BY <3>1, <3>4, FirstOfBoth DEF PortInv, Buffers, Received
      <4> QED  BY <3>1, <3>2, <4>1 DEF Stream!Take, Stream!Next
    <3> QED  BY <3>3, <3>4
  <2>8. ASSUME NEW in \in BOOLEAN, NEW out \in BOOLEAN, Flush(t, in, out)
        PROVE  Stream!Flush
    BY <2>8, StreamFlushes
  <2>9. CASE Unblock(t) \/ Closed(t) \/ Drain(t) \/ (\E m \in Terms : Tcsets(t, m))
    <3>1. UNCHANGED <<isconsole, open_count, xmitlock, rest, xmit, recv, txfifo, rxfifo>>
      BY <2>9 DEF Unblock, Closed, Shutdown, Drain, Tcsets, setVars, hwVars, bufVars
    <3> QED  BY <1>s, <1>u, <3>1
  <2> QED  BY <1>1, <2>1, <2>2, <2>3, <2>4, <2>5, <2>6, <2>7, <2>8, <2>9
           DEF Step, Goes, Stream!Next
<1>2. CASE Interrupt
  BY <1>2, StreamMoves DEF Stream!Next
<1>3. CASE Shift
  BY <1>3, StreamArrives DEF Stream!Next
<1>4. ASSUME NEW b \in Bytes, Lowputc(b) PROVE [Stream!Next]_(Stream!vars)
  BY <1>4, StreamPassed DEF Stream!Next
<1>5. CASE InterruptEnds \/ Rto \/ UNCHANGED vars
  <2>1. UNCHANGED <<isconsole, open_count, xmitlock, rest, xmit, recv, txfifo, rxfifo>>
    BY <1>5 DEF InterruptEnds, Rto, vars, hwVars, bufVars
  <2> QED  BY <1>s, <1>u, <2>1
<1> QED  BY <1>1, <1>2, <1>3, <1>4, <1>5, StepsAre DEF System

\* For any sizes of buffers and FIFOs, and any threads that open, write, read,
\* flush and close in any order: bytes arrive once each and in the order in which
\* they were put, no two writes mix, and a byte is lost only where ByteStream
\* says so.
THEOREM StreamImplemented == Spec => ImplementsStream
<1>1. PortInv /\ [Next]_vars => [Stream!Next]_(Stream!vars)
  BY StreamStep
<1> QED  BY PortInit, PortStep, StreamInit, <1>1, PTL DEF Spec, ImplementsStream, Stream!Spec
=============================================================================
