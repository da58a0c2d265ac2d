----------------------------- MODULE ByteStream ------------------------------
(***************************************************************************)
(* What a serial port whose wires are joined (chips/bl616cl/               *)
(* bl616cl_serial.c) promises of the bytes that are written to it, with no *)
(* interrupt, mask, buffer or FIFO:                                        *)
(*                                                                         *)
(*   - bytes arrive once each and in the order in which they were written, *)
(*     and bytes of two writes do not mix;                                 *)
(*   - bytes are lost only where they arrive faster than they are read, by *)
(*     a flush, and when a port that was closed is opened again;           *)
(*   - only a byte for the console goes past others, and into no write.    *)
(*                                                                         *)
(* Uart is shown to implement it.                                          *)
(***************************************************************************)
EXTENDS Naturals, Sequences

CONSTANTS
    Threads, NoThread, Bytes,
    Depth, RxDepth,     \* bytes that the line takes at either end
    RxSize              \* bytes that wait for a reader

VARIABLES
    console, users,     \* whether the port is the console; who has it open
    writer, pending,    \* who writes, and what is still to be taken over
    sent, received      \* taken over but not arrived, and arrived but not read

vars == <<console, users, writer, pending, sent, received>>

Init ==
    /\ console \in BOOLEAN /\ users = 0
    /\ writer = NoThread /\ pending = <<>> /\ sent = <<>> /\ received = <<>>

\* Who opens a closed port finds nothing in it.
Open ==
    /\ users' = users + 1
    /\ \/ users > 0 /\ UNCHANGED <<sent, received>>
       \/ users = 0 /\ sent' = <<>> /\ received' = <<>>
    /\ UNCHANGED <<console, writer, pending>>

Close ==
    /\ users > 0 /\ users' = users - 1
    /\ UNCHANGED <<console, writer, pending, sent, received>>

Begin(t) ==
    /\ users > 0 /\ writer = NoThread /\ writer' = t
    /\ pending' \in Seq(Bytes) \ {<<>>}
    /\ UNCHANGED <<console, users, sent, received>>

Send ==
    /\ users > 0 /\ pending # <<>>
    /\ pending' = Tail(pending) /\ sent' = Append(sent, Head(pending))
    /\ UNCHANGED <<console, users, writer, received>>

\* A write may end early; it says how much was taken over.
End ==
    /\ writer # NoThread /\ writer' = NoThread /\ pending' = <<>>
    /\ UNCHANGED <<console, users, sent, received>>

Arrive ==
    /\ sent # <<>> /\ sent' = Tail(sent)
    /\ \/ received' = Append(received, Head(sent))
       \/ Len(received) >= RxDepth /\ UNCHANGED received
    /\ UNCHANGED <<console, users, writer, pending>>

\* The reader is late: what arrived last is lost.
Overrun ==
    /\ Len(received) > RxSize
    /\ received' = SubSeq(received, 1, RxSize)
    /\ UNCHANGED <<console, users, writer, pending, sent>>

Take ==
    /\ users > 0 /\ received # <<>> /\ received' = Tail(received)
    /\ UNCHANGED <<console, users, writer, pending, sent>>

\* What the line has taken at either end is beyond a flush.
Flush ==
    /\ users > 0
    /\ \E n \in 0 .. Len(sent) :
          n <= Depth /\ sent' \in {sent, SubSeq(sent, 1, n)}
    /\ \E n \in 0 .. Len(received) :
          /\ Len(received) - n <= RxDepth
          /\ received' \in {received, SubSeq(received, n + 1, Len(received))}
    /\ UNCHANGED <<console, users, writer, pending>>

PassBy ==
    /\ console
    /\ \E b \in Bytes, n \in 0 .. Len(sent) :
          n < Depth /\ sent' = SubSeq(sent, 1, n) \o <<b>> \o SubSeq(sent, n + 1, Len(sent))
    /\ UNCHANGED <<console, users, writer, pending, received>>

Next ==
    \/ Open \/ Close \/ (\E t \in Threads : Begin(t)) \/ Send \/ End
    \/ Arrive \/ Overrun \/ Take \/ Flush \/ PassBy

Spec == Init /\ [][Next]_vars
=============================================================================
