------------------------------ MODULE DmaLease ------------------------------
(***************************************************************************)
(* What the DMA0 adapter (chips/bl616cl/bl616cl_dma.c) promises the users  *)
(* of one of its channels, with no semaphore, lock, interrupt or thread:   *)
(*                                                                         *)
(*   - a channel is free, held by a client, or draining after a put;       *)
(*   - while it is held, requests are outstanding one at a time, and a     *)
(*     request is submitted only when no report of an earlier one runs;    *)
(*   - a request is retired once, with at most one report (callback);      *)
(*   - the channel becomes free only when no report is running, and every  *)
(*     drain ends.                                                         *)
(*                                                                         *)
(* DmaChannel is shown to implement it.                                    *)
(***************************************************************************)
EXTENDS Naturals

CONSTANT Channels       \* the fixed channel identifiers

VARIABLES
    lease,              \* "free", "held" or "draining"
    active,             \* a request is outstanding
    reports             \* callbacks of the channel that are running

vars == <<lease, active, reports>>

Init == /\ lease   = [c \in Channels |-> "free"]
        /\ active  = [c \in Channels |-> FALSE]
        /\ reports = [c \in Channels |-> 0]

Acquire(c) == /\ lease[c] = "free"
              /\ lease' = [lease EXCEPT ![c] = "held"]
              /\ UNCHANGED <<active, reports>>

Submit(c) == /\ lease[c] = "held"
             /\ ~active[c]
             /\ reports[c] = 0
             /\ active' = [active EXCEPT ![c] = TRUE]
             /\ UNCHANGED <<lease, reports>>

\* The request ends, by completion, error or cancellation; the first two
\* report to the client if it gave a callback.
Retire(c) == /\ active[c]
             /\ active' = [active EXCEPT ![c] = FALSE]
             /\ \E n \in {0, 1} : reports' = [reports EXCEPT ![c] = n]
             /\ UNCHANGED lease

ReportDone(c) == /\ reports[c] = 1
                 /\ reports' = [reports EXCEPT ![c] = 0]
                 /\ UNCHANGED <<lease, active>>

BeginRelease(c) == /\ lease[c] = "held"
                   /\ lease'  = [lease EXCEPT ![c] = "draining"]
                   /\ active' = [active EXCEPT ![c] = FALSE]
                   /\ UNCHANGED reports

EndRelease(c) == /\ lease[c] = "draining"
                 /\ reports[c] = 0
                 /\ lease' = [lease EXCEPT ![c] = "free"]
                 /\ UNCHANGED <<active, reports>>

ChannelNext(c) == \/ Acquire(c) \/ Submit(c) \/ Retire(c) \/ ReportDone(c)
                  \/ BeginRelease(c) \/ EndRelease(c)

Next == \E c \in Channels : ChannelNext(c)

Safety == Init /\ [][Next]_vars

Spec == /\ Safety
        /\ \A c \in Channels : WF_vars(ReportDone(c)) /\ WF_vars(EndRelease(c))
=============================================================================
