----------------------------- MODULE DmaChannel -----------------------------
(***************************************************************************)
(* The DMA0 adapter, chips/bl616cl/bl616cl_dma.c: its channels, the client *)
(* threads that get, configure, start, stop and put them, the interrupt    *)
(* handler, the callbacks it runs outside the lock, and, in a test build,  *)
(* the thread that injects interrupt status by hand.                       *)
(*                                                                         *)
(* Every region between spin_lock_irqsave and spin_unlock_irqrestore is    *)
(* one action; a semaphore wait or post, a callback and a read made after  *)
(* the unlock are actions of their own.  The core is single: the interrupt *)
(* handler runs to its end before a thread runs again, so threads move     *)
(* only while the context Irq is not busy (CanRun).                        *)
(*                                                                         *)
(* Requests with invalid parameters return an error and change nothing:    *)
(* they are the guards of Config and Start.                                *)
(*                                                                         *)
(* An operator with "_" in its name is a faulty variant of the operator    *)
(* that follows it; no specification uses it (see README.md).              *)
(***************************************************************************)
EXTENDS Integers, FiniteSets

CONSTANTS
    Channels,       \* channel identifiers, 0 .. 7 on the chip
    Threads,        \* client threads
    Irq,            \* the interrupt context
    NoChan, NoThread,
    Widths,         \* transfer widths a configuration may ask for, in bytes
    Lens,           \* request lengths a client may ask for, in bytes
    MaxUnits,       \* BL616CL_DMA_TRANSFER_MAX
    TestBuild,      \* CONFIG_BL616CL_DMA0_TEST: injection and hold hooks
    ConcurrentPut,  \* clients put one handle from several threads
    CrossChannel    \* a callback uses other channels than its own

ASSUME ChannelsAssumption == Channels \subseteq Nat
ASSUME NoChanAssumption   == NoChan \notin Channels
ASSUME ThreadsAssumption  == NoThread \notin Threads /\ Irq \notin Threads
ASSUME SizesAssumption    == /\ Widths \subseteq Nat \ {0}
                             /\ Lens \subseteq Nat
                             /\ MaxUnits \in Nat
ASSUME SwitchesAssumption == {TestBuild, ConcurrentPut, CrossChannel} \subseteq BOOLEAN

VARIABLES
    \* struct bl616cl_dma_chan_s, for each channel
    state, configured, held, width, request, residual, callback, inflight,
    avail,          \* value of the semaphore "available"
    done,           \* value of the semaphore "callback_done"
    \* the channel's registers
    enabled,        \* channel enable bit
    left,           \* TransferSize: units still to be moved
    tcStatus, errStatus,    \* channels whose TC / error status is pending
    hold,           \* g_bl616cl_dma_hold_before_enable
    \* bl616cl_dma_process_irq, for each context that may run it
    tcs, errs,      \* bits of the status snapshot still to be looked at
    calling,        \* the channel whose callback the context is running
    \* the calls in progress, for each context
    pc, on,         \* where the context is, in a call on channel on[x]
    refusedBusy,    \* why its last bl616cl_dma_start was refused
    errno,          \* and what it was told
    \* the clients
    owner,          \* the thread whose get succeeded, until a put is called
    holders         \* the threads that have the channel's handle

chanVars == <<state, configured, held, width, request, residual, callback,
              inflight>>
hwVars   == <<enabled, left, tcStatus, errStatus>>
irqVars  == <<tcs, errs, calling>>
callVars == <<pc, on, refusedBusy, errno>>
vars == <<chanVars, avail, done, hwVars, hold, irqVars, callVars, owner, holders>>

Contexts == Threads \cup {Irq}

States == {"FREE", "OWNED", "READY", "RUNNING", "COMPLETE", "ERROR", "STOPPED",
           "RELEASING"}

\* The places of a call between two of its actions.
Places == {"idle", "get_wait", "get_lock", "put_lock", "put_wait", "put_finish",
           "put_post", "start_refused", "start_returns"}

Startable == {"READY", "COMPLETE", "ERROR", "STOPPED"}

\* riscv_dma_initialize succeeded: every channel is free, masked and stopped.
Init ==
    /\ state      = [c \in Channels |-> "FREE"]
    /\ configured = [c \in Channels |-> FALSE]
    /\ held       = [c \in Channels |-> FALSE]
    /\ width      = [c \in Channels |-> 0]
    /\ request    = [c \in Channels |-> 0]
    /\ residual   = [c \in Channels |-> 0]
    /\ callback   = [c \in Channels |-> FALSE]
    /\ inflight   = [c \in Channels |-> 0]
    /\ avail      = [c \in Channels |-> 1]
    /\ done       = [c \in Channels |-> 0]
    /\ enabled    = [c \in Channels |-> FALSE]
    /\ left       = [c \in Channels |-> 0]
    /\ tcStatus   = {}
    /\ errStatus  = {}
    /\ hold       = FALSE
    /\ tcs        = [x \in Contexts |-> {}]
    /\ errs       = [x \in Contexts |-> {}]
    /\ calling    = [x \in Contexts |-> NoChan]
    /\ pc         = [x \in Contexts |-> "idle"]
    /\ on         = [x \in Contexts |-> NoChan]
    /\ refusedBusy = [x \in Contexts |-> FALSE]
    /\ errno      = [x \in Contexts |-> "none"]
    /\ owner      = [c \in Channels |-> NoThread]
    /\ holders    = [c \in Channels |-> {}]
-----------------------------------------------------------------------------
(* Contexts                                                                *)

Bits(x) == tcs[x] \cup errs[x]

\* x is inside bl616cl_dma_process_irq.
Busy(x) == Bits(x) # {} \/ calling[x] # NoChan

CanRun(x) == x = Irq \/ ~Busy(Irq)

InCallbackContext_irqOnly(x) == x = Irq

\* bl616cl_dma_in_callback_context: the interrupt, or the injecting thread.
InCallbackContext(x) == x = Irq \/ Busy(x)

\* x may use the handle of c: it was given it, or it runs c's callback; a
\* callback that uses other channels uses those that some client holds.
HasHandle(x, c) ==
    \/ x \in holders[c] /\ ~Busy(x)
    \/ calling[x] = c
    \/ CrossChannel /\ calling[x] # NoChan /\ holders[c] # {}

Calls(x, c) == CanRun(x) /\ pc[x] = "idle" /\ HasHandle(x, c)
-----------------------------------------------------------------------------
(* Registers                                                               *)

PendingBytes_units(c) == left[c]

\* bl616cl_dma_pending_bytes
PendingBytes(c) ==
    LET pending == left[c] * width[c]
    IN  IF pending > request[c] THEN request[c] ELSE pending

MaskStopClear_keepsStatus(c) ==
    /\ enabled' = [enabled EXCEPT ![c] = FALSE]
    /\ UNCHANGED <<tcStatus, errStatus, left>>

\* bl616cl_dma_mask_stop_clear; an enabled channel may move more units
\* before the disable takes effect.
MaskStopClear(c) ==
    /\ enabled'   = [enabled EXCEPT ![c] = FALSE]
    /\ tcStatus'  = tcStatus \ {c}
    /\ errStatus' = errStatus \ {c}
    /\ \E n \in 0 .. left[c] :
         /\ enabled[c] \/ n = left[c]
         /\ left' = [left EXCEPT ![c] = n]

\* The controller: it moves a unit, finishes a request or gives it up.
HwMove(c) ==
    /\ enabled[c] /\ left[c] > 0
    /\ left' = [left EXCEPT ![c] = @ - 1]
    /\ UNCHANGED <<chanVars, avail, done, enabled, tcStatus, errStatus, hold,
                   irqVars, callVars, owner, holders>>

HwDone(c) ==
    /\ enabled[c] /\ left[c] = 0
    /\ enabled' = [enabled EXCEPT ![c] = FALSE]
    /\ tcStatus' = tcStatus \cup {c}
    /\ UNCHANGED <<chanVars, avail, done, left, errStatus, hold, irqVars,
                   callVars, owner, holders>>

HwError(c) ==
    /\ enabled[c] /\ left[c] > 0
    /\ enabled' = [enabled EXCEPT ![c] = FALSE]
    /\ errStatus' = errStatus \cup {c}
    /\ UNCHANGED <<chanVars, avail, done, left, tcStatus, hold, irqVars,
                   callVars, owner, holders>>
-----------------------------------------------------------------------------
(* bl616cl_dma_get_chan                                                    *)

\* A client takes the channels it needs in increasing order, as DMA-004 does.
GetEnter(t, c) ==
    /\ CanRun(t) /\ pc[t] = "idle" /\ ~Busy(t)
    /\ \A d \in Channels : t \in holders[d] => d < c
    /\ pc' = [pc EXCEPT ![t] = "get_wait"]
    /\ on' = [on EXCEPT ![t] = c]
    /\ UNCHANGED <<chanVars, avail, done, hwVars, hold, irqVars, refusedBusy,
                   errno, owner, holders>>

Available(c) == avail[c] > 0

GetWait(t) ==
    /\ CanRun(t) /\ pc[t] = "get_wait"
    /\ Available(on[t])
    /\ avail' = [avail EXCEPT ![on[t]] = @ - 1]
    /\ pc' = [pc EXCEPT ![t] = "get_lock"]
    /\ UNCHANGED <<chanVars, done, hwVars, hold, irqVars, on, refusedBusy, errno,
                   owner, holders>>

\* The fields that a get and a put reset.
ClearChan(c, s) ==
    /\ state'      = [state EXCEPT ![c] = s]
    /\ configured' = [configured EXCEPT ![c] = FALSE]
    /\ held'       = [held EXCEPT ![c] = FALSE]
    /\ callback'   = [callback EXCEPT ![c] = FALSE]
    /\ request'    = [request EXCEPT ![c] = 0]
    /\ residual'   = [residual EXCEPT ![c] = 0]
    /\ UNCHANGED inflight

GetLock(t) ==
    LET c == on[t] IN
    /\ CanRun(t) /\ pc[t] = "get_lock"
    /\ pc' = [pc EXCEPT ![t] = "idle"]
    /\ on' = [on EXCEPT ![t] = NoChan]
    /\ IF state[c] # "FREE"
       THEN /\ avail' = [avail EXCEPT ![c] = @ + 1]
            /\ UNCHANGED <<chanVars, owner, holders>>
       ELSE /\ ClearChan(c, "OWNED")
            /\ owner'   = [owner EXCEPT ![c] = t]
            /\ holders' = [holders EXCEPT ![c] = {t}]
            /\ UNCHANGED <<width, avail>>
    /\ UNCHANGED <<done, hwVars, hold, irqVars, refusedBusy, errno>>

\* A client hands the handle to another of its threads (DMA-007, DMA-008).
Share(t, u, c) ==
    /\ CanRun(t) /\ pc[t] = "idle" /\ ~Busy(t)
    /\ t \in holders[c] /\ u \notin holders[c]
    /\ holders' = [holders EXCEPT ![c] = @ \cup {u}]
    /\ UNCHANGED <<chanVars, avail, done, hwVars, hold, irqVars, callVars, owner>>
-----------------------------------------------------------------------------
(* bl616cl_dma_put_chan                                                    *)

\* The client gives the channel up.  Unless ConcurrentPut, only one of its
\* threads does, and none of them uses the handle afterwards.
PutEnter(t, c) ==
    /\ Calls(t, c)
    /\ ~InCallbackContext(t)
    /\ pc' = [pc EXCEPT ![t] = "put_lock"]
    /\ on' = [on EXCEPT ![t] = c]
    /\ owner' = [owner EXCEPT ![c] = NoThread]
    /\ holders' = [holders EXCEPT ![c] = IF ConcurrentPut THEN @ \ {t} ELSE {}]
    /\ UNCHANGED <<chanVars, avail, done, hwVars, hold, irqVars, refusedBusy, errno>>

PutIgnored_never(c) == FALSE

\* The channel is free, or another put is releasing it.
PutIgnored(c) == state[c] \in {"FREE", "RELEASING"}

MustDrain_never(c) == FALSE

MustDrain(c) == inflight[c] # 0

PutLock(t) ==
    LET c == on[t] IN
    /\ CanRun(t) /\ pc[t] = "put_lock"
    /\ IF PutIgnored(c)
       THEN /\ pc' = [pc EXCEPT ![t] = "idle"]
            /\ on' = [on EXCEPT ![t] = NoChan]
            /\ UNCHANGED <<state, hwVars>>
       ELSE /\ state' = [state EXCEPT ![c] = "RELEASING"]
            /\ MaskStopClear(c)
            /\ pc' = [pc EXCEPT ![t] = IF MustDrain(c) THEN "put_wait"
                                                      ELSE "put_finish"]
            /\ UNCHANGED on
    /\ UNCHANGED <<configured, held, width, request, residual, callback, inflight,
                   avail, done, hold, irqVars, refusedBusy, errno, owner, holders>>

PutWait(t) ==
    /\ CanRun(t) /\ pc[t] = "put_wait"
    /\ done[on[t]] > 0
    /\ done' = [done EXCEPT ![on[t]] = @ - 1]
    /\ pc' = [pc EXCEPT ![t] = "put_finish"]
    /\ UNCHANGED <<chanVars, avail, hwVars, hold, irqVars, on, refusedBusy, errno,
                   owner, holders>>

PutFinish(t) ==
    LET c == on[t] IN
    /\ CanRun(t) /\ pc[t] = "put_finish"
    /\ ClearChan(c, "FREE")
    /\ pc' = [pc EXCEPT ![t] = "put_post"]
    /\ UNCHANGED <<width, avail, done, hwVars, hold, irqVars, on, refusedBusy, errno,
                   owner, holders>>

PutPost(t) ==
    /\ CanRun(t) /\ pc[t] = "put_post"
    /\ avail' = [avail EXCEPT ![on[t]] = @ + 1]
    /\ pc' = [pc EXCEPT ![t] = "idle"]
    /\ on' = [on EXCEPT ![t] = NoChan]
    /\ UNCHANGED <<chanVars, done, hwVars, hold, irqVars, refusedBusy, errno,
                   owner, holders>>
-----------------------------------------------------------------------------
(* bl616cl_dma_config, start, stop and residual                            *)

Config(x, c, w) ==
    /\ Calls(x, c)
    /\ state[c] \notin {"RUNNING", "RELEASING", "FREE"} /\ inflight[c] = 0
    /\ state'      = [state EXCEPT ![c] = "READY"]
    /\ configured' = [configured EXCEPT ![c] = TRUE]
    /\ width'      = [width EXCEPT ![c] = w]
    /\ request'    = [request EXCEPT ![c] = 0]
    /\ residual'   = [residual EXCEPT ![c] = 0]
    /\ UNCHANGED <<held, callback, inflight, avail, done, hwVars, hold, irqVars,
                   callVars, owner, holders>>

MayStart(c) == configured[c] /\ state[c] \in Startable /\ inflight[c] = 0

LenOK(c, len) ==
    len > 0 /\ len % width[c] = 0 /\ len \div width[c] <= MaxUnits

\* The request is programmed and, unless a test holds it, enabled.
Start(x, c, len, cb) ==
    /\ Calls(x, c)
    /\ MayStart(c) /\ LenOK(c, len)
    /\ state'    = [state EXCEPT ![c] = "RUNNING"]
    /\ callback' = [callback EXCEPT ![c] = cb]
    /\ request'  = [request EXCEPT ![c] = len]
    /\ residual' = [residual EXCEPT ![c] = len]
    /\ held'     = [held EXCEPT ![c] = hold]
    /\ enabled'  = [enabled EXCEPT ![c] = ~hold]
    /\ left'     = [left EXCEPT ![c] = len \div width[c]]
    /\ tcStatus'  = tcStatus \ {c}
    /\ errStatus' = errStatus \ {c}
    /\ UNCHANGED <<configured, width, inflight, avail, done, hold, irqVars,
                   callVars, owner, holders>>

\* The first guard of bl616cl_dma_start refuses and the lock is released ...
StartRefused(x, c) ==
    /\ Calls(x, c)
    /\ ~MayStart(c)
    /\ pc' = [pc EXCEPT ![x] = "start_refused"]
    /\ on' = [on EXCEPT ![x] = c]
    /\ refusedBusy' = [refusedBusy EXCEPT ![x] =
                         state[c] = "RUNNING" \/ inflight[c] # 0]
    /\ UNCHANGED <<chanVars, avail, done, hwVars, hold, irqVars, errno, owner, holders>>

\* ... and only then are state and callbacks_inflight read for the error code.
StartErrno(x) ==
    LET c == on[x] IN
    /\ CanRun(x) /\ pc[x] = "start_refused"
    /\ pc' = [pc EXCEPT ![x] = "start_returns"]
    /\ errno' = [errno EXCEPT ![x] =
                   IF state[c] = "RUNNING" \/ inflight[c] # 0
                   THEN "EBUSY" ELSE "EINVAL"]
    /\ UNCHANGED <<chanVars, avail, done, hwVars, hold, irqVars, on, refusedBusy,
                   owner, holders>>

StartReturns(x) ==
    /\ CanRun(x) /\ pc[x] = "start_returns"
    /\ pc' = [pc EXCEPT ![x] = "idle"]
    /\ on' = [on EXCEPT ![x] = NoChan]
    /\ refusedBusy' = [refusedBusy EXCEPT ![x] = FALSE]
    /\ errno' = [errno EXCEPT ![x] = "none"]
    /\ UNCHANGED <<chanVars, avail, done, hwVars, hold, irqVars, owner, holders>>

\* A stop of a channel that is not running succeeds and changes nothing.
Stop(x, c) ==
    /\ Calls(x, c)
    /\ state[c] = "RUNNING"
    /\ residual' = [residual EXCEPT ![c] = PendingBytes(c)]
    /\ state'    = [state EXCEPT ![c] = "STOPPED"]
    /\ held'     = [held EXCEPT ![c] = FALSE]
    /\ MaskStopClear(c)
    /\ UNCHANGED <<configured, width, request, callback, inflight, avail, done,
                   hold, irqVars, callVars, owner, holders>>

Residual(x, c) ==
    /\ Calls(x, c)
    /\ state[c] = "RUNNING"
    /\ residual' = [residual EXCEPT ![c] = PendingBytes(c)]
    /\ UNCHANGED <<state, configured, held, width, request, callback, inflight,
                   avail, done, hwVars, hold, irqVars, callVars, owner, holders>>
-----------------------------------------------------------------------------
(* bl616cl_dma_interrupt, bl616cl_dma_process_irq and the test hooks       *)

\* The handler takes and clears the whole status before it looks at any bit.
Interrupt ==
    /\ ~Busy(Irq)
    /\ tcStatus \cup errStatus # {}
    /\ tcs'  = [tcs EXCEPT ![Irq] = tcStatus]
    /\ errs' = [errs EXCEPT ![Irq] = errStatus]
    /\ tcStatus'  = {}
    /\ errStatus' = {}
    /\ UNCHANGED <<chanVars, avail, done, enabled, left, hold, calling, callVars,
                   owner, holders>>

\* bl616cl_dma_test_inject_irq: one thread at a time (a DEBUGASSERT).
Inject(t, T, E) ==
    /\ TestBuild
    /\ CanRun(t) /\ pc[t] = "idle"
    /\ \A u \in Threads : ~Busy(u)
    /\ T \cup E # {}
    /\ tcs'  = [tcs EXCEPT ![t] = T]
    /\ errs' = [errs EXCEPT ![t] = E]
    /\ UNCHANGED <<chanVars, avail, done, hwVars, hold, calling, callVars, owner,
                   holders>>

Failed_ignored(x, c) == FALSE

\* An error wins over a completion.
Failed(x, c) == c \in errs[x]

\* A running request ends.
Terminate(x, c) ==
    LET error == Failed(x, c) IN
    /\ residual' = [residual EXCEPT ![c] = IF error THEN PendingBytes(c) ELSE 0]
    /\ held'     = [held EXCEPT ![c] = FALSE]
    /\ state'    = [state EXCEPT ![c] = IF error THEN "ERROR" ELSE "COMPLETE"]
    /\ MaskStopClear(c)
    /\ calling'  = [calling EXCEPT ![x] = IF callback[c] THEN c ELSE NoChan]
    /\ inflight' = [inflight EXCEPT ![c] = IF callback[c] THEN @ + 1 ELSE @]

\* One turn of the loop over the channels, up to the call of the callback.
ProcessIrq(x, c) ==
    /\ CanRun(x) /\ calling[x] = NoChan
    /\ c \in Bits(x) /\ \A d \in Bits(x) : c <= d
    /\ tcs'  = [tcs EXCEPT ![x] = @ \ {c}]
    /\ errs' = [errs EXCEPT ![x] = @ \ {c}]
    /\ IF state[c] = "RUNNING"
       THEN Terminate(x, c)
       ELSE UNCHANGED <<residual, held, state, hwVars, calling, inflight>>
    /\ UNCHANGED <<configured, width, request, callback, avail, done, hold,
                   callVars, owner, holders>>

PostsDrain_always(c) == TRUE

PostsDrain_never(c) == FALSE

\* The callback was the last one and a put waits for it.
PostsDrain(c) == state[c] = "RELEASING" /\ inflight[c] = 1

\* bl616cl_dma_callback_done, when the callback has returned.
CallbackDone(x) ==
    LET c == calling[x] IN
    /\ CanRun(x) /\ pc[x] = "idle" /\ c # NoChan
    /\ calling'  = [calling EXCEPT ![x] = NoChan]
    /\ inflight' = [inflight EXCEPT ![c] = @ - 1]
    /\ done' = [done EXCEPT ![c] = IF PostsDrain(c) THEN @ + 1 ELSE @]
    /\ UNCHANGED <<state, configured, held, width, request, residual, callback,
                   avail, hwVars, hold, tcs, errs, callVars, owner, holders>>

\* bl616cl_dma_test_set_hold_before_enable and bl616cl_dma_test_release_hold
SetHold(b) ==
    /\ TestBuild /\ ~Busy(Irq)
    /\ hold' = b
    /\ UNCHANGED <<chanVars, avail, done, hwVars, irqVars, callVars, owner, holders>>

EnableHeld(c) == enabled[c] \/ (state[c] = "RUNNING" /\ held[c])

ReleaseHold ==
    /\ TestBuild /\ ~Busy(Irq)
    /\ enabled' = [c \in Channels |-> EnableHeld(c)]
    /\ held'    = [c \in Channels |-> held[c] /\ state[c] # "RUNNING"]
    /\ UNCHANGED <<state, configured, width, request, residual, callback, inflight,
                   avail, done, left, tcStatus, errStatus, hold, irqVars,
                   callVars, owner, holders>>
-----------------------------------------------------------------------------
\* The steps a thread takes by itself once it has entered a call.
CallStep(t) == \/ GetWait(t) \/ GetLock(t)
               \/ PutLock(t) \/ PutWait(t) \/ PutFinish(t) \/ PutPost(t)
               \/ StartErrno(t) \/ StartReturns(t)

\* The steps of a context inside bl616cl_dma_process_irq; callbacks return.
IrqStep(x) == CallbackDone(x) \/ \E c \in Channels : ProcessIrq(x, c)

Next ==
    \/ \E t \in Threads :
         \/ GetWait(t) \/ GetLock(t)
         \/ PutLock(t) \/ PutWait(t) \/ PutFinish(t) \/ PutPost(t)
    \/ \E t \in Threads, c \in Channels :
         \/ GetEnter(t, c) \/ PutEnter(t, c)
         \/ \E u \in Threads : Share(t, u, c)
    \/ \E t \in Threads : \E T, E \in SUBSET Channels : Inject(t, T, E)
    \/ \E x \in Contexts :
         \/ StartErrno(x) \/ StartReturns(x) \/ CallbackDone(x)
    \/ \E x \in Contexts, c \in Channels :
         \/ \E w \in Widths : Config(x, c, w)
         \/ \E len \in Lens, cb \in BOOLEAN : Start(x, c, len, cb)
         \/ StartRefused(x, c) \/ Stop(x, c) \/ Residual(x, c)
         \/ ProcessIrq(x, c)
    \/ Interrupt
    \/ \E c \in Channels : HwMove(c) \/ HwDone(c) \/ HwError(c)
    \/ \E b \in BOOLEAN : SetHold(b)
    \/ ReleaseHold

Safety == Init /\ [][Next]_vars

\* The scheduler runs a ready thread again and again between interrupts, the
\* interrupt is taken, a callback makes finitely many calls and returns, and an
\* enabled channel ends.
Fairness ==
    /\ \A t \in Threads : SF_vars(CallStep(t))
    /\ \A x \in Contexts : SF_vars(IrqStep(x))
    /\ WF_vars(StartErrno(Irq) \/ StartReturns(Irq))
    /\ WF_vars(Interrupt)
    /\ \A c \in Channels : WF_vars(HwMove(c) \/ HwDone(c) \/ HwError(c))

Spec == Safety /\ Fairness
-----------------------------------------------------------------------------
(* Properties                                                              *)

ChanType ==
    /\ state \in [Channels -> States]
    /\ configured \in [Channels -> BOOLEAN]
    /\ held \in [Channels -> BOOLEAN]
    /\ width \in [Channels -> Nat]
    /\ request \in [Channels -> Nat]
    /\ residual \in [Channels -> Nat]
    /\ callback \in [Channels -> BOOLEAN]
    /\ inflight \in [Channels -> Nat]

SemType ==
    /\ avail \in [Channels -> Nat]
    /\ done \in [Channels -> Nat]

HwType ==
    /\ enabled \in [Channels -> BOOLEAN]
    /\ left \in [Channels -> Nat]
    /\ tcStatus \subseteq Channels
    /\ errStatus \subseteq Channels
    /\ hold \in BOOLEAN

IrqType ==
    /\ tcs \in [Contexts -> SUBSET Channels]
    /\ errs \in [Contexts -> SUBSET Channels]
    /\ calling \in [Contexts -> Channels \cup {NoChan}]

CallType ==
    /\ pc \in [Contexts -> Places]
    /\ on \in [Contexts -> Channels \cup {NoChan}]
    /\ \A x \in Contexts : pc[x] = "idle" <=> on[x] = NoChan
    /\ refusedBusy \in [Contexts -> BOOLEAN]
    /\ errno \in [Contexts -> {"none", "EBUSY", "EINVAL"}]

ClientType ==
    /\ owner \in [Channels -> Threads \cup {NoThread}]
    /\ holders \in [Channels -> SUBSET Threads]

TypeOK == ChanType /\ SemType /\ HwType /\ IrqType /\ CallType /\ ClientType

\* t is in a call on channel c, at one of the places ls.
At(t, c, ls) == on[t] = c /\ pc[t] \in ls

Token(c) ==
    LET freeing == {"get_lock", "put_post"} IN
    /\ avail[c] \in {0, 1}
    /\ avail[c] = 1 => /\ state[c] = "FREE"
                       /\ \A t \in Threads : ~At(t, c, freeing)
    /\ \A t, u \in Threads : At(t, c, freeing) /\ At(u, c, freeing) => t = u
    /\ \A t \in Threads : At(t, c, freeing) => state[c] = "FREE"
    /\ state[c] = "FREE" => \/ avail[c] = 1
                            \/ \E t \in Threads : At(t, c, freeing)

\* The semaphore "available", a get that has just taken it, a put that is
\* about to post it and the channel's state hold one token between them: the
\* channel is never handed out twice, and never lost
\* (bl616cl_dma_get_chan, bl616cl_dma_put_chan).
ChannelToken == \A c \in Channels : Token(c)

Drain(c) ==
    LET releasing == {"put_wait", "put_finish"} IN
    /\ state[c] = "RELEASING" <=> \E t \in Threads : At(t, c, releasing)
    /\ \A t, u \in Threads : At(t, c, releasing) /\ At(u, c, releasing) => t = u
    /\ \A t \in Threads : At(t, c, {"put_finish"}) => inflight[c] = 0 /\ done[c] = 0
    /\ \A t \in Threads : At(t, c, {"put_wait"}) => inflight[c] + done[c] = 1
    /\ state[c] # "RELEASING" => done[c] = 0

\* The semaphore "callback_done" is posted once for a put that waits and
\* never otherwise, and the put that goes on finds no callback in flight (the
\* assertion at bl616cl_dma.c:479).
DrainHandshake == \A c \in Channels : Drain(c)

\* callbacks_inflight, a uint8_t, counts the contexts that run a callback of
\* the channel; there is never more than one, and none while a request runs
\* (the assertion at bl616cl_dma.c:250).
OneCallback ==
    \A c \in Channels :
        /\ inflight[c] \in {0, 1}
        /\ inflight[c] = 1 <=> \E x \in Contexts : calling[x] = c
        /\ \A x, y \in Contexts : calling[x] = c /\ calling[y] = c => x = y
        /\ state[c] = "RUNNING" => inflight[c] = 0

\* When a put has returned, and in a lease that has not been configured yet,
\* nothing of an earlier lease is left: no callback runs, the channel is not
\* enabled and has no status pending.
DrainedBeforeReuse ==
    \A c \in Channels :
        state[c] \in {"FREE", "OWNED"} =>
            /\ \A x \in Contexts : calling[x] # c
            /\ ~enabled[c] /\ c \notin tcStatus \cup errStatus

\* The hardware works, or has a status pending, only for a request that is
\* still running and is not held by a test: a stop, a put or an injected end
\* leaves nothing behind for the next request.
HardwareOwned ==
    \A c \in Channels :
        enabled[c] \/ c \in tcStatus \cup errStatus =>
            state[c] = "RUNNING" /\ ~held[c]

\* The thread that was given the channel keeps it until a put is called.
OwnerKeepsChannel ==
    \A c \in Channels :
        owner[c] # NoThread => state[c] \notin {"FREE", "RELEASING"}

\* The residue reported for a request that was stopped or failed is at least
\* what the hardware has not moved: a client never takes unwritten bytes for
\* written ones.
ResidualCovers ==
    \A c \in Channels :
        state[c] \in {"RUNNING", "STOPPED", "ERROR"} =>
            /\ left[c] * width[c] <= residual[c]
            /\ residual[c] <= request[c]

\* Without injected status, a request completes only when the hardware has
\* moved every unit of it.
CompleteMeansMoved ==
    \A c \in Channels : state[c] = "COMPLETE" => left[c] = 0

\* A start refused because a request runs, or a callback of one, says -EBUSY
\* (DMA-006 of apps/mcu_peripheral_tests/dma/README.md).
RefusedStartSaysBusy ==
    \A x \in Contexts :
        pc[x] = "start_returns" /\ refusedBusy[x] => errno[x] = "EBUSY"

\* A put, once called, returns, whatever callback is running.
PutReturns ==
    \A t \in Threads :
        pc[t] \in {"put_lock", "put_wait", "put_finish", "put_post"} ~> pc[t] = "idle"

\* A request that is not held by a test ends.
RequestEnds ==
    \A c \in Channels : state[c] = "RUNNING" /\ ~held[c] ~> state[c] # "RUNNING"

\* Puts and requests end.
CallsEnd == PutReturns /\ RequestEnds

\* What a client sees of a channel in state s.
LeaseOf(s) == IF s = "FREE" THEN "free" ELSE IF s = "RELEASING" THEN "draining"
                                                               ELSE "held"

LeaseBar == [c \in Channels |-> LeaseOf(state[c])]

ActiveBar == [c \in Channels |-> state[c] = "RUNNING"]

Lease == INSTANCE DmaLease
         WITH lease <- LeaseBar, active <- ActiveBar, reports <- inflight

\* The adapter implements the lease of DmaLease.
ImplementsLease == Lease!Spec
=============================================================================
