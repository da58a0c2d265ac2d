------------------------------- MODULE Oneshot -------------------------------
(***************************************************************************)
(* The oneshot timer on TIMER1, chips/bl616cl/bl616cl_oneshot.c.  Its      *)
(* delays count in the same microseconds as mtime, the 64-bit clock that   *)
(* absolute times refer to and that is read in two halves.                 *)
(*                                                                         *)
(* Every operation is one critical section; the handler runs with          *)
(* interrupts off and stops the timer before the callback, so that a       *)
(* callback that starts it again is an operation after the handler.        *)
(*                                                                         *)
(* An operator with "_" in its name is a faulty variant of the operator    *)
(* that follows it; no specification uses it.                              *)
(***************************************************************************)
EXTENDS Integers

CONSTANTS
    MinDelay,       \* BL616CL_ONESHOT_MIN_DELAY
    MaxDelay,       \* BL616CL_ONESHOT_MAX_DELAY
    Half,           \* 2^32: values of one half of mtime
    Lag,            \* ticks that pass inside an operation, at most
    Horizon         \* bound on mtime

OneshotConstantsOK ==
    /\ MinDelay \in Nat \ {0} /\ MaxDelay \in Nat /\ MinDelay < MaxDelay
    /\ Half \in Nat \ {0} /\ Lag \in Nat /\ Horizon \in Nat

VARIABLES
    running,        \* struct bl616cl_oneshot_lowerhalf_s
    \* TIMER1 and its interrupt
    counting, count, compare, status, masked, irqEnabled,
    mtime,
    due             \* when the callback of the last start is due: from, to

lineVars == <<masked, irqEnabled>>
oneshotVars == <<running, counting, count, compare, status, lineVars, mtime, due>>

NotDue == <<0, 0>>

OneshotInit ==
    /\ running = FALSE /\ counting = FALSE /\ count = 0 /\ compare = MinDelay
    /\ status = FALSE /\ masked = TRUE /\ irqEnabled = FALSE
    /\ mtime = 0 /\ due = NotDue
-----------------------------------------------------------------------------
\* bl616cl_oneshot_clamp_delay
Clamp(delay) ==
    IF delay < MinDelay THEN MinDelay
    ELSE IF delay > MaxDelay THEN MaxDelay ELSE delay

\* The clock has run for some ticks when an operation ends.
Later == mtime' \in {m \in mtime .. mtime + Lag : m <= Horizon}

ReadMtime_once ==
    {((a \div Half) * Half) + (b % Half) : a \in {mtime}, b \in mtime .. mtime'}

\* bl616cl_oneshot_mtime: the times at which the high half is read, the low
\* half, and the high half again, until it is the same.
ReadMtime ==
    {((r[1] \div Half) * Half) + (r[2] % Half) :
        r \in {q \in (mtime .. mtime') \X (mtime .. mtime') \X (mtime .. mtime') :
            q[1] <= q[2] /\ q[2] <= q[3] /\ q[1] \div Half = q[3] \div Half}}

\* bl616cl_oneshot_stop_locked
StopLocked ==
    /\ masked' = TRUE /\ irqEnabled' = FALSE
    /\ counting' = FALSE
    /\ status' = FALSE
    /\ running' = FALSE

\* bl616cl_oneshot_start_locked: a timer that runs is stopped first.
StartLocked(delay) ==
    /\ count' = 0 /\ compare' = Clamp(delay)
    /\ status' = FALSE
    /\ masked' = FALSE /\ irqEnabled' = TRUE
    /\ counting' = TRUE
    /\ running' = TRUE

\* want: the time asked for, at the start of the call.
Promise(want) ==
    due' = <<IF want > mtime + MaxDelay THEN mtime + MaxDelay ELSE want,
             (IF want < mtime' + MinDelay THEN mtime' + MinDelay ELSE want) + Lag>>

Start(delay) ==
    /\ Later
    /\ StartLocked(delay)
    /\ Promise(mtime + delay)

StartAbsolute(expected) ==
    /\ Later
    /\ \E current \in ReadMtime :
         StartLocked(IF expected > current THEN expected - current ELSE MinDelay)
    /\ Promise(expected)

Cancel ==
    /\ Later
    /\ StopLocked
    /\ due' = NotDue
    /\ UNCHANGED <<count, compare>>

\* The counter and mtime have the same clock.
Tick ==
    /\ mtime < Horizon
    /\ mtime' = mtime + 1
    /\ IF ~counting THEN UNCHANGED <<count, status>>
       ELSE IF count + 1 = compare THEN count' = 0 /\ status' = TRUE
                                   ELSE count' = count + 1 /\ UNCHANGED status
    /\ UNCHANGED <<running, counting, compare, lineVars, due>>

\* bl616cl_oneshot_handler
Handler ==
    /\ status /\ irqEnabled /\ ~masked
    /\ StopLocked
    /\ due' = NotDue
    /\ UNCHANGED <<count, compare, mtime>>

OneshotNext ==
    \/ \E delay \in 0 .. MaxDelay + 1 : Start(delay)
    \/ \E expected \in 0 .. Horizon + MaxDelay : StartAbsolute(expected)
    \/ Cancel
    \/ Handler
    \/ Tick

OneshotSpec == OneshotInit /\ [][OneshotNext]_oneshotVars
-----------------------------------------------------------------------------
\* A timer that was started calls back when its time has come: never before
\* the time asked for, or before the longest delay the hardware has; and not
\* later than that, but for the shortest delay and the time the call takes.
\* That is so for a time that has already passed, for one further away than
\* the counter reaches, and while the low half of mtime wraps.
FiresOnTime ==
    /\ running = counting
    /\ running /\ ~status =>
         mtime + (compare - count) \in due[1] .. due[2]
    /\ status => mtime >= due[1]
=============================================================================
