-------------------------------- MODULE Timer --------------------------------
(***************************************************************************)
(* One general purpose timer, chips/bl616cl/bl616cl_tim.c.                 *)
(*                                                                         *)
(* Every operation is one critical section.  The interrupt handler is two: *)
(* it latches the callback and the generation, runs the callback outside   *)
(* the critical section, and then applies what the callback asked for,     *)
(* unless the timer was changed meanwhile.  On this single core only the   *)
(* callback itself can have changed it: threads wait for the handler.      *)
(*                                                                         *)
(* An operator with "_" in its name is a faulty variant of the operator    *)
(* that follows it; no specification uses it.                              *)
(***************************************************************************)
EXTENDS Integers

CONSTANTS
    Callbacks, NoCallback,  \* callbacks with their arguments; NULL
    Timeouts,       \* timeouts a caller asks for, in microseconds
    Intervals,      \* next intervals a callback asks for
    Word,           \* 2^32: the counter and the subtractions are uint32_t
    MinTimeout,     \* BL616CL_TIMER_MIN_TIMEOUT
    Divs,           \* clock dividers
    TickUsec,       \* USEC_PER_TICK
    Ticks,          \* timeouts a caller asks for, in system ticks
    Generations,    \* 2^32: the generation is a uint32_t
    MaxCalls        \* operations that one callback may call

ASSUME NoCallbackAssumption == NoCallback \notin Callbacks
ASSUME WordAssumption == /\ Word \in Nat /\ MinTimeout = 2 /\ MinTimeout < Word
                         /\ Timeouts \cup Intervals \subseteq 0 .. Word - 1
ASSUME TickAssumption == TickUsec \in Nat \ {0} /\ Ticks \subseteq 0 .. Word - 1
ASSUME GenerationAssumption ==
    MaxCalls \in Nat /\ Generations \in Nat /\ MaxCalls < Generations

VARIABLES
    \* struct bl616cl_timer_lowerhalf_s
    callback, timeout, generation, clockDiv, started,
    \* the registers of the timer and its interrupt line
    running, count, compare, div, status, masked, irqEnabled, attached,
    \* the handler while it runs the callback: "idle" or "callback"
    handler, latched,
    calls           \* operations the running callback has called

regVars == <<running, count, compare, div, status, masked, irqEnabled, attached>>
vars == <<callback, timeout, generation, clockDiv, started, regVars, handler,
          latched, calls>>

MaxTimeout == Word - 1      \* BL616CL_TIMER_MAX_TIMEOUT

Init ==
    /\ callback = NoCallback /\ timeout \in Timeouts \ (0 .. MinTimeout - 1)
    /\ generation = 0 /\ clockDiv \in Divs /\ started = FALSE
    /\ running = FALSE /\ count = 0 /\ compare = 0 /\ div \in Divs
    /\ status = FALSE /\ masked = TRUE /\ irqEnabled = FALSE /\ attached = FALSE
    /\ handler = "idle" /\ latched = <<NoCallback, 0>> /\ calls = 0
-----------------------------------------------------------------------------
(* Registers                                                               *)

\* bl616cl_timer_raw_compare
RawCompare(t) == (t - 2) % Word

\* bl616cl_timer_configure: bflb_timer_init programs the compare value and the
\* divider and unmasks the compare interrupt; a pending status may survive.
Configure(t, d) ==
    /\ compare' = RawCompare(t)
    /\ div' = d
    /\ status' \in {status, FALSE}

\* A counter that runs reaches the compare value, raises the status and starts
\* again from its preload value, 0.
HwTick ==
    /\ running
    /\ IF count = compare THEN count' = 0 /\ status' = TRUE
                          ELSE count' = (count + 1) % Word /\ UNCHANGED status
    /\ UNCHANGED <<callback, timeout, generation, clockDiv, started, running,
                   compare, div, masked, irqEnabled, attached, handler, latched, calls>>
-----------------------------------------------------------------------------
(* The lower half operations, called by a thread or by the callback        *)

\* Between two operations of threads the handler is idle.
Called == IF handler = "callback"
          THEN calls < MaxCalls /\ calls' = calls + 1
          ELSE UNCHANGED calls

NextGeneration_kept == generation

NextGeneration == (generation + 1) % Generations

OpenLine_masked ==
    attached' = TRUE /\ irqEnabled' = TRUE /\ UNCHANGED masked

\* The handler is attached and the interrupt unmasked and enabled.
OpenLine == attached' = TRUE /\ irqEnabled' = TRUE /\ masked' = FALSE

CloseLine_masked == masked' = TRUE /\ UNCHANGED irqEnabled

\* bl616cl_timer_disable_irq
CloseLine == masked' = TRUE /\ irqEnabled' = FALSE

\* ok: bflb_irq_attach succeeds
Start(ok) ==
    /\ Called
    /\ ~started /\ timeout >= MinTimeout
    /\ Configure(timeout, clockDiv)
    /\ \/ /\ callback # NoCallback /\ ~ok
          /\ CloseLine
          /\ running' = FALSE
          /\ UNCHANGED <<count, attached, started, generation>>
       \/ /\ callback # NoCallback => ok
          /\ IF callback # NoCallback THEN OpenLine
                                     ELSE CloseLine /\ UNCHANGED attached
          /\ running' = TRUE /\ count' = 0
          /\ started' = TRUE /\ generation' = NextGeneration
    /\ UNCHANGED <<callback, timeout, clockDiv, handler, latched>>

\* bl616cl_timer_stop_locked
StopLocked ==
    /\ CloseLine /\ attached' = FALSE
    /\ running' = FALSE
    /\ started' = FALSE /\ generation' = NextGeneration

Stop ==
    /\ Called
    /\ started
    /\ StopLocked
    /\ UNCHANGED <<callback, timeout, clockDiv, count, compare, div, status,
                   handler, latched>>

ValidTimeout(t) == t >= MinTimeout

\* Configure unmasks the interrupt; without a callback it is masked again.
SetTimeout(t) ==
    /\ Called
    /\ ValidTimeout(t)
    /\ timeout' = t
    /\ generation' = NextGeneration
    /\ IF started
       THEN /\ Configure(t, clockDiv)
            /\ masked' = (callback = NoCallback)
            /\ running' = TRUE /\ count' = 0
            /\ UNCHANGED <<irqEnabled, attached>>
       ELSE UNCHANGED regVars
    /\ UNCHANGED <<callback, clockDiv, started, handler, latched>>

\* bl616cl_timer_tick_settimeout: the product is a uint32_t.
TickInRange(n) == n > 0 /\ n <= MaxTimeout \div TickUsec

TickSetTimeout(n) == TickInRange(n) /\ SetTimeout((n * TickUsec) % Word)

SetCallback(cb, ok) ==
    /\ Called
    /\ \/ /\ ~started
          /\ callback' = cb /\ generation' = NextGeneration
          /\ UNCHANGED regVars
       \/ /\ started /\ cb # NoCallback /\ ok
          /\ callback' = cb /\ generation' = NextGeneration
          /\ OpenLine
          /\ UNCHANGED <<running, count, compare, div, status>>
       \/ /\ started /\ cb = NoCallback
          /\ callback' = cb /\ generation' = NextGeneration
          /\ CloseLine /\ attached' = FALSE
          /\ UNCHANGED <<running, count, compare, div, status>>
    /\ UNCHANGED <<timeout, clockDiv, started, handler, latched>>

\* bl616cl_timer_ioctl, BL616CL_TCIOC_SETCLOCKDIV
SetClockDiv(d) ==
    /\ Called
    /\ ~started
    /\ clockDiv' = d
    /\ UNCHANGED <<callback, timeout, generation, started, regVars, handler, latched>>
-----------------------------------------------------------------------------
(* bl616cl_timer_handler                                                   *)

\* The first critical section.
LineOpen == irqEnabled /\ attached /\ ~masked

HandlerBegin ==
    /\ handler = "idle" /\ status /\ LineOpen
    /\ status' = FALSE
    /\ latched' = <<callback, generation>>
    /\ handler' = "callback" /\ calls' = 0
    /\ UNCHANGED <<callback, timeout, generation, clockDiv, started, running, count,
                   compare, div, masked, irqEnabled, attached>>

\* The timer was stopped, or changed, while the callback ran.
Outdated == ~started \/ generation # latched[2]

\* The second critical section: the callback returned keep and next.
HandlerEnd(keep, next) ==
    /\ handler = "callback"
    /\ handler' = "idle" /\ latched' = <<NoCallback, 0>> /\ calls' = 0
    /\ \/ /\ Outdated
          /\ UNCHANGED <<timeout, generation, started, regVars>>
       \/ /\ ~Outdated /\ ~(keep /\ latched[1] # NoCallback)
          /\ StopLocked
          /\ UNCHANGED <<timeout, count, compare, div, status>>
       \/ /\ ~Outdated /\ keep /\ latched[1] # NoCallback
          /\ IF next >= MinTimeout
             THEN timeout' = next /\ compare' = RawCompare(next)
             ELSE UNCHANGED <<timeout, compare>>
          /\ UNCHANGED <<generation, started, running, count, div, status, masked,
                         irqEnabled, attached>>
    /\ UNCHANGED <<callback, clockDiv>>
-----------------------------------------------------------------------------
Operation ==
    \/ \E ok \in BOOLEAN : Start(ok)
    \/ Stop
    \/ \E t \in Timeouts : SetTimeout(t)
    \/ \E n \in Ticks : TickSetTimeout(n)
    \/ \E cb \in Callbacks \cup {NoCallback}, ok \in BOOLEAN : SetCallback(cb, ok)
    \/ \E d \in Divs : SetClockDiv(d)

Next ==
    \/ Operation
    \/ HwTick
    \/ HandlerBegin
    \/ \E keep \in BOOLEAN, next \in Intervals : HandlerEnd(keep, next)

Safety == Init /\ [][Next]_vars

\* The interrupt is taken and callbacks return.
Spec ==
    /\ Safety
    /\ WF_vars(HandlerBegin)
    /\ WF_vars(\E keep \in BOOLEAN, next \in Intervals : HandlerEnd(keep, next))
-----------------------------------------------------------------------------
(* bl616cl_timer_getstatus and bl616cl_timer_tick_getstatus                *)

TimeLeft ==
    LET elapsed == IF count < RawCompare(timeout) THEN count ELSE timeout
    IN  IF started THEN (timeout - elapsed) % Word ELSE timeout

\* bl616cl_timer_usec_to_ticks
UsecToTicks(usec) ==
    usec \div TickUsec + (IF usec % TickUsec # 0 THEN 1 ELSE 0)
-----------------------------------------------------------------------------
(* Properties                                                              *)

\* Also the time left that a status reports is one that the timeout has, whatever
\* the counter is when the timeout was shortened; in ticks a rest is not 0.
TypeOK ==
    /\ callback \in Callbacks \cup {NoCallback}
    /\ timeout \in MinTimeout .. MaxTimeout
    /\ generation \in 0 .. Generations - 1
    /\ clockDiv \in Divs /\ div \in Divs
    /\ {started, running, status, masked, irqEnabled, attached} \subseteq BOOLEAN
    /\ count \in 0 .. MaxTimeout /\ compare \in 0 .. MaxTimeout
    /\ handler \in {"idle", "callback"} /\ calls \in 0 .. MaxCalls
    /\ latched \in (Callbacks \cup {NoCallback}) \X (0 .. Generations - 1)
    /\ TimeLeft \in 0 .. timeout
    /\ UsecToTicks(TimeLeft) \in (IF TimeLeft = 0 THEN 0 ELSE 1) .. UsecToTicks(timeout)

\* The interrupt is open exactly while the timer runs for a callback: a stopped
\* timer never calls back, a running one with a callback always can, whatever
\* was updated, detached or refused on the way.
InterruptFollowsCallback ==
    /\ running = started
    /\ irqEnabled = (started /\ callback # NoCallback)
    /\ irqEnabled => attached
    /\ started => masked = (callback = NoCallback)

\* What the software believes of a running timer is what the registers hold:
\* the compare value is the timeout less the two cycles of the hardware, and
\* the divider is the one asked for (start, live update, next interval).
RegistersFollow ==
    started => compare = timeout - 2 /\ div = clockDiv

\* The timer: its types, and what the software believes of a running timer is
\* what the registers and the interrupt line hold.
RunningAsSet == TypeOK /\ InterruptFollowsCallback /\ RegistersFollow

\* A callback that stops, restarts or changes its own timer has the last word:
\* what it returned afterwards is not applied to the new setting.
CallbackHasLastWord ==
    [][handler = "callback" /\ handler' = "idle" /\ calls > 0
         => UNCHANGED <<started, timeout, compare>>]_vars

\* A compare match of a running timer with a callback is answered.
MatchAnswered ==
    status /\ started /\ callback # NoCallback
      ~> ~status \/ ~started \/ callback = NoCallback
=============================================================================
