------------------------------ MODULE Watchdog ------------------------------
(***************************************************************************)
(* The watchdog, chips/bl616cl/bl616cl_wdt.c with capture.  A timeout in   *)
(* milliseconds becomes a compare value of Num/Den ticks per millisecond,  *)
(* rounded up.  When the counter reaches it, the chip resets, or, with a   *)
(* capture handler, interrupts.                                            *)
(*                                                                         *)
(* Every operation is one critical section, that is one action; what the   *)
(* counter does in between is HwTick.                                      *)
(*                                                                         *)
(* An operator with "_" in its name is a faulty variant of the operator    *)
(* that follows it; no specification uses it.                              *)
(***************************************************************************)
EXTENDS Integers

CONSTANTS
    Num, Den,       \* BL616CL_WDT_HZ and 1000, cancelled
    MaxTicks,       \* BL616CL_WDT_MAXTICKS
    Handlers, NoHandler,
    MaxAge          \* bound on the ages that are told apart

ASSUME RateAssumption == Num \in Nat \ {0} /\ Den \in Nat \ {0}
ASSUME TicksAssumption == MaxTicks \in Nat /\ Num <= MaxTicks * Den
ASSUME HandlerAssumption == NoHandler \notin Handlers
\* Every age that the counter can show is told apart.
ASSUME AgeAssumption == MaxAge \in Nat /\ MaxTicks <= MaxAge

VARIABLES
    \* struct bl616cl_wdt_lowerhalf_s; since: ticks since lastreset
    started, timeout, handler, since,
    \* the watchdog's registers and its interrupt
    counting, counter, compare, resets, pending, irqEnabled,
    shown,          \* values that WVR may show
    age             \* ticks that the counter has counted since it was reset

regVars == <<counting, counter, compare, resets, pending, irqEnabled, shown>>
dogVars == <<started, timeout, handler, since, regVars, age>>

MaxTimeout == (MaxTicks * Den) \div Num     \* BL616CL_WDT_MAXTIMEOUT

MsToTicks_down(ms) == (ms * Num) \div Den

\* bl616cl_wdt_ms_to_ticks
MsToTicks(ms) == (((ms * Num) + Den - 1) \div Den) % (MaxTicks + 1)

\* bl616cl_wdt_ticks_to_ms
TicksToMs(ticks) == ((ticks * Den) + Num - 1) \div Num

\* bl616cl_wdt_initialize on the state that a reset leaves
DogInit ==
    /\ started = FALSE /\ timeout = MaxTimeout /\ handler = NoHandler /\ since = 0
    /\ counting = FALSE /\ counter = 0 /\ compare = 0 /\ resets = TRUE
    /\ pending = FALSE /\ irqEnabled = FALSE /\ shown = {0} /\ age = 0
-----------------------------------------------------------------------------
(* Registers                                                               *)

\* bl616cl_wdt_configure, of the timeout ms
Configure(ms) == compare' = MsToTicks(ms) /\ resets' = (handler = NoHandler)

\* bflb_wdg_reset_countervalue: for a while WVR may show the value from before.
ResetCounter == counter' = 0 /\ age' = 0 /\ shown' = shown \cup {0}

Stamp_never == UNCHANGED since

\* lastreset = clock_systime_ticks(), in a live update
Stamp == since' = 0

SetAction_capture(h) == resets' = (resets /\ h = NoHandler)

\* bl616cl_wdt_set_action
SetAction(h) == resets' = (h = NoHandler)
-----------------------------------------------------------------------------
(* The lower half operations                                               *)

Start ==
    /\ ~started
    /\ Configure(timeout) /\ ResetCounter /\ since' = 0
    /\ pending' = FALSE
    /\ counting' = TRUE
    /\ irqEnabled' = (handler # NoHandler \/ irqEnabled)
    /\ started' = TRUE
    /\ UNCHANGED <<timeout, handler>>

Stop ==
    /\ irqEnabled' = FALSE /\ pending' = FALSE
    /\ counting' = FALSE
    /\ started' = FALSE
    /\ UNCHANGED <<timeout, handler, since, counter, compare, resets, shown, age>>

KeepAlive ==
    /\ ResetCounter /\ since' = 0
    /\ UNCHANGED <<started, timeout, handler, counting, compare, resets, pending,
                   irqEnabled>>

Representable(ms) == ms \in 1 .. MaxTimeout

\* An update of a watchdog that runs starts it anew.
SetTimeout(ms) ==
    /\ Representable(ms)
    /\ timeout' = ms
    /\ IF started
       THEN /\ Configure(ms) /\ ResetCounter /\ Stamp
            /\ pending' = FALSE
            /\ irqEnabled' = (handler # NoHandler)
       ELSE UNCHANGED <<regVars, since, age>>
    /\ UNCHANGED <<started, handler, counting>>

Capture(h) ==
    /\ handler' = h
    /\ IF started
       THEN /\ irqEnabled' = (h # NoHandler)
            /\ IF (h = NoHandler) # (handler = NoHandler)
               THEN pending' = FALSE /\ SetAction(h)
               ELSE UNCHANGED <<pending, resets>>
       ELSE UNCHANGED <<irqEnabled, pending, resets>>
    /\ UNCHANGED <<started, timeout, since, counting, counter, compare, shown, age>>

\* bl616cl_wdt_handler
Handle ==
    /\ pending /\ irqEnabled
    /\ pending' = FALSE
    /\ UNCHANGED <<started, timeout, handler, since, counting, counter, compare,
                   resets, irqEnabled, shown, age>>
-----------------------------------------------------------------------------
(* The hardware                                                            *)

Matches == counting /\ (counter + 1) % (MaxTicks + 1) = compare

Older(n) == IF n < MaxAge THEN n + 1 ELSE n

\* Behind the compare value the counter goes on, or starts again.
HwTick ==
    /\ Matches => ~resets
    /\ since' = Older(since)
    /\ age' = IF counting THEN Older(age) ELSE age
    /\ counter' \in (IF ~counting THEN {counter} ELSE {(counter + 1) % (MaxTicks + 1)})
                     \cup (IF Matches THEN {0} ELSE {})
    /\ shown' = {counter'}
    /\ pending' = (pending \/ Matches)
    /\ UNCHANGED <<started, timeout, handler, counting, compare, resets, irqEnabled>>

\* The tick that resets the chip.
Bites == Matches /\ resets
-----------------------------------------------------------------------------
\* bl616cl_wdt_getstatus, when WVR shows n
TimeLeft(n) ==
    LET rest == TicksToMs(MsToTicks(timeout) - n)
        elapsed == (since * Den) \div Num
    IN  IF ~started THEN timeout
        ELSE IF n < MsToTicks(timeout)
             THEN IF rest > timeout THEN timeout ELSE rest
             ELSE IF elapsed < timeout THEN timeout - elapsed ELSE 0

DogTypeOK ==
    /\ started \in BOOLEAN /\ timeout \in 1 .. MaxTimeout
    /\ handler \in Handlers \cup {NoHandler}
    /\ counting \in BOOLEAN /\ resets \in BOOLEAN /\ pending \in BOOLEAN
    /\ irqEnabled \in BOOLEAN
    /\ counter \in 0 .. MaxTicks /\ compare \in 0 .. MaxTicks
    /\ shown \subseteq 0 .. MaxTicks /\ shown # {}
    /\ since \in 0 .. MaxAge /\ age \in 0 .. MaxAge
=============================================================================
