---------------------------- MODULE GpioInterrupt ----------------------------
(***************************************************************************)
(* Pin interrupts of the GPIO expander, chips/bl616cl/bl616cl_gpio.c: the  *)
(* table of callbacks, the interrupt handler that hands over to a worker   *)
(* of the high priority queue, and the threads that configure, attach and  *)
(* detach.  A slot's pinset and cbfunc change together, so a slot is the   *)
(* pin it serves, or NoPin.                                                *)
(*                                                                         *)
(* attach and the second half of detach are critical sections; the worker  *)
(* takes no lock at all.  What keeps threads out of its middle is only its *)
(* priority: they run while it is idle or blocked in a callback, unless    *)
(* Preemptive.                                                             *)
(*                                                                         *)
(* An operator with "_" in its name is a faulty variant of the operator    *)
(* that follows it; no specification uses it.                              *)
(***************************************************************************)
EXTENDS Naturals

CONSTANTS
    Threads,        \* threads that configure, attach and detach
    NoThread,
    Pins, NoPin,
    Slots,          \* CONFIG_BL616CL_GPIO_INT_NCALLBACKS; slots are 1 .. Slots
    SharePins,      \* clients attach several callbacks to one pin
    Preemptive      \* threads may run above the worker's priority

IoeConstantsOK ==
    /\ Slots \in Nat \ {0}
    /\ NoPin \notin Pins /\ NoThread \notin Threads
    /\ SharePins \in BOOLEAN /\ Preemptive \in BOOLEAN

VARIABLES
    slot,           \* struct bl616cl_ioe_callback_s: the pin of each slot
    lock,           \* the thread that holds the mutex
    \* the GPIO controller and its interrupt line
    intMask, intStatus, lineEnabled,
    queued,         \* the work is in the queue
    worker, at,     \* what the worker does, and with which slot
    called,         \* the pin its callback was called for
    place, on,      \* calls in progress: the place, and the slot or pin
    disabled        \* pins whose last trigger is IOEXPANDER_VAL_DISABLE

workVars == <<queued, worker, at, called>>
ioeVars == <<slot, lock, intMask, intStatus, lineEnabled, workVars, place, on, disabled>>

\* bl616cl_gpio_initialize
IoeInit ==
    /\ slot = [i \in 1 .. Slots |-> NoPin]
    /\ lock = NoThread
    /\ intMask \in SUBSET Pins /\ intStatus = {} /\ lineEnabled = TRUE
    /\ queued = FALSE /\ worker = "idle" /\ at = 0 /\ called = NoPin
    /\ place = [t \in Threads |-> "idle"] /\ on = [t \in Threads |-> 0]
    /\ disabled = {}
-----------------------------------------------------------------------------
\* The worker runs, and threads do not, until it ends or blocks.
CanRun == Preemptive \/ worker \in {"idle", "callback"}

Enter(t, there, x) == place' = [place EXCEPT ![t] = there] /\ on' = [on EXCEPT ![t] = x]

Leave(t) == Enter(t, "idle", 0)

Attached(p) == \E i \in 1 .. Slots : slot[i] = p
-----------------------------------------------------------------------------
(* bl616cl_gpio_option, IOEXPANDER_OPTION_INTCFG                           *)

\* Under the mutex: pin and trigger are configured, which may leave the pin
\* masked, or the pin is disabled ...
OptionConfigure(t, p, disable) ==
    /\ CanRun /\ place[t] = "idle" /\ lock = NoThread
    /\ lock' = t
    /\ disabled' = IF disable THEN disabled \cup {p} ELSE disabled \ {p}
    /\ IF disable THEN intMask' = intMask \cup {p}
                  ELSE intMask' \in {intMask, intMask \cup {p}}
    /\ Enter(t, "arm", p)
    /\ UNCHANGED <<slot, intStatus, lineEnabled, workVars>>

\* ... and then it is unmasked.
OptionArm(t) ==
    /\ CanRun /\ place[t] = "arm"
    /\ intMask' = intMask \ {on[t]}
    /\ lock' = NoThread
    /\ Leave(t)
    /\ UNCHANGED <<slot, intStatus, lineEnabled, workVars, disabled>>
-----------------------------------------------------------------------------
(* bl616cl_gpio_attach and bl616cl_gpio_detach                             *)

\* The first free slot.
FreeSlot(i) == slot[i] = NoPin /\ \A j \in 1 .. i - 1 : slot[j] # NoPin

Arms_not(p) == intMask

Arms(p) == intMask \ {p}

\* Without SharePins a client attaches to a pin that nobody is attached to,
\* or is still detaching from.
Attach(t, p) ==
    /\ CanRun /\ place[t] = "idle"
    /\ SharePins \/ ~Attached(p)
    /\ \E i \in 1 .. Slots :
         /\ FreeSlot(i)
         /\ slot' = [slot EXCEPT ![i] = p]
    /\ intMask' = Arms(p)
    /\ disabled' = disabled \ {p}
    /\ UNCHANGED <<lock, intStatus, lineEnabled, workVars, place, on>>

\* A handle is detached once.  The pin is masked before the critical section.
DetachMask(t, i) ==
    /\ CanRun /\ place[t] = "idle" /\ slot[i] # NoPin
    /\ \A u \in Threads : place[u] = "clear" => on[u] # i
    /\ intMask' = intMask \cup {slot[i]}
    /\ Enter(t, "clear", i)
    /\ UNCHANGED <<slot, lock, intStatus, lineEnabled, workVars, disabled>>

DetachClear(t) ==
    /\ CanRun /\ place[t] = "clear"
    /\ slot' = [slot EXCEPT ![on[t]] = NoPin]
    /\ Leave(t)
    /\ UNCHANGED <<lock, intMask, intStatus, lineEnabled, workVars, disabled>>
-----------------------------------------------------------------------------
(* The controller, the interrupt handler and the worker                    *)

Event(p) ==
    /\ p \notin intStatus
    /\ intStatus' = intStatus \cup {p}
    /\ UNCHANGED <<slot, lock, intMask, lineEnabled, workVars, place, on, disabled>>

\* The line stays masked until the worker has finished.
LineAfterInterrupt == FALSE

\* bl616cl_gpio_interrupt; it does nothing when the work is queued already.
Interrupt ==
    /\ lineEnabled /\ intStatus \ intMask # {}
    /\ ~queued
    /\ lineEnabled' = LineAfterInterrupt
    /\ queued' = TRUE
    /\ UNCHANGED <<slot, lock, intMask, intStatus, worker, at, called, place, on, disabled>>

\* The queue takes the work out and runs bl616cl_gpio_irqworker.
WorkerBegin ==
    /\ queued /\ worker = "idle"
    /\ queued' = FALSE
    /\ worker' = "scan" /\ at' = 1
    /\ UNCHANGED <<slot, lock, intMask, intStatus, lineEnabled, called, place, on, disabled>>

\* A slot without callback, or whose pin has no event, is passed over.
Pending(i) == slot[i] # NoPin /\ slot[i] \in intStatus

WorkerSkip ==
    /\ worker = "scan" /\ at <= Slots
    /\ ~Pending(at)
    /\ at' = at + 1
    /\ UNCHANGED <<slot, lock, intMask, intStatus, lineEnabled, queued, worker, called,
                   place, on, disabled>>

ClearEvent(i) == intStatus \ {slot[i]}

WorkerClear ==
    /\ worker = "scan" /\ at <= Slots
    /\ Pending(at)
    /\ intStatus' = ClearEvent(at)
    /\ worker' = "call"
    /\ UNCHANGED <<slot, lock, intMask, lineEnabled, queued, at, called, place, on, disabled>>

\* cbfunc and pinset are read again for the call.
WorkerCall ==
    /\ worker = "call"
    /\ worker' = "callback" /\ called' = slot[at]
    /\ UNCHANGED <<slot, lock, intMask, intStatus, lineEnabled, queued, at, place, on,
                   disabled>>

ClearAgain_pin == intStatus \ {called}

\* The event was cleared before the callback.
ClearAgain == intStatus

WorkerReturn ==
    /\ worker = "callback"
    /\ worker' = "scan" /\ at' = at + 1 /\ called' = NoPin
    /\ intStatus' = ClearAgain
    /\ UNCHANGED <<slot, lock, intMask, lineEnabled, queued, place, on, disabled>>

ReEnable_never == lineEnabled

ReEnable == TRUE

WorkerEnd ==
    /\ worker = "scan" /\ at > Slots
    /\ lineEnabled' = ReEnable
    /\ worker' = "idle" /\ at' = 0
    /\ UNCHANGED <<slot, lock, intMask, intStatus, queued, called, place, on, disabled>>
-----------------------------------------------------------------------------
WorkerStep == \/ WorkerBegin \/ WorkerSkip \/ WorkerClear \/ WorkerCall
              \/ WorkerReturn \/ WorkerEnd

IoeNext ==
    \/ \E t \in Threads :
         \/ OptionArm(t) \/ DetachClear(t)
         \/ \E p \in Pins, disable \in BOOLEAN : OptionConfigure(t, p, disable)
         \/ \E p \in Pins : Attach(t, p)
         \/ \E i \in 1 .. Slots : DetachMask(t, i)
    \/ \E p \in Pins : Event(p)
    \/ Interrupt
    \/ WorkerBegin \/ WorkerSkip \/ WorkerClear \/ WorkerCall
    \/ WorkerReturn \/ WorkerEnd

\* The interrupt is taken, the work queue runs and callbacks return.
IoeSpec == IoeInit /\ [][IoeNext]_ioeVars /\ WF_ioeVars(Interrupt) /\ WF_ioeVars(WorkerStep)
-----------------------------------------------------------------------------
(* Properties                                                              *)

\* A callback is called for a pin: cbfunc is never NULL at the call.
IoeTypeOK ==
    /\ slot \in [1 .. Slots -> Pins \cup {NoPin}]
    /\ lock \in Threads \cup {NoThread}
    /\ {intMask, intStatus, disabled} \subseteq SUBSET Pins
    /\ {lineEnabled, queued} \subseteq BOOLEAN
    /\ worker \in {"idle", "scan", "call", "callback"} /\ at \in 0 .. Slots + 1
    /\ IF worker = "callback" THEN called \in Pins ELSE called = NoPin
    /\ place \in [Threads -> {"idle", "arm", "clear"}]

\* The line is closed exactly while the work is queued or runs: the work is
\* never queued twice and the line never stays closed (the header of
\* bl616cl_gpio_interrupt).
LineHandshake == ~lineEnabled <=> (queued \/ worker # "idle")

\* x is in a call that is about to change the mask of p.
Changing(p) == \E t \in Threads : \/ place[t] = "arm" /\ on[t] = p
                                  \/ place[t] = "clear" /\ slot[on[t]] = p

\* A pin that a client is attached to is armed, whatever detaches and
\* configurations run at the same time.
AttachedIsArmed ==
    \A p \in Pins : Attached(p) /\ ~Changing(p) => p \notin intMask

\* What the callers of the lower half rely on at any moment.
PinsOK == IoeTypeOK /\ LineHandshake /\ AttachedIsArmed

\* An event is taken from the controller only for a callback that starts
\* afterwards: an edge during a callback is not lost.
NoEventDropped ==
    [][\A p \in Pins : p \in intStatus /\ p \notin intStatus' =>
         worker' = "call" /\ slot[at'] = p]_ioeVars

\* An event of an attached pin is served, unless the pin is masked or
\* detached first.
EventServed ==
    \A p \in Pins :
        p \in intStatus /\ Attached(p) /\ p \notin intMask
          ~> p \notin intStatus \/ ~Attached(p) \/ p \in intMask

\* A pin that was disabled and has no callback does not interrupt
\* (IOEXPANDER_VAL_DISABLE masks the pin, bl616cl_gpio.c:322).
DisabledIsMasked ==
    \A p \in disabled : ~Attached(p) /\ ~Changing(p) => p \in intMask
=============================================================================
