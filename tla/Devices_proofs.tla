--------------------------- MODULE Devices_proofs ----------------------------
(***************************************************************************)
(* Proofs about the devices with one interrupt or one lock: TIMER0 (module *)
(* Timer), the pin interrupts (GpioInterrupt), the random number           *)
(* generator (Rng) with its test program, and what clients read of the     *)
(* pins (GpioPins, GpioTests), each for any values of its constants.       *)
(*                                                                         *)
(* The timer: that a callback has the last word rests on the generation:   *)
(* while the callback runs, every operation that leaves the timer started  *)
(* has moved it, and fewer operations than there are generations bring it  *)
(* not back.                                                               *)
(*                                                                         *)
(* The pins: two assumptions on the clients are needed, and the theorems   *)
(* state them where they are: threads run below the work queue, and a      *)
(* client attaches one callback to a pin.                                  *)
(*                                                                         *)
(* The generator: a reader has the unit to itself from the lock to the     *)
(* unlock, and the state of the unit follows from how far it is.  The test *)
(* program passes because its workers only read, and a unit that answers   *)
(* in time gives every byte.                                               *)
(*                                                                         *)
(* The levels: the output register holds what was asked of a pin last, as  *)
(* its polarity turns it.                                                  *)
(***************************************************************************)
EXTENDS Timer, GpioInterrupt, Rng, TLAPS

-----------------------------------------------------------------------------
(* TIMER0                                                                  *)

USE NoCallbackAssumption, WordAssumption, TickAssumption, GenerationAssumption

CallbacksOrNone == Callbacks \cup {NoCallback}

Settings ==
    /\ callback \in CallbacksOrNone
    /\ timeout \in MinTimeout .. MaxTimeout
    /\ generation \in 0 .. Generations - 1
    /\ clockDiv \in Divs
    /\ started \in BOOLEAN

Registers ==
    /\ running \in BOOLEAN /\ status \in BOOLEAN /\ masked \in BOOLEAN
    /\ irqEnabled \in BOOLEAN /\ attached \in BOOLEAN
    /\ count \in 0 .. MaxTimeout /\ compare \in 0 .. MaxTimeout /\ div \in Divs

Handling ==
    /\ handler \in {"idle", "callback"} /\ calls \in 0 .. MaxCalls
    /\ latched \in CallbacksOrNone \X (0 .. Generations - 1)

Types == Settings /\ Registers /\ Handling

\* k generations after g.
After(g, k) == IF g + k < Generations THEN g + k ELSE g + k - Generations

\* While the callback runs, the generation has moved once for every operation
\* of the callback, but for those that leave a stopped timer stopped.
Moved ==
    handler = "callback" =>
        \E k \in 0 .. calls : /\ generation = After(latched[2], k)
                              /\ k = 0 /\ calls > 0 => ~started

Inv == Types /\ InterruptFollowsCallback /\ RegistersFollow /\ Moved
-----------------------------------------------------------------------------
(* Arithmetic                                                              *)

LEMMA SmallMod == \A w \in Nat \ {0} : \A a \in 0 .. w - 1 : a % w = a
  OBVIOUS

LEMMA ModRange == \A w \in Nat \ {0} : \A a \in Int : a % w \in 0 .. w - 1
  OBVIOUS

LEMMA InWord == \A a \in Int : a % Word \in 0 .. MaxTimeout
  BY ModRange DEF MaxTimeout

LEMMA RawCompareIs == \A t \in MinTimeout .. MaxTimeout : RawCompare(t) = t - 2
  BY SmallMod DEF RawCompare, MaxTimeout

LEMMA NextIs ==
    \A g \in 0 .. Generations - 1 :
        (g + 1) % Generations = After(g, 1) /\ After(g, 1) \in 0 .. Generations - 1
<1>1. Generations \in Nat \ {0} /\ Generations % Generations = 0
  OBVIOUS
<1>2. \A g \in 0 .. Generations - 2 : (g + 1) % Generations = g + 1
  BY <1>1, SmallMod
<1> QED  BY <1>1, <1>2 DEF After

\* In ticks, rounded up, a part is at least 1 and not more than the whole.
LEMMA TicksOfPart ==
    ASSUME NEW u \in Nat, NEW v \in Nat, u <= v
    PROVE  UsecToTicks(u) \in (IF u = 0 THEN 0 ELSE 1) .. UsecToTicks(v)
<1> DEFINE q(x) == x \div TickUsec
           r(x) == x % TickUsec
<1>1. \A x \in Nat : q(x) \in Nat /\ r(x) \in 0 .. TickUsec - 1 /\ x = TickUsec * q(x) + r(x)
  OBVIOUS
<1> QED  BY <1>1 DEF UsecToTicks
-----------------------------------------------------------------------------
(* The steps                                                               *)

LEMMA InvInit == Init => Inv
<1> SUFFICES ASSUME Init PROVE Inv
  OBVIOUS
<1>1. Settings
  <2>1. timeout \in MinTimeout .. MaxTimeout
    BY DEF Init, MaxTimeout
  <2>2. generation \in 0 .. Generations - 1
    BY DEF Init
  <2> QED  BY <2>1, <2>2 DEF Init, Settings, CallbacksOrNone
<1>2. Registers
  <2>1. count \in 0 .. MaxTimeout /\ compare \in 0 .. MaxTimeout
    BY DEF Init, MaxTimeout
  <2> QED  BY <2>1 DEF Init, Registers
<1>3. Handling
  BY DEF Init, Handling, CallbacksOrNone
<1> QED  BY <1>1, <1>2, <1>3 DEF Init, Inv, Types, InterruptFollowsCallback, RegistersFollow, Moved

\* An operation changes the handler only in the number of its calls.
LEMMA Operations ==
    ASSUME Inv, Called, UNCHANGED <<handler, latched>>,
           \/ generation' = NextGeneration
           \/ generation' = generation /\ (handler = "callback" => ~started) /\ started' = started
    PROVE  Handling' /\ Moved' /\ generation' \in 0 .. Generations - 1
<1> USE DEF Inv, Types, Settings, Handling
<1>1. generation' \in 0 .. Generations - 1
  BY NextIs DEF NextGeneration
<1>2. CASE handler # "callback"
  BY <1>1, <1>2 DEF Called, Moved
<1>3. CASE handler = "callback"
  <2>1. calls' = calls + 1 /\ calls < MaxCalls
    BY <1>3 DEF Called
  <2>2. PICK k \in 0 .. calls : generation = After(latched[2], k) /\ (k = 0 /\ calls > 0 => ~started)
    BY <1>3 DEF Moved
  <2>3. CASE generation' = NextGeneration
    <3>1. generation' = After(latched[2], k + 1)
      BY <2>1, <2>2, <2>3, NextIs DEF NextGeneration, After
    <3> QED  BY <1>1, <2>1, <3>1 DEF Moved
  <2>4. CASE generation' = generation /\ ~started /\ started' = started
    BY <1>1, <2>1, <2>2, <2>4 DEF Moved
  <2> QED  BY <1>3, <2>3, <2>4
<1> QED  BY <1>2, <1>3

LEMMA StartStep == ASSUME Inv, NEW ok \in BOOLEAN, Start(ok) PROVE Inv'
<1> USE DEF Inv, Types
<1>1. /\ Called /\ ~started /\ UNCHANGED <<callback, timeout, clockDiv, handler, latched>>
      /\ \/ generation' = NextGeneration
         \/ generation' = generation /\ (handler = "callback" => ~started) /\ started' = started
  BY DEF Start
<1>2. Handling' /\ Moved' /\ generation' \in 0 .. Generations - 1
  BY <1>1, Operations
<1>3. compare' = timeout - 2 /\ div' = clockDiv /\ status' \in {status, FALSE}
  BY RawCompareIs DEF Start, Configure, Settings
<1>4. Settings'
  BY <1>1, <1>2 DEF Start, Settings
<1>5. Registers'
  <2>1. compare' \in 0 .. MaxTimeout /\ div' \in Divs /\ status' \in BOOLEAN
    <3>1. compare' \in 0 .. MaxTimeout
      BY <1>3 DEF Settings, MaxTimeout
    <3> QED  BY <1>3, <3>1 DEF Registers, Settings
  <2>2. /\ running' \in BOOLEAN /\ masked' \in BOOLEAN /\ irqEnabled' \in BOOLEAN
        /\ attached' \in BOOLEAN
    BY DEF Start, OpenLine, CloseLine, Registers
  <2>3. count' \in 0 .. MaxTimeout
    BY DEF Start, Registers, MaxTimeout
  <2> QED  BY <2>1, <2>2, <2>3 DEF Registers
<1>6. InterruptFollowsCallback'
  BY <1>1 DEF Start, OpenLine, CloseLine, InterruptFollowsCallback, Settings, Registers
<1> QED  BY <1>1, <1>2, <1>3, <1>4, <1>5, <1>6 DEF RegistersFollow

LEMMA StopLockedStep ==
    ASSUME Inv, StopLocked, UNCHANGED <<callback, timeout, clockDiv, count, compare, div, status>>
    PROVE  Settings' /\ Registers' /\ InterruptFollowsCallback' /\ RegistersFollow'
  BY NextIs DEF Inv, Types, StopLocked, CloseLine, NextGeneration, Settings, Registers,
     InterruptFollowsCallback, RegistersFollow

LEMMA StopStep == ASSUME Inv, Stop PROVE Inv'
<1>1. Handling' /\ Moved'
  BY Operations DEF Stop, StopLocked
<1> QED  BY <1>1, StopLockedStep DEF Stop, Inv, Types

LEMMA SetTimeoutStep == ASSUME Inv, NEW t \in 0 .. MaxTimeout, SetTimeout(t) PROVE Inv'
<1> USE DEF Inv, Types
<1>1. Handling' /\ Moved' /\ generation' \in 0 .. Generations - 1
  BY Operations DEF SetTimeout
<1>2. t \in MinTimeout .. MaxTimeout /\ timeout' = t /\ UNCHANGED <<callback, clockDiv, started>>
  BY DEF SetTimeout, ValidTimeout, MaxTimeout
<1>3. Settings'
  BY <1>1, <1>2 DEF Settings
<1>4. CASE started
  <2>1. compare' = t - 2 /\ div' = clockDiv /\ status' \in {status, FALSE}
    BY <1>2, <1>4, RawCompareIs DEF SetTimeout, Configure
  <2>2. /\ masked' = (callback = NoCallback) /\ running' = TRUE /\ count' = 0
        /\ UNCHANGED <<irqEnabled, attached>>
    BY <1>4 DEF SetTimeout
  <2>3. Registers'
    <3>1. compare' \in 0 .. MaxTimeout /\ count' \in 0 .. MaxTimeout
      BY <1>2, <2>1, <2>2 DEF MaxTimeout
    <3>2. masked' \in BOOLEAN /\ running' \in BOOLEAN /\ status' \in BOOLEAN
      BY <2>1, <2>2 DEF Registers
    <3> QED  BY <2>1, <2>2, <3>1, <3>2 DEF Registers, Settings
  <2> QED  BY <1>1, <1>2, <1>3, <1>4, <2>1, <2>2, <2>3 DEF InterruptFollowsCallback, RegistersFollow
<1>5. CASE ~started
  <2>1. UNCHANGED regVars
    BY <1>5 DEF SetTimeout
  <2> QED  BY <1>1, <1>2, <1>3, <1>5, <2>1 DEF regVars, Registers, InterruptFollowsCallback,
           RegistersFollow
<1> QED  BY <1>4, <1>5 DEF Settings

LEMMA TickSetTimeoutStep == ASSUME Inv, NEW n \in Ticks, TickSetTimeout(n) PROVE Inv'
<1>1. n * TickUsec \in Int
  OBVIOUS
<1>2. (n * TickUsec) % Word \in 0 .. MaxTimeout
  BY <1>1, InWord
<1> QED  BY <1>2, SetTimeoutStep DEF TickSetTimeout

LEMMA SetCallbackStep ==
    ASSUME Inv, NEW cb \in CallbacksOrNone, NEW ok \in BOOLEAN, SetCallback(cb, ok)
    PROVE  Inv'
<1> USE DEF Inv, Types
<1>1. /\ generation' = NextGeneration /\ Called
      /\ UNCHANGED <<timeout, clockDiv, started, handler, latched>>
      /\ UNCHANGED <<running, count, compare, div, status>> /\ callback' = cb
  BY DEF SetCallback, regVars
<1>2. Handling' /\ Moved' /\ generation' \in 0 .. Generations - 1
  BY <1>1, Operations
<1>3. Settings'
  BY <1>1, <1>2 DEF Settings
<1>4. Registers' /\ InterruptFollowsCallback'
  <2>1. CASE ~started /\ UNCHANGED regVars
    BY <1>1, <2>1 DEF regVars, Registers, InterruptFollowsCallback
  <2>2. CASE started /\ cb # NoCallback /\ OpenLine
    BY <1>1, <2>2 DEF OpenLine, Registers, InterruptFollowsCallback
  <2>3. CASE started /\ cb = NoCallback /\ CloseLine /\ attached' = FALSE
    BY <1>1, <2>3 DEF CloseLine, Registers, InterruptFollowsCallback
  <2> QED  BY <2>1, <2>2, <2>3 DEF SetCallback
<1> QED  BY <1>1, <1>2, <1>3, <1>4 DEF RegistersFollow

LEMMA SetClockDivStep == ASSUME Inv, NEW d \in Divs, SetClockDiv(d) PROVE Inv'
<1>1. Handling' /\ Moved'
  BY Operations DEF SetClockDiv
<1> QED  BY <1>1 DEF Inv, Types, SetClockDiv, regVars, Settings, Registers,
         InterruptFollowsCallback, RegistersFollow

LEMMA HwTickStep == ASSUME Inv, HwTick PROVE Inv'
<1> USE DEF Inv, Types
<1>1. count' \in 0 .. MaxTimeout /\ status' \in BOOLEAN
  <2>1. (count + 1) % Word \in 0 .. MaxTimeout /\ 0 \in 0 .. MaxTimeout
    BY InWord DEF Registers, MaxTimeout
  <2>2. count' \in {0, (count + 1) % Word} /\ status' \in {status, TRUE}
    BY DEF HwTick
  <2> QED  BY <2>1, <2>2 DEF Registers
<1>2. UNCHANGED <<callback, timeout, generation, clockDiv, started, running, compare, div,
                  masked, irqEnabled, attached, handler, latched, calls>>
  BY DEF HwTick
<1> QED  BY <1>1, <1>2 DEF Settings, Registers, Handling, InterruptFollowsCallback,
         RegistersFollow, Moved

LEMMA HandlerBeginStep == ASSUME Inv, HandlerBegin PROVE Inv'
<1> USE DEF Inv, Types
<1>1. /\ latched' = <<callback, generation>> /\ handler' = "callback" /\ calls' = 0
      /\ status' = FALSE
      /\ UNCHANGED <<callback, timeout, generation, clockDiv, started, running, count,
                     compare, div, masked, irqEnabled, attached>>
  BY DEF HandlerBegin
<1>2. Handling'
  BY <1>1 DEF Handling, Settings
<1>3. Moved'
  <2>1. generation' = After(latched'[2], 0)
    BY <1>1 DEF After, Settings
  <2> QED  BY <1>1, <2>1 DEF Moved
<1> QED  BY <1>1, <1>2, <1>3 DEF Settings, Registers, InterruptFollowsCallback, RegistersFollow

LEMMA HandlerEndStep ==
    ASSUME Inv, NEW keep \in BOOLEAN, NEW next \in Intervals, HandlerEnd(keep, next)
    PROVE  Inv'
<1> USE DEF Inv, Types
<1>1. Handling' /\ Moved'
  BY DEF HandlerEnd, Handling, Moved, CallbacksOrNone
<1>2. UNCHANGED <<callback, clockDiv>>
  BY DEF HandlerEnd
<1>3. CASE UNCHANGED <<timeout, generation, started, regVars>>
  BY <1>1, <1>2, <1>3 DEF regVars, Settings, Registers, InterruptFollowsCallback, RegistersFollow
<1>4. CASE StopLocked /\ UNCHANGED <<timeout, count, compare, div, status>>
  BY <1>1, <1>2, <1>4, StopLockedStep
<1>5. CASE /\ \/ next >= MinTimeout /\ timeout' = next /\ compare' = RawCompare(next)
              \/ UNCHANGED <<timeout, compare>>
           /\ UNCHANGED <<generation, started, running, count, div, status, masked,
                          irqEnabled, attached>>
  <2>1. \/ timeout' \in MinTimeout .. MaxTimeout /\ compare' = timeout' - 2
        \/ UNCHANGED <<timeout, compare>>
    BY <1>5, RawCompareIs DEF MaxTimeout
  <2>2. Settings'
    BY <1>2, <1>5, <2>1 DEF Settings
  <2>3. Registers'
    BY <1>5, <2>1 DEF Registers, MaxTimeout
  <2> QED  BY <1>1, <1>2, <1>5, <2>1, <2>2, <2>3 DEF InterruptFollowsCallback, RegistersFollow
<1> QED  BY <1>3, <1>4, <1>5 DEF HandlerEnd

LEMMA InvNext == ASSUME Inv, [Next]_vars PROVE Inv'
<1>1. CASE Operation
  <2>1. Timeouts \subseteq 0 .. MaxTimeout
    BY DEF MaxTimeout
  <2> QED  BY <1>1, <2>1, StartStep, StopStep, SetTimeoutStep, TickSetTimeoutStep, SetCallbackStep,
           SetClockDivStep DEF Operation, CallbacksOrNone
<1>2. CASE UNCHANGED vars
  BY <1>2 DEF vars, regVars, Inv, Types, Settings, Registers, Handling, InterruptFollowsCallback,
     RegistersFollow, Moved
<1> QED  BY <1>1, <1>2, HwTickStep, HandlerBeginStep, HandlerEndStep DEF Next
-----------------------------------------------------------------------------
(* What a status reports                                                   *)

LEMMA TimeLeftIs == ASSUME Types PROVE TimeLeft \in 0 .. timeout
<1>1. timeout \in 0 .. Word - 1 /\ timeout \in MinTimeout .. MaxTimeout /\ count \in Nat
  BY DEF Types, Settings, Registers, MaxTimeout
<1> DEFINE elapsed == IF count < RawCompare(timeout) THEN count ELSE timeout
<1>2. elapsed \in 0 .. timeout
  BY <1>1, RawCompareIs
<1>3. (timeout - elapsed) % Word = timeout - elapsed
  BY <1>1, <1>2, SmallMod
<1> QED  BY <1>1, <1>2, <1>3 DEF TimeLeft

\* What the software believes of the timer is what its registers and its
\* interrupt line hold, whatever callers and callbacks do in whatever order; and
\* a status reports a time left that the timeout has.
THEOREM TimerRunsAsSet == Spec => []RunningAsSet
<1>1. Inv => RunningAsSet
  <2> SUFFICES ASSUME Inv PROVE TypeOK
    BY DEF Inv, RunningAsSet
  <2>1. TimeLeft \in 0 .. timeout /\ timeout \in Nat
    BY TimeLeftIs DEF Inv, Types, Settings, MaxTimeout
  <2>2. UsecToTicks(TimeLeft) \in (IF TimeLeft = 0 THEN 0 ELSE 1) .. UsecToTicks(timeout)
    BY <2>1, TicksOfPart
  <2>3. {started, running, status, masked, irqEnabled, attached} \subseteq BOOLEAN
    BY DEF Inv, Types, Settings, Registers
  <2> QED  BY <2>1, <2>2, <2>3 DEF Inv, Types, Settings, Registers, Handling, CallbacksOrNone, TypeOK
<1> QED  BY <1>1, InvInit, InvNext, PTL DEF Spec, Safety

\* A callback that stops, restarts or changes its own timer has the last word:
\* with fewer calls than generations, the end of the handler sees it.
THEOREM CallbacksHaveLastWord == Spec => CallbackHasLastWord
<1>1. ASSUME Inv, [Next]_vars, handler = "callback", handler' = "idle", calls > 0
      PROVE  UNCHANGED <<started, timeout, compare>>
  <2>1. PICK keep \in BOOLEAN, next \in Intervals : HandlerEnd(keep, next)
    BY <1>1 DEF Next, Operation, Start, Stop, SetTimeout, TickSetTimeout, SetCallback, SetClockDiv,
       HwTick, HandlerBegin, vars
  <2>2. PICK k \in 0 .. calls : generation = After(latched[2], k) /\ (k = 0 /\ calls > 0 => ~started)
    BY <1>1 DEF Inv, Moved
  <2>3. latched[2] \in 0 .. Generations - 1 /\ calls \in 0 .. MaxCalls
    BY <1>1 DEF Inv, Types, Handling
  <2>4. Outdated
    BY <1>1, <2>2, <2>3 DEF Outdated, After
  <2> QED  BY <2>1, <2>4 DEF HandlerEnd, regVars
<1>2. Inv /\ [Next]_vars
        => (handler = "callback" /\ handler' = "idle" /\ calls > 0
              => UNCHANGED <<started, timeout, compare>>)
  BY <1>1
<1>3. Inv /\ [Next]_vars => Inv'
  BY InvNext
<1> QED  BY <1>2, <1>3, InvInit, PTL DEF Spec, Safety, CallbackHasLastWord
-----------------------------------------------------------------------------
(* The pin interrupts                                                      *)

SlotIds == 1 .. Slots

IoeTypes ==
    /\ slot \in [SlotIds -> Pins \cup {NoPin}]
    /\ lock \in Threads \cup {NoThread}
    /\ intMask \in SUBSET Pins /\ intStatus \in SUBSET Pins /\ disabled \in SUBSET Pins
    /\ lineEnabled \in BOOLEAN /\ queued \in BOOLEAN
    /\ worker \in {"idle", "scan", "call", "callback"}
    /\ at \in 0 .. Slots + 1
    /\ worker = "scan" => at \in 1 .. Slots + 1
    /\ worker \in {"call", "callback"} => at \in SlotIds
    /\ place \in [Threads -> {"idle", "arm", "clear"}]
    /\ on = [t \in Threads |-> on[t]]

\* What a thread in the middle of a call works on.
Working == \A t \in Threads : /\ place[t] = "arm" => on[t] \in Pins
                            /\ place[t] = "clear" => on[t] \in SlotIds

\* The work is not queued while it runs, and the line is closed meanwhile.
Handshake ==
    /\ worker # "idle" => ~queued
    /\ lineEnabled = ~(queued \/ worker # "idle")

\* What the worker calls.
Place ==
    /\ worker = "call" => slot[at] \in Pins
    /\ IF worker = "callback" THEN called \in Pins ELSE called = NoPin

\* A slot is detached by one thread, and a pin has one slot.
OneDetacher ==
    \A t, u \in Threads : place[t] = "clear" /\ place[u] = "clear" /\ on[t] = on[u] => t = u

OneSlot == \A i, j \in SlotIds : slot[i] = slot[j] /\ slot[i] # NoPin => i = j

-----------------------------------------------------------------------------
(* IoeTypes                                                                   *)

LEMMA IoeTypesInit == ASSUME IoeConstantsOK PROVE IoeInit => IoeTypes /\ Working
<1> SUFFICES ASSUME IoeInit PROVE IoeTypes /\ Working
  OBVIOUS
<1>1. on = [t \in Threads |-> 0] /\ on = [t \in Threads |-> on[t]]
  BY DEF IoeInit
<1>2. Working
  BY DEF IoeInit, Working
<1>3. at \in 0 .. Slots + 1
  BY DEF IoeInit, IoeConstantsOK
<1> QED  BY <1>1, <1>2, <1>3 DEF IoeInit, IoeTypes, SlotIds

LEMMA IoeTypesNext ==
    ASSUME IoeConstantsOK, IoeTypes, Working, [IoeNext]_ioeVars
    PROVE  IoeTypes' /\ Working'
<1> USE DEF IoeTypes, Working, SlotIds
<1>1. ASSUME NEW t \in Threads, NEW p \in Pins, NEW disable \in BOOLEAN,
             OptionConfigure(t, p, disable)
      PROVE  IoeTypes' /\ Working'
  <2>1. intMask' \in SUBSET Pins /\ disabled' \in SUBSET Pins
    BY <1>1 DEF OptionConfigure
  <2>2. UNCHANGED <<slot, intStatus, lineEnabled, queued, worker, at>> /\ lock' = t
    BY <1>1 DEF OptionConfigure, workVars
  <2>3. place' = [place EXCEPT ![t] = "arm"] /\ on' = [on EXCEPT ![t] = p]
    BY <1>1 DEF OptionConfigure, Enter
  <2> QED  BY <2>1, <2>2, <2>3
<1>2. ASSUME NEW t \in Threads, OptionArm(t)
      PROVE  IoeTypes' /\ Working'
  <2>1. intMask' \in SUBSET Pins /\ lock' = NoThread
    BY <1>2 DEF OptionArm
  <2>2. UNCHANGED <<slot, intStatus, lineEnabled, queued, worker, at, disabled>>
    BY <1>2 DEF OptionArm, workVars
  <2>3. place' = [place EXCEPT ![t] = "idle"] /\ on' = [on EXCEPT ![t] = 0]
    BY <1>2 DEF OptionArm, Leave, Enter
  <2> QED  BY <2>1, <2>2, <2>3
<1>3. ASSUME NEW t \in Threads, NEW p \in Pins, Attach(t, p)
      PROVE  IoeTypes' /\ Working'
  <2>1. PICK i \in SlotIds : slot' = [slot EXCEPT ![i] = p]
    BY <1>3 DEF Attach
  <2>2. intMask' \in SUBSET Pins /\ disabled' \in SUBSET Pins
    BY <1>3 DEF Attach, Arms
  <2>3. UNCHANGED <<lock, intStatus, lineEnabled, queued, worker, at, place, on>>
    BY <1>3 DEF Attach, workVars
  <2> QED  BY <2>1, <2>2, <2>3
<1>4. ASSUME NEW t \in Threads, NEW i \in SlotIds, DetachMask(t, i)
      PROVE  IoeTypes' /\ Working'
  <2>1. intMask' \in SUBSET Pins
    BY <1>4 DEF DetachMask
  <2>2. UNCHANGED <<slot, lock, intStatus, lineEnabled, queued, worker, at, disabled>>
    BY <1>4 DEF DetachMask, workVars
  <2>3. place' = [place EXCEPT ![t] = "clear"] /\ on' = [on EXCEPT ![t] = i]
    BY <1>4 DEF DetachMask, Enter
  <2> QED  BY <2>1, <2>2, <2>3
<1>5. ASSUME NEW t \in Threads, DetachClear(t)
      PROVE  IoeTypes' /\ Working'
  <2>1. slot' = [slot EXCEPT ![on[t]] = NoPin] /\ on[t] \in SlotIds
    BY <1>5 DEF DetachClear
  <2>2. UNCHANGED <<lock, intMask, intStatus, lineEnabled, queued, worker, at, disabled>>
    BY <1>5 DEF DetachClear, workVars
  <2>3. place' = [place EXCEPT ![t] = "idle"] /\ on' = [on EXCEPT ![t] = 0]
    BY <1>5 DEF DetachClear, Leave, Enter
  <2> QED  BY <2>1, <2>2, <2>3
<1>6. ASSUME NEW p \in Pins, Event(p)
      PROVE  IoeTypes' /\ Working'
  BY <1>6 DEF Event, workVars
<1>7. CASE Interrupt
  BY <1>7 DEF Interrupt, LineAfterInterrupt
<1>8. CASE WorkerStep
  <2>1. UNCHANGED <<slot, lock, intMask, place, on, disabled>>
    BY <1>8 DEF WorkerStep, WorkerBegin, WorkerSkip, WorkerClear, WorkerCall, WorkerReturn,
                WorkerEnd
  <2>2. CASE WorkerBegin
    <3>1. worker' = "scan" /\ at' \in 1 .. Slots + 1
      BY <2>2 DEF WorkerBegin, IoeConstantsOK
    <3>2. UNCHANGED <<intStatus, lineEnabled>> /\ queued' \in BOOLEAN
      BY <2>2 DEF WorkerBegin
    <3> QED  BY <2>1, <3>1, <3>2
  <2>3. CASE WorkerSkip
    <3>1. worker' = "scan" /\ at' \in 1 .. Slots + 1
      BY <2>3 DEF WorkerSkip, IoeConstantsOK
    <3>2. UNCHANGED <<intStatus, lineEnabled, queued>>
      BY <2>3 DEF WorkerSkip
    <3> QED  BY <2>1, <3>1, <3>2
  <2>4. CASE WorkerClear
    BY <2>1, <2>4 DEF WorkerClear, ClearEvent, IoeConstantsOK
  <2>5. CASE WorkerCall
    BY <2>1, <2>5 DEF WorkerCall
  <2>6. CASE WorkerReturn
    BY <2>1, <2>6 DEF WorkerReturn, ClearAgain, IoeConstantsOK
  <2>7. CASE WorkerEnd
    BY <2>1, <2>7 DEF WorkerEnd, ReEnable, IoeConstantsOK
  <2> QED  BY <1>8, <2>2, <2>3, <2>4, <2>5, <2>6, <2>7 DEF WorkerStep
<1>9. CASE UNCHANGED ioeVars
  BY <1>9 DEF ioeVars, workVars
<1> QED  BY <1>1, <1>2, <1>3, <1>4, <1>5, <1>6, <1>7, <1>8, <1>9 DEF IoeNext, WorkerStep
-----------------------------------------------------------------------------
(* The line                                                                *)

LEMMA HandshakeNext ==
    ASSUME Handshake, [IoeNext]_ioeVars
    PROVE  Handshake'
<1> USE DEF Handshake
<1>1. ASSUME NEW t \in Threads,
             \/ OptionArm(t) \/ DetachClear(t)
             \/ \E p \in Pins, disable \in BOOLEAN : OptionConfigure(t, p, disable)
             \/ \E p \in Pins : Attach(t, p)
             \/ \E i \in 1 .. Slots : DetachMask(t, i)
      PROVE  Handshake'
  BY <1>1 DEF OptionArm, DetachClear, OptionConfigure, Attach, DetachMask, workVars
<1>2. ASSUME NEW p \in Pins, Event(p)
      PROVE  Handshake'
  BY <1>2 DEF Event, workVars
<1>3. CASE Interrupt
  BY <1>3 DEF Interrupt, LineAfterInterrupt
<1>4. CASE WorkerBegin
  BY <1>4 DEF WorkerBegin
<1>5. CASE WorkerEnd
  BY <1>5 DEF WorkerEnd, ReEnable
<1>6. CASE WorkerSkip \/ WorkerClear \/ WorkerCall \/ WorkerReturn
  BY <1>6 DEF WorkerSkip, WorkerClear, WorkerCall, WorkerReturn
<1>7. CASE UNCHANGED ioeVars
  BY <1>7 DEF ioeVars, workVars
<1> QED  BY <1>1, <1>2, <1>3, <1>4, <1>5, <1>6, <1>7 DEF IoeNext

\* The line of the controller is closed exactly while the work is queued or
\* runs: the work is never queued twice and the line never stays closed.
THEOREM LineIsHandedOver == ASSUME IoeConstantsOK PROVE IoeSpec => []LineHandshake
<1>1. IoeInit => Handshake
  BY DEF IoeInit, Handshake
<1>2. IoeTypes /\ Handshake => LineHandshake
  BY DEF IoeTypes, Handshake, LineHandshake
<1> QED  BY <1>1, <1>2, IoeTypesInit, IoeTypesNext, HandshakeNext, PTL DEF IoeSpec
-----------------------------------------------------------------------------
(* The worker                                                              *)

LEMMA PlaceNext ==
    ASSUME IoeConstantsOK, ~Preemptive, IoeTypes, Place, [IoeNext]_ioeVars
    PROVE  Place'
<1> USE DEF IoeTypes, Place, SlotIds
<1>1. ASSUME CanRun, UNCHANGED workVars
      PROVE  Place'
  BY <1>1 DEF CanRun, workVars
<1>2. ASSUME NEW t \in Threads,
             \/ OptionArm(t) \/ DetachClear(t)
             \/ \E p \in Pins, disable \in BOOLEAN : OptionConfigure(t, p, disable)
             \/ \E p \in Pins : Attach(t, p)
             \/ \E i \in 1 .. Slots : DetachMask(t, i)
      PROVE  Place'
  BY <1>1, <1>2 DEF OptionArm, DetachClear, OptionConfigure, Attach, DetachMask
<1>3. ASSUME NEW p \in Pins, Event(p)
      PROVE  Place'
  BY <1>3 DEF Event, workVars
<1>4. CASE Interrupt
  BY <1>4 DEF Interrupt
<1>5. CASE WorkerBegin
  BY <1>5 DEF WorkerBegin, IoeConstantsOK
<1>6. CASE WorkerSkip
  BY <1>6 DEF WorkerSkip, IoeConstantsOK
<1>7. CASE WorkerClear
  BY <1>7 DEF WorkerClear, Pending, IoeConstantsOK
<1>8. CASE WorkerCall
  BY <1>8 DEF WorkerCall
<1>9. CASE WorkerReturn
  BY <1>9 DEF WorkerReturn, IoeConstantsOK
<1>10. CASE WorkerEnd
  BY <1>10 DEF WorkerEnd
<1>11. CASE UNCHANGED ioeVars
  BY <1>11 DEF ioeVars, workVars
<1> QED  BY <1>2, <1>3, <1>4, <1>5, <1>6, <1>7, <1>8, <1>9, <1>10, <1>11 DEF IoeNext

\* IoeTypes; a callback is called for a pin and never through NULL, as long as
\* threads run below the work queue.
THEOREM CalledForPins == ASSUME IoeConstantsOK, ~Preemptive PROVE IoeSpec => []IoeTypeOK
<1>1. ASSUME IoeConstantsOK PROVE IoeInit => Place
  BY DEF IoeInit, Place, IoeConstantsOK
<1>2. IoeTypes /\ Place => IoeTypeOK
  BY DEF IoeTypes, Place, IoeTypeOK, SlotIds
<1> QED  BY <1>1, <1>2, IoeTypesInit, IoeTypesNext, PlaceNext, PTL DEF IoeSpec

\* An event is taken from the controller only for a callback that starts
\* afterwards: an edge during a callback is not lost.
THEOREM EventsAreKept == IoeSpec => NoEventDropped
<1>1. ASSUME IoeNext, NEW p \in Pins, p \in intStatus, p \notin intStatus'
      PROVE  worker' = "call" /\ slot[at'] = p
  <2>1. WorkerClear
    BY <1>1 DEF IoeNext, OptionArm, DetachClear, OptionConfigure, Attach, DetachMask, Event,
                Interrupt, WorkerBegin, WorkerSkip, WorkerCall, WorkerReturn, WorkerEnd, ClearAgain
  <2> QED  BY <1>1, <2>1 DEF WorkerClear, ClearEvent
<1>2. [IoeNext]_ioeVars
        => [\A p \in Pins : p \in intStatus /\ p \notin intStatus' =>
              worker' = "call" /\ slot[at'] = p]_ioeVars
  BY <1>1
<1> QED  BY <1>2, PTL DEF IoeSpec, NoEventDropped
-----------------------------------------------------------------------------
(* Arming                                                                  *)

LEMMA OneDetacherNext ==
    ASSUME IoeTypes, Working, OneDetacher, [IoeNext]_ioeVars
    PROVE  OneDetacher'
<1> USE DEF IoeTypes, OneDetacher
<1>1. ASSUME NEW t \in Threads, NEW here, NEW x,
             Enter(t, here, x), here # "clear"
      PROVE  OneDetacher'
  BY <1>1 DEF Enter
<1>2. ASSUME NEW t \in Threads, NEW i \in SlotIds, DetachMask(t, i)
      PROVE  OneDetacher'
  <2>1. place' = [place EXCEPT ![t] = "clear"] /\ on' = [on EXCEPT ![t] = i]
    BY <1>2 DEF DetachMask, Enter
  <2>2. \A u \in Threads : place[u] = "clear" => on[u] # i
    BY <1>2 DEF DetachMask
  <2> QED  BY <2>1, <2>2
<1>3. ASSUME UNCHANGED <<place, on>> PROVE OneDetacher'
  BY <1>3
<1>4. ASSUME NEW t \in Threads, OptionArm(t) \/ DetachClear(t)
      PROVE  OneDetacher'
  BY <1>1, <1>4 DEF OptionArm, DetachClear, Leave
<1>5. ASSUME NEW t \in Threads, NEW p \in Pins, NEW disable \in BOOLEAN,
             OptionConfigure(t, p, disable)
      PROVE  OneDetacher'
  BY <1>1, <1>5 DEF OptionConfigure
<1>6. ASSUME NEW t \in Threads, NEW p \in Pins, Attach(t, p)
      PROVE  OneDetacher'
  BY <1>3, <1>6 DEF Attach
<1>7. ASSUME (\E p \in Pins : Event(p)) \/ Interrupt \/ WorkerStep \/ UNCHANGED ioeVars
      PROVE  OneDetacher'
  BY <1>3, <1>7 DEF Event, Interrupt, WorkerStep, WorkerBegin, WorkerSkip, WorkerClear,
                    WorkerCall, WorkerReturn, WorkerEnd, ioeVars
<1> QED  BY <1>2, <1>4, <1>5, <1>6, <1>7 DEF IoeNext, WorkerStep, SlotIds

LEMMA OneSlotNext ==
    ASSUME IoeConstantsOK, ~SharePins, IoeTypes, Working, OneSlot, [IoeNext]_ioeVars
    PROVE  OneSlot'
<1> USE DEF IoeTypes, OneSlot, SlotIds
<1>1. ASSUME NEW t \in Threads, NEW p \in Pins, Attach(t, p)
      PROVE  OneSlot'
  <2>1. PICK i \in SlotIds : slot' = [slot EXCEPT ![i] = p]
    BY <1>1 DEF Attach
  <2>2. \A j \in SlotIds : slot[j] # p
    BY <1>1 DEF Attach, Attached
  <2> QED  BY <2>1, <2>2
<1>2. ASSUME NEW t \in Threads, DetachClear(t)
      PROVE  OneSlot'
  BY <1>2 DEF DetachClear
<1>3. ASSUME UNCHANGED slot PROVE OneSlot'
  BY <1>3
<1> QED
  BY <1>1, <1>2, <1>3 DEF IoeNext, OptionArm, OptionConfigure, DetachMask, Event, Interrupt,
     WorkerBegin, WorkerSkip, WorkerClear, WorkerCall, WorkerReturn, WorkerEnd, ioeVars

\* A step that changes neither the table nor the mask nor who is in a call.
LEMMA ArmedStays ==
    ASSUME AttachedIsArmed, UNCHANGED <<slot, intMask, place, on>>
    PROVE  AttachedIsArmed'
  BY DEF AttachedIsArmed, Attached, Changing

LEMMA ArmedNext ==
    ASSUME IoeConstantsOK, ~SharePins, IoeTypes, Working, OneDetacher, OneSlot, AttachedIsArmed,
           [IoeNext]_ioeVars
    PROVE  AttachedIsArmed'
<1> USE DEF IoeTypes, SlotIds
<1>1. ASSUME NEW t \in Threads, NEW p \in Pins, NEW disable \in BOOLEAN,
             OptionConfigure(t, p, disable)
      PROVE  AttachedIsArmed'
  <2> SUFFICES ASSUME NEW q \in Pins, Attached(q)', ~Changing(q)'
               PROVE  q \notin intMask'
    BY DEF AttachedIsArmed
  <2>1. /\ slot' = slot /\ intMask' \subseteq intMask \cup {p} /\ place[t] = "idle"
        /\ place' = [place EXCEPT ![t] = "arm"] /\ on' = [on EXCEPT ![t] = p]
    BY <1>1 DEF OptionConfigure, Enter
  <2>2. q # p
    BY <2>1 DEF Changing
  <2>3. ~Changing(q)
    BY <2>1 DEF Changing
  <2>4. Attached(q)
    BY <2>1 DEF Attached
  <2> QED  BY <2>1, <2>2, <2>3, <2>4 DEF AttachedIsArmed
<1>2. ASSUME NEW t \in Threads, OptionArm(t)
      PROVE  AttachedIsArmed'
  <2> SUFFICES ASSUME NEW q \in Pins, Attached(q)', ~Changing(q)', q # on[t]
               PROVE  q \notin intMask'
    BY <1>2 DEF AttachedIsArmed, OptionArm
  <2>1. /\ slot' = slot /\ intMask' \subseteq intMask /\ place[t] = "arm"
        /\ place' = [place EXCEPT ![t] = "idle"] /\ on' = [on EXCEPT ![t] = 0]
    BY <1>2 DEF OptionArm, Leave, Enter
  <2>2. ~Changing(q)
    BY <2>1 DEF Changing
  <2>3. Attached(q)
    BY <2>1 DEF Attached
  <2> QED  BY <2>1, <2>2, <2>3 DEF AttachedIsArmed
<1>3. ASSUME NEW t \in Threads, NEW p \in Pins, Attach(t, p)
      PROVE  AttachedIsArmed'
  <2> SUFFICES ASSUME NEW q \in Pins, Attached(q)', ~Changing(q)', q # p
               PROVE  q \notin intMask'
    BY <1>3 DEF AttachedIsArmed, Attach, Arms
  <2>1. PICK i \in SlotIds : slot' = [slot EXCEPT ![i] = p] /\ FreeSlot(i)
    BY <1>3 DEF Attach
  <2>2. intMask' \subseteq intMask /\ UNCHANGED <<place, on>>
    BY <1>3 DEF Attach, Arms
  <2>3. ~Changing(q)
    <3> SUFFICES ASSUME NEW u \in Threads, place[u] = "clear", slot[on[u]] = q PROVE FALSE
      BY <2>2 DEF Changing
    <3>1. on[u] \in SlotIds /\ on[u] # i
      BY <2>1, q # NoPin DEF Working, FreeSlot, IoeConstantsOK
    <3> QED  BY <2>1, <2>2, <3>1 DEF Changing
  <2>4. Attached(q)
    BY <2>1 DEF Attached
  <2> QED  BY <2>2, <2>3, <2>4 DEF AttachedIsArmed
<1>4. ASSUME NEW t \in Threads, NEW i \in SlotIds, DetachMask(t, i)
      PROVE  AttachedIsArmed'
  <2> SUFFICES ASSUME NEW q \in Pins, Attached(q)', ~Changing(q)'
               PROVE  q \notin intMask'
    BY DEF AttachedIsArmed
  <2>1. /\ slot' = slot /\ intMask' = intMask \cup {slot[i]} /\ place[t] = "idle"
        /\ place' = [place EXCEPT ![t] = "clear"] /\ on' = [on EXCEPT ![t] = i]
    BY <1>4 DEF DetachMask, Enter
  <2>2. q # slot[i]
    BY <2>1 DEF Changing
  <2>3. ~Changing(q)
    BY <2>1 DEF Changing
  <2>4. Attached(q)
    BY <2>1 DEF Attached
  <2> QED  BY <2>1, <2>2, <2>3, <2>4 DEF AttachedIsArmed
<1>5. ASSUME NEW t \in Threads, DetachClear(t)
      PROVE  AttachedIsArmed'
  <2> SUFFICES ASSUME NEW q \in Pins, Attached(q)', ~Changing(q)'
               PROVE  q \notin intMask'
    BY DEF AttachedIsArmed
  <2>1. /\ slot' = [slot EXCEPT ![on[t]] = NoPin] /\ intMask' = intMask /\ place[t] = "clear"
        /\ place' = [place EXCEPT ![t] = "idle"] /\ on' = [on EXCEPT ![t] = 0]
    BY <1>5 DEF DetachClear, Leave, Enter
  <2>2. on[t] \in SlotIds
    BY <2>1 DEF Working
  <2>3. PICK j \in SlotIds : slot[j] = q /\ j # on[t]
    BY <2>1, <2>2 DEF Attached, IoeConstantsOK
  <2>4. slot[on[t]] # q
    BY <2>2, <2>3 DEF OneSlot, IoeConstantsOK
  <2>5. ~Changing(q)
    <3> SUFFICES ASSUME NEW u \in Threads \ {t}, place[u] = "clear", slot[on[u]] = q PROVE FALSE
      BY <2>1, <2>4 DEF Changing
    <3>1. on[u] # on[t] /\ on[u] \in SlotIds
      BY <2>1 DEF OneDetacher, Working
    <3> QED  BY <2>1, <3>1 DEF Changing
  <2> QED  BY <2>1, <2>3, <2>5 DEF AttachedIsArmed, Attached
<1>6. ASSUME (\E p \in Pins : Event(p)) \/ Interrupt \/ WorkerStep \/ UNCHANGED ioeVars
      PROVE  AttachedIsArmed'
  BY <1>6, ArmedStays DEF Event, Interrupt, WorkerStep, WorkerBegin, WorkerSkip, WorkerClear,
     WorkerCall, WorkerReturn, WorkerEnd, ioeVars
<1> QED  BY <1>1, <1>2, <1>3, <1>4, <1>5, <1>6 DEF IoeNext, WorkerStep

\* A pin that a client is attached to is armed, whatever detaches and
\* configurations of this and other pins run at the same time, as long as a pin
\* has one callback.
THEOREM AttachedPinsAreArmed ==
    ASSUME IoeConstantsOK, ~SharePins PROVE IoeSpec => []AttachedIsArmed
<1>1. ASSUME IoeConstantsOK PROVE IoeInit => OneDetacher /\ OneSlot /\ AttachedIsArmed
  BY DEF IoeInit, OneDetacher, OneSlot, AttachedIsArmed, Attached, SlotIds, IoeConstantsOK
<1> QED
  BY <1>1, IoeTypesInit, IoeTypesNext, OneDetacherNext, OneSlotNext, ArmedNext, PTL DEF IoeSpec

\* Types, the line of the controller and the arming of attached pins together.
THEOREM PinsCorrect ==
    ASSUME IoeConstantsOK, ~SharePins, ~Preemptive PROVE IoeSpec => []PinsOK
<1>1. IoeTypeOK /\ LineHandshake /\ AttachedIsArmed => PinsOK
  BY DEF PinsOK
<1> QED  BY <1>1, CalledForPins, LineIsHandedOver, AttachedPinsAreArmed, PTL
-----------------------------------------------------------------------------
(* The random number generator                                             *)

\* Places of a reader that has the lock, and of one that is done with it.
InUnit == {"enable", "wait idle", "look idle", "trigger", "wait block", "look block", "take",
           "clear taken", "off taken", "clear failed", "off failed", "copy", "unlock"}

Outside == {"idle", "lock", "return"}

UnitTypes ==
    /\ trng \in BOOLEAN /\ en \in BOOLEAN /\ busy \in BOOLEAN /\ ht \in BOOLEAN
    /\ late \in BOOLEAN /\ registering \in {"no", "clear", "off", "driver"}
    /\ dout \in {"clear", "fresh", "old"}
    /\ mutex \in Readers \cup {Nobody} /\ healthy \in BOOLEAN
    /\ pc \in [Readers -> InUnit \cup Outside]
    /\ block \in [Readers -> {"zero", "fresh"}]

\* Nobody reads before the unit is known and has been switched off.
Settled == trng /\ registering \notin {"clear", "off"}

Unknown ==
    /\ devices # {} => Settled
    /\ ~trng => registering = "no"
    /\ ~Settled => \A t \in Readers : pc[t] = "idle"

\* One reader is in the unit, and it alone holds a block.
OneReader ==
    \A t \in Readers : /\ pc[t] \in InUnit <=> mutex = t
                       /\ block[t] # "zero" => pc[t] \in {"clear taken", "off taken", "copy"}

\* What the unit holds at each place of the reader that has it, and when nobody
\* has it.
Running == {"wait idle", "look idle", "trigger", "wait block", "look block"}

\* A unit that was seen idle is idle, and holds nothing once it is cleared: what
\* is busy, or holds a block behind the clearing, was left busy.
Accounted == busy => late
Kept == dout # "clear" => late
Off == ~en /\ Accounted /\ Kept

UnitFollows ==
    /\ ~Settled => Accounted
    /\ registering = "off" => Kept
    /\ Settled /\ mutex = Nobody => Off
    /\ \A t \in Readers :
         /\ pc[t] \in {"take", "clear taken", "clear failed", "off taken", "off failed"} => Accounted
         /\ pc[t] \in {"off taken", "off failed"} => Kept
         /\ pc[t] \in {"enable", "copy", "unlock"} => Off
         /\ pc[t] \in Running => en
         /\ pc[t] \in {"wait block", "look block"} => busy \/ dout = "fresh"
         /\ pc[t] = "take" => dout = "fresh"

RngInv == UnitTypes /\ Unknown /\ OneReader /\ UnitFollows

LEMMA RngInvInit == ASSUME RngConstantsOK PROVE RngInit => RngInv
<1> SUFFICES ASSUME RngInit PROVE RngInv
  OBVIOUS
<1>1. UnitTypes
  BY DEF RngInit, UnitTypes, Outside
<1>2. Unknown /\ OneReader /\ UnitFollows
  BY DEF RngInit, Unknown, OneReader, UnitFollows, InUnit, Running, Settled, Accounted,
         RngConstantsOK
<1> QED  BY <1>1, <1>2 DEF RngInv

\* A reader moves on inside of the unit: the others stay outside.
LEMMA InsideStep ==
    ASSUME RngConstantsOK, RngInv, NEW t \in Readers, pc[t] \in InUnit,
           NEW to \in InUnit, pc' = [pc EXCEPT ![t] = to],
           UNCHANGED <<registerVars, mutex>>,
           en' \in BOOLEAN, busy' \in BOOLEAN, ht' \in BOOLEAN, healthy' \in BOOLEAN,
           late' \in BOOLEAN, dout' \in {"clear", "fresh", "old"},
           NEW b \in {"zero", "fresh"}, block' = [block EXCEPT ![t] = b],
           b # "zero" => to \in {"clear taken", "off taken", "copy"},
           to \in {"take", "clear taken", "clear failed", "off taken", "off failed"} => Accounted',
           to \in {"off taken", "off failed"} => Kept',
           to \in {"enable", "copy", "unlock"} => Off',
           to \in Running => en',
           to \in {"wait block", "look block"} => busy' \/ dout' = "fresh",
           to = "take" => dout' = "fresh"
    PROVE  RngInv'
<1> USE DEF RngInv, registerVars
<1>1. mutex = t /\ t # Nobody /\ \A u \in Readers \ {t} : pc[u] \notin InUnit
  BY DEF OneReader, RngConstantsOK
<1>2. /\ pc'[t] = to /\ \A u \in Readers \ {t} : pc'[u] = pc[u]
      /\ block'[t] = b /\ \A u \in Readers \ {t} : block'[u] = block[u]
  BY DEF UnitTypes
<1>3. UnitTypes'
  BY DEF UnitTypes
<1>4. Settled /\ Settled'
  BY DEF Unknown, InUnit, Settled
<1>u. Unknown'
  BY <1>4 DEF Unknown, Settled
<1>5. OneReader'
  BY <1>1, <1>2 DEF OneReader
<1>6. UnitFollows'
  <2>1. ASSUME NEW u \in Readers \ {t}
        PROVE  /\ pc'[u] \in {"take", "clear taken", "clear failed", "off taken", "off failed"}
                    => Accounted'
               /\ pc'[u] \in {"off taken", "off failed"} => Kept'
               /\ pc'[u] \in {"enable", "copy", "unlock"} => Off'
               /\ pc'[u] \in Running => en'
               /\ pc'[u] \in {"wait block", "look block"} => busy' \/ dout' = "fresh"
               /\ pc'[u] = "take" => dout' = "fresh"
    BY <1>1, <1>2 DEF InUnit, Running
  <2> QED  BY <1>1, <1>2, <1>4, <2>1 DEF UnitFollows, Settled
<1> QED  BY <1>3, <1>u, <1>5, <1>6

\* A step inside of the unit that leaves what it holds alone.
LEMMA LooksStep ==
    ASSUME RngConstantsOK, RngInv, NEW t \in Readers, pc[t] \in InUnit,
           NEW to \in Running \cup {"take", "clear failed"}, pc' = [pc EXCEPT ![t] = to],
           UNCHANGED <<registerVars, mutex, en, busy, dout, ht, healthy, block>>,
           late' \in BOOLEAN, block[t] = "zero",
           to \in Running => pc[t] \in Running,
           to \in {"wait block", "look block"} => pc[t] \in {"wait block", "look block"},
           to = "take" => pc[t] = "wait block" /\ ~busy,
           to = "clear failed" => ~busy \/ late'
    PROVE  RngInv'
<1>1. block' = [block EXCEPT ![t] = "zero"]
  BY DEF RngInv, UnitTypes
<1>2. /\ to \in Running => en'
      /\ to \in {"wait block", "look block"} => busy' \/ dout' = "fresh"
      /\ to = "take" => dout' = "fresh"
  BY DEF RngInv, UnitFollows
<1>3. /\ en' \in BOOLEAN /\ busy' \in BOOLEAN /\ ht' \in BOOLEAN /\ healthy' \in BOOLEAN
      /\ dout' \in {"clear", "fresh", "old"}
  BY DEF RngInv, UnitTypes
<1>4. /\ to \in {"take", "clear taken", "clear failed", "off taken", "off failed"} => Accounted'
      /\ to \notin {"enable", "copy", "unlock", "off taken", "off failed"} /\ to \in InUnit
  BY DEF Running, Accounted, InUnit
<1>5. "zero" \in {"zero", "fresh"} /\ UNCHANGED <<registerVars, mutex>>
  OBVIOUS
<1> QED  BY <1>1, <1>2, <1>3, <1>4, <1>5, InsideStep

LEMMA LockStep == ASSUME RngConstantsOK, RngInv, NEW t \in Readers, Lock(t) PROVE RngInv'
<1>1. /\ mutex = Nobody /\ mutex' = t /\ pc[t] = "lock" /\ pc' = [pc EXCEPT ![t] = "enable"]
      /\ UNCHANGED <<trng, registering, devices, en, busy, dout, ht, healthy, late, block>>
  BY DEF Lock, Free, Goes, registerVars, unitVars, readVars
<1>2. pc'[t] = "enable" /\ \A u \in Readers \ {t} : pc'[u] = pc[u]
  BY <1>1 DEF RngInv, UnitTypes
<1>3. \A u \in Readers : pc[u] \notin InUnit
  BY <1>1 DEF RngInv, OneReader, RngConstantsOK
<1>4. Settled
  BY <1>1 DEF RngInv, Unknown
<1>5. UnitTypes'
  BY <1>1 DEF RngInv, UnitTypes, InUnit
<1>6. Unknown'
  BY <1>1, <1>4 DEF Unknown, Settled
<1>7. OneReader'
  BY <1>1, <1>2, <1>3 DEF RngInv, OneReader, InUnit
<1>8. UnitFollows'
  <2>1. Off
    BY <1>1, <1>4 DEF RngInv, UnitFollows
  <2> QED  BY <1>1, <1>2, <1>3, <1>4, <2>1 DEF UnitFollows, InUnit, Running, Off,
              Accounted, Kept, Settled, RngConstantsOK
<1> QED  BY <1>5, <1>6, <1>7, <1>8 DEF RngInv

LEMMA UnlockStep == ASSUME RngConstantsOK, RngInv, NEW t \in Readers, Unlock(t) PROVE RngInv'
<1>1. /\ mutex' = Nobody /\ pc[t] = "unlock" /\ pc' = [pc EXCEPT ![t] = "return"]
      /\ UNCHANGED <<trng, registering, devices, en, busy, dout, ht, healthy, late, block>>
  BY DEF Unlock, Goes, registerVars, unitVars, readVars
<1>2. pc'[t] = "return" /\ \A u \in Readers \ {t} : pc'[u] = pc[u]
  BY <1>1 DEF RngInv, UnitTypes
<1>3. \A u \in Readers \ {t} : pc[u] \notin InUnit
  BY <1>1 DEF RngInv, OneReader, InUnit
<1>4. Settled
  BY <1>1 DEF RngInv, Unknown
<1>5. UnitTypes'
  BY <1>1 DEF RngInv, UnitTypes, Outside
<1>6. Unknown'
  BY <1>1, <1>4 DEF Unknown, Settled
<1>7. OneReader'
  BY <1>1, <1>2, <1>3 DEF RngInv, OneReader, InUnit, RngConstantsOK
<1>8. UnitFollows'
  <2>1. Off
    BY <1>1 DEF RngInv, UnitFollows
  <2> QED  BY <1>1, <1>2, <1>3, <1>4, <2>1 DEF UnitFollows, InUnit, Running, Off,
              Accounted, Kept, Settled
<1> QED  BY <1>5, <1>6, <1>7, <1>8 DEF RngInv

\* Steps of one reader.
LEMMA WorksStep == ASSUME RngConstantsOK, RngInv, NEW t \in Readers, Works(t) PROVE RngInv'
<1> USE DEF unitVars, readVars, Goes, ClearOutput, SwitchOff, ClearsInterrupt
<1>0. /\ en \in BOOLEAN /\ busy \in BOOLEAN /\ ht \in BOOLEAN /\ late \in BOOLEAN
      /\ dout \in {"clear", "fresh", "old"} /\ healthy \in BOOLEAN
      /\ block[t] \in {"zero", "fresh"} /\ block = [block EXCEPT ![t] = block[t]]
      /\ pc[t] \notin {"clear taken", "off taken", "copy"} => block[t] = "zero"
  BY DEF RngInv, UnitTypes, OneReader
<1>1. CASE Lock(t)
  BY <1>1, LockStep
<1>2. CASE Enable(t)
  <2>1. pc[t] \in InUnit /\ "wait idle" \in InUnit /\ block[t] = "zero"
    BY <1>0, <1>2 DEF Enable, InUnit
  <2>2. /\ en' \in BOOLEAN /\ busy' \in BOOLEAN /\ ht' \in BOOLEAN
        /\ UNCHANGED <<dout, healthy, late, block, registerVars, mutex>>
        /\ pc' = [pc EXCEPT ![t] = "wait idle"]
    BY <1>0, <1>2 DEF Enable
  <2>3. en'
    BY <1>2 DEF Enable
  <2> QED  BY <1>0, <2>1, <2>2, <2>3, InsideStep
<1>3. CASE Trigger(t)
  <2>1. pc[t] \in InUnit /\ "wait block" \in InUnit /\ block[t] = "zero"
    BY <1>0, <1>3 DEF Trigger, InUnit
  <2>2. /\ busy' = TRUE /\ ht' \in BOOLEAN /\ pc' = [pc EXCEPT ![t] = "wait block"]
        /\ dout' \in {"clear", "fresh", "old"}
        /\ UNCHANGED <<en, healthy, late, block, registerVars, mutex>>
    BY <1>0, <1>3 DEF Trigger
  <2>3. en
    BY <1>3 DEF Trigger, RngInv, UnitFollows, Running
  <2> QED  BY <1>0, <2>1, <2>2, <2>3, InsideStep
<1>4. CASE SeesIdle(t)
  <2>1. PICK to \in {"clear failed", "trigger", "take"} :
          pc' = [pc EXCEPT ![t] = to] /\ (to = "take" => pc[t] = "wait block")
    BY <1>4 DEF SeesIdle, Waits
  <2>2. /\ pc[t] \in InUnit /\ to \in Running \cup {"take", "clear failed"}
        /\ block[t] = "zero" /\ ~busy
    BY <1>0, <1>4 DEF SeesIdle, Waits, InUnit, Running
  <2>3. UNCHANGED <<registerVars, mutex, en, busy, dout, ht, healthy, block>> /\ late' \in BOOLEAN
    BY <1>4 DEF SeesIdle
  <2>4. to \in Running => pc[t] \in Running
    BY <1>4, <2>1 DEF SeesIdle, Waits, Running
  <2> QED  BY <2>1, <2>2, <2>3, <2>4, LooksStep
<1>5. CASE SeesBusy(t) \/ InTime(t) \/ TooLate(t)
  <2>1. PICK to \in {"look idle", "look block", "wait idle", "wait block", "clear failed"} :
          /\ pc' = [pc EXCEPT ![t] = to]
          /\ to \in {"wait block", "look block"} => pc[t] \in {"wait block", "look block"}
          /\ to = "clear failed" => late'
    BY <1>5 DEF SeesBusy, InTime, TooLate, Waits, Looks
  <2>2. /\ pc[t] \in InUnit /\ to \in Running \cup {"take", "clear failed"}
        /\ block[t] = "zero"
    BY <1>0, <1>5 DEF SeesBusy, InTime, TooLate, Waits, Looks, InUnit, Running
  <2>3. UNCHANGED <<registerVars, mutex, en, busy, dout, ht, healthy, block>> /\ late' \in BOOLEAN
    BY <1>0, <1>5 DEF SeesBusy, InTime, TooLate
  <2>4. to \in Running => pc[t] \in Running
    BY <1>5 DEF SeesBusy, InTime, TooLate, Waits, Looks, Running
  <2> QED  BY <2>1, <2>2, <2>3, <2>4, LooksStep
<1>6. CASE Take(t)
  <2>1. pc[t] \in InUnit /\ "clear taken" \in InUnit /\ dout = "fresh" /\ Accounted
    BY <1>6 DEF Take, InUnit, RngInv, UnitFollows
  <2>2. /\ dout' = "old" /\ pc' = [pc EXCEPT ![t] = "clear taken"]
        /\ block' = [block EXCEPT ![t] = "fresh"]
        /\ UNCHANGED <<en, busy, ht, healthy, late, registerVars, mutex>>
    BY <1>6, <2>1 DEF Take
  <2>3. Accounted'
    BY <2>1, <2>2 DEF Accounted
  <2> QED  BY <1>0, <2>1, <2>2, <2>3, InsideStep DEF Running
<1>7. CASE Clears(t)
  <2>1. PICK to \in {"off taken", "off failed"} :
          /\ pc' = [pc EXCEPT ![t] = to]
          /\ block[t] # "zero" => to = "off taken"
    BY <1>0, <1>7 DEF Clears
  <2>2. pc[t] \in InUnit /\ to \in InUnit /\ Accounted
    BY <1>7, <2>1 DEF Clears, InUnit, RngInv, UnitFollows
  <2>3. dout' = "clear" /\ UNCHANGED <<en, busy, ht, healthy, late, block, registerVars, mutex>>
    BY <1>7 DEF Clears
  <2>4. Accounted' /\ Kept'
    BY <2>2, <2>3 DEF Accounted, Kept
  <2> QED  BY <1>0, <2>1, <2>2, <2>3, <2>4, InsideStep DEF Running
<1>8. CASE Stops(t)
  <2>1. PICK to \in {"copy", "unlock"}, b \in {"zero", "fresh"} :
          /\ pc' = [pc EXCEPT ![t] = to] /\ block' = [block EXCEPT ![t] = b]
          /\ b # "zero" => to = "copy"
    <3>1. CASE Goes(t, "off taken", "copy") /\ UNCHANGED block
      BY <1>0, <3>1
    <3>2. CASE Goes(t, "off failed", "unlock") /\ block' = [block EXCEPT ![t] = "zero"]
      BY <3>2
    <3> QED  BY <1>8, <3>1, <3>2 DEF Stops
  <2>2. pc[t] \in InUnit /\ to \in InUnit /\ Accounted /\ Kept
    BY <1>8, <2>1 DEF Stops, InUnit, RngInv, UnitFollows
  <2>3. /\ en' = FALSE /\ ht' \in BOOLEAN
        /\ UNCHANGED <<busy, dout, healthy, late, registerVars, mutex>>
    BY <1>0, <1>8 DEF Stops
  <2>4. Off'
    BY <2>2, <2>3 DEF Off, Accounted, Kept
  <2> QED  BY <1>0, <2>1, <2>2, <2>3, <2>4, InsideStep DEF Running
<1>9. CASE Copy(t)
  <2>1. PICK to \in {"enable", "unlock"} : pc' = [pc EXCEPT ![t] = to]
    BY <1>9 DEF Copy
  <2>2. pc[t] \in InUnit /\ to \in InUnit /\ Off
    BY <1>9 DEF Copy, InUnit, RngInv, UnitFollows
  <2>3. /\ block' = [block EXCEPT ![t] = "zero"]
        /\ UNCHANGED <<en, dout, busy, ht, healthy, late, registerVars, mutex>>
    BY <1>9 DEF Copy
  <2>4. Off'
    BY <2>2, <2>3 DEF Off, Accounted, Kept
  <2> QED  BY <1>0, <2>1, <2>2, <2>3, <2>4, InsideStep DEF Running
<1>10. CASE Unlock(t)
  BY <1>10, UnlockStep
<1> QED  BY <1>1, <1>2, <1>3, <1>4, <1>5, <1>6, <1>7, <1>8, <1>9, <1>10 DEF Works

\* A reader comes or goes, without the lock.
LEMMA OutsideStep ==
    ASSUME RngConstantsOK, RngInv, NEW t \in Readers, pc[t] \in Outside, NEW to \in Outside,
           pc' = [pc EXCEPT ![t] = to], Settled,
           UNCHANGED <<trng, registering, devices, mutex, en, busy, dout, ht, healthy, late, block>>
    PROVE  RngInv'
<1>1. pc'[t] = to /\ \A u \in Readers \ {t} : pc'[u] = pc[u]
  BY DEF RngInv, UnitTypes
<1>2. pc'[t] \notin InUnit /\ pc[t] \notin InUnit
  BY <1>1 DEF InUnit, Outside
<1>3. UnitTypes'
  BY DEF RngInv, UnitTypes
<1>4. Unknown'
  BY DEF Unknown, Settled
<1>5. OneReader'
  <2>1. ASSUME NEW u \in Readers
        PROVE  /\ pc'[u] \in InUnit <=> mutex' = u
               /\ block'[u] # "zero" => pc'[u] \in {"clear taken", "off taken", "copy"}
    BY <1>1, <1>2 DEF RngInv, OneReader, InUnit
  <2> QED  BY <2>1 DEF OneReader
<1>6. UnitFollows'
  <2>1. ASSUME NEW u \in Readers
        PROVE  /\ pc'[u] \in {"take", "clear taken", "clear failed", "off taken", "off failed"}
                    => Accounted'
               /\ pc'[u] \in {"off taken", "off failed"} => Kept'
               /\ pc'[u] \in {"enable", "copy", "unlock"} => Off'
               /\ pc'[u] \in Running => en'
               /\ pc'[u] \in {"wait block", "look block"} => busy' \/ dout' = "fresh"
               /\ pc'[u] = "take" => dout' = "fresh"
    BY <1>1, <1>2 DEF RngInv, UnitFollows, InUnit, Running, Off, Accounted, Kept
  <2> QED  BY <2>1 DEF RngInv, UnitFollows, Off, Accounted, Kept, Settled
<1> QED  BY <1>3, <1>4, <1>5, <1>6 DEF RngInv

LEMMA ReadStepHolds ==
    ASSUME RngConstantsOK, RngInv, NEW t \in Readers, NEW len, Read(t, len) PROVE RngInv'
<1>1. PICK to \in {"return", "lock"} : pc' = [pc EXCEPT ![t] = to]
  BY DEF Read, Goes
<1>2. /\ pc[t] = "idle"
      /\ UNCHANGED <<trng, registering, devices, mutex, en, busy, dout, ht, healthy, late, block>>
  BY DEF Read, Goes, unitVars, registerVars
<1>3. Settled
  BY DEF Read, RngInv, Unknown
<1> QED  BY <1>1, <1>2, <1>3, OutsideStep DEF Outside

LEMMA ReturnHolds ==
    ASSUME RngConstantsOK, RngInv, NEW t \in Readers, Return(t) PROVE RngInv'
<1>1. /\ pc[t] = "return" /\ pc' = [pc EXCEPT ![t] = "idle"]
      /\ UNCHANGED <<trng, registering, devices, mutex, en, busy, dout, ht, healthy, late, block>>
  BY DEF Return, Goes, unitVars, registerVars
<1>2. Settled
  BY <1>1 DEF RngInv, Unknown
<1> QED  BY <1>1, <1>2, OutsideStep DEF Outside

\* The first registration clears a unit that nobody reads, the second leaves it.
LEMMA RegistersHolds == ASSUME RngConstantsOK, RngInv, RegisterSteps PROVE RngInv'
<1> USE DEF unitVars, readVars
<1>0. UNCHANGED <<mutex, pc, block>>
  BY DEF RegisterSteps, Initialize, InitializeClears, InitializeStops, Register
<1>1. CASE Initialize \/ \E d \in Devices : Register(d)
  <2>1. UNCHANGED <<en, busy, dout, ht, healthy, late>>
    BY <1>1 DEF Initialize, Register
  <2>2. /\ trng' \in BOOLEAN /\ registering' \in {"no", "clear", "driver"}
        /\ Settled' <=> Settled
        /\ ~trng' => registering' = "no"
        /\ devices' # {} => Settled
    BY <1>1 DEF Initialize, Register, KnownAlready, RngInv, Unknown, UnitTypes, Settled
  <2>3. UnitTypes'
    BY <1>0, <2>1, <2>2 DEF RngInv, UnitTypes
  <2>4. Unknown'
    BY <1>0, <2>2 DEF RngInv, Unknown
  <2>5. OneReader'
    BY <1>0 DEF RngInv, OneReader
  <2>6. UnitFollows'
    BY <1>0, <2>1, <2>2 DEF RngInv, UnitFollows, Off, Accounted, Kept
  <2> QED  BY <2>3, <2>4, <2>5, <2>6 DEF RngInv
<1>2. CASE InitializeClears \/ InitializeStops
  <2>1. /\ ~Settled /\ trng /\ UNCHANGED <<trng, devices, busy, healthy, late>>
        /\ en' \in BOOLEAN /\ ht' \in BOOLEAN /\ dout' \in {"clear", "fresh", "old"}
        /\ registering' \in {"off", "driver"} /\ Kept'
        /\ registering' = "driver" => ~en'
    BY <1>2 DEF InitializeClears, InitializeStops, ClearOutput, SwitchOff, ClearsInterrupt,
                RngInv, UnitTypes, Unknown, UnitFollows, Settled, Kept
  <2>2. Accounted' /\ \A t \in Readers : pc'[t] = "idle"
    BY <1>0, <2>1 DEF RngInv, UnitFollows, Unknown, Accounted
  <2>3. UnitTypes'
    BY <1>0, <2>1 DEF RngInv, UnitTypes
  <2>4. Unknown'
    BY <2>1, <2>2 DEF RngInv, Unknown, Settled
  <2>5. OneReader'
    BY <1>0 DEF RngInv, OneReader
  <2>6. UnitFollows'
    BY <2>1, <2>2 DEF UnitFollows, Off, Running, Settled
  <2> QED  BY <2>3, <2>4, <2>5, <2>6 DEF RngInv
<1> QED  BY <1>1, <1>2 DEF RegisterSteps

LEMMA FinishHolds == ASSUME RngConstantsOK, RngInv, Finish PROVE RngInv'
<1>1. /\ busy /\ busy' = FALSE /\ dout' \in {dout, "fresh"} /\ (en => dout' = "fresh")
      /\ ht' \in BOOLEAN
      /\ UNCHANGED <<trng, registering, devices, mutex, en, healthy, late, pc, block>>
  BY DEF Finish, readVars, registerVars, RngInv, UnitTypes
<1>2. UnitTypes'
  BY <1>1 DEF RngInv, UnitTypes
<1>3. Unknown' /\ OneReader'
  BY <1>1 DEF RngInv, Unknown, OneReader, Settled
<1>4. Accounted' /\ (Accounted => Kept') /\ (Off => Off')
  BY <1>1 DEF Accounted, Kept, Off
<1>5. UnitFollows'
  BY <1>1, <1>4 DEF RngInv, UnitFollows, Running, Settled
<1> QED  BY <1>2, <1>3, <1>5 DEF RngInv

LEMMA SameHolds ==
    ASSUME RngInv, UNCHANGED <<registerVars, mutex, unitVars, pc, block>> PROVE RngInv'
<1> USE DEF unitVars, registerVars
<1>1. UnitTypes' /\ Unknown' /\ OneReader'
  BY DEF RngInv, UnitTypes, Unknown, OneReader, Settled
<1>2. UnitFollows'
  BY DEF RngInv, UnitFollows, Off, Accounted, Kept, Settled
<1> QED  BY <1>1, <1>2 DEF RngInv

\* Every step of any readers, and of the test program with any workers.
LEMMA RngInvNext ==
    ASSUME RngConstantsOK, NEW id
    PROVE  RngInv /\ [RngNext \/ RngTestNext(id)]_rngVars => RngInv'
<1> SUFFICES ASSUME RngInv, [RngNext \/ RngTestNext(id)]_rngVars PROVE RngInv'
  OBVIOUS
<1>1. ASSUME RegisterSteps PROVE RngInv'
  BY <1>1, RegistersHolds
<1>2. ASSUME NEW t \in Readers, Works(t) PROVE RngInv'
  BY <1>2, WorksStep
<1>3. ASSUME NEW t \in Readers, NEW len, Read(t, len) PROVE RngInv'
  BY <1>3, ReadStepHolds
<1>4. ASSUME NEW t \in Readers, Return(t) PROVE RngInv'
  BY <1>4, ReturnHolds
<1>5. CASE Finish
  BY <1>5, FinishHolds
<1>6. CASE CreateStep(id) \/ JoinStep \/ Summary \/ UNCHANGED rngVars
  BY <1>6, SameHolds DEF CreateStep, JoinStep, Summary, rngVars, readVars
<1>7. CASE RngNext
  BY <1>1, <1>2, <1>3, <1>4, <1>5, <1>7 DEF RngNext, ReturnAny, Readers
<1>8. CASE RngTestNext(id)
  BY <1>1, <1>2, <1>3, <1>4, <1>5, <1>6, <1>8 DEF RngTestNext, ReadStep, ReturnStep
<1> QED  BY <1>6, <1>7, <1>8

\* Every block that is copied to a reader came out of the unit since he triggered
\* it; while nobody reads the unit is off, nothing of a block is on a stack, and
\* one is in the register only when the unit was busy when it was left: for any
\* number of readers and devices, reads of any lengths, units that fail, answer
\* late or never, and registrations in between; and in the test program.
THEOREM BlocksAreHandedOutOnce ==
    ASSUME RngConstantsOK, NEW workers, NEW id
    PROVE  (RngSpec => BlocksOnce) /\ (RngTestSpec(workers, id) => BlocksOnce)
<1>1. RngInv /\ RngInv' => NothingLeft' /\ \A t \in Readers : Fresh(t)
  <2> SUFFICES ASSUME RngInv' PROVE NothingLeft' /\ \A t \in Readers : block'[t] \in {"zero", "fresh"}
    BY DEF Fresh
  <2>1. ASSUME mutex' = Nobody, NEW t \in Readers PROVE block'[t] = "zero"
    BY <2>1 DEF RngInv, OneReader, InUnit, RngConstantsOK
  <2>2. NothingLeft'
    BY <2>1 DEF RngInv, UnitFollows, Off, Kept, Settled, NothingLeft
  <2> QED  BY <2>2 DEF RngInv, UnitTypes
<1>2. RngInv /\ [RngNext \/ RngTestNext(id)]_rngVars
        => RngInv' /\ [NothingLeft' /\ \A t \in Readers : Fresh(t)]_rngVars
  BY <1>1, RngInvNext
<1>3. [RngNext]_rngVars => [RngNext \/ RngTestNext(id)]_rngVars
  OBVIOUS
<1>4. [RngTestNext(id)]_rngVars => [RngNext \/ RngTestNext(id)]_rngVars
  OBVIOUS
<1>5. RngInit => RngInv
  BY RngInvInit
<1>6. RngSpec => BlocksOnce
  BY <1>2, <1>3, <1>5, PTL DEF RngSpec, BlocksOnce
<1>7. RngTestSpec(workers, id) => BlocksOnce
  BY <1>2, <1>4, <1>5, PTL DEF RngTestSpec, BlocksOnce
<1> QED  BY <1>6, <1>7

\* No reader gets more bytes than it asked for.
Counted ==
    /\ buflen \in [Readers -> Nat] /\ generated \in [Readers -> Nat]
    /\ \A t \in Readers : generated[t] <= buflen[t]

LEMMA CountedNext ==
    ASSUME RngConstantsOK, Counted, [RngNext]_rngVars PROVE Counted'
<1>1. ASSUME NEW t \in Readers, NEW len \in Nat, Read(t, len) PROVE Counted'
  <2>1. buflen' = [buflen EXCEPT ![t] = len] /\ generated' = [generated EXCEPT ![t] = 0]
    BY <1>1 DEF Read
  <2> QED  BY <2>1 DEF Counted
<1>2. ASSUME NEW t \in Readers, Copy(t) PROVE Counted'
  <2> DEFINE copied == generated[t] + Copylen(buflen[t] - generated[t])
  <2>1. generated' = [generated EXCEPT ![t] = copied] /\ buflen' = buflen
    BY <1>2 DEF Copy
  <2>2. copied \in Nat /\ copied <= buflen[t]
    BY DEF Counted, Copylen, RngConstantsOK
  <2> QED  BY <2>1, <2>2 DEF Counted
<1>3. ASSUME NEW t \in Readers, Return(t) PROVE Counted'
  <2>1. buflen' = [buflen EXCEPT ![t] = 0] /\ generated' = [generated EXCEPT ![t] = 0]
    BY <1>3 DEF Return
  <2> QED  BY <2>1 DEF Counted
<1>4. ASSUME UNCHANGED <<buflen, generated>> PROVE Counted'
  BY <1>4 DEF Counted
<1>5. ASSUME NEW t \in Readers, Works(t) PROVE Counted'
  BY <1>2, <1>4, <1>5 DEF Works, Lock, Enable, Trigger, SeesIdle, SeesBusy, InTime, TooLate, Take,
     Clears, Stops, Unlock, readVars
<1>6. ASSUME RegisterSteps \/ Finish \/ UNCHANGED rngVars PROVE Counted'
  BY <1>4, <1>6 DEF RegisterSteps, Initialize, InitializeClears, InitializeStops, Register, Finish,
     rngVars, readVars
<1> QED  BY <1>1, <1>3, <1>5, <1>6 DEF RngNext, ReturnAny, Readers, RngConstantsOK

\* Types; and no read returns more bytes than it was asked for.
THEOREM ReadsAreBounded == ASSUME RngConstantsOK PROVE RngSpec => []RngTypeOK
<1>1. RngInit => RngInv /\ Counted /\ devices \subseteq Devices
  <2>1. RngInit => Counted
    BY DEF RngInit, Counted
  <2> QED  BY <2>1, RngInvInit DEF RngInit
<1>2. RngInv /\ [RngNext]_rngVars => RngInv'
  BY RngInvNext
<1>3. Counted /\ [RngNext]_rngVars => Counted'
  BY CountedNext
<1>4. devices \subseteq Devices /\ [RngNext]_rngVars => (devices \subseteq Devices)'
  BY DEF RngNext, RegisterSteps, Initialize, InitializeClears, InitializeStops, Register, registerVars,
     Works, Lock, Enable, Trigger, SeesIdle, SeesBusy, InTime, TooLate, Take,
     Clears, Stops, Copy, Unlock, Read, Finish, ReturnAny, Return, rngVars
<1>5. RngInv /\ Counted /\ devices \subseteq Devices => RngTypeOK
  BY DEF RngInv, UnitTypes, Counted, RngTypeOK
<1> QED  BY <1>1, <1>2, <1>3, <1>4, <1>5, PTL DEF RngSpec
-----------------------------------------------------------------------------
(* The test program of the generator                                       *)

Calls == [op : {"read"}, arg : Nat] \cup [op : {"create", "join"}, arg : Workers]

\* The unit answers in time and its health test finds nothing, so no read fails,
\* and one that is done has every byte.
Whole ==
    /\ healthy /\ ht = FALSE
    /\ \A t \in Readers : /\ pc[t] \notin {"clear failed", "off failed"}
                          /\ pc[t] \in {"unlock", "return"} => generated[t] = buflen[t]

\* A reader inside of the driver is at the first call of its script.
Scripted ==
    /\ script \in [Readers -> Seq(Calls)] /\ verdict # "fail"
    /\ \A t \in Readers : pc[t] # "idle" => script[t] # <<>>

LEMMA ReadsAreCalls == ASSUME NEW lens \in Seq(Nat) PROVE Reads(lens) \in Seq(Calls)
<1>1. Len(lens) \in Nat /\ \A i \in 1 .. Len(lens) : lens[i] \in Nat
  OBVIOUS
<1>2. \A i \in 1 .. Len(lens) : [op |-> "read", arg |-> lens[i]] \in Calls
  BY <1>1 DEF Calls
<1> QED  BY <1>1, <1>2 DEF Reads

LEMMA EachIsCalls ==
    ASSUME NEW workers \in Seq(Workers), NEW op \in {"create", "join"}
    PROVE  Each(op, workers) \in Seq(Calls)
<1>1. Len(workers) \in Nat /\ \A i \in 1 .. Len(workers) : workers[i] \in Workers
  OBVIOUS
<1>2. \A i \in 1 .. Len(workers) : [op |-> op, arg |-> workers[i]] \in Calls
  BY <1>1 DEF Calls
<1> QED  BY <1>1, <1>2 DEF Each

LEMMA ScriptsBegin ==
    ASSUME RngConstantsOK, NEW workers \in Seq(Workers), RngTestInit(workers), RngInit
    PROVE  Scripted /\ Whole /\ Counted
<1> DEFINE lens == trng_test_lengths \o trng_test_api \o trng_test_stats
           reads == Reads(lens)
           others == trng_test_concurrent(workers)
<1>1. lens \in Seq(Nat)
  <2>1. BlockSize - 1 \in Nat /\ BlockSize + 1 \in Nat /\ 3 * BlockSize + 1 \in Nat
          /\ 4 * BlockSize \in Nat /\ BlockSize \in Nat
    BY DEF RngConstantsOK
  <2>2. trng_test_lengths \in Seq(Nat) /\ trng_test_api \in Seq(Nat) /\ trng_test_stats \in Seq(Nat)
    BY <2>1 DEF trng_test_lengths, trng_test_api, trng_test_stats
  <2> QED  BY <2>2
<1>2. reads \in Seq(Calls)
  BY <1>1, ReadsAreCalls
<1>3. others \in Seq(Calls)
  <2>1. Each("create", workers) \in Seq(Calls) /\ Each("join", workers) \in Seq(Calls)
    BY EachIsCalls
  <2> QED  BY <2>1 DEF trng_test_concurrent
<1> HIDE DEF lens, others
<1>4. reads \o others \in Seq(Calls) /\ <<>> \in Seq(Calls)
  BY <1>2, <1>3
<1>5. script = [t \in Readers |-> IF t # main THEN <<>> ELSE reads \o others]
  BY DEF RngTestInit, lens, others
<1> HIDE DEF reads
<1>6. script \in [Readers -> Seq(Calls)]
  BY <1>4, <1>5
<1> QED  BY <1>6 DEF RngTestInit, RngInit, Scripted, Whole, Counted

LEMMA WorkerIsCalls == ASSUME RngConstantsOK, NEW n \in Nat
                       PROVE  Reads(trng_worker(n)) \in Seq(Calls)
<1>1. \A i \in 1 .. 3 : LengthsOfWorker[i] \in Nat
  BY DEF LengthsOfWorker, RngConstantsOK
<1>2. \A i \in 1 .. 3 : ((n + i) % 3) + 1 \in 1 .. 3
  OBVIOUS
<1>3. trng_worker(n) \in Seq(Nat)
  BY <1>1, <1>2 DEF trng_worker
<1> QED  BY <1>3, ReadsAreCalls

\* A step of a reader inside of the driver.
LEMMA WholeWorks ==
    ASSUME RngConstantsOK, RngInv, Whole, Counted, NEW t \in Readers, Works(t)
    PROVE  Whole' /\ Counted'
<1> USE DEF Goes, unitVars, readVars
<1>0. pc \in [Readers -> InUnit \cup Outside]
  BY DEF RngInv, UnitTypes
<1>1. healthy' /\ ht' = FALSE
  BY DEF Whole, Works, Lock, Enable, Trigger, SeesIdle, SeesBusy, InTime, TooLate, Take, Clears,
         Stops, Copy, Unlock, ClearOutput, SwitchOff, ClearsInterrupt
<1>2. CASE Copy(t)
  <2> DEFINE copied == generated[t] + Copylen(buflen[t] - generated[t])
  <2>1. /\ generated' = [generated EXCEPT ![t] = copied] /\ buflen' = buflen
        /\ pc' = [pc EXCEPT ![t] = IF copied < buflen[t] THEN "enable" ELSE "unlock"]
    BY <1>2 DEF Copy
  <2>2. copied \in Nat /\ copied <= buflen[t] /\ buflen[t] \in Nat
    BY DEF Counted, Copylen, RngConstantsOK
  <2> HIDE DEF copied
  <2>3. Counted'
    BY <2>1, <2>2 DEF Counted
  <2>4. /\ pc'[t] \in {"enable", "unlock"}
        /\ pc'[t] = "unlock" => generated'[t] = buflen'[t]
    BY <1>0, <2>1, <2>2 DEF Counted
  <2>5. \A u \in Readers \ {t} : pc'[u] = pc[u] /\ generated'[u] = generated[u]
    BY <1>0, <2>1 DEF Counted
  <2> QED  BY <1>1, <2>1, <2>3, <2>4, <2>5 DEF Whole
<1>3. CASE ~Copy(t)
  <2>1. UNCHANGED <<buflen, generated>>
    BY <1>3 DEF Works, Lock, Enable, Trigger, SeesIdle, SeesBusy, InTime, TooLate, Take, Clears,
                Stops, Unlock
  <2>2. PICK to \in {"enable", "wait idle", "look idle", "trigger", "wait block", "look block",
                     "take", "clear taken", "off taken", "copy", "return"} :
          /\ pc' = [pc EXCEPT ![t] = to]
          /\ to = "return" => pc[t] = "unlock"
    <3>1. ~TooLate(t) /\ ht = FALSE /\ pc[t] \notin {"clear failed", "off failed"}
      BY DEF Whole, TooLate, TimeUp
    <3> QED  BY <1>3, <3>1 DEF Works, Lock, Enable, Trigger, SeesIdle, SeesBusy, InTime, Take,
                               Clears, Stops, Unlock
  <2>3. pc'[t] = to /\ \A u \in Readers \ {t} : pc'[u] = pc[u]
    BY <1>0, <2>2
  <2> QED  BY <1>1, <2>1, <2>2, <2>3 DEF Whole, Counted
<1> QED  BY <1>2, <1>3

LEMMA TestStep ==
    ASSUME RngConstantsOK, NEW id \in [Workers -> Nat], RngInv, Whole, Counted, Scripted,
           [RngTestNext(id)]_rngVars
    PROVE  Whole' /\ Counted' /\ Scripted'
<1>0. pc \in [Readers -> InUnit \cup Outside] /\ script \in [Readers -> Seq(Calls)]
  BY DEF RngInv, UnitTypes, Scripted
<1>s. ASSUME UNCHANGED <<script, verdict>>,
             \A u \in Readers : pc'[u] # "idle" => pc[u] # "idle" \/ script[u] # <<>>
      PROVE  Scripted'
  BY <1>s DEF Scripted
<1>w. ASSUME UNCHANGED <<healthy, pc, buflen, generated>>, ht' \in {ht, FALSE}
      PROVE  Whole' /\ Counted'
  BY <1>w DEF Whole, Counted
<1>1. ASSUME RegisterSteps PROVE Whole' /\ Counted' /\ Scripted'
  <2>1. UNCHANGED <<healthy, pc, buflen, generated, script, verdict>> /\ ht' \in {ht, FALSE}
    BY <1>1 DEF RegisterSteps, Initialize, InitializeClears, InitializeStops, Register, ClearOutput,
                SwitchOff, ClearsInterrupt, unitVars, readVars, rngTestVars
  <2> QED  BY <1>s, <1>w, <2>1
<1>2. ASSUME NEW t \in Readers, Works(t) PROVE Whole' /\ Counted' /\ Scripted'
  <2>1. UNCHANGED <<script, verdict>>
    BY <1>2 DEF Works, Lock, Enable, Trigger, SeesIdle, SeesBusy, InTime, TooLate, Take, Clears,
                Stops, Copy, Unlock, rngTestVars
  <2>2. pc[t] # "idle" /\ \E to : pc' = [pc EXCEPT ![t] = to]
    BY <1>2 DEF Works, Lock, Enable, Trigger, SeesIdle, SeesBusy, InTime, TooLate, Take, Clears,
                Stops, Copy, Unlock, Goes, Waits, Looks
  <2>3. \A u \in Readers : pc'[u] # "idle" => pc[u] # "idle"
    BY <1>0, <2>2
  <2> QED  BY <1>2, <1>s, <2>1, <2>3, WholeWorks
<1>3. ASSUME NEW t \in Readers, ReadStep(t) PROVE Whole' /\ Counted' /\ Scripted'
  <2> DEFINE len == Head(script[t]).arg
  <2>1. len \in Nat
    <3>1. script[t] # <<>> /\ Head(script[t]).op = "read" /\ Head(script[t]) \in Calls
      BY <1>0, <1>3 DEF ReadStep, Is
    <3> QED  BY <3>1 DEF Calls
  <2>2. /\ pc' = [pc EXCEPT ![t] = IF len = 0 THEN "return" ELSE "lock"]
        /\ buflen' = [buflen EXCEPT ![t] = len] /\ generated' = [generated EXCEPT ![t] = 0]
        /\ UNCHANGED <<healthy, ht, script, verdict>>
    BY <1>3 DEF ReadStep, Read, Goes, unitVars, rngTestVars
  <2> HIDE DEF len
  <2>3. Counted'
    BY <2>1, <2>2 DEF Counted
  <2>4. /\ pc'[t] \in {"return", "lock"} /\ (pc'[t] = "return" => generated'[t] = buflen'[t])
        /\ \A u \in Readers \ {t} : /\ pc'[u] = pc[u] /\ generated'[u] = generated[u]
                                    /\ buflen'[u] = buflen[u]
    BY <1>0, <2>1, <2>2 DEF Counted
  <2>5. script[t] # <<>>
    BY <1>3 DEF ReadStep, Is
  <2>6. \A u \in Readers : pc'[u] # "idle" => pc[u] # "idle" \/ script[u] # <<>>
    BY <2>4, <2>5
  <2> QED  BY <1>s, <2>2, <2>3, <2>4, <2>6 DEF Whole
<1>4. ASSUME NEW t \in Readers, ReturnStep(t) PROVE Whole' /\ Counted' /\ Scripted'
  <2>1. /\ pc[t] = "return" /\ pc' = [pc EXCEPT ![t] = "idle"]
        /\ buflen' = [buflen EXCEPT ![t] = 0] /\ generated' = [generated EXCEPT ![t] = 0]
        /\ UNCHANGED <<healthy, ht>>
        /\ script' = [script EXCEPT ![t] = Tail(@)]
    BY <1>4 DEF ReturnStep, Return, Goes, unitVars
  <2>2. verdict' = verdict
    BY <1>4, <2>1 DEF ReturnStep, Whole
  <2>3. Counted'
    BY <2>1 DEF Counted
  <2>4. /\ pc'[t] = "idle"
        /\ \A u \in Readers \ {t} : /\ pc'[u] = pc[u] /\ generated'[u] = generated[u]
                                    /\ buflen'[u] = buflen[u]
    BY <1>0, <2>1 DEF Counted
  <2>5. Whole'
    BY <2>1, <2>4 DEF Whole
  <2>6. script[t] \in Seq(Calls) /\ script[t] # <<>> /\ Tail(script[t]) \in Seq(Calls)
    BY <1>0, <2>1 DEF Scripted
  <2>7. /\ script' \in [Readers -> Seq(Calls)]
        /\ \A u \in Readers \ {t} : script'[u] = script[u]
    BY <1>0, <2>1, <2>6
  <2> QED  BY <2>2, <2>3, <2>4, <2>5, <2>7 DEF Scripted
<1>5. CASE Finish
  <2>1. UNCHANGED <<healthy, pc, buflen, generated, script, verdict, ht>>
    BY <1>5 DEF Finish, readVars, rngTestVars, Whole
  <2> QED  BY <1>s, <1>w, <2>1
<1>6. CASE CreateStep(id)
  <2> DEFINE w == Head(script[main]).arg
  <2>1. /\ pc[main] = "idle" /\ UNCHANGED <<healthy, ht, pc, buflen, generated, verdict>>
        /\ script' = [script EXCEPT ![main] = Tail(@), ![w] = Reads(trng_worker(id[w]))]
    BY <1>6 DEF CreateStep, Is, unitVars, readVars
  <2>2. Whole' /\ Counted'
    BY <1>w, <2>1
  <2>3. main \in Readers /\ script[main] # <<>> /\ Tail(script[main]) \in Seq(Calls)
    BY <1>0, <1>6 DEF CreateStep, Is, Readers
  <2>4. w \in Workers
    <3>1. Head(script[main]).op = "create" /\ Head(script[main]) \in Calls
      BY <1>0, <1>6, <2>3 DEF CreateStep, Is
    <3> QED  BY <3>1 DEF Calls
  <2> HIDE DEF w
  <2>5. Reads(trng_worker(id[w])) \in Seq(Calls)
    BY <2>4, WorkerIsCalls
  <2>6. Reads(trng_worker(id[w])) # <<>>
    BY DEF Reads, trng_worker
  <2>7. /\ script' \in [Readers -> Seq(Calls)] /\ script'[w] # <<>>
        /\ \A u \in Readers \ {main, w} : script'[u] = script[u]
    BY <1>0, <2>1, <2>3, <2>4, <2>5, <2>6 DEF Readers
  <2>8. \A u \in Readers : pc'[u] # "idle" => script'[u] # <<>>
    BY <2>1, <2>7 DEF Scripted
  <2> QED  BY <2>1, <2>2, <2>7, <2>8 DEF Scripted
<1>7. CASE JoinStep
  <2>1. /\ pc[main] = "idle" /\ UNCHANGED <<healthy, ht, pc, buflen, generated, verdict>>
        /\ script' = [script EXCEPT ![main] = Tail(@)]
    BY <1>7 DEF JoinStep, Is, unitVars, readVars
  <2>2. main \in Readers /\ Tail(script[main]) \in Seq(Calls)
    BY <1>0, <1>7 DEF JoinStep, Is, Readers
  <2>3. Whole' /\ Counted'
    BY <1>w, <2>1
  <2>4. /\ script' \in [Readers -> Seq(Calls)]
        /\ \A u \in Readers \ {main} : script'[u] = script[u]
    BY <1>0, <2>1, <2>2
  <2> QED  BY <2>1, <2>3, <2>4 DEF Scripted
<1>8. CASE Summary \/ UNCHANGED rngVars
  <2>1. /\ UNCHANGED <<healthy, ht, pc, buflen, generated, script>>
        /\ verdict' = verdict \/ verdict' = "pass"
    BY <1>8 DEF Summary, unitVars, readVars, rngVars, rngTestVars
  <2> QED  BY <1>w, <2>1 DEF Scripted
<1> QED  BY <1>1, <1>2, <1>3, <1>4, <1>5, <1>6, <1>7, <1>8 DEF RngTestNext

\* The test program passes on every unit that answers in time and whose health
\* test finds nothing, with any number of workers that read at once from any
\* places of their list, and for blocks of any size: every read has every byte.
THEOREM RandomTestPasses ==
    ASSUME RngConstantsOK, NEW workers \in Seq(Workers), NEW id \in [Workers -> Nat]
    PROVE  RngTestSpec(workers, id) => [](RngTypeOK /\ TrngTestPasses)
<1> DEFINE K == RngInv /\ Whole /\ Counted /\ Scripted /\ devices \subseteq Devices
<1>1. RngInit /\ RngTestInit(workers) => K
  <2>1. RngInit => devices \subseteq Devices
    BY DEF RngInit
  <2> QED  BY <2>1, ScriptsBegin, RngInvInit
<1>2. K /\ [RngTestNext(id)]_rngVars => K'
  <2> SUFFICES ASSUME K, [RngTestNext(id)]_rngVars PROVE K'
    OBVIOUS
  <2>1. RngInv'
    <3>1. [RngNext \/ RngTestNext(id)]_rngVars
      OBVIOUS
    <3> QED  BY <3>1, RngInvNext
  <2>2. (devices \subseteq Devices)'
    BY DEF RngTestNext, RegisterSteps, Initialize, InitializeClears, InitializeStops, Register, registerVars,
       Works, Lock, Enable, Trigger, SeesIdle, SeesBusy, InTime, TooLate,
       Take, Clears, Stops, Copy, Unlock, ReadStep, Read, Finish, ReturnStep, Return, CreateStep,
       JoinStep, Summary, rngVars
  <2> QED  BY <2>1, <2>2, TestStep
<1>3. K => RngTypeOK /\ TrngTestPasses
  BY DEF RngInv, UnitTypes, Counted, Scripted, RngTypeOK, TrngTestPasses
<1> QED  BY <1>1, <1>2, <1>3, PTL DEF RngTestSpec
-----------------------------------------------------------------------------
(* Levels of the pins                                                      *)

\* The module of the test program, beside the one with the interrupts: both have
\* pins with callbacks.
CONSTANTS Outputs, Keys, Joined, Paths, Runs, Count

VARIABLES pad, latch, inverted, trig, armed, pinsAttached, events, pintype, pressed,
          config, gpioScript, todo, handles, signal, gpioVerdict, asked

G == INSTANCE GpioTests WITH
    attached <- pinsAttached, script <- gpioScript, verdict <- gpioVerdict

\* A device that takes a write drives its pin, and what was asked of it last is
\* in the output register, inverted or not.
Latched ==
    /\ pad \in [Pins -> [drives : BOOLEAN, pull : {"float", "up", "down"}]]
    /\ pintype \in [Pins -> G!PinTypes] /\ asked \in [Pins -> SUBSET BOOLEAN]
    /\ latch \subseteq Pins /\ inverted \subseteq Pins
    /\ \A p \in Pins :
         /\ G!Writable(p) => pad[p].drives
         /\ asked[p] # {} => G!Writable(p) /\ asked[p] = {G!Inverts(p, p \in latch)}

LEMMA LatchedInit == ASSUME G!PinsConstantsOK PROVE G!GpioTestInit => Latched
<1> SUFFICES ASSUME G!GpioTestInit PROVE Latched
  OBVIOUS
<1>1. /\ pad = [p \in Pins |-> IF p \in Outputs THEN [drives |-> TRUE, pull |-> "up"]
                                                ELSE [drives |-> FALSE, pull |-> "float"]]
      /\ pintype = [p \in Pins |-> IF p \in Outputs THEN "out" ELSE "in"]
      /\ latch = {} /\ inverted = {} /\ asked = [p \in Pins |-> {}]
  BY DEF G!GpioTestInit, G!PinsInit
<1> QED  BY <1>1 DEF Latched, G!Writable, G!PinTypes, G!Directions

\* A step that turns the polarity, the type or the level of a pin of a client.
LEMMA LatchedNext == ASSUME Latched, G!ClientNext PROVE Latched'
<1> DEFINE Typed == /\ pad \in [Pins -> [drives : BOOLEAN, pull : {"float", "up", "down"}]]
                    /\ pintype \in [Pins -> G!PinTypes]
                    /\ asked \in [Pins -> SUBSET BOOLEAN]
                    /\ latch \subseteq Pins /\ inverted \subseteq Pins
           Holds(p) == /\ G!Writable(p) => pad[p].drives
                       /\ asked[p] # {} => G!Writable(p) /\ asked[p] = {G!Inverts(p, p \in latch)}
<1>0. Latched <=> Typed /\ \A p \in Pins : Holds(p)
  BY DEF Latched
<1>1. ASSUME NEW p \in Pins, NEW i \in BOOLEAN, G!Invert(p, i),
             asked' = [asked EXCEPT ![p] = IF i = (p \in inverted) THEN @ ELSE {}]
      PROVE  Latched'
  <2>1. /\ inverted' = IF i THEN inverted \cup {p} ELSE inverted \ {p}
        /\ UNCHANGED <<pad, latch, pintype>>
    BY <1>1 DEF G!Invert
  <2>2. Typed'
    BY <1>0, <1>1, <2>1
  <2>3. ASSUME NEW q \in Pins, asked'[q] # {}
        PROVE  asked[q] = asked'[q] /\ (q \in inverted' <=> q \in inverted)
    BY <1>0, <1>1, <2>1, <2>3
  <2>4. ASSUME NEW q \in Pins PROVE Holds(q)'
    <3>1. Holds(q) /\ (G!Writable(q)' <=> G!Writable(q)) /\ pad'[q] = pad[q]
      BY <1>0, <2>1 DEF G!Writable
    <3>2. CASE asked'[q] = {}
      BY <3>1, <3>2
    <3>3. CASE asked'[q] # {}
      <4>1. G!Inverts(q, q \in latch)' = G!Inverts(q, q \in latch)
        BY <2>1, <2>3, <3>3 DEF G!Inverts
      <4> QED  BY <2>3, <3>1, <3>3, <4>1
    <3> QED  BY <3>2, <3>3
  <2> QED  BY <2>2, <2>4 DEF Latched
<1>2. ASSUME NEW p \in Pins, NEW t \in {"in", "out"}, G!Setpintype(p, t),
             asked' = [asked EXCEPT ![p] = {}]
      PROVE  Latched'
  <2>1. /\ pad' = [pad EXCEPT ![p] = [drives |-> G!Drives(t), pull |-> G!Pull(t)]]
        /\ pintype' = [pintype EXCEPT ![p] = t] /\ UNCHANGED <<latch, inverted>>
    BY <1>2 DEF G!Setpintype, G!Direction, G!Directions, G!Change
  <2>2. G!Drives(t) \in BOOLEAN /\ G!Pull(t) \in {"float", "up", "down"}
    <3>1. G!Drives(t) \in BOOLEAN
      BY DEF G!Drives
    <3>2. CASE t = "in"
      BY <3>1, <3>2 DEF G!Pull
    <3>3. CASE t = "out"
      BY <3>1, <3>3 DEF G!Pull
    <3> QED  BY <3>2, <3>3
  <2>3. t \in {"out", "out opendrain"} => G!Drives(t)
    BY DEF G!Drives
  <2>4. t \in G!PinTypes
    BY DEF G!PinTypes, G!Directions
  <2>5. Typed'
    BY <1>0, <1>2, <2>1, <2>2, <2>4
  <2>6. Holds(p)'
    <3>1. pad'[p].drives = G!Drives(t) /\ pintype'[p] = t /\ asked'[p] = {}
      BY <1>0, <1>2, <2>1
    <3> QED  BY <3>1, <2>3 DEF G!Writable
  <2>7. ASSUME NEW q \in Pins, q # p PROVE Holds(q)'
    <3>1. pad'[q] = pad[q] /\ pintype'[q] = pintype[q] /\ asked'[q] = asked[q]
      BY <1>0, <1>2, <2>1, <2>7
    <3>2. Holds(q)
      BY <1>0
    <3> QED  BY <3>1, <3>2, <2>1 DEF G!Writable, G!Inverts
  <2> QED  BY <2>5, <2>6, <2>7 DEF Latched
<1>3. ASSUME NEW p \in Pins, NEW v \in BOOLEAN, G!Writable(p), G!Writepin(p, v),
             asked' = [asked EXCEPT ![p] = {v}]
      PROVE  Latched'
  <2>1. /\ latch' = IF G!Inverts(p, v) THEN latch \cup {p} ELSE latch \ {p}
        /\ UNCHANGED <<pad, inverted, pintype>>
    BY <1>3 DEF G!Writepin, G!Change
  <2>2. Typed'
    BY <1>0, <1>3, <2>1
  <2>3. p \in latch' <=> (v # (p \in inverted))
    BY <2>1, <1>0 DEF G!Inverts
  <2>4. v = ((p \in latch') # (p \in inverted'))
    BY <2>1, <2>3
  <2>5. Holds(p)'
    <3>1. asked'[p] = {v}
      BY <1>0, <1>3
    <3>2. pad[p].drives
      BY <1>0, <1>3
    <3> QED  BY <1>3, <2>1, <2>4, <3>1, <3>2 DEF G!Writable, G!Inverts
  <2>6. ASSUME NEW q \in Pins, q # p PROVE Holds(q)'
    <3>1. asked'[q] = asked[q] /\ (q \in latch' <=> q \in latch)
      BY <1>0, <1>3, <2>1, <2>6
    <3>2. G!Inverts(q, q \in latch)' = G!Inverts(q, q \in latch)
      BY <3>1, <2>1 DEF G!Inverts
    <3>3. Holds(q) /\ (G!Writable(q)' <=> G!Writable(q)) /\ pad'[q] = pad[q]
      BY <1>0, <2>1 DEF G!Writable
    <3> QED  BY <3>1, <3>2, <3>3
  <2> QED  BY <2>2, <2>5, <2>6 DEF Latched
<1> QED  BY <1>1, <1>2, <1>3 DEF G!ClientNext, G!JoinedPins

\* Two clients of any joined pins, who drive them, turn their polarity or let
\* them go in any order: who reads a pin that he alone drives reads what he wrote.
THEOREM WrittenIsRead == ASSUME G!PinsConstantsOK PROVE G!ClientSpec => []G!ReadsOwn
<1>1. Latched => G!ReadsOwn
  <2> SUFFICES ASSUME Latched, NEW p \in Pins, asked[p] # {},
                      \A q \in G!Wire(p) \ {p} : ~pad[q].drives
               PROVE  G!Readpin(p) = asked[p]
    BY DEF G!ReadsOwn
  <2>1. pad[p].drives /\ asked[p] = {G!Inverts(p, p \in latch)} /\ p \in G!Wire(p)
    BY DEF Latched, G!Wire
  <2>2. {q \in G!Wire(p) : pad[q].drives} = {p}
    BY <2>1
  <2> DEFINE level == p \in latch
  <2>3. G!Levels(p) = {v \in BOOLEAN : v <=> level}
    BY <2>2 DEF G!Levels, G!LevelsOf
  <2>4. level \in BOOLEAN
    OBVIOUS
  <2>5. G!Readpin(p) = {G!Inverts(p, v) : v \in G!Levels(p)}
    BY DEF G!Readpin
  <2> HIDE DEF level
  <2>6. G!Levels(p) = {level}
    BY <2>3, <2>4
  <2>7. G!Readpin(p) = {G!Inverts(p, level)}
    BY <2>5, <2>6
  <2> QED  BY <2>1, <2>7 DEF level
<1>2. Latched /\ UNCHANGED <<G!pinVars, G!gpioTestVars>> => Latched'
  BY DEF Latched, G!pinVars, G!padVars, G!gpioTestVars, G!Writable, G!Inverts
<1> QED  BY LatchedInit, LatchedNext, <1>1, <1>2, PTL DEF G!ClientSpec
=============================================================================
