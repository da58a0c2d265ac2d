------------------------------ MODULE RtcAlarm ------------------------------
(***************************************************************************)
(* The RTC and its one alarm, chips/bl616cl/bl616cl_rtc.c.                 *)
(*                                                                         *)
(* A free-running counter of the HBN domain and a base (the time at one    *)
(* value of the counter) make the clock; a compare register makes the      *)
(* alarm.  Every operation is one region under the spin lock, with         *)
(* interrupts masked, but the counter does not stop meanwhile: between two *)
(* accesses to its registers it moves by one of Latencies.                 *)
(*                                                                         *)
(* A time is a pair <<seconds, nanoseconds>>.  Calendar conversions are    *)
(* abstracted: only valid times are given to the operations.               *)
(*                                                                         *)
(* An operator with "_" in its name is a faulty variant of the operator    *)
(* that follows it; no specification uses it.                              *)
(***************************************************************************)
EXTENDS Integers

CONSTANTS
    Modulus,        \* 2^48, BL616CL_RTC_COUNTER_MASK + 1
    Num, Den,       \* the counter's frequency, Num / Den per second
    Nsec,           \* BL616CL_RTC_NSEC_PER_SEC
    MinTicks,       \* BL616CL_RTC_MIN_ALARM_TICKS
    Guard,          \* BL616CL_RTC_PROGRAM_GUARD
    Latencies,      \* ticks that pass between two register accesses
    Times,          \* times that callers set the clock and the alarm to
    RelTimes,       \* relative alarms, in seconds
    StartTime,      \* CONFIG_START_YEAR, _MONTH, _DAY
    TimeMax,        \* BL616CL_RTC_TIME_MAX, in seconds
    StartCounter,   \* the counter at power-on
    NoAlarm,
    RtcHorizon      \* bound: ticks after which the model stops the counter

RtcConstantsOK ==
    /\ Modulus \in Nat \ {0} /\ Num \in Nat \ {0} /\ Den \in Nat \ {0}
    /\ Nsec \in Nat \ {0} /\ RtcHorizon \in Nat \ {0}
    /\ RtcHorizon < Modulus /\ StartCounter \in 0 .. Modulus - 1
    /\ MinTicks \in Nat /\ Guard \in Nat /\ TimeMax \in Nat
    /\ MinTicks <= Guard /\ 8 * Guard < Modulus
    /\ Latencies \subseteq Nat /\ RelTimes \subseteq Nat \ {0}
    /\ Times \cup {StartTime} \subseteq (0 .. TimeMax) \X (0 .. Nsec - 1)
    /\ NoAlarm \notin Nat \X (0 .. Nsec - 1)
    \* The last window of the programming loop is longer than an access takes.
    /\ \E most \in 0 .. 8 * Guard - 1 :
         Latencies \subseteq 0 .. most /\ RtcHorizon + 5 * most <= Modulus

VARIABLES
    \* struct bl616cl_rtc_lowerhalf_s
    base, counterBase,      \* epoch_base with nanosecond_base, counter_base
    alarm,                  \* alarm_epoch with alarm_nanosecond, while alarm_active
    ready,                  \* alarm_irq_ready, and the interrupt is enabled
    waitForClock,           \* alarm_wait_for_clock
    \* the HBN registers
    counter, alarmCompare, armed, pending,
    \* CLOCK_REALTIME less the time of the RTC, in nanoseconds
    offset

softVars == <<base, counterBase, alarm, ready, waitForClock>>
hwVars == <<alarmCompare, armed, pending>>
rtcVars == <<softVars, counter, hwVars, offset>>
-----------------------------------------------------------------------------
(* The clock                                                               *)

Total(t) == t[1] * Nsec + t[2]

Before(s, t) == s[1] < t[1] \/ (s[1] = t[1] /\ s[2] < t[2])

\* Ticks from counter value c to d.
Ticks(c, d) == (d - c) % Modulus

\* bl616cl_rtc_ticks_to_seconds
TicksToSeconds(n) ==
    <<(n * Den) \div Num, (((n * Den) % Num) * Nsec) \div Num>>

Carried(sec, nanos) == <<sec + nanos \div Nsec, nanos % Nsec>>

\* The time at n ticks after the base.
TimeAt(n) ==
    LET elapsed == TicksToSeconds(n)
    IN  Carried(base[1] + elapsed[1], base[2] + elapsed[2])

\* bl616cl_rtc_snapshot_locked
Now == TimeAt(Ticks(counterBase, counter))

Active == alarm # NoAlarm

\* bl616cl_rtc_duration_to_ticks: no intermediate product leaves 64 bits, and
\* a fraction of a tick counts as a tick.
DurationToTicks(sec, ns) ==
    LET quotient  == Num \div Den
        remainder == Num % Den
        fraction  == (sec % Den) * remainder * Nsec + ns * Num
        unit      == Den * Nsec
    IN  sec * quotient + (sec \div Den) * remainder
          + (fraction + unit - 1) \div unit

\* bl616cl_rtc_alarm_delta, its borrow included
Delta(from, to) ==
    IF to[2] < from[2]
    THEN DurationToTicks(to[1] - from[1] - 1, Nsec - from[2] + to[2])
    ELSE DurationToTicks(to[1] - from[1], to[2] - from[2])

\* ... and its results: OK, -ETIME and -ERANGE
DeltaResult(from, to) ==
    IF ~Before(from, to) THEN "past"
    ELSE IF Delta(from, to) >= Modulus THEN "range"
    ELSE IF Delta(from, to) < MinTicks THEN "past"
    ELSE "ok"
-----------------------------------------------------------------------------
(* The compare register                                                    *)

\* The value of compare means nothing until it is armed again.
ClearAlarmHardware == armed' = FALSE /\ pending' = FALSE /\ alarmCompare' = 0

\* bl616cl_rtc_program_counter: a target too near, or already passed, becomes
\* the end of a guard window.
FirstTarget(start, target, delta) ==
    LET remaining == Ticks(start, target) IN
    IF remaining = 0 \/ remaining > delta \/ remaining < Guard
    THEN (start + Guard) % Modulus ELSE target

\* The counter came too near to the target while it was written.
Missed(target, before, after) ==
    ~(Ticks(after, target) \in Guard .. Ticks(before, target))

After(c) == {(c + l) % Modulus : l \in Latencies}

Program(target, c) ==
    alarmCompare' = target /\ counter' = c /\ armed' = TRUE /\ pending' = FALSE

\* Up to three attempts, each with a window twice as long, are checked by
\* reading the counter again; a fourth is not.
ProgramCounter(from, target, delta) ==
    \E c0 \in After(from) : \E c1 \in After(c0) :
        LET t1 == FirstTarget(c0, target, delta)
            t2 == (c1 + 2 * Guard) % Modulus
        IN  \/ ~Missed(t1, c0, c1) /\ Program(t1, c1)
            \/ /\ Missed(t1, c0, c1)
               /\ \E c2 \in After(c1) :
                    LET t3 == (c2 + 4 * Guard) % Modulus IN
                    \/ ~Missed(t2, c1, c2) /\ Program(t2, c2)
                    \/ /\ Missed(t2, c1, c2)
                       /\ \E c3 \in After(c2) :
                            \/ ~Missed(t3, c2, c3) /\ Program(t3, c3)
                            \/ /\ Missed(t3, c2, c3)
                               /\ \E c4 \in After(c3) :
                                    Program((c3 + 8 * Guard) % Modulus, c4)
-----------------------------------------------------------------------------
(* Initialisation and the lower half operations                            *)

\* up_rtc_initialize
RtcInit ==
    /\ counter = StartCounter
    /\ base = StartTime /\ counterBase = counter
    /\ alarm = NoAlarm /\ waitForClock = FALSE
    /\ ready = TRUE
    /\ alarmCompare = 0 /\ armed = FALSE /\ pending = FALSE
    /\ offset = 0

\* A warm reset: the counter goes on, what is in memory is built again;
\* attached: irq_attach succeeds.
Reset(attached) ==
    /\ base' = StartTime /\ counterBase' = counter
    /\ alarm' = NoAlarm /\ waitForClock' = FALSE
    /\ ready' = attached
    /\ ClearAlarmHardware
    /\ offset' = 0
    /\ UNCHANGED counter

PutsPast(t) == DeltaResult(t, alarm) = "past"

Waits_forgotten(t) == waitForClock

\* The deadline is crossed: the callback waits for the system clock.
Waits(t) == waitForClock \/ PutsPast(t)

\* bl616cl_rtc_settime.  The upper half calls it and then clock_synchronize
\* (Synchronize) before it takes another request.
SetTime(t) ==
    /\ offset = 0
    /\ Active => DeltaResult(t, alarm) # "range"
    /\ base' = t /\ counterBase' = counter
    /\ offset' = offset + Total(Now) - Total(t)
    /\ IF Active
       THEN LET delta == IF PutsPast(t) THEN MinTicks ELSE Delta(t, alarm) IN
            /\ ProgramCounter(counter, (counter + delta) % Modulus, delta)
            /\ waitForClock' = Waits(t)
       ELSE UNCHANGED <<counter, hwVars, waitForClock>>
    /\ UNCHANGED <<alarm, ready>>

\* The upper half, after settime: clock_synchronize.
Synchronize == offset' = 0 /\ offset # 0 /\ UNCHANGED <<softVars, counter, hwVars>>

\* bl616cl_rtc_program_alarm_locked: a refused alarm changes nothing.
ProgramAlarm(t) ==
    /\ ready
    /\ Now[1] <= TimeMax
    /\ DeltaResult(Now, t) = "ok"
    /\ alarm' = t /\ waitForClock' = FALSE
    /\ LET delta == Delta(Now, t)
       IN  ProgramCounter(counter, (counter + delta) % Modulus, delta)
    /\ UNCHANGED <<base, counterBase, ready, offset>>

SetAlarm(t) == ProgramAlarm(t)

SetRelative(sec) ==
    /\ sec <= TimeMax - Now[1]
    /\ ProgramAlarm(<<Now[1] + sec, Now[2]>>)

CancelAlarm ==
    /\ alarm' = NoAlarm /\ waitForClock' = FALSE
    /\ ClearAlarmHardware
    /\ UNCHANGED <<base, counterBase, ready, counter, offset>>

\* bl616cl_rtc_destroy; the interrupt is disabled after the region, with
\* nothing pending.
Destroy ==
    /\ alarm' = NoAlarm /\ waitForClock' = FALSE /\ ready' = FALSE
    /\ ClearAlarmHardware
    /\ UNCHANGED <<base, counterBase, counter, offset>>
-----------------------------------------------------------------------------
(* bl616cl_rtc_interrupt and the counter                                   *)

\* CLOCK_REALTIME is still before the alarm.
SystemBefore == Total(Now) + offset < Total(alarm)

\* The callback runs after the region; what it calls are operations.
Interrupt ==
    /\ ready /\ pending
    /\ \/ /\ Active /\ waitForClock /\ SystemBefore
          /\ ProgramCounter(counter, (counter + MinTicks) % Modulus, MinTicks)
          /\ UNCHANGED softVars
       \/ /\ ~(Active /\ waitForClock /\ SystemBefore)
          /\ ClearAlarmHardware
          /\ alarm' = NoAlarm
          /\ waitForClock' = (waitForClock /\ ~Active)
          /\ UNCHANGED <<base, counterBase, ready, counter>>
    /\ UNCHANGED offset

Elapsed == Ticks(StartCounter, counter)

\* The comparator is an equality.
RtcTick ==
    /\ Elapsed < RtcHorizon
    /\ counter' = (counter + 1) % Modulus
    /\ pending' = (pending \/ (armed /\ counter' = alarmCompare))
    /\ UNCHANGED <<softVars, alarmCompare, armed, offset>>

\* Bounds the programming operations, which move the counter too.
InHorizon == Elapsed < RtcHorizon

RtcNext ==
    /\ InHorizon
    /\ \/ \E attached \in BOOLEAN : Reset(attached)
       \/ \E t \in Times : SetTime(t)
       \/ \E t \in Times : SetAlarm(t)
       \/ \E sec \in RelTimes : SetRelative(sec)
       \/ Synchronize
       \/ CancelAlarm
       \/ Destroy
       \/ Interrupt
       \/ RtcTick

\* The callback is called.
AlarmCalled == Interrupt /\ Active /\ alarm' = NoAlarm

RtcSpec == RtcInit /\ [][RtcNext]_rtcVars
-----------------------------------------------------------------------------
(* Properties                                                              *)

RtcTypeOK ==
    /\ base \in Nat \X (0 .. Nsec - 1) /\ alarm \in (Nat \X (0 .. Nsec - 1)) \cup {NoAlarm}
    /\ counter \in 0 .. Modulus - 1 /\ counterBase \in 0 .. Modulus - 1
    /\ alarmCompare \in 0 .. Modulus - 1
    /\ ready \in BOOLEAN /\ waitForClock \in BOOLEAN
    /\ armed \in BOOLEAN /\ pending \in BOOLEAN
    /\ offset \in Int
    /\ Now \in Nat \X (0 .. Nsec - 1)

\* An alarm that is set is never lost: the comparator, which fires only when
\* the counter is equal to it, has fired, or it is ahead of the counter and will
\* fire before the last window of the programming loop has passed since the
\* time of the alarm, whatever the latencies and retries of its programming were.
NeverLost ==
    Active =>
        /\ ready
        /\ \/ pending
           \/ LET left == Ticks(counter, alarmCompare)
                  now  == Ticks(counterBase, counter)
              IN  /\ armed /\ left # 0
                  /\ left > 8 * Guard => ~Before(alarm, TimeAt(now + left - 8 * Guard))

\* The clock reads the alarm's time or a later one when its callback is
\* called: roundings, borrows and the guard window only ever delay it.
NeverEarly ==
    [][AlarmCalled => ~Before(Now, alarm)]_rtcVars

\* An alarm that a new time has put in the past is reported only when
\* CLOCK_REALTIME has reached it too (the comment at bl616cl_rtc.c:572).
SystemClockFirst ==
    [][AlarmCalled /\ ~Before(base, alarm) => ~SystemBefore]_rtcVars

\* An alarm is not lost, not early, and not before the system clock knows its
\* time.
AlarmOnTime == [](RtcTypeOK /\ NeverLost) /\ NeverEarly /\ SystemClockFirst
=============================================================================
