------------------------------ MODULE MCSystem -------------------------------
(* Parts of the chip that share no state, each with its users: the RTC and    *)
(* its alarm (RtcAlarm), the interrupt controller (Irq), TIMER1, the oneshot  *)
(* (Oneshot), with halves of mtime of 2 bits, and the caches (Cache,          *)
(* CacheTests).  A behaviour is one of one user, the other parts stay as they *)
(* are.                                                                       *)
EXTENDS CacheTests, Irq, Oneshot, RtcAlarm

CONSTANTS i1, i2, c1, c2

VARIABLE user

\* The counter has 64 values and starts six ticks before it wraps, at 5/3 ticks
\* per second; a second has 3 "nanoseconds".
AlarmTimes == {<<1, 0>>, <<3, 1>>, <<60, 0>>}
AlarmStart == <<0, 0>>

\* i1 is MSOFT: an edge, with a bit in mie.
CallsUnderTest == [i \in {i1, i2} |-> IF i = i1 THEN {c1} ELSE {c1, c2}]

\* Ranges that are aligned, that start or end inside of a line of 3 bytes,
\* have one line or reach out of the memory.
RangesUnderTest ==
    {<<5, 9>>, <<5, 10>>, <<4, 5>>, <<3, 15>>, <<1, 5>>, <<9, 22>>, <<6, 6>>, <<9, 25>>}

ASSUME AlarmAssumption == RtcConstantsOK
ASSUME IrqAssumption == IrqConstantsOK
ASSUME OneshotAssumption == OneshotConstantsOK
ASSUME CacheAssumption == ConstantsOK

all == <<user, rtcVars, irqVars, oneshotVars, allVars, cacheTestVars>>

\* Parts that are not used start in one state.
SystemInit ==
    /\ RtcInit /\ IrqInit /\ OneshotInit /\ Init
    /\ user \in {"alarm", "interrupts", "oneshot", "transfers", "coding", "cache test"}
    /\ user # "interrupts" => ie = {} /\ ip = {}
    /\ user \in {"alarm", "interrupts", "oneshot"} => cached = {} /\ dirty = {} /\ icached = {}
    /\ IF user = "cache test" THEN CacheTestInit
       ELSE script = <<>> /\ verdict = "none" /\ critical = FALSE

AlarmStep == user = "alarm" /\ RtcNext /\ UNCHANGED <<user, irqVars, oneshotVars, allVars, cacheTestVars>>
IrqStep ==
    user = "interrupts" /\ IrqNext /\ UNCHANGED <<user, rtcVars, oneshotVars, allVars, cacheTestVars>>
OneshotStep ==
    user = "oneshot" /\ OneshotNext /\ UNCHANGED <<user, rtcVars, irqVars, allVars, cacheTestVars>>
CacheStep ==
    /\ \/ user = "transfers" /\ Transfers /\ UNCHANGED cacheTestVars
       \/ user = "coding" /\ Coding /\ UNCHANGED cacheTestVars
       \/ user = "cache test" /\ CacheTestNext
    /\ UNCHANGED <<user, rtcVars, irqVars, oneshotVars>>

SystemSpec == SystemInit /\ [][AlarmStep \/ IrqStep \/ OneshotStep \/ CacheStep]_all
-----------------------------------------------------------------------------
(* Properties of the modules above                                           *)

\* The test program of the caches passes; types of the interrupt controller.
TestsPass == CacheTestPasses /\ IrqTypeOK
=============================================================================
