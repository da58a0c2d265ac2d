-------------------------------- MODULE Pwm --------------------------------
(***************************************************************************)
(* The PWM lower half, chips/bl616cl/bl616cl_pwm.c: the search for divider *)
(* and period, and the life of the one channel, its clock and its pin.     *)
(*                                                                         *)
(* The upper half serialises the calls with a mutex: each call is one      *)
(* action.  The controller may fail to stop, to start or to take a value   *)
(* in time; every such outcome is a choice.  The constants stand for the   *)
(* chip's PBCLK, its 16-bit fields and the 16-bit fraction of a duty.      *)
(*                                                                         *)
(* An operator with "_" in its name is a faulty variant of the operator    *)
(* that follows it; no specification uses it.                              *)
(***************************************************************************)
EXTENDS Integers

CONSTANTS
    Source,         \* frequency of PBCLK
    MaxDivider, MaxPeriod,
    DutyOne,        \* a duty of 1: 65536
    Frequencies,    \* what clients ask for
    Duties,
    Polarities,     \* a pair of cpol and dcpol
    Low             \* both are LOW

MinPeriod == 2

PwmConstantsOK ==
    /\ Source \in Nat \ {0}
    /\ MaxDivider \in Nat \ {0} /\ MaxPeriod \in Nat /\ MaxPeriod > MinPeriod
    /\ Frequencies \subseteq Nat /\ DutyOne \in Nat \ {0} /\ Duties \subseteq 0 .. DutyOne - 1
    /\ Low \in Polarities
    \* A last step of the period is not longer than two steps of a duty.
    /\ MaxPeriod <= 2 * DutyOne
-----------------------------------------------------------------------------
(* bl616cl_pwm_solve: the best divider and period for a frequency          *)

Abs(n) == IF n < 0 THEN -n ELSE n

NoSolution == [divider |-> 0, period |-> 0]

Den(s) == s.divider * s.period

\* The frequency of s differs from f by Error(s, f) / Den(s).
Error(s, f) == Abs(f * Den(s) - Source)

\* bl616cl_pwm_error_less: num1/den1 < num2/den2
ErrorLess(num1, den1, num2, den2) ==
    IF num1 \div den1 # num2 \div den2
    THEN num1 \div den1 < num2 \div den2
    ELSE (num1 % den1) * den2 < (num2 % den2) * den1

\* bl616cl_pwm_consider_solution
Consider(best, f, d, p) ==
    LET new == [divider |-> d, period |-> p] IN
    IF p \in MinPeriod .. MaxPeriod
       /\ \/ best = NoSolution
          \/ ErrorLess(Error(new, f), Den(new), Error(best, f), Den(best))
          \/ /\ Error(new, f) = Error(best, f) /\ Den(new) = Den(best)
             /\ d < best.divider
    THEN new ELSE best

\* The period that comes closest with divider d.
Rounded(f, d) == (Source + (f * d) \div 2) \div (f * d)

\* The search stops after the first divider that leaves too short a period.
Searched(f, d) == \A e \in 1 .. d - 1 : Rounded(f, e) >= MinPeriod

\* One divider: the period that comes closest with it, and its two neighbours.
WithDivider(best, f, d) ==
    LET p == Rounded(f, d)
        below == IF p > 0 THEN Consider(best, f, d, p - 1) ELSE best
    IN  IF Searched(f, d) THEN Consider(Consider(below, f, d, p), f, d, p + 1) ELSE best

Solve ==
    [f \in Frequencies \ {0} |->
       LET best[d \in 0 .. MaxDivider] ==
             IF d = 0 THEN NoSolution ELSE WithDivider(best[d - 1], f, d)
       IN  best[MaxDivider]]

InRange(f) == f # 0 /\ f <= Source \div MinPeriod

\* What a start finds for a frequency.
Solution(f) == IF InRange(f) THEN Solve[f] ELSE NoSolution

Threshold_truncated(duty, period) == (duty * period) \div DutyOne

\* bl616cl_pwm_threshold
Threshold(duty, period) ==
    LET rounded == (duty * period + DutyOne \div 2) \div DutyOne IN
    IF duty = 0 THEN 0
    ELSE IF duty = DutyOne - 1 \/ rounded >= period THEN period - 1
    ELSE rounded
-----------------------------------------------------------------------------
VARIABLES
    \* struct bl616cl_pwm_lowerhalf_s
    initialized, pwmClock, pin, started,
    channelOn,      \* channel_enabled
    divider,        \* of the last configuration that was read back
    idle,           \* cpol and dcpol of the last configuration
    \* the controller's registers
    regs,           \* [divider, period, threshold, polarity]
    enabled,        \* PEN of the channel
    \* the clients
    open,           \* some file descriptor is open
    pwmAsked        \* the last request that was granted

resources == <<pwmClock, pin, started, channelOn>>
pwmHw == <<regs, enabled>>
pwmVars == <<initialized, resources, divider, idle, pwmHw, open, pwmAsked>>

Registers == [divider : 0 .. MaxDivider, period : 0 .. MaxPeriod,
              threshold : 0 .. MaxPeriod, polarity : Polarities]

Cleared == [divider |-> 0, period |-> 0, threshold |-> 0, polarity |-> Low]

\* What the registers hold for a request with divider and period s.
Programmed(r, s) ==
    [divider |-> s.divider, period |-> s.period,
     threshold |-> Threshold(r.duty, s.period), polarity |-> r.polarity]

PwmInit ==
    /\ initialized = FALSE /\ pwmClock = FALSE /\ pin = FALSE /\ started = FALSE
    /\ channelOn = FALSE /\ divider = 0
    /\ idle = Low /\ regs = Cleared
    /\ enabled = FALSE
    /\ open = FALSE
    /\ pwmAsked = [frequency |-> 0, duty |-> 0, polarity |-> Low]
-----------------------------------------------------------------------------
(* Resources                                                               *)

\* bl616cl_pwm_release
Release ==
    /\ pwmClock' = FALSE /\ pin' = FALSE /\ started' = FALSE /\ channelOn' = FALSE

\* The controller is stopped and reset; whether it stops in time decides only
\* what the caller is told.
ChannelOff ==
    /\ Release
    /\ enabled' = FALSE /\ regs' = Cleared

\* bl616cl_pwm_force_stop
ForceStop == IF pwmClock THEN ChannelOff ELSE Release /\ UNCHANGED pwmHw
-----------------------------------------------------------------------------
(* Calls of the upper half                                                 *)

\* bl616cl_pwm_setup on the first open: the clock is enabled, and the forced
\* stop disables it again.  When it fails, the open fails.
Setup ==
    /\ ~open /\ ~initialized
    /\ ChannelOff
    /\ \/ initialized' = TRUE /\ open' = TRUE
       \/ UNCHANGED <<initialized, open>>
    /\ UNCHANGED <<divider, idle, pwmAsked>>

\* bl616cl_pwm_shutdown on the last close
Shutdown ==
    /\ open
    /\ ForceStop
    /\ initialized' = FALSE /\ open' = FALSE
    /\ UNCHANGED <<divider, idle, pwmAsked>>

\* bl616cl_pwm_stop
Stop ==
    /\ open
    /\ ForceStop
    /\ UNCHANGED <<initialized, divider, idle, open, pwmAsked>>

\* bl616cl_pwm_validate and bl616cl_pwm_solve come before any change.
StartRefused(s) ==
    /\ open
    /\ s = NoSolution
    /\ UNCHANGED pwmVars

\* The clock cannot be enabled.
StartNoClock(s) ==
    /\ open /\ ~pwmClock
    /\ s # NoSolution
    /\ UNCHANGED pwmVars

\* The counter keeps running.
SameDivider(s) == started /\ divider = s.divider

\* The channel's PEN: a live update leaves it alone.
EnabledAfter(s) == IF SameDivider(s) THEN enabled ELSE TRUE

RegistersAfter(r, s) ==
    IF SameDivider(s)
    THEN [Programmed(r, s) EXCEPT !.divider = regs.divider]
    ELSE Programmed(r, s)

\* bl616cl_pwm_readback
ReadbackOk(r, s) ==
    RegistersAfter(r, s) = Programmed(r, s) /\ EnabledAfter(s)

Start(r, s) ==
    /\ open /\ s # NoSolution
    /\ ReadbackOk(r, s)
    /\ regs' = RegistersAfter(r, s)
    /\ enabled' = EnabledAfter(s)
    /\ divider' = RegistersAfter(r, s).divider
    /\ pwmClock' = TRUE /\ pin' = TRUE /\ started' = TRUE /\ channelOn' = TRUE
    /\ idle' = r.polarity
    /\ pwmAsked' = r
    /\ UNCHANGED <<initialized, open>>

\* The controller does not stop for the new divider, or is not stopped after
\* its initialisation, or does not start, or the registers do not read back;
\* the polarity is the new one from the configuration of the channel on.
StartFails(r, s) ==
    /\ open
    /\ s # NoSolution
    /\ ChannelOff
    /\ \/ ~SameDivider(s) /\ UNCHANGED idle
       \/ idle' = r.polarity
    /\ UNCHANGED <<initialized, divider, open, pwmAsked>>

PwmNext ==
    \/ Setup \/ Shutdown \/ Stop
    \/ \E f \in Frequencies :
         LET s == Solution(f)
         IN  \/ StartRefused(s) \/ StartNoClock(s)
             \/ \E d \in Duties, p \in Polarities :
                  LET r == [frequency |-> f, duty |-> d, polarity |-> p]
                  IN  Start(r, s) \/ StartFails(r, s)

PwmSpec == PwmInit /\ [][PwmNext]_pwmVars
-----------------------------------------------------------------------------
(* Properties                                                              *)

PwmTypeOK ==
    /\ initialized \in BOOLEAN /\ open \in BOOLEAN /\ pwmClock \in BOOLEAN /\ pin \in BOOLEAN
    /\ started \in BOOLEAN /\ channelOn \in BOOLEAN /\ enabled \in BOOLEAN
    /\ divider \in 0 .. MaxDivider /\ idle \in Polarities
    /\ regs \in Registers
    /\ pwmAsked \in [frequency : Frequencies \cup {0}, duty : Duties \cup {0}, polarity : Polarities]

\* Between two calls the pin, the clock and the channel are held exactly while
\* the output runs: no error path keeps one of them, and none loses one.
Held ==
    /\ started = pwmClock /\ started = pin /\ started = channelOn /\ started = enabled
    /\ (started => open) /\ (open => initialized)

\* The output that runs is the one of the last request that was granted,
\* through live updates, changes of divider, refusals and timeouts; the duty
\* is the one asked for within half a step of the period, or a whole step at
\* its ends ("duty" in docs/bl616cl-pwm.md).
RunsAsAsked ==
    started =>
        /\ regs.polarity = pwmAsked.polarity
        /\ regs.divider = divider
        /\ [divider |-> divider, period |-> regs.period] = Solution(pwmAsked.frequency)
        /\ LET off == Abs(regs.threshold * DutyOne - pwmAsked.duty * regs.period) IN
             \/ 2 * off <= DutyOne
             \/ regs.threshold = regs.period - 1 /\ off <= DutyOne

\* No other divider and period come closer to the frequency that was asked for,
\* although the search tries three periods for each divider and stops early.
BestSolution ==
    started =>
        \A d \in 1 .. MaxDivider, p \in MinPeriod .. MaxPeriod :
            Error(regs, pwmAsked.frequency) * (d * p)
              <= Error([divider |-> d, period |-> p], pwmAsked.frequency) * Den(regs)

\* What the channel drives is what was asked for last, with the best pair
\* there is, and nothing is held for an output that does not run.
OutputAsAsked == PwmTypeOK /\ Held /\ RunsAsAsked /\ BestSolution
=============================================================================
