------------------------------ MODULE MCDevices ------------------------------
(* Devices that share no state, each with its users: TIMER0 (Timer), with     *)
(* words of 3 bits and ticks of 2 microseconds; the pin interrupts            *)
(* (GpioInterrupt), the pins with their test program (GpioTests), and the     *)
(* random number generator (Rng).  A behaviour is one of one user, the other  *)
(* devices stay as they are.                                                  *)
EXTENDS Timer, GpioInterrupt, Rng

CONSTANTS t1, t2, p1, p2, w1, w2

VARIABLES
    user,
    pad, latch, inverted, trig, armed, pinsAttached, events, pintype, pressed,
    config, gpioScript, todo, handles, signal, gpioVerdict, asked

\* The settings of the paths: as by default, or with one pin in two places.
Setting(led, in) == [key0 |-> "key0", key1 |-> "key1", led |-> led, out |-> "out", in |-> in]

Short == {"board", "001", "002", "003", "004", "005", "edge"}

G == INSTANCE GpioTests WITH
    Pins <- {"key0", "key1", "led", "out", "in"}, Outputs <- {"led", "out"},
    Keys <- {"key0", "key1"}, Joined <- {<<"out", "in">>}, Count <- 2,
    Paths <- {Setting("led", "in"), Setting("out", "in"), Setting("led", "out")},
    Runs <- (Short \X Short) \cup {<<"007", "008">>, <<"010", "pair">>, <<"all">>},
    attached <- pinsAttached, script <- gpioScript, verdict <- gpioVerdict

ASSUME PinsAssumption == IoeConstantsOK
ASSUME TestedPinsAssumption == G!PinsConstantsOK
ASSUME RngAssumption == RngConstantsOK

levelsVars == <<pad, latch, inverted, trig, armed, pinsAttached, events, pintype, pressed,
                config, gpioScript, todo, handles, signal, gpioVerdict, asked>>
all == <<user, vars, ioeVars, levelsVars, rngVars, rngTestVars>>

\* Devices that are not used start in one state.
DevicesInit ==
    /\ user \in {"timer", "pins", "gpio client", "gpio test", "random", "trng test"}
    /\ Init /\ IoeInit /\ G!GpioTestInit /\ RngInit
    /\ user # "timer" => clockDiv = div /\ \A t \in Timeouts : t < MinTimeout \/ timeout <= t
    /\ user # "timer" => \A d \in Divs : div <= d
    /\ user # "pins" => intMask = {}
    /\ user # "gpio test" => /\ todo = <<"all">> /\ ~config.restore /\ ~config.interactive
                             /\ config.led = "led" /\ config.in = "in"
    /\ user \notin {"random", "trng test"} => dout = "clear" /\ ~ht /\ ~healthy /\ ~en /\ ~busy
    /\ IF user = "trng test" THEN RngTestInit(<<w1, w2>>)
       ELSE script = [t \in {main, w1, w2} |-> <<>>] /\ verdict = "none"

Id == [w \in {w1, w2} |-> IF w = w1 THEN 0 ELSE 1]

TimerStep(A) == user = "timer" /\ A
                /\ UNCHANGED <<user, ioeVars, levelsVars, rngVars, rngTestVars>>
PinsStep(A) == user = "pins" /\ A
                /\ UNCHANGED <<user, vars, levelsVars, rngVars, rngTestVars>>
LevelsStep(who, A) == user = who /\ A
                /\ UNCHANGED <<user, vars, ioeVars, rngVars, rngTestVars>>
RandomStep(A) == user = "random" /\ A
                /\ UNCHANGED <<user, vars, ioeVars, levelsVars, rngTestVars>>
TrngTestStep(A) == user = "trng test" /\ A
                /\ UNCHANGED <<user, vars, ioeVars, levelsVars>>

DevicesNext ==
    \/ TimerStep(Next) \/ PinsStep(IoeNext)
    \/ LevelsStep("gpio client", G!ClientNext) \/ LevelsStep("gpio test", G!GpioTestNext)
    \/ RandomStep(RngNext) \/ TrngTestStep(RngTestNext(Id))

\* The interrupts are taken, callbacks return, the work queue and threads go on.
DevicesSpec ==
    /\ DevicesInit /\ [][DevicesNext]_all
    /\ WF_all(TimerStep(HandlerBegin))
    /\ WF_all(TimerStep(\E keep \in BOOLEAN, next \in Intervals : HandlerEnd(keep, next)))
    /\ WF_all(PinsStep(Interrupt)) /\ WF_all(PinsStep(WorkerStep))
    /\ \A t \in {w1, w2} :
         /\ WF_all(RandomStep(Works(t) \/ ReturnAny(t)))
         /\ SF_all(RandomStep(Lock(t) \/ TooLate(t)))
    /\ WF_all(RandomStep(healthy /\ Finish))
-----------------------------------------------------------------------------
(* Properties of the modules above                                           *)

\* Reads of random numbers end.
RandomReadsReturn == user = "random" => ReadsReturn

\* The test programs of the pins and of the generator pass, and leave nothing
\* behind: what is read from a pin is what was written, and no armed pin is
\* without a callback when its edge comes; types.
TestsPass ==
    /\ RngTypeOK /\ TrngTestPasses
    /\ G!PinsTypeOK /\ G!ReadsOwn /\ G!NoStorm /\ G!GpioTestPasses /\ G!Tidy
=============================================================================
