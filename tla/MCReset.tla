------------------------------- MODULE MCReset -------------------------------
(* An instance of WatchdogTests for TLC: 5 ticks in 4 milliseconds.  The     *)
(* driver is called in any order, or by its test program.                   *)
EXTENDS WatchdogTests

CONSTANTS h1, h2

VARIABLE user       \* "any" or "test"

all == <<vars, testVars, user>>

NoTest == script = <<>> /\ verdict = "pass" /\ timeleft = 0 /\ slept = 0 /\ spare = TRUE
            /\ monitor = FALSE /\ g_capture_count = [h \in {first, second} |-> 0]

MCInit == Init /\ ((user = "any" /\ NoTest) \/ (user = "test" /\ TestInit))

Any(A) == user = "any" /\ A /\ UNCHANGED <<testVars, user>>
Test(A) == user = "test" /\ A /\ UNCHANGED user

MCSpec ==
    /\ MCInit /\ [][Any(Next) \/ Test(TestNext)]_all
    /\ WF_all(Any(Ticks \/ Bite)) /\ WF_all(Any(Up /\ Handle))
    /\ WF_all(Any(Boot)) /\ WF_all(Any(SystemReset))
    /\ WF_all(Test(TestNext))

\* The test program passes (WatchdogTests).
TestPasses == WatchdogTestPasses

\* The test program alone.
TestSpec == Init /\ TestInit /\ user = "test" /\ [][Test(TestNext)]_all
=============================================================================
