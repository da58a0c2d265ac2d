---------------------------- MODULE WatchdogTests ----------------------------
(***************************************************************************)
(* The test program of the watchdog,                                       *)
(* apps/mcu_peripheral_tests/wdt/wdt_case_main.c, as the client of the     *)
(* driver and of the reset reason.  A case is the sequence of its calls    *)
(* with what it expects of each; the sequence goes on behind the resets    *)
(* that the case provokes, as its instructions ask of the person who runs  *)
(* it.                                                                     *)
(*                                                                         *)
(* A test is prompt: between two sleeps at most one tick of the watchdog   *)
(* passes, and an interrupt is served before the next tick.                *)
(***************************************************************************)
EXTENDS ResetReason, Sequences

CONSTANTS
    Cases,          \* of the -c option
    first, second,  \* capture_callback_0 and capture_callback_1
    Nap,            \* ticks of a usleep of 20 ms, and of the feed interval
    Naps            \* feeds of case 002

VARIABLES
    script,         \* the calls to come
    verdict,        \* "running", "pass" or "fail"
    timeleft,       \* of the last status
    g_capture_count,
    slept,          \* ticks of the sleep at the head of the script
    spare,          \* may a tick pass that the test does not sleep for?
    monitor         \* the automonitor of the upper half feeds the dog

testVars == <<script, verdict, timeleft, g_capture_count, slept, spare, monitor>>

\* A call and what the test expects of it.
Call(op, arg, want) == [op |-> op, arg |-> arg, want |-> want]

Set(ms) == Call("settimeout", ms, "ok")
Refused(ms) == Call("settimeout", ms, "refused")
Run == Call("start", 0, "ok")
Halt == Call("stop", 0, "ok")
Feed == Call("keepalive", 0, "ok")
Catch(h, old) == Call("capture", h, old)
Status(want) == Call("getstatus", 0, want)
Sleep(ticks) == Call("usleep", ticks, "ok")
Await(h, ms) == Call("await", h, 2 * MsToTicks(ms))
Dies(ms) == Call("dies", 3 * MsToTicks(ms), "ok")
Cause(why) == Call("cause", why, "ok")

\* WDT-001: nobody feeds the dog, the chip is reset before the guard ends, and
\* the next run reports it.
run_case_001(ms) == <<Set(ms), Run, Dies(ms), Cause("watchdog")>>

Feeds[n \in Nat] == IF n = 0 THEN <<>> ELSE <<Sleep(Nap), Feed>> \o Feeds[n - 1]

\* WDT-002: the dog is fed in time.
run_case_002(ms) == <<Set(ms), Run>> \o Feeds[Naps] \o <<Halt>>

Alternate(ms) == IF ms = MaxTimeout THEN ms - 1 ELSE ms + 1

\* WDT-003, its first half: the boundaries and the update of a dog that runs.
Boundaries(ms) ==
    <<Refused(0), Refused(MaxTimeout + 1), Set(1), Set(MaxTimeout), Set(ms), Run,
      Call("start", 0, "refused"), Set(Alternate(ms)), Status("updated"),
      Sleep(Nap), Status("drops"), Set(ms)>>

\* WDT-003, its second half: two file descriptors share one dog.
Lifecycle == <<Status("active"), Status("active"), Feed, Halt, Halt, Feed,
               Status("inactive")>>

run_case_003(ms) == Boundaries(ms) \o Lifecycle

\* WDT-004: the dog interrupts, first one handler, then the other, and is given
\* back its bite; no change of handler puts the deadline off.
run_case_004(ms) ==
    <<Set(ms), Catch(first, NoHandler), Run, Await(first, ms),
      Status("caught"), Feed, Status("read"),
      Catch(second, first), Status("no later"), Await(second, ms),
      Status("caught twice"), Catch(NoHandler, second), Status("restored"), Halt>>

\* WDT-005: the automonitor feeds the dog, until START takes it over.
run_case_005(ms) ==
    <<Status("active"), Sleep(Naps * Nap), Status("active"), Set(ms), Run, Dies(ms),
      Cause("watchdog")>>

run_selected_cases(id, ms) ==
    CASE id = "001" -> run_case_001(ms)
      [] id = "002" -> run_case_002(ms)
      [] id = "003" -> run_case_003(ms)
      [] id = "004" -> run_case_004(ms)
      [] id = "005" -> run_case_005(ms)
      [] OTHER -> run_case_002(ms) \o run_case_004(ms) \o run_case_003(ms)
                    \o run_case_001(ms)

\* Of the timeouts that main accepts, those that outlast a nap and the spare tick.
\* With the largest one the counter can start again between two calls of
\* WDT-004, which then takes the new deadline for one that was put off.
Timeouts == {ms \in 1 .. MaxTimeout : MsToTicks(ms) \in Nap + 2 .. MaxTicks - 1}

\* WDT-005 is for the build with the automonitor, which starts the dog when the
\* driver is registered; the other cases are for the build without.
TestInit ==
    /\ \E id \in Cases, ms \in Timeouts :
        script = run_selected_cases(id, ms) /\ monitor = (id = "005")
    /\ verdict = "running" /\ timeleft = 0
    /\ g_capture_count = [h \in {first, second} |-> 0]
    /\ slept = 0 /\ spare = TRUE
-----------------------------------------------------------------------------
(* What a case expects of a status, and of the state it is read from        *)

Expected(want, left) ==
    CASE want \in {"active", "updated"} -> started /\ left <= timeout
      [] want = "drops" -> left < timeleft
      [] want = "inactive" -> ~started
      [] want = "read" -> TRUE
      [] want = "no later" -> left <= timeleft
      [] want = "caught" ->
            started /\ handler # NoHandler /\ ~resets /\ g_capture_count[first] = 1
      [] want = "caught twice" ->
            g_capture_count[first] = 1 /\ g_capture_count[second] = 1
      [] want = "restored" -> handler = NoHandler /\ resets /\ left <= timeleft

now == Head(script)

\* A call returned; ok: it did what the test expects.
Returns(ok) ==
    /\ script' = Tail(script)
    /\ verdict' = IF ~ok THEN "fail" ELSE IF Len(script) = 1 THEN "pass" ELSE verdict
    /\ slept' = 0
    /\ spare' = (spare \/ (Len(script) > 1 /\ script[2].op \in {"usleep", "await"}))

Rest == UNCHANGED <<phase, saved, wts, reason, cause>>
Kept == UNCHANGED <<timeleft, g_capture_count, monitor>>

SetStep ==
    /\ now.op = "settimeout"
    /\ IF now.arg \in 1 .. MaxTimeout THEN SetTimeout(now.arg) ELSE UNCHANGED dogVars
    /\ Returns(now.want = IF now.arg \in 1 .. MaxTimeout THEN "ok" ELSE "refused")
    /\ Kept

\* WDIOC_START ends the automonitor, which stops the dog, and starts it anew.
TakeOver ==
    /\ Configure(timeout) /\ ResetCounter /\ since' = 0
    /\ pending' = FALSE /\ counting' = TRUE /\ irqEnabled' = (handler # NoHandler)
    /\ started' = TRUE
    /\ UNCHANGED <<timeout, handler>>

StartStep ==
    /\ now.op = "start"
    /\ IF monitor THEN TakeOver ELSE IF started THEN UNCHANGED dogVars ELSE Start
    /\ monitor' = FALSE
    /\ Returns(now.want = IF started /\ ~monitor THEN "refused" ELSE "ok")
    /\ UNCHANGED <<timeleft, g_capture_count>>

StopStep == now.op = "stop" /\ Stop /\ Returns(TRUE) /\ Kept

FeedStep == now.op = "keepalive" /\ KeepAlive /\ Returns(TRUE) /\ Kept

CatchStep ==
    /\ now.op = "capture"
    /\ Capture(now.arg)
    /\ Returns(handler = now.want)
    /\ Kept

StatusStep ==
    /\ now.op = "getstatus"
    /\ \E n \in shown :
        /\ timeleft' = TimeLeft(n)
        /\ Returns(Expected(now.want, TimeLeft(n)))
    /\ UNCHANGED <<dogVars, g_capture_count, monitor>>

\* A sleep ends; a wait for a handler ends when it was called, or at its deadline.
WakeStep ==
    /\ \/ now.op = "usleep" /\ slept >= now.arg
       \/ now.op = "await" /\ (g_capture_count[now.arg] > 0 \/ slept >= now.want)
    /\ Returns(TRUE)
    /\ UNCHANGED <<dogVars, timeleft, g_capture_count, monitor>>

\* The guard of WDT-001 and WDT-005: the dog did not bite.
GuardStep ==
    /\ now.op = "dies" /\ slept >= now.arg
    /\ Returns(FALSE)
    /\ UNCHANGED <<dogVars, timeleft, g_capture_count, monitor>>

CauseStep ==
    /\ now.op = "cause"
    /\ Returns(reason = now.arg)
    /\ UNCHANGED <<dogVars, timeleft, g_capture_count, monitor>>

TestStep ==
    /\ phase = "up" /\ verdict = "running" /\ script # <<>>
    /\ monitor => started
    /\ SetStep \/ StartStep \/ StopStep \/ FeedStep \/ CatchStep \/ StatusStep
         \/ WakeStep \/ GuardStep \/ CauseStep
    /\ Rest

-----------------------------------------------------------------------------
(* The world around the test                                                *)

Sleeping == now.op \in {"usleep", "await", "dies"}
Asleep ==
    /\ Sleeping
    /\ CASE now.op = "await" -> g_capture_count[now.arg] = 0 /\ slept < now.want
         [] OTHER -> slept < now.arg

\* The dog does not bite, or the test waits for it.
TestTicks ==
    /\ phase = "up" /\ verdict = "running"
    /\ ~(pending /\ irqEnabled)
    /\ monitor => started /\ age < Nap
    /\ HwTick
    /\ \/ Asleep /\ slept' = slept + 1 /\ UNCHANGED spare
       \/ ~Asleep /\ spare /\ spare' = FALSE /\ UNCHANGED slept
    /\ UNCHANGED <<script, verdict, timeleft, g_capture_count, monitor>> /\ Rest

\* A reset that the case does not wait for is one it fails by.
TestBite ==
    /\ verdict = "running"
    /\ ~(pending /\ irqEnabled)
    /\ monitor => age < Nap
    /\ Asleep \/ spare
    /\ Bite
    /\ script' = Tail(script)
    /\ verdict' = IF now.op = "dies" THEN verdict ELSE "fail"
    /\ slept' = 0 /\ spare' = TRUE
    /\ UNCHANGED <<timeleft, g_capture_count, monitor>>

TestHandle ==
    /\ phase = "up" /\ verdict = "running"
    /\ Handle
    /\ g_capture_count' = IF handler = NoHandler THEN g_capture_count
                          ELSE [g_capture_count EXCEPT ![handler] = @ + 1]
    /\ UNCHANGED <<script, verdict, timeleft, slept, spare, monitor>> /\ Rest

MonitorStarts ==
    /\ phase = "up" /\ monitor /\ ~started
    /\ Start
    /\ UNCHANGED testVars /\ Rest

MonitorFeeds ==
    /\ phase = "up" /\ monitor /\ started /\ age >= Nap
    /\ KeepAlive
    /\ UNCHANGED testVars /\ Rest

TestBoot == Boot /\ UNCHANGED testVars

Over == verdict # "running" /\ UNCHANGED <<vars, testVars>>

TestNext ==
    \/ TestStep \/ TestTicks \/ TestBite \/ TestHandle
    \/ MonitorStarts \/ MonitorFeeds \/ TestBoot \/ Over
-----------------------------------------------------------------------------
\* The driver passes its own test: no case reports a failure, however the
\* watchdog's registers lag, wherever the spare tick falls and whenever the
\* interrupts come.
WatchdogTestPasses == verdict # "fail"
=============================================================================
