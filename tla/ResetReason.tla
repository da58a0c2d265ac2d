----------------------------- MODULE ResetReason -----------------------------
(***************************************************************************)
(* Why the chip was reset: chips/bl616cl/bl616cl_systemreset.c and         *)
(* boards/bl616cl/common/src/bl616cl_reset.c, together with the watchdog,  *)
(* which is one of the reasons and can also bite while a reset that was    *)
(* asked for is under way.                                                 *)
(*                                                                         *)
(* Two words outlive a reset: a reason with a magic number in the HBN      *)
(* domain, and the sticky status of the watchdog.  A power-on clears both. *)
(***************************************************************************)
EXTENDS Watchdog

VARIABLES
    phase,          \* "up", "resetting" (up_systemreset) or "booting"
    saved,          \* the reason behind a magic number in HBN_RSV0, or "none"
    wts,            \* TIMER_WTS in WSR
    reason,         \* g_bl616cl_reset_reason
    cause           \* why the chip was last reset

vars == <<dogVars, phase, saved, wts, reason, cause>>

Asked == {"fatal", "software"}
Reasons == Asked \cup {"power_on", "watchdog"}

Init ==
    /\ DogInit
    /\ phase = "booting" /\ saved = "none" /\ wts = FALSE
    /\ reason = "power_on" /\ cause = "power_on"
-----------------------------------------------------------------------------
\* The memory and the registers of the watchdog are as after a power-on.
ChipReset ==
    /\ phase' = "booting" /\ reason' = "power_on"
    /\ started' = FALSE /\ timeout' = MaxTimeout /\ handler' = NoHandler /\ since' = 0
    /\ counting' = FALSE /\ counter' = 0 /\ compare' = 0 /\ resets' = TRUE
    /\ pending' = FALSE /\ irqEnabled' = FALSE /\ shown' = {0} /\ age' = 0

PowerOn ==
    /\ ChipReset
    /\ saved' = "none" /\ wts' = FALSE
    /\ cause' = "power_on"

Consumed_kept == saved

\* The saved reason is read once.
Consumed == "none"

\* bl616cl_reset_reason_initialize; bringup goes on to initialize the watchdog.
Boot ==
    /\ phase = "booting"
    /\ phase' = "up"
    /\ \/ /\ saved # "none"
          /\ reason' = saved /\ saved' = Consumed
          /\ UNCHANGED wts
       \/ /\ saved = "none"
          /\ reason' = IF wts THEN "watchdog" ELSE reason
          /\ wts' = FALSE
          /\ UNCHANGED saved
    /\ UNCHANGED <<dogVars, cause>>

\* board_reset: the reason is saved, and up_systemreset closes the interrupts
\* and waits before it resets the chip.
AskReset(why) ==
    /\ phase = "up"
    /\ phase' = "resetting"
    /\ saved' = why /\ cause' = why
    /\ UNCHANGED <<dogVars, wts, reason>>

\* GLB_SW_POR_Reset at the end of up_systemreset
SystemReset ==
    /\ phase = "resetting"
    /\ ChipReset
    /\ UNCHANGED <<saved, wts, cause>>

\* A watchdog that bites during a reset that was asked for only hastens it.
Bite ==
    /\ phase # "booting"
    /\ Bites
    /\ ChipReset
    /\ wts' = TRUE
    /\ cause' = IF phase = "up" THEN "watchdog" ELSE cause
    /\ UNCHANGED saved
-----------------------------------------------------------------------------
Called == Start \/ Stop \/ KeepAlive \/ (\E h \in Handlers \cup {NoHandler} : Capture(h))
            \/ (\E ms \in 0 .. MaxTimeout + 1 : SetTimeout(ms))

Up == phase = "up" /\ UNCHANGED <<phase, saved, wts, reason, cause>>
Ticks == phase # "booting" /\ HwTick /\ UNCHANGED <<phase, saved, wts, reason, cause>>

Next ==
    \/ Up /\ Called
    \/ Up /\ Handle
    \/ Ticks
    \/ Bite
    \/ Boot
    \/ \E why \in Asked : AskReset(why)
    \/ SystemReset
    \/ PowerOn

\* Time goes on, and an interrupt that is pending and enabled is taken.
Spec ==
    /\ Init /\ [][Next]_vars
    /\ WF_vars(Ticks \/ Bite)
    /\ WF_vars(Up /\ Handle)
    /\ WF_vars(Boot)
    /\ WF_vars(SystemReset)
-----------------------------------------------------------------------------
TypeOK ==
    /\ DogTypeOK
    /\ phase \in {"up", "resetting", "booting"}
    /\ saved \in Asked \cup {"none"} /\ wts \in BOOLEAN
    /\ reason \in Reasons /\ cause \in Reasons

\* A dog that is fed in time sleeps: the watchdog resets the chip, or raises its
\* interrupt, only when the full timeout in milliseconds has passed since the
\* counter was last reset; rounding, live updates and changes of the handler
\* never shorten it.
FedDogSleeps ==
    [][(Bite \/ (~pending /\ pending')) => (age + 1) * Den >= timeout * Num]_vars

\* A dog that has time left says so: whatever WVR shows after the counter was
\* reset, a status does not report zero milliseconds before the timeout, nor
\* more than the timeout (WDT-003 of apps/mcu_peripheral_tests/wdt/README.md).
TimeLeftShown ==
    \A n \in shown :
        /\ TimeLeft(n) <= timeout
        /\ started /\ age < compare => TimeLeft(n) > 0

\* What a status says is true of the dog; types.
StatusesTrue == TypeOK /\ TimeLeftShown

\* A dog that nobody feeds acts: while it runs it resets the chip or calls the
\* handler, again and again, unless somebody calls the driver; whatever was
\* captured, cancelled and updated before.
UnfedDogActs ==
    []<>(~started) \/ []<><<Bite \/ (Up /\ Handle) \/ (Up /\ Called)>>_vars

\* What board_reset_cause reports is why the chip was last reset: over chains of
\* resets that were asked for, that the watchdog hastened, and of its own.
ReasonIsTrue == phase = "up" => reason = cause
=============================================================================
