--------------------------------- MODULE Irq ---------------------------------
(***************************************************************************)
(* The interrupt controller as the drivers use it: chips/bl616cl/          *)
(* bl616cl_irq.c (the CLIC), bl616cl_irq_dispatch.c (what is done before a *)
(* handler) and bl616cl_irq_adapter.c (the table of handlers behind the    *)
(* bflb_irq_* calls).  Every interrupt has one owner, a driver, whose code *)
(* runs in a thread or in the handler of its interrupt.                    *)
(*                                                                         *)
(* Handlers run with interrupts off and do not nest, so priorities decide  *)
(* nothing here and are left out; interrupt numbers are valid ones.        *)
(*                                                                         *)
(* An operator with "_" in its name is a faulty variant of the operator    *)
(* that follows it; no specification uses it.                              *)
(***************************************************************************)
EXTENDS Naturals

CONSTANTS
    Irqs,           \* interrupts of the CLIC
    CoreIrqs,       \* MSOFT and MTIME, which have an enable bit in mie as well
    EdgeIrqs,       \* MSOFT and SDU_SOFT_RST; the others are level-triggered
    CallsOf,        \* of each owner: handler and argument, as it attaches them
    NoCall,         \* NULL, NULL
    Nobody

Calls == UNION {CallsOf[i] : i \in Irqs}

IrqConstantsOK ==
    /\ {CoreIrqs, EdgeIrqs} \subseteq SUBSET Irqs
    /\ NoCall \notin Calls /\ {"unexpected", "adapter", "mixed"} \cap (Calls \cup {NoCall}) = {}
    /\ Nobody \notin Irqs \cup {"boot"} /\ "boot" \notin Irqs

VARIABLES
    ie, ip, edge,   \* the bits of the CLIC
    mie,            \* the interrupts enabled in mie
    level,          \* what the source of each interrupt drives
    adapter,        \* struct bl616cl_irq_adapter_s
    vector,         \* irq_attach: "unexpected", "adapter", or a call attached directly
    holder,         \* who has interrupts off (up_irq_save)
    cpu, ran,       \* the interrupt that is handled, and what was called
    place, asked,      \* the calls of the drivers: the place, and what is attached
    given,          \* the call each interrupt is to have (history)
    owed            \* edges that no handler has seen (history)

regVars == <<ie, ip, edge, mie, level>>
tableVars == <<adapter, vector, given>>
irqVars == <<regVars, tableVars, holder, cpu, ran, place, asked, owed>>

\* Interrupts are off; the boot code leaves any bit in the controller.
IrqInit ==
    /\ ie \in SUBSET Irqs /\ ip \in SUBSET Irqs /\ edge = {} /\ mie = {} /\ level = {}
    /\ adapter = [i \in Irqs |-> <<NoCall, NoCall>>]
    /\ vector = [i \in Irqs |-> "unexpected"]
    /\ holder = "boot" /\ cpu = Nobody /\ ran = NoCall
    /\ place = [i \in Irqs |-> "idle"] /\ asked = [i \in Irqs |-> NoCall]
    /\ given = [i \in Irqs |-> NoCall] /\ owed = {}
-----------------------------------------------------------------------------
\* The bits that up_irqinitialize leaves set in the IE registers.
Silenced == {}

\* up_irqinitialize
Initialize ==
    /\ holder = "boot"
    /\ ie' = Silenced /\ ip' = {}
    /\ edge' = EdgeIrqs
    /\ holder' = Nobody
    /\ UNCHANGED <<mie, level, tableVars, cpu, ran, place, asked, owed>>

Set(S, i, b) == IF b THEN S \cup {i} ELSE S \ {i}

\* up_enable_irq and up_disable_irq
Switch(i, on) ==
    /\ ie' = Set(ie, i, on)
    /\ mie' = IF i \in CoreIrqs THEN Set(mie, i, on) ELSE mie

Pending(i) == i \in ip \/ (i \notin edge /\ i \in level)

Takes(i) == i \in ie /\ (i \in CoreIrqs => i \in mie) /\ Pending(i)
-----------------------------------------------------------------------------
(* The drivers                                                             *)

\* Code of the owner of i can run.
Runs(i) == \/ cpu = Nobody /\ holder \in {Nobody, i}
           \/ cpu = i

Goes(i, from, to) ==
    /\ Runs(i) /\ place[i] = from
    /\ place' = [place EXCEPT ![i] = to]

AtRest(i) == Goes(i, "idle", "idle")

\* up_irq_save and up_irq_restore of a thread
Save(i) ==
    /\ AtRest(i) /\ cpu = Nobody /\ holder = Nobody
    /\ holder' = i
    /\ UNCHANGED <<regVars, tableVars, cpu, ran, asked, owed>>

Restore(i) ==
    /\ AtRest(i) /\ cpu = Nobody /\ holder = i
    /\ holder' = Nobody
    /\ UNCHANGED <<regVars, tableVars, cpu, ran, asked, owed>>

\* bflb_irq_attach, called for an interrupt that is disabled or to attach
\* again what is attached (a timer that gets another callback).
Attach(i, c) ==
    /\ Goes(i, "idle", "handler")
    /\ i \in ie => given[i] = c
    /\ asked' = [asked EXCEPT ![i] = c]
    /\ UNCHANGED <<regVars, tableVars, holder, cpu, ran, owed>>

\* The two fields are written one after the other ...
AttachHandler(i) ==
    /\ Goes(i, "handler", "arg")
    /\ adapter' = [adapter EXCEPT ![i] = <<asked[i], @[2]>>]
    /\ UNCHANGED <<regVars, vector, given, holder, cpu, ran, asked, owed>>

AttachArg(i) ==
    /\ Goes(i, "arg", "table")
    /\ adapter' = [adapter EXCEPT ![i] = <<@[1], asked[i]>>]
    /\ UNCHANGED <<regVars, vector, given, holder, cpu, ran, asked, owed>>

\* ... and irq_attach puts the adapter into the table of handlers, or fails:
\* a driver whose first attachment fails does not enable the interrupt.
AttachTable(i) ==
    /\ Goes(i, "table", "idle")
    /\ \/ vector' = [vector EXCEPT ![i] = "adapter"] /\ given' = [given EXCEPT ![i] = asked[i]]
       \/ /\ given' = [given EXCEPT ![i] = IF asked[i] = @ THEN @ ELSE NoCall]
          /\ UNCHANGED vector
    /\ asked' = [asked EXCEPT ![i] = NoCall]
    /\ UNCHANGED <<regVars, adapter, holder, cpu, ran, owed>>

\* A driver that calls irq_attach itself.
AttachDirectly(i, c) ==
    /\ AtRest(i) /\ i \notin ie /\ given[i] = NoCall
    /\ vector' = [vector EXCEPT ![i] = c] /\ given' = [given EXCEPT ![i] = c]
    /\ UNCHANGED <<regVars, adapter, holder, cpu, ran, asked, owed>>

\* What bflb_irq_detach does first.
DetachFirst_table(i) == UNCHANGED <<ie, mie>>

DetachFirst(i) == Switch(i, FALSE)

\* bflb_irq_detach
Detach(i) ==
    /\ Goes(i, "idle", "clear") /\ vector[i] \notin Calls
    /\ DetachFirst(i)
    /\ given' = [given EXCEPT ![i] = NoCall]
    /\ UNCHANGED <<ip, edge, level, adapter, vector, holder, cpu, ran, asked, owed>>

DetachHandler(i) ==
    /\ Goes(i, "clear", "clear arg")
    /\ adapter' = [adapter EXCEPT ![i] = <<NoCall, @[2]>>]
    /\ UNCHANGED <<regVars, vector, given, holder, cpu, ran, asked, owed>>

DetachArg(i) ==
    /\ Goes(i, "clear arg", "clear table")
    /\ adapter' = [adapter EXCEPT ![i] = <<@[1], NoCall>>]
    /\ UNCHANGED <<regVars, vector, given, holder, cpu, ran, asked, owed>>

DetachTable(i) ==
    /\ Goes(i, "clear table", "idle")
    /\ vector' = [vector EXCEPT ![i] = "unexpected"]
    /\ UNCHANGED <<regVars, adapter, given, holder, cpu, ran, asked, owed>>

\* bflb_irq_enable; a driver enables what it has attached.
Enable(i) ==
    /\ AtRest(i) /\ given[i] # NoCall
    /\ Switch(i, TRUE)
    /\ UNCHANGED <<ip, edge, level, tableVars, holder, cpu, ran, asked, owed>>

\* bflb_irq_disable
Disable(i) ==
    /\ AtRest(i)
    /\ Switch(i, FALSE)
    /\ UNCHANGED <<ip, edge, level, tableVars, holder, cpu, ran, asked, owed>>

\* bflb_irq_set_pending and bflb_irq_clear_pending
SetPending(i) ==
    /\ AtRest(i)
    /\ ip' = ip \cup {i} /\ owed' = owed \cup {i}
    /\ UNCHANGED <<ie, edge, mie, level, tableVars, holder, cpu, ran, asked>>

ClearPending(i) ==
    /\ AtRest(i)
    /\ ip' = ip \ {i} /\ owed' = owed \ {i}
    /\ UNCHANGED <<ie, edge, mie, level, tableVars, holder, cpu, ran, asked>>
-----------------------------------------------------------------------------
(* The hardware and the dispatcher                                         *)

\* An edge is kept in ip.
EdgeRises(i) ==
    /\ i \in edge
    /\ ip' = ip \cup {i} /\ owed' = owed \cup {i}
    /\ UNCHANGED <<ie, edge, mie, level, tableVars, holder, cpu, ran, place, asked>>

\* A level stays until the owner clears its cause.
LevelRises(i) ==
    /\ i \notin edge \cup level /\ holder # "boot"
    /\ level' = level \cup {i}
    /\ UNCHANGED <<ie, ip, edge, mie, tableVars, holder, cpu, ran, place, asked, owed>>

LevelFalls(i) ==
    /\ i \in level
    /\ AtRest(i) /\ (cpu = i \/ i \notin ie)
    /\ level' = level \ {i}
    /\ UNCHANGED <<ie, ip, edge, mie, tableVars, holder, cpu, ran, asked, owed>>

\* bl616cl_lhal_interrupt: what the table leads to.  A handler that meets
\* the argument of another is "mixed"; NoCall is irq_unexpected_isr.
Called(i) ==
    IF vector[i] # "adapter" THEN IF vector[i] \in Calls THEN vector[i] ELSE NoCall
    ELSE IF adapter[i][1] = NoCall THEN NoCall
    ELSE IF adapter[i][1] = adapter[i][2] THEN adapter[i][1] ELSE "mixed"

\* riscv_dispatch_irq: riscv_ack_irq, and then the handler.
Dispatch(i) ==
    /\ cpu = Nobody /\ holder = Nobody /\ Takes(i)
    /\ ip' = ip \ {i} /\ owed' = owed \ {i}
    /\ cpu' = i /\ ran' = Called(i)
    /\ UNCHANGED <<ie, edge, mie, level, tableVars, holder, place, asked>>

\* What is pending when the handler has returned.
LeftPending_late == ip \ {cpu}

LeftPending == ip

Return ==
    /\ cpu # Nobody /\ place[cpu] = "idle"
    /\ cpu \in level => cpu \notin ie
    /\ cpu' = Nobody /\ ran' = NoCall
    /\ ip' = LeftPending
    /\ UNCHANGED <<ie, edge, mie, level, tableVars, holder, place, asked, owed>>

IrqNext ==
    \/ Initialize
    \/ \E i \in Irqs :
         \/ Save(i) \/ Restore(i)
         \/ \E c \in CallsOf[i] : Attach(i, c) \/ AttachDirectly(i, c)
         \/ AttachHandler(i) \/ AttachArg(i) \/ AttachTable(i)
         \/ Detach(i) \/ DetachHandler(i) \/ DetachArg(i) \/ DetachTable(i)
         \/ Enable(i) \/ Disable(i) \/ SetPending(i) \/ ClearPending(i)
         \/ EdgeRises(i) \/ LevelRises(i) \/ LevelFalls(i) \/ Dispatch(i)
    \/ Return

IrqSpec == IrqInit /\ [][IrqNext]_irqVars
-----------------------------------------------------------------------------
(* Properties                                                              *)

IrqTypeOK ==
    /\ {ie, ip, edge, mie, level, owed} \subseteq SUBSET Irqs
    /\ adapter \in [Irqs -> (Calls \cup {NoCall}) \X (Calls \cup {NoCall})]
    /\ vector \in [Irqs -> Calls \cup {"unexpected", "adapter"}]
    /\ holder \in Irqs \cup {Nobody, "boot"} /\ cpu \in Irqs \cup {Nobody}
    /\ ran \in Calls \cup {NoCall, "mixed"}
    /\ {asked, given} \subseteq [Irqs -> Calls \cup {NoCall}]

\* An interrupt that is taken runs the handler its owner attached, with the
\* argument attached with it: never an unattached one, nor one that is being
\* attached or detached at that moment (bflb_irq_attach writes handler and
\* argument in two steps, bflb_irq_detach clears them in two more).
OwnHandler ==
    [][cpu = Nobody /\ cpu' # Nobody => ran' = given[cpu'] /\ ran' # NoCall]_irqVars

\* An edge that comes while the handler of its interrupt runs is not lost:
\* what no handler has seen is still pending (riscv_dispatch_irq acknowledges
\* before it calls the handler).
EdgesKept == owed \subseteq ip
=============================================================================
