---------------------------- MODULE System_proofs ----------------------------
(***************************************************************************)
(* Proofs about module Irq, for any interrupts, owners and handlers, about *)
(* module Oneshot, for any limits of the delay and any clock, and about    *)
(* module RtcAlarm, for any frequency and width of the counter.            *)
(*                                                                         *)
(* What an interrupt would call is what it is to have as soon as it is     *)
(* enabled.  This is kept while a driver writes handler and argument,      *)
(* because an enabled interrupt is only attached again with the same, and  *)
(* while it clears them, because the interrupt is disabled first.          *)
(*                                                                         *)
(* The time at which a oneshot will fire, the clock and what is left of    *)
(* the count, stays between the limits that were promised at its start.    *)
(*                                                                         *)
(* The counter of the RTC and what the compare register is ahead of it     *)
(* together never come before the time of the alarm, and come after it by  *)
(* no more than the last window of the programming loop; an alarm that has *)
(* fired is due.  A time is compared by its nanoseconds: the ticks to a    *)
(* time are rounded up, so that the time they take is never too short.     *)
(***************************************************************************)
EXTENDS Irq, Oneshot, RtcAlarm, TLAPS

Attaching == {"handler", "arg", "table"}
Detaching == {"clear", "clear arg", "clear table"}

\* Values of the variables that belong to one interrupt.
Typed(i) ==
    /\ adapter[i] \in (Calls \cup {NoCall}) \X (Calls \cup {NoCall})
    /\ vector[i] \in Calls \cup {"unexpected", "adapter"}
    /\ place[i] \in {"idle"} \cup Attaching \cup Detaching
    /\ asked[i] \in Calls \cup {NoCall} /\ given[i] \in Calls \cup {NoCall}

Tables ==
    /\ adapter = [i \in Irqs |-> adapter[i]] /\ vector = [i \in Irqs |-> vector[i]]
    /\ place = [i \in Irqs |-> place[i]] /\ asked = [i \in Irqs |-> asked[i]]
    /\ given = [i \in Irqs |-> given[i]]

\* What is attached, where it is.
Settled(i) == given[i] # NoCall => Called(i) = given[i]

\* The table of an interrupt, at each place of an attachment or detachment.
Consistent(i) ==
    /\ given[i] # NoCall => vector[i] \in {"adapter", given[i]}
    /\ place[i] = "idle" => Settled(i)
    /\ place[i] \in Attaching => asked[i] \in Calls
    /\ place[i] \in {"arg", "table"} => adapter[i][1] = asked[i]
    /\ place[i] = "table" => adapter[i][2] = asked[i]
    /\ place[i] \in Detaching => given[i] = NoCall

\* An interrupt that can be taken.
Ready(i) ==
    i \in ie =>
        /\ given[i] # NoCall /\ Called(i) = given[i]
        /\ place[i] \in Attaching => asked[i] = given[i]

\* Before the controller is set up nothing is handled.
Booting == holder = "boot" => cpu = Nobody

Good(i) == Typed(i) /\ Consistent(i) /\ (holder # "boot" => Ready(i))

Inv == Booting /\ Tables /\ \A i \in Irqs : Good(i)

\* ... and nothing is owed.
Owed == Booting /\ owed \subseteq ip /\ (holder = "boot" => owed = {} /\ edge = {})
-----------------------------------------------------------------------------
(* Edges                                                                   *)

LEMMA OwedInit == IrqInit => Owed
  BY DEF IrqInit, Owed, Booting

LEMMA OwedNext ==
    ASSUME IrqConstantsOK, Owed, [IrqNext]_irqVars
    PROVE  Owed'
<1>1. CASE Initialize
  BY <1>1 DEF Initialize, Owed, Booting, IrqConstantsOK
<1>2. CASE Return
  BY <1>2 DEF Return, LeftPending, Owed, Booting
<1>3. ASSUME NEW i \in Irqs,
             \/ Save(i) \/ Restore(i) \/ \E c \in CallsOf[i] : Attach(i, c) \/ AttachDirectly(i, c)
             \/ AttachHandler(i) \/ AttachArg(i) \/ AttachTable(i)
             \/ Detach(i) \/ DetachHandler(i) \/ DetachArg(i) \/ DetachTable(i)
             \/ Enable(i) \/ Disable(i)
      PROVE  Owed'
  <2>1. UNCHANGED <<ip, owed, edge>>
    BY <1>3 DEF Save, Restore, Attach, AttachDirectly, AttachHandler, AttachArg, AttachTable,
                Detach, DetachHandler, DetachArg, DetachTable, Enable, Disable, regVars
  <2>2. UNCHANGED cpu /\ (holder' = "boot" => holder = "boot")
    BY <1>3 DEF Save, Restore, Attach, AttachDirectly, AttachHandler, AttachArg, AttachTable,
                Detach, DetachHandler, DetachArg, DetachTable, Enable, Disable, IrqConstantsOK
  <2> QED  BY <2>1, <2>2 DEF Owed, Booting
<1>4. ASSUME NEW i \in Irqs, SetPending(i) \/ ClearPending(i)
      PROVE  Owed'
  <2>1. holder # "boot" /\ UNCHANGED <<holder, edge>>
    BY <1>4 DEF SetPending, ClearPending, AtRest, Goes, Runs, IrqConstantsOK, Owed, Booting
  <2> QED  BY <1>4, <2>1 DEF SetPending, ClearPending, Owed, Booting
<1>5. ASSUME NEW i \in Irqs,
             EdgeRises(i) \/ LevelRises(i) \/ LevelFalls(i) \/ Dispatch(i)
      PROVE  Owed'
  BY <1>5 DEF EdgeRises, LevelRises, LevelFalls, Dispatch, Owed, Booting, IrqConstantsOK
<1>6. CASE UNCHANGED irqVars
  BY <1>6 DEF irqVars, regVars, Owed, Booting
<1> QED  BY <1>1, <1>2, <1>3, <1>4, <1>5, <1>6 DEF IrqNext

\* An edge that comes while its handler runs is not lost, whatever interrupts
\* there are.
THEOREM EdgesAreKept == ASSUME IrqConstantsOK PROVE IrqSpec => []EdgesKept
<1>1. Owed => EdgesKept
  BY DEF Owed, EdgesKept
<1> QED  BY <1>1, OwedInit, OwedNext, PTL DEF IrqSpec
-----------------------------------------------------------------------------
(* The table of handlers                                                   *)


LEMMA InvInit == ASSUME IrqConstantsOK PROVE IrqInit => Inv
  BY DEF IrqInit, Inv, Booting, Tables, Good, Typed, Consistent, Settled, Ready,
         IrqConstantsOK, Attaching, Detaching

\* The row of an interrupt in the tables.
Row(i) == <<adapter[i], vector[i], place[i], asked[i], given[i]>>

\* A step of one interrupt leaves the others as they are.
LEMMA OneRow ==
    ASSUME NEW i \in Irqs, Inv, Booting', Tables', Good(i)',
           holder' # "boot" => holder # "boot",
           \A j \in Irqs \ {i} : Row(j)' = Row(j) /\ (j \in ie' => j \in ie)
    PROVE  Inv'
<1> SUFFICES ASSUME NEW j \in Irqs \ {i} PROVE Good(j)'
  BY DEF Inv
<1>1. Good(j)
  BY DEF Inv
<1>2. /\ adapter'[j] = adapter[j] /\ vector'[j] = vector[j] /\ place'[j] = place[j]
      /\ asked'[j] = asked[j] /\ given'[j] = given[j] /\ (j \in ie' => j \in ie)
  BY DEF Row
<1>3. Typed(j)' /\ Consistent(j)'
  BY <1>1, <1>2 DEF Good, Typed, Consistent, Settled, Called
<1>4. holder # "boot" => Ready(j)'
  BY <1>1, <1>2 DEF Good, Ready, Called
<1> QED  BY <1>3, <1>4 DEF Good

\* What a driver's code relies on: it runs when the controller is set up.
LEMMA DriverRuns ==
    ASSUME IrqConstantsOK, Inv, NEW i \in Irqs, Runs(i)
    PROVE  holder # "boot" /\ Ready(i)
  BY DEF IrqConstantsOK, Inv, Booting, Runs, Good

LEMMA AttachStep ==
    ASSUME IrqConstantsOK, Inv, NEW i \in Irqs, NEW c \in CallsOf[i], Attach(i, c)
    PROVE  Inv'
<1>1. Runs(i) /\ place[i] = "idle" /\ place' = [place EXCEPT ![i] = "handler"]
      /\ asked' = [asked EXCEPT ![i] = c] /\ (i \in ie => given[i] = c)
      /\ UNCHANGED <<ie, adapter, vector, given, holder, cpu>>
  BY DEF Attach, Goes, regVars, tableVars
<1>2. holder # "boot" /\ Ready(i) /\ Good(i) /\ Tables /\ Booting
  BY DriverRuns, <1>1 DEF Inv
<1>3. c \in Calls /\ c # NoCall
  BY DEF Calls, IrqConstantsOK
<1>4. asked'[i] = c /\ place'[i] = "handler" /\ Tables'
  BY <1>1, <1>2 DEF Tables
<1>5. Good(i)'
  BY <1>1, <1>2, <1>3, <1>4 DEF Good, Typed, Consistent, Settled, Ready, Called, Attaching, Detaching
<1>6. \A j \in Irqs \ {i} : Row(j)' = Row(j)
  BY <1>1, <1>2 DEF Row, Tables
<1> QED  BY OneRow, <1>1, <1>2, <1>4, <1>5, <1>6 DEF Booting

LEMMA AttachHandlerStep ==
    ASSUME IrqConstantsOK, Inv, NEW i \in Irqs, AttachHandler(i)
    PROVE  Inv'
<1>1. Runs(i) /\ place[i] = "handler" /\ place' = [place EXCEPT ![i] = "arg"]
      /\ adapter' = [adapter EXCEPT ![i] = <<asked[i], adapter[i][2]>>]
      /\ UNCHANGED <<ie, asked, vector, given, holder, cpu>>
  BY DEF AttachHandler, Goes, regVars
<1>2. holder # "boot" /\ Ready(i) /\ Good(i) /\ Tables /\ Booting
  BY DriverRuns, <1>1 DEF Inv
<1>3. adapter'[i] = <<asked[i], adapter[i][2]>> /\ place'[i] = "arg" /\ Tables'
  BY <1>1, <1>2 DEF Tables, Good, Typed
<1>4. Good(i)'
  <2>1. Typed(i)'
    BY <1>1, <1>2, <1>3 DEF Good, Typed, Consistent, Attaching
  <2>2. Consistent(i)'
    <3>1. /\ asked[i] \in Calls /\ (given[i] # NoCall => vector[i] \in {"adapter", given[i]})
          /\ asked' = asked
      BY <1>1, <1>2 DEF Good, Consistent, Attaching
    <3>2. adapter'[i][1] = asked[i] /\ place'[i] = "arg"
      BY <1>3, <3>1
    <3> QED  BY <1>1, <1>3, <3>1, <3>2 DEF Consistent, Attaching, Detaching
  <2>3. Ready(i)'
    <3> SUFFICES ASSUME i \in ie PROVE given[i] # NoCall /\ Called(i)' = given[i] /\ asked[i] = given[i]
      BY <1>1 DEF Ready
    <3>1. /\ given[i] # NoCall /\ Called(i) = given[i] /\ asked[i] = given[i]
          /\ given[i] \in Calls /\ vector[i] \in {"adapter", given[i]}
      BY <1>1, <1>2 DEF Ready, Good, Typed, Consistent, Attaching
    <3>2. given[i] # "adapter" /\ given[i] # "mixed"
      BY <3>1 DEF IrqConstantsOK
    <3>3. CASE vector[i] = given[i]
      BY <1>1, <3>1, <3>2, <3>3 DEF Called
    <3>4. CASE vector[i] = "adapter"
      <4>1. adapter[i][1] = given[i] /\ adapter[i][2] = given[i]
        BY <3>1, <3>2, <3>4 DEF Called, IrqConstantsOK
      <4> QED  BY <1>1, <1>3, <3>1, <3>2, <3>4, <4>1 DEF Called, IrqConstantsOK
    <3> QED  BY <3>1, <3>3, <3>4
  <2> QED  BY <2>1, <2>2, <2>3 DEF Good
<1>5. \A j \in Irqs \ {i} : Row(j)' = Row(j)
  BY <1>1, <1>2 DEF Row, Tables
<1> QED  BY OneRow, <1>1, <1>2, <1>3, <1>4, <1>5 DEF Booting

LEMMA AttachArgStep ==
    ASSUME IrqConstantsOK, Inv, NEW i \in Irqs, AttachArg(i)
    PROVE  Inv'
<1>1. Runs(i) /\ place[i] = "arg" /\ place' = [place EXCEPT ![i] = "table"]
      /\ adapter' = [adapter EXCEPT ![i] = <<adapter[i][1], asked[i]>>]
      /\ UNCHANGED <<ie, asked, vector, given, holder, cpu>>
  BY DEF AttachArg, Goes, regVars
<1>2. holder # "boot" /\ Ready(i) /\ Good(i) /\ Tables /\ Booting
  BY DriverRuns, <1>1 DEF Inv
<1>3. adapter'[i] = <<adapter[i][1], asked[i]>> /\ place'[i] = "table" /\ Tables'
  BY <1>1, <1>2 DEF Tables, Good, Typed
<1>4. Good(i)'
  <2>1. Typed(i)'
    BY <1>1, <1>2, <1>3 DEF Good, Typed, Consistent, Attaching
  <2>2. Consistent(i)'
    <3>1. /\ asked[i] \in Calls /\ (given[i] # NoCall => vector[i] \in {"adapter", given[i]})
          /\ adapter[i][1] = asked[i]
      BY <1>1, <1>2 DEF Good, Consistent, Attaching
    <3>2. adapter'[i][1] = asked[i] /\ adapter'[i][2] = asked[i] /\ place'[i] = "table"
      BY <1>3, <3>1
    <3> QED  BY <1>1, <1>3, <3>1, <3>2 DEF Consistent, Attaching, Detaching
  <2>3. Ready(i)'
    <3> SUFFICES ASSUME i \in ie PROVE given[i] # NoCall /\ Called(i)' = given[i] /\ asked[i] = given[i]
      BY <1>1 DEF Ready
    <3>1. /\ given[i] # NoCall /\ Called(i) = given[i] /\ asked[i] = given[i]
          /\ given[i] \in Calls /\ vector[i] \in {"adapter", given[i]}
      BY <1>1, <1>2 DEF Ready, Good, Typed, Consistent, Attaching
    <3>2. given[i] # "adapter" /\ given[i] # "mixed"
      BY <3>1 DEF IrqConstantsOK
    <3>3. CASE vector[i] = given[i]
      BY <1>1, <3>1, <3>2, <3>3 DEF Called
    <3>4. CASE vector[i] = "adapter"
      <4>1. adapter[i][1] = given[i] /\ adapter[i][2] = given[i]
        BY <3>1, <3>2, <3>4 DEF Called, IrqConstantsOK
      <4> QED  BY <1>1, <1>3, <3>1, <3>2, <3>4, <4>1 DEF Called, IrqConstantsOK
    <3> QED  BY <3>1, <3>3, <3>4
  <2> QED  BY <2>1, <2>2, <2>3 DEF Good
<1>5. \A j \in Irqs \ {i} : Row(j)' = Row(j)
  BY <1>1, <1>2 DEF Row, Tables
<1> QED  BY OneRow, <1>1, <1>2, <1>3, <1>4, <1>5 DEF Booting

\* Handler and argument are there when the table is written; where that fails,
\* what was there before is intact only if it is the same.
LEMMA AttachTableStep ==
    ASSUME IrqConstantsOK, Inv, NEW i \in Irqs, AttachTable(i)
    PROVE  Inv'
<1>1. Runs(i) /\ place[i] = "table" /\ place' = [place EXCEPT ![i] = "idle"]
      /\ asked' = [asked EXCEPT ![i] = NoCall]
      /\ UNCHANGED <<ie, adapter, holder, cpu>>
  BY DEF AttachTable, Goes, regVars
<1>2. holder # "boot" /\ Ready(i) /\ Good(i) /\ Tables /\ Booting
  BY DriverRuns, <1>1 DEF Inv
<1>3. adapter[i] = <<asked[i], asked[i]>> /\ asked[i] \in Calls
  BY <1>1, <1>2 DEF Good, Typed, Consistent, Attaching
<1>4. CASE vector' = [vector EXCEPT ![i] = "adapter"] /\ given' = [given EXCEPT ![i] = asked[i]]
  <2>1. /\ vector'[i] = "adapter" /\ given'[i] = asked[i] /\ Tables'
        /\ place'[i] = "idle" /\ asked'[i] = NoCall
    BY <1>1, <1>2, <1>4 DEF Tables
  <2>2. Good(i)'
    BY <1>1, <1>2, <1>3, <2>1 DEF Good, Typed, Consistent, Settled, Ready, Called, Attaching,
                                  Detaching, IrqConstantsOK
  <2>3. \A j \in Irqs \ {i} : Row(j)' = Row(j)
    BY <1>1, <1>2, <1>4 DEF Row, Tables
  <2> QED  BY OneRow, <1>1, <1>2, <2>1, <2>2, <2>3 DEF Booting
<1>5. CASE /\ vector' = vector
           /\ given' = [given EXCEPT ![i] = IF asked[i] = given[i] THEN given[i] ELSE NoCall]
  <2>1. /\ vector'[i] = vector[i] /\ Tables'
        /\ given'[i] = IF asked[i] = given[i] THEN given[i] ELSE NoCall
        /\ place'[i] = "idle" /\ asked'[i] = NoCall
    BY <1>1, <1>2, <1>5 DEF Tables
  <2>2. Good(i)'
    BY <1>1, <1>2, <1>3, <2>1 DEF Good, Typed, Consistent, Settled, Ready, Called, Attaching,
                                  Detaching, IrqConstantsOK
  <2>3. \A j \in Irqs \ {i} : Row(j)' = Row(j)
    BY <1>1, <1>2, <1>5 DEF Row, Tables
  <2> QED  BY OneRow, <1>1, <1>2, <2>1, <2>2, <2>3 DEF Booting
<1> QED  BY <1>4, <1>5 DEF AttachTable

LEMMA AttachDirectlyStep ==
    ASSUME IrqConstantsOK, Inv, NEW i \in Irqs, NEW c \in CallsOf[i], AttachDirectly(i, c)
    PROVE  Inv'
<1>1. Runs(i) /\ place[i] = "idle" /\ place' = [place EXCEPT ![i] = "idle"] /\ i \notin ie
      /\ vector' = [vector EXCEPT ![i] = c] /\ given' = [given EXCEPT ![i] = c]
      /\ UNCHANGED <<ie, adapter, asked, holder, cpu>>
  BY DEF AttachDirectly, AtRest, Goes, regVars
<1>2. holder # "boot" /\ Good(i) /\ Tables /\ Booting
  BY DriverRuns, <1>1 DEF Inv
<1>3. c \in Calls /\ c # NoCall
  BY DEF Calls, IrqConstantsOK
<1>4. vector'[i] = c /\ given'[i] = c /\ place'[i] = "idle" /\ Tables'
  BY <1>1, <1>2 DEF Tables
<1>5. Good(i)'
  BY <1>1, <1>2, <1>3, <1>4 DEF Good, Typed, Consistent, Settled, Ready, Called, Attaching,
                                Detaching, IrqConstantsOK
<1>6. \A j \in Irqs \ {i} : Row(j)' = Row(j)
  BY <1>1, <1>2 DEF Row, Tables
<1> QED  BY OneRow, <1>1, <1>2, <1>4, <1>5, <1>6 DEF Booting

\* The interrupt is disabled before its entries are touched.
LEMMA DetachStep ==
    ASSUME IrqConstantsOK, Inv, NEW i \in Irqs, Detach(i)
    PROVE  Inv'
<1>1. Runs(i) /\ place[i] = "idle" /\ place' = [place EXCEPT ![i] = "clear"]
      /\ given' = [given EXCEPT ![i] = NoCall] /\ ie' = ie \ {i}
      /\ UNCHANGED <<adapter, vector, asked, holder, cpu>>
  BY DEF Detach, DetachFirst, Switch, Set, Goes
<1>2. holder # "boot" /\ Good(i) /\ Tables /\ Booting
  BY DriverRuns, <1>1 DEF Inv
<1>3. given'[i] = NoCall /\ place'[i] = "clear" /\ Tables'
  BY <1>1, <1>2 DEF Tables
<1>4. Good(i)'
  BY <1>1, <1>2, <1>3 DEF Good, Typed, Consistent, Settled, Ready, Attaching, Detaching
<1>5. \A j \in Irqs \ {i} : Row(j)' = Row(j)
  BY <1>1, <1>2 DEF Row, Tables
<1> QED  BY OneRow, <1>1, <1>2, <1>3, <1>4, <1>5 DEF Booting

LEMMA DetachClearStep ==
    ASSUME IrqConstantsOK, Inv, NEW i \in Irqs, DetachHandler(i) \/ DetachArg(i) \/ DetachTable(i)
    PROVE  Inv'
<1>1. Runs(i) /\ place[i] \in Detaching /\ UNCHANGED <<ie, asked, given, holder, cpu>>
  BY DEF DetachHandler, DetachArg, DetachTable, Goes, regVars, Detaching
<1>2. holder # "boot" /\ Ready(i) /\ Good(i) /\ Tables /\ Booting
  BY DriverRuns, <1>1 DEF Inv
<1>3. given[i] = NoCall /\ i \notin ie
  BY <1>1, <1>2 DEF Good, Consistent, Ready
<1>4. /\ Tables' /\ place'[i] \in {"idle"} \cup Detaching
      /\ adapter'[i] \in (Calls \cup {NoCall}) \X (Calls \cup {NoCall})
      /\ vector'[i] \in Calls \cup {"unexpected", "adapter"}
  <2> USE <1>2 DEF Tables, Good, Typed, Detaching
  <2>1. CASE DetachHandler(i)
    BY <2>1 DEF DetachHandler, Goes
  <2>2. CASE DetachArg(i)
    BY <2>2 DEF DetachArg, Goes
  <2>3. CASE DetachTable(i)
    BY <2>3 DEF DetachTable, Goes
  <2> QED  BY <2>1, <2>2, <2>3
<1>5. Good(i)'
  BY <1>1, <1>2, <1>3, <1>4 DEF Good, Typed, Consistent, Settled, Ready, Attaching, Detaching
<1>6. \A j \in Irqs \ {i} : Row(j)' = Row(j)
  BY <1>1, <1>2 DEF DetachHandler, DetachArg, DetachTable, Goes, Row, Tables
<1> QED  BY OneRow, <1>1, <1>2, <1>4, <1>5, <1>6 DEF Booting

\* A driver enables what it has attached, at a place where nothing is half done.
LEMMA EnableStep ==
    ASSUME IrqConstantsOK, Inv, NEW i \in Irqs, Enable(i) \/ Disable(i)
    PROVE  Inv'
<1>1. Runs(i) /\ place[i] = "idle" /\ place' = [place EXCEPT ![i] = "idle"]
      /\ UNCHANGED <<adapter, vector, asked, given, holder, cpu>>
      /\ (ie' = ie \ {i} \/ (ie' = ie \cup {i} /\ given[i] # NoCall))
  BY DEF Enable, Disable, Switch, Set, AtRest, Goes, tableVars
<1>2. holder # "boot" /\ Good(i) /\ Tables /\ Booting
  BY DriverRuns, <1>1 DEF Inv
<1>3. place' = place /\ Tables'
  BY <1>1, <1>2 DEF Tables
<1>4. Good(i)'
  BY <1>1, <1>2, <1>3 DEF Good, Typed, Consistent, Settled, Ready, Called, Attaching
<1>5. \A j \in Irqs \ {i} : Row(j)' = Row(j)
  BY <1>1, <1>3 DEF Row
<1> QED  BY OneRow, <1>1, <1>2, <1>3, <1>4, <1>5 DEF Booting

\* The steps that leave the tables and the enable bits alone.
LEMMA OtherStep ==
    ASSUME IrqConstantsOK, Inv, Booting', UNCHANGED <<adapter, vector, asked, given, place>>,
           ie' = ie \/ ie' = {}, holder' # "boot" => holder # "boot" \/ ie' = {}
    PROVE  Inv'
<1> SUFFICES ASSUME NEW i \in Irqs PROVE Good(i)'
  BY DEF Inv, Tables
<1>1. Good(i)
  BY DEF Inv
<1>2. Typed(i)' /\ Consistent(i)'
  BY <1>1 DEF Good, Typed, Consistent, Settled, Called
<1>3. holder' # "boot" => Ready(i)'
  BY <1>1 DEF Good, Ready, Called
<1> QED  BY <1>2, <1>3 DEF Good

LEMMA InvNext ==
    ASSUME IrqConstantsOK, Inv, [IrqNext]_irqVars
    PROVE  Inv'
<1> Booting /\ Tables
  BY DEF Inv
<1>1. CASE Initialize
  BY <1>1, OtherStep DEF Initialize, Silenced, tableVars, Booting, IrqConstantsOK
<1>2. CASE Return
  BY <1>2, OtherStep DEF Return, tableVars, Booting, IrqConstantsOK
<1>3. ASSUME NEW i \in Irqs,
             \/ Save(i) \/ Restore(i) \/ SetPending(i) \/ ClearPending(i)
             \/ EdgeRises(i) \/ LevelRises(i) \/ LevelFalls(i)
      PROVE  Inv'
  <2>1. UNCHANGED <<adapter, vector, asked, given, ie, cpu>>
    BY <1>3 DEF Save, Restore, SetPending, ClearPending, EdgeRises, LevelRises, LevelFalls,
                regVars, tableVars
  <2>2. UNCHANGED place
    BY <1>3 DEF Save, Restore, SetPending, ClearPending, EdgeRises, LevelRises, LevelFalls,
                AtRest, Goes, Tables
  <2>3. holder' = holder \/ {holder, holder'} \subseteq Irqs \cup {Nobody}
    BY <1>3 DEF Save, Restore, SetPending, ClearPending, EdgeRises, LevelRises, LevelFalls
  <2> QED  BY OtherStep, <2>1, <2>2, <2>3 DEF Booting, IrqConstantsOK
<1>4. ASSUME NEW i \in Irqs, Dispatch(i)
      PROVE  Inv'
  BY <1>4, OtherStep DEF Dispatch, tableVars, Booting, IrqConstantsOK
<1>5. CASE UNCHANGED irqVars
  BY <1>5, OtherStep DEF irqVars, regVars, tableVars, Booting
<1> QED  BY <1>1, <1>2, <1>3, <1>4, <1>5, AttachStep, AttachDirectlyStep, AttachHandlerStep,
            AttachArgStep, AttachTableStep, DetachStep, DetachClearStep, EnableStep DEF IrqNext

\* The step at which the processor takes an interrupt.
LEMMA TakesOwn ==
    ASSUME IrqConstantsOK, Inv, [IrqNext]_irqVars, cpu = Nobody, cpu' # Nobody
    PROVE  ran' = given[cpu'] /\ ran' # NoCall
<1>1. PICK i \in Irqs : Dispatch(i)
  BY DEF IrqNext, Initialize, Save, Restore, Attach, AttachDirectly, AttachHandler, AttachArg,
         AttachTable, Detach, DetachHandler, DetachArg, DetachTable, Enable, Disable,
         SetPending, ClearPending, EdgeRises, LevelRises, LevelFalls, Return, irqVars
<1>2. holder # "boot" /\ i \in ie /\ cpu' = i /\ ran' = Called(i)
  BY <1>1 DEF Dispatch, Takes, IrqConstantsOK
<1>3. Ready(i)
  BY <1>2 DEF Inv, Good
<1> QED  BY <1>2, <1>3 DEF Ready

\* An interrupt runs the handler and the argument that its owner attached,
\* however attaching and detaching interleave with it.
THEOREM OwnHandlerRuns == ASSUME IrqConstantsOK PROVE IrqSpec => OwnHandler
<1>1. Inv /\ [IrqNext]_irqVars => (cpu = Nobody /\ cpu' # Nobody => ran' = given[cpu'] /\ ran' # NoCall)
  BY TakesOwn
<1>2. Inv /\ [IrqNext]_irqVars => Inv'
  BY InvNext
<1> QED  BY <1>1, <1>2, InvInit, PTL DEF IrqSpec, OwnHandler
-----------------------------------------------------------------------------
(* The oneshot                                                             *)

OneshotTypes ==
    /\ running \in BOOLEAN /\ counting = running /\ status \in BOOLEAN
    /\ mtime \in Nat /\ count \in Nat /\ compare \in Nat /\ count < compare
    /\ due \in Int \X Int

OneshotInv == OneshotTypes /\ FiresOnTime

\* A number, and another of the same half, lie in the same block of Half numbers.
LEMMA HalfOf ==
    ASSUME OneshotConstantsOK, NEW a \in Nat
    PROVE  /\ a = ((a \div Half) * Half) + (a % Half)
           /\ a \div Half \in Nat /\ a % Half \in 0 .. Half - 1
  BY DEF OneshotConstantsOK

LEMMA HalvesAreOrdered ==
    ASSUME OneshotConstantsOK, NEW a \in Nat, NEW b \in Nat, a <= b
    PROVE  a \div Half <= b \div Half
<1> DEFINE x == a \div Half
           y == b \div Half
<1>1. /\ x \in Nat /\ y \in Nat /\ Half \in Nat \ {0}
      /\ a >= x * Half /\ b < (y * Half) + Half
  BY HalfOf DEF OneshotConstantsOK
<1>2. ASSUME y + 1 <= x PROVE FALSE
  <2>1. (y + 1) * Half <= x * Half
    <3> HIDE DEF x, y
    <3>1. PICK d \in Nat : x = y + 1 + d
      BY <1>1, <1>2
    <3>2. x * Half = ((y + 1) * Half) + (d * Half) /\ d * Half \in Nat
      BY <1>1, <3>1
    <3> QED  BY <1>1, <3>2
  <2>2. (y + 1) * Half = (y * Half) + Half
    <3> HIDE DEF x, y
    <3> QED  BY <1>1
  <2> HIDE DEF x, y
  <2>3. (y + 1) * Half \in Nat /\ x * Half \in Nat /\ y * Half \in Nat
    BY <1>1
  <2> QED  BY <1>1, <2>1, <2>2, <2>3
<1> HIDE DEF x, y
<1>3. x <= y
  BY <1>1, <1>2
<1> QED  BY <1>3 DEF x, y

\* Two equal high halves around the low half: the time that is read was the time
\* at some moment of the call.
LEMMA ReadIsBetween ==
    ASSUME OneshotConstantsOK, mtime \in Nat, mtime' \in Nat, NEW current \in ReadMtime
    PROVE  current \in mtime .. mtime'
<1>1. PICK a \in mtime .. mtime', b \in mtime .. mtime', c \in mtime .. mtime' :
        /\ a <= b /\ b <= c /\ a \div Half = c \div Half
        /\ current = ((a \div Half) * Half) + (b % Half)
  BY DEF ReadMtime
<1>2. a \in Nat /\ b \in Nat /\ c \in Nat
  BY <1>1
<1>3. a \div Half <= b \div Half /\ b \div Half <= c \div Half
  BY <1>1, <1>2, HalvesAreOrdered
<1>4. b \div Half = a \div Half
  BY <1>1, <1>2, <1>3, HalfOf
<1>5. current = b
  BY <1>1, <1>2, <1>4, HalfOf
<1> QED  BY <1>1, <1>5

\* The two limits that a start promises.
First(now, want) == IF want > now + MaxDelay THEN now + MaxDelay ELSE want
Last(end, want) == (IF want < end + MinDelay THEN end + MinDelay ELSE want) + Lag

\* The arithmetic of a start: what is asked for is counted from current.
LEMMA InLimits ==
    ASSUME OneshotConstantsOK, NEW now \in Nat, NEW end \in Nat, NEW current \in Nat,
           NEW want \in Int, NEW delay \in Int,
           now <= current, current <= end, end <= now + Lag,
           delay = want - current \/ (want <= current /\ delay = MinDelay)
    PROVE  /\ First(now, want) \in Int /\ Last(end, want) \in Int
           /\ Clamp(delay) \in Nat /\ Clamp(delay) > 0
           /\ First(now, want) <= end + Clamp(delay) /\ end + Clamp(delay) <= Last(end, want)
<1>1. MinDelay \in Nat /\ MinDelay > 0 /\ MaxDelay \in Nat /\ MinDelay < MaxDelay /\ Lag \in Nat
  BY DEF OneshotConstantsOK
<1> DEFINE ticks == Clamp(delay)
           from == First(now, want)
           to == Last(end, want)
<1>2. /\ ticks \in Nat /\ ticks > 0 /\ ticks <= MaxDelay
      /\ delay <= MaxDelay => ticks >= delay
      /\ delay > MaxDelay => ticks = MaxDelay
      /\ ticks <= delay \/ ticks = MinDelay
  BY <1>1 DEF Clamp
<1>3. from \in Int /\ from <= want /\ from <= now + MaxDelay
  BY <1>1 DEF First
<1>4. to \in Int /\ to >= want + Lag /\ to >= end + MinDelay + Lag
  BY <1>1 DEF Last
<1> HIDE DEF ticks, from, to
<1>5. from <= end + ticks /\ end + ticks <= to
  BY <1>1, <1>2, <1>3, <1>4
<1> QED  BY <1>2, <1>3, <1>4, <1>5 DEF ticks, from, to

\* The delay a start writes to the timer ends between the two limits of what
\* was promised.
LEMMA StartHolds ==
    ASSUME OneshotConstantsOK, OneshotInv, Later, NEW delay \in Int, StartLocked(delay),
           NEW want \in Int, Promise(want),
           NEW current \in Nat, mtime <= current, current <= mtime',
           delay = want - current \/ (want <= current /\ delay = MinDelay)
    PROVE  OneshotInv'
<1>1. mtime \in Nat /\ mtime' \in Nat /\ mtime' <= mtime + Lag
  BY DEF OneshotInv, OneshotTypes, Later, OneshotConstantsOK
<1>2. /\ count' = 0 /\ compare' = Clamp(delay) /\ status' = FALSE
      /\ counting' = TRUE /\ running' = TRUE
  BY DEF StartLocked
<1> DEFINE from == First(mtime, want)
           to == Last(mtime', want)
<1>3. due' = <<from, to>>
  BY DEF Promise, First, Last
<1>4. /\ from \in Int /\ to \in Int /\ compare' \in Nat /\ compare' > 0
      /\ from <= mtime' + compare' /\ mtime' + compare' <= to
  BY <1>1, <1>2, InLimits
<1> HIDE DEF from, to
<1>5. OneshotTypes'
  BY <1>1, <1>2, <1>3, <1>4 DEF OneshotTypes
<1>6. FiresOnTime'
  BY <1>1, <1>2, <1>3, <1>4 DEF FiresOnTime
<1> QED  BY <1>5, <1>6 DEF OneshotInv

LEMMA StopHolds ==
    ASSUME OneshotConstantsOK, OneshotInv, StopLocked, due' = NotDue, UNCHANGED <<count, compare>>,
           mtime' \in Nat
    PROVE  OneshotInv'
<1>1. counting' = FALSE /\ running' = FALSE /\ status' = FALSE
  BY DEF StopLocked
<1>2. due' \in Int \X Int
  BY DEF NotDue
<1> QED  BY <1>1, <1>2 DEF OneshotInv, OneshotTypes, FiresOnTime

LEMMA TickHolds == ASSUME OneshotConstantsOK, OneshotInv, Tick PROVE OneshotInv'
<1> USE DEF OneshotInv, OneshotTypes
<1>0. mtime' = mtime + 1 /\ UNCHANGED <<running, counting, compare, due>>
  BY DEF Tick
<1>1. due[1] \in Int /\ due[2] \in Int
  OBVIOUS
<1>2. CASE ~counting
  BY <1>0, <1>1, <1>2 DEF Tick, FiresOnTime
<1>3. CASE counting /\ count + 1 = compare
  <2>1. count' = 0 /\ status' = TRUE
    BY <1>3 DEF Tick
  <2>2. mtime + 1 >= due[1]
    BY <1>1, <1>3 DEF FiresOnTime
  <2> QED  BY <1>0, <1>1, <1>3, <2>1, <2>2 DEF FiresOnTime
<1>4. CASE counting /\ count + 1 # compare
  <2>1. count' = count + 1 /\ status' = status
    BY <1>4 DEF Tick
  <2> QED  BY <1>0, <1>1, <1>4, <2>1 DEF FiresOnTime
<1> QED  BY <1>2, <1>3, <1>4

LEMMA OneshotNextHolds ==
    ASSUME OneshotConstantsOK, OneshotInv, [OneshotNext]_oneshotVars PROVE OneshotInv'
<1>0. mtime \in Nat /\ MinDelay \in Nat
  BY DEF OneshotInv, OneshotTypes, OneshotConstantsOK
<1>1. ASSUME NEW delay \in 0 .. MaxDelay + 1, Start(delay) PROVE OneshotInv'
  <2> DEFINE want == mtime + delay
  <2>1. want \in Int /\ delay \in Int /\ delay = want - mtime
    BY <1>0 DEF OneshotConstantsOK
  <2>2. Later /\ StartLocked(delay) /\ Promise(want)
    BY <1>1 DEF Start
  <2>3. mtime' \in Nat /\ mtime <= mtime'
    BY <1>0, <2>2 DEF Later, OneshotConstantsOK
  <2> HIDE DEF want
  <2> QED  BY <1>0, <2>1, <2>2, <2>3, StartHolds
<1>2. ASSUME NEW expected \in 0 .. Horizon + MaxDelay, StartAbsolute(expected) PROVE OneshotInv'
  <2>1. mtime' \in Nat /\ Later
    BY <1>0, <1>2 DEF StartAbsolute, Later, OneshotConstantsOK
  <2>2. PICK current \in ReadMtime :
          StartLocked(IF expected > current THEN expected - current ELSE MinDelay)
    BY <1>2 DEF StartAbsolute
  <2>3. current \in Nat /\ mtime <= current /\ current <= mtime'
    <3>1. current \in mtime .. mtime'
      BY <1>0, <2>1, ReadIsBetween
    <3> QED  BY <1>0, <2>1, <3>1
  <2>4. expected \in Int
    BY DEF OneshotConstantsOK
  <2> DEFINE delay == IF expected > current THEN expected - current ELSE MinDelay
  <2>5. StartLocked(delay) /\ Promise(expected)
    BY <1>2, <2>2 DEF StartAbsolute
  <2>6. /\ delay \in Int
        /\ expected > current => delay = expected - current
        /\ ~(expected > current) => delay = MinDelay
    BY <1>0, <2>3, <2>4
  <2> HIDE DEF delay
  <2>7. delay = expected - current \/ (expected <= current /\ delay = MinDelay)
    BY <2>3, <2>6, <2>4
  <2> QED  BY <1>0, <2>1, <2>3, <2>6, <2>5, <2>7, <2>4, StartHolds
<1>3. CASE Cancel
  BY <1>0, <1>3, StopHolds DEF Cancel, Later, OneshotConstantsOK
<1>4. CASE Handler
  BY <1>0, <1>4, StopHolds DEF Handler
<1>5. CASE Tick
  BY <1>5, TickHolds
<1>6. CASE UNCHANGED oneshotVars
  BY <1>6 DEF oneshotVars, OneshotInv, OneshotTypes, FiresOnTime
<1> QED  BY <1>1, <1>2, <1>3, <1>4, <1>5, <1>6 DEF OneshotNext

\* A oneshot that was started calls back when its time has come, neither before
\* nor noticeably later: for any delays and absolute times, also past or out of
\* reach ones, any lag of the calls and any width of the halves of mtime, while
\* the low half wraps between the reads of the high one.
THEOREM OneshotFiresOnTime == ASSUME OneshotConstantsOK PROVE OneshotSpec => []FiresOnTime
<1>1. OneshotInit => OneshotInv
  <2> SUFFICES ASSUME OneshotInit PROVE OneshotInv
    OBVIOUS
  <2>0. MinDelay \in Nat /\ MinDelay > 0
    BY DEF OneshotConstantsOK
  <2>1. running \in BOOLEAN /\ counting = running /\ status \in BOOLEAN
    BY ZenonT(20) DEF OneshotInit
  <2>2. mtime \in Nat /\ count \in Nat /\ compare \in Nat /\ count < compare /\ due \in Int \X Int
    BY <2>0 DEF OneshotInit, NotDue
  <2> QED  BY <2>1, <2>2 DEF OneshotInit, OneshotInv, OneshotTypes, FiresOnTime, NotDue
<1>2. OneshotInv /\ [OneshotNext]_oneshotVars => OneshotInv'
  BY OneshotNextHolds
<1>3. OneshotInv => FiresOnTime
  BY DEF OneshotInv
<1> QED  BY <1>1, <1>2, <1>3, PTL DEF OneshotSpec
-----------------------------------------------------------------------------
(* The clock of the RTC                                                    *)

\* The quotient and the remainder are the only ones there are.
LEMMA Quotient ==
    ASSUME NEW n \in Int, NEW m \in Nat \ {0}, NEW q \in Int, n >= q * m, n < (q * m) + m
    PROVE  n \div m = q /\ n % m = n - (q * m)
<1> DEFINE k == n \div m
<1>1. k \in Int /\ n >= k * m /\ n < (k * m) + m /\ n % m = n - (k * m)
  OBVIOUS
<1> HIDE DEF k
<1>2. ASSUME k >= q + 1 PROVE FALSE
  <2>1. PICK d \in Nat : k = q + 1 + d
    BY <1>1, <1>2
  <2>2. k * m = (q * m) + m + (d * m) /\ d * m >= 0 /\ q * m \in Int /\ d * m \in Int
    BY <2>1
  <2> QED  BY <1>1, <2>2
<1>3. ASSUME q >= k + 1 PROVE FALSE
  <2>1. PICK d \in Nat : q = k + 1 + d
    BY <1>1, <1>3
  <2>2. q * m = (k * m) + m + (d * m) /\ d * m >= 0 /\ k * m \in Int /\ d * m \in Int
    BY <1>1, <2>1
  <2> QED  BY <1>1, <2>2
<1>4. k = q
  BY <1>1, <1>2, <1>3
<1> QED  BY <1>1, <1>4 DEF k

\* A product grows with its factors.
LEMMA Grows ==
    ASSUME NEW m \in Nat, NEW a \in Int, NEW b \in Int, a <= b
    PROVE  a * m <= b * m /\ a * m \in Int /\ b * m \in Int
<1>1. PICK d \in Nat : b = a + d
  OBVIOUS
<1>2. b * m = (a * m) + (d * m) /\ d * m >= 0 /\ d * m \in Int /\ a * m \in Int
  BY <1>1
<1> QED  BY <1>2

\* A quotient grows with its dividend.
LEMMA QuotientGrows ==
    ASSUME NEW m \in Nat \ {0}, NEW a \in Int, NEW b \in Int, a <= b
    PROVE  a \div m <= b \div m
<1> DEFINE x == a \div m
           y == b \div m
<1>1. /\ x \in Int /\ a >= x * m /\ a < (x * m) + m
      /\ y \in Int /\ b >= y * m /\ b < (y * m) + m
  OBVIOUS
<1> HIDE DEF x, y
<1>2. ASSUME x >= y + 1 PROVE FALSE
  <2>1. (y + 1) * m <= x * m /\ (y + 1) * m = (y * m) + m /\ x * m \in Int /\ y * m \in Int
    BY <1>1, <1>2, Grows
  <2> QED  BY <1>1, <2>1
<1>3. x <= y
  BY <1>1, <1>2
<1> QED  BY <1>3 DEF x, y

\* ... and adding whole divisors adds to it.
LEMMA QuotientAdds ==
    ASSUME NEW m \in Nat \ {0}, NEW a \in Int, NEW d \in Int
    PROVE  (a + (d * m)) \div m = (a \div m) + d
<1> DEFINE x == a \div m
           n == a + (d * m)
           q == x + d
<1>1. x \in Int /\ a >= x * m /\ a < (x * m) + m
  OBVIOUS
<1> HIDE DEF x
<1>2. q * m = (x * m) + (d * m) /\ d * m \in Int /\ x * m \in Int
  BY <1>1
<1>3. n \in Int /\ q \in Int /\ n >= q * m /\ n < (q * m) + m
  BY <1>1, <1>2
<1> HIDE DEF n, q
<1>4. n \div m = q
  BY <1>3, Quotient
<1> QED  BY <1>4 DEF n, q, x
\* The nanoseconds that have passed after n ticks.
Passed(n) == (n * (Den * Nsec)) \div Num

Pairs == Nat \X (0 .. Nsec - 1)

LEMMA TicksAreNanoseconds ==
    ASSUME RtcConstantsOK, NEW n \in Nat
    PROVE  /\ TicksToSeconds(n) \in Pairs
           /\ Total(TicksToSeconds(n)) = Passed(n) /\ Passed(n) \in Nat
<1>0. Num \in Nat \ {0} /\ Den \in Nat \ {0} /\ Nsec \in Nat \ {0}
  BY DEF RtcConstantsOK
<1> DEFINE a == n * Den
           q == a \div Num
           r == a % Num
           b == r * Nsec
           s == b \div Num
<1>1. a \in Nat
  BY <1>0
<1> HIDE DEF a
<1>2. q \in Nat /\ r \in Nat /\ r < Num /\ a = (q * Num) + r
  BY <1>0, <1>1
<1> HIDE DEF q, r
<1>3. b \in Nat
  BY <1>0, <1>2
<1>4. b < Nsec * Num
  <2>1. (r + 1) * Nsec <= Num * Nsec
    BY <1>0, <1>2, Grows
  <2>2. (r + 1) * Nsec = b + Nsec
    BY <1>0, <1>2
  <2> HIDE DEF b
  <2>3. Num * Nsec \in Int /\ Num * Nsec = Nsec * Num
    BY <1>0
  <2> QED  BY <1>0, <1>3, <2>1, <2>2, <2>3
<1> HIDE DEF b
<1>5. s \in Nat /\ b >= s * Num /\ b < (s * Num) + Num
  BY <1>0, <1>3
<1> HIDE DEF s
<1>6. s < Nsec
  <2> SUFFICES ASSUME Nsec <= s PROVE FALSE
    BY <1>0, <1>5
  <2>1. Nsec * Num <= s * Num /\ Nsec * Num \in Int /\ s * Num \in Int
    BY <1>0, <1>5, Grows
  <2> QED  BY <1>3, <1>4, <1>5, <2>1
<1> DEFINE whole == n * (Den * Nsec)
           t == (q * Nsec) + s
<1>7. whole = ((q * Nsec) * Num) + b /\ whole \in Nat
  <2>1. whole = a * Nsec
    BY <1>0 DEF a
  <2>2. a * Nsec = ((q * Num) * Nsec) + (r * Nsec)
    BY <1>0, <1>2
  <2>3. (q * Num) * Nsec = (q * Nsec) * Num
    BY <1>0, <1>2
  <2>4. whole \in Nat
    BY <1>0
  <2> HIDE DEF whole
  <2> QED  BY <2>1, <2>2, <2>3, <2>4 DEF b
<1>8. /\ t \in Nat /\ t * Num = ((q * Nsec) * Num) + (s * Num)
      /\ (q * Nsec) * Num \in Int /\ s * Num \in Int
  BY <1>0, <1>2, <1>5
<1> HIDE DEF whole, t
<1>9. whole >= t * Num /\ whole < (t * Num) + Num
  BY <1>0, <1>3, <1>5, <1>7, <1>8
<1>10. whole \div Num = t
  BY <1>0, <1>7, <1>8, <1>9, Quotient
<1>11. Passed(n) = t
  BY <1>10 DEF Passed, whole
<1>12. TicksToSeconds(n) = <<q, s>>
  BY DEF TicksToSeconds, a, q, r, b, s
<1>13. Total(TicksToSeconds(n)) = t
  BY <1>12 DEF Total, t
<1> QED  BY <1>0, <1>2, <1>5, <1>6, <1>8, <1>11, <1>12, <1>13 DEF Pairs

\* A carry keeps the time.
LEMMA CarryKeeps ==
    ASSUME RtcConstantsOK, NEW sec \in Nat, NEW nanos \in Nat
    PROVE  /\ Carried(sec, nanos) \in Pairs
           /\ Total(Carried(sec, nanos)) = (sec * Nsec) + nanos
<1>0. Nsec \in Nat \ {0}
  BY DEF RtcConstantsOK
<1> DEFINE q == nanos \div Nsec
           r == nanos % Nsec
<1>1. q \in Nat /\ r \in 0 .. Nsec - 1 /\ nanos = (q * Nsec) + r
  BY <1>0
<1>2. Carried(sec, nanos) = <<sec + q, r>>
  BY DEF Carried
<1> HIDE DEF q, r
<1>3. Total(Carried(sec, nanos)) = ((sec + q) * Nsec) + r
  BY <1>2 DEF Total
<1>4. (sec + q) * Nsec = (sec * Nsec) + (q * Nsec)
  BY <1>0, <1>1
<1>5. sec * Nsec \in Int /\ q * Nsec \in Int /\ r \in Int
  BY <1>0, <1>1
<1> QED  BY <1>1, <1>2, <1>3, <1>4, <1>5 DEF Pairs

LEMMA PairOf ==
    ASSUME RtcConstantsOK, NEW t \in Pairs
    PROVE  t = <<t[1], t[2]>> /\ t[1] \in Nat /\ t[2] \in Nat /\ t[2] < Nsec /\ Total(t) \in Nat
<1>0. Nsec \in Nat \ {0}
  BY DEF RtcConstantsOK
<1>1. t = <<t[1], t[2]>> /\ t[1] \in Nat /\ t[2] \in Nat /\ t[2] < Nsec
  BY <1>0 DEF Pairs
<1>2. Total(t) \in Nat
  BY <1>0, <1>1 DEF Total
<1> QED  BY <1>1, <1>2

\* The order of two times is the order of their totals.
LEMMA OrderOf ==
    ASSUME RtcConstantsOK, NEW s \in Pairs, NEW t \in Pairs
    PROVE  Before(s, t) <=> Total(s) < Total(t)
<1>0. Nsec \in Nat \ {0}
  BY DEF RtcConstantsOK
<1> DEFINE a == s[1]
           b == s[2]
           c == t[1]
           d == t[2]
<1>1. /\ a \in Nat /\ b \in Nat /\ b < Nsec /\ c \in Nat /\ d \in Nat /\ d < Nsec
      /\ Total(s) = (a * Nsec) + b /\ Total(t) = (c * Nsec) + d
      /\ Before(s, t) <=> (a < c \/ (a = c /\ b < d))
  BY PairOf DEF Total, Before
<1> HIDE DEF a, b, c, d
<1>2. a * Nsec \in Int /\ c * Nsec \in Int
  BY <1>0, <1>1
<1>3. CASE a < c
  <2>1. (a + 1) * Nsec <= c * Nsec /\ (a + 1) * Nsec = (a * Nsec) + Nsec
    BY <1>0, <1>1, <1>3, Grows
  <2> QED  BY <1>0, <1>1, <1>2, <1>3, <2>1
<1>4. CASE c < a
  <2>1. (c + 1) * Nsec <= a * Nsec /\ (c + 1) * Nsec = (c * Nsec) + Nsec
    BY <1>0, <1>1, <1>4, Grows
  <2> QED  BY <1>0, <1>1, <1>2, <1>4, <2>1
<1>5. CASE a = c
  BY <1>0, <1>1, <1>2, <1>5
<1> QED  BY <1>1, <1>3, <1>4, <1>5

LEMMA TimeIs ==
    ASSUME RtcConstantsOK, base \in Pairs, NEW n \in Nat
    PROVE  /\ TimeAt(n) \in Pairs /\ Total(TimeAt(n)) = Total(base) + Passed(n)
           /\ Passed(n) \in Nat /\ Total(base) \in Nat
<1>0. Nsec \in Nat \ {0}
  BY DEF RtcConstantsOK
<1> DEFINE e == TicksToSeconds(n)
           sec == base[1] + e[1]
           ns == base[2] + e[2]
<1>1. e \in Pairs /\ Total(e) = Passed(n) /\ Passed(n) \in Nat
  BY TicksAreNanoseconds
<1> HIDE DEF e
<1>2. /\ base[1] \in Nat /\ base[2] \in Nat /\ e[1] \in Nat /\ e[2] \in Nat
      /\ Total(base) \in Nat
  BY <1>1, PairOf
<1>3. TimeAt(n) = Carried(sec, ns)
  BY DEF TimeAt, e
<1>4. sec \in Nat /\ ns \in Nat /\ sec * Nsec = (base[1] * Nsec) + (e[1] * Nsec)
  BY <1>0, <1>2
<1>5. /\ Total(base) = (base[1] * Nsec) + base[2] /\ Total(e) = (e[1] * Nsec) + e[2]
      /\ base[1] * Nsec \in Int /\ e[1] * Nsec \in Int
  BY <1>0, <1>2 DEF Total
<1>6. (sec * Nsec) + ns = Total(base) + Total(e)
  BY <1>2, <1>4, <1>5
<1> HIDE DEF sec, ns
<1> QED  BY <1>1, <1>2, <1>3, <1>4, <1>6, CarryKeeps

\* The clock does not go back.
LEMMA PassedGrows ==
    ASSUME RtcConstantsOK, NEW a \in Nat, NEW b \in Nat, a <= b
    PROVE  Passed(a) <= Passed(b) /\ Passed(a) \in Nat /\ Passed(b) \in Nat
<1>0. Num \in Nat \ {0} /\ Den * Nsec \in Nat
  BY DEF RtcConstantsOK
<1>1. a * (Den * Nsec) <= b * (Den * Nsec) /\ a * (Den * Nsec) \in Int /\ b * (Den * Nsec) \in Int
  BY <1>0, Grows
<1>2. Passed(a) <= Passed(b)
  BY <1>0, <1>1, QuotientGrows DEF Passed
<1> QED  BY <1>2, TicksAreNanoseconds

\* The ticks of a duration are the least that last as long.
LEMMA DurationIs ==
    ASSUME RtcConstantsOK, NEW sec \in Nat, NEW ns \in Nat
    PROVE  LET ticks == DurationToTicks(sec, ns)
               long  == (sec * Nsec) + ns
               unit  == Den * Nsec
           IN  /\ ticks \in Nat /\ long * Num <= ticks * unit
               /\ (ticks - 1) * unit < long * Num
<1>0. Num \in Nat \ {0} /\ Den \in Nat \ {0} /\ Nsec \in Nat \ {0}
  BY DEF RtcConstantsOK
<1> DEFINE quotient  == Num \div Den
           remainder == Num % Den
           dens == sec \div Den
           over == sec % Den
           fraction  == ((over * remainder) * Nsec) + (ns * Num)
           unit == Den * Nsec
           up == (fraction + unit - 1) \div unit
           full == (sec * quotient) + (dens * remainder)
           long == (sec * Nsec) + ns
<1>1. /\ quotient \in Nat /\ remainder \in Nat /\ Num = (quotient * Den) + remainder
      /\ dens \in Nat /\ over \in Nat /\ sec = (dens * Den) + over
      /\ unit \in Nat \ {0}
  BY <1>0
<1>2. DurationToTicks(sec, ns) = full + up
  BY DEF DurationToTicks
<1> HIDE DEF quotient, remainder, dens, over
<1>3. fraction \in Nat /\ full \in Nat /\ long \in Nat
  BY <1>0, <1>1
<1>4. long * Num = (full * unit) + fraction
  <2>1. long * Num = ((sec * Num) * Nsec) + (ns * Num)
    BY <1>0
  <2>2. sec * Num = (full * Den) + (over * remainder)
    <3>1. sec * Num = ((sec * quotient) * Den) + (sec * remainder)
      BY <1>0, <1>1
    <3>2. sec * remainder = ((dens * remainder) * Den) + (over * remainder)
      BY <1>0, <1>1
    <3>3. full * Den = ((sec * quotient) * Den) + ((dens * remainder) * Den)
      BY <1>0, <1>1
    <3>4. /\ (sec * quotient) * Den \in Int /\ (dens * remainder) * Den \in Int
          /\ over * remainder \in Int
      BY <1>0, <1>1
    <3> HIDE DEF full
    <3> QED  BY <3>1, <3>2, <3>3, <3>4
  <2> HIDE DEF full
  <2>3. (sec * Num) * Nsec = (full * unit) + ((over * remainder) * Nsec)
    <3>1. full * Den \in Int /\ over * remainder \in Int
      BY <1>0, <1>1, <1>3
    <3>2. (sec * Num) * Nsec = ((full * Den) * Nsec) + ((over * remainder) * Nsec)
      <4> DEFINE p == sec * Num
                 f == full * Den
                 o == over * remainder
      <4>1. p = f + o /\ f \in Int /\ o \in Int
        BY <2>2, <3>1
      <4> HIDE DEF p, f, o
      <4>2. p * Nsec = (f * Nsec) + (o * Nsec)
        BY <1>0, <4>1
      <4> QED  BY <4>2 DEF p, f, o
    <3>3. (full * Den) * Nsec = full * unit
      BY <1>0, <1>3
    <3> QED  BY <3>2, <3>3
  <2>4. /\ (full * unit) \in Int /\ (over * remainder) * Nsec \in Int /\ ns * Num \in Int
    BY <1>0, <1>1, <1>3
  <2> HIDE DEF long, unit
  <2> QED  BY <2>1, <2>3, <2>4
<1> HIDE DEF fraction, full, long, unit
<1>5. up \in Nat /\ fraction <= up * unit /\ (up - 1) * unit < fraction
  <2>1. fraction + unit - 1 \in Nat
    BY <1>1, <1>3
  <2>2. /\ up \in Nat /\ fraction + unit - 1 >= up * unit
        /\ fraction + unit - 1 < (up * unit) + unit /\ up * unit \in Int
    BY <1>1, <2>1
  <2> HIDE DEF up
  <2>3. (up - 1) * unit = (up * unit) - unit
    BY <1>1, <2>2
  <2> QED  BY <1>1, <1>3, <2>2, <2>3
<1> HIDE DEF up
<1> DEFINE ticks == full + up
<1>6. /\ ticks * unit = (full * unit) + (up * unit)
      /\ (ticks - 1) * unit = (full * unit) + ((up - 1) * unit)
      /\ full * unit \in Int /\ up * unit \in Int /\ (up - 1) * unit \in Int
  BY <1>1, <1>3, <1>5
<1>7. ticks \in Nat /\ DurationToTicks(sec, ns) = ticks
  BY <1>2, <1>3, <1>5
<1> HIDE DEF ticks
<1>8. long * Num <= ticks * unit /\ (ticks - 1) * unit < long * Num
  BY <1>3, <1>4, <1>5, <1>6
<1> QED  BY <1>7, <1>8 DEF long, unit

\* ... also from one time to a later one, borrowing a second or not.
LEMMA DeltaIs ==
    ASSUME RtcConstantsOK, NEW from \in Pairs, NEW to \in Pairs, Before(from, to)
    PROVE  LET ticks == Delta(from, to)
               long  == Total(to) - Total(from)
               unit  == Den * Nsec
           IN  /\ ticks \in Nat /\ long \in Nat \ {0} /\ long * Num <= ticks * unit
               /\ (ticks - 1) * unit < long * Num
<1>0. Nsec \in Nat \ {0}
  BY DEF RtcConstantsOK
<1> DEFINE a == from[1]
           b == from[2]
           c == to[1]
           d == to[2]
           long == Total(to) - Total(from)
<1>1. /\ a \in Nat /\ b \in Nat /\ b < Nsec /\ c \in Nat /\ d \in Nat /\ d < Nsec
      /\ Total(from) = (a * Nsec) + b /\ Total(to) = (c * Nsec) + d
      /\ a < c \/ (a = c /\ b < d)
      /\ a * Nsec \in Int /\ c * Nsec \in Int
  BY <1>0, PairOf DEF Total, Before
<1>2. long \in Nat \ {0}
  BY OrderOf, PairOf
<1>3. Delta(from, to) = IF d < b THEN DurationToTicks(c - a - 1, Nsec - b + d)
                                 ELSE DurationToTicks(c - a, d - b)
  BY DEF Delta
<1>4. CASE d < b
  <2> DEFINE sec == c - a - 1
             ns == Nsec - b + d
  <2>1. sec \in Nat /\ ns \in Nat /\ Delta(from, to) = DurationToTicks(sec, ns)
    BY <1>0, <1>1, <1>3, <1>4
  <2>2. sec * Nsec = (c * Nsec) - (a * Nsec) - Nsec
    BY <1>0, <1>1
  <2>3. long = (sec * Nsec) + ns
    <3> HIDE DEF a, b, c, d
    <3> QED  BY <1>0, <1>1, <2>2
  <2> HIDE DEF sec, ns, long
  <2> QED  BY <1>2, <2>1, <2>3, DurationIs DEF long
<1>5. CASE ~(d < b)
  <2> DEFINE sec == c - a
             ns == d - b
  <2>1. sec \in Nat /\ ns \in Nat /\ Delta(from, to) = DurationToTicks(sec, ns)
    BY <1>0, <1>1, <1>3, <1>5
  <2>2. sec * Nsec = (c * Nsec) - (a * Nsec)
    BY <1>0, <1>1
  <2>3. long = (sec * Nsec) + ns
    <3> HIDE DEF a, b, c, d
    <3> QED  BY <1>0, <1>1, <2>2
  <2> HIDE DEF sec, ns, long
  <2> QED  BY <1>2, <2>1, <2>3, DurationIs DEF long
<1> QED  BY <1>4, <1>5

\* An alarm set for a time is due when its ticks have passed, not one earlier.
LEMMA DeltaReaches ==
    ASSUME RtcConstantsOK, NEW from \in Pairs, NEW to \in Pairs, Before(from, to), NEW n \in Nat
    PROVE  LET ticks == Delta(from, to)
               long  == Total(to) - Total(from)
           IN  /\ ticks \in Nat \ {0}
               /\ Passed(n + ticks) >= Passed(n) + long
               /\ Passed(n + ticks - 1) <= Passed(n) + long
<1>0. Num \in Nat \ {0} /\ Den \in Nat \ {0} /\ Nsec \in Nat \ {0}
  BY DEF RtcConstantsOK
<1> DEFINE ticks == Delta(from, to)
           long  == Total(to) - Total(from)
           unit  == Den * Nsec
<1>1. /\ ticks \in Nat /\ long \in Nat \ {0} /\ long * Num <= ticks * unit
      /\ (ticks - 1) * unit < long * Num
  BY DeltaIs
<1>2. unit \in Nat \ {0}
  BY <1>0
<1>p. \A k \in Nat : Passed(k) = (k * unit) \div Num /\ Passed(k) \in Nat
  BY TicksAreNanoseconds DEF Passed
<1> HIDE DEF ticks, long, unit
<1>3. long * Num > 0 /\ long * Num \in Int /\ ticks * unit \in Int
  <2>1. Num <= long * Num
    <3>1. 1 * Num <= long * Num
      BY <1>0, <1>1, Grows
    <3> QED  BY <1>0, <3>1
  <2> QED  BY <1>0, <1>1, <1>2, <2>1
<1>4. ticks # 0
  BY <1>1, <1>2, <1>3
<1>5. /\ (n + ticks) * unit = (n * unit) + (ticks * unit)
      /\ (n + ticks - 1) * unit = (n * unit) + ((ticks - 1) * unit)
      /\ n * unit \in Int /\ (ticks - 1) * unit \in Int
  BY <1>1, <1>2
<1> DEFINE to0 == (n * unit) + (long * Num)
<1>6. to0 \in Int /\ to0 \div Num = ((n * unit) \div Num) + long
  BY <1>0, <1>1, <1>3, <1>5, QuotientAdds
<1>7. (n + ticks) * unit >= to0 /\ (n + ticks - 1) * unit <= to0
  BY <1>1, <1>3, <1>5
<1>8. (n + ticks) * unit \in Int /\ (n + ticks - 1) * unit \in Int
  BY <1>1, <1>3, <1>5
<1> HIDE DEF to0
<1>9. /\ to0 \div Num <= ((n + ticks) * unit) \div Num
      /\ ((n + ticks - 1) * unit) \div Num <= to0 \div Num
  BY <1>0, <1>6, <1>7, <1>8, QuotientGrows
<1>10. n + ticks \in Nat /\ n + ticks - 1 \in Nat
  BY <1>1, <1>4
<1>11. /\ Passed(n + ticks) = ((n + ticks) * unit) \div Num
       /\ Passed(n + ticks - 1) = ((n + ticks - 1) * unit) \div Num
       /\ Passed(n) = (n * unit) \div Num
  BY <1>10, <1>p
<1>12. Passed(n) \in Nat /\ Passed(n + ticks) \in Nat /\ Passed(n + ticks - 1) \in Nat
  BY <1>10, <1>p
<1> QED  BY <1>1, <1>4, <1>6, <1>9, <1>11, <1>12 DEF ticks, long
-----------------------------------------------------------------------------
(* The counter of the RTC and its compare register                         *)

\* k ticks after the counter was c.
Place(c, k) == (c + k) % Modulus

LEMMA SameRemainder ==
    ASSUME NEW m \in Nat \ {0}, NEW x \in Int, NEW y \in Int, NEW d \in Int, x = y + (d * m)
    PROVE  x % m = y % m /\ x % m \in 0 .. m - 1
<1> DEFINE k == y \div m
<1>1. k \in Int /\ y >= k * m /\ y < (k * m) + m /\ y % m = y - (k * m) /\ y % m \in 0 .. m - 1
  OBVIOUS
<1> HIDE DEF k
<1> DEFINE q == k + d
<1>2. q \in Int /\ q * m = (k * m) + (d * m) /\ k * m \in Int /\ d * m \in Int
  BY <1>1
<1> HIDE DEF q
<1>3. x >= q * m /\ x < (q * m) + m
  BY <1>1, <1>2
<1>4. x % m = x - (q * m)
  BY <1>2, <1>3, Quotient
<1> QED  BY <1>1, <1>2, <1>4

LEMMA PlaceAfter ==
    ASSUME RtcConstantsOK, NEW c \in Int, NEW k \in Int, NEW l \in Int
    PROVE  Place(Place(c, k), l) = Place(c, k + l) /\ Place(c, k) \in 0 .. Modulus - 1
<1>0. Modulus \in Nat \ {0}
  BY DEF RtcConstantsOK
<1> DEFINE x == c + k
           d == x \div Modulus
           y == x % Modulus
<1>1. d \in Int /\ x = (d * Modulus) + y /\ y \in 0 .. Modulus - 1 /\ x \in Int
  BY <1>0
<1>2. Place(c, k) = y
  BY DEF Place
<1> HIDE DEF d, y
<1>3. c + (k + l) = (y + l) + (d * Modulus) /\ y + l \in Int /\ c + (k + l) \in Int
  BY <1>0, <1>1
<1>4. (c + (k + l)) % Modulus = (y + l) % Modulus
  BY <1>0, <1>1, <1>3, SameRemainder
<1> QED  BY <1>1, <1>2, <1>4 DEF Place

\* The way from one place to another, which leads around the end of the counter
\* when the other is behind.
LEMMA Distance ==
    ASSUME RtcConstantsOK, NEW c \in Int, NEW j \in Int, NEW k \in Int
    PROVE  /\ j <= k /\ k - j < Modulus => Ticks(Place(c, j), Place(c, k)) = k - j
           /\ k < j /\ j - k <= Modulus => Ticks(Place(c, j), Place(c, k)) = k - j + Modulus
           /\ Ticks(Place(c, j), Place(c, k)) \in 0 .. Modulus - 1
<1>0. Modulus \in Nat \ {0}
  BY DEF RtcConstantsOK
<1> DEFINE a == c + j
           b == c + k
           p == a \div Modulus
           q == b \div Modulus
           x == a % Modulus
           y == b % Modulus
<1>1. /\ p \in Int /\ a = (p * Modulus) + x /\ x \in Int
      /\ q \in Int /\ b = (q * Modulus) + y /\ y \in Int
  BY <1>0
<1>2. Place(c, j) = x /\ Place(c, k) = y
  BY DEF Place
<1>3. b - a = k - j
  OBVIOUS
<1> HIDE DEF a, b, p, q, x, y
<1>4. (p - q) * Modulus = (p * Modulus) - (q * Modulus) /\ p * Modulus \in Int /\ q * Modulus \in Int
  BY <1>0, <1>1
<1>5. y - x = (k - j) + ((p - q) * Modulus) /\ p - q \in Int /\ y - x \in Int /\ k - j \in Int
  BY <1>1, <1>3, <1>4
<1>6. /\ (y - x) % Modulus = (k - j) % Modulus
      /\ (y - x) % Modulus \in 0 .. Modulus - 1
  BY <1>0, <1>5, SameRemainder
<1>7. Ticks(Place(c, j), Place(c, k)) = (k - j) % Modulus
  BY <1>2, <1>6 DEF Ticks
<1>8. j <= k /\ k - j < Modulus => (k - j) % Modulus = k - j
  BY <1>0
<1>9. ASSUME k < j, j - k <= Modulus PROVE (k - j) % Modulus = k - j + Modulus
  <2> DEFINE n == k - j
             m == -1
  <2>1. /\ n \in Int /\ m \in Int /\ m * Modulus = -Modulus
        /\ n >= m * Modulus /\ n < (m * Modulus) + Modulus
    BY <1>0, <1>9
  <2> HIDE DEF n, m
  <2>2. n % Modulus = n - (m * Modulus)
    BY <1>0, <2>1, Quotient
  <2>3. n % Modulus = n + Modulus
    BY <1>0, <2>1, <2>2
  <2> QED  BY <2>3 DEF n
<1> QED  BY <1>6, <1>7, <1>8, <1>9

\* What the constants say of the latencies: most is the longest.
Fits(most) ==
    /\ most \in 0 .. 8 * Guard - 1 /\ Latencies \subseteq 0 .. most
    /\ RtcHorizon + (5 * most) <= Modulus

\* The compare register is z ticks, the counter m ticks after where the
\* programming began.
Reaches(z, m, delta) ==
    /\ z \in Nat /\ m \in Nat /\ m < z /\ z - m < Modulus
    /\ counter' = Place(counter, m) /\ alarmCompare' = Place(counter, z)
    /\ delta <= z /\ (z = delta \/ z - m <= 8 * Guard)

LEMMA FirstReaches ==
    ASSUME RtcConstantsOK, counter \in 0 .. Modulus - 1, NEW delta \in 0 .. Modulus - 1,
           NEW most, Fits(most), NEW l \in Latencies
    PROVE  \E z \in Nat :
              /\ FirstTarget(Place(counter, l), Place(counter, delta), delta) = Place(counter, z)
              /\ l < z /\ delta <= z /\ z - l < Modulus
              /\ z = delta \/ z - l = Guard
<1>0. /\ Modulus \in Nat \ {0} /\ Guard \in Nat \ {0} /\ 8 * Guard < Modulus
      /\ l \in Nat /\ l < Modulus /\ RtcHorizon \in Nat
      /\ counter \in Nat /\ delta \in Nat /\ delta < Modulus
  BY DEF RtcConstantsOK, Fits
<1> DEFINE start == Place(counter, l)
           target == Place(counter, delta)
           r == Ticks(start, target)
<1>1. /\ l <= delta => r = delta - l
      /\ delta < l => r = delta - l + Modulus
      /\ r \in Nat
  <2>1. l \in Int /\ delta \in Int /\ counter \in Int /\ l - delta <= Modulus /\ delta - l < Modulus
    BY <1>0
  <2>2. r \in 0 .. Modulus - 1
    BY <2>1, Distance
  <2>3. /\ l <= delta => r = delta - l
        /\ delta < l => r = delta - l + Modulus
    BY <2>1, Distance
  <2> HIDE DEF r
  <2> QED  BY <1>0, <2>2, <2>3
<1>2. (start + Guard) % Modulus = Place(counter, l + Guard)
  <2>1. Place(start, Guard) = Place(counter, l + Guard)
    BY <1>0, PlaceAfter
  <2> QED  BY <2>1 DEF Place
<1>3. FirstTarget(start, target, delta) =
          IF r = 0 \/ r > delta \/ r < Guard THEN (start + Guard) % Modulus ELSE target
  BY DEF FirstTarget
<1> HIDE DEF r, start, target
<1>4. CASE r = 0 \/ r > delta \/ r < Guard
  <2>1. FirstTarget(start, target, delta) = Place(counter, l + Guard)
    BY <1>2, <1>3, <1>4
  <2>2. delta <= l + Guard
    BY <1>0, <1>1, <1>4
  <2> DEFINE z == l + Guard
  <2>3. z \in Nat /\ l < z /\ z - l < Modulus /\ z - l = Guard
    BY <1>0
  <2> HIDE DEF z
  <2> QED  BY <2>1, <2>2, <2>3 DEF start, target, z
<1>5. CASE ~(r = 0 \/ r > delta \/ r < Guard)
  <2>1. FirstTarget(start, target, delta) = target
    BY <1>3, <1>5
  <2>2. l <= delta /\ l < delta
    BY <1>0, <1>1, <1>5
  <2>3. delta - l < Modulus
    BY <1>0
  <2> QED  BY <1>0, <2>1, <2>2, <2>3 DEF start, target
<1> QED  BY <1>4, <1>5

\* The reading after the compare register was written: j ticks, another l later.
LEMMA MissedIs ==
    ASSUME RtcConstantsOK, counter \in 0 .. Modulus - 1, NEW most, Fits(most),
           NEW j \in Nat, NEW l \in Latencies, NEW z \in Nat, j < z, z - j < Modulus
    PROVE  LET missed == Missed(Place(counter, z), Place(counter, j), Place(counter, j + l))
           IN  /\ ~missed => j + l < z
               /\ missed => z < j + l + Guard
<1>0. /\ Modulus \in Nat \ {0} /\ Guard \in Nat \ {0} /\ 8 * Guard < Modulus
      /\ l \in Nat /\ l < Modulus /\ counter \in Nat /\ j + l \in Nat
  BY DEF RtcConstantsOK, Fits
<1> DEFINE t == Place(counter, z)
           before == Ticks(Place(counter, j), t)
           after == Ticks(Place(counter, j + l), t)
<1>1. before = z - j
  BY <1>0, Distance
<1>2. /\ j + l <= z => after = z - (j + l)
      /\ z < j + l => after = z - (j + l) + Modulus
      /\ after \in Nat
  <2> DEFINE i == j + l
  <2>1. i \in Int /\ z \in Int /\ counter \in Int /\ z - i < Modulus /\ i - z <= Modulus
    BY <1>0
  <2> HIDE DEF i
  <2>2. Ticks(Place(counter, i), Place(counter, z)) \in 0 .. Modulus - 1
    BY <2>1, Distance
  <2>3. /\ i <= z => Ticks(Place(counter, i), Place(counter, z)) = z - i
        /\ z < i => Ticks(Place(counter, i), Place(counter, z)) = z - i + Modulus
    BY <2>1, Distance
  <2> QED  BY <1>0, <2>2, <2>3 DEF i
<1>3. Missed(t, Place(counter, j), Place(counter, j + l)) <=> ~(after \in Guard .. before)
  BY DEF Missed
<1> HIDE DEF before, after, t
<1>4. ASSUME after \in Guard .. before PROVE j + l < z
  BY <1>0, <1>1, <1>2, <1>4
<1>5. ASSUME ~(after \in Guard .. before) PROVE z < j + l + Guard
  BY <1>0, <1>1, <1>2, <1>5
<1> QED  BY <1>3, <1>4, <1>5 DEF t

LEMMA AfterIs ==
    ASSUME RtcConstantsOK, counter \in 0 .. Modulus - 1, NEW k \in Nat,
           NEW c \in After(Place(counter, k))
    PROVE  \E l \in Latencies : c = Place(counter, k + l)
<1>1. PICK l \in Latencies : c = Place(Place(counter, k), l)
  BY DEF After, Place
<1>2. counter \in Int /\ k \in Int /\ l \in Int
  BY DEF RtcConstantsOK
<1> QED  BY <1>1, <1>2, PlaceAfter

LEMMA WindowIs ==
    ASSUME RtcConstantsOK, counter \in 0 .. Modulus - 1, NEW k \in Nat, NEW w \in Nat
    PROVE  (Place(counter, k) + w) % Modulus = Place(counter, k + w)
<1>1. counter \in Int /\ k \in Int /\ w \in Int
  BY DEF RtcConstantsOK
<1>2. Place(Place(counter, k), w) = Place(counter, k + w)
  BY <1>1, PlaceAfter
<1> QED  BY <1>2 DEF Place

\* An attempt ends the loop.
LEMMA Programs ==
    ASSUME RtcConstantsOK, NEW delta \in 0 .. Modulus - 1, NEW most, Fits(most),
           NEW z \in Nat, NEW m \in 0 .. 5 * most, NEW t, NEW c, Program(t, c),
           t = Place(counter, z), c = Place(counter, m),
           m < z, z - m < Modulus, delta <= z, z = delta \/ z - m <= 8 * Guard
    PROVE  /\ armed' = TRUE /\ pending' = FALSE
           /\ \E y \in Nat, n \in 0 .. 5 * most : Reaches(y, n, delta)
<1>1. m \in Nat
  BY DEF RtcConstantsOK, Fits
<1>2. Reaches(z, m, delta)
  BY <1>1 DEF Program, Reaches
<1> QED  BY <1>2 DEF Program

\* The loop: however often the counter came too near, the compare register is
\* ahead of it in the end and not before the target, and it is the target or
\* no farther than the last window.
LEMMA ProgramReaches ==
    ASSUME RtcConstantsOK, counter \in 0 .. Modulus - 1, NEW delta \in 0 .. Modulus - 1,
           NEW most, Fits(most),
           ProgramCounter(counter, (counter + delta) % Modulus, delta)
    PROVE  /\ armed' = TRUE /\ pending' = FALSE
           /\ \E z \in Nat, m \in 0 .. 5 * most : Reaches(z, m, delta)
<1>0. /\ Modulus \in Nat \ {0} /\ Guard \in Nat \ {0} /\ 8 * Guard < Modulus
      /\ counter \in Nat /\ delta \in Nat /\ delta < Modulus /\ most \in Nat /\ most < 8 * Guard
  BY DEF RtcConstantsOK, Fits
<1>l. \A l \in Latencies : l \in Nat /\ l <= most
  BY DEF Fits
<1> DEFINE target == Place(counter, delta)
           P(k) == Place(counter, k)
<1>1. counter = P(0)
  BY <1>0 DEF Place
<1>2. PICK c0 \in After(counter) : \E c1 \in After(c0) :
        LET t1 == FirstTarget(c0, target, delta)
            t2 == (c1 + 2 * Guard) % Modulus
        IN  \/ ~Missed(t1, c0, c1) /\ Program(t1, c1)
            \/ /\ Missed(t1, c0, c1)
               /\ \E c2 \in After(c1) :
                    LET t3 == (c2 + 4 * Guard) % Modulus IN
                    \/ ~Missed(t2, c1, c2) /\ Program(t2, c2)
                    \/ /\ Missed(t2, c1, c2)
                       /\ \E c3 \in After(c2) :
                            \/ ~Missed(t3, c2, c3) /\ Program(t3, c3)
                            \/ /\ Missed(t3, c2, c3)
                               /\ \E c4 \in After(c3) :
                                    Program((c3 + 8 * Guard) % Modulus, c4)
  BY DEF ProgramCounter, Place
<1>3. PICK c1 \in After(c0) :
        LET t1 == FirstTarget(c0, target, delta)
            t2 == (c1 + 2 * Guard) % Modulus
        IN  \/ ~Missed(t1, c0, c1) /\ Program(t1, c1)
            \/ /\ Missed(t1, c0, c1)
               /\ \E c2 \in After(c1) :
                    LET t3 == (c2 + 4 * Guard) % Modulus IN
                    \/ ~Missed(t2, c1, c2) /\ Program(t2, c2)
                    \/ /\ Missed(t2, c1, c2)
                       /\ \E c3 \in After(c2) :
                            \/ ~Missed(t3, c2, c3) /\ Program(t3, c3)
                            \/ /\ Missed(t3, c2, c3)
                               /\ \E c4 \in After(c3) :
                                    Program((c3 + 8 * Guard) % Modulus, c4)
  BY <1>2
<1>4. PICK l0 \in Latencies : c0 = P(0 + l0)
  BY <1>1, AfterIs
<1>5. c0 = P(l0) /\ l0 \in Nat /\ l0 <= most
  BY <1>4, <1>l
<1>6. PICK l1 \in Latencies : c1 = P(l0 + l1)
  BY <1>5, AfterIs
<1> DEFINE k1 == l0 + l1
           t1 == FirstTarget(c0, target, delta)
           t2 == (c1 + 2 * Guard) % Modulus
<1>7. c1 = P(k1) /\ k1 \in Nat /\ k1 <= 2 * most
  <2>1. l1 \in Nat /\ l1 <= most
    BY <1>l
  <2>2. l0 + l1 \in Nat /\ l0 + l1 <= 2 * most
    BY <1>0, <1>5, <2>1
  <2> QED  BY <1>6, <2>2
<1>8. PICK z1 \in Nat : /\ t1 = P(z1) /\ l0 < z1 /\ delta <= z1 /\ z1 - l0 < Modulus
                        /\ z1 = delta \/ z1 - l0 = Guard
  BY <1>5, FirstReaches
<1>9. (~Missed(t1, c0, c1) => k1 < z1) /\ (Missed(t1, c0, c1) => z1 < k1 + Guard)
  BY <1>5, <1>7, <1>8, MissedIs
<1>10. t2 = P(k1 + 2 * Guard)
  BY <1>0, <1>7, WindowIs
<1> HIDE DEF P, target, t1, t2, k1
<1>11. CASE ~Missed(t1, c0, c1) /\ Program(t1, c1)
  <2>1. k1 < z1 /\ z1 - k1 < Modulus /\ k1 \in 0 .. 5 * most /\ l0 <= k1
    BY <1>0, <1>5, <1>6, <1>7, <1>8, <1>9, <1>11, <1>l DEF k1
  <2>2. z1 = delta \/ z1 - k1 <= 8 * Guard
    BY <1>0, <1>5, <1>7, <1>8, <2>1
  <2> QED  BY <1>7, <1>8, <1>11, <2>1, <2>2, Programs DEF P
<1>12. CASE /\ Missed(t1, c0, c1)
            /\ \E c2 \in After(c1) :
                 LET t3 == (c2 + 4 * Guard) % Modulus IN
                 \/ ~Missed(t2, c1, c2) /\ Program(t2, c2)
                 \/ /\ Missed(t2, c1, c2)
                    /\ \E c3 \in After(c2) :
                         \/ ~Missed(t3, c2, c3) /\ Program(t3, c3)
                         \/ /\ Missed(t3, c2, c3)
                            /\ \E c4 \in After(c3) : Program((c3 + 8 * Guard) % Modulus, c4)
  <2>1. PICK c2 \in After(c1) :
          LET t3 == (c2 + 4 * Guard) % Modulus IN
          \/ ~Missed(t2, c1, c2) /\ Program(t2, c2)
          \/ /\ Missed(t2, c1, c2)
             /\ \E c3 \in After(c2) :
                  \/ ~Missed(t3, c2, c3) /\ Program(t3, c3)
                  \/ /\ Missed(t3, c2, c3)
                     /\ \E c4 \in After(c3) : Program((c3 + 8 * Guard) % Modulus, c4)
    BY <1>12
  <2>2. PICK l2 \in Latencies : c2 = P(k1 + l2)
    BY <1>7, AfterIs DEF P
  <2> DEFINE k2 == k1 + l2
             z2 == k1 + 2 * Guard
             t3 == (c2 + 4 * Guard) % Modulus
  <2>3. /\ c2 = P(k2) /\ k2 \in Nat /\ k2 <= 3 * most /\ k1 <= k2
        /\ z2 \in Nat /\ k1 < z2 /\ z2 - k1 = 2 * Guard /\ z2 - k1 < Modulus /\ delta <= z2
    BY <1>0, <1>7, <1>8, <1>9, <1>12, <2>2, <1>l
  <2>4. (~Missed(t2, c1, c2) => k2 < z2) /\ (Missed(t2, c1, c2) => z2 < k2 + Guard)
    BY <1>7, <1>10, <2>3, MissedIs DEF P
  <2>5. t3 = P(k2 + 4 * Guard)
    BY <1>0, <2>3, WindowIs DEF P
  <2>t. t2 = P(z2)
    BY <1>10
  <2> HIDE DEF k2, z2, t3
  <2>6. CASE ~Missed(t2, c1, c2) /\ Program(t2, c2)
    <3>1. k2 < z2 /\ z2 - k2 < Modulus /\ k2 \in 0 .. 5 * most /\ z2 - k2 <= 8 * Guard
      BY <1>0, <1>7, <2>3, <2>4, <2>6
    <3> QED  BY <2>t, <2>3, <2>6, <3>1, Programs DEF P
  <2>7. CASE /\ Missed(t2, c1, c2)
             /\ \E c3 \in After(c2) :
                  \/ ~Missed(t3, c2, c3) /\ Program(t3, c3)
                  \/ /\ Missed(t3, c2, c3)
                     /\ \E c4 \in After(c3) : Program((c3 + 8 * Guard) % Modulus, c4)
    <3>1. PICK c3 \in After(c2) :
            \/ ~Missed(t3, c2, c3) /\ Program(t3, c3)
            \/ /\ Missed(t3, c2, c3)
               /\ \E c4 \in After(c3) : Program((c3 + 8 * Guard) % Modulus, c4)
      BY <2>7
    <3>2. PICK l3 \in Latencies : c3 = P(k2 + l3)
      BY <2>3, AfterIs DEF P
    <3> DEFINE k3 == k2 + l3
               z3 == k2 + 4 * Guard
    <3>3. /\ c3 = P(k3) /\ k3 \in Nat /\ k3 <= 4 * most /\ k2 <= k3
          /\ z3 \in Nat /\ k2 < z3 /\ z3 - k2 = 4 * Guard /\ z3 - k2 < Modulus /\ delta <= z3
      BY <1>0, <2>3, <2>4, <2>7, <3>2, <1>l
    <3>4. (~Missed(t3, c2, c3) => k3 < z3) /\ (Missed(t3, c2, c3) => z3 < k3 + Guard)
      BY <2>3, <2>5, <3>3, MissedIs DEF P
    <3>t. t3 = P(z3)
      BY <2>5
    <3> HIDE DEF k3, z3
    <3>5. CASE ~Missed(t3, c2, c3) /\ Program(t3, c3)
      <4>1. k3 < z3 /\ z3 - k3 < Modulus /\ k3 \in 0 .. 5 * most /\ z3 - k3 <= 8 * Guard
        BY <1>0, <2>3, <3>3, <3>4, <3>5
      <4> QED  BY <3>t, <3>3, <3>5, <4>1, Programs DEF P
    <3>6. CASE /\ Missed(t3, c2, c3)
               /\ \E c4 \in After(c3) : Program((c3 + 8 * Guard) % Modulus, c4)
      <4>1. PICK c4 \in After(c3) : Program((c3 + 8 * Guard) % Modulus, c4)
        BY <3>6
      <4>2. PICK l4 \in Latencies : c4 = P(k3 + l4)
        BY <3>3, AfterIs DEF P
      <4> DEFINE k4 == k3 + l4
                 z4 == k3 + 8 * Guard
      <4>3. /\ c4 = P(k4) /\ k4 \in 0 .. 5 * most
            /\ z4 \in Nat /\ k4 < z4 /\ z4 - k4 <= 8 * Guard /\ z4 - k4 < Modulus /\ delta <= z4
        BY <1>0, <3>3, <3>4, <3>6, <4>2, <1>l
      <4>4. (c3 + 8 * Guard) % Modulus = P(z4)
        BY <1>0, <3>3, WindowIs DEF P
      <4> HIDE DEF k4, z4
      <4> QED  BY <4>1, <4>3, <4>4, Programs DEF P
    <3> QED  BY <3>1, <3>5, <3>6
  <2> QED  BY <2>1, <2>6, <2>7 DEF t3
<1> QED  BY <1>3, <1>11, <1>12 DEF t1, t2
-----------------------------------------------------------------------------
(* The alarm of the RTC                                                    *)

Since == Ticks(counterBase, counter)

Left == Ticks(counter, alarmCompare)

RtcTypes ==
    /\ base \in Pairs /\ alarm \in Pairs \cup {NoAlarm}
    /\ counter \in 0 .. Modulus - 1 /\ counterBase \in 0 .. Modulus - 1
    /\ alarmCompare \in 0 .. Modulus - 1
    /\ ready \in BOOLEAN /\ waitForClock \in BOOLEAN /\ armed \in BOOLEAN /\ pending \in BOOLEAN
    /\ offset \in Int

\* The clock w and the ticks since it and left together reach the time a, and
\* without the last window they do not go beyond it.
Meets(a, w, since, left) ==
    /\ Total(a) <= Total(w) + Passed(since + left)
    /\ left > 8 * Guard => Total(w) + Passed(since + left - 8 * Guard) <= Total(a)

Kept ==
    Active =>
        /\ ready
        /\ Before(base, alarm) \/ waitForClock
        /\ pending => Total(alarm) <= Total(base) + Passed(Since)
        /\ ~pending => armed /\ Left # 0 /\ Meets(alarm, base, Since, Left)

\* The counter has not wrapped since the clock was set.
RtcInv == RtcTypes /\ Since <= Elapsed /\ Kept

LEMMA TicksAre ==
    ASSUME RtcConstantsOK, NEW c \in 0 .. Modulus - 1, NEW d \in 0 .. Modulus - 1
    PROVE  /\ Ticks(c, d) \in 0 .. Modulus - 1 /\ Place(c, Ticks(c, d)) = d
           /\ Place(c, 0) = c /\ Ticks(c, c) = 0
<1>0. Modulus \in Nat \ {0}
  BY DEF RtcConstantsOK
<1>1. Place(c, 0) = c /\ Ticks(c, c) = 0
  BY <1>0 DEF Place, Ticks
<1> DEFINE k == IF c <= d THEN d - c ELSE d - c + Modulus
<1>2. k \in 0 .. Modulus - 1
  BY <1>0
<1>3. Place(c, k) = d
  <2>1. CASE c <= d
    BY <1>0, <2>1 DEF Place
  <2>2. CASE ~(c <= d)
    <3> DEFINE x == c + k
    <3>1. x = d + (1 * Modulus) /\ x \in Int /\ d \in Int /\ 1 \in Int
      BY <1>0, <2>2
    <3> HIDE DEF x
    <3>2. x % Modulus = d % Modulus
      BY <1>0, <3>1, SameRemainder
    <3>3. d % Modulus = d
      BY <1>0
    <3> QED  BY <3>2, <3>3 DEF Place, x
  <2> QED  BY <2>1, <2>2
<1> HIDE DEF k
<1>4. c \in Int /\ 0 \in Int /\ k \in Int /\ 0 <= k /\ k - 0 < Modulus
  BY <1>0, <1>2
<1>5. Ticks(Place(c, 0), Place(c, k)) = k - 0
  BY <1>4, Distance
<1> QED  BY <1>0, <1>1, <1>2, <1>3, <1>5

\* Ticks are added to a distance until the counter has gone round.
LEMMA Onwards ==
    ASSUME RtcConstantsOK, NEW c \in 0 .. Modulus - 1, NEW d \in 0 .. Modulus - 1, NEW m \in Nat,
           Ticks(c, d) + m < Modulus
    PROVE  Ticks(c, Place(d, m)) = Ticks(c, d) + m /\ Place(d, m) \in 0 .. Modulus - 1
<1>0. Modulus \in Nat \ {0}
  BY DEF RtcConstantsOK
<1> DEFINE k == Ticks(c, d)
<1>1. k \in Nat /\ Place(c, k) = d /\ Place(c, 0) = c
  BY <1>0, TicksAre
<1>2. k + m < Modulus
  OBVIOUS
<1> HIDE DEF k
<1>3. c \in Int /\ d \in Int /\ k \in Int /\ m \in Int /\ 0 \in Int
  BY <1>0, <1>1
<1>4. Place(d, m) = Place(c, k + m) /\ Place(d, m) \in 0 .. Modulus - 1
  BY <1>1, <1>3, PlaceAfter
<1> DEFINE n == k + m
<1>5. n \in Int /\ 0 <= n /\ n - 0 < Modulus
  BY <1>1, <1>2
<1> HIDE DEF n
<1>6. Ticks(Place(c, 0), Place(c, n)) = n - 0
  BY <1>3, <1>5, Distance
<1> QED  BY <1>1, <1>4, <1>5, <1>6 DEF n, k

LEMMA LatenciesFit == ASSUME RtcConstantsOK PROVE \E most \in Nat : Fits(most)
  BY DEF RtcConstantsOK, Fits

\* After the programming: where the counter and the compare register are, seen
\* from an earlier value of the counter.
LEMMA ProgrammedAhead ==
    ASSUME RtcConstantsOK, counter \in 0 .. Modulus - 1, InHorizon,
           NEW from \in 0 .. Modulus - 1, Ticks(from, counter) <= Elapsed,
           NEW delta \in 0 .. Modulus - 1,
           ProgramCounter(counter, (counter + delta) % Modulus, delta)
    PROVE  LET before == Ticks(from, counter)
               since  == Ticks(from, counter')
               left   == Ticks(counter', alarmCompare')
           IN  /\ armed' = TRUE /\ pending' = FALSE
               /\ counter' \in 0 .. Modulus - 1 /\ alarmCompare' \in 0 .. Modulus - 1
               /\ before \in Nat /\ since \in Nat /\ left \in Nat \ {0} /\ since <= Elapsed'
               /\ before <= since /\ before + delta <= since + left
               /\ left > 8 * Guard => since + left = before + delta
<1>0. /\ Modulus \in Nat \ {0} /\ Guard \in Nat /\ delta \in Nat
      /\ StartCounter \in 0 .. Modulus - 1 /\ counter \in Int /\ RtcHorizon \in Nat
  BY DEF RtcConstantsOK
<1>1. PICK most \in Nat : Fits(most)
  BY LatenciesFit
<1>2. /\ armed' = TRUE /\ pending' = FALSE
      /\ \E z \in Nat, m \in 0 .. 5 * most : Reaches(z, m, delta)
  BY <1>1, ProgramReaches
<1>3. PICK z \in Nat, m \in 0 .. 5 * most : Reaches(z, m, delta)
  BY <1>2
<1>4. /\ m \in Nat /\ m <= 5 * most /\ m < z /\ z - m < Modulus
      /\ counter' = Place(counter, m) /\ alarmCompare' = Place(counter, z)
      /\ delta <= z /\ (z = delta \/ z - m <= 8 * Guard)
  BY <1>1, <1>3 DEF Reaches
<1>5. Ticks(from, counter) \in Nat /\ Elapsed \in Nat /\ Elapsed = Ticks(StartCounter, counter)
  BY <1>0, TicksAre DEF Elapsed
<1>6. Elapsed + m < Modulus /\ Ticks(from, counter) + m < Modulus
  BY <1>0, <1>1, <1>4, <1>5 DEF InHorizon, Fits
<1>7. /\ Ticks(from, counter') = Ticks(from, counter) + m
      /\ Ticks(StartCounter, counter') = Elapsed + m
      /\ counter' \in 0 .. Modulus - 1
  BY <1>0, <1>4, <1>5, <1>6, Onwards
<1>8. Elapsed' = Elapsed + m
  BY <1>7 DEF Elapsed
<1>9. Ticks(counter', alarmCompare') = z - m
  <2>1. m \in Int /\ z \in Int /\ m <= z
    BY <1>4
  <2>2. Ticks(Place(counter, m), Place(counter, z)) = z - m
    BY <1>0, <1>4, <2>1, Distance
  <2> QED  BY <1>4, <2>2
<1>10. alarmCompare' \in 0 .. Modulus - 1
  BY <1>0, <1>4, PlaceAfter
<1> QED  BY <1>0, <1>2, <1>4, <1>5, <1>7, <1>8, <1>9, <1>10

\* The arithmetic of an alarm, n ticks after the clock w was set, at time now:
\* its ticks are those to the time a, since and left those at the end.
LEMMA AheadMeets ==
    ASSUME RtcConstantsOK, NEW now \in Pairs, NEW w \in Pairs, NEW a \in Pairs, NEW n \in Nat,
           Total(now) = Total(w) + Passed(n), Before(now, a),
           NEW since \in Nat, NEW left \in Nat \ {0},
           n + Delta(now, a) <= since + left,
           left > 8 * Guard => since + left = n + Delta(now, a)
    PROVE  Meets(a, w, since, left)
<1>0. Guard \in Nat \ {0}
  BY DEF RtcConstantsOK
<1> DEFINE delta == Delta(now, a)
           long == Total(a) - Total(now)
<1>1. /\ delta \in Nat \ {0} /\ Passed(n + delta) >= Passed(n) + long
      /\ Passed(n + delta - 1) <= Passed(n) + long
  BY DeltaReaches
<1>2. n + delta <= since + left /\ (left > 8 * Guard => since + left = n + delta)
  OBVIOUS
<1>3. Total(a) \in Nat /\ Total(w) \in Nat /\ Passed(n) \in Nat /\ long = Total(a) - (Total(w) + Passed(n))
  BY PairOf, TicksAreNanoseconds
<1> HIDE DEF delta, long
<1>4. Passed(n + delta) <= Passed(since + left) /\ Passed(n + delta) \in Nat /\ Passed(since + left) \in Nat
  <2> DEFINE x == n + delta
             y == since + left
  <2>1. x \in Nat /\ y \in Nat /\ x <= y
    BY <1>1, <1>2
  <2> HIDE DEF x, y
  <2>2. Passed(x) <= Passed(y) /\ Passed(x) \in Nat /\ Passed(y) \in Nat
    BY <2>1, PassedGrows
  <2> QED  BY <2>2 DEF x, y
<1>5. Total(a) <= Total(w) + Passed(since + left)
  BY <1>1, <1>3, <1>4
<1>6. ASSUME left > 8 * Guard PROVE Total(w) + Passed(since + left - 8 * Guard) <= Total(a)
  <2> DEFINE x == since + left - 8 * Guard
             y == n + delta - 1
  <2>1. x \in Nat /\ y \in Nat /\ x <= y
    BY <1>0, <1>1, <1>2, <1>6
  <2>2. Passed(y) <= Passed(n) + long
    BY <1>1
  <2> HIDE DEF x, y
  <2>3. Passed(x) <= Passed(y) /\ Passed(x) \in Nat /\ Passed(y) \in Nat
    BY <2>1, PassedGrows
  <2>4. Total(w) + Passed(x) <= Total(a)
    BY <1>3, <2>2, <2>3
  <2> QED  BY <2>4 DEF x
<1> QED  BY <1>5, <1>6 DEF Meets

\* ... and an alarm whose time has come, or comes within the least delay.
LEMMA SoonMeets ==
    ASSUME RtcConstantsOK, NEW w \in Pairs, NEW a \in Pairs, NEW n \in Nat,
           Total(a) <= Total(w) + Passed(n + MinTicks),
           NEW since \in Nat, NEW left \in Nat \ {0}, n <= since,
           n + MinTicks <= since + left,
           left > 8 * Guard => since + left = n + MinTicks
    PROVE  Meets(a, w, since, left)
<1>0. Guard \in Nat \ {0} /\ MinTicks \in Nat /\ MinTicks <= Guard
  BY DEF RtcConstantsOK
<1>1. ~(left > 8 * Guard)
  BY <1>0
<1>2. Total(a) \in Nat /\ Total(w) \in Nat
  BY PairOf
<1> DEFINE x == n + MinTicks
           y == since + left
<1>3. x \in Nat /\ y \in Nat /\ x <= y
  BY <1>0
<1>4. Total(a) <= Total(w) + Passed(x)
  OBVIOUS
<1> HIDE DEF x, y
<1>5. Passed(x) <= Passed(y) /\ Passed(x) \in Nat /\ Passed(y) \in Nat
  BY <1>3, PassedGrows
<1>6. Total(a) <= Total(w) + Passed(y)
  BY <1>2, <1>4, <1>5
<1> QED  BY <1>1, <1>6 DEF Meets, y

\* At the moment the clock is set.
LEMMA PassedNothing == ASSUME RtcConstantsOK PROVE Passed(0) = 0
  BY DEF RtcConstantsOK, Passed

LEMMA SoonAfter ==
    ASSUME RtcConstantsOK, NEW w \in Pairs, NEW a \in Pairs,
           ~Before(w, a) \/ Delta(w, a) < MinTicks
    PROVE  Total(a) <= Total(w) + Passed(0 + MinTicks)
<1>0. MinTicks \in Nat
  BY DEF RtcConstantsOK
<1>1. Total(a) \in Nat /\ Total(w) \in Nat /\ Passed(MinTicks) \in Nat
  BY <1>0, PairOf, TicksAreNanoseconds
<1>2. 0 + MinTicks = MinTicks
  BY <1>0
<1>3. CASE ~Before(w, a)
  BY <1>1, <1>2, <1>3, OrderOf
<1>4. CASE Before(w, a) /\ Delta(w, a) < MinTicks
  <2> DEFINE delta == Delta(w, a)
             long == Total(a) - Total(w)
  <2>1. delta \in Nat \ {0} /\ Passed(0 + delta) >= Passed(0) + long /\ delta < MinTicks
    BY <1>4, DeltaReaches
  <2> HIDE DEF delta
  <2>2. 0 + delta = delta /\ delta \in Nat /\ delta <= MinTicks
    BY <1>0, <2>1
  <2>3. Passed(delta) <= Passed(MinTicks) /\ Passed(delta) \in Nat
    BY <1>0, <2>2, PassedGrows
  <2> QED  BY <1>1, <1>2, <2>1, <2>2, <2>3, PassedNothing
<1> QED  BY <1>3, <1>4

\* What the time is.
LEMMA NowIs ==
    ASSUME RtcConstantsOK, RtcTypes
    PROVE  /\ Now \in Pairs /\ Total(Now) = Total(base) + Passed(Since)
           /\ Since \in Nat /\ Passed(Since) \in Nat /\ Total(base) \in Nat
<1>0. Modulus \in Nat \ {0}
  BY DEF RtcConstantsOK
<1>1. Since \in Nat /\ base \in Pairs
  BY <1>0, TicksAre DEF Since, RtcTypes
<1>2. Now = TimeAt(Since)
  BY DEF Now, Since
<1> QED  BY <1>1, <1>2, TimeIs

\* No alarm is set, and the counter stays.
LEMMA NoneKept ==
    ASSUME RtcInv, alarm' = NoAlarm, UNCHANGED counter, RtcTypes', Since' <= Elapsed'
    PROVE  RtcInv'
  BY DEF RtcInv, Kept, Active

LEMMA AlarmsAre ==
    ASSUME RtcConstantsOK, RtcTypes, Active
    PROVE  alarm \in Pairs
  BY DEF RtcTypes, Active

LEMMA TimesArePairs == ASSUME RtcConstantsOK, NEW t \in Times \cup {StartTime} PROVE t \in Pairs /\ t # NoAlarm
<1>1. t \in (0 .. TimeMax) \X (0 .. Nsec - 1) /\ TimeMax \in Nat
  BY DEF RtcConstantsOK
<1>2. t \in Pairs
  BY <1>1 DEF Pairs
<1> QED  BY <1>2 DEF RtcConstantsOK, Pairs

LEMMA ResetStep == ASSUME RtcConstantsOK, RtcInv, NEW attached \in BOOLEAN, Reset(attached) PROVE RtcInv'
<1>0. Modulus \in Nat \ {0} /\ counter \in 0 .. Modulus - 1 /\ StartCounter \in 0 .. Modulus - 1
  BY DEF RtcConstantsOK, RtcInv, RtcTypes
<1>1. StartTime \in Pairs
  BY TimesArePairs
<1>2. RtcTypes'
  <2>1. /\ ready' \in BOOLEAN /\ waitForClock' \in BOOLEAN
        /\ armed' \in BOOLEAN /\ pending' \in BOOLEAN
    BY DEF Reset, ClearAlarmHardware
  <2>2. /\ base' = StartTime /\ alarm' = NoAlarm /\ counter' = counter /\ counterBase' = counter
        /\ alarmCompare' = 0 /\ offset' = 0 /\ 0 \in 0 .. Modulus - 1
    BY <1>0 DEF Reset, ClearAlarmHardware
  <2> QED  BY <1>0, <1>1, <2>1, <2>2 DEF RtcTypes
<1>3. Since' = 0 /\ Elapsed' = Elapsed
  BY <1>0, TicksAre DEF Reset, Since, Elapsed
<1>4. Elapsed \in Nat
  BY <1>0, TicksAre DEF Elapsed
<1>5. Since' <= Elapsed'
  BY <1>3, <1>4
<1> QED  BY <1>2, <1>5, NoneKept DEF Reset

LEMMA ClearStep ==
    ASSUME RtcConstantsOK, RtcInv, alarm' = NoAlarm, ClearAlarmHardware,
           UNCHANGED <<base, counterBase, counter, offset>>,
           ready' \in BOOLEAN, waitForClock' \in BOOLEAN
    PROVE  RtcInv'
<1>0. 0 \in 0 .. Modulus - 1
  BY DEF RtcConstantsOK
<1>1. RtcTypes'
  BY <1>0 DEF RtcInv, RtcTypes, ClearAlarmHardware
<1>2. Since' = Since /\ Elapsed' = Elapsed
  BY DEF Since, Elapsed
<1> QED  BY <1>1, <1>2, NoneKept DEF RtcInv

LEMMA SynchronizeStep == ASSUME RtcConstantsOK, RtcInv, Synchronize PROVE RtcInv'
  BY DEF Synchronize, RtcInv, RtcTypes, Kept, Active, Since, Left, Elapsed, softVars, hwVars

LEMMA StutterStep == ASSUME RtcConstantsOK, RtcInv, UNCHANGED rtcVars PROVE RtcInv'
  BY DEF rtcVars, RtcInv, RtcTypes, Kept, Active, Since, Left, Elapsed, softVars, hwVars

\* A tick nears the counter to the compare register, which fires in time.
LEMMA RtcTickStep == ASSUME RtcConstantsOK, RtcInv, RtcTick PROVE RtcInv'
<1>0. /\ Modulus \in Nat \ {0} /\ counter \in 0 .. Modulus - 1 /\ StartCounter \in 0 .. Modulus - 1
      /\ counterBase \in 0 .. Modulus - 1 /\ alarmCompare \in 0 .. Modulus - 1
      /\ RtcHorizon \in Nat /\ RtcHorizon < Modulus /\ counter \in Int
  BY DEF RtcConstantsOK, RtcInv, RtcTypes
<1>1. Since \in Nat /\ Elapsed \in Nat /\ Left \in 0 .. Modulus - 1 /\ Place(counter, Left) = alarmCompare
  <2>1. Ticks(counterBase, counter) \in 0 .. Modulus - 1 /\ Ticks(StartCounter, counter) \in 0 .. Modulus - 1
    BY <1>0, TicksAre
  <2>2. Ticks(counter, alarmCompare) \in 0 .. Modulus - 1 /\ Place(counter, Ticks(counter, alarmCompare)) = alarmCompare
    BY <1>0, TicksAre
  <2> QED  BY <1>0, <2>1, <2>2 DEF Since, Elapsed, Left
<1>2. Since <= Elapsed /\ Elapsed < RtcHorizon
  BY DEF RtcInv, RtcTick
<1>3. counter' = Place(counter, 1)
  BY DEF RtcTick, Place
<1>4. Since + 1 < Modulus /\ Elapsed + 1 < Modulus
  BY <1>0, <1>1, <1>2
<1>5. /\ Since' = Since + 1 /\ Elapsed' = Elapsed + 1
      /\ counter' \in 0 .. Modulus - 1
  <2>1. counterBase' = counterBase /\ 1 \in Nat
    BY DEF RtcTick, softVars
  <2>2. Ticks(counterBase, counter) + 1 < Modulus /\ Ticks(StartCounter, counter) + 1 < Modulus
    BY <1>4 DEF Since, Elapsed
  <2>3. /\ Ticks(counterBase, Place(counter, 1)) = Since + 1
        /\ Ticks(StartCounter, Place(counter, 1)) = Elapsed + 1
        /\ Place(counter, 1) \in 0 .. Modulus - 1
    BY <1>0, <2>1, <2>2, Onwards DEF Since, Elapsed
  <2> QED  BY <1>3, <2>1, <2>3 DEF Since, Elapsed
<1>6. Left # 0 => Left' = Left - 1
  <2> SUFFICES ASSUME Left # 0 PROVE Left' = Left - 1
    OBVIOUS
  <2> DEFINE k == Left
  <2>1. k \in Int /\ 1 \in Int /\ 1 <= k /\ k - 1 < Modulus /\ alarmCompare = Place(counter, k)
    BY <1>0, <1>1
  <2> HIDE DEF k
  <2>2. Ticks(Place(counter, 1), Place(counter, k)) = k - 1
    BY <1>0, <2>1, Distance
  <2>3. Left' = Ticks(counter', alarmCompare)
    BY DEF Left, RtcTick
  <2> QED  BY <1>3, <2>1, <2>2, <2>3 DEF k
<1>7. RtcTypes'
  BY <1>5 DEF RtcInv, RtcTypes, RtcTick, softVars
<1>8. ASSUME Active PROVE Kept'
  <2>1. /\ UNCHANGED <<base, alarm, ready, waitForClock, armed>> /\ ready
        /\ Before(base, alarm) \/ waitForClock
    BY <1>8 DEF RtcTick, softVars, RtcInv, Kept
  <2>2. base \in Pairs /\ alarm \in Pairs /\ Total(base) \in Nat /\ Total(alarm) \in Nat
    BY <1>8, AlarmsAre, PairOf DEF RtcInv, RtcTypes
  <2>3. CASE pending
    <3>1. pending' /\ Total(alarm) <= Total(base) + Passed(Since)
      BY <1>8, <2>3 DEF RtcTick, RtcInv, Kept
    <3>2. Since + 1 \in Nat /\ Since <= Since + 1
      BY <1>1
    <3>3. Passed(Since) <= Passed(Since + 1) /\ Passed(Since) \in Nat /\ Passed(Since + 1) \in Nat
      BY <1>1, <3>2, PassedGrows
    <3>4. Total(alarm) <= Total(base) + Passed(Since + 1)
      BY <2>2, <3>1, <3>3
    <3> QED  BY <1>5, <2>1, <3>1, <3>4 DEF Kept
  <2>4. CASE ~pending
    <3>1. armed /\ Left # 0 /\ Meets(alarm, base, Since, Left)
      BY <1>8, <2>4 DEF RtcInv, Kept
    <3>2. CASE Left = 1
      <4>1. counter' = alarmCompare
        BY <1>1, <1>3, <3>2
      <4>2. pending'
        BY <3>1, <4>1 DEF RtcTick
      <4>3. Total(alarm) <= Total(base) + Passed(Since + 1)
        BY <3>1, <3>2 DEF Meets
      <4> QED  BY <1>5, <2>1, <4>2, <4>3 DEF Kept
    <3>3. CASE Left # 1
      <4>1. Left' = Left - 1 /\ Left' # 0
        BY <1>1, <1>6, <3>1, <3>3
      <4>2. counter' # alarmCompare
        <5> SUFFICES ASSUME counter' = alarmCompare PROVE FALSE
          OBVIOUS
        <5>1. Left' = Ticks(alarmCompare, alarmCompare)
          BY DEF Left, RtcTick
        <5> QED  BY <1>0, <4>1, <5>1, TicksAre
      <4>3. pending' = FALSE
        BY <2>4, <4>2 DEF RtcTick
      <4>4. /\ Since' + Left' = Since + Left /\ Left' \in Nat
            /\ Since' + Left' - 8 * Guard = Since + Left - 8 * Guard
            /\ Left' > 8 * Guard => Left > 8 * Guard
        <5>1. /\ Since \in Nat /\ Left \in Nat /\ Left # 0 /\ Guard \in Nat
              /\ Since' = Since + 1 /\ Left' = Left - 1
          BY <1>0, <1>1, <1>5, <3>1, <4>1 DEF RtcConstantsOK
        <5> QED  BY <5>1
      <4>5. Meets(alarm, base, Since', Left')
        BY <3>1, <4>4 DEF Meets
      <4> QED  BY <2>1, <3>1, <4>1, <4>3, <4>5 DEF Kept
    <3> QED  BY <3>2, <3>3
  <2> QED  BY <2>3, <2>4
<1>9. ASSUME ~Active PROVE Kept'
  BY <1>9 DEF Kept, Active, RtcTick, softVars
<1>10. Since' <= Elapsed'
  BY <1>1, <1>2, <1>5
<1> QED  BY <1>7, <1>8, <1>9, <1>10 DEF RtcInv

\* The results of bl616cl_rtc_alarm_delta.
LEMMA ResultIs ==
    ASSUME RtcConstantsOK, NEW from \in Pairs, NEW to \in Pairs
    PROVE  /\ DeltaResult(from, to) = "ok" => Before(from, to) /\ Delta(from, to) < Modulus
           /\ DeltaResult(from, to) = "past" => ~Before(from, to) \/ Delta(from, to) < MinTicks
           /\ ~Before(from, to) => DeltaResult(from, to) = "past"
           /\ DeltaResult(from, to) \in {"ok", "past", "range"}
           /\ Before(from, to) => Delta(from, to) \in Nat
<1>0. Modulus \in Nat /\ MinTicks \in Nat
  BY DEF RtcConstantsOK
<1>1. CASE ~Before(from, to)
  <2>1. DeltaResult(from, to) = "past"
    BY <1>1 DEF DeltaResult
  <2> QED  BY <1>1, <2>1
<1>2. CASE Before(from, to)
  <2>1. Delta(from, to) \in Nat
    BY <1>2, DeltaIs
  <2>2. DeltaResult(from, to) = IF Delta(from, to) >= Modulus THEN "range"
                                ELSE IF Delta(from, to) < MinTicks THEN "past" ELSE "ok"
    BY <1>2 DEF DeltaResult
  <2> QED  BY <1>0, <1>2, <2>1, <2>2
<1> QED  BY <1>1, <1>2

\* A clock that is set to t, alarm or not: what is to be programmed.
LEMMA SetTimeStep == ASSUME RtcConstantsOK, RtcInv, InHorizon, NEW t \in Times, SetTime(t) PROVE RtcInv'
<1>0. /\ Modulus \in Nat \ {0} /\ counter \in 0 .. Modulus - 1 /\ StartCounter \in 0 .. Modulus - 1
      /\ MinTicks \in Nat /\ MinTicks < Modulus /\ Guard \in Nat \ {0}
  BY DEF RtcConstantsOK, RtcInv, RtcTypes
<1>1. t \in Pairs
  BY TimesArePairs
<1>2. /\ base' = t /\ counterBase' = counter /\ alarm' = alarm /\ ready' = ready
      /\ offset' = offset + Total(Now) - Total(t)
  BY DEF SetTime
<1>3. offset' \in Int
  <2>1. Total(Now) \in Nat /\ Total(t) \in Nat /\ offset \in Int
    BY <1>1, NowIs, PairOf DEF RtcInv, RtcTypes
  <2> QED  BY <1>2, <2>1
<1>4. CASE ~Active
  <2>1. UNCHANGED <<counter, hwVars, waitForClock>>
    BY <1>4 DEF SetTime
  <2>2. Since' = 0 /\ Elapsed' = Elapsed /\ Elapsed \in Nat
    BY <1>0, <1>2, <2>1, TicksAre DEF Since, Elapsed
  <2>3. RtcTypes'
    BY <1>1, <1>2, <1>3, <2>1 DEF RtcInv, RtcTypes, hwVars
  <2> QED  BY <1>2, <1>4, <2>1, <2>2, <2>3, NoneKept DEF Active
<1>5. CASE Active
  <2> DEFINE delta == IF PutsPast(t) THEN MinTicks ELSE Delta(t, alarm)
  <2>1. /\ ProgramCounter(counter, (counter + delta) % Modulus, delta)
        /\ waitForClock' = Waits(t) /\ DeltaResult(t, alarm) # "range"
    BY <1>5 DEF SetTime
  <2>2. alarm \in Pairs
    BY <1>5, AlarmsAre DEF RtcInv
  <2>3. /\ PutsPast(t) => ~Before(t, alarm) \/ Delta(t, alarm) < MinTicks
        /\ ~Before(t, alarm) => PutsPast(t)
    BY <1>1, <2>2, ResultIs DEF PutsPast
  <2>4. ~PutsPast(t) => Before(t, alarm) /\ Delta(t, alarm) < Modulus
    BY <1>1, <2>1, <2>2, ResultIs DEF PutsPast
  <2>5. Before(t, alarm) => Delta(t, alarm) \in Nat
    BY <1>1, <2>2, ResultIs
  <2>6. delta \in 0 .. Modulus - 1
    BY <1>0, <2>4, <2>5
  <2>7. Ticks(counter, counter) = 0 /\ 0 <= Elapsed
    BY <1>0, TicksAre DEF Elapsed
  <2> DEFINE since == Ticks(counter, counter')
             left == Ticks(counter', alarmCompare')
  <2>8. /\ armed' = TRUE /\ pending' = FALSE
        /\ counter' \in 0 .. Modulus - 1 /\ alarmCompare' \in 0 .. Modulus - 1
        /\ since \in Nat /\ left \in Nat \ {0} /\ since <= Elapsed'
        /\ 0 <= since /\ 0 + delta <= since + left
        /\ left > 8 * Guard => since + left = 0 + delta
    <3> HIDE DEF delta
    <3> QED  BY <1>0, <2>1, <2>6, <2>7, ProgrammedAhead
  <2>9. Since' = since /\ Left' = left
    BY <1>2 DEF Since, Left
  <2> HIDE DEF since, left
  <2>10. Meets(alarm, t, since, left)
    <3>1. CASE PutsPast(t)
      <4>1. delta = MinTicks
        BY <3>1
      <4>2. Total(alarm) <= Total(t) + Passed(0 + MinTicks)
        BY <1>1, <2>2, <2>3, <3>1, SoonAfter
      <4> HIDE DEF delta
      <4> QED  BY <1>1, <2>2, <2>8, <4>1, <4>2, SoonMeets
    <3>2. CASE ~PutsPast(t)
      <4>1. delta = Delta(t, alarm) /\ Before(t, alarm)
        BY <2>4, <3>2
      <4>2. Total(t) = Total(t) + Passed(0)
        BY <1>1, PairOf, PassedNothing
      <4> HIDE DEF delta
      <4> QED  BY <1>1, <2>2, <2>8, <4>1, <4>2, AheadMeets
    <3> QED  BY <3>1, <3>2
  <2>11. waitForClock' = (waitForClock \/ PutsPast(t))
    BY <2>1 DEF Waits
  <2>12. Before(t, alarm) \/ waitForClock'
    BY <2>3, <2>11
  <2>13. RtcTypes'
    <3>1. waitForClock' \in BOOLEAN
      BY <2>11
    <3>2. armed' \in BOOLEAN /\ pending' \in BOOLEAN
      BY <2>8
    <3>3. ready' \in BOOLEAN /\ alarm' \in Pairs \cup {NoAlarm}
      BY <1>2 DEF RtcInv, RtcTypes
    <3> QED  BY <1>0, <1>1, <1>2, <1>3, <2>8, <3>1, <3>2, <3>3 DEF RtcTypes
  <2>14. Kept'
    <3>1. ready'
      BY <1>2, <1>5 DEF RtcInv, Kept
    <3> QED  BY <1>2, <2>8, <2>9, <2>10, <2>12, <3>1 DEF Kept
  <2> QED  BY <2>8, <2>9, <2>13, <2>14 DEF RtcInv
<1> QED  BY <1>4, <1>5

LEMMA ProgramStep ==
    ASSUME RtcConstantsOK, RtcInv, InHorizon, NEW t \in Pairs, ProgramAlarm(t) PROVE RtcInv'
<1>0. /\ Modulus \in Nat \ {0} /\ counter \in 0 .. Modulus - 1 /\ StartCounter \in 0 .. Modulus - 1
      /\ counterBase \in 0 .. Modulus - 1
  BY DEF RtcConstantsOK, RtcInv, RtcTypes
<1>1. /\ base \in Pairs /\ Now \in Pairs /\ Total(Now) = Total(base) + Passed(Since)
      /\ Since \in Nat /\ Passed(Since) \in Nat /\ Total(base) \in Nat
  BY NowIs DEF RtcInv, RtcTypes
<1> DEFINE delta == Delta(Now, t)
<1>2. /\ UNCHANGED <<base, counterBase, ready, offset>> /\ ready
      /\ alarm' = t /\ waitForClock' = FALSE
      /\ ProgramCounter(counter, (counter + delta) % Modulus, delta)
  BY DEF ProgramAlarm
<1>3. Before(Now, t) /\ delta < Modulus
  <2>1. DeltaResult(Now, t) = "ok"
    BY DEF ProgramAlarm
  <2> QED  BY <1>1, <2>1, ResultIs
<1>4. delta \in 0 .. Modulus - 1
  BY <1>0, <1>1, <1>3, DeltaIs
<1> DEFINE since == Ticks(counterBase, counter')
           left == Ticks(counter', alarmCompare')
<1>5. /\ armed' = TRUE /\ pending' = FALSE
      /\ counter' \in 0 .. Modulus - 1 /\ alarmCompare' \in 0 .. Modulus - 1
      /\ since \in Nat /\ left \in Nat \ {0} /\ since <= Elapsed'
      /\ Since + delta <= since + left
      /\ left > 8 * Guard => since + left = Since + delta
  <2> HIDE DEF delta
  <2>1. Ticks(counterBase, counter) <= Elapsed
    BY DEF RtcInv, Since
  <2> QED  BY <1>0, <1>2, <1>4, <2>1, ProgrammedAhead DEF Since
<1>6. Since' = since /\ Left' = left
  BY <1>2 DEF Since, Left
<1> HIDE DEF since, left
<1>7. Meets(t, base, since, left)
  BY <1>1, <1>3, <1>5, AheadMeets
<1>8. Before(base, t)
  <2>1. Total(Now) < Total(t) /\ Total(t) \in Nat
    BY <1>1, <1>3, OrderOf, PairOf
  <2>2. Total(base) < Total(t)
    BY <1>1, <2>1
  <2> QED  BY <1>1, <2>2, OrderOf
<1>9. RtcTypes'
  <2>1. /\ ready' \in BOOLEAN /\ waitForClock' \in BOOLEAN
        /\ armed' \in BOOLEAN /\ pending' \in BOOLEAN
    BY <1>2, <1>5 DEF RtcInv, RtcTypes
  <2> QED  BY <1>0, <1>1, <1>2, <1>5, <2>1 DEF RtcInv, RtcTypes
<1>10. Kept'
  BY <1>2, <1>5, <1>6, <1>7, <1>8 DEF Kept
<1> QED  BY <1>5, <1>6, <1>9, <1>10 DEF RtcInv

LEMMA RelativeIsPair ==
    ASSUME RtcConstantsOK, RtcInv, NEW sec \in RelTimes PROVE <<Now[1] + sec, Now[2]>> \in Pairs
<1>1. Now[1] \in Nat /\ Now[2] \in Nat /\ Now[2] < Nsec /\ sec \in Nat /\ Nsec \in Nat
  BY NowIs, PairOf DEF RtcInv, RtcConstantsOK
<1> QED  BY <1>1 DEF Pairs

\* The interrupt either calls back or asks again, two ticks later.
LEMMA InterruptStep == ASSUME RtcConstantsOK, RtcInv, InHorizon, Interrupt PROVE RtcInv'
<1>0. /\ Modulus \in Nat \ {0} /\ counter \in 0 .. Modulus - 1 /\ StartCounter \in 0 .. Modulus - 1
      /\ counterBase \in 0 .. Modulus - 1 /\ MinTicks \in Nat /\ MinTicks < Modulus
  BY DEF RtcConstantsOK, RtcInv, RtcTypes
<1>1. CASE Active /\ waitForClock /\ SystemBefore
  <2>1. /\ ProgramCounter(counter, (counter + MinTicks) % Modulus, MinTicks)
        /\ UNCHANGED softVars /\ UNCHANGED offset /\ pending
    BY <1>1 DEF Interrupt
  <2> DEFINE since == Ticks(counterBase, counter')
             left == Ticks(counter', alarmCompare')
  <2>2. Ticks(counterBase, counter) <= Elapsed /\ MinTicks \in 0 .. Modulus - 1
    BY <1>0 DEF RtcInv, Since
  <2>3. /\ armed' = TRUE /\ pending' = FALSE
        /\ counter' \in 0 .. Modulus - 1 /\ alarmCompare' \in 0 .. Modulus - 1
        /\ since \in Nat /\ left \in Nat \ {0} /\ since <= Elapsed'
        /\ Since <= since /\ Since + MinTicks <= since + left
        /\ left > 8 * Guard => since + left = Since + MinTicks
    BY <1>0, <2>1, <2>2, ProgrammedAhead DEF Since
  <2>4. Since' = since /\ Left' = left
    BY <2>1 DEF Since, Left, softVars
  <2> HIDE DEF since, left
  <2>5. base \in Pairs /\ alarm \in Pairs /\ Since \in Nat /\ Total(base) \in Nat /\ Total(alarm) \in Nat
    BY <1>1, NowIs, AlarmsAre, PairOf DEF RtcInv, RtcTypes
  <2>6. Total(alarm) <= Total(base) + Passed(Since + MinTicks)
    <3>1. Total(alarm) <= Total(base) + Passed(Since)
      BY <1>1, <2>1 DEF RtcInv, Kept
    <3>2. Since + MinTicks \in Nat /\ Since <= Since + MinTicks
      BY <1>0, <2>5
    <3>3. Passed(Since) <= Passed(Since + MinTicks) /\ Passed(Since) \in Nat /\ Passed(Since + MinTicks) \in Nat
      BY <2>5, <3>2, PassedGrows
    <3> QED  BY <2>5, <3>1, <3>3
  <2>7. Meets(alarm, base, since, left)
    BY <2>3, <2>5, <2>6, SoonMeets
  <2>8. RtcTypes'
    <3>1. armed' \in BOOLEAN /\ pending' \in BOOLEAN
      BY <2>3
    <3> QED  BY <2>1, <2>3, <3>1 DEF RtcInv, RtcTypes, softVars
  <2>9. Kept'
    <3>1. ready /\ (Before(base, alarm) \/ waitForClock) /\ waitForClock
      BY <1>1 DEF RtcInv, Kept
    <3> QED  BY <2>1, <2>3, <2>4, <2>7, <3>1 DEF Kept, softVars
  <2> QED  BY <2>3, <2>4, <2>8, <2>9 DEF RtcInv
<1>2. CASE ~(Active /\ waitForClock /\ SystemBefore)
  <2>1. /\ ClearAlarmHardware /\ alarm' = NoAlarm
        /\ waitForClock' = (waitForClock /\ ~Active)
        /\ UNCHANGED <<base, counterBase, ready, counter, offset>>
    BY <1>2 DEF Interrupt
  <2>2. ready' \in BOOLEAN /\ waitForClock' \in BOOLEAN
    BY <2>1 DEF RtcInv, RtcTypes
  <2> QED  BY <2>1, <2>2, ClearStep
<1> QED  BY <1>1, <1>2

LEMMA RtcInvInit == ASSUME RtcConstantsOK, RtcInit PROVE RtcInv
<1>0. Modulus \in Nat \ {0} /\ counter \in 0 .. Modulus - 1 /\ counter = StartCounter
  BY DEF RtcConstantsOK, RtcInit
<1>1. StartTime \in Pairs
  BY TimesArePairs
<1>2. Since = 0 /\ Elapsed = 0
  BY <1>0, TicksAre DEF Since, Elapsed, RtcInit
<1>3. RtcTypes
  <2>1. /\ ready \in BOOLEAN /\ waitForClock \in BOOLEAN
        /\ armed \in BOOLEAN /\ pending \in BOOLEAN
    BY DEF RtcInit
  <2>2. /\ base = StartTime /\ alarm = NoAlarm /\ counterBase = counter
        /\ alarmCompare = 0 /\ offset = 0 /\ 0 \in 0 .. Modulus - 1
    BY <1>0 DEF RtcInit
  <2> QED  BY <1>0, <1>1, <2>1, <2>2 DEF RtcTypes
<1>4. Kept
  BY DEF Kept, Active, RtcInit
<1> QED  BY <1>2, <1>3, <1>4 DEF RtcInv

LEMMA RtcInvNext == ASSUME RtcConstantsOK, RtcInv, [RtcNext]_rtcVars PROVE RtcInv'
<1>1. CASE UNCHANGED rtcVars
  BY <1>1, StutterStep
<1>2. ASSUME InHorizon, NEW attached \in BOOLEAN, Reset(attached) PROVE RtcInv'
  BY <1>2, ResetStep
<1>3. ASSUME InHorizon, NEW t \in Times, SetTime(t) PROVE RtcInv'
  BY <1>3, SetTimeStep
<1>4. ASSUME InHorizon, NEW t \in Times, SetAlarm(t) PROVE RtcInv'
  <2>1. t \in Pairs
    BY TimesArePairs
  <2> QED  BY <1>4, <2>1, ProgramStep DEF SetAlarm
<1>5. ASSUME InHorizon, NEW sec \in RelTimes, SetRelative(sec) PROVE RtcInv'
  BY <1>5, RelativeIsPair, ProgramStep DEF SetRelative
<1>6. CASE InHorizon /\ Synchronize
  BY <1>6, SynchronizeStep
<1>7. CASE InHorizon /\ CancelAlarm
  BY <1>7, ClearStep DEF CancelAlarm, RtcInv, RtcTypes
<1>8. CASE InHorizon /\ Destroy
  BY <1>8, ClearStep DEF Destroy, RtcInv, RtcTypes
<1>9. CASE InHorizon /\ Interrupt
  BY <1>9, InterruptStep
<1>10. CASE InHorizon /\ RtcTick
  BY <1>10, RtcTickStep
<1> QED  BY <1>1, <1>2, <1>3, <1>4, <1>5, <1>6, <1>7, <1>8, <1>9, <1>10 DEF RtcNext

LEMMA RtcInvImplies == ASSUME RtcConstantsOK, RtcInv PROVE RtcTypeOK /\ NeverLost
<1>0. Guard \in Nat /\ Modulus \in Nat \ {0}
  BY DEF RtcConstantsOK
<1>1. RtcTypeOK
  BY NowIs DEF RtcInv, RtcTypes, RtcTypeOK, Pairs
<1>2. ASSUME Active PROVE NeverLost
  <2>1. ready /\ (~pending => armed /\ Left # 0 /\ Meets(alarm, base, Since, Left))
    BY <1>2 DEF RtcInv, Kept
  <2>2. alarm \in Pairs /\ base \in Pairs /\ Since \in Nat
    BY <1>2, AlarmsAre, NowIs DEF RtcInv, RtcTypes
  <2>3. Left \in Nat
    BY <1>0, TicksAre DEF Left, RtcInv, RtcTypes
  <2>4. ASSUME ~pending, Left > 8 * Guard PROVE ~Before(alarm, TimeAt(Since + Left - 8 * Guard))
    <3> DEFINE n == Since + Left - 8 * Guard
    <3>1. n \in Nat
      BY <1>0, <2>2, <2>3, <2>4
    <3>2. Total(base) + Passed(n) <= Total(alarm)
      BY <2>1, <2>4 DEF Meets
    <3> HIDE DEF n
    <3>3. TimeAt(n) \in Pairs /\ Total(TimeAt(n)) = Total(base) + Passed(n)
      BY <2>2, <3>1, TimeIs
    <3>4. Total(alarm) \in Nat /\ Total(TimeAt(n)) \in Nat
      BY <2>2, <3>3, PairOf
    <3>5. ~Before(alarm, TimeAt(n))
      BY <2>2, <3>2, <3>3, <3>4, OrderOf
    <3> QED  BY <3>5 DEF n
  <2> QED  BY <2>1, <2>4 DEF NeverLost, Since, Left
<1>3. ASSUME ~Active PROVE NeverLost
  BY <1>3 DEF NeverLost
<1> QED  BY <1>1, <1>2, <1>3

\* What the callback finds.
LEMMA CallbackIsDue ==
    ASSUME RtcConstantsOK, RtcInv, AlarmCalled
    PROVE  ~Before(Now, alarm) /\ (~Before(base, alarm) => ~SystemBefore)
<1>1. Active /\ pending /\ ~(Active /\ waitForClock /\ SystemBefore)
  BY DEF AlarmCalled, Interrupt, softVars, Active
<1>2. alarm \in Pairs /\ Total(alarm) \in Nat
  BY <1>1, AlarmsAre, PairOf DEF RtcInv
<1>3. Now \in Pairs /\ Total(Now) = Total(base) + Passed(Since) /\ Total(Now) \in Nat
  BY NowIs, PairOf DEF RtcInv
<1>4. Total(alarm) <= Total(Now) /\ (Before(base, alarm) \/ waitForClock)
  BY <1>1, <1>3 DEF RtcInv, Kept
<1> QED  BY <1>1, <1>2, <1>3, <1>4, OrderOf

\* A programmed alarm is neither lost, nor early, nor reported before the system
\* clock knows its time, for any frequency and width of the counter, any guard
\* window, and any latencies of its registers below the last window of the
\* programming loop.
THEOREM AlarmIsOnTime == ASSUME RtcConstantsOK PROVE RtcSpec => AlarmOnTime
<1>1. RtcInit => RtcInv
  BY RtcInvInit
<1>2. RtcInv /\ [RtcNext]_rtcVars => RtcInv'
  BY RtcInvNext
<1>3. RtcInv => RtcTypeOK /\ NeverLost
  BY RtcInvImplies
<1>4. RtcInv /\ [RtcNext]_rtcVars => [AlarmCalled => ~Before(Now, alarm)]_rtcVars
  BY CallbackIsDue
<1>5. RtcInv /\ [RtcNext]_rtcVars => [AlarmCalled /\ ~Before(base, alarm) => ~SystemBefore]_rtcVars
  BY CallbackIsDue
<1> QED  BY <1>1, <1>2, <1>3, <1>4, <1>5, PTL DEF RtcSpec, AlarmOnTime, NeverEarly, SystemClockFirst
=============================================================================
