---------------------------- MODULE Buses_proofs ---------------------------
(***************************************************************************)
(* Proofs about SpiBus, for any number of clients, devices, items and      *)
(* values and any limit of the reference count: type correctness, the bus  *)
(* is up while it is referenced, and data moves only with the settings and *)
(* to the device that the client asked for.  And about Pwm, for any source *)
(* clock and any width of the fields: the output is the one asked for, and *)
(* no other setting comes closer to its frequency.                         *)
(***************************************************************************)
EXTENDS SpiBus, Pwm, FiniteSetTheorems, WellFoundedInduction, TLAPS

\* The references that clients have, as a set: the n-th of a client is <<t, n>>.
References == {r \in Clients \X (Nat \ {0}) : r[2] <= mine[r[1]]}

\* The count is the number of references that clients have.
Counted == IsFiniteSet(References) /\ refs = Cardinality(References)

\* The holder of the lock has a reference; without a holder no turn is begun.
Turn ==
    /\ lock # NoClient => mine[lock] > 0
    /\ lock = NoClient => asked = Nothing /\ target = NoDev

\* The chip select that is asserted is the one of the selected device.
OneSelect ==
    /\ asserted = IF selected = NoDev THEN {} ELSE {selected}
    /\ target # NoDev => selectionError \/ selected = target
    /\ refs = 0 => selected = NoDev

\* The copy is what the controller has, but for items in error.
CopyProgrammed ==
    refs > 0 => clock /\ \A i \in Items \ configError : hw[i] = cache[i]

\* So is what the holder of the lock asked for.
AsAsked ==
    \A i \in Items \ configError : asked[i] # Unknown => hw[i] = asked[i]

Inv == TypeOK /\ Counted /\ Turn /\ OneSelect /\ CopyProgrammed /\ AsAsked /\ ErrorRemembered
-----------------------------------------------------------------------------
(* The reference count                                                     *)

LEMMA TakeReference ==
  ASSUME TypeOK, Counted, NEW t \in Clients,
         mine' = [mine EXCEPT ![t] = @ + 1], refs' = refs + 1
  PROVE  Counted'
  <1> DEFINE new == <<t, mine[t] + 1>>
  <1>1. mine \in [Clients -> Nat] /\ refs \in Nat
    BY RefsAssumption DEF TypeOK
  <1>2. new \notin References
    BY <1>1 DEF References
  <1>3. References' = References \cup {new}
    BY <1>1 DEF References
  <1>4. IsFiniteSet(References \cup {new})
        /\ Cardinality(References \cup {new}) = Cardinality(References) + 1
    BY <1>2, FS_AddElement DEF Counted
  <1> QED
    BY <1>3, <1>4 DEF Counted

LEMMA GiveReference ==
  ASSUME TypeOK, Counted, NEW t \in Clients, mine[t] > 0,
         mine' = [mine EXCEPT ![t] = @ - 1], refs' = refs - 1
  PROVE  Counted' /\ refs > 0
  <1> DEFINE old == <<t, mine[t]>>
  <1>1. mine \in [Clients -> Nat] /\ refs \in Nat
    BY RefsAssumption DEF TypeOK
  <1>2. old \in References
    BY <1>1 DEF References
  <1>3. References' = References \ {old}
    BY <1>1 DEF References
  <1>4. IsFiniteSet(References \ {old})
        /\ Cardinality(References \ {old}) = Cardinality(References) - 1
    BY <1>2, FS_RemoveElement DEF Counted
  <1>5. refs # 0
    BY <1>2, FS_EmptySet DEF Counted
  <1> QED
    BY <1>1, <1>3, <1>4, <1>5 DEF Counted

LEMMA KeepReferences ==
  ASSUME Counted, mine' = mine, refs' = refs
  PROVE  Counted'
  BY DEF Counted, References

\* A client with a reference is counted.
LEMMA ReferenceCounts ==
  ASSUME TypeOK, Counted, NEW t \in Clients, mine[t] > 0
  PROVE  refs > 0
  <1>1. mine \in [Clients -> Nat] /\ refs \in Nat
    BY RefsAssumption DEF TypeOK
  <1>2. <<t, mine[t]>> \in References
    BY <1>1 DEF References
  <1> QED
    BY <1>1, <1>2, FS_EmptySet DEF Counted

\* The holder of the lock works on a bus that is up.
LEMMA HolderIsUp ==
  ASSUME Inv, NEW t \in Clients, lock = t
  PROVE  refs > 0 /\ t # NoClient
  BY ReferenceCounts, ClientsAssumption DEF Inv, Turn
-----------------------------------------------------------------------------
(* The invariant                                                           *)

LEMMA InitInv ==
  ASSUME Init
  PROVE  Inv
  <1>1. TypeOK
    <2>1. selectionError \in BOOLEAN /\ lastError \in BOOLEAN /\ clock \in BOOLEAN
      BY DEF Init
    <2>2. refs \in 0 .. MaxRefs
      BY RefsAssumption DEF Init
    <2>3. cache \in [Items -> Values] /\ hw = Nothing
          /\ Nothing \in [Items -> Values \cup {Unknown}]
      BY ValuesAssumption DEF Init, Nothing
    <2>4. mine \in [Clients -> Nat] /\ asked = Nothing
      BY DEF Init
    <2> QED
      BY <2>1, <2>2, <2>3, <2>4 DEF Init, TypeOK
  <1>2. References = {}
    BY DEF Init, References
  <1>3. Counted
    BY <1>2, FS_EmptySet DEF Init, Counted
  <1> QED
    BY <1>1, <1>3 DEF Init, Inv, Turn, OneSelect, CopyProgrammed, AsAsked,
       ErrorRemembered, Nothing

LEMMA TypeStep ==
  ASSUME TypeOK, Counted, [Next]_vars
  PROVE  TypeOK'
  <1> USE DEF TypeOK, Nothing
  <1>0. refs \in Nat /\ MaxRefs \in Nat
    BY RefsAssumption
  <1>1. ASSUME InitializeFails PROVE TypeOK'
    BY <1>1 DEF InitializeFails, cfgVars, selVars, sessionVars
  <1>2. ASSUME NEW t \in Clients, Initialize(t) PROVE TypeOK'
    <2>1. refs' = refs + 1 /\ refs' <= MaxRefs
      BY <1>0, <1>2, RefsAssumption DEF Initialize, RoomForReference
    <2>2. mine' \in [Clients -> Nat]
      BY <1>2 DEF Initialize
    <2>3. cache' \in [Items -> Values] /\ hw' \in [Items -> Values \cup {Unknown}]
      BY <1>2, ValuesAssumption DEF Initialize, cfgVars
    <2>4. selectionError' \in BOOLEAN /\ lastError' \in BOOLEAN /\ clock' \in BOOLEAN
      BY <1>2 DEF Initialize, selVars
    <2>5. /\ configError' \subseteq Items /\ selected' \in Devs \cup {NoDev}
          /\ asserted' = asserted /\ lock' = lock
          /\ asked' = asked /\ target' = target
      BY <1>2 DEF Initialize, cfgVars, selVars, sessionVars
    <2> QED
      BY <1>0, <2>1, <2>2, <2>3, <2>4, <2>5
  <1>3. ASSUME NEW t \in Clients, Uninitialize(t) PROVE TypeOK'
    <2>1. refs > 0
      BY <1>3, ReferenceCounts DEF Uninitialize
    <2>2. refs' \in 0 .. MaxRefs
      BY <1>0, <1>3, <2>1 DEF Uninitialize
    <2>3. mine' \in [Clients -> Nat]
      BY <1>3 DEF Uninitialize
    <2>4. clock' \in BOOLEAN /\ hw' \in [Items -> Values \cup {Unknown}]
      BY <1>3 DEF Uninitialize, cfgVars
    <2> QED
      BY <1>3, <2>2, <2>3, <2>4 DEF Uninitialize, cfgVars, selVars, sessionVars
  <1>4. ASSUME NEW t \in Clients, Lock(t) PROVE TypeOK'
    BY <1>4 DEF Lock, Taken, cfgVars, selVars, sessionVars
  <1>5. ASSUME NEW t \in Clients, Unlock(t) PROVE TypeOK'
    BY <1>5 DEF Unlock, cfgVars, selVars
  <1>6. ASSUME NEW t \in Clients, Exchange(t) PROVE TypeOK'
    BY <1>6 DEF Exchange, Moved, cfgVars, selVars, sessionVars
  <1>7. ASSUME NEW t \in Clients, ExchangeFails(t) PROVE TypeOK'
    BY <1>7 DEF ExchangeFails, MoveFailed, Recovered, cfgVars, selVars, sessionVars
  <1>8. ASSUME NEW t \in Clients, ExchangeInvalid(t) PROVE TypeOK'
    BY <1>8 DEF ExchangeInvalid, NotMoved, cfgVars, selVars, sessionVars
  <1>9. ASSUME NEW t \in Clients, NEW d \in Devs \cup {Strange}, Select(t, d)
        PROVE  TypeOK'
    BY <1>9 DEF Select, Chosen, Accepts, cfgVars
  <1>10. ASSUME NEW t \in Clients, NEW d \in Devs \cup {Strange}, Deselect(t, d)
         PROVE  TypeOK'
    BY <1>10 DEF Deselect, Dropped, cfgVars
  <1>11. ASSUME NEW t \in Clients, NEW i \in Items, NEW v \in Values,
                SetItem(t, i, v) \/ SetItemCached(t, i, v)
         PROVE  TypeOK'
    <2>1. asked' \in [Items -> Values \cup {Unknown}]
      BY <1>11 DEF SetItem, Written, SetItemCached, LeftAlone
    <2>2. lastError' \in BOOLEAN
      BY <1>11 DEF SetItem, Written, SetItemCached, LeftAlone, ErrorAfter
    <2>3. /\ cache' \in [Items -> Values] /\ configError' \subseteq Items
          /\ hw' \in [Items -> Values \cup {Unknown}]
      BY <1>11 DEF SetItem, Written, SetItemCached, LeftAlone, cfgVars
    <2> QED
      BY <1>11, <2>1, <2>2, <2>3 DEF SetItem, Written, SetItemCached, LeftAlone, selVars
  <1>12. ASSUME NEW t \in Clients, NEW i \in Items, NEW v \in Values,
                SetItemFails(t, i, v)
         PROVE  TypeOK'
    <2>1. asked' \in [Items -> Values \cup {Unknown}]
      BY <1>12 DEF SetItemFails, NotWritten
    <2>2. hw' \in [Items -> Values \cup {Unknown}]
      BY <1>12 DEF SetItemFails, NotWritten
    <2> QED
      BY <1>12, <2>1, <2>2 DEF SetItemFails, NotWritten, selVars
  <1>13. CASE UNCHANGED vars
    BY <1>13 DEF vars, cfgVars, selVars, sessionVars
  <1> QED
    BY <1>1, <1>2, <1>3, <1>4, <1>5, <1>6, <1>7, <1>8, <1>9, <1>10, <1>11,
       <1>12, <1>13 DEF Next

\* What the steps of a turn, and the rest, do to the other parts of Inv.
Parts == Turn /\ OneSelect /\ CopyProgrammed /\ AsAsked /\ ErrorRemembered

LEMMA PartsStep ==
  ASSUME Inv, TypeOK', [Next]_vars
  PROVE  Parts'
  <1> USE DEF Parts, Turn, OneSelect, CopyProgrammed, AsAsked, ErrorRemembered
  <1>0. /\ Parts /\ TypeOK /\ Counted
        /\ \A t \in Clients : lock = t => refs > 0 /\ t # NoClient
        /\ \A t \in Clients : mine[t] > 0 => refs > 0
        /\ refs \in Nat
    BY HolderIsUp, ReferenceCounts, RefsAssumption DEF Inv, TypeOK
  <1>1. ASSUME InitializeFails PROVE Parts'
    BY <1>0, <1>1 DEF InitializeFails, cfgVars, selVars, sessionVars
  <1>2. ASSUME NEW t \in Clients, Initialize(t) PROVE Parts'
    <2>1. CASE refs > 0
      <3>1. /\ lastError' = lastError /\ clock' = clock
            /\ cache' = cache /\ configError' = configError /\ hw' = hw
            /\ selected' = selected /\ selectionError' = selectionError
            /\ asserted' = asserted
        BY <1>2, <2>1 DEF Initialize, cfgVars, selVars
      <3>2. /\ refs' > 0 /\ lock' = NoClient /\ lock = NoClient
            /\ asked' = asked /\ target' = target
        BY <1>0, <1>2 DEF Initialize, sessionVars
      <3> QED
        BY <1>0, <2>1, <3>1, <3>2
    <2>2. CASE refs = 0
      BY <1>0, <1>2, <2>2
      DEF Initialize, cfgVars, selVars, sessionVars, Nothing
    <2> QED
      BY <1>0, <2>1, <2>2
  <1>3. ASSUME NEW t \in Clients, Uninitialize(t) PROVE Parts'
    <2>1. CASE LastReference
      BY <1>0, <1>3, <2>1
      DEF Uninitialize, LastReference, sessionVars, Nothing
    <2>2. CASE ~LastReference
      BY <1>0, <1>3, <2>2
      DEF Uninitialize, LastReference, cfgVars, selVars, sessionVars
    <2> QED
      BY <2>1, <2>2
  <1>4. ASSUME NEW t \in Clients, Lock(t) PROVE Parts'
    BY <1>0, <1>4 DEF Lock, Taken, cfgVars, selVars, sessionVars
  <1>5. ASSUME NEW t \in Clients, Unlock(t) PROVE Parts'
    BY <1>0, <1>5 DEF Unlock, cfgVars, selVars, Nothing
  <1>6. ASSUME NEW t \in Clients, Exchange(t) \/ ExchangeInvalid(t) PROVE Parts'
    BY <1>0, <1>6
    DEF Exchange, Moved, ExchangeInvalid, NotMoved, Suppressed, cfgVars, selVars, sessionVars
  <1>7. ASSUME NEW t \in Clients, ExchangeFails(t) PROVE Parts'
    <2>1. \A i \in Items \ configError : hw'[i] = hw[i]
      BY <1>0, <1>7 DEF ExchangeFails, MoveFailed, Recovered
    <2> QED
      BY <1>0, <1>7, <2>1
      DEF ExchangeFails, MoveFailed, Recovered, cfgVars, selVars, sessionVars
  <1>8. ASSUME NEW t \in Clients, NEW d \in Devs \cup {Strange}, Select(t, d)
        PROVE  Parts'
    <2>1. d # NoDev /\ NoDev \notin Devs /\ Strange \notin Devs
      BY DevsAssumption
    <2>2. CASE Accepts(d)
      BY <1>0, <1>8, <2>1, <2>2 DEF Select, Chosen, Accepts, DeselectFirst, cfgVars, TypeOK
    <2>3. CASE ~Accepts(d)
      BY <1>0, <1>8, <2>1, <2>3 DEF Select, Chosen, Accepts, DeselectFirst, cfgVars, TypeOK
    <2> QED
      BY <2>2, <2>3
  <1>9. ASSUME NEW t \in Clients, NEW d \in Devs \cup {Strange}, Deselect(t, d)
        PROVE  Parts'
    <2>1. d # NoDev
      BY DevsAssumption
    <2> QED
      BY <1>0, <1>9, <2>1 DEF Deselect, Dropped, cfgVars
  <1>10. ASSUME NEW t \in Clients, NEW i \in Items, NEW v \in Values,
                SetItem(t, i, v) \/ SetItemCached(t, i, v)
         PROVE  Parts'
    <2>1. CASE SetItem(t, i, v)
      BY <1>0, <1>10, <2>1 DEF SetItem, Written, ErrorAfter, selVars, TypeOK
    <2>2. CASE SetItemCached(t, i, v)
      BY <1>0, <1>10, <2>2
      DEF SetItemCached, LeftAlone, Cached, cfgVars, selVars, TypeOK
    <2> QED
      BY <1>10, <2>1, <2>2
  <1>11. ASSUME NEW t \in Clients, NEW i \in Items, NEW v \in Values,
                SetItemFails(t, i, v)
         PROVE  Parts'
    <2>1. \A j \in Items : j # i => hw'[j] = hw[j] /\ asked'[j] = asked[j]
      BY <1>11 DEF SetItemFails, NotWritten, TypeOK
    <2> QED
      BY <1>0, <1>11, <2>1 DEF SetItemFails, NotWritten, selVars
  <1>12. CASE UNCHANGED vars
    BY <1>0, <1>12 DEF vars, cfgVars, selVars, sessionVars
  <1> QED
    BY <1>1, <1>2, <1>3, <1>4, <1>5, <1>6, <1>7, <1>8, <1>9, <1>10, <1>11,
       <1>12 DEF Next

LEMMA CountStep ==
  ASSUME Inv, [Next]_vars
  PROVE  Counted'
  <1>1. ASSUME NEW t \in Clients, Initialize(t) PROVE Counted'
    BY <1>1, TakeReference DEF Initialize, Inv
  <1>2. ASSUME NEW t \in Clients, Uninitialize(t) PROVE Counted'
    BY <1>2, GiveReference DEF Uninitialize, Inv
  <1>3. CASE UNCHANGED <<refs, mine>>
    BY <1>3, KeepReferences DEF Inv
  <1> QED
    BY <1>1, <1>2, <1>3
    DEF Next, vars, InitializeFails, Lock, Taken, Unlock, Exchange, Moved, ExchangeFails, MoveFailed,
        ExchangeInvalid, NotMoved, Select, Chosen, Deselect, Dropped, SetItem, Written, SetItemCached, LeftAlone, SetItemFails, NotWritten

LEMMA InvStep ==
  ASSUME Inv, [Next]_vars
  PROVE  Inv'
  <1>1. TypeOK'
    BY TypeStep DEF Inv
  <1> QED
    BY <1>1, PartsStep, CountStep DEF Inv, Parts

LEMMA InvAlways == Spec => []Inv
  BY InitInv, InvStep, PTL DEF Spec
-----------------------------------------------------------------------------
(* Theorems                                                                *)

\* The variables of the driver keep their types; in particular the 16-bit
\* reference count never passes its limit and never falls below zero.
THEOREM TypeCorrect == Spec => []TypeOK
  <1>1. Inv => TypeOK
    BY DEF Inv
  <1> QED
    BY <1>1, InvAlways, PTL

\* While any client has a reference, the controller is clocked and holds the
\* copy of its configuration, except for items in error.
THEOREM ReferencedIsUp == Spec => []BusUp
  <1>1. ASSUME Inv PROVE BusUp
    BY <1>1, ReferenceCounts DEF Inv, CopyProgrammed, BusUp
  <1> QED
    BY <1>1, InvAlways, PTL

\* An item in error is remembered in last_error.
THEOREM ErrorsRemembered == Spec => []ErrorRemembered
  <1>1. Inv => ErrorRemembered
    BY DEF Inv
  <1> QED
    BY <1>1, InvAlways, PTL

\* Data moves only with the settings that the holder of the lock asked for.
THEOREM MovesAsAsked == Spec => ConfigAsAsked
  <1>1. ASSUME Inv, [Next]_vars
        PROVE  [Moves => \A i \in Items : asked[i] # Unknown => hw[i] = asked[i]]_vars
    BY <1>1 DEF Inv, AsAsked, Moves, Exchange, Moved, ExchangeFails, MoveFailed, Suppressed
  <1> QED
    BY <1>1, InvAlways, PTL DEF Spec, ConfigAsAsked

\* Data moves only to the one device that the holder of the lock selected.
THEOREM MovesToSelected == Spec => SelectedTalks
  <1>1. ASSUME Inv, [Next]_vars
        PROVE  [Moves /\ target # NoDev => asserted = {target}]_vars
    BY <1>1 DEF Inv, OneSelect, Moves, Exchange, Moved, ExchangeFails, MoveFailed, Suppressed
  <1> QED
    BY <1>1, InvAlways, PTL DEF Spec, SelectedTalks

\* Accepted pins get the signals that they were configured for, whatever the
\* swaps of the groups were.
THEOREM RoutedAsAsked ==
  ASSUME NEW miso, NEW mosi, PinsAccepted(miso, mosi),
         NEW swap \in [0 .. 3 -> BOOLEAN]
  PROVE  /\ SignalAt(ConfigurePins(swap, miso, mosi), miso) = "MISO"
         /\ SignalAt(ConfigurePins(swap, miso, mosi), mosi) = "MOSI"
  <1> DEFINE after == ConfigurePins(swap, miso, mosi)
  <1>1. /\ miso \in 0 .. 36 /\ mosi \in 0 .. 36
        /\ miso % 4 \in {2, 3} /\ mosi % 4 \in {2, 3}
        /\ miso \div 12 = mosi \div 12 => miso % 4 # mosi % 4
    BY DEF PinsAccepted
  <1>2. miso \div 12 \in DOMAIN swap /\ mosi \div 12 \in DOMAIN swap
    BY <1>1
  <1>3. after[miso \div 12] = (miso % 4 = 3)
    BY <1>2 DEF ConfigurePins
  <1>4. after[mosi \div 12] = (mosi % 4 = 2)
    <2>1. CASE miso \div 12 = mosi \div 12
      BY <1>1, <1>3, <2>1
    <2>2. CASE miso \div 12 # mosi \div 12
      BY <1>2, <2>2 DEF ConfigurePins, SwapOfMosi
    <2> QED
      BY <2>1, <2>2
  <1> HIDE DEF after
  <1> QED
    BY <1>1, <1>3, <1>4 DEF SignalAt, after
-----------------------------------------------------------------------------
(* Induction over numbers, from the theorem that "less than" on the natural *)
(* numbers is well-founded: with a set in place of a predicate.             *)

\* A set that has 0 and with each number its successor has every number.
LEMMA SetInduction ==
  ASSUME NEW S, 0 \in S, \A n \in Nat : n \in S => n + 1 \in S
  PROVE  Nat \subseteq S
  <1> DEFINE R == OpToRel(<, Nat)
             T == Nat \ S
  <1> SUFFICES ASSUME T # {} PROVE FALSE
    OBVIOUS
  <1>1. IsWellFoundedOn(R, Nat)
    BY NatLessThanWellFounded
  <1>2. T \subseteq Nat
    OBVIOUS
  <1> HIDE DEF T
  <1>3. PICK x \in T : \A y \in T : <<y, x>> \notin R
    BY <1>1, <1>2, WFMin
  <1>4. x # 0 /\ x - 1 \in Nat /\ x - 1 \in T
    <2>1. x \in Nat /\ x # 0 /\ x \notin S
      BY <1>3 DEF T
    <2>2. x - 1 \in Nat /\ (x - 1) + 1 = x
      BY <2>1
    <2>3. x - 1 \notin S
      BY <2>1, <2>2
    <2> QED
      BY <2>1, <2>2, <2>3 DEF T
  <1>5. <<x - 1, x>> \in R
    BY <1>2, <1>3, <1>4 DEF OpToRel
  <1> QED
    BY <1>3, <1>4, <1>5

-----------------------------------------------------------------------------
(* The search of the PWM                                                   *)

\* best is the search for frequency f up to divider n.
IsSearch(best, f, n) ==
    best = [d \in 0 .. n |-> IF d = 0 THEN NoSolution ELSE WithDivider(best[d - 1], f, d)]

LEMMA SearchExists ==
  ASSUME NEW f PROVE \A n \in Nat : \E best : IsSearch(best, f, n)
  <1> DEFINE S == {n \in Nat : \E best : IsSearch(best, f, n)}
  <1>1. 0 \in S
    <2> DEFINE g == [d \in 0 .. 0 |-> NoSolution]
    <2>1. g = [d \in 0 .. 0 |-> IF d = 0 THEN NoSolution ELSE WithDivider(g[d - 1], f, d)]
      OBVIOUS
    <2> HIDE DEF g
    <2> QED
      BY <2>1 DEF IsSearch
  <1>2. ASSUME NEW n \in Nat, n \in S PROVE n + 1 \in S
    <2>1. PICK best : IsSearch(best, f, n)
      BY <1>2
    <2> DEFINE longer == [d \in 0 .. n + 1 |->
                            IF d = n + 1 THEN WithDivider(best[n], f, n + 1) ELSE best[d]]
               body(d) == IF d = 0 THEN NoSolution ELSE WithDivider(longer[d - 1], f, d)
    <2>2. ASSUME NEW d \in 0 .. n + 1 PROVE longer[d] = body(d)
      <3>1. CASE d = n + 1
        <4>1. longer[d] = WithDivider(best[n], f, d) /\ longer[d - 1] = best[n] /\ d # 0
          BY <3>1
        <4> QED
          BY <4>1
      <3>2. CASE d # n + 1
        <4>1. d \in 0 .. n
          BY <3>2
        <4>2. best[d] = IF d = 0 THEN NoSolution ELSE WithDivider(best[d - 1], f, d)
          BY <2>1, <4>1 DEF IsSearch
        <4>3. longer[d] = best[d] /\ (d # 0 => longer[d - 1] = best[d - 1])
          BY <4>1
        <4> QED
          BY <4>2, <4>3
      <3> QED
        BY <3>1, <3>2
    <2>3. longer = [d \in 0 .. n + 1 |-> body(d)]
      <3> DEFINE other == [d \in 0 .. n + 1 |-> body(d)]
      <3>1. \A d \in 0 .. n + 1 : longer[d] = other[d]
        BY <2>2
      <3> QED
        BY <3>1
    <2> HIDE DEF longer
    <2>4. IsSearch(longer, f, n + 1)
      BY <2>3 DEF IsSearch
    <2> QED
      BY <2>4
  <1> HIDE DEF S
  <1>3. Nat \subseteq S
    BY <1>1, <1>2, SetInduction
  <1> QED
    BY <1>3 DEF S

Solutions ==
    {NoSolution} \cup [divider : 1 .. MaxDivider, period : MinPeriod .. MaxPeriod]

LEMMA ConsiderInRange ==
  ASSUME NEW best \in Solutions, NEW f, NEW d \in 1 .. MaxDivider, NEW p
  PROVE  Consider(best, f, d, p) \in Solutions
  BY DEF Consider, Solutions

LEMMA SearchInRange ==
  ASSUME PwmConstantsOK, NEW f \in Frequencies \ {0}
  PROVE  Solve[f] \in Solutions
  <1> DEFINE best == CHOOSE g : IsSearch(g, f, MaxDivider)
  <1>0. MaxDivider \in Nat
    BY DEF PwmConstantsOK
  <1>1. IsSearch(best, f, MaxDivider)
    BY <1>0, SearchExists
  <1>2. Solve[f] = best[MaxDivider]
    BY DEF Solve, IsSearch
  <1> HIDE DEF best
  <1> DEFINE S == {n \in Nat : n \in 0 .. MaxDivider => best[n] \in Solutions}
  <1>3. 0 \in S
    BY <1>0, <1>1 DEF IsSearch, Solutions
  <1>4. ASSUME NEW n \in Nat, n \in S PROVE n + 1 \in S
    <2> SUFFICES ASSUME n + 1 \in 0 .. MaxDivider PROVE best[n + 1] \in Solutions
      OBVIOUS
    <2>1. best[n] \in Solutions
      BY <1>0, <1>4
    <2>2. best[n + 1] = WithDivider(best[n], f, n + 1)
      BY <1>0, <1>1 DEF IsSearch
    <2>3. n + 1 \in 1 .. MaxDivider
      BY <1>0
    <2> QED
      BY <2>1, <2>2, <2>3, ConsiderInRange DEF WithDivider
  <1> HIDE DEF S
  <1>5. Nat \subseteq S
    BY <1>3, <1>4, SetInduction
  <1> QED
    BY <1>0, <1>2, <1>5 DEF S
-----------------------------------------------------------------------------
(* The search finds the best                                               *)

\* A product grows with its factors.
LEMMA Grows ==
  ASSUME NEW m \in Nat, NEW a \in Int, NEW b \in Int, a <= b
  PROVE  a * m <= b * m /\ a * m \in Int /\ b * m \in Int
  <1>1. PICK d \in Nat : b = a + d
    OBVIOUS
  <1>2. b * m = (a * m) + (d * m) /\ d * m >= 0 /\ d * m \in Int /\ a * m \in Int
    BY <1>1
  <1> QED
    BY <1>2

\* ... and what is greater as a product with a positive number is greater.
LEMMA Cancels ==
  ASSUME NEW m \in Nat \ {0}, NEW a \in Int, NEW b \in Int
  PROVE  /\ a * m <= b * m => a <= b
         /\ a * m < b * m => a < b
  <1>1. ASSUME b + 1 <= a PROVE b * m + m <= a * m
    <2>1. (b + 1) * m <= a * m
      BY <1>1, Grows
    <2>2. (b + 1) * m = b * m + m
      OBVIOUS
    <2> QED
      BY <2>1, <2>2
  <1>2. a * m \in Int /\ b * m \in Int
    OBVIOUS
  <1>3. a = b => a * m = b * m
    OBVIOUS
  <1> QED
    BY <1>1, <1>2, <1>3

\* A product m of divider and period comes at least as close to f as n.
Closer(f, m, n) == Abs(f * m - Source) * n <= Abs(f * n - Source) * m

LEMMA CloserIsTransitive ==
  ASSUME NEW f \in Nat, Source \in Nat, NEW a \in Nat \ {0}, NEW b \in Nat \ {0}, NEW c \in Nat \ {0},
         Closer(f, a, b), Closer(f, b, c)
  PROVE  Closer(f, a, c)
  <1> DEFINE x == Abs(f * a - Source)
             y == Abs(f * b - Source)
             z == Abs(f * c - Source)
  <1>1. x \in Nat /\ y \in Nat /\ z \in Nat
    BY DEF Abs
  <1>2. x * b <= y * a /\ y * c <= z * b
    BY DEF Closer
  <1> HIDE DEF x, y, z
  <1>3. (x * b) * c <= (y * a) * c /\ (y * c) * a <= (z * b) * a
    <2>1. x * b \in Int /\ y * a \in Int /\ y * c \in Int /\ z * b \in Int
      BY <1>1
    <2> QED
      BY <1>2, <2>1, Grows
  <1>4. /\ (x * b) * c = (x * c) * b /\ (y * a) * c = (y * c) * a
        /\ (z * b) * a = (z * a) * b
    BY <1>1
  <1>5. (x * c) * b <= (z * a) * b
    <2>1. (y * a) * c \in Int /\ (x * b) * c \in Int /\ (z * b) * a \in Int
      BY <1>1
    <2> QED
      BY <1>3, <1>4, <2>1
  <1>6. x * c <= z * a
    BY <1>1, <1>5, Cancels
  <1> QED
    BY <1>6 DEF x, z, Closer

\* m lies between n and what f asks for.
Between(f, m, n) == (n <= m /\ f * m <= Source) \/ (m <= n /\ f * m >= Source)

LEMMA BetweenIsCloser ==
  ASSUME NEW f \in Nat, Source \in Nat, NEW m \in Nat \ {0}, NEW n \in Nat \ {0}, Between(f, m, n)
  PROVE  Closer(f, m, n)
  <1> DEFINE x == f * m
             y == f * n
  <1>1. x \in Nat /\ y \in Nat
    OBVIOUS
  <1>2. x * n = y * m
    OBVIOUS
  <1>3. CASE n <= m /\ x <= Source
    <2>1. y <= x
      <3>1. n * f <= m * f
        BY <1>3, Grows
      <3> QED
        BY <3>1
    <2> HIDE DEF x, y
    <2>2. Abs(x - Source) = Source - x /\ Abs(y - Source) = Source - y
      BY <1>1, <1>3, <2>1 DEF Abs
    <2>3. (Source - x) * n = Source * n - x * n /\ (Source - y) * m = Source * m - y * m
      BY <1>1
    <2>4. Source * n <= Source * m
      <3>1. n * Source <= m * Source
        BY <1>3, Grows
      <3> QED
        BY <3>1
    <2>5. /\ Source * n \in Int /\ Source * m \in Int /\ x * n \in Int /\ y * m \in Int
      BY <1>1
    <2>6. Abs(x - Source) * n <= Abs(y - Source) * m
      BY <1>2, <2>2, <2>3, <2>4, <2>5
    <2> QED
      BY <2>6 DEF x, y, Closer
  <1>4. CASE m <= n /\ x >= Source
    <2>1. x <= y
      <3>1. m * f <= n * f
        BY <1>4, Grows
      <3> QED
        BY <3>1
    <2> HIDE DEF x, y
    <2>2. Abs(x - Source) = x - Source /\ Abs(y - Source) = y - Source
      BY <1>1, <1>4, <2>1 DEF Abs
    <2>3. (x - Source) * n = x * n - Source * n /\ (y - Source) * m = y * m - Source * m
      BY <1>1
    <2>4. Source * m <= Source * n
      <3>1. m * Source <= n * Source
        BY <1>4, Grows
      <3> QED
        BY <3>1
    <2>5. /\ Source * n \in Int /\ Source * m \in Int /\ x * n \in Int /\ y * m \in Int
      BY <1>1
    <2>6. Abs(x - Source) * n <= Abs(y - Source) * m
      BY <1>2, <2>2, <2>3, <2>4, <2>5
    <2> QED
      BY <2>6 DEF x, y, Closer
  <1> QED
    BY <1>3, <1>4 DEF Between

\* bl616cl_pwm_error_less compares two fractions.
LEMMA ErrorLessIs ==
  ASSUME NEW a \in Nat, NEW b \in Nat \ {0}, NEW c \in Nat, NEW d \in Nat \ {0}
  PROVE  ErrorLess(a, b, c, d) <=> a * d < c * b
  <1> DEFINE q == a \div b
             r == a % b
             u == c \div d
             v == c % d
  <1>1. /\ q \in Nat /\ r \in Nat /\ r < b /\ a = q * b + r
        /\ u \in Nat /\ v \in Nat /\ v < d /\ c = u * d + v
    OBVIOUS
  <1>2. ErrorLess(a, b, c, d) <=> IF q # u THEN q < u ELSE r * d < v * b
    BY DEF ErrorLess
  <1> HIDE DEF q, r, u, v
  <1> DEFINE bd == b * d
             e == q * bd
             g == u * bd
  <1>3. a * d = e + r * d /\ c * b = g + v * b
    BY <1>1
  <1>4. bd \in Nat /\ e \in Int /\ g \in Int /\ r * d \in Nat /\ v * b \in Nat
    BY <1>1
  <1>5. r * d < bd
    <2>1. (r + 1) * d <= b * d /\ (r + 1) * d = r * d + d
      BY <1>1, Grows
    <2> QED
      BY <1>4, <2>1
  <1>6. v * b < bd
    <2>1. (v + 1) * b <= d * b /\ (v + 1) * b = v * b + b /\ d * b = bd
      BY <1>1, Grows
    <2> QED
      BY <1>4, <2>1
  <1>7. q + 1 <= u => e + bd <= g
    <2> SUFFICES ASSUME q + 1 <= u PROVE e + bd <= g
      OBVIOUS
    <2>1. (q + 1) * bd <= u * bd /\ (q + 1) * bd = q * bd + bd
      BY <1>1, <1>4, Grows
    <2> QED
      BY <2>1
  <1>8. u + 1 <= q => g + bd <= e
    <2> SUFFICES ASSUME u + 1 <= q PROVE g + bd <= e
      OBVIOUS
    <2>1. (u + 1) * bd <= q * bd /\ (u + 1) * bd = u * bd + bd
      BY <1>1, <1>4, Grows
    <2> QED
      BY <2>1
  <1>9. q = u => e = g
    OBVIOUS
  <1> HIDE DEF bd, e, g
  <1> QED
    BY <1>1, <1>2, <1>3, <1>4, <1>5, <1>6, <1>7, <1>8, <1>9

\* What rounding says of the nearest period.
LEMMA RoundedIs ==
  ASSUME PwmConstantsOK, NEW f \in Nat \ {0}, NEW d \in Nat \ {0}
  PROVE  LET r == Rounded(f, d)
             g == f * d
             h == g \div 2
         IN  /\ r \in Nat /\ g \in Nat \ {0} /\ r * g \in Nat /\ h \in Nat
             /\ 2 * h <= g /\ g <= 2 * h + 1
             /\ r * g <= Source + h /\ Source + h < r * g + g
             /\ 2 * (r * g) <= 2 * Source + g /\ 2 * Source <= 2 * (r * g) + g
  <1> DEFINE r == Rounded(f, d)
             g == f * d
             h == g \div 2
             n == Source + h
  <1>1. Source \in Nat /\ g \in Nat \ {0}
    BY DEF PwmConstantsOK
  <1>2. r = n \div g
    BY DEF Rounded
  <1> HIDE DEF g
  <1>3. h \in Nat /\ 2 * h <= g /\ g <= 2 * h + 1
    BY <1>1
  <1> HIDE DEF h
  <1>4. n \in Nat
    BY <1>1, <1>3
  <1> HIDE DEF n, r
  <1>5. r \in Nat /\ r * g \in Nat /\ r * g <= n /\ n < r * g + g
    <2> DEFINE k == n \div g
    <2>1. k \in Nat /\ n = k * g + (n % g) /\ n % g \in Nat /\ n % g < g
      BY <1>1, <1>4
    <2> HIDE DEF k
    <2>2. k * g \in Nat
      BY <1>1, <2>1
    <2>3. r = k
      BY <1>2 DEF k
    <2> QED
      BY <1>1, <1>4, <2>1, <2>2, <2>3
  <1> DEFINE w == r * g
  <1>6. w \in Nat /\ w <= Source + h /\ Source + h < w + g
    BY <1>5 DEF n
  <1> HIDE DEF w
  <1>7. 2 * w <= 2 * Source + g /\ 2 * Source <= 2 * w + g
    BY <1>1, <1>3, <1>6
  <1> QED
    BY <1>1, <1>3, <1>5, <1>6, <1>7 DEF r, g, h, w

\* With a greater divider the period is no longer.
LEMMA RoundedFalls ==
  ASSUME PwmConstantsOK, NEW f \in Nat \ {0}, NEW d \in Nat \ {0}, NEW e \in Nat \ {0}, d <= e
  PROVE  Rounded(f, e) <= Rounded(f, d)
  <1> DEFINE r == Rounded(f, d)
             g == f * d
             h == g \div 2
             u == Rounded(f, e)
             a == f * e
             b == a \div 2
  <1>0. Source \in Nat
    BY DEF PwmConstantsOK
  <1>1. /\ r \in Nat /\ g \in Nat \ {0} /\ h \in Nat /\ 2 * h <= g /\ g <= 2 * h + 1
        /\ Source + h < r * g + g /\ r * g \in Nat
    BY RoundedIs
  <1>2. /\ u \in Nat /\ a \in Nat \ {0} /\ b \in Nat /\ 2 * b <= a /\ a <= 2 * b + 1
        /\ u * a <= Source + b /\ u * a \in Nat
    BY RoundedIs
  <1>3. g <= a
    <2>1. d * f <= e * f
      BY Grows
    <2> QED
      BY <2>1
  <1> HIDE DEF r, g, h, u, a, b
  <1>4. r * g <= r * a /\ r * a \in Nat
    <2>1. g * r <= a * r
      BY <1>1, <1>2, <1>3, Grows
    <2> QED
      BY <1>1, <1>2, <2>1
  <1>5. ASSUME r + 1 <= u PROVE FALSE
    <2>1. (r + 1) * a <= u * a /\ (r + 1) * a = r * a + a
      BY <1>1, <1>2, <1>5, Grows
    <2> QED
      BY <1>0, <1>1, <1>2, <1>3, <1>4, <2>1
  <1>6. u <= r
    BY <1>1, <1>2, <1>5
  <1> QED
    BY <1>6 DEF u, r

\* The periods that are tried with a divider.
Tried(f, d) == {Rounded(f, d) - 1, Rounded(f, d), Rounded(f, d) + 1} \cap (MinPeriod .. MaxPeriod)

\* One of them lies between any other period and what f asks for.
LEMMA NearestIsTried ==
  ASSUME PwmConstantsOK, NEW f \in Nat \ {0}, NEW d \in Nat \ {0},
         Rounded(f, d) >= 1, Rounded(f, d) <= MaxPeriod + 1, NEW p \in MinPeriod .. MaxPeriod
  PROVE  \E q \in Tried(f, d) : Between(f, d * q, d * p)
  <1> DEFINE r == Rounded(f, d)
             g == f * d
             w == r * g
  <1>0. Source \in Nat /\ p \in Nat /\ p >= 2 /\ p <= MaxPeriod /\ MaxPeriod \in Nat
    BY DEF PwmConstantsOK, MinPeriod
  <1>1. /\ r \in Nat /\ g \in Nat \ {0} /\ w \in Nat
        /\ 2 * w <= 2 * Source + g /\ 2 * Source <= 2 * w + g
    BY RoundedIs
  <1>2. r >= 1 /\ r <= MaxPeriod + 1
    OBVIOUS
  <1>3. /\ f * (d * (r - 1)) = w - g /\ f * (d * (r + 1)) = w + g
        /\ d * (r - 1) = (r - 1) * d /\ d * (r + 1) = (r + 1) * d /\ d * p = p * d
    BY <1>0, <1>1
  <1>4. Tried(f, d) = {r - 1, r, r + 1} \cap (2 .. MaxPeriod)
    BY DEF Tried, MinPeriod
  <1> HIDE DEF r, g, w
  <1>5. CASE p <= r - 1
    <2>1. p * d <= (r - 1) * d
      BY <1>0, <1>1, <1>5, Grows
    <2>2. w - g <= Source
      BY <1>0, <1>1
    <2>3. r - 1 \in Tried(f, d)
      BY <1>0, <1>1, <1>2, <1>4, <1>5
    <2> QED
      BY <1>3, <2>1, <2>2, <2>3 DEF Between
  <1>6. CASE p = r
    <2>1. r \in Tried(f, d)
      BY <1>0, <1>1, <1>4, <1>6
    <2>2. d * p \in Int /\ f * (d * p) \in Int
      BY <1>0
    <2>3. Between(f, d * r, d * p)
      BY <1>0, <1>6, <2>2 DEF Between
    <2> QED
      BY <2>1, <2>3
  <1>7. CASE p >= r + 1
    <2>1. (r + 1) * d <= p * d
      BY <1>0, <1>1, <1>7, Grows
    <2>2. w + g >= Source
      BY <1>0, <1>1
    <2>3. r + 1 \in Tried(f, d)
      BY <1>0, <1>1, <1>2, <1>4, <1>7
    <2> QED
      BY <1>3, <2>1, <2>2, <2>3 DEF Between
  <1> QED
    BY <1>0, <1>1, <1>5, <1>6, <1>7

\* The shortest period of a divider that ends the search lies between what
\* f asks for and all that greater dividers make.
LEMMA StopIsHarmless ==
  ASSUME PwmConstantsOK, NEW f \in Nat \ {0}, NEW e \in Nat \ {0}, NEW d \in Nat \ {0}, e <= d,
         Rounded(f, e) < MinPeriod, NEW p \in MinPeriod .. MaxPeriod
  PROVE  Between(f, e * MinPeriod, d * p)
  <1> DEFINE r == Rounded(f, e)
             g == f * e
             w == r * g
  <1>0. Source \in Nat /\ p \in Nat /\ p >= 2 /\ MaxPeriod \in Nat
    BY DEF PwmConstantsOK, MinPeriod
  <1>1. r \in Nat /\ g \in Nat \ {0} /\ w \in Nat /\ 2 * Source <= 2 * w + g /\ r <= 1
    BY RoundedIs DEF MinPeriod
  <1>2. w <= g
    <2> HIDE DEF r, g
    <2>1. r * g <= 1 * g
      BY <1>1, Grows
    <2> QED
      BY <1>1, <2>1
  <1>3. f * (e * 2) = 2 * g
    OBVIOUS
  <1>4. e * 2 <= d * p
    <2>1. 2 * d <= p * d
      BY <1>0, Grows
    <2>2. p * d = d * p /\ d * p \in Int
      BY <1>0
    <2> QED
      BY <2>1, <2>2
  <1> HIDE DEF g, w
  <1>5. 2 * g >= Source
    BY <1>0, <1>1, <1>2
  <1> QED
    BY <1>3, <1>4, <1>5 DEF Between, MinPeriod

\* The search does not reach a divider that rounds to nothing.
LEMMA RoundsToSome ==
  ASSUME PwmConstantsOK, NEW f \in Nat \ {0}, NEW d \in Nat \ {0}, InRange(f), Searched(f, d)
  PROVE  Rounded(f, d) >= 1
  <1> DEFINE r == Rounded(f, d)
             g == f * d
             w == r * g
  <1>0. Source \in Nat /\ 2 * f <= Source
    <2>1. Source \in Nat /\ f <= Source \div 2
      BY DEF InRange, PwmConstantsOK, MinPeriod
    <2> QED
      BY <2>1
  <1>1. r \in Nat /\ g \in Nat \ {0} /\ w \in Nat /\ 2 * Source <= 2 * w + g
    BY RoundedIs
  <1> SUFFICES ASSUME r = 0 PROVE FALSE
    BY <1>1
  <1>2. 2 * Source <= g
    BY <1>0, <1>1
  <1>3. CASE d = 1
    <2>1. g = f
      BY <1>3
    <2> QED
      BY <1>0, <1>2, <2>1
  <1>4. CASE d # 1
    <2> DEFINE e == d - 1
               u == Rounded(f, e)
               a == f * e
               v == u * a
    <2>1. e \in Nat \ {0} /\ e \in 1 .. d - 1
      BY <1>4
    <2>2. u >= 2
      BY <2>1 DEF Searched, MinPeriod
    <2>3. u \in Nat /\ a \in Nat \ {0} /\ v \in Nat /\ 2 * v <= 2 * Source + a
      BY <2>1, RoundedIs
    <2>4. g = a + f /\ f <= a
      <3>1. 1 * f <= e * f /\ a = e * f
        BY <2>1, Grows
      <3>2. g = a + f
        OBVIOUS
      <3> QED
        BY <3>1, <3>2
    <2> HIDE DEF u, a
    <2>5. v >= 2 * a
      <3>1. 2 * a <= u * a
        BY <2>2, <2>3, Grows
      <3> QED
        BY <2>3, <3>1
    <2> HIDE DEF v, g
    <2> QED
      BY <1>0, <1>1, <1>2, <2>3, <2>4, <2>5
  <1> QED
    BY <1>3, <1>4

\* With a divider that needs too long a period, the longest one comes below
\* what the next divider can make, if that is the first that needs none.
LEMMA FirstInReach ==
  ASSUME PwmConstantsOK, NEW f \in Nat \ {0}, NEW d \in Nat \ {0}, NEW e \in 1 .. d,
         Rounded(f, d) >= MaxPeriod + 2, Rounded(f, d + 1) <= MaxPeriod + 1,
         NEW p \in MinPeriod .. MaxPeriod
  PROVE  \E q \in Tried(f, d + 1) : Between(f, (d + 1) * q, e * p)
  <1> DEFINE m == MaxPeriod
             dd == d + 1
             r == Rounded(f, dd)
             g == f * dd
             w == r * g
             u == Rounded(f, d)
             k == f * d
             v == u * k
             b == d * m
             a == dd * r
  <1>0. /\ Source \in Nat /\ p \in Nat /\ p >= 2 /\ p <= m /\ m \in Nat /\ m >= 3
        /\ e \in Nat /\ e <= d /\ dd \in Nat \ {0}
    BY DEF PwmConstantsOK, MinPeriod
  <1>1. /\ r \in Nat /\ g \in Nat \ {0} /\ w \in Nat /\ r <= m + 1
        /\ 2 * w <= 2 * Source + g /\ 2 * Source <= 2 * w + g
    BY <1>0, RoundedIs
  <1>2. u \in Nat /\ k \in Nat \ {0} /\ v \in Nat /\ u >= m + 2 /\ 2 * v <= 2 * Source + k
    BY RoundedIs
  <1>t. Tried(f, dd) = {r - 1, r, r + 1} \cap (2 .. m)
    BY DEF Tried, MinPeriod
  <1>3. e * p <= b /\ b \in Nat /\ e * p \in Nat
    <2>1. e * p <= d * p /\ p * d <= m * d
      BY <1>0, Grows
    <2>2. d * p = p * d /\ d * m = m * d /\ e * p \in Nat /\ d * p \in Nat /\ m * d \in Nat
      BY <1>0
    <2> QED
      BY <2>1, <2>2
  <1>4. (2 * b + 3 * d) * f <= 2 * Source
    <2>1. (m + 2) * k <= u * k
      BY <1>0, <1>2, Grows
    <2>2. (m + 2) * k = m * k + 2 * k /\ m * k = b * f /\ k = d * f
      BY <1>0
    <2>3. (2 * b + 3 * d) * f = 2 * (b * f) + 3 * (d * f)
      BY <1>0, <1>3
    <2>4. m * k \in Nat
      BY <1>0, <1>2
    <2> HIDE DEF b, k
    <2> QED
      BY <1>0, <1>2, <2>1, <2>2, <2>3, <2>4 DEF v
  <1>5. /\ w = a * f /\ g = dd * f /\ a \in Nat
        /\ f * (dd * (r - 1)) = w - g /\ f * (dd * r) = w
        /\ dd * (r - 1) = a - dd
    BY <1>0, <1>1
  <1>6. 2 * Source <= (2 * a + dd) * f
    <2>1. (2 * a + dd) * f = 2 * (a * f) + dd * f
      BY <1>0, <1>5
    <2> QED
      BY <1>1, <1>5, <2>1
  <1>7. dd = d + 1
    OBVIOUS
  <1>8. \A x \in Nat : /\ x <= 1 => dd * x <= dd
                       /\ x <= 2 => dd * x <= 2 * dd
    <2> SUFFICES ASSUME NEW x \in Nat
                 PROVE  /\ x <= 1 => dd * x <= dd
                        /\ x <= 2 => dd * x <= 2 * dd
      OBVIOUS
    <2>1. x * dd = dd * x
      BY <1>0
    <2> HIDE DEF dd
    <2> QED
      BY <1>0, <2>1, Grows
  <1>9. 3 * d <= b
    <2>1. 3 * d <= m * d
      BY <1>0, Grows
    <2> QED
      BY <1>0, <2>1
  <1>10. b + m = dd * m
    BY <1>0
  <1> HIDE DEF r, g, w, u, k, v, b, dd
  <1>11. CASE r = m + 1
    <2>1. m \in Tried(f, dd)
      BY <1>0, <1>1, <1>t, <1>11
    <2>2. e * p <= dd * m
      BY <1>0, <1>3, <1>10
    <2>3. f * (dd * m) <= Source
      <3>1. f * (dd * m) = w - g
        BY <1>0, <1>1, <1>5, <1>11
      <3> QED
        BY <1>0, <1>1, <3>1
    <2> QED
      BY <2>1, <2>2, <2>3 DEF Between, dd
  <1>12. CASE r # m + 1 /\ w <= Source
    <2>1. (2 * b + 3 * d) * f <= (2 * a + dd) * f
      <3>1. (2 * b + 3 * d) * f \in Int /\ (2 * a + dd) * f \in Int
        BY <1>0, <1>3, <1>5
      <3> QED
        BY <1>0, <1>4, <1>6, <3>1
    <2>2. 2 * b + 3 * d <= 2 * a + dd
      BY <1>0, <1>3, <1>5, <2>1, Cancels
    <2>3. b <= a
      <3> HIDE DEF a
      <3> QED
        BY <1>0, <1>3, <1>5, <1>7, <2>2
    <2>4. r >= 2
      <3>1. r <= 1 => a <= dd
        BY <1>1, <1>8
      <3> HIDE DEF a
      <3> QED
        BY <1>0, <1>1, <1>3, <1>5, <1>7, <1>9, <2>2, <3>1
    <2>5. r \in Tried(f, dd)
      BY <1>0, <1>1, <1>t, <1>12, <2>4
    <2>6. e * p <= dd * r
      <3> HIDE DEF a
      <3>1. e * p <= a
        BY <1>3, <1>5, <2>3
      <3> QED
        BY <3>1 DEF a
    <2> QED
      BY <1>5, <1>12, <2>5, <2>6 DEF Between, dd
  <1>13. CASE r # m + 1 /\ w > Source
    <2>1. (2 * b + 3 * d) * f < (2 * a) * f
      <3>1. (2 * a) * f = 2 * w /\ (2 * b + 3 * d) * f \in Int
        BY <1>0, <1>3, <1>5
      <3> QED
        BY <1>0, <1>1, <1>4, <1>13, <3>1
    <2>2. 2 * b + 3 * d < 2 * a
      BY <1>0, <1>3, <1>5, <2>1, Cancels
    <2>3. b <= a - dd
      <3> HIDE DEF a
      <3> QED
        BY <1>0, <1>3, <1>5, <1>7, <2>2
    <2>4. r >= 3
      <3>1. r <= 2 => a <= 2 * dd
        BY <1>1, <1>8
      <3> HIDE DEF a
      <3> QED
        BY <1>0, <1>1, <1>3, <1>5, <1>7, <1>9, <2>2, <3>1
    <2>5. r - 1 \in Tried(f, dd)
      BY <1>0, <1>1, <1>t, <1>13, <2>4
    <2>6. e * p <= dd * (r - 1)
      <3> HIDE DEF a
      <3>1. e * p <= a - dd
        BY <1>0, <1>3, <1>5, <2>3
      <3> QED
        BY <1>5, <3>1
    <2>7. f * (dd * (r - 1)) <= Source
      BY <1>0, <1>1, <1>5
    <2> QED
      BY <2>5, <2>6, <2>7 DEF Between, dd
  <1> QED
    BY <1>0, <1>1, <1>11, <1>12, <1>13
-----------------------------------------------------------------------------

\* s is a pair that comes at least as close as a product n.
Beats(f, s, n) == s # NoSolution /\ Closer(f, Den(s), n)

LEMMA SolutionIs ==
  ASSUME PwmConstantsOK, NEW s \in Solutions
  PROVE  s # NoSolution => Den(s) \in Nat \ {0}
  <1> SUFFICES ASSUME s # NoSolution PROVE Den(s) \in Nat \ {0}
    OBVIOUS
  <1>1. s.divider \in 1 .. MaxDivider /\ s.period \in 2 .. MaxPeriod
    BY DEF Solutions, MinPeriod
  <1>2. s.divider \in Nat \ {0} /\ s.period \in Nat \ {0}
    BY <1>1 DEF PwmConstantsOK
  <1> QED
    BY <1>2 DEF Den

\* One candidate: the better one stays.
LEMMA ConsiderKeeps ==
  ASSUME PwmConstantsOK, NEW f \in Nat \ {0}, NEW best \in Solutions,
         NEW d \in 1 .. MaxDivider, NEW p \in Int
  PROVE  LET s == Consider(best, f, d, p) IN
         /\ s \in Solutions
         /\ \A n \in Nat \ {0} : Beats(f, best, n) => Beats(f, s, n)
         /\ p \in MinPeriod .. MaxPeriod => Beats(f, s, d * p)
         /\ p \notin MinPeriod .. MaxPeriod => s = best
  <1> DEFINE new == [divider |-> d, period |-> p]
             s == Consider(best, f, d, p)
  <1>0. Source \in Nat /\ MaxDivider \in Nat /\ MaxPeriod \in Nat
    BY DEF PwmConstantsOK
  <1>1. CASE p \notin MinPeriod .. MaxPeriod
    <2>1. s = best
      BY <1>1 DEF Consider
    <2> QED
      BY <1>1, <2>1
  <1>2. CASE p \in MinPeriod .. MaxPeriod
    <2>1. /\ new \in Solutions /\ new # NoSolution /\ Den(new) = d * p
      BY <1>2 DEF Solutions, NoSolution, Den
    <2>2. Den(new) \in Nat \ {0}
      BY <2>1, SolutionIs
    <2>3. Beats(f, new, d * p)
      <3>1. Abs(f * Den(new) - Source) \in Nat
        BY <1>0, <2>2 DEF Abs
      <3> QED
        BY <2>1, <2>2, <3>1 DEF Beats, Closer
    <2>4. CASE best = NoSolution
      <3>1. s = new
        BY <1>2, <2>4 DEF Consider
      <3> QED
        BY <1>2, <2>1, <2>3, <2>4, <3>1 DEF Beats
    <2>5. CASE best # NoSolution
      <3> DEFINE a == Error(new, f)
                 b == Den(new)
                 x == Error(best, f)
                 y == Den(best)
      <3>1. y \in Nat \ {0}
        BY <2>5, SolutionIs
      <3>2. a \in Nat /\ x \in Nat
        BY <1>0, <2>2, <3>1 DEF Error, Abs
      <3>3. ErrorLess(a, b, x, y) <=> a * y < x * b
        BY <2>2, <3>1, <3>2, ErrorLessIs
      <3>4. /\ Closer(f, b, y) <=> a * y <= x * b
            /\ Closer(f, y, b) <=> x * b <= a * y
        BY DEF Closer, Error
      <3>5. a * y \in Int /\ x * b \in Int
        BY <2>2, <3>1, <3>2
      <3> HIDE DEF a, b, x, y, new, s
      <3>6. \/ s = new /\ Closer(f, b, y)
            \/ s = best /\ Closer(f, y, b)
        <4>1. CASE ErrorLess(a, b, x, y)
          <5>1. s = new
            BY <1>2, <4>1 DEF Consider, a, b, x, y, new, s
          <5> QED
            BY <3>3, <3>4, <3>5, <4>1, <5>1
        <4>2. CASE ~ErrorLess(a, b, x, y) /\ a = x /\ b = y /\ d < best.divider
          <5>1. s = new
            BY <1>2, <4>2 DEF Consider, a, b, x, y, new, s
          <5>2. a * y = x * b
            BY <4>2
          <5> QED
            BY <3>4, <3>5, <5>1, <5>2
        <4>3. CASE ~ErrorLess(a, b, x, y) /\ ~(a = x /\ b = y /\ d < best.divider)
          <5>1. s = best
            BY <2>5, <4>3 DEF Consider, a, b, x, y, new, s
          <5> QED
            BY <3>3, <3>4, <3>5, <4>3, <5>1
        <4> QED
          BY <4>1, <4>2, <4>3
      <3>7. CASE s = new /\ Closer(f, b, y)
        <4>1. ASSUME NEW n \in Nat \ {0}, Beats(f, best, n) PROVE Beats(f, s, n)
          <5>1. Closer(f, y, n)
            BY <4>1 DEF Beats, y
          <5>2. Closer(f, b, n)
            BY <1>0, <2>2, <3>1, <3>7, <5>1, CloserIsTransitive DEF b
          <5> QED
            BY <2>1, <3>7, <5>2 DEF Beats, b
        <4> QED
          BY <1>2, <2>1, <2>3, <3>7, <4>1 DEF s
      <3>8. CASE s = best /\ Closer(f, y, b)
        <4>1. Beats(f, s, d * p)
          BY <2>1, <2>5, <3>8 DEF Beats, b, y
        <4> QED
          BY <1>2, <3>8, <4>1 DEF s
      <3> QED
        BY <3>6, <3>7, <3>8
    <2> QED
      BY <2>4, <2>5
  <1> QED
    BY <1>1, <1>2

\* One divider.
LEMMA WithDividerKeeps ==
  ASSUME PwmConstantsOK, NEW f \in Nat \ {0}, NEW best \in Solutions, NEW d \in 1 .. MaxDivider
  PROVE  LET s == WithDivider(best, f, d) IN
         /\ s \in Solutions
         /\ \A n \in Nat \ {0} : Beats(f, best, n) => Beats(f, s, n)
         /\ Searched(f, d) => \A q \in Tried(f, d) : Beats(f, s, d * q)
         /\ ~Searched(f, d) => s = best
         /\ Rounded(f, d) >= MaxPeriod + 2 => s = best
  <1> DEFINE r == Rounded(f, d)
             s1 == IF r > 0 THEN Consider(best, f, d, r - 1) ELSE best
             s2 == Consider(s1, f, d, r)
             s3 == Consider(s2, f, d, r + 1)
             s == WithDivider(best, f, d)
  <1>0. d \in Nat \ {0} /\ MaxPeriod \in Nat
    BY DEF PwmConstantsOK
  <1>1. r \in Nat
    BY <1>0, RoundedIs
  <1>2. s = IF Searched(f, d) THEN s3 ELSE best
    BY DEF WithDivider
  <1>t. Tried(f, d) = {r - 1, r, r + 1} \cap (2 .. MaxPeriod)
    BY DEF Tried, MinPeriod
  <1> HIDE DEF r, s
  <1>3. /\ s1 \in Solutions /\ \A n \in Nat \ {0} : Beats(f, best, n) => Beats(f, s1, n)
        /\ r - 1 \in 2 .. MaxPeriod => Beats(f, s1, d * (r - 1))
        /\ r - 1 \notin 2 .. MaxPeriod => s1 = best
    <2>1. CASE r > 0
      <3>1. s1 = Consider(best, f, d, r - 1) /\ r - 1 \in Int
        BY <1>1, <2>1
      <3> HIDE DEF s1
      <3> QED
        BY <3>1, ConsiderKeeps DEF MinPeriod
    <2>2. CASE ~(r > 0)
      <3>1. s1 = best /\ r - 1 \notin 2 .. MaxPeriod
        BY <1>0, <1>1, <2>2
      <3> HIDE DEF s1
      <3> QED
        BY <3>1
    <2> QED
      BY <2>1, <2>2
  <1> HIDE DEF s1
  <1>4. /\ s2 \in Solutions /\ \A n \in Nat \ {0} : Beats(f, s1, n) => Beats(f, s2, n)
        /\ r \in 2 .. MaxPeriod => Beats(f, s2, d * r)
        /\ r \notin 2 .. MaxPeriod => s2 = s1
    BY <1>1, <1>3, ConsiderKeeps DEF MinPeriod
  <1> HIDE DEF s2
  <1>5. /\ s3 \in Solutions /\ \A n \in Nat \ {0} : Beats(f, s2, n) => Beats(f, s3, n)
        /\ r + 1 \in 2 .. MaxPeriod => Beats(f, s3, d * (r + 1))
        /\ r + 1 \notin 2 .. MaxPeriod => s3 = s2
    BY <1>1, <1>4, ConsiderKeeps DEF MinPeriod
  <1> HIDE DEF s3
  <1>6. \A q \in Tried(f, d) : Beats(f, s3, d * q)
    <2> SUFFICES ASSUME NEW q \in Tried(f, d) PROVE Beats(f, s3, d * q)
      OBVIOUS
    <2>1. q \in {r - 1, r, r + 1} /\ q \in 2 .. MaxPeriod
      BY <1>t
    <2>2. d * q \in Nat \ {0}
      BY <1>0, <2>1
    <2> QED
      BY <1>3, <1>4, <1>5, <2>1, <2>2
  <1>7. r >= MaxPeriod + 2 => s3 = best
    BY <1>0, <1>1, <1>3, <1>4, <1>5
  <1>8. \A n \in Nat \ {0} : Beats(f, best, n) => Beats(f, s3, n)
    BY <1>3, <1>4, <1>5
  <1>9. CASE Searched(f, d)
    BY <1>2, <1>5, <1>6, <1>7, <1>8, <1>9 DEF r, s
  <1>10. CASE ~Searched(f, d)
    BY <1>2, <1>10 DEF s
  <1> QED
    BY <1>9, <1>10

\* The search up to divider d beats all that dividers up to d make, as soon as
\* one of them needs no longer period than there is; before that it finds none.
Best(f, s, d) ==
    /\ s \in Solutions
    /\ Rounded(f, d) >= MaxPeriod + 2 => s = NoSolution
    /\ Rounded(f, d) <= MaxPeriod + 1 =>
         \A e \in 1 .. d, p \in MinPeriod .. MaxPeriod : Beats(f, s, e * p)

LEMMA BeatsThrough ==
  ASSUME PwmConstantsOK, NEW f \in Nat \ {0}, NEW s \in Solutions,
         NEW m \in Nat \ {0}, NEW n \in Nat \ {0}, Beats(f, s, m), Between(f, m, n)
  PROVE  Beats(f, s, n)
  <1>1. s # NoSolution /\ Den(s) \in Nat \ {0} /\ Source \in Nat
    BY SolutionIs DEF Beats, PwmConstantsOK
  <1>2. Closer(f, Den(s), m) /\ Closer(f, m, n)
    BY <1>1, BetweenIsCloser DEF Beats
  <1>3. Closer(f, Den(s), n)
    BY <1>1, <1>2, CloserIsTransitive
  <1> QED
    BY <1>1, <1>3 DEF Beats

LEMMA ProductIs ==
  ASSUME NEW d \in Nat \ {0}, NEW p \in Nat, p >= 2
  PROVE  d * p \in Nat \ {0}
  OBVIOUS

LEMMA FirstDividerIsBest ==
  ASSUME PwmConstantsOK, NEW f \in Nat \ {0}, InRange(f)
  PROVE  Best(f, WithDivider(NoSolution, f, 1), 1)
  <1> DEFINE s == WithDivider(NoSolution, f, 1)
  <1>0. 1 \in 1 .. MaxDivider /\ MaxPeriod \in Nat /\ NoSolution \in Solutions
    BY DEF PwmConstantsOK, Solutions
  <1>1. Searched(f, 1)
    BY DEF Searched
  <1>2. /\ s \in Solutions
        /\ \A q \in Tried(f, 1) : Beats(f, s, 1 * q)
        /\ Rounded(f, 1) >= MaxPeriod + 2 => s = NoSolution
    BY <1>0, <1>1, WithDividerKeeps
  <1>3. Rounded(f, 1) >= 1
    BY <1>1, RoundsToSome
  <1> HIDE DEF s
  <1>4. ASSUME Rounded(f, 1) <= MaxPeriod + 1, NEW e \in 1 .. 1, NEW p \in MinPeriod .. MaxPeriod
        PROVE  Beats(f, s, e * p)
    <2>1. e = 1 /\ p \in Nat /\ p >= 2
      BY <1>0 DEF MinPeriod
    <2>2. PICK q \in Tried(f, 1) : Between(f, 1 * q, 1 * p)
      BY <1>3, <1>4, NearestIsTried
    <2>3. q \in Nat /\ q >= 2
      BY <1>0 DEF Tried, MinPeriod
    <2>4. 1 * q \in Nat \ {0} /\ 1 * p \in Nat \ {0} /\ Beats(f, s, 1 * q)
      BY <1>2, <2>1, <2>3
    <2>5. Beats(f, s, 1 * p)
      BY <1>2, <2>2, <2>4, BeatsThrough
    <2> QED
      BY <2>1, <2>5
  <1>5. s \in Solutions /\ (Rounded(f, 1) >= MaxPeriod + 2 => s = NoSolution)
    BY <1>2
  <1> QED
    BY <1>4, <1>5 DEF Best, s

LEMMA NextDividerIsBest ==
  ASSUME PwmConstantsOK, NEW f \in Nat \ {0}, InRange(f), NEW d \in 1 .. MaxDivider - 1,
         NEW best, Best(f, best, d)
  PROVE  Best(f, WithDivider(best, f, d + 1), d + 1)
  <1> DEFINE dd == d + 1
             s == WithDivider(best, f, dd)
             r == Rounded(f, dd)
             u == Rounded(f, d)
  <1>0. /\ d \in Nat \ {0} /\ dd \in Nat \ {0} /\ dd \in 1 .. MaxDivider /\ d <= dd
        /\ MaxPeriod \in Nat /\ MaxPeriod >= 3 /\ best \in Solutions
    BY DEF PwmConstantsOK, Best, MinPeriod
  <1>1. /\ s \in Solutions
        /\ \A n \in Nat \ {0} : Beats(f, best, n) => Beats(f, s, n)
        /\ Searched(f, dd) => \A q \in Tried(f, dd) : Beats(f, s, dd * q)
        /\ r >= MaxPeriod + 2 => s = best
    BY <1>0, WithDividerKeeps
  <1>2. r \in Nat /\ u \in Nat /\ r <= u
    BY <1>0, RoundedIs, RoundedFalls
  <1>3. /\ u >= MaxPeriod + 2 => best = NoSolution
        /\ u <= MaxPeriod + 1 => \A e \in 1 .. d, p \in MinPeriod .. MaxPeriod : Beats(f, best, e * p)
    BY DEF Best
  <1>p. \A p \in MinPeriod .. MaxPeriod : p \in Nat /\ p >= 2
    BY <1>0 DEF MinPeriod
  <1>q. \A q \in Tried(f, dd) : q \in Nat /\ q >= 2
    BY <1>0 DEF Tried, MinPeriod
  <1> HIDE DEF s, r, u
  <1>4. ASSUME r >= MaxPeriod + 2 PROVE s = NoSolution
    BY <1>0, <1>1, <1>2, <1>3, <1>4
  <1>5. ASSUME r <= MaxPeriod + 1, NEW e \in 1 .. dd, NEW p \in MinPeriod .. MaxPeriod
        PROVE  Beats(f, s, e * p)
    <2>0. p \in Nat /\ p >= 2 /\ e \in Nat \ {0} /\ e * p \in Nat \ {0}
      BY <1>p, ProductIs
    <2>1. CASE e # dd /\ u <= MaxPeriod + 1
      <3>1. e \in 1 .. d
        BY <1>0, <2>1
      <3> QED
        BY <1>1, <1>3, <2>0, <2>1, <3>1
    <2>2. CASE e # dd /\ u >= MaxPeriod + 2
      <3>1. e \in 1 .. d
        BY <1>0, <2>2
      <3>2. Searched(f, dd)
        <4> SUFFICES ASSUME NEW c \in 1 .. dd - 1 PROVE Rounded(f, c) >= MinPeriod
          BY DEF Searched
        <4>1. c \in Nat \ {0} /\ c <= d
          BY <1>0
        <4>2. u <= Rounded(f, c) /\ Rounded(f, c) \in Nat
          BY <1>0, <4>1, RoundedIs, RoundedFalls DEF u
        <4> QED
          BY <1>0, <1>2, <2>2, <4>2 DEF MinPeriod
      <3>3. PICK q \in Tried(f, dd) : Between(f, dd * q, e * p)
        BY <1>0, <1>5, <2>2, <3>1, FirstInReach DEF r, u
      <3>4. dd * q \in Nat \ {0} /\ Beats(f, s, dd * q)
        BY <1>0, <1>1, <1>q, <3>2, ProductIs
      <3> QED
        BY <1>1, <2>0, <3>3, <3>4, BeatsThrough
    <2>3. CASE e = dd /\ Searched(f, dd)
      <3>1. r >= 1
        BY <1>0, <2>3, RoundsToSome DEF r
      <3>2. PICK q \in Tried(f, dd) : Between(f, dd * q, dd * p)
        BY <1>0, <1>5, <3>1, NearestIsTried DEF r
      <3>3. dd * q \in Nat \ {0} /\ Beats(f, s, dd * q)
        BY <1>0, <1>1, <1>q, <2>3, ProductIs
      <3> QED
        BY <1>1, <2>0, <2>3, <3>2, <3>3, BeatsThrough
    <2>4. CASE e = dd /\ ~Searched(f, dd)
      <3>1. PICK c \in 1 .. dd - 1 : ~(Rounded(f, c) >= MinPeriod)
        BY <2>4 DEF Searched
      <3>2. c \in Nat \ {0} /\ c \in 1 .. d /\ c <= dd
        BY <1>0
      <3>3. Rounded(f, c) \in Nat /\ Rounded(f, c) < MinPeriod
        BY <3>1, <3>2, RoundedIs DEF MinPeriod
      <3>4. u <= MaxPeriod + 1
        <4>1. u <= Rounded(f, c)
          BY <1>0, <3>2, RoundedFalls DEF u
        <4> QED
          BY <1>0, <1>2, <3>3, <4>1 DEF MinPeriod
      <3>5. MinPeriod \in MinPeriod .. MaxPeriod /\ c * MinPeriod \in Nat \ {0}
        BY <1>0, <3>2 DEF MinPeriod
      <3>6. Beats(f, s, c * MinPeriod)
        BY <1>1, <1>3, <3>2, <3>4, <3>5
      <3>7. Between(f, c * MinPeriod, dd * p)
        BY <1>0, <3>2, <3>3, StopIsHarmless
      <3> QED
        BY <1>1, <2>0, <2>4, <3>5, <3>6, <3>7, BeatsThrough
    <2> QED
      BY <1>0, <1>2, <2>1, <2>2, <2>3, <2>4
  <1> QED
    BY <1>1, <1>4, <1>5 DEF Best, s, r, dd

\* What a start works with comes at least as close to the frequency as any
\* other divider and period.
LEMMA SolutionIsBest ==
  ASSUME PwmConstantsOK, NEW f \in Frequencies, Solution(f) # NoSolution
  PROVE  \A d \in 1 .. MaxDivider, p \in MinPeriod .. MaxPeriod :
           Closer(f, Den(Solution(f)), d * p)
  <1> DEFINE best == CHOOSE g : IsSearch(g, f, MaxDivider)
  <1>0. MaxDivider \in Nat \ {0} /\ f \in Nat \ {0} /\ InRange(f) /\ MaxPeriod \in Nat
    BY DEF PwmConstantsOK, Solution, InRange
  <1>1. IsSearch(best, f, MaxDivider)
    BY <1>0, SearchExists
  <1>2. Solution(f) = best[MaxDivider]
    BY <1>0 DEF Solution, Solve, IsSearch
  <1> HIDE DEF best
  <1> DEFINE S == {n \in Nat : n \in 1 .. MaxDivider => Best(f, best[n], n)}
  <1>3. 0 \in S
    OBVIOUS
  <1>4. ASSUME NEW n \in Nat, n \in S PROVE n + 1 \in S
    <2> SUFFICES ASSUME n + 1 \in 1 .. MaxDivider PROVE Best(f, best[n + 1], n + 1)
      OBVIOUS
    <2>1. best[n + 1] = WithDivider(best[n], f, n + 1)
      BY <1>0, <1>1 DEF IsSearch
    <2>2. CASE n = 0
      <3>1. best[n] = NoSolution /\ n + 1 = 1
        BY <1>0, <1>1, <2>2 DEF IsSearch
      <3> QED
        BY <1>0, <2>1, <3>1, FirstDividerIsBest
    <2>3. CASE n # 0
      <3>1. n \in 1 .. MaxDivider - 1 /\ Best(f, best[n], n)
        BY <1>0, <1>4, <2>3
      <3> QED
        BY <1>0, <2>1, <3>1, NextDividerIsBest
    <2> QED
      BY <2>2, <2>3
  <1> HIDE DEF S
  <1>5. Nat \subseteq S
    BY <1>3, <1>4, SetInduction
  <1>6. Best(f, Solution(f), MaxDivider)
    BY <1>0, <1>2, <1>5 DEF S
  <1>7. Rounded(f, MaxDivider) \in Nat
    BY <1>0, RoundedIs
  <1>8. Rounded(f, MaxDivider) <= MaxPeriod + 1
    BY <1>0, <1>6, <1>7 DEF Best
  <1>9. \A d \in 1 .. MaxDivider, p \in MinPeriod .. MaxPeriod : Beats(f, Solution(f), d * p)
    BY <1>6, <1>8 DEF Best
  <1> QED
    BY <1>9 DEF Beats
-----------------------------------------------------------------------------
(* The life of the channel                                                 *)

\* A pair that a start works with is one of the fields' ranges.
LEMMA SolutionFound ==
  ASSUME PwmConstantsOK, NEW f \in Frequencies, Solution(f) # NoSolution
  PROVE  /\ Solution(f).divider \in 1 .. MaxDivider
         /\ Solution(f).period \in MinPeriod .. MaxPeriod
         /\ Solution(f) = [divider |-> Solution(f).divider, period |-> Solution(f).period]
  <1>1. f # 0 /\ Solution(f) = Solve[f]
    BY DEF Solution, InRange
  <1>2. Solve[f] \in Solutions
    BY <1>1, SearchInRange
  <1> QED
    BY <1>1, <1>2 DEF Solutions

\* bl616cl_pwm_threshold rounds to the nearest step, but for the ends.
LEMMA ThresholdIsNear ==
  ASSUME NEW one \in Nat \ {0}, NEW duty \in 0 .. one - 1, NEW period \in Nat \ (0 .. 1),
         NEW rounded \in Nat, rounded = (duty * period + one \div 2) \div one
  PROVE  /\ rounded <= period
         /\ 2 * Abs(rounded * one - duty * period) <= one
  <1> DEFINE x == duty * period
             half == one \div 2
  <1>1. x \in Nat /\ half \in Nat /\ 2 * half <= one /\ one < 2 * half + 2
    OBVIOUS
  <1>2. rounded * one <= x + half /\ x + half < rounded * one + one
    <2> DEFINE n == x + half
    <2>1. n \in Nat /\ rounded = n \div one
      BY <1>1
    <2> HIDE DEF n
    <2>2. n = (n \div one) * one + (n % one) /\ n % one \in 0 .. one - 1
      BY <2>1
    <2> QED
      BY <2>1, <2>2 DEF n
  <1>3. x = duty * period /\ x <= one * period - period
    <2>1. duty * period <= (one - 1) * period
      OBVIOUS
    <2>2. (one - 1) * period = one * period - period
      OBVIOUS
    <2> QED
      BY <2>1, <2>2
  <1>4. rounded <= period
    <2> SUFFICES ASSUME rounded >= period + 1 PROVE FALSE
      OBVIOUS
    <2>1. rounded * one >= (period + 1) * one
      OBVIOUS
    <2>2. (period + 1) * one = one * period + one
      OBVIOUS
    <2> QED
      BY <1>1, <1>2, <1>3, <2>1, <2>2
  <1>5. rounded * one \in Nat
    OBVIOUS
  <1> HIDE DEF x, half
  <1>6. 2 * Abs(rounded * one - x) <= one
    BY <1>1, <1>2, <1>5 DEF Abs
  <1> QED
    BY <1>3, <1>4, <1>6

\* A threshold that was cut to the last step is off by less than two.
LEMMA LastStepIsNear ==
  ASSUME NEW one \in Nat \ {0}, NEW duty \in 0 .. one - 1, NEW period \in Nat \ (0 .. 1),
         period <= 2 * one,
         \/ duty = one - 1
         \/ 2 * Abs(period * one - duty * period) <= one
  PROVE  Abs((period - 1) * one - duty * period) <= one
  <1> DEFINE x == duty * period
             y == period * one
  <1>1. x \in Nat /\ y \in Nat
    OBVIOUS
  <1>2. (period - 1) * one = y - one
    OBVIOUS
  <1>3. x <= y - period
    <2>1. duty * period <= (one - 1) * period
      OBVIOUS
    <2>2. (one - 1) * period = y - period
      OBVIOUS
    <2> QED
      BY <2>1, <2>2
  <1>4. duty = one - 1 => x = y - period
    OBVIOUS
  <1> HIDE DEF x, y
  <1>5. \/ x = y - period
        \/ 2 * Abs(y - x) <= one
    BY <1>4 DEF x, y
  <1>6. Abs(y - one - x) <= one
    BY <1>1, <1>3, <1>5 DEF Abs
  <1> QED
    BY <1>2, <1>6 DEF x

LEMMA ThresholdAsAsked ==
  ASSUME PwmConstantsOK, NEW duty \in Duties \cup {0}, NEW period \in MinPeriod .. MaxPeriod
  PROVE  /\ Threshold(duty, period) \in 0 .. period - 1
         /\ LET off == Abs(Threshold(duty, period) * DutyOne - duty * period) IN
              \/ 2 * off <= DutyOne
              \/ Threshold(duty, period) = period - 1 /\ off <= DutyOne
  <1> DEFINE rounded == (duty * period + DutyOne \div 2) \div DutyOne
  <1>1. /\ DutyOne \in Nat \ {0} /\ duty \in 0 .. DutyOne - 1
        /\ period \in Nat \ (0 .. 1) /\ period <= 2 * DutyOne
    BY DEF PwmConstantsOK, MinPeriod
  <1>2. rounded \in Nat
    <2>1. duty * period + DutyOne \div 2 \in Nat
      BY <1>1
    <2> QED
      BY <1>1, <2>1
  <1>3. rounded <= period /\ 2 * Abs(rounded * DutyOne - duty * period) <= DutyOne
    BY <1>1, <1>2, ThresholdIsNear
  <1>4. CASE duty = 0
    <2>1. Threshold(duty, period) = 0
      BY <1>4 DEF Threshold
    <2>2. 0 * DutyOne - duty * period = 0
      BY <1>1, <1>4
    <2>3. 2 * Abs(0 * DutyOne - duty * period) <= DutyOne
      BY <1>1, <2>2 DEF Abs
    <2> QED
      BY <1>1, <2>1, <2>3
  <1>5. CASE duty # 0 /\ (duty = DutyOne - 1 \/ rounded >= period)
    <2>1. Threshold(duty, period) = period - 1
      BY <1>5 DEF Threshold
    <2>2. rounded >= period => rounded = period
      BY <1>1, <1>2, <1>3
    <2>3. duty = DutyOne - 1 \/ 2 * Abs(period * DutyOne - duty * period) <= DutyOne
      BY <1>3, <1>5, <2>2
    <2>4. Abs((period - 1) * DutyOne - duty * period) <= DutyOne
      BY <1>1, <2>3, LastStepIsNear
    <2> QED
      BY <1>1, <2>1, <2>4
  <1>6. CASE duty # 0 /\ duty # DutyOne - 1 /\ ~(rounded >= period)
    <2>1. Threshold(duty, period) = rounded
      BY <1>6 DEF Threshold
    <2> QED
      BY <1>1, <1>2, <1>3, <1>6, <2>1
  <1> QED
    BY <1>4, <1>5, <1>6

LEMMA OutputStep ==
  ASSUME PwmConstantsOK, OutputAsAsked, [PwmNext]_pwmVars
  PROVE  OutputAsAsked'
  <1> USE DEF OutputAsAsked
  <1>0. MaxDivider \in Nat /\ MaxPeriod \in Nat /\ Low \in Polarities
    BY DEF PwmConstantsOK
  <1>1. ASSUME ChannelOff, UNCHANGED <<divider, pwmAsked>>, idle' \in Polarities,
               initialized' \in BOOLEAN, open' \in BOOLEAN, open' => initialized'
        PROVE  OutputAsAsked'
    <2>1. /\ pwmClock' = FALSE /\ pin' = FALSE /\ started' = FALSE /\ channelOn' = FALSE
          /\ enabled' = FALSE /\ regs' = Cleared
      BY <1>1 DEF ChannelOff, Release
    <2>2. Cleared \in Registers
      BY <1>0 DEF Cleared, Registers
    <2>3. PwmTypeOK'
      BY <1>1, <2>1, <2>2 DEF PwmTypeOK
    <2> QED
      BY <1>1, <2>1, <2>3 DEF Held, RunsAsAsked, BestSolution
  <1>2. ASSUME ForceStop, UNCHANGED <<divider, pwmAsked, idle>>,
               initialized' \in BOOLEAN, open' \in BOOLEAN, open' => initialized'
        PROVE  OutputAsAsked'
    <2>1. CASE pwmClock
      BY <1>1, <1>2, <2>1 DEF ForceStop, PwmTypeOK
    <2>2. CASE ~pwmClock
      <3>1. /\ pwmClock' = FALSE /\ pin' = FALSE /\ started' = FALSE /\ channelOn' = FALSE
            /\ enabled' = enabled /\ regs' = regs
        BY <1>2, <2>2 DEF ForceStop, Release, pwmHw
      <3>2. enabled = FALSE
        BY <2>2 DEF Held, PwmTypeOK
      <3>3. PwmTypeOK'
        BY <1>2, <3>1 DEF PwmTypeOK
      <3> QED
        BY <1>2, <3>1, <3>2, <3>3 DEF Held, RunsAsAsked, BestSolution
    <2> QED
      BY <2>1, <2>2
  <1>3. CASE Setup
    <2>1. ChannelOff /\ UNCHANGED <<divider, pwmAsked>>
      BY <1>3 DEF Setup
    <2>2. /\ idle' \in Polarities /\ initialized' \in BOOLEAN /\ open' \in BOOLEAN
          /\ open' => initialized'
      <3>1. idle' \in Polarities /\ initialized \in BOOLEAN /\ open \in BOOLEAN
        BY <1>3 DEF Setup, PwmTypeOK
      <3>2. \/ initialized' = TRUE /\ open' = TRUE
            \/ initialized' = initialized /\ open' = open
        BY <1>3 DEF Setup
      <3>3. CASE initialized' = TRUE /\ open' = TRUE
        BY <3>1, <3>3
      <3>4. CASE initialized' = initialized /\ open' = open
        <4>1. open => initialized
          BY DEF Held
        <4> QED
          BY <3>1, <3>4, <4>1
      <3> QED
        BY <3>2, <3>3, <3>4
    <2> QED
      BY <1>1, <2>1, <2>2
  <1>4. CASE Shutdown
    BY <1>2, <1>4 DEF Shutdown
  <1>5. CASE Stop
    BY <1>2, <1>5 DEF Stop, PwmTypeOK, Held
  <1>6. CASE UNCHANGED pwmVars
    <2>1. UNCHANGED <<initialized, pwmClock, pin, started, channelOn, divider, idle, regs,
                      enabled, open, pwmAsked>>
      BY <1>6 DEF pwmVars, resources, pwmHw
    <2>2. PwmTypeOK'
      BY <2>1 DEF PwmTypeOK
    <2>3. Held'
      BY <2>1 DEF Held
    <2>4. RunsAsAsked'
      BY <2>1 DEF RunsAsAsked
    <2>5. BestSolution'
      BY <2>1 DEF BestSolution
    <2> QED
      BY <2>2, <2>3, <2>4, <2>5
  <1>7. ASSUME NEW f \in Frequencies, NEW d \in Duties, NEW p \in Polarities,
               StartFails([frequency |-> f, duty |-> d, polarity |-> p], Solution(f))
        PROVE  OutputAsAsked'
    BY <1>1, <1>7 DEF StartFails, PwmTypeOK, Held
  <1>8. ASSUME NEW f \in Frequencies, NEW d \in Duties, NEW p \in Polarities,
               Start([frequency |-> f, duty |-> d, polarity |-> p], Solution(f))
        PROVE  OutputAsAsked'
    <2> DEFINE s == Solution(f)
               r == [frequency |-> f, duty |-> d, polarity |-> p]
    <2>1. /\ s.divider \in 1 .. MaxDivider /\ s.period \in MinPeriod .. MaxPeriod
          /\ s = [divider |-> s.divider, period |-> s.period]
      BY <1>8, SolutionFound DEF Start
    <2>2. /\ Threshold(d, s.period) \in 0 .. s.period - 1
          /\ LET off == Abs(Threshold(d, s.period) * DutyOne - d * s.period) IN
               \/ 2 * off <= DutyOne
               \/ Threshold(d, s.period) = s.period - 1 /\ off <= DutyOne
      BY <2>1, ThresholdAsAsked
    <2>3. /\ regs' = [divider |-> s.divider, period |-> s.period,
                      threshold |-> Threshold(d, s.period), polarity |-> p]
          /\ enabled' = TRUE /\ divider' = s.divider
      BY <1>8 DEF Start, ReadbackOk, Programmed
    <2>4. /\ pwmClock' = TRUE /\ pin' = TRUE /\ started' = TRUE /\ channelOn' = TRUE
          /\ idle' = p /\ pwmAsked' = r /\ open /\ UNCHANGED <<initialized, open>>
      BY <1>8 DEF Start
    <2>5. RunsAsAsked'
      <3> HIDE DEF s
      <3>1. pwmAsked'.frequency = f /\ pwmAsked'.duty = d /\ pwmAsked'.polarity = p
        BY <2>4
      <3>2. /\ regs'.divider = s.divider /\ regs'.period = s.period
            /\ regs'.threshold = Threshold(d, s.period) /\ regs'.polarity = p
        BY <2>3
      <3>3. [divider |-> divider', period |-> regs'.period] = Solution(f)
        BY <2>1, <2>3, <3>2 DEF s
      <3> QED
        BY <2>2, <2>3, <3>1, <3>2, <3>3 DEF RunsAsAsked
    <2>b. BestSolution'
      <3> SUFFICES ASSUME NEW e \in 1 .. MaxDivider, NEW n \in MinPeriod .. MaxPeriod
                   PROVE  Error(regs', f) * (e * n) <= Error([divider |-> e, period |-> n], f) * Den(regs')
        BY <2>4 DEF BestSolution
      <3>1. Closer(f, Den(s), e * n)
        BY <1>8, SolutionIsBest DEF Start
      <3> HIDE DEF s
      <3>2. Den(regs') = Den(s)
        BY <2>3 DEF Den
      <3>3. /\ Error(regs', f) = Abs(f * Den(s) - Source)
            /\ Error([divider |-> e, period |-> n], f) = Abs(f * (e * n) - Source)
        BY <3>2 DEF Error, Den
      <3> QED
        BY <3>1, <3>2, <3>3 DEF Closer
    <2> HIDE DEF s
    <2>6. Threshold(d, s.period) \in 0 .. MaxPeriod /\ s.divider \in 0 .. MaxDivider
          /\ s.period \in 0 .. MaxPeriod
      BY <1>0, <2>1, <2>2 DEF MinPeriod
    <2>7. regs' \in Registers /\ pwmAsked' \in [frequency : Frequencies \cup {0},
                                  duty : Duties \cup {0}, polarity : Polarities]
      BY <2>3, <2>4, <2>6 DEF Registers
    <2>8. PwmTypeOK'
      BY <2>3, <2>4, <2>6, <2>7 DEF PwmTypeOK
    <2>9. Held'
      BY <2>3, <2>4 DEF Held, PwmTypeOK
    <2> QED
      BY <2>5, <2>b, <2>8, <2>9
  <1> QED
    <2>1. CASE \E f \in Frequencies : StartRefused(Solution(f)) \/ StartNoClock(Solution(f))
      BY <1>6, <2>1 DEF StartRefused, StartNoClock
    <2> QED
      BY <1>3, <1>4, <1>5, <1>6, <1>7, <1>8, <2>1 DEF PwmNext

\* The PWM output is the one of the last request that was granted, with
\* the divider and period that come closest to its frequency and a duty within
\* half a step, and pin, clock and channel are held exactly while it runs.
THEOREM OutputCorrect ==
  ASSUME PwmConstantsOK
  PROVE  PwmSpec => []OutputAsAsked
  <1>1. PwmInit => OutputAsAsked
    <2> SUFFICES ASSUME PwmInit PROVE OutputAsAsked
      OBVIOUS
    <2>1. Cleared \in Registers /\ Low \in Polarities /\ 0 \in 0 .. MaxDivider
      BY DEF Cleared, Registers, PwmConstantsOK
    <2>2. PwmTypeOK
      BY <2>1 DEF PwmInit, PwmTypeOK
    <2> QED
      BY <2>2 DEF PwmInit, OutputAsAsked, Held, RunsAsAsked, BestSolution
  <1>2. OutputAsAsked /\ [PwmNext]_pwmVars => OutputAsAsked'
    BY OutputStep
  <1> QED
    BY <1>1, <1>2, PTL DEF PwmSpec
============================================================================
