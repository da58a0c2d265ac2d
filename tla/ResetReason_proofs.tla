------------------------- MODULE ResetReason_proofs --------------------------
(***************************************************************************)
(* Proofs about modules Watchdog and ResetReason, for any rate of the      *)
(* watchdog's clock, width of its counter and set of handlers.             *)
(*                                                                         *)
(* A running watchdog has the compare value of its timeout, and its        *)
(* counter never is ahead of the ticks since it was reset; so when the two *)
(* meet, the timeout has passed.  The reason of a reset is followed        *)
(* through the two words that outlive it.                                  *)
(***************************************************************************)
EXTENDS ResetReason, TLAPS

USE RateAssumption, TicksAssumption, AgeAssumption

Dog ==
    /\ counting = started
    /\ timeout \in 1 .. MaxTimeout
    /\ counter \in 0 .. MaxTicks /\ compare \in 0 .. MaxTicks
    /\ age \in Nat /\ counter <= age
    /\ started => compare = MsToTicks(timeout)

\* What the words that outlive a reset say of its cause.
Told ==
    /\ phase \in {"up", "resetting", "booting"}
    /\ phase = "up" => saved = "none" /\ reason = cause
    /\ phase = "resetting" => saved = cause /\ saved \in Asked
    /\ phase = "booting" =>
         /\ reason = "power_on"
         /\ IF saved = "none" THEN cause = IF wts THEN "watchdog" ELSE "power_on"
                              ELSE cause = saved /\ saved \in Asked
-----------------------------------------------------------------------------
(* Arithmetic                                                              *)

\* Division that rounds up.
LEMMA CeilIs ==
    ASSUME NEW a \in Nat, NEW d \in Nat \ {0}, NEW m \in Nat, a <= m * d
    PROVE  LET q == (a + d - 1) \div d IN q \in 0 .. m /\ q * d >= a
<1> DEFINE q == (a + d - 1) \div d
           r == (a + d - 1) % d
<1>1. q \in Nat /\ r \in 0 .. d - 1 /\ a + d - 1 = d * q + r
  OBVIOUS
<1>2. q * d >= a
  BY <1>1
<1>3. q * d < m * d + d
  BY <1>1
<1>4. ASSUME q > m PROVE FALSE
  <2>1. q >= m + 1
    BY <1>1, <1>4
  <2>2. q * d >= (m + 1) * d
    BY <1>1, <2>1
  <2> QED  BY <1>1, <1>3, <2>2
<1> QED  BY <1>1, <1>2, <1>4

LEMMA MaxTimeoutIs ==
    /\ MaxTimeout \in Nat \ {0}
    /\ \A ms \in 0 .. MaxTimeout : ms * Num \in Nat /\ ms * Num <= MaxTicks * Den
<1> DEFINE r == (MaxTicks * Den) % Num
<1>1. MaxTicks * Den \in Nat /\ MaxTicks * Den >= Num
  OBVIOUS
<1>2. MaxTimeout \in Nat /\ r \in 0 .. Num - 1 /\ MaxTicks * Den = Num * MaxTimeout + r
  BY <1>1 DEF MaxTimeout
<1>3. MaxTimeout # 0
  BY <1>1, <1>2
<1>4. ASSUME NEW ms \in 0 .. MaxTimeout
      PROVE  ms * Num \in Nat /\ ms * Num <= MaxTicks * Den
  <2>1. ms * Num <= MaxTimeout * Num
    BY <1>2
  <2> QED  BY <1>2, <2>1
<1> QED  BY <1>2, <1>3, <1>4

\* The ticks of a timeout last as long as it, and fit the counter.
LEMMA MsToTicksIs ==
    ASSUME NEW ms \in 1 .. MaxTimeout
    PROVE  MsToTicks(ms) \in 1 .. MaxTicks /\ MsToTicks(ms) * Den >= ms * Num
<1>1. ms * Num \in Nat /\ ms * Num <= MaxTicks * Den /\ ms * Num >= 1
  BY MaxTimeoutIs
<1> DEFINE q == (ms * Num + Den - 1) \div Den
<1>2. q \in 0 .. MaxTicks /\ q * Den >= ms * Num
  BY <1>1, CeilIs
<1>3. q # 0
  BY <1>1, <1>2
<1>4. q % (MaxTicks + 1) = q
  BY <1>2
<1> QED  BY <1>2, <1>3, <1>4 DEF MsToTicks
-----------------------------------------------------------------------------
(* The reason of a reset                                                   *)

LEMMA ToldInit == Init => Told
BY DEF Init, Told

LEMMA ToldStep == Told /\ [Next]_vars => Told'
<1> SUFFICES ASSUME Told, [Next]_vars PROVE Told'
  OBVIOUS
<1> USE DEF Told, Asked
<1>1. CASE Up /\ Called
  BY <1>1 DEF Up
<1>2. CASE Up /\ Handle
  BY <1>2 DEF Up
<1>3. CASE Ticks
  BY <1>3 DEF Ticks
<1>4. CASE Bite
  BY <1>4 DEF Bite, ChipReset
<1>5. CASE Boot
  BY <1>5 DEF Boot, Consumed
<1>6. ASSUME NEW why \in Asked, AskReset(why) PROVE Told'
  BY <1>6 DEF AskReset
<1>7. CASE SystemReset
  BY <1>7 DEF SystemReset, ChipReset
<1>8. CASE PowerOn
  BY <1>8 DEF PowerOn, ChipReset
<1>9. CASE UNCHANGED vars
  BY <1>9 DEF vars
<1> QED  BY <1>1, <1>2, <1>3, <1>4, <1>5, <1>6, <1>7, <1>8, <1>9 DEF Next

\* ReasonIsTrue holds in every reachable state: after any chain of power-ons,
\* resets that were asked for, resets that the watchdog hastened and resets of
\* its own, board_reset_cause reports the cause of the last one.
THEOREM ReasonCorrect == Spec => []ReasonIsTrue
<1>1. Told => ReasonIsTrue
  BY DEF Told, ReasonIsTrue
<1> QED  BY ToldInit, ToldStep, <1>1, PTL DEF Spec
-----------------------------------------------------------------------------
(* The watchdog                                                            *)

LEMMA DogStarts == Init => Dog
<1>1. MaxTimeout \in 1 .. MaxTimeout
  BY MaxTimeoutIs
<1>2. MaxTicks \in Nat
  OBVIOUS
<1> SUFFICES ASSUME Init PROVE Dog
  OBVIOUS
<1>3. ~started /\ counting = started
  BY DEF Init, DogInit
<1>4. timeout = MaxTimeout /\ counter = 0 /\ compare = 0 /\ age = 0
  BY DEF Init, DogInit
<1>5. counter \in 0 .. MaxTicks /\ compare \in 0 .. MaxTicks /\ age \in Nat /\ counter <= age
  BY <1>2, <1>4
<1>6. timeout \in 1 .. MaxTimeout
  BY <1>1, <1>4
<1> QED  BY <1>3, <1>5, <1>6 DEF Dog

LEMMA CallsKeepDog == Dog /\ Called => Dog'
<1> SUFFICES ASSUME Dog, Called PROVE Dog'
  OBVIOUS
<1> USE DEF Dog
<1>1. CASE Start
  <2>1. MsToTicks(timeout) \in 1 .. MaxTicks
    BY MsToTicksIs
  <2> QED  BY <1>1, <2>1 DEF Start, Configure, ResetCounter
<1>2. CASE Stop
  BY <1>2 DEF Stop
<1>3. CASE KeepAlive
  BY <1>3 DEF KeepAlive, ResetCounter
<1>4. ASSUME NEW h, Capture(h) PROVE Dog'
  BY <1>4 DEF Capture
<1>5. ASSUME NEW ms, SetTimeout(ms) PROVE Dog'
  <2>1. ms \in 1 .. MaxTimeout
    BY <1>5 DEF SetTimeout, Representable
  <2>2. MsToTicks(ms) \in 1 .. MaxTicks
    BY <2>1, MsToTicksIs
  <2>3. CASE started
    BY <1>5, <2>1, <2>2, <2>3 DEF SetTimeout, Configure, ResetCounter
  <2>4. CASE ~started
    BY <1>5, <2>1, <2>4 DEF SetTimeout, regVars
  <2> QED  BY <2>3, <2>4
<1> QED  BY <1>1, <1>2, <1>3, <1>4, <1>5 DEF Called

\* The counter is not ahead of the ticks since it was reset.
LEMMA TickKeepsDog == Dog /\ HwTick => Dog'
<1> SUFFICES ASSUME Dog, HwTick PROVE Dog'
  OBVIOUS
<1> USE DEF Dog
<1>1. counter \in 0 .. MaxTicks /\ age \in Nat /\ counter <= age
  OBVIOUS
<1>2. counter' \in 0 .. MaxTicks /\ age' \in Nat /\ counter' <= age'
  <2>1. CASE ~counting
    BY <1>1, <2>1 DEF HwTick, Matches
  <2>2. CASE counting
    <3>1. counter' = 0 \/ counter' = (counter + 1) % (MaxTicks + 1)
      BY <2>2 DEF HwTick
    <3>2. counter' \in 0 .. MaxTicks /\ counter' <= counter + 1
      BY <1>1, <3>1
    <3>3. age' = IF age < MaxAge THEN age + 1 ELSE age
      BY <2>2 DEF HwTick, Older
    <3>4. CASE age < MaxAge
      BY <1>1, <3>2, <3>3, <3>4
    <3>5. CASE ~(age < MaxAge)
      BY <1>1, <3>2, <3>3, <3>5
    <3> QED  BY <3>4, <3>5
  <2> QED  BY <2>1, <2>2
<1>3. UNCHANGED <<started, counting, timeout, compare>>
  BY DEF HwTick
<1> QED  BY <1>2, <1>3 DEF MsToTicks

LEMMA DogStep == Dog /\ [Next]_vars => Dog'
<1> SUFFICES ASSUME Dog, [Next]_vars PROVE Dog'
  OBVIOUS
<1>1. ASSUME ChipReset PROVE Dog'
  <2>1. MaxTimeout \in 1 .. MaxTimeout /\ MaxTicks \in Nat
    BY MaxTimeoutIs
  <2>2. ~started' /\ counting' = started'
    BY <1>1 DEF ChipReset
  <2>3. timeout' = MaxTimeout /\ counter' = 0 /\ compare' = 0 /\ age' = 0
    BY <1>1 DEF ChipReset
  <2>4. counter' \in 0 .. MaxTicks /\ compare' \in 0 .. MaxTicks /\ age' \in Nat
          /\ counter' <= age'
    BY <2>1, <2>3
  <2>5. timeout' \in 1 .. MaxTimeout
    BY <2>1, <2>3
  <2> QED  BY <2>2, <2>4, <2>5 DEF Dog
<1>2. CASE Up /\ Called
  BY <1>2, CallsKeepDog
<1>3. CASE Up /\ Handle
  BY <1>3 DEF Handle, Dog
<1>4. CASE Ticks
  BY <1>4, TickKeepsDog DEF Ticks
<1>5. CASE Bite
  BY <1>1, <1>5 DEF Bite
<1>6. CASE Boot
  BY <1>6 DEF Boot, dogVars, regVars, Dog
<1>7. ASSUME NEW why \in Asked, AskReset(why) PROVE Dog'
  BY <1>7 DEF AskReset, dogVars, regVars, Dog
<1>8. CASE SystemReset
  BY <1>1, <1>8 DEF SystemReset
<1>9. CASE PowerOn
  BY <1>1, <1>9 DEF PowerOn
<1>10. CASE UNCHANGED vars
  BY <1>10 DEF vars, dogVars, regVars, Dog
<1> QED  BY <1>2, <1>3, <1>4, <1>5, <1>6, <1>7, <1>8, <1>9, <1>10 DEF Next

\* When the counter meets the compare value the timeout has passed.
LEMMA MatchIsLate == Dog /\ Matches => (age + 1) * Den >= timeout * Num
<1> SUFFICES ASSUME Dog, Matches PROVE (age + 1) * Den >= timeout * Num
  OBVIOUS
<1>1. timeout \in 1 .. MaxTimeout /\ compare = MsToTicks(timeout)
  BY DEF Dog, Matches
<1>2. compare \in 1 .. MaxTicks /\ compare * Den >= timeout * Num
  BY <1>1, MsToTicksIs
<1>3. counter \in 0 .. MaxTicks /\ age \in Nat /\ counter <= age
  BY DEF Dog
<1>4. (counter + 1) % (MaxTicks + 1) = compare
  BY DEF Matches
<1>5. compare = counter + 1
  BY <1>2, <1>3, <1>4
<1>6. (age + 1) * Den >= compare * Den
  BY <1>2, <1>3, <1>5
<1>7. timeout * Num \in Int /\ compare * Den \in Int /\ (age + 1) * Den \in Int
  BY <1>1, <1>2, <1>3, MaxTimeoutIs
<1> QED  BY <1>2, <1>6, <1>7

\* FedDogSleeps for every rate, width of the counter, timeout and interleaving of
\* the driver's operations: the chip is reset, and the interrupt raised, only
\* when the whole timeout has passed since the counter was last reset.
THEOREM DogIsPatient == Spec => FedDogSleeps
<1>1. ASSUME [Next]_vars, ~pending, pending' PROVE Matches
  <2> USE DEF Called, Start, Stop, KeepAlive, SetTimeout, Capture, Handle, regVars
  <2>1. CASE Up /\ Called
    BY <1>1, <2>1
  <2>2. CASE Up /\ Handle
    BY <1>1, <2>2
  <2>3. CASE Ticks
    BY <1>1, <2>3 DEF Ticks, HwTick
  <2>4. CASE Bite \/ SystemReset \/ PowerOn
    BY <1>1, <2>4 DEF Bite, SystemReset, PowerOn, ChipReset
  <2>5. CASE Boot \/ (\E why \in Asked : AskReset(why)) \/ UNCHANGED vars
    BY <1>1, <2>5 DEF Boot, AskReset, vars, dogVars
  <2> QED  BY <1>1, <2>1, <2>2, <2>3, <2>4, <2>5 DEF Next
<1>2. Bite => Matches
  BY DEF Bite, Bites
<1>3. Dog /\ [Next]_vars
        => [(Bite \/ (~pending /\ pending')) => (age + 1) * Den >= timeout * Num]_vars
  BY <1>1, <1>2, MatchIsLate
<1> QED  BY DogStarts, DogStep, <1>3, PTL DEF Spec, FedDogSleeps
-----------------------------------------------------------------------------
(* Types, and what a status says                                           *)

\* The booleans and the ages; the rest of the types is in Dog and Told.
Fields ==
    /\ started \in BOOLEAN /\ counting \in BOOLEAN /\ resets \in BOOLEAN
    /\ pending \in BOOLEAN /\ irqEnabled \in BOOLEAN /\ wts \in BOOLEAN
    /\ handler \in Handlers \cup {NoHandler}
    /\ shown \subseteq 0 .. MaxTicks /\ shown # {}
    /\ since \in 0 .. MaxAge /\ age \in 0 .. MaxAge
    /\ cause \in Reasons /\ reason \in Reasons

\* lastreset and the counter of a running watchdog are reset together.
Stamped == started => since = age

Status == Dog /\ Told /\ Fields /\ Stamped

LEMMA StatusStarts == Init => Fields /\ Stamped
<1> SUFFICES ASSUME Init PROVE Fields /\ Stamped
  OBVIOUS
<1>1. 0 \in 0 .. MaxTicks /\ 0 \in 0 .. MaxAge
  OBVIOUS
<1> QED  BY <1>1 DEF Init, DogInit, Fields, Stamped, Reasons

\* A reset of the counter that is stamped, or a watchdog that does not run.
LEMMA FieldsCalls == Dog /\ Fields /\ Stamped /\ Up /\ Called => Fields' /\ Stamped'
<1> SUFFICES ASSUME Dog, Fields, Stamped, Up, Called PROVE Fields' /\ Stamped'
  OBVIOUS
<1> USE DEF Fields, Stamped, Up
<1>0. 0 \in 0 .. MaxTicks /\ 0 \in 0 .. MaxAge
  OBVIOUS
<1>1. CASE Start
  BY <1>0, <1>1 DEF Start, Configure, ResetCounter
<1>2. CASE Stop
  BY <1>2 DEF Stop
<1>3. CASE KeepAlive
  BY <1>0, <1>3 DEF KeepAlive, ResetCounter
<1>4. ASSUME NEW h \in Handlers \cup {NoHandler}, Capture(h) PROVE Fields' /\ Stamped'
  <2>1. handler' \in Handlers \cup {NoHandler}
    BY <1>4 DEF Capture
  <2>2. resets' \in BOOLEAN /\ pending' \in BOOLEAN /\ irqEnabled' \in BOOLEAN
    <3>1. CASE ~started
      BY <1>4, <3>1 DEF Capture
    <3>2. CASE started
      <4>1. irqEnabled' = (h # NoHandler)
        BY <1>4, <3>2 DEF Capture
      <4>2. (pending' = FALSE /\ resets' = (h = NoHandler)) \/ UNCHANGED <<pending, resets>>
        BY <1>4, <3>2 DEF Capture, SetAction
      <4> QED  BY <4>1, <4>2
    <3> QED  BY <3>1, <3>2
  <2>3. UNCHANGED <<started, timeout, since, counting, counter, compare, shown, age>>
    BY <1>4 DEF Capture
  <2> QED  BY <2>1, <2>2, <2>3
<1>5. ASSUME NEW ms, SetTimeout(ms) PROVE Fields' /\ Stamped'
  <2>1. CASE ~started
    BY <1>5, <2>1 DEF SetTimeout, regVars
  <2>2. CASE started
    <3>1. /\ resets' = (handler = NoHandler) /\ irqEnabled' = (handler # NoHandler)
          /\ pending' = FALSE /\ age' = 0 /\ since' = 0 /\ shown' = shown \cup {0}
          /\ UNCHANGED <<started, handler, counting, wts, cause, reason>>
      BY <1>5, <2>2 DEF SetTimeout, Configure, ResetCounter, Stamp
    <3>2. resets' \in BOOLEAN /\ irqEnabled' \in BOOLEAN /\ pending' \in BOOLEAN
      BY <3>1
    <3> QED  BY <1>0, <3>1, <3>2
  <2> QED  BY <2>1, <2>2
<1> QED  BY <1>1, <1>2, <1>3, <1>4, <1>5 DEF Called

LEMMA FieldsTick == Dog /\ Dog' /\ Fields /\ Stamped /\ Ticks => Fields' /\ Stamped'
<1> SUFFICES ASSUME Dog, Dog', Fields, Stamped, Ticks PROVE Fields' /\ Stamped'
  OBVIOUS
<1>1. since' = Older(since) /\ age' = IF counting THEN Older(age) ELSE age
  BY DEF Ticks, HwTick
<1>2. \A n \in 0 .. MaxAge : Older(n) \in 0 .. MaxAge
  BY DEF Older
<1>3. since' \in 0 .. MaxAge /\ age' \in 0 .. MaxAge
  BY <1>1, <1>2 DEF Fields
<1>4. shown' = {counter'} /\ counter' \in 0 .. MaxTicks
  BY DEF Ticks, HwTick, Dog
<1>5. pending' \in BOOLEAN
  BY DEF Ticks, HwTick
<1>6. UNCHANGED <<started, counting, resets, irqEnabled, wts, handler, cause, reason>>
  BY DEF Ticks, HwTick
<1>7. started => counting
  BY DEF Dog
<1> QED  BY <1>1, <1>3, <1>4, <1>5, <1>6, <1>7 DEF Fields, Stamped

LEMMA StatusStep == Status /\ [Next]_vars => Status'
<1> SUFFICES ASSUME Status, [Next]_vars PROVE Fields' /\ Stamped'
  BY DogStep, ToldStep DEF Status
<1> USE DEF Status
<1>0. 0 \in 0 .. MaxTicks /\ 0 \in 0 .. MaxAge
  OBVIOUS
<1>1. ASSUME ChipReset, cause' \in Reasons, wts' \in BOOLEAN
      PROVE  Fields' /\ Stamped'
  BY <1>0, <1>1 DEF ChipReset, Fields, Stamped, Reasons
<1>2. CASE Up /\ Called
  BY <1>2, FieldsCalls
<1>3. CASE Up /\ Handle
  BY <1>3 DEF Up, Handle, Fields, Stamped
<1>4. CASE Ticks
  BY <1>4, DogStep, FieldsTick
<1>5. CASE Bite
  BY <1>1, <1>5 DEF Bite, Fields, Reasons
<1>6. CASE Boot
  BY <1>6 DEF Boot, dogVars, regVars, Fields, Stamped, Told, Reasons
<1>7. ASSUME NEW why \in Asked, AskReset(why) PROVE Fields' /\ Stamped'
  BY <1>7 DEF AskReset, dogVars, regVars, Fields, Stamped, Reasons
<1>8. CASE SystemReset
  BY <1>1, <1>8 DEF SystemReset, Fields
<1>9. CASE PowerOn
  BY <1>1, <1>9 DEF PowerOn, Reasons
<1>10. CASE UNCHANGED vars
  BY <1>10 DEF vars, dogVars, regVars, Fields, Stamped
<1> QED  BY <1>2, <1>3, <1>4, <1>5, <1>6, <1>7, <1>8, <1>9, <1>10 DEF Next

\* Division that rounds up is the least that covers.
LEMMA CeilIsLeast ==
    ASSUME NEW a \in Nat, NEW d \in Nat \ {0}, NEW n \in Nat, n < (a + d - 1) \div d
    PROVE  n * d < a
<1> DEFINE q == (a + d - 1) \div d
           r == (a + d - 1) % d
<1>1. q \in Nat /\ r \in 0 .. d - 1 /\ a + d - 1 = d * q + r
  OBVIOUS
<1>2. (n + 1) * d <= q * d
  BY <1>1
<1>3. (n + 1) * d = n * d + d
  OBVIOUS
<1> QED  BY <1>1, <1>2, <1>3

LEMMA FloorBelow ==
    ASSUME NEW a \in Nat, NEW d \in Nat \ {0}, NEW m \in Nat, a < m * d
    PROVE  a \div d \in Nat /\ a \div d < m
<1> DEFINE q == a \div d
           r == a % d
<1>1. q \in Nat /\ r \in 0 .. d - 1 /\ a = d * q + r
  OBVIOUS
<1>2. ASSUME q >= m PROVE FALSE
  <2>1. q * d >= m * d
    BY <1>1, <1>2
  <2> QED  BY <1>1, <2>1
<1> QED  BY <1>1, <1>2

\* A timeout that has not passed leaves the software clock time, too.
LEMMA NotElapsed ==
    ASSUME NEW ms \in 1 .. MaxTimeout, NEW n \in Nat, n < MsToTicks(ms)
    PROVE  (n * Den) \div Num \in Nat /\ (n * Den) \div Num < ms
<1>1. ms * Num \in Nat /\ ms * Num <= MaxTicks * Den
  BY MaxTimeoutIs
<1> DEFINE q == (ms * Num + Den - 1) \div Den
<1>2. q \in 0 .. MaxTicks
  BY <1>1, CeilIs
<1>3. q % (MaxTicks + 1) = q
  BY <1>2
<1>4. n < q
  BY <1>3 DEF MsToTicks
<1>5. n * Den < ms * Num
  BY <1>1, <1>4, CeilIsLeast
<1>6. n * Den \in Nat
  OBVIOUS
<1> HIDE DEF q
<1> QED  BY <1>5, <1>6, FloorBelow

\* The ticks left are at least one millisecond.
LEMMA SomeLeft ==
    ASSUME NEW n \in Nat \ {0}
    PROVE  TicksToMs(n) \in Nat \ {0}
<1>1. n * Den \in Nat \ {0}
  OBVIOUS
<1> DEFINE m == n * Den
<1>2. m \in Nat \ {0}
  BY <1>1
<1> HIDE DEF m
<1>3. (m + Num - 1) \div Num \in Nat \ {0}
  <2>1. m + Num - 1 \in Nat /\ m + Num - 1 >= Num
    BY <1>2
  <2> DEFINE b == m + Num - 1
  <2>2. b \in Nat /\ b >= Num
    BY <2>1
  <2> HIDE DEF b
  <2>3. b \div Num \in Nat /\ b % Num \in 0 .. Num - 1 /\ b = Num * (b \div Num) + (b % Num)
    BY <2>2
  <2>4. b \div Num # 0
    BY <2>2, <2>3
  <2> QED  BY <2>3, <2>4 DEF b
<1> QED  BY <1>3 DEF m, TicksToMs

LEMMA StatusShows == Status => TimeLeftShown
<1> SUFFICES ASSUME Status, NEW n \in shown
             PROVE  /\ TimeLeft(n) <= timeout
                    /\ started /\ age < compare => TimeLeft(n) > 0
  BY DEF TimeLeftShown
<1>1. /\ timeout \in 1 .. MaxTimeout /\ n \in 0 .. MaxTicks /\ since \in Nat /\ age \in Nat
      /\ MaxTimeout \in Nat
  BY MaxTimeoutIs DEF Status, Dog, Fields
<1>2. MsToTicks(timeout) \in 1 .. MaxTicks
  BY <1>1, MsToTicksIs
<1>3. CASE ~started
  BY <1>1, <1>3 DEF TimeLeft
<1>4. CASE started /\ n < MsToTicks(timeout)
  <2>1. TicksToMs(MsToTicks(timeout) - n) \in Nat \ {0}
    BY <1>1, <1>2, <1>4, SomeLeft
  <2>2. TimeLeft(n) = IF TicksToMs(MsToTicks(timeout) - n) > timeout THEN timeout
                      ELSE TicksToMs(MsToTicks(timeout) - n)
    BY <1>4 DEF TimeLeft
  <2> QED  BY <1>1, <2>1, <2>2
<1>5. CASE started /\ ~(n < MsToTicks(timeout))
  <2>1. (since * Den) \div Num \in Nat
    <3>1. since * Den \in Nat
      BY <1>1
    <3> QED  BY <3>1
  <2>2. TimeLeft(n) = IF (since * Den) \div Num < timeout
                      THEN timeout - ((since * Den) \div Num) ELSE 0
    BY <1>5 DEF TimeLeft
  <2>3. since = age /\ compare = MsToTicks(timeout)
    BY <1>5 DEF Status, Stamped, Dog
  <2>4. ASSUME age < compare PROVE (since * Den) \div Num < timeout
    BY <1>1, <2>3, <2>4, NotElapsed
  <2> HIDE DEF TimeLeft
  <2> QED  BY <1>1, <2>1, <2>2, <2>4
<1> QED  BY <1>3, <1>4, <1>5

\* StatusesTrue for every rate, width of the counter, timeout and interleaving:
\* whatever WVR still shows behind a reset of the counter, getstatus never says
\* zero before the timeout has passed, nor more than the timeout
\* (bl616cl_wdt_getstatus); and every variable keeps its type.
THEOREM StatusCorrect == Spec => []StatusesTrue
<1>1. Init => Status
  BY DogStarts, ToldInit, StatusStarts DEF Status
<1>2. Status => TypeOK
  <2> SUFFICES ASSUME Status PROVE TypeOK
    OBVIOUS
  <2>1. DogTypeOK
    BY DEF Status, Dog, Fields, DogTypeOK
  <2>2. phase \in {"up", "resetting", "booting"} /\ wts \in BOOLEAN /\ cause \in Reasons
    BY DEF Status, Told, Fields
  <2>3. saved \in Asked \cup {"none"} /\ reason \in Reasons
    <3>1. CASE phase = "up"
      BY <2>2, <3>1 DEF Status, Told
    <3>2. CASE phase = "resetting"
      <4>1. saved \in Asked
        BY <3>2 DEF Status, Told
      <4>2. reason \in Reasons
        BY DEF Status, Fields
      <4> QED  BY <4>1, <4>2
    <3>3. CASE phase = "booting"
      BY <3>3 DEF Status, Told, Reasons
    <3> QED  BY <2>2, <3>1, <3>2, <3>3
  <2> QED  BY <2>1, <2>2, <2>3 DEF TypeOK
<1>3. Status => StatusesTrue
  BY <1>2, StatusShows DEF StatusesTrue
<1> QED  BY <1>1, <1>3, StatusStep, PTL DEF Spec
=============================================================================
