---------------------------- MODULE I2cBus_proofs --------------------------
(***************************************************************************)
(* Proofs about I2cBus, for chains of any length and messages of any kind: *)
(* types, the count of references, and that the transfer, which walks the  *)
(* chain by itself, sends the groups that the validation has accepted.     *)
(***************************************************************************)
EXTENDS I2cBus, FiniteSetTheorems, SequenceTheorems, WellFoundedInduction, TLAPS

\* A set that has 0 and with each number its successor has every number.
LEMMA SetInduction ==
  ASSUME NEW S, 0 \in S, \A n \in Nat : n \in S => n + 1 \in S
  PROVE  Nat \subseteq S
  <1> DEFINE R == OpToRel(<, Nat)
             T == Nat \ S
  <1> SUFFICES ASSUME T # {} PROVE FALSE
    OBVIOUS
  <1>1. IsWellFoundedOn(R, Nat)
    BY NatLessThanWellFounded
  <1>2. T \subseteq Nat
    OBVIOUS
  <1> HIDE DEF T
  <1>3. PICK x \in T : \A y \in T : <<y, x>> \notin R
    BY <1>1, <1>2, WFMin
  <1>4. x # 0 /\ x - 1 \in Nat /\ x - 1 \in T
    <2>1. x \in Nat /\ x # 0 /\ x \notin S
      BY <1>3 DEF T
    <2>2. x - 1 \in Nat /\ (x - 1) + 1 = x
      BY <2>1
    <2>3. x - 1 \notin S
      BY <2>1, <2>2
    <2> QED
      BY <2>1, <2>2, <2>3 DEF T
  <1>5. <<x - 1, x>> \in R
    BY <1>2, <1>3, <1>4 DEF OpToRel
  <1> QED
    BY <1>3, <1>4, <1>5

-----------------------------------------------------------------------------
(* The walk of the validation                                              *)

\* What the second loop of the validation says of chain c from message i on,
\* given what it says from the messages behind i on.
Verdict(from, c, i) ==
    IF i > Len(c) THEN "OK"
    ELSE IF ~Supported(c[i]) THEN "EOPNOTSUPP"
    ELSE IF ~NoStop(c[i]) THEN from[i + 1]
    ELSE IF ~PrefixOK(c, i) THEN "EOPNOTSUPP"
    ELSE IF ~PairMatches(c[i], c[i + 1]) THEN "EINVAL"
    ELSE from[i + 2]

IsWalk(from, c) == from = [i \in 1 .. Len(c) + 2 |-> Verdict(from, c, i)]

Walk(c) == CHOOSE from : IsWalk(from, c)

ValidFrom(c, i) == Walk(c)[i] = "OK"

\* A function with the verdicts for the last n messages and the two places
\* behind them.
LastVerdicts(from, c, n) ==
    from = [i \in Len(c) + 3 - n .. Len(c) + 2 |-> Verdict(from, c, i)]

\* A verdict depends on the two next ones only.
LEMMA VerdictsAgree ==
  ASSUME NEW c, Len(c) \in Nat, NEW f, NEW g, NEW i \in 1 .. Len(c) + 2,
         i <= Len(c) => f[i + 1] = g[i + 1] /\ f[i + 2] = g[i + 2]
  PROVE  Verdict(f, c, i) = Verdict(g, c, i)
  <1>1. CASE i > Len(c)
    BY <1>1 DEF Verdict
  <1>2. CASE i <= Len(c)
    BY <1>2 DEF Verdict
  <1> QED
    BY <1>1, <1>2

LEMMA WalkExists ==
  ASSUME NEW c, Len(c) \in Nat
  PROVE  IsWalk(Walk(c), c)
  <1> DEFINE L == Len(c)
             S == {n \in Nat : n <= L + 2 => \E from : LastVerdicts(from, c, n)}
  <1>1. 0 \in S
    <2> DEFINE g == [i \in L + 3 .. L + 2 |-> "OK"]
    <2>1. LastVerdicts(g, c, 0)
      BY DEF LastVerdicts
    <2> QED
      BY <2>1
  <1>2. ASSUME NEW n \in Nat, n \in S PROVE n + 1 \in S
    <2> SUFFICES ASSUME n + 1 <= L + 2 PROVE \E from : LastVerdicts(from, c, n + 1)
      OBVIOUS
    <2>1. PICK from : LastVerdicts(from, c, n)
      BY <1>2
    <2> DEFINE first == L + 2 - n
               longer == [i \in first .. L + 2 |->
                            IF i = first THEN Verdict(from, c, first) ELSE from[i]]
    <2>2. first \in 1 .. L + 2 /\ L + 3 - n = first + 1 /\ L + 3 - (n + 1) = first
      OBVIOUS
    <2> HIDE DEF first
    <2>3. ASSUME NEW i \in first .. L + 2 PROVE longer[i] = Verdict(longer, c, i)
      <3>1. i \in 1 .. L + 2 /\ (i <= L => i + 1 \in first + 1 .. L + 2 /\ i + 2 \in first + 1 .. L + 2)
        BY <2>2
      <3>2. \A k \in first + 1 .. L + 2 : longer[k] = from[k]
        BY <2>2
      <3> HIDE DEF longer
      <3>3. Verdict(longer, c, i) = Verdict(from, c, i)
        BY <3>1, <3>2, VerdictsAgree
      <3>4. longer[i] = Verdict(from, c, i)
        <4>1. CASE i = first
          BY <2>2, <4>1 DEF longer
        <4>2. CASE i # first
          <5>1. i \in first + 1 .. L + 2
            BY <2>2, <4>2
          <5>2. from[i] = Verdict(from, c, i)
            BY <2>1, <2>2, <5>1 DEF LastVerdicts
          <5> QED
            BY <3>2, <5>1, <5>2
        <4> QED
          BY <4>1, <4>2
      <3> QED
        BY <3>3, <3>4
    <2>4. longer = [i \in first .. L + 2 |-> Verdict(longer, c, i)]
      <3> DEFINE other == [i \in first .. L + 2 |-> Verdict(longer, c, i)]
      <3>1. \A i \in first .. L + 2 : longer[i] = other[i]
        BY <2>3
      <3> QED
        BY <3>1
    <2> HIDE DEF longer
    <2>5. LastVerdicts(longer, c, n + 1)
      BY <2>2, <2>4 DEF LastVerdicts
    <2> QED
      BY <2>5
  <1> HIDE DEF S
  <1>3. L + 2 \in S
    <2>1. L + 2 \in Nat
      OBVIOUS
    <2> QED
      BY <1>1, <1>2, <2>1, SetInduction
  <1>4. \E from : LastVerdicts(from, c, L + 2)
    BY <1>3 DEF S
  <1>5. L + 3 - (L + 2) = 1
    OBVIOUS
  <1>6. \E from : IsWalk(from, c)
    BY <1>4, <1>5 DEF LastVerdicts, IsWalk
  <1> QED
    BY <1>6 DEF Walk

\* A chain is a sequence.
LEMMA ChainIsSequence ==
  ASSUME NEW c \in Chains
  PROVE  c \in Seq(Messages) /\ c # <<>> /\ DOMAIN c = 1 .. Len(c) /\ Len(c) \in Nat \ {0}
  <1>1. PICK n \in 1 .. MaxCount : c \in [1 .. n -> Messages]
    BY DEF Chains
  <1>2. n \in Nat \ {0}
    BY <1>1
  <1>3. c \in Seq(Messages)
    BY <1>1, <1>2, SeqDef
  <1>4. Len(c) = n
    BY <1>1, <1>2, <1>3
  <1> QED
    BY <1>1, <1>2, <1>3, <1>4

\* What Validate accepts is described, and the walk accepts it from its first
\* message on.
LEMMA ValidateWalks ==
  ASSUME NEW c \in Chains, Validate(c) = "OK"
  PROVE  ValidFrom(c, 1) /\ \A i \in DOMAIN c : Described(c[i])
  <1>1. Len(c) \in Nat
    BY ChainIsSequence
  <1> DEFINE from == CHOOSE f : IsWalk(f, c)
  <1>2. Validate(c) = IF c # <<>> /\ \A i \in DOMAIN c : Described(c[i]) THEN from[1] ELSE "EINVAL"
    BY DEF Validate, IsWalk, Verdict
  <1>3. "EINVAL" # "OK"
    OBVIOUS
  <1> QED
    BY <1>2, <1>3 DEF ValidFrom, Walk

\* The walk goes on behind a message, or behind a prefix and its read.
LEMMA WalkGoesOn ==
  ASSUME NEW c, Len(c) \in Nat, NEW i \in 1 .. Len(c), ValidFrom(c, i)
  PROVE  /\ ~NoStop(c[i]) => ValidFrom(c, i + 1)
         /\ NoStop(c[i]) => /\ PrefixOK(c, i) /\ PairMatches(c[i], c[i + 1])
                            /\ ValidFrom(c, i + 2)
  <1>1. Walk(c)[i] = Verdict(Walk(c), c, i)
    BY WalkExists DEF IsWalk
  <1>2. Verdict(Walk(c), c, i) = "OK"
    BY <1>1 DEF ValidFrom
  <1>3. ~(i > Len(c)) /\ i <= Len(c)
    OBVIOUS
  <1>4. Supported(c[i])
    BY <1>2, <1>3 DEF Verdict
  <1> QED
    BY <1>2, <1>3, <1>4 DEF Verdict, ValidFrom
-----------------------------------------------------------------------------
(* The count of references                                                 *)

\* The references that threads have: the n-th of a thread is <<t, n>>.
Users == {u \in Threads \X (Nat \ {0}) : u[2] <= i2cMine[u[1]]}

\* The count is the number of references that threads have.
UsersCounted == IsFiniteSet(Users) /\ i2cRefs = Cardinality(Users)

LEMMA OneMoreUser ==
  ASSUME i2cMine \in [Threads -> Nat], i2cRefs \in Nat, UsersCounted, NEW t \in Threads,
         i2cMine' = [i2cMine EXCEPT ![t] = @ + 1], i2cRefs' = i2cRefs + 1
  PROVE  UsersCounted'
  <1> DEFINE new == <<t, i2cMine[t] + 1>>
  <1>1. new \notin Users
    BY DEF Users
  <1>2. Users' = Users \cup {new}
    BY DEF Users
  <1>3. IsFiniteSet(Users \cup {new}) /\ Cardinality(Users \cup {new}) = Cardinality(Users) + 1
    BY <1>1, FS_AddElement DEF UsersCounted
  <1> QED
    BY <1>2, <1>3 DEF UsersCounted

LEMMA OneUserLess ==
  ASSUME i2cMine \in [Threads -> Nat], i2cRefs \in Nat, UsersCounted, NEW t \in Threads,
         i2cMine[t] > 0, i2cMine' = [i2cMine EXCEPT ![t] = @ - 1], i2cRefs' = i2cRefs - 1
  PROVE  UsersCounted' /\ i2cRefs > 0
  <1> DEFINE old == <<t, i2cMine[t]>>
  <1>1. old \in Users
    BY DEF Users
  <1>2. Users' = Users \ {old}
    BY DEF Users
  <1>3. IsFiniteSet(Users \ {old}) /\ Cardinality(Users \ {old}) = Cardinality(Users) - 1
    BY <1>1, FS_RemoveElement DEF UsersCounted
  <1>4. i2cRefs # 0
    BY <1>1, FS_EmptySet DEF UsersCounted
  <1> QED
    BY <1>2, <1>3, <1>4 DEF UsersCounted
-----------------------------------------------------------------------------
(* The invariant                                                           *)

\* The lock is taken exactly while a transfer is under way; then the bus has a
\* user, and a bus with users is clocked and routed to their pins.
InUse ==
    /\ phase = "none" <=> i2cLock = NoThread
    /\ i2cLock # NoThread => i2cRefs > 0
    /\ i2cRefs > 0 => i2cClock = TRUE /\ routed = pins

\* A transfer is inside of a chain that is described, and the validation
\* accepted it from the next message on.
Walking ==
    phase # "none" =>
        /\ chain \in Seq(Messages) /\ next \in 1 .. Len(chain)
        /\ \A i \in 1 .. Len(chain) : Described(chain[i])
        /\ ValidFrom(chain, next)

\* The controller was programmed for the group that moves.
ForGroup ==
    phase \in {"transfer", "moving"} /\ ~test_ops => controller = chain[next].freq

\* Threads have counted references.
MineCounted == i2cMine \in [Threads -> Nat] /\ i2cRefs \in 0 .. MaxUsers /\ UsersCounted

StateTypes ==
    /\ i2cLock \in Threads \cup {NoThread}
    /\ pins \in Pins \cup {NoPins} /\ routed \in Pins \cup {NoPins}
    /\ i2cClock \in BOOLEAN /\ controller \in I2cFrequencies \cup {Off}
    /\ test_ops \in BOOLEAN /\ last_status \in Statuses \cup {NoStatus}
    /\ phase \in {"none", "configure", "transfer", "moving", "status", "cleanup"}
    /\ ret # "OK" <=> phase \in {"status", "cleanup"}

I2cInv == StateTypes /\ MineCounted /\ InUse /\ Walking /\ ForGroup

\* The group behind the next one: inside of the chain, and accepted.
LEMMA NextGroup ==
  ASSUME I2cInv, phase # "none"
  PROVE  /\ GroupCount \in {1, 2} /\ next + GroupCount - 1 <= Len(chain)
         /\ ~IsLast => next + GroupCount \in 1 .. Len(chain) /\ ValidFrom(chain, next + GroupCount)
         /\ GroupCount = 1 => ~NoStop(chain[next])
         /\ GroupCount = 2 => PrefixOK(chain, next) /\ PairMatches(chain[next], chain[next + 1])
  <1>1. Len(chain) \in Nat /\ next \in 1 .. Len(chain) /\ ValidFrom(chain, next)
    BY DEF I2cInv, Walking
  <1>2. CASE NoStop(chain[next])
    <2>1. GroupCount = 2
      BY <1>2 DEF GroupCount
    <2>2. /\ PrefixOK(chain, next) /\ PairMatches(chain[next], chain[next + 1])
          /\ ValidFrom(chain, next + 2)
      BY <1>1, <1>2, WalkGoesOn
    <2>3. next < Len(chain)
      BY <2>2 DEF PrefixOK
    <2> QED
      BY <1>1, <2>1, <2>2, <2>3 DEF IsLast
  <1>3. CASE ~NoStop(chain[next])
    <2>1. GroupCount = 1
      BY <1>3 DEF GroupCount
    <2>2. ValidFrom(chain, next + 1)
      BY <1>1, <1>3, WalkGoesOn
    <2> QED
      BY <1>1, <1>3, <2>1, <2>2 DEF IsLast
  <1> QED
    BY <1>2, <1>3

LEMMA I2cInitInv ==
  ASSUME I2cConstantsOK, I2cInit
  PROVE  I2cInv
  <1>1. StateTypes
    BY DEF StateTypes, I2cInit
  <1>2. MineCounted
    <2>1. Users = {}
      BY DEF Users, I2cInit
    <2>2. UsersCounted
      BY <2>1, FS_EmptySet DEF UsersCounted, I2cInit
    <2> QED
      BY <2>2 DEF MineCounted, I2cInit, I2cConstantsOK
  <1> QED
    BY <1>1, <1>2 DEF I2cInv, InUse, Walking, ForGroup, I2cInit

LEMMA SameUsers ==
  ASSUME MineCounted, UNCHANGED <<i2cMine, i2cRefs>>
  PROVE  MineCounted'
  BY DEF MineCounted, UsersCounted, Users

LEMMA BeginKeepsInv ==
  ASSUME I2cConstantsOK, I2cInv, NEW t \in Threads, NEW c \in Chains, Begin(t, c)
  PROVE  I2cInv'
  <1>1. ValidFrom(c, 1) /\ \A i \in DOMAIN c : Described(c[i])
    BY ValidateWalks DEF Begin
  <1>2. c \in Seq(Messages) /\ DOMAIN c = 1 .. Len(c) /\ Len(c) \in Nat \ {0}
    BY ChainIsSequence
  <1>3. MineCounted'
    BY SameUsers DEF I2cInv, Begin, busVars
  <1>4. StateTypes'
    BY DEF StateTypes, I2cInv, InUse, Begin, busVars
  <1>5. t # NoThread
    BY DEF I2cConstantsOK
  <1>6. InUse'
    BY <1>5 DEF I2cInv, InUse, Begin, busVars
  <1>7. chain' = c /\ next' = 1 /\ phase' = "configure"
    BY DEF Begin
  <1>8. Walking'
    <2>1. 1 \in 1 .. Len(c)
      BY <1>2
    <2> QED
      BY <1>1, <1>2, <1>7, <2>1 DEF Walking
  <1> QED
    BY <1>3, <1>4, <1>6, <1>7, <1>8 DEF I2cInv, ForGroup

\* A step inside of a transfer that keeps the chain and the bus.
LEMMA GroupStepKeepsInv ==
  ASSUME I2cInv, NEW t \in Threads, i2cLock = t, I2cConstantsOK,
         UNCHANGED <<i2cLock, chain, next, test_ops, busVars>>,
         phase # "none", StateTypes', phase' # "none", ForGroup'
  PROVE  I2cInv'
  <1>1. t # NoThread
    BY DEF I2cConstantsOK
  <1>2. MineCounted'
    BY SameUsers DEF I2cInv, busVars
  <1>3. InUse'
    BY <1>1 DEF I2cInv, InUse, busVars
  <1>4. Walking'
    BY DEF I2cInv, Walking
  <1> QED
    BY <1>2, <1>3, <1>4 DEF I2cInv

\* The end of a transfer.
LEMMA ReturnKeepsInv ==
  ASSUME I2cInv, I2cConstantsOK, Return, UNCHANGED <<test_ops, busVars>>,
         last_status' \in Statuses \cup {NoStatus}, controller' \in I2cFrequencies \cup {Off}
  PROVE  I2cInv'
  <1>1. MineCounted'
    BY SameUsers DEF I2cInv, busVars
  <1>2. StateTypes'
    BY DEF I2cInv, StateTypes, Return, busVars
  <1>3. InUse'
    BY DEF I2cInv, InUse, Return, busVars
  <1> QED
    BY <1>1, <1>2, <1>3 DEF I2cInv, Walking, ForGroup, Return

LEMMA TransferKeepsInv ==
  ASSUME I2cConstantsOK, I2cInv, NEW t \in Threads,
         \/ \E r \in Errors \cup {"OK"} : Configure(t, r)
         \/ Move(t) \/ GroupMoved(t)
         \/ \E r \in Errors : MoveFails(t, r)
         \/ \E s \in Statuses : Status(t, s)
         \/ Cleanup(t)
  PROVE  I2cInv'
  <1>0. "OK" \notin Errors /\ StateTypes /\ ForGroup
    BY DEF I2cConstantsOK, I2cInv
  <1>1. ASSUME NEW r \in Errors \cup {"OK"}, Configure(t, r) PROVE I2cInv'
    <2>1. next \in 1 .. Len(chain) /\ Described(chain[next])
      BY <1>1 DEF Configure, In, I2cInv, Walking
    <2>2. chain[next].freq \in I2cFrequencies
      BY <2>1 DEF Described
    <2>3. StateTypes'
      BY <1>0, <1>1, <2>2 DEF StateTypes, Configure, In, busVars
    <2>4. ForGroup'
      BY <1>1 DEF ForGroup, Configure, In
    <2> QED
      BY <1>1, <2>3, <2>4, GroupStepKeepsInv DEF Configure, In
  <1>2. CASE Move(t)
    <2>1. StateTypes' /\ ForGroup'
      BY <1>0, <1>2 DEF StateTypes, ForGroup, Move, In, busVars
    <2> QED
      BY <1>2, <2>1, GroupStepKeepsInv DEF Move, In
  <1>3. CASE GroupMoved(t) /\ IsLast
    <2>1. Return /\ UNCHANGED <<test_ops, last_status, controller, busVars>>
      BY <1>3 DEF GroupMoved
    <2> QED
      BY <1>0, <2>1, ReturnKeepsInv DEF StateTypes
  <1>4. CASE GroupMoved(t) /\ ~IsLast
    <2>1. i2cLock = t /\ phase = "moving"
      BY <1>4 DEF GroupMoved, In
    <2>2. next + GroupCount \in 1 .. Len(chain) /\ ValidFrom(chain, next + GroupCount)
      BY <1>4, <2>1, NextGroup
    <2>3. /\ next' = next + GroupCount /\ phase' = "configure"
          /\ UNCHANGED <<i2cLock, chain, ret, test_ops, last_status, controller, busVars>>
      BY <1>4 DEF GroupMoved
    <2>4. StateTypes'
      BY <1>0, <2>1, <2>3 DEF StateTypes, busVars
    <2>5. MineCounted'
      BY <2>3, SameUsers DEF I2cInv, busVars
    <2>6. InUse'
      BY <2>1, <2>3 DEF I2cInv, InUse, busVars
    <2>7. Walking'
      BY <2>1, <2>2, <2>3 DEF I2cInv, Walking
    <2> QED
      BY <2>3, <2>4, <2>5, <2>6, <2>7 DEF I2cInv, ForGroup
  <1>5. ASSUME NEW r \in Errors, MoveFails(t, r) PROVE I2cInv'
    <2>1. Errno(r) # "OK"
      BY <1>0 DEF Errno
    <2>2. StateTypes'
      BY <1>0, <1>5, <2>1 DEF StateTypes, MoveFails, In, busVars
    <2>3. ForGroup'
      BY <1>5 DEF ForGroup, MoveFails
    <2> QED
      BY <1>5, <2>2, <2>3, GroupStepKeepsInv DEF MoveFails, In
  <1>6. ASSUME NEW s \in Statuses, Status(t, s) PROVE I2cInv'
    <2>1. StateTypes'
      BY <1>0, <1>6 DEF StateTypes, Status, In, busVars
    <2>2. ForGroup'
      BY <1>6 DEF ForGroup, Status
    <2> QED
      BY <1>6, <2>1, <2>2, GroupStepKeepsInv DEF Status, In
  <1>7. CASE Cleanup(t)
    <2>1. /\ Return /\ UNCHANGED <<test_ops, last_status, busVars>>
          /\ controller' \in I2cFrequencies \cup {Off}
      BY <1>0, <1>7 DEF Cleanup, StateTypes
    <2> QED
      BY <1>0, <2>1, ReturnKeepsInv DEF StateTypes
  <1> QED
    BY <1>1, <1>2, <1>3, <1>4, <1>5, <1>6, <1>7

LEMMA StatusKeepsInv ==
  ASSUME I2cInv, UNCHANGED <<transferVars, test_ops, controller, busVars>>,
         last_status' \in Statuses \cup {NoStatus}
  PROVE  I2cInv'
  <1>0. StateTypes /\ MineCounted /\ InUse /\ Walking /\ ForGroup
    BY DEF I2cInv
  <1>1. MineCounted'
    BY <1>0, SameUsers DEF busVars
  <1>2. StateTypes'
    BY <1>0 DEF StateTypes, transferVars, busVars
  <1>3. InUse'
    BY <1>0 DEF InUse, transferVars, busVars
  <1>4. Walking'
    BY <1>0 DEF Walking, transferVars
  <1>5. ForGroup'
    BY <1>0 DEF ForGroup, transferVars
  <1> QED
    BY <1>1, <1>2, <1>3, <1>4, <1>5 DEF I2cInv

LEMMA UsersKeepInv ==
  ASSUME I2cConstantsOK, I2cInv, NEW t \in Threads,
         \/ \E p \in Pins : I2cInitialize(t, p)
         \/ I2cUninitialize(t)
         \/ \E ops \in BOOLEAN : Install(ops)
         \/ \E c \in [1 .. 1 -> Messages] : NoDevice(c)
  PROVE  I2cInv'
  <1>0. /\ Word \in Nat /\ MaxUsers \in Nat /\ MaxUsers < Word
        /\ i2cMine \in [Threads -> Nat] /\ i2cRefs \in Nat /\ i2cRefs <= MaxUsers /\ UsersCounted
        /\ DefaultFrequency \in I2cFrequencies
        /\ StateTypes /\ MineCounted /\ InUse /\ Walking /\ ForGroup
    BY DEF I2cConstantsOK, I2cInv, MineCounted
  <1>1. ASSUME NEW p \in Pins, I2cInitialize(t, p) PROVE I2cInv'
    <2>1. i2cRefs' = i2cRefs + 1 /\ i2cRefs' <= MaxUsers
      <3>1. (i2cRefs + 1) % Word = i2cRefs + 1 /\ i2cRefs + 1 <= MaxUsers
        BY <1>0, <1>1 DEF I2cInitialize
      <3> QED
        BY <1>1, <3>1 DEF I2cInitialize
    <2>2. UsersCounted' /\ i2cMine' \in [Threads -> Nat]
      <3>1. i2cMine' = [i2cMine EXCEPT ![t] = @ + 1]
        BY <1>1 DEF I2cInitialize
      <3>2. i2cMine' \in [Threads -> Nat]
        BY <1>0, <3>1
      <3> QED
        BY <1>0, <2>1, <3>1, <3>2, OneMoreUser
    <2>3. MineCounted'
      BY <1>0, <2>1, <2>2 DEF MineCounted
    <2>4. StateTypes'
      BY <1>0, <1>1 DEF StateTypes, I2cInitialize, transferVars
    <2>5. InUse'
      BY <1>0, <1>1, <2>1 DEF InUse, I2cInitialize, transferVars
    <2>6. phase' = "none"
      BY <1>0, <1>1 DEF InUse, I2cInitialize, transferVars
    <2> QED
      BY <2>3, <2>4, <2>5, <2>6 DEF I2cInv, Walking, ForGroup
  <1>2. CASE I2cUninitialize(t)
    <2>1. UsersCounted' /\ i2cRefs > 0
      BY <1>0, <1>2, OneUserLess DEF I2cUninitialize
    <2>2. i2cMine' \in [Threads -> Nat] /\ i2cRefs' = i2cRefs - 1
      BY <1>0, <1>2 DEF I2cUninitialize
    <2>3. MineCounted'
      BY <1>0, <2>1, <2>2 DEF MineCounted
    <2>4. StateTypes'
      BY <1>0, <1>2 DEF StateTypes, I2cUninitialize, transferVars
    <2>5. InUse'
      <3>1. i2cLock = NoThread /\ UNCHANGED <<i2cLock, phase, pins>>
        BY <1>2 DEF I2cUninitialize, transferVars
      <3>2. CASE i2cRefs = 1
        <4>1. ~(i2cRefs' > 0)
          BY <2>2, <3>2
        <4> QED
          BY <1>0, <3>1, <4>1 DEF InUse
      <3>3. CASE i2cRefs # 1
        <4>1. UNCHANGED <<i2cClock, routed>>
          BY <1>2, <3>3 DEF I2cUninitialize, I2cLastReference
        <4> QED
          BY <1>0, <2>1, <3>1, <4>1 DEF InUse
      <3> QED
        BY <3>2, <3>3
    <2>6. phase' = "none"
      BY <1>0, <1>2 DEF InUse, I2cUninitialize, transferVars
    <2> QED
      BY <2>3, <2>4, <2>5, <2>6 DEF I2cInv, Walking, ForGroup
  <1>3. ASSUME NEW ops \in BOOLEAN, Install(ops) PROVE I2cInv'
    <2>1. MineCounted'
      BY <1>0, <1>3, SameUsers DEF Install, busVars
    <2>2. StateTypes'
      BY <1>0, <1>3 DEF StateTypes, Install, transferVars, busVars
    <2>3. InUse' /\ phase' = "none"
      BY <1>0, <1>3 DEF InUse, Install, transferVars, busVars
    <2> QED
      BY <2>1, <2>2, <2>3 DEF I2cInv, Walking, ForGroup
  <1>4. CASE \E c \in [1 .. 1 -> Messages] : NoDevice(c)
    BY <1>4, StatusKeepsInv DEF NoDevice
  <1> QED
    BY <1>1, <1>2, <1>3, <1>4

LEMMA I2cStep ==
  ASSUME I2cConstantsOK, I2cInv, [I2cNext]_i2cVars
  PROVE  I2cInv'
  <1>1. CASE UNCHANGED i2cVars
    BY <1>1, StatusKeepsInv DEF i2cVars, I2cInv, StateTypes
  <1>2. ASSUME NEW t \in Threads, Step(t) PROVE I2cInv'
    <2>1. CASE \E c \in Chains : Begin(t, c)
      BY <2>1, BeginKeepsInv
    <2> QED
      BY <1>2, <2>1, TransferKeepsInv, UsersKeepInv DEF Step
  <1> QED
    BY <1>1, <1>2 DEF I2cNext

LEMMA RowCount ==
  ASSUME NEW t, NEW n \in Nat
  PROVE  IsFiniteSet({t} \X (1 .. n)) /\ Cardinality({t} \X (1 .. n)) = n
  <1>1. IsFiniteSet({t}) /\ Cardinality({t}) = 1
    BY FS_Singleton
  <1>2. IsFiniteSet(1 .. n) /\ Cardinality(1 .. n) = IF 1 > n THEN 0 ELSE n - 1 + 1
    BY FS_Interval
  <1> DEFINE row == 1 .. n
             one == {t}
  <1>3. Cardinality(row) = n
    BY <1>2
  <1> HIDE DEF row, one
  <1>4. IsFiniteSet(one \X row) /\ Cardinality(one \X row) = Cardinality(one) * Cardinality(row)
    BY <1>1, <1>2, FS_Product DEF row, one
  <1>5. Cardinality(one \X row) = n
    BY <1>1, <1>3, <1>4 DEF one
  <1> QED
    BY <1>4, <1>5 DEF row, one

LEMMA BelowBound ==
  ASSUME NEW most \in Nat, NEW k \in 0 .. most, NEW n \in Nat, n <= k
  PROVE  n \in 0 .. most
  OBVIOUS

\* A thread's count is a part of the whole one.
LEMMA MineIsBounded ==
  ASSUME MineCounted, NEW t \in Threads
  PROVE  i2cMine[t] \in Nat /\ i2cMine[t] <= i2cRefs
  <1> DEFINE own == {t} \X (1 .. i2cMine[t])
  <1>1. i2cMine[t] \in Nat /\ IsFiniteSet(Users) /\ i2cRefs = Cardinality(Users)
    BY DEF MineCounted, UsersCounted
  <1>2. own \subseteq Users
    BY <1>1 DEF Users
  <1>3. Cardinality(own) = i2cMine[t]
    BY <1>1, RowCount
  <1>4. Cardinality(own) <= Cardinality(Users)
    BY <1>1, <1>2, FS_Subset
  <1> QED
    BY <1>1, <1>3, <1>4

\* Types of the bus: no reference is counted twice or given back twice, and a
\* transfer has an error exactly while it reads the status and cleans up.
THEOREM TypeCorrect ==
  ASSUME I2cConstantsOK
  PROVE  I2cSpec => []I2cTypeOK
  <1>1. I2cInit => I2cInv
    BY I2cInitInv
  <1>2. I2cInv /\ [I2cNext]_i2cVars => I2cInv'
    BY I2cStep
  <1>3. I2cInv => I2cTypeOK
    <2> SUFFICES ASSUME I2cInv PROVE I2cTypeOK
      OBVIOUS
    <2>1. MineCounted /\ StateTypes
      BY DEF I2cInv
    <2>2. i2cMine \in [Threads -> Nat] /\ i2cRefs \in 0 .. MaxUsers
      BY <2>1 DEF MineCounted
    <2>3. \A t \in Threads : i2cMine[t] \in 0 .. MaxUsers
      <3>1. \A t \in Threads : i2cMine[t] \in Nat /\ i2cMine[t] <= i2cRefs
        BY <2>1, MineIsBounded
      <3>2. MaxUsers \in Nat
        BY DEF I2cConstantsOK
      <3> QED
        BY <2>2, <3>1, <3>2, BelowBound
    <2>4. i2cMine \in [Threads -> 0 .. MaxUsers]
      BY <2>2, <2>3
    <2> QED
      BY <2>1, <2>2, <2>4 DEF StateTypes, I2cTypeOK
  <1> QED
    BY <1>1, <1>2, <1>3, PTL DEF I2cSpec

\* A group of messages that moves lies within its chain and is one that the
\* validation accepted, each message at its own frequency, on a bus that is
\* clocked and routed: bl616cl_i2c_transfer goes through the chain as
\* bl616cl_i2c_validate did, whatever failed before.
THEOREM GroupsCorrect ==
  ASSUME I2cConstantsOK
  PROVE  I2cSpec => GroupsAreWhole
  <1>1. I2cInit => I2cInv
    BY I2cInitInv
  <1>2. I2cInv /\ [I2cNext]_i2cVars => I2cInv'
    BY I2cStep
  <1> DEFINE Whole(t) ==
        LET group == next .. next + GroupCount - 1
        IN  /\ group \subseteq DOMAIN chain
            /\ i2cClock /\ routed = pins
            /\ \A i \in group : test_ops \/ controller = chain[i].freq
            /\ GroupCount = 1 => "nostop" \notin chain[next].flags
            /\ GroupCount = 2 => /\ chain[next + 1].flags = {"read"}
                                 /\ chain[next + 1].addr = chain[next].addr
  <1>3. ASSUME I2cInv, NEW t \in Threads, Move(t) PROVE Whole(t)
    <2>1. i2cLock = t /\ phase = "transfer" /\ t # NoThread
      BY <1>3 DEF Move, In, I2cConstantsOK
    <2>2. i2cClock /\ routed = pins
      BY <1>3, <2>1 DEF I2cInv, InUse
    <2>3. chain \in Seq(Messages) /\ next \in 1 .. Len(chain)
      BY <1>3, <2>1 DEF I2cInv, Walking
    <2>4. /\ GroupCount \in {1, 2} /\ next + GroupCount - 1 <= Len(chain)
          /\ GroupCount = 1 => ~NoStop(chain[next])
          /\ GroupCount = 2 => PrefixOK(chain, next) /\ PairMatches(chain[next], chain[next + 1])
      BY <1>3, <2>1, NextGroup
    <2>5. DOMAIN chain = 1 .. Len(chain) /\ Len(chain) \in Nat
      BY <2>3
    <2>6. test_ops \/ controller = chain[next].freq
      BY <1>3, <2>1 DEF I2cInv, ForGroup
    <2>7. next .. next + GroupCount - 1 \subseteq DOMAIN chain
      BY <2>3, <2>4, <2>5
    <2>8. ASSUME NEW i \in next .. next + GroupCount - 1
          PROVE  test_ops \/ controller = chain[i].freq
      <3>1. CASE i = next
        BY <2>6, <3>1
      <3>2. CASE i # next
        <4>1. i = next + 1 /\ GroupCount = 2
          BY <2>3, <2>4, <3>2
        <4> QED
          BY <2>4, <2>6, <4>1 DEF PairMatches
      <3> QED
        BY <3>1, <3>2
    <2> QED
      BY <2>2, <2>4, <2>7, <2>8 DEF NoStop, PrefixOK, PairMatches
  <1>4. I2cInv => [\A t \in Threads : Move(t) => Whole(t)]_i2cVars
    BY <1>3
  <1> QED
    BY <1>1, <1>2, <1>4, PTL DEF I2cSpec, GroupsAreWhole
============================================================================
