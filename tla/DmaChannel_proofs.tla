-------------------------- MODULE DmaChannel_proofs --------------------------
(***************************************************************************)
(* Proofs about DmaChannel, for any set of channels, threads, widths and   *)
(* lengths: its type invariant, the protocol of the two semaphores, one    *)
(* callback at a time, a drained channel before reuse.                     *)
(***************************************************************************)
EXTENDS DmaChannel, TLAPS

\* A configured channel has a transfer width: Start divides by it.
ConfiguredWidth == \A c \in Channels : configured[c] => width[c] # 0

Base == TypeOK /\ ConfiguredWidth /\ OneCallback
-----------------------------------------------------------------------------
(* Lemmas about the operators of the module                                *)

LEMMA ProductIsNat == \A m, n \in Nat : m * n \in Nat
  OBVIOUS

LEMMA QuotientIsNat == \A m \in Nat, n \in Nat \ {0} : m \div n \in Nat
  OBVIOUS

LEMMA PendingIsNat ==
  ASSUME TypeOK, NEW c \in Channels
  PROVE  PendingBytes(c) \in Nat
  <1>1. left[c] \in Nat /\ width[c] \in Nat /\ request[c] \in Nat
    BY DEF TypeOK, ChanType, HwType
  <1>2. left[c] * width[c] \in Nat
    BY <1>1, ProductIsNat
  <1> QED
    BY <1>1, <1>2 DEF PendingBytes

LEMMA MaskType ==
  ASSUME HwType, NEW c \in Channels, MaskStopClear(c), UNCHANGED hold
  PROVE  HwType'
  BY DEF HwType, MaskStopClear

LEMMA ClearType ==
  ASSUME ChanType, NEW c \in Channels, NEW s \in States, ClearChan(c, s),
         width' \in [Channels -> Nat]
  PROVE  ChanType'
  BY DEF ChanType, ClearChan

\* A context inside a call is in a call on some channel.
LEMMA OnChannel ==
  ASSUME TypeOK, NEW x \in Contexts, pc[x] # "idle"
  PROVE  on[x] \in Channels
  BY DEF TypeOK, CallType, Places
-----------------------------------------------------------------------------
(* Type correctness                                                        *)

LEMMA InitBase ==
  ASSUME Init
  PROVE  Base
  <1>1. ChanType /\ SemType
    BY DEF Init, ChanType, SemType, States
  <1>2. HwType /\ IrqType
    BY DEF Init, HwType, IrqType
  <1>3. CallType
    BY DEF Init, CallType, Places
  <1>4. ClientType
    BY DEF Init, ClientType
  <1>5. ConfiguredWidth
    BY DEF Init, ConfiguredWidth
  <1>6. OneCallback
    BY NoChanAssumption DEF Init, OneCallback
  <1> QED
    BY <1>1, <1>2, <1>3, <1>4, <1>5, <1>6 DEF Base, TypeOK

\* The steps of bl616cl_dma_get_chan.
LEMMA GetTypes ==
  ASSUME TypeOK, NEW t \in Threads,
         GetWait(t) \/ GetLock(t) \/ \E c \in Channels : GetEnter(t, c)
  PROVE  TypeOK'
  <1> USE DEF chanVars, hwVars, irqVars, callVars
  <1>0. t \in Contexts
    BY DEF Contexts
  <1>1. ASSUME NEW c \in Channels, GetEnter(t, c)
        PROVE  TypeOK'
    <2>1. CallType'
      BY <1>0, <1>1, NoChanAssumption DEF TypeOK, CallType, Places, GetEnter
    <2> QED
      BY <1>1, <2>1
      DEF TypeOK, ChanType, SemType, HwType, IrqType, ClientType, GetEnter
  <1>2. CASE GetWait(t)
    <2>0. on[t] \in Channels
      BY <1>0, <1>2, OnChannel DEF GetWait
    <2>1. CallType'
      BY <1>0, <1>2 DEF TypeOK, CallType, Places, GetWait
    <2>2. SemType'
      BY <1>2, <2>0 DEF TypeOK, SemType, GetWait, Available
    <2> QED
      BY <1>2, <2>1, <2>2
      DEF TypeOK, ChanType, HwType, IrqType, ClientType, GetWait
  <1>3. CASE GetLock(t)
    <2>0. on[t] \in Channels
      BY <1>0, <1>3, OnChannel DEF GetLock
    <2>1. CallType'
      BY <1>0, <1>3, NoChanAssumption DEF TypeOK, CallType, Places, GetLock
    <2>2. HwType' /\ IrqType'
      BY <1>3 DEF TypeOK, HwType, IrqType, GetLock
    <2>3. ChanType' /\ SemType' /\ ClientType'
      <3>1. CASE state[on[t]] # "FREE"
        BY <1>3, <2>0, <3>1
        DEF TypeOK, ChanType, SemType, ClientType, GetLock
      <3>2. CASE state[on[t]] = "FREE"
        <4>1. ClearChan(on[t], "OWNED") /\ UNCHANGED <<width, avail, done>>
          BY <1>3, <3>2 DEF GetLock
        <4>2. ChanType'
          BY <2>0, <4>1, ClearType DEF TypeOK, ChanType, States
        <4>3. ClientType'
          BY <1>3, <2>0, <3>2 DEF TypeOK, ClientType, GetLock
        <4> QED
          BY <4>1, <4>2, <4>3 DEF TypeOK, SemType
      <3> QED
        BY <3>1, <3>2
    <2> QED
      BY <2>1, <2>2, <2>3 DEF TypeOK
  <1> QED
    BY <1>1, <1>2, <1>3

\* The steps of bl616cl_dma_put_chan.
LEMMA PutTypes ==
  ASSUME TypeOK, NEW t \in Threads,
         \/ PutLock(t) \/ PutWait(t) \/ PutFinish(t) \/ PutPost(t)
         \/ \E c \in Channels : PutEnter(t, c)
  PROVE  TypeOK'
  <1> USE DEF chanVars, hwVars, irqVars, callVars
  <1>0. t \in Contexts
    BY DEF Contexts
  <1>1. ASSUME NEW c \in Channels, PutEnter(t, c)
        PROVE  TypeOK'
    <2>1. CallType'
      BY <1>0, <1>1, NoChanAssumption DEF TypeOK, CallType, Places, PutEnter
    <2>2. ClientType'
      BY <1>1 DEF TypeOK, ClientType, PutEnter
    <2> QED
      BY <1>1, <2>1, <2>2
      DEF TypeOK, ChanType, SemType, HwType, IrqType, PutEnter
  <1>2. CASE PutLock(t)
    <2>0. on[t] \in Channels
      BY <1>0, <1>2, OnChannel DEF PutLock
    <2>1. CallType'
      BY <1>0, <1>2, NoChanAssumption DEF TypeOK, CallType, Places, PutLock
    <2>2. ChanType' /\ SemType' /\ IrqType' /\ ClientType'
      BY <1>2, <2>0
      DEF TypeOK, ChanType, SemType, IrqType, ClientType, PutLock, States
    <2>3. HwType'
      <3>1. CASE PutIgnored(on[t])
        BY <1>2, <3>1 DEF TypeOK, HwType, PutLock
      <3>2. CASE ~PutIgnored(on[t])
        BY <1>2, <2>0, <3>2, MaskType DEF TypeOK, PutLock
      <3> QED
        BY <3>1, <3>2
    <2> QED
      BY <2>1, <2>2, <2>3 DEF TypeOK
  <1>3. CASE PutWait(t)
    <2>0. on[t] \in Channels
      BY <1>0, <1>3, OnChannel DEF PutWait
    <2>1. CallType' /\ SemType'
      BY <1>0, <1>3, <2>0, NoChanAssumption DEF TypeOK, CallType, Places, SemType, PutWait
    <2> QED
      BY <1>3, <2>1
      DEF TypeOK, ChanType, HwType, IrqType, ClientType, PutWait
  <1>4. CASE PutFinish(t)
    <2>0. on[t] \in Channels
      BY <1>0, <1>4, OnChannel DEF PutFinish
    <2>1. CallType'
      BY <1>0, <1>4, NoChanAssumption DEF TypeOK, CallType, Places, PutFinish
    <2>2. width' \in [Channels -> Nat]
      BY <1>4 DEF TypeOK, ChanType, PutFinish
    <2>3. ClearChan(on[t], "FREE") /\ "FREE" \in States
      BY <1>4 DEF PutFinish, States
    <2>4. ChanType'
      BY <2>0, <2>2, <2>3, ClearType DEF TypeOK
    <2> QED
      BY <1>4, <2>1, <2>4
      DEF TypeOK, SemType, HwType, IrqType, ClientType, PutFinish
  <1>5. CASE PutPost(t)
    <2>0. on[t] \in Channels
      BY <1>0, <1>5, OnChannel DEF PutPost
    <2>1. CallType' /\ SemType'
      BY <1>0, <1>5, <2>0, NoChanAssumption DEF TypeOK, CallType, Places, SemType, PutPost
    <2> QED
      BY <1>5, <2>1
      DEF TypeOK, ChanType, HwType, IrqType, ClientType, PutPost
  <1> QED
    BY <1>1, <1>2, <1>3, <1>4, <1>5
\* The other steps of the threads and callbacks: config, start, stop, residual.
LEMMA RequestTypes ==
  ASSUME TypeOK, ConfiguredWidth, NEW x \in Contexts, NEW c \in Channels,
         \/ \E w \in Widths : Config(x, c, w)
         \/ \E len \in Lens, cb \in BOOLEAN : Start(x, c, len, cb)
         \/ Stop(x, c) \/ Residual(x, c)
  PROVE  TypeOK'
  <1> USE DEF chanVars, hwVars, irqVars, callVars
  <1>0. PendingBytes(c) \in Nat
    BY PendingIsNat
  <1>1. ASSUME NEW w \in Widths, Config(x, c, w)
        PROVE  TypeOK'
    <2>1. w \in Nat
      BY SizesAssumption
    <2>2. ChanType'
      BY <1>1, <2>1 DEF TypeOK, ChanType, States, Config
    <2> QED
      BY <1>1, <2>2
      DEF TypeOK, SemType, HwType, IrqType, CallType, ClientType, Config
  <1>2. ASSUME NEW len \in Lens, NEW cb \in BOOLEAN, Start(x, c, len, cb)
        PROVE  TypeOK'
    <2>1. len \in Nat /\ width[c] \in Nat \ {0}
      BY <1>2, SizesAssumption
      DEF TypeOK, ChanType, ConfiguredWidth, Start, MayStart
    <2>2. len \div width[c] \in Nat
      BY <2>1, QuotientIsNat
    <2>3. hold \in BOOLEAN
      BY DEF TypeOK, HwType
    <2>4. ChanType'
      BY <1>2, <2>1, <2>3 DEF TypeOK, ChanType, States, Start
    <2>5. HwType'
      BY <1>2, <2>2, <2>3 DEF TypeOK, HwType, Start
    <2> QED
      BY <1>2, <2>4, <2>5
      DEF TypeOK, SemType, IrqType, CallType, ClientType, Start
  <1>3. CASE Stop(x, c)
    <2>1. ChanType'
      BY <1>0, <1>3 DEF TypeOK, ChanType, States, Stop
    <2>2. HwType'
      BY <1>3, MaskType DEF TypeOK, Stop
    <2> QED
      BY <1>3, <2>1, <2>2
      DEF TypeOK, SemType, IrqType, CallType, ClientType, Stop
  <1>4. CASE Residual(x, c)
    <2>1. ChanType'
      BY <1>0, <1>4 DEF TypeOK, ChanType, States, Residual
    <2> QED
      BY <1>4, <2>1
      DEF TypeOK, SemType, HwType, IrqType, CallType, ClientType, Residual
  <1> QED
    BY <1>1, <1>2, <1>3, <1>4

LEMMA RefusalTypes ==
  ASSUME TypeOK, NEW x \in Contexts,
         \/ StartErrno(x) \/ StartReturns(x)
         \/ \E c \in Channels : StartRefused(x, c)
  PROVE  TypeOK'
  <1> USE DEF chanVars, hwVars, irqVars, callVars
  <1>1. ASSUME NEW c \in Channels, StartRefused(x, c)
        PROVE  CallType'
    <2>1. (state[c] = "RUNNING" \/ inflight[c] # 0) \in BOOLEAN
      OBVIOUS
    <2> QED
      BY <1>1, <2>1, NoChanAssumption DEF TypeOK, CallType, Places, StartRefused, Calls
  <1>2. ASSUME StartErrno(x)
        PROVE  CallType'
    <2>1. PICK e \in {"EBUSY", "EINVAL"} : errno' = [errno EXCEPT ![x] = e]
      BY <1>2 DEF StartErrno
    <2>2. pc' = [pc EXCEPT ![x] = "start_returns"] /\ pc[x] = "start_refused"
      BY <1>2 DEF StartErrno
    <2>3. UNCHANGED <<on, refusedBusy>>
      BY <1>2 DEF StartErrno
    <2>4. /\ pc' \in [Contexts -> Places]
          /\ errno' \in [Contexts -> {"none", "EBUSY", "EINVAL"}]
      BY <2>1, <2>2 DEF TypeOK, CallType, Places
    <2>5. \A y \in Contexts : pc'[y] = "idle" <=> on'[y] = NoChan
      BY <2>2, <2>3 DEF TypeOK, CallType, Places
    <2> QED
      BY <2>3, <2>4, <2>5 DEF TypeOK, CallType
  <1>3. ASSUME StartReturns(x)
        PROVE  CallType'
    <2>1. /\ pc' = [pc EXCEPT ![x] = "idle"]
          /\ on' = [on EXCEPT ![x] = NoChan]
          /\ refusedBusy' = [refusedBusy EXCEPT ![x] = FALSE]
          /\ errno' = [errno EXCEPT ![x] = "none"]
      BY <1>3 DEF StartReturns
    <2>2. /\ pc' \in [Contexts -> Places]
          /\ errno' \in [Contexts -> {"none", "EBUSY", "EINVAL"}]
      BY <2>1 DEF TypeOK, CallType, Places
    <2>3. refusedBusy' \in [Contexts -> BOOLEAN]
      BY <2>1 DEF TypeOK, CallType, Places
    <2>4. on' \in [Contexts -> Channels \cup {NoChan}]
      BY <2>1 DEF TypeOK, CallType, Places
    <2>5. \A y \in Contexts : pc'[y] = "idle" <=> on'[y] = NoChan
      BY <2>1 DEF TypeOK, CallType, Places
    <2> QED
      BY <2>2, <2>3, <2>4, <2>5 DEF CallType
  <1>4. ChanType' /\ SemType' /\ HwType' /\ IrqType' /\ ClientType'
    BY DEF TypeOK, ChanType, SemType, HwType, IrqType, ClientType,
           StartRefused, StartErrno, StartReturns
  <1> QED
    BY <1>1, <1>2, <1>3, <1>4 DEF TypeOK

\* The interrupt path.
LEMMA IrqTypes ==
  ASSUME TypeOK, OneCallback,
         \/ Interrupt
         \/ \E t \in Threads : \E T, E \in SUBSET Channels : Inject(t, T, E)
         \/ \E x \in Contexts, c \in Channels : ProcessIrq(x, c)
         \/ \E x \in Contexts : CallbackDone(x)
  PROVE  TypeOK'
  <1> USE DEF chanVars, hwVars, irqVars, callVars
  <1>1. CASE Interrupt
    BY <1>1
    DEF TypeOK, ChanType, SemType, HwType, IrqType, CallType, ClientType,
        Interrupt, Contexts
  <1>2. ASSUME NEW t \in Threads, NEW T \in SUBSET Channels,
               NEW E \in SUBSET Channels, Inject(t, T, E)
        PROVE  TypeOK'
    <2>1. IrqType'
      BY <1>2 DEF TypeOK, IrqType, Inject, Contexts
    <2> QED
      BY <1>2, <2>1
      DEF TypeOK, ChanType, SemType, HwType, CallType, ClientType, Inject
  <1>3. ASSUME NEW x \in Contexts, NEW c \in Channels, ProcessIrq(x, c)
        PROVE  TypeOK'
    <2>1. SemType' /\ CallType' /\ ClientType'
      BY <1>3 DEF TypeOK, SemType, CallType, ClientType, ProcessIrq
    <2>2. CASE state[c] # "RUNNING"
      BY <1>3, <2>1, <2>2
      DEF TypeOK, ChanType, HwType, IrqType, ProcessIrq
    <2>3. CASE state[c] = "RUNNING"
      <3>1. Terminate(x, c) /\ UNCHANGED <<configured, width, request, callback, hold>>
        BY <1>3, <2>3 DEF ProcessIrq
      <3>2. HwType'
        BY <3>1, MaskType DEF TypeOK, Terminate
      <3>3. PendingBytes(c) \in Nat /\ inflight[c] + 1 \in Nat
        BY PendingIsNat DEF TypeOK, ChanType
      <3>4. ChanType'
        BY <3>1, <3>3 DEF TypeOK, ChanType, States, Terminate
      <3>5. IrqType'
        BY <1>3, <3>1 DEF TypeOK, IrqType, Terminate, ProcessIrq
      <3> QED
        BY <2>1, <3>2, <3>4, <3>5 DEF TypeOK
    <2> QED
      BY <2>2, <2>3
  <1>4. ASSUME NEW x \in Contexts, CallbackDone(x)
        PROVE  TypeOK'
    <2>1. calling[x] \in Channels /\ inflight[calling[x]] = 1
      BY <1>4 DEF TypeOK, IrqType, OneCallback, CallbackDone
    <2>2. ChanType' /\ SemType' /\ IrqType'
      BY <1>4, <2>1 DEF TypeOK, ChanType, SemType, IrqType, CallbackDone
    <2> QED
      BY <1>4, <2>2 DEF TypeOK, HwType, CallType, ClientType, CallbackDone
  <1> QED
    BY <1>1, <1>2, <1>3, <1>4

\* The controller, the test hooks and the sharing of a handle.
LEMMA OtherTypes ==
  ASSUME TypeOK,
         \/ \E c \in Channels : HwMove(c) \/ HwDone(c) \/ HwError(c)
         \/ \E b \in BOOLEAN : SetHold(b)
         \/ ReleaseHold
         \/ \E t, u \in Threads, c \in Channels : Share(t, u, c)
  PROVE  TypeOK'
  <1> USE DEF chanVars, hwVars, irqVars, callVars
  <1>1. ASSUME NEW c \in Channels, HwMove(c) \/ HwDone(c) \/ HwError(c)
        PROVE  TypeOK'
    <2>1. HwType'
      <3>1. CASE HwMove(c)
        <4>1. left[c] - 1 \in Nat
          BY <3>1 DEF TypeOK, HwType, HwMove
        <4> QED
          BY <3>1, <4>1 DEF TypeOK, HwType, HwMove
      <3>2. CASE HwDone(c)
        BY <3>2 DEF TypeOK, HwType, HwDone
      <3>3. CASE HwError(c)
        BY <3>3 DEF TypeOK, HwType, HwError
      <3> QED
        BY <1>1, <3>1, <3>2, <3>3
    <2> QED
      BY <1>1, <2>1
      DEF TypeOK, ChanType, SemType, IrqType, CallType, ClientType,
          HwMove, HwDone, HwError
  <1>2. ASSUME NEW b \in BOOLEAN, SetHold(b)
        PROVE  TypeOK'
    BY <1>2
    DEF TypeOK, ChanType, SemType, HwType, IrqType, CallType, ClientType, SetHold
  <1>3. CASE ReleaseHold
    <2>1. \A c \in Channels : EnableHeld(c) \in BOOLEAN
      BY DEF TypeOK, HwType, ChanType, EnableHeld
    <2>2. HwType'
      BY <1>3, <2>1 DEF TypeOK, HwType, ReleaseHold
    <2>3. ChanType'
      BY <1>3 DEF TypeOK, ChanType, ReleaseHold
    <2> QED
      BY <1>3, <2>2, <2>3
      DEF TypeOK, SemType, IrqType, CallType, ClientType, ReleaseHold
  <1>4. ASSUME NEW t \in Threads, NEW u \in Threads, NEW c \in Channels,
               Share(t, u, c)
        PROVE  TypeOK'
    <2>1. ClientType'
      BY <1>4 DEF TypeOK, ClientType, Share
    <2> QED
      BY <1>4, <2>1
      DEF TypeOK, ChanType, SemType, HwType, IrqType, CallType, Share
  <1> QED
    BY <1>1, <1>2, <1>3, <1>4

LEMMA TypeStep ==
  ASSUME Base, [Next]_vars
  PROVE  TypeOK'
  <1>1. CASE Next
    BY <1>1, GetTypes, PutTypes, RequestTypes, RefusalTypes, IrqTypes, OtherTypes
    DEF Next, Base
  <1>2. CASE UNCHANGED vars
    BY <1>2
    DEF vars, chanVars, hwVars, irqVars, callVars, Base, TypeOK, ChanType, SemType,
        HwType, IrqType, CallType, ClientType
  <1> QED
    BY <1>1, <1>2
-----------------------------------------------------------------------------
(* One callback at a time                                                  *)

LEMMA WidthStep ==
  ASSUME Base, [Next]_vars
  PROVE  ConfiguredWidth'
  <1> USE DEF Base, ConfiguredWidth, TypeOK, ChanType, chanVars
  <1>1. ASSUME NEW x \in Contexts, NEW c \in Channels, NEW w \in Widths,
               Config(x, c, w)
        PROVE  ConfiguredWidth'
    <2>1. w \in Nat \ {0}
      BY SizesAssumption
    <2> QED
      BY <1>1, <2>1 DEF Config
  <1>2. ASSUME NEW t \in Threads, GetLock(t) \/ PutFinish(t)
        PROVE  ConfiguredWidth'
    BY <1>2 DEF GetLock, PutFinish, ClearChan
  <1>3. UNCHANGED <<configured, width>> => ConfiguredWidth'
    OBVIOUS
  <1> QED
    BY <1>1, <1>2, <1>3
    DEF Next, vars, GetEnter, GetWait, Share, PutEnter, PutLock, PutWait, PutPost,
        Start, StartRefused, StartErrno, StartReturns, Stop, Residual, Interrupt,
        Inject, ProcessIrq, CallbackDone, SetHold, ReleaseHold, HwMove, HwDone,
        HwError

LEMMA CallbackStep ==
  ASSUME Base, [Next]_vars
  PROVE  OneCallback'
  <1> USE DEF Base, TypeOK, ChanType, IrqType, chanVars, irqVars
  <1>1. ASSUME NEW x \in Contexts, NEW c \in Channels, ProcessIrq(x, c)
        PROVE  OneCallback'
    <2>1. CASE state[c] # "RUNNING"
      BY <1>1, <2>1 DEF OneCallback, ProcessIrq
    <2>2. CASE state[c] = "RUNNING"
      <3>1. inflight[c] = 0 /\ \A y \in Contexts : calling[y] # c
        BY <2>2 DEF OneCallback
      <3>2. /\ calling[x] = NoChan
            /\ calling' = [calling EXCEPT ![x] = IF callback[c] THEN c ELSE NoChan]
            /\ inflight' = [inflight EXCEPT ![c] = IF callback[c] THEN @ + 1 ELSE @]
            /\ \E s \in {"ERROR", "COMPLETE"} : state' = [state EXCEPT ![c] = s]
        BY <1>1, <2>2 DEF ProcessIrq, Terminate
      <3> QED
        BY <3>1, <3>2, NoChanAssumption DEF OneCallback
    <2> QED
      BY <2>1, <2>2
  <1>2. ASSUME NEW x \in Contexts, CallbackDone(x)
        PROVE  OneCallback'
    <2>1. calling[x] \in Channels /\ inflight[calling[x]] = 1
      BY <1>2 DEF OneCallback, CallbackDone
    <2> QED
      BY <1>2, <2>1, NoChanAssumption DEF OneCallback, CallbackDone
  <1>3. ASSUME NEW t \in Threads, GetLock(t) \/ PutLock(t) \/ PutFinish(t)
        PROVE  OneCallback'
    <2>0. t \in Contexts /\ on[t] \in Channels
      BY <1>3, OnChannel DEF GetLock, PutLock, PutFinish, Contexts
    <2>1. UNCHANGED <<calling, inflight>>
      BY <1>3 DEF GetLock, PutLock, PutFinish, ClearChan
    <2>2. \A d \in Channels : state'[d] = "RUNNING" => state[d] = "RUNNING"
      BY <1>3, <2>0 DEF GetLock, PutLock, PutFinish, ClearChan
    <2> QED
      BY <2>1, <2>2 DEF OneCallback
  <1>4. ASSUME NEW x \in Contexts, NEW c \in Channels,
               \/ \E w \in Widths : Config(x, c, w)
               \/ \E len \in Lens, cb \in BOOLEAN : Start(x, c, len, cb)
               \/ Stop(x, c)
        PROVE  OneCallback'
    <2>1. UNCHANGED <<calling, inflight>>
      BY <1>4 DEF Config, Start, Stop
    <2>2. \A d \in Channels :
            state'[d] = "RUNNING" => state[d] = "RUNNING" \/ inflight[d] = 0
      BY <1>4 DEF Config, Start, MayStart, Stop
    <2> QED
      BY <2>1, <2>2 DEF OneCallback
  <1>5. UNCHANGED <<state, inflight, calling>> => OneCallback'
    BY DEF OneCallback
  <1> QED
    BY <1>1, <1>2, <1>3, <1>4, <1>5
    DEF Next, vars, GetEnter, GetWait, Share, PutEnter, PutWait, PutPost,
        StartRefused, StartErrno, StartReturns, Residual, Interrupt,
        Inject, SetHold, ReleaseHold, HwMove, HwDone, HwError

\* Every variable keeps its type: in particular the two semaphores never go
\* below zero and callbacks_inflight never wraps down from zero
\* (bl616cl_dma_callback_done, bl616cl_dma.c:245).
THEOREM TypeCorrect == Safety => []TypeOK
  <1>1. Base /\ [Next]_vars => Base'
    BY TypeStep, WidthStep, CallbackStep DEF Base
  <1>2. Base => TypeOK
    BY DEF Base
  <1> QED
    BY InitBase, <1>1, <1>2, PTL DEF Safety

\* callbacks_inflight counts the contexts that run a callback of the channel,
\* there is at most one, and none while a request runs: the assertion at
\* bl616cl_dma.c:250 never fails.
THEOREM CallbackCorrect == Safety => []OneCallback
  <1>1. Base /\ [Next]_vars => Base'
    BY TypeStep, WidthStep, CallbackStep DEF Base
  <1>2. Base => OneCallback
    BY DEF Base
  <1> QED
    BY InitBase, <1>1, <1>2, PTL DEF Safety
-----------------------------------------------------------------------------
(* The drain of a put and the token of a channel                           *)

\* A step that no put in its drain notices.
DrainFrame ==
    /\ \A t \in Threads : \A p \in {"put_wait", "put_finish"} :
         /\ pc'[t] = p <=> pc[t] = p
         /\ pc[t] = p => on'[t] = on[t]
    /\ \A c \in Channels : /\ state'[c] = "RELEASING" <=> state[c] = "RELEASING"
                           /\ state[c] = "RELEASING" => inflight'[c] = inflight[c]
    /\ done' = done

LEMMA DrainKept ==
  ASSUME DrainHandshake, DrainFrame
  PROVE  DrainHandshake'
  <1> SUFFICES ASSUME NEW c \in Channels
               PROVE  Drain(c)'
    BY DEF DrainHandshake, Drain
  <1>2. \A t \in Threads :
          /\ At(t, c, {"put_wait"})' <=> At(t, c, {"put_wait"})
          /\ At(t, c, {"put_finish"})' <=> At(t, c, {"put_finish"})
    BY DEF DrainFrame, At
  <1>3. \A t \in Threads :
          At(t, c, {"put_wait", "put_finish"})' <=> At(t, c, {"put_wait", "put_finish"})
    BY DEF DrainFrame, At
  <1>4. /\ state'[c] = "RELEASING" <=> state[c] = "RELEASING"
        /\ state[c] = "RELEASING" => inflight'[c] = inflight[c]
        /\ done'[c] = done[c]
    BY DEF DrainFrame
  <1>5. Drain(c)
    BY DEF DrainHandshake
  <1>6. \A t \in Threads : At(t, c, {"put_wait"}) \/ At(t, c, {"put_finish"})
                            => state[c] = "RELEASING"
    BY <1>5 DEF Drain, At
  <1> QED
    BY <1>2, <1>3, <1>4, <1>5, <1>6 DEF Drain

LEMMA DrainStep ==
  ASSUME Base, DrainHandshake, [Next]_vars
  PROVE  DrainHandshake'
  <1> USE DEF Base, TypeOK, ChanType, SemType, IrqType, CallType, chanVars, irqVars,
              callVars
  <1>1. ASSUME NEW t \in Threads, PutLock(t)
        PROVE  DrainHandshake'
    <2> DEFINE c == on[t]
    <2>0. t \in Contexts /\ c \in Channels
      BY <1>1, OnChannel DEF PutLock, Contexts
    <2>1. CASE PutIgnored(c)
      <3>1. /\ pc[t] = "put_lock" /\ pc' = [pc EXCEPT ![t] = "idle"]
            /\ on' = [on EXCEPT ![t] = NoChan]
            /\ UNCHANGED <<state, inflight, done>>
        BY <1>1, <2>1 DEF PutLock
      <3>2. DrainFrame
        BY <2>0, <3>1 DEF DrainFrame, Contexts
      <3> QED
        BY <3>2, DrainKept
    <2>2. CASE ~PutIgnored(c)
      <3>1. /\ state[c] # "RELEASING" /\ pc[t] = "put_lock"
            /\ state' = [state EXCEPT ![c] = "RELEASING"]
            /\ pc' = [pc EXCEPT ![t] = IF inflight[c] # 0 THEN "put_wait" ELSE "put_finish"]
            /\ UNCHANGED <<on, inflight, done>>
        BY <1>1, <2>2 DEF PutLock, PutIgnored, MustDrain
      <3>2. /\ inflight[c] \in {0, 1} /\ done[c] = 0
            /\ \A u \in Threads : ~At(u, c, {"put_wait", "put_finish"})
        BY <2>0, <3>1 DEF OneCallback, DrainHandshake, Drain
      <3> QED
        BY <2>0, <3>1, <3>2 DEF DrainHandshake, Drain, At, Contexts
    <2> QED
      BY <2>1, <2>2
  <1>2. ASSUME NEW t \in Threads, PutWait(t)
        PROVE  DrainHandshake'
    <2> DEFINE c == on[t]
    <2>0. t \in Contexts /\ c \in Channels
      BY <1>2, OnChannel DEF PutWait, Contexts
    <2>1. /\ pc[t] = "put_wait" /\ done[c] > 0
          /\ done' = [done EXCEPT ![c] = @ - 1]
          /\ pc' = [pc EXCEPT ![t] = "put_finish"]
          /\ UNCHANGED <<on, state, inflight>>
      BY <1>2 DEF PutWait
    <2>2. done[c] = 1 /\ inflight[c] = 0
      BY <2>0, <2>1 DEF DrainHandshake, Drain, At
    <2> QED
      BY <2>0, <2>1, <2>2 DEF DrainHandshake, Drain, At, Contexts
  <1>3. ASSUME NEW t \in Threads, PutFinish(t)
        PROVE  DrainHandshake'
    <2> DEFINE c == on[t]
    <2>0. t \in Contexts /\ c \in Channels
      BY <1>3, OnChannel DEF PutFinish, Contexts
    <2>1. /\ pc[t] = "put_finish"
          /\ state' = [state EXCEPT ![c] = "FREE"]
          /\ pc' = [pc EXCEPT ![t] = "put_post"]
          /\ UNCHANGED <<on, done, inflight>>
      BY <1>3 DEF PutFinish, ClearChan
    <2>2. done[c] = 0
      BY <2>0, <2>1 DEF DrainHandshake, Drain, At
    <2> QED
      BY <2>0, <2>1, <2>2 DEF DrainHandshake, Drain, At, Contexts
  <1>4. ASSUME NEW x \in Contexts, CallbackDone(x)
        PROVE  DrainHandshake'
    <2> DEFINE c == calling[x]
    <2>1. c \in Channels /\ inflight[c] = 1
      BY <1>4 DEF OneCallback, CallbackDone
    <2>2. /\ inflight' = [inflight EXCEPT ![c] = @ - 1]
          /\ done' = [done EXCEPT ![c] = IF state[c] = "RELEASING" THEN @ + 1 ELSE @]
          /\ UNCHANGED <<state, pc, on>>
      BY <1>4, <2>1 DEF CallbackDone, PostsDrain
    <2> QED
      BY <2>1, <2>2 DEF DrainHandshake, Drain, At
  <1>5. ASSUME NEW t \in Threads, GetWait(t) \/ GetLock(t) \/ PutPost(t)
        PROVE  DrainFrame
    <2>0. t \in Contexts /\ on[t] \in Channels
      BY <1>5, OnChannel DEF GetWait, GetLock, PutPost, Contexts
    <2> QED
      BY <1>5, <2>0 DEF GetWait, GetLock, PutPost, ClearChan, DrainFrame, Contexts
  <1>6. ASSUME NEW t \in Threads, NEW c \in Channels, GetEnter(t, c) \/ PutEnter(t, c)
        PROVE  DrainFrame
    BY <1>6 DEF GetEnter, PutEnter, Calls, DrainFrame, Contexts
  <1>7. ASSUME NEW x \in Contexts,
               \/ StartErrno(x) \/ StartReturns(x)
               \/ \E c \in Channels : StartRefused(x, c)
        PROVE  DrainFrame
    BY <1>7 DEF StartErrno, StartReturns, StartRefused, Calls, DrainFrame, Contexts
  <1>8. ASSUME NEW x \in Contexts, NEW c \in Channels,
               \/ \E w \in Widths : Config(x, c, w)
               \/ \E len \in Lens, cb \in BOOLEAN : Start(x, c, len, cb)
               \/ Stop(x, c)
        PROVE  DrainFrame
    BY <1>8 DEF Config, Start, MayStart, Startable, Stop, DrainFrame
  <1>9. ASSUME NEW x \in Contexts, NEW c \in Channels, ProcessIrq(x, c)
        PROVE  DrainFrame
    <2>1. CASE state[c] # "RUNNING"
      BY <1>9, <2>1 DEF ProcessIrq, DrainFrame
    <2>2. CASE state[c] = "RUNNING"
      <3>1. /\ \E s \in {"ERROR", "COMPLETE"} : state' = [state EXCEPT ![c] = s]
            /\ \A d \in Channels : d # c => inflight'[d] = inflight[d]
            /\ UNCHANGED <<pc, on, done>>
        BY <1>9, <2>2 DEF ProcessIrq, Terminate
      <3> QED
        BY <2>2, <3>1 DEF DrainFrame
    <2> QED
      BY <2>1, <2>2
  <1>10. UNCHANGED <<state, inflight, done, pc, on>> => DrainFrame
    BY DEF DrainFrame
  <1> QED
    BY <1>1, <1>2, <1>3, <1>4, <1>5, <1>6, <1>7, <1>8, <1>9, <1>10, DrainKept
    DEF Next, vars, Share, Residual, Interrupt, Inject, SetHold, ReleaseHold,
        HwMove, HwDone, HwError

\* A step that leaves the token of every channel where it is.
TokenFrame ==
    /\ \A t \in Threads : \A p \in {"get_lock", "put_post"} :
         /\ pc'[t] = p <=> pc[t] = p
         /\ pc[t] = p => on'[t] = on[t]
    /\ \A c \in Channels : state'[c] = "FREE" <=> state[c] = "FREE"
    /\ avail' = avail

LEMMA TokenKept ==
  ASSUME ChannelToken, TokenFrame
  PROVE  ChannelToken'
  BY DEF ChannelToken, Token, TokenFrame, At

LEMMA TokenStep ==
  ASSUME Base, DrainHandshake, ChannelToken, [Next]_vars
  PROVE  ChannelToken'
  <1> USE DEF Base, TypeOK, ChanType, SemType, IrqType, CallType, chanVars, irqVars,
              callVars
  <1>1. ASSUME NEW t \in Threads, GetWait(t)
        PROVE  ChannelToken'
    <2> DEFINE c == on[t]
    <2>0. t \in Contexts /\ c \in Channels
      BY <1>1, OnChannel DEF GetWait, Contexts
    <2>1. /\ pc[t] = "get_wait" /\ avail[c] > 0
          /\ avail' = [avail EXCEPT ![c] = @ - 1]
          /\ pc' = [pc EXCEPT ![t] = "get_lock"]
          /\ UNCHANGED <<on, state>>
      BY <1>1 DEF GetWait, Available
    <2>2. avail[c] = 1
      BY <2>0, <2>1 DEF ChannelToken, Token
    <2> QED
      BY <2>0, <2>1, <2>2 DEF ChannelToken, Token, At, Contexts
  <1>2. ASSUME NEW t \in Threads, GetLock(t)
        PROVE  ChannelToken'
    <2> DEFINE c == on[t]
    <2>0. t \in Contexts /\ c \in Channels
      BY <1>2, OnChannel DEF GetLock, Contexts
    <2>1. state[c] = "FREE" /\ pc[t] = "get_lock"
      BY <1>2, <2>0 DEF GetLock, ChannelToken, Token, At
    <2>2. /\ state' = [state EXCEPT ![c] = "OWNED"]
          /\ pc' = [pc EXCEPT ![t] = "idle"]
          /\ on' = [on EXCEPT ![t] = NoChan]
          /\ avail' = avail
      BY <1>2, <2>1 DEF GetLock, ClearChan
    <2>3. avail[c] = 0
      BY <2>0, <2>1 DEF ChannelToken, Token, At
    <2> QED
      BY <2>0, <2>1, <2>2, <2>3 DEF ChannelToken, Token, At, Contexts
  <1>3. ASSUME NEW t \in Threads, PutFinish(t)
        PROVE  ChannelToken'
    <2> DEFINE c == on[t]
    <2>0. t \in Contexts /\ c \in Channels
      BY <1>3, OnChannel DEF PutFinish, Contexts
    <2>1. /\ pc[t] = "put_finish"
          /\ state' = [state EXCEPT ![c] = "FREE"]
          /\ pc' = [pc EXCEPT ![t] = "put_post"]
          /\ UNCHANGED <<on, avail>>
      BY <1>3 DEF PutFinish, ClearChan
    <2>2. state[c] = "RELEASING"
      BY <2>0, <2>1 DEF DrainHandshake, Drain, At
    <2>3. avail[c] = 0 /\ \A u \in Threads : ~At(u, c, {"get_lock", "put_post"})
      BY <2>0, <2>2 DEF ChannelToken, Token
    <2> QED
      BY <2>0, <2>1, <2>2, <2>3 DEF ChannelToken, Token, At, Contexts
  <1>4. ASSUME NEW t \in Threads, PutPost(t)
        PROVE  ChannelToken'
    <2> DEFINE c == on[t]
    <2>0. t \in Contexts /\ c \in Channels
      BY <1>4, OnChannel DEF PutPost, Contexts
    <2>1. /\ pc[t] = "put_post"
          /\ avail' = [avail EXCEPT ![c] = @ + 1]
          /\ pc' = [pc EXCEPT ![t] = "idle"]
          /\ on' = [on EXCEPT ![t] = NoChan]
          /\ state' = state
      BY <1>4 DEF PutPost
    <2>2. state[c] = "FREE" /\ avail[c] = 0
      BY <2>0, <2>1 DEF ChannelToken, Token, At
    <2> QED
      BY <2>0, <2>1, <2>2 DEF ChannelToken, Token, At, Contexts
  <1>5. ASSUME NEW t \in Threads, PutLock(t) \/ PutWait(t)
        PROVE  TokenFrame
    <2>0. t \in Contexts /\ on[t] \in Channels
      BY <1>5, OnChannel DEF PutLock, PutWait, Contexts
    <2>1. CASE PutLock(t)
      BY <2>0, <2>1 DEF PutLock, PutIgnored, TokenFrame, Contexts
    <2>2. CASE PutWait(t)
      BY <2>0, <2>2 DEF PutWait, TokenFrame, Contexts
    <2> QED
      BY <1>5, <2>1, <2>2
  <1>6. ASSUME NEW t \in Threads, NEW c \in Channels, GetEnter(t, c) \/ PutEnter(t, c)
        PROVE  TokenFrame
    BY <1>6 DEF GetEnter, PutEnter, Calls, TokenFrame, Contexts
  <1>7. ASSUME NEW x \in Contexts,
               \/ StartErrno(x) \/ StartReturns(x)
               \/ \E c \in Channels : StartRefused(x, c)
        PROVE  TokenFrame
    BY <1>7 DEF StartErrno, StartReturns, StartRefused, Calls, TokenFrame, Contexts
  <1>8. ASSUME NEW x \in Contexts, NEW c \in Channels,
               \/ \E w \in Widths : Config(x, c, w)
               \/ \E len \in Lens, cb \in BOOLEAN : Start(x, c, len, cb)
               \/ Stop(x, c)
        PROVE  TokenFrame
    BY <1>8 DEF Config, Start, MayStart, Startable, Stop, TokenFrame
  <1>9. ASSUME NEW x \in Contexts, NEW c \in Channels, ProcessIrq(x, c)
        PROVE  TokenFrame
    <2>1. CASE state[c] # "RUNNING"
      BY <1>9, <2>1 DEF ProcessIrq, TokenFrame
    <2>2. CASE state[c] = "RUNNING"
      <3>1. /\ \E s \in {"ERROR", "COMPLETE"} : state' = [state EXCEPT ![c] = s]
            /\ UNCHANGED <<pc, on, avail>>
        BY <1>9, <2>2 DEF ProcessIrq, Terminate
      <3> QED
        BY <2>2, <3>1 DEF TokenFrame
    <2> QED
      BY <2>1, <2>2
  <1>10. UNCHANGED <<state, avail, pc, on>> => TokenFrame
    BY DEF TokenFrame
  <1> QED
    BY <1>1, <1>2, <1>3, <1>4, <1>5, <1>6, <1>7, <1>8, <1>9, <1>10, TokenKept
    DEF Next, vars, Share, Residual, Interrupt, Inject, SetHold, ReleaseHold,
        HwMove, HwDone, HwError, CallbackDone

\* What holds of the channels in every state, inductively.
Inv == Base /\ DrainHandshake /\ ChannelToken

LEMMA InitInv ==
  ASSUME Init
  PROVE  Inv
  <1>1. Base
    BY InitBase
  <1>2. DrainHandshake
    BY DEF Init, DrainHandshake, Drain, At, Contexts
  <1>3. ChannelToken
    BY DEF Init, ChannelToken, Token, At, Contexts
  <1> QED
    BY <1>1, <1>2, <1>3 DEF Inv

LEMMA InvStep ==
  ASSUME Inv, [Next]_vars
  PROVE  Inv'
  BY TypeStep, WidthStep, CallbackStep, DrainStep, TokenStep DEF Inv, Base

\* A channel and the semaphore "available" hold one token between them: no two
\* clients get the channel, and a put never loses it (bl616cl_dma_get_chan,
\* bl616cl_dma_put_chan).
THEOREM TokenCorrect == Safety => []ChannelToken
  <1>1. Inv => ChannelToken
    BY DEF Inv
  <1> QED
    BY InitInv, InvStep, <1>1, PTL DEF Safety

\* A put that waits is woken by exactly one post, and goes on when no callback
\* is in flight: the assertion at bl616cl_dma.c:479 never fails.
THEOREM DrainCorrect == Safety => []DrainHandshake
  <1>1. Inv => DrainHandshake
    BY DEF Inv
  <1> QED
    BY InitInv, InvStep, <1>1, PTL DEF Safety
-----------------------------------------------------------------------------
(* The registers                                                           *)

LEMMA MaskQuiets ==
  ASSUME TypeOK, NEW c \in Channels, MaskStopClear(c)
  PROVE  /\ ~enabled'[c] /\ c \notin tcStatus' \cup errStatus'
         /\ \A d \in Channels \ {c} :
              /\ enabled'[d] = enabled[d]
              /\ d \in tcStatus' <=> d \in tcStatus
              /\ d \in errStatus' <=> d \in errStatus
  BY DEF TypeOK, HwType, MaskStopClear

LEMMA HardwareStep ==
  ASSUME Inv, HardwareOwned, [Next]_vars
  PROVE  HardwareOwned'
  <1> USE DEF Inv, Base, TypeOK, ChanType, HwType, chanVars, hwVars
  <1>1. ASSUME NEW t \in Threads, GetLock(t) \/ PutFinish(t)
        PROVE  HardwareOwned'
    <2> DEFINE c == on[t]
    <2>0. c \in Channels
      BY <1>1, OnChannel DEF GetLock, PutFinish, Contexts
    <2>1. \/ UNCHANGED <<state, held>>
          \/ \E s \in {"OWNED", "FREE"} : ClearChan(c, s) /\ state[c] # "RUNNING"
      BY <1>1, <2>0 DEF GetLock, PutFinish, DrainHandshake, Drain, At
    <2> QED
      BY <1>1, <2>0, <2>1 DEF GetLock, PutFinish, ClearChan, HardwareOwned
  <1>2. ASSUME NEW t \in Threads, PutLock(t)
        PROVE  HardwareOwned'
    <2> DEFINE c == on[t]
    <2>0. c \in Channels
      BY <1>2, OnChannel DEF PutLock, Contexts
    <2>1. CASE PutIgnored(c)
      BY <1>2, <2>1 DEF PutLock, HardwareOwned
    <2>2. CASE ~PutIgnored(c)
      <3>1. /\ MaskStopClear(c)
            /\ state' = [state EXCEPT ![c] = "RELEASING"]
            /\ held' = held
        BY <1>2, <2>2 DEF PutLock
      <3> QED
        BY <2>0, <3>1, MaskQuiets DEF HardwareOwned
    <2> QED
      BY <2>1, <2>2
  <1>3. ASSUME NEW x \in Contexts, NEW c \in Channels, NEW w \in Widths,
               Config(x, c, w)
        PROVE  HardwareOwned'
    BY <1>3 DEF Config, HardwareOwned
  <1>4. ASSUME NEW x \in Contexts, NEW c \in Channels, NEW len \in Lens,
               NEW cb \in BOOLEAN, Start(x, c, len, cb)
        PROVE  HardwareOwned'
    BY <1>4 DEF Start, HardwareOwned
  <1>5. ASSUME NEW x \in Contexts, NEW c \in Channels, Stop(x, c)
        PROVE  HardwareOwned'
    <2>1. /\ MaskStopClear(c)
          /\ state' = [state EXCEPT ![c] = "STOPPED"]
          /\ held' = [held EXCEPT ![c] = FALSE]
      BY <1>5 DEF Stop
    <2> QED
      BY <2>1, MaskQuiets DEF HardwareOwned
  <1>6. ASSUME NEW x \in Contexts, NEW c \in Channels, ProcessIrq(x, c)
        PROVE  HardwareOwned'
    <2>1. CASE state[c] # "RUNNING"
      BY <1>6, <2>1 DEF ProcessIrq, HardwareOwned
    <2>2. CASE state[c] = "RUNNING"
      <3>1. /\ MaskStopClear(c)
            /\ \E s \in {"ERROR", "COMPLETE"} : state' = [state EXCEPT ![c] = s]
            /\ held' = [held EXCEPT ![c] = FALSE]
        BY <1>6, <2>2 DEF ProcessIrq, Terminate
      <3> QED
        BY <3>1, MaskQuiets DEF HardwareOwned
    <2> QED
      BY <2>1, <2>2
  <1>7. CASE Interrupt
    BY <1>7 DEF Interrupt, HardwareOwned
  <1>8. ASSUME NEW c \in Channels, HwMove(c) \/ HwDone(c) \/ HwError(c)
        PROVE  HardwareOwned'
    BY <1>8 DEF HwMove, HwDone, HwError, HardwareOwned
  <1>9. CASE ReleaseHold
    BY <1>9 DEF ReleaseHold, EnableHeld, HardwareOwned
  <1>10. UNCHANGED <<state, held, enabled, tcStatus, errStatus>> => HardwareOwned'
    BY DEF HardwareOwned
  <1> QED
    BY <1>1, <1>2, <1>3, <1>4, <1>5, <1>6, <1>7, <1>8, <1>9, <1>10
    DEF Next, vars, GetEnter, GetWait, Share, PutEnter, PutWait, PutPost,
        StartRefused, StartErrno, StartReturns, Residual, Inject, SetHold,
        CallbackDone

\* The hardware works, or has a status pending, only for a request that runs
\* (bl616cl_dma_stop, bl616cl_dma_put_chan, bl616cl_dma_process_irq all end in
\* bl616cl_dma_mask_stop_clear).
THEOREM HardwareCorrect == Safety => []HardwareOwned
  <1>1. Init => HardwareOwned
    BY DEF Init, HardwareOwned
  <1>2. Inv /\ HardwareOwned /\ [Next]_vars => Inv' /\ HardwareOwned'
    BY InvStep, HardwareStep
  <1> QED
    BY InitInv, <1>1, <1>2, PTL DEF Safety
-----------------------------------------------------------------------------
(* Reuse of a channel                                                      *)

\* No callback runs for a channel that is free or was just got.
NoOldCallback ==
    \A c \in Channels : state[c] \in {"FREE", "OWNED"} => inflight[c] = 0

LEMMA NoOldCallbackStep ==
  ASSUME Inv, NoOldCallback, [Next]_vars
  PROVE  NoOldCallback'
  <1> USE DEF Inv, Base, TypeOK, ChanType, IrqType, chanVars, irqVars
  <1>1. ASSUME NEW t \in Threads, GetLock(t) \/ PutLock(t) \/ PutFinish(t)
        PROVE  NoOldCallback'
    <2> DEFINE c == on[t]
    <2>0. t \in Contexts /\ c \in Channels
      BY <1>1, OnChannel DEF GetLock, PutLock, PutFinish, Contexts
    <2>1. inflight' = inflight
      BY <1>1 DEF GetLock, PutLock, PutFinish, ClearChan
    <2>2. \A d \in Channels \ {c} : state'[d] = state[d]
      BY <1>1, <2>0 DEF GetLock, PutLock, PutFinish, ClearChan
    <2>3. CASE GetLock(t)
      BY <2>0, <2>1, <2>2, <2>3 DEF GetLock, ClearChan, NoOldCallback
    <2>4. CASE PutLock(t)
      BY <2>0, <2>1, <2>2, <2>4 DEF PutLock, NoOldCallback
    <2>5. CASE PutFinish(t)
      <3>1. inflight[c] = 0
        BY <2>0, <2>5 DEF PutFinish, DrainHandshake, Drain, At
      <3> QED
        BY <2>0, <2>1, <2>2, <3>1 DEF NoOldCallback
    <2> QED
      BY <1>1, <2>3, <2>4, <2>5
  <1>2. ASSUME NEW x \in Contexts, NEW c \in Channels,
               \/ \E w \in Widths : Config(x, c, w)
               \/ \E len \in Lens, cb \in BOOLEAN : Start(x, c, len, cb)
               \/ Stop(x, c)
        PROVE  NoOldCallback'
    BY <1>2 DEF Config, Start, Stop, NoOldCallback
  <1>3. ASSUME NEW x \in Contexts, NEW c \in Channels, ProcessIrq(x, c)
        PROVE  NoOldCallback'
    <2>1. CASE state[c] # "RUNNING"
      BY <1>3, <2>1 DEF ProcessIrq, NoOldCallback
    <2>2. CASE state[c] = "RUNNING"
      <3>1. /\ \E s \in {"ERROR", "COMPLETE"} : state' = [state EXCEPT ![c] = s]
            /\ \A d \in Channels \ {c} : inflight'[d] = inflight[d]
        BY <1>3, <2>2 DEF ProcessIrq, Terminate
      <3> QED
        BY <3>1 DEF NoOldCallback
    <2> QED
      BY <2>1, <2>2
  <1>4. ASSUME NEW x \in Contexts, CallbackDone(x)
        PROVE  NoOldCallback'
    <2>1. calling[x] \in Channels /\ inflight[calling[x]] = 1
      BY <1>4 DEF OneCallback, CallbackDone
    <2> QED
      BY <1>4, <2>1 DEF CallbackDone, NoOldCallback
  <1>5. UNCHANGED <<state, inflight>> => NoOldCallback'
    BY DEF NoOldCallback
  <1> QED
    BY <1>1, <1>2, <1>3, <1>4, <1>5
    DEF Next, vars, GetEnter, GetWait, Share, PutEnter, PutWait, PutPost,
        StartRefused, StartErrno, StartReturns, Residual, Interrupt, Inject,
        SetHold, ReleaseHold, HwMove, HwDone, HwError

\* A channel that is free, or was just got, has no callback of an earlier
\* client running, no enabled hardware and no status pending
\* (bl616cl_dma_put_chan waits for the callback before it frees).
THEOREM ReuseCorrect == Safety => []DrainedBeforeReuse
  <1>1. Init => HardwareOwned /\ NoOldCallback
    BY DEF Init, HardwareOwned, NoOldCallback
  <1>2. Inv /\ NoOldCallback /\ [Next]_vars => Inv' /\ NoOldCallback'
    BY InvStep, NoOldCallbackStep
  <1>3. Inv /\ NoOldCallback /\ HardwareOwned => DrainedBeforeReuse
    BY DEF Inv, Base, OneCallback, NoOldCallback, HardwareOwned, DrainedBeforeReuse
  <1> QED
    BY InitInv, <1>1, <1>2, <1>3, HardwareCorrect, PTL DEF Safety
-----------------------------------------------------------------------------
(* The owner of a channel                                                  *)

\* With one put for each get, a channel that a client holds, or that a put is
\* about to release, is neither free nor being released.
Custody(c) ==
    LET InUse == state[c] \notin {"FREE", "RELEASING"} IN
    /\ owner[c] # NoThread => holders[c] # {}
    /\ holders[c] # {} => InUse
    /\ \A t \in Threads : At(t, c, {"put_lock"}) => InUse /\ holders[c] = {}
    /\ \A t, u \in Threads : At(t, c, {"put_lock"}) /\ At(u, c, {"put_lock"}) => t = u

CustodyInv == \A c \in Channels : Custody(c)

CustodyFrame ==
    /\ \A t \in Threads : /\ pc'[t] = "put_lock" <=> pc[t] = "put_lock"
                          /\ pc[t] = "put_lock" => on'[t] = on[t]
    /\ \A c \in Channels :
         state[c] \in {"FREE", "RELEASING"} <=> state'[c] \in {"FREE", "RELEASING"}
    /\ UNCHANGED <<owner, holders>>

LEMMA CustodyKept ==
  ASSUME CustodyInv, CustodyFrame
  PROVE  CustodyInv'
  BY DEF CustodyInv, Custody, CustodyFrame, At

LEMMA CustodyStep ==
  ASSUME ~ConcurrentPut, Inv, CustodyInv, [Next]_vars
  PROVE  CustodyInv'
  <1> USE DEF Inv, Base, TypeOK, ChanType, IrqType, CallType, ClientType, chanVars,
              irqVars, callVars
  <1>1. ASSUME NEW t \in Threads, GetLock(t)
        PROVE  CustodyInv'
    <2>0. t \in Contexts /\ on[t] \in Channels
      BY <1>1, OnChannel DEF GetLock, Contexts
    <2> PICK c \in Channels : c = on[t]
      BY <2>0
    <2>1. state[c] = "FREE" /\ pc[t] = "get_lock"
      BY <1>1, <2>0 DEF GetLock, ChannelToken, Token, At
    <2>2. /\ state' = [state EXCEPT ![c] = "OWNED"]
          /\ pc' = [pc EXCEPT ![t] = "idle"]
          /\ on' = [on EXCEPT ![t] = NoChan]
          /\ owner' = [owner EXCEPT ![c] = t]
          /\ holders' = [holders EXCEPT ![c] = {t}]
      BY <1>1, <2>1 DEF GetLock, ClearChan
    <2>3. \A u \in Threads : ~At(u, c, {"put_lock"}) /\ ~At(u, c, {"put_lock"})'
      BY <2>0, <2>1, <2>2 DEF CustodyInv, Custody, At
    <2>4. Custody(c)'
      BY <2>0, <2>2, <2>3 DEF Custody
    <2>5. \A d \in Channels \ {c} : Custody(d)'
      BY <2>0, <2>1, <2>2 DEF CustodyInv, Custody, At
    <2> QED
      BY <2>4, <2>5 DEF CustodyInv
  <1>2. ASSUME NEW t \in Threads, NEW c \in Channels, PutEnter(t, c)
        PROVE  CustodyInv'
    <2>0. t \in Contexts
      BY DEF Contexts
    <2>1. t \in holders[c]
      BY <1>2, <2>0, NoChanAssumption
      DEF PutEnter, Calls, HasHandle, InCallbackContext, Busy
    <2>2. /\ pc[t] = "idle"
          /\ pc' = [pc EXCEPT ![t] = "put_lock"]
          /\ on' = [on EXCEPT ![t] = c]
          /\ owner' = [owner EXCEPT ![c] = NoThread]
          /\ holders' = [holders EXCEPT ![c] = {}]
          /\ state' = state
      BY <1>2 DEF PutEnter, Calls
    <2> QED
      BY <2>0, <2>1, <2>2 DEF CustodyInv, Custody, At, Contexts
  <1>3. ASSUME NEW t \in Threads, PutLock(t)
        PROVE  CustodyInv'
    <2> DEFINE c == on[t]
    <2>0. t \in Contexts /\ c \in Channels
      BY <1>3, OnChannel DEF PutLock, Contexts
    <2>1. /\ pc[t] = "put_lock"
          /\ state[c] \notin {"FREE", "RELEASING"} /\ holders[c] = {}
      BY <1>3, <2>0 DEF PutLock, CustodyInv, Custody, At
    <2>2. /\ state' = [state EXCEPT ![c] = "RELEASING"]
          /\ \E p \in {"put_wait", "put_finish"} : pc' = [pc EXCEPT ![t] = p]
          /\ UNCHANGED <<on, owner, holders>>
      BY <1>3, <2>1 DEF PutLock, PutIgnored
    <2> QED
      BY <2>0, <2>1, <2>2 DEF CustodyInv, Custody, At, Contexts
  <1>4. ASSUME NEW t \in Threads, PutFinish(t)
        PROVE  CustodyFrame
    <2>0. t \in Contexts /\ on[t] \in Channels
      BY <1>4, OnChannel DEF PutFinish, Contexts
    <2>1. state[on[t]] = "RELEASING"
      BY <1>4, <2>0 DEF PutFinish, DrainHandshake, Drain, At
    <2> QED
      BY <1>4, <2>0, <2>1 DEF PutFinish, ClearChan, CustodyFrame, Contexts
  <1>5. ASSUME NEW t \in Threads, NEW u \in Threads, NEW c \in Channels,
               Share(t, u, c)
        PROVE  CustodyInv'
    BY <1>5 DEF Share, CustodyInv, Custody, At
  <1>6. ASSUME NEW t \in Threads,
               \/ GetWait(t) \/ PutWait(t) \/ PutPost(t)
               \/ \E c \in Channels : GetEnter(t, c)
        PROVE  CustodyFrame
    <2>0. t \in Contexts
      BY DEF Contexts
    <2>1. CASE GetWait(t)
      BY <2>0, <2>1 DEF GetWait, CustodyFrame
    <2>2. CASE PutWait(t)
      BY <2>0, <2>2 DEF PutWait, CustodyFrame
    <2>3. CASE PutPost(t)
      BY <2>0, <2>3 DEF PutPost, CustodyFrame
    <2>4. CASE \E c \in Channels : GetEnter(t, c)
      BY <2>0, <2>4 DEF GetEnter, CustodyFrame
    <2> QED
      BY <1>6, <2>1, <2>2, <2>3, <2>4
  <1>7. ASSUME NEW x \in Contexts,
               \/ StartErrno(x) \/ StartReturns(x)
               \/ \E c \in Channels : StartRefused(x, c)
        PROVE  CustodyFrame
    BY <1>7 DEF StartErrno, StartReturns, StartRefused, Calls, CustodyFrame, Contexts
  <1>8. ASSUME NEW x \in Contexts, NEW c \in Channels,
               \/ \E w \in Widths : Config(x, c, w)
               \/ \E len \in Lens, cb \in BOOLEAN : Start(x, c, len, cb)
               \/ Stop(x, c)
        PROVE  CustodyFrame
    BY <1>8 DEF Config, Start, MayStart, Startable, Stop, CustodyFrame
  <1>9. ASSUME NEW x \in Contexts, NEW c \in Channels, ProcessIrq(x, c)
        PROVE  CustodyFrame
    <2>1. CASE state[c] # "RUNNING"
      BY <1>9, <2>1 DEF ProcessIrq, CustodyFrame
    <2>2. CASE state[c] = "RUNNING"
      <3>1. /\ \E s \in {"ERROR", "COMPLETE"} : state' = [state EXCEPT ![c] = s]
            /\ UNCHANGED <<pc, on, owner, holders>>
        BY <1>9, <2>2 DEF ProcessIrq, Terminate
      <3> QED
        BY <2>2, <3>1 DEF CustodyFrame
    <2> QED
      BY <2>1, <2>2
  <1>10. UNCHANGED <<state, pc, on, owner, holders>> => CustodyFrame
    BY DEF CustodyFrame
  <1> QED
    BY <1>1, <1>2, <1>3, <1>4, <1>5, <1>6, <1>7, <1>8, <1>9, <1>10, CustodyKept
    DEF Next, vars, Residual, Interrupt, Inject, SetHold, ReleaseHold, HwMove,
        HwDone, HwError, CallbackDone

\* When every handle is put by one thread only, the thread that was given a
\* channel keeps it until a put is called: no get, callback, interrupt or late
\* step of an earlier put takes it away.  (A second, concurrent put does: see
\* the finding about bl616cl_dma_put_chan.)
THEOREM OwnerCorrect ==
  ASSUME ~ConcurrentPut
  PROVE  Safety => []OwnerKeepsChannel
  <1>1. Init => CustodyInv
    BY DEF Init, CustodyInv, Custody, At, Contexts
  <1>2. Inv /\ CustodyInv /\ [Next]_vars => Inv' /\ CustodyInv'
    BY InvStep, CustodyStep
  <1>3. CustodyInv => OwnerKeepsChannel
    BY DEF CustodyInv, Custody, OwnerKeepsChannel
  <1> QED
    BY InitInv, <1>1, <1>2, <1>3, PTL DEF Safety
-----------------------------------------------------------------------------
(* The lease                                                               *)

LEMMA InitLease == Init => Lease!Init
  BY DEF Init, Lease!Init, LeaseBar, ActiveBar, LeaseOf

\* The effect on the lease of a change of one channel's state.
LEMMA BarStep ==
  ASSUME TypeOK, NEW c \in Channels, NEW s \in States,
         state' = [state EXCEPT ![c] = s]
  PROVE  /\ LeaseBar' = [LeaseBar EXCEPT ![c] = LeaseOf(s)]
         /\ ActiveBar' = [ActiveBar EXCEPT ![c] = (s = "RUNNING")]
  BY DEF TypeOK, ChanType, LeaseBar, ActiveBar

LEMMA LeaseStep ==
  ASSUME Inv, [Next]_vars
  PROVE  [Lease!Next]_(Lease!vars)
  <1> USE DEF Inv, Base, TypeOK, ChanType, IrqType, chanVars, irqVars
  <1>0. UNCHANGED <<state, inflight>> => UNCHANGED Lease!vars
    BY DEF Lease!vars, LeaseBar, ActiveBar
  <1>1. ASSUME NEW t \in Threads, GetLock(t)
        PROVE  Lease!Acquire(on[t]) /\ on[t] \in Channels
    <2> DEFINE c == on[t]
    <2>0. t \in Contexts /\ c \in Channels
      BY <1>1, OnChannel DEF GetLock, Contexts
    <2>1. state[c] = "FREE"
      BY <1>1, <2>0 DEF GetLock, ChannelToken, Token, At
    <2>2. state' = [state EXCEPT ![c] = "OWNED"] /\ inflight' = inflight
      BY <1>1, <2>1 DEF GetLock, ClearChan
    <2> QED
      BY <2>0, <2>1, <2>2, BarStep
      DEF Lease!Acquire, LeaseBar, ActiveBar, LeaseOf, States
  <1>2. ASSUME NEW t \in Threads, PutLock(t)
        PROVE  UNCHANGED Lease!vars \/ (Lease!BeginRelease(on[t]) /\ on[t] \in Channels)
    <2> DEFINE c == on[t]
    <2>0. t \in Contexts /\ c \in Channels
      BY <1>2, OnChannel DEF PutLock, Contexts
    <2>1. CASE PutIgnored(c)
      BY <1>0, <1>2, <2>1 DEF PutLock
    <2>2. CASE ~PutIgnored(c)
      <3>1. state' = [state EXCEPT ![c] = "RELEASING"] /\ inflight' = inflight
        BY <1>2, <2>2 DEF PutLock
      <3> QED
        BY <2>0, <2>2, <3>1, BarStep
        DEF PutIgnored, Lease!BeginRelease, LeaseBar, ActiveBar, LeaseOf, States
    <2> QED
      BY <2>1, <2>2
  <1>3. ASSUME NEW t \in Threads, PutFinish(t)
        PROVE  Lease!EndRelease(on[t]) /\ on[t] \in Channels
    <2> DEFINE c == on[t]
    <2>0. t \in Contexts /\ c \in Channels
      BY <1>3, OnChannel DEF PutFinish, Contexts
    <2>1. state[c] = "RELEASING" /\ inflight[c] = 0
      BY <1>3, <2>0 DEF PutFinish, DrainHandshake, Drain, At
    <2>2. state' = [state EXCEPT ![c] = "FREE"] /\ inflight' = inflight
      BY <1>3 DEF PutFinish, ClearChan
    <2>3. /\ LeaseBar' = [LeaseBar EXCEPT ![c] = "free"]
          /\ ActiveBar' = [ActiveBar EXCEPT ![c] = FALSE]
      BY <2>0, <2>2, BarStep DEF LeaseOf, States
    <2>4. ActiveBar' = ActiveBar
      BY <2>0, <2>1, <2>3 DEF ActiveBar
    <2> QED
      BY <2>0, <2>1, <2>2, <2>3, <2>4 DEF Lease!EndRelease, LeaseBar, LeaseOf
  <1>4. ASSUME NEW x \in Contexts, NEW c \in Channels, NEW w \in Widths,
               Config(x, c, w)
        PROVE  UNCHANGED Lease!vars
    <2>1. /\ state[c] \notin {"RUNNING", "RELEASING", "FREE"}
          /\ state' = [state EXCEPT ![c] = "READY"]
          /\ inflight' = inflight
      BY <1>4 DEF Config
    <2>2. LeaseBar' = LeaseBar /\ ActiveBar' = ActiveBar
      BY <2>1 DEF LeaseBar, ActiveBar, LeaseOf
    <2> QED
      BY <2>1, <2>2 DEF Lease!vars
  <1>5. ASSUME NEW x \in Contexts, NEW c \in Channels, NEW len \in Lens,
               NEW cb \in BOOLEAN, Start(x, c, len, cb)
        PROVE  Lease!Submit(c)
    <2>1. /\ state[c] \in Startable /\ inflight[c] = 0
          /\ state' = [state EXCEPT ![c] = "RUNNING"]
          /\ inflight' = inflight
      BY <1>5 DEF Start, MayStart
    <2>2. /\ LeaseBar' = [LeaseBar EXCEPT ![c] = "held"]
          /\ ActiveBar' = [ActiveBar EXCEPT ![c] = TRUE]
      BY <2>1, BarStep DEF LeaseOf, States
    <2>3. LeaseBar' = LeaseBar
      BY <2>1, <2>2 DEF LeaseBar, LeaseOf, Startable
    <2> QED
      BY <2>1, <2>2, <2>3 DEF Lease!Submit, LeaseBar, ActiveBar, LeaseOf, Startable
  <1>6. ASSUME NEW c \in Channels, state[c] = "RUNNING",
               NEW s \in {"STOPPED", "ERROR", "COMPLETE"},
               state' = [state EXCEPT ![c] = s], NEW n \in {0, 1},
               inflight' = [inflight EXCEPT ![c] = n]
        PROVE  Lease!Retire(c)
    <2>1. /\ LeaseBar' = [LeaseBar EXCEPT ![c] = "held"]
          /\ ActiveBar' = [ActiveBar EXCEPT ![c] = FALSE]
      BY <1>6, BarStep DEF LeaseOf, States
    <2>2. LeaseBar' = LeaseBar
      BY <1>6, <2>1 DEF LeaseBar, LeaseOf
    <2> QED
      BY <1>6, <2>1, <2>2 DEF Lease!Retire, ActiveBar
  <1>7. ASSUME NEW x \in Contexts, NEW c \in Channels, Stop(x, c)
        PROVE  Lease!Retire(c)
    <2>1. state[c] = "RUNNING" /\ inflight[c] = 0
      BY <1>7 DEF Stop, OneCallback
    <2>2. /\ state' = [state EXCEPT ![c] = "STOPPED"]
          /\ inflight' = [inflight EXCEPT ![c] = 0]
      BY <1>7, <2>1 DEF Stop
    <2> QED
      BY <1>6, <2>1, <2>2
  <1>8. ASSUME NEW x \in Contexts, NEW c \in Channels, ProcessIrq(x, c)
        PROVE  UNCHANGED Lease!vars \/ Lease!Retire(c)
    <2>1. CASE state[c] # "RUNNING"
      BY <1>0, <1>8, <2>1 DEF ProcessIrq
    <2>2. CASE state[c] = "RUNNING"
      <3>1. inflight[c] = 0
        BY <2>2 DEF OneCallback
      <3>2. /\ \E s \in {"ERROR", "COMPLETE"} : state' = [state EXCEPT ![c] = s]
            /\ inflight' = [inflight EXCEPT ![c] = IF callback[c] THEN @ + 1 ELSE @]
        BY <1>8, <2>2 DEF ProcessIrq, Terminate
      <3>3. \E n \in {0, 1} : inflight' = [inflight EXCEPT ![c] = n]
        <4>1. CASE callback[c]
          <5>1. inflight' = [inflight EXCEPT ![c] = 1]
            BY <3>1, <3>2, <4>1
          <5> QED
            BY <5>1
        <4>2. CASE ~callback[c]
          <5>1. inflight' = [inflight EXCEPT ![c] = 0]
            BY <3>1, <3>2, <4>2
          <5> QED
            BY <5>1
        <4> QED
          BY <4>1, <4>2
      <3> QED
        BY <1>6, <2>2, <3>2, <3>3
    <2> QED
      BY <2>1, <2>2
  <1>9. ASSUME NEW x \in Contexts, CallbackDone(x)
        PROVE  Lease!ReportDone(calling[x]) /\ calling[x] \in Channels
    <2>1. calling[x] \in Channels /\ inflight[calling[x]] = 1
      BY <1>9 DEF OneCallback, CallbackDone
    <2>2. /\ inflight' = [inflight EXCEPT ![calling[x]] = 0]
          /\ state' = state
      BY <1>9, <2>1 DEF CallbackDone
    <2> QED
      BY <2>1, <2>2 DEF Lease!ReportDone, LeaseBar, ActiveBar
  <1>10. CASE UNCHANGED <<state, inflight>>
    BY <1>0, <1>10
  <1> QED
    BY <1>1, <1>2, <1>3, <1>4, <1>5, <1>7, <1>8, <1>9, <1>10
    DEF Next, vars, GetEnter, GetWait, Share, PutEnter, PutWait, PutPost,
        StartRefused, StartErrno, StartReturns, Residual, Interrupt, Inject,
        SetHold, ReleaseHold, HwMove, HwDone, HwError, Lease!Next,
        Lease!ChannelNext

\* Every behaviour of the adapter is one of DmaLease: a request is submitted to
\* a held channel with no report running, retired once with at most one
\* report, and a channel becomes free only after the last report has returned.
THEOREM LeaseImplemented == Safety => Lease!Safety
  <1>1. Inv /\ [Next]_vars => [Lease!Next]_(Lease!vars)
    BY LeaseStep
  <1> QED
    BY InitInv, InvStep, InitLease, <1>1, PTL DEF Safety, Lease!Safety
-----------------------------------------------------------------------------
(* The residue and the completion of a request                             *)

LEMMA ProductGrows == \A m, n, k \in Nat : m <= n => m * k <= n * k
  OBVIOUS

LEMMA QuotientFits == \A m \in Nat, n \in Nat \ {0} : (m \div n) * n <= m
  OBVIOUS

\* The residue of channel c covers what the hardware has not moved.
Covered(c) ==
    state[c] \in {"RUNNING", "STOPPED", "ERROR"} =>
        left[c] * width[c] <= residual[c] /\ residual[c] <= request[c]

\* A residue that is computed anew, before the hardware moves some more.
LEMMA PendingCovers ==
  ASSUME TypeOK, NEW c \in Channels, state[c] = "RUNNING", Covered(c)
  PROVE  PendingBytes(c) = left[c] * width[c] /\ PendingBytes(c) <= request[c]
  <1>1. left[c] \in Nat /\ width[c] \in Nat /\ request[c] \in Nat /\ residual[c] \in Nat
    BY DEF TypeOK, ChanType, HwType
  <1>2. left[c] * width[c] \in Nat
    BY <1>1, ProductIsNat
  <1> QED
    BY <1>1, <1>2 DEF Covered, PendingBytes

\* A channel whose request is untouched and whose hardware moves on.
LEMMA CoveredKept ==
  ASSUME TypeOK, TypeOK', NEW c \in Channels, Covered(c),
         left'[c] <= left[c],
         width'[c] = width[c], residual'[c] = residual[c], request'[c] = request[c],
         state'[c] \in {"RUNNING", "STOPPED", "ERROR"} => state'[c] = state[c]
  PROVE  Covered(c)'
  <1>1. /\ left[c] \in Nat /\ width[c] \in Nat /\ residual[c] \in Nat
        /\ left'[c] \in Nat
    BY DEF TypeOK, ChanType, HwType
  <1>2. left'[c] * width[c] <= left[c] * width[c]
    BY <1>1, ProductGrows
  <1>3. left[c] * width[c] \in Nat /\ left'[c] * width[c] \in Nat
    BY <1>1, ProductIsNat
  <1> QED
    BY <1>1, <1>2, <1>3 DEF Covered

\* A request that ends or is asked for its residue: the residue is computed
\* anew, and an enabled channel may move more.
LEMMA CoveredAnew ==
  ASSUME TypeOK, TypeOK', NEW c \in Channels, state[c] = "RUNNING", Covered(c),
         left'[c] <= left[c], residual'[c] = PendingBytes(c),
         width'[c] = width[c], request'[c] = request[c]
  PROVE  Covered(c)'
  <1>1. /\ left[c] \in Nat /\ width[c] \in Nat /\ request[c] \in Nat
        /\ left'[c] \in Nat
    BY DEF TypeOK, ChanType, HwType
  <1>2. left'[c] * width[c] <= left[c] * width[c]
    BY <1>1, ProductGrows
  <1>3. PendingBytes(c) = left[c] * width[c] /\ PendingBytes(c) <= request[c]
    BY PendingCovers
  <1> QED
    BY <1>1, <1>2, <1>3 DEF Covered

\* What the disable of a channel may still change of it, and of no other.
LEMMA MaskMoves ==
  ASSUME TypeOK, NEW c \in Channels, MaskStopClear(c)
  PROVE  /\ left'[c] \in 0 .. left[c]
         /\ \A d \in Channels \ {c} : left'[d] = left[d]
  BY DEF TypeOK, HwType, MaskStopClear

LEMMA CoveredStep ==
  ASSUME Base, ResidualCovers, [Next]_vars
  PROVE  ResidualCovers'
  <1> USE DEF chanVars, hwVars
  <1>0. TypeOK /\ TypeOK' /\ \A c \in Channels : Covered(c)
    BY TypeStep DEF Base, ResidualCovers, Covered
  <1> SUFFICES ASSUME NEW d \in Channels
               PROVE  Covered(d)'
    BY DEF ResidualCovers, Covered
  <1>1. left[d] \in Nat
    BY <1>0 DEF TypeOK, HwType
  <1>2. UNCHANGED <<state, width, residual, request, left>> => Covered(d)'
    BY <1>0 DEF Covered
  <1>3. ASSUME NEW t \in Threads, GetLock(t) \/ PutFinish(t)
        PROVE  Covered(d)'
    <2>1. on[t] \in Channels
      BY <1>0, <1>3, OnChannel DEF GetLock, PutFinish, Contexts
    <2>2. left' = left
      BY <1>3 DEF GetLock, PutFinish
    <2>3. CASE d = on[t] /\ ~UNCHANGED <<state, width, residual, request>>
      <3>1. state'[d] \in {"OWNED", "FREE"}
        BY <1>0, <1>3, <2>1, <2>3 DEF GetLock, PutFinish, ClearChan, TypeOK, ChanType
      <3> QED
        BY <3>1 DEF Covered
    <2>4. CASE d # on[t] \/ UNCHANGED <<state, width, residual, request>>
      <3>1. /\ state'[d] = state[d] /\ width'[d] = width[d]
            /\ residual'[d] = residual[d] /\ request'[d] = request[d]
        BY <1>0, <1>3, <2>1, <2>4
        DEF GetLock, PutFinish, ClearChan, TypeOK, ChanType
      <3> QED
        BY <1>0, <2>2, <3>1 DEF Covered
    <2> QED
      BY <2>3, <2>4
  <1>4. ASSUME NEW t \in Threads, PutLock(t)
        PROVE  Covered(d)'
    <2>1. on[t] \in Channels
      BY <1>0, <1>4, OnChannel DEF PutLock, Contexts
    <2>2. CASE PutIgnored(on[t])
      BY <1>2, <1>4, <2>2 DEF PutLock
    <2>3. CASE ~PutIgnored(on[t])
      <3>1. /\ MaskStopClear(on[t]) /\ state' = [state EXCEPT ![on[t]] = "RELEASING"]
            /\ UNCHANGED <<width, residual, request>>
        BY <1>4, <2>3 DEF PutLock
      <3>2. left'[d] <= left[d]
        BY <1>0, <1>1, <2>1, <3>1, MaskMoves
      <3> QED
        BY <1>0, <2>1, <3>1, <3>2, CoveredKept DEF TypeOK, ChanType
    <2> QED
      BY <2>2, <2>3
  <1>5. ASSUME NEW x \in Contexts, NEW c \in Channels, NEW w \in Widths,
               Config(x, c, w)
        PROVE  Covered(d)'
    BY <1>0, <1>5 DEF Config, Covered, TypeOK, ChanType
  <1>6. ASSUME NEW x \in Contexts, NEW c \in Channels, NEW len \in Lens,
               NEW cb \in BOOLEAN, Start(x, c, len, cb)
        PROVE  Covered(d)'
    <2>1. len \in Nat /\ width[c] \in Nat \ {0}
      BY <1>0, <1>6, SizesAssumption
      DEF Base, TypeOK, ChanType, ConfiguredWidth, Start, MayStart
    <2>2. (len \div width[c]) * width[c] <= len
      BY <2>1, QuotientFits
    <2>3. CASE d = c
      <3>1. /\ left'[d] = len \div width[d] /\ width'[d] = width[d]
            /\ residual'[d] = len /\ request'[d] = len
        BY <1>0, <1>6, <2>3 DEF Start, TypeOK, ChanType, HwType
      <3> QED
        BY <2>1, <2>2, <2>3, <3>1 DEF Covered
    <2>4. CASE d # c
      <3>1. /\ left'[d] = left[d] /\ width'[d] = width[d] /\ state'[d] = state[d]
            /\ residual'[d] = residual[d] /\ request'[d] = request[d]
        BY <1>0, <1>6, <2>4 DEF Start, TypeOK, ChanType, HwType
      <3> QED
        BY <1>0, <3>1 DEF Covered
    <2> QED
      BY <2>3, <2>4
  <1>7. ASSUME NEW x \in Contexts, NEW c \in Channels, Stop(x, c) \/ Residual(x, c)
        PROVE  Covered(d)'
    <2>1. /\ state[c] = "RUNNING"
          /\ residual' = [residual EXCEPT ![c] = PendingBytes(c)]
          /\ UNCHANGED <<width, request>>
          /\ state' = state \/ state' = [state EXCEPT ![c] = "STOPPED"]
          /\ MaskStopClear(c) \/ left' = left
      BY <1>7 DEF Stop, Residual
    <2>2. left'[d] <= left[d]
      BY <1>0, <1>1, <2>1, MaskMoves
    <2>3. CASE d = c
      BY <1>0, <2>1, <2>2, <2>3, CoveredAnew DEF TypeOK, ChanType
    <2>4. CASE d # c
      BY <1>0, <2>1, <2>2, <2>4, CoveredKept DEF TypeOK, ChanType
    <2> QED
      BY <2>3, <2>4
  <1>8. ASSUME NEW x \in Contexts, NEW c \in Channels, ProcessIrq(x, c)
        PROVE  Covered(d)'
    <2>1. CASE state[c] # "RUNNING"
      BY <1>2, <1>8, <2>1 DEF ProcessIrq
    <2>2. CASE state[c] = "RUNNING"
      <3>1. /\ Terminate(x, c) /\ UNCHANGED <<width, request>>
        BY <1>8, <2>2 DEF ProcessIrq
      <3>2. left'[d] <= left[d]
        BY <1>0, <1>1, <3>1, MaskMoves DEF Terminate
      <3>3. CASE d # c
        BY <1>0, <3>1, <3>2, <3>3, CoveredKept DEF Terminate, TypeOK, ChanType
      <3>4. CASE d = c /\ Failed(x, c)
        <4>1. residual'[d] = PendingBytes(d)
          BY <1>0, <3>1, <3>4 DEF Terminate, TypeOK, ChanType
        <4> QED
          BY <1>0, <2>2, <3>1, <3>2, <3>4, <4>1, CoveredAnew
      <3>5. CASE d = c /\ ~Failed(x, c)
        BY <1>0, <3>1, <3>5 DEF Terminate, Covered, TypeOK, ChanType
      <3> QED
        BY <3>3, <3>4, <3>5
    <2> QED
      BY <2>1, <2>2
  <1>9. ASSUME NEW c \in Channels, HwMove(c)
        PROVE  Covered(d)'
    <2>1. left'[d] <= left[d]
      BY <1>0, <1>1, <1>9 DEF HwMove, TypeOK, HwType
    <2> QED
      BY <1>0, <1>9, <2>1, CoveredKept DEF HwMove
  <1> QED
    BY <1>2, <1>3, <1>4, <1>5, <1>6, <1>7, <1>8, <1>9
    DEF Next, vars, GetEnter, GetWait, Share, PutEnter, PutWait, PutPost,
        StartRefused, StartErrno, StartReturns, Interrupt, Inject, CallbackDone,
        SetHold, ReleaseHold, HwDone, HwError

\* The residue that a stop, an error or a question reports is never smaller
\* than what the hardware has not moved, nor larger than the request
\* (bl616cl_dma_pending_bytes, bl616cl_dma_residual).
THEOREM ResidueCorrect == Safety => []ResidualCovers
  <1>1. Base /\ ResidualCovers /\ [Next]_vars => Base' /\ ResidualCovers'
    BY TypeStep, WidthStep, CallbackStep, CoveredStep DEF Base
  <1>2. Init => ResidualCovers
    BY DEF Init, ResidualCovers
  <1> QED
    BY InitBase, <1>1, <1>2, PTL DEF Safety

\* In a product build nobody injects a status: a status that is pending, or
\* that the handler has read for a request that still runs, is one the hardware
\* gave when it had moved the last unit of that request.
Moved(c) ==
    /\ c \in tcStatus => left[c] = 0
    /\ c \in tcs[Irq] /\ state[c] = "RUNNING" => left[c] = 0
    /\ calling[Irq] = c => c \notin tcs[Irq]
    /\ state[c] = "COMPLETE" => left[c] = 0

MovedInv ==
    /\ \A t \in Threads : ~Busy(t)
    /\ \A c \in Channels : Moved(c)

\* While the handler has read the status of c, nobody calls the driver for c:
\* a thread does not run, and the callback that runs is another channel's.
LEMMA NobodyCalls ==
  ASSUME TypeOK, MovedInv, ~CrossChannel, NEW x \in Contexts, NEW c \in Channels,
         Calls(x, c)
  PROVE  c \notin tcs[Irq]
  <1>1. CASE x = Irq
    BY <1>1, ThreadsAssumption
    DEF Calls, HasHandle, MovedInv, Moved, TypeOK, ClientType
  <1>2. CASE x # Irq
    BY <1>2 DEF Calls, CanRun, Busy, Bits
  <1> QED
    BY <1>1, <1>2

\* The handler takes the status of the hardware, or looks at one bit of it.
LEMMA MovedIrqStep ==
  ASSUME TypeOK, MovedInv,
         \/ Interrupt
         \/ \E x \in Contexts, c \in Channels : ProcessIrq(x, c)
         \/ \E x \in Contexts : CallbackDone(x)
  PROVE  MovedInv'
  <1> USE DEF TypeOK, ChanType, HwType, IrqType, chanVars, hwVars, Contexts
  <1>1. CASE Interrupt
    BY <1>1, NoChanAssumption, ThreadsAssumption
    DEF Interrupt, MovedInv, Moved, Busy, Bits
  <1>2. ASSUME NEW x \in Contexts, NEW c \in Channels, ProcessIrq(x, c)
        PROVE  MovedInv'
    <2>1. x = Irq /\ calling[Irq] = NoChan
      BY <1>2 DEF ProcessIrq, MovedInv, Busy
    <2>2. /\ tcs' = [tcs EXCEPT ![Irq] = @ \ {c}]
          /\ errs' = [errs EXCEPT ![Irq] = @ \ {c}]
      BY <1>2, <2>1 DEF ProcessIrq
    <2>3. CASE state[c] # "RUNNING"
      <3>1. UNCHANGED <<state, hwVars, calling>>
        BY <1>2, <2>3 DEF ProcessIrq
      <3> QED
        BY <2>1, <2>2, <3>1, NoChanAssumption, ThreadsAssumption
        DEF MovedInv, Moved, Busy, Bits
    <2>4. CASE state[c] = "RUNNING"
      <3>1. /\ MaskStopClear(c)
            /\ calling' = [calling EXCEPT ![Irq] = IF callback[c] THEN c ELSE NoChan]
            /\ state' = [state EXCEPT ![c] = IF c \in errs[Irq] THEN "ERROR" ELSE "COMPLETE"]
        BY <1>2, <2>1, <2>4 DEF ProcessIrq, Terminate, Failed
      <3>2. c \notin errs[Irq] => left[c] = 0
        BY <1>2, <2>1, <2>4 DEF ProcessIrq, Bits, MovedInv, Moved
      <3>3. /\ left'[c] \in 0 .. left[c]
            /\ \A d \in Channels \ {c} : left'[d] = left[d]
        BY <3>1, MaskMoves
      <3>4. tcStatus' = tcStatus \ {c}
        BY <3>1 DEF MaskStopClear
      <3>5. ASSUME NEW d \in Channels
            PROVE  Moved(d)'
        <4>1. CASE d = c
          BY <2>2, <3>1, <3>2, <3>3, <3>4, <4>1 DEF Moved
        <4>2. CASE d # c
          BY <2>2, <3>1, <3>3, <3>4, <4>2, NoChanAssumption DEF MovedInv, Moved
        <4> QED
          BY <4>1, <4>2
      <3>6. \A t \in Threads : ~Busy(t)'
        BY <2>2, <3>1, ThreadsAssumption DEF MovedInv, Busy, Bits
      <3> QED
        BY <3>5, <3>6 DEF MovedInv
    <2> QED
      BY <2>3, <2>4
  <1>3. ASSUME NEW x \in Contexts, CallbackDone(x)
        PROVE  MovedInv'
    <2>1. /\ calling' = [calling EXCEPT ![x] = NoChan]
          /\ UNCHANGED <<state, hwVars, tcs, errs>>
      BY <1>3 DEF CallbackDone
    <2> QED
      BY <2>1, NoChanAssumption DEF MovedInv, Moved, Busy, Bits
  <1> QED
    BY <1>1, <1>2, <1>3

LEMMA MovedStep ==
  ASSUME Base, MovedInv, [Next]_vars, ~TestBuild, ~CrossChannel
  PROVE  MovedInv'
  <1> USE DEF chanVars, hwVars, irqVars
  <1>0. TypeOK
    BY DEF Base
  <1>1. CASE \/ Interrupt
             \/ \E x \in Contexts, c \in Channels : ProcessIrq(x, c)
             \/ \E x \in Contexts : CallbackDone(x)
    BY <1>0, <1>1, MovedIrqStep
  <1>2. UNCHANGED <<state, left, tcStatus, tcs, errs, calling>> => MovedInv'
    BY DEF MovedInv, Moved, Busy, Bits
  <1>3. ASSUME UNCHANGED <<tcs, errs, calling>>,
               \A d \in Channels :
                 /\ d \in tcStatus' => left'[d] = 0
                 /\ d \in tcs[Irq] /\ state'[d] = "RUNNING" => left'[d] = 0
                 /\ state'[d] = "COMPLETE" => left'[d] = 0
        PROVE  MovedInv'
    BY <1>3 DEF MovedInv, Moved, Busy, Bits
  <1>4. ASSUME NEW t \in Threads, GetLock(t) \/ PutFinish(t) \/ PutLock(t)
        PROVE  MovedInv'
    <2>1. on[t] \in Channels
      BY <1>0, <1>4, OnChannel DEF GetLock, PutFinish, PutLock, Contexts
    <2>2. CASE state' = state /\ UNCHANGED <<left, tcStatus>>
      BY <1>2, <1>4, <2>2 DEF GetLock, PutFinish, PutLock, ClearChan
    <2>3. CASE ~(state' = state /\ UNCHANGED <<left, tcStatus>>)
      <3>1. /\ \E s \in {"OWNED", "FREE", "RELEASING"} : state' = [state EXCEPT ![on[t]] = s]
            /\ MaskStopClear(on[t]) \/ UNCHANGED <<left, tcStatus>>
            /\ UNCHANGED <<tcs, errs, calling>>
        BY <1>4, <2>3 DEF GetLock, PutFinish, PutLock, ClearChan
      <3>2. \A d \in Channels :
              /\ left[d] \in Nat
              /\ left'[d] \in 0 .. left[d] /\ (d # on[t] => left'[d] = left[d])
        BY <1>0, <2>1, <3>1, MaskMoves DEF TypeOK, HwType
      <3>3. tcStatus' \subseteq tcStatus
        BY <3>1 DEF MaskStopClear
      <3> QED
        BY <1>0, <1>3, <2>1, <3>1, <3>2, <3>3 DEF MovedInv, Moved, TypeOK, ChanType
    <2> QED
      BY <2>2, <2>3
  <1>5. ASSUME NEW x \in Contexts, NEW c \in Channels, NEW w \in Widths,
               Config(x, c, w)
        PROVE  MovedInv'
    <2>1. state' = [state EXCEPT ![c] = "READY"] /\ UNCHANGED <<left, tcStatus, tcs, errs, calling>>
      BY <1>5 DEF Config
    <2> QED
      BY <1>0, <1>3, <2>1 DEF MovedInv, Moved, TypeOK, ChanType
  <1>6. ASSUME NEW x \in Contexts, NEW c \in Channels, NEW len \in Lens,
               NEW cb \in BOOLEAN, Start(x, c, len, cb)
        PROVE  MovedInv'
    <2>1. c \notin tcs[Irq]
      BY <1>0, <1>6, NobodyCalls DEF Start
    <2>2. /\ state' = [state EXCEPT ![c] = "RUNNING"]
          /\ tcStatus' = tcStatus \ {c}
          /\ \E n : left' = [left EXCEPT ![c] = n]
          /\ UNCHANGED <<tcs, errs, calling>>
      BY <1>6 DEF Start
    <2> QED
      BY <1>0, <1>3, <2>1, <2>2 DEF MovedInv, Moved, TypeOK, ChanType, HwType
  <1>7. ASSUME NEW x \in Contexts, NEW c \in Channels, Stop(x, c)
        PROVE  MovedInv'
    <2>1. /\ state' = [state EXCEPT ![c] = "STOPPED"] /\ MaskStopClear(c)
          /\ UNCHANGED <<tcs, errs, calling>>
      BY <1>7 DEF Stop
    <2>2. \A d \in Channels :
            /\ left[d] \in Nat
            /\ left'[d] \in 0 .. left[d] /\ (d # c => left'[d] = left[d])
      BY <1>0, <2>1, MaskMoves DEF TypeOK, HwType
    <2>3. tcStatus' \subseteq tcStatus
      BY <2>1 DEF MaskStopClear
    <2> QED
      BY <1>0, <1>3, <2>1, <2>2, <2>3 DEF MovedInv, Moved, TypeOK, ChanType
  <1>8. ASSUME NEW c \in Channels, HwMove(c) \/ HwDone(c) \/ HwError(c)
        PROVE  MovedInv'
    BY <1>0, <1>3, <1>8 DEF HwMove, HwDone, HwError, MovedInv, Moved, TypeOK, HwType
  <1> QED
    BY <1>1, <1>2, <1>4, <1>5, <1>6, <1>7, <1>8
    DEF Next, vars, GetEnter, GetWait, Share, PutEnter, PutWait, PutPost,
        StartRefused, StartErrno, StartReturns, Residual, Inject, SetHold, ReleaseHold

\* In a product build, when callbacks use their own channel only, a request
\* completes only when the hardware has moved every unit of it: the status that
\* the handler read and cleared at its start is never taken for that of a later
\* request.  (A callback that restarts another channel makes it so: see the
\* README.)
THEOREM CompletionCorrect ==
  ASSUME ~TestBuild, ~CrossChannel
  PROVE  Safety => []CompleteMeansMoved
  <1>1. Init => MovedInv
    BY NoChanAssumption DEF Init, MovedInv, Moved, Busy, Bits, Contexts
  <1>2. Base /\ MovedInv /\ [Next]_vars => Base' /\ MovedInv'
    BY TypeStep, WidthStep, CallbackStep, MovedStep DEF Base
  <1>3. MovedInv => CompleteMeansMoved
    BY DEF MovedInv, Moved, CompleteMeansMoved
  <1> QED
    BY InitBase, <1>1, <1>2, <1>3, PTL DEF Safety
=============================================================================
