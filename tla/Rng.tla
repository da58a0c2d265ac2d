--------------------------------- MODULE Rng ---------------------------------
(***************************************************************************)
(* The random number generator, chips/bl616cl/bl616cl_rng.c: /dev/random   *)
(* and /dev/urandom read blocks from one unit under one mutex, and test    *)
(* program threads read from them (apps/mcu_peripheral_tests/trng/         *)
(* trng_test_main.c).                                                      *)
(*                                                                         *)
(* A block is not a value but where it stands: the register of the unit is *)
(* "clear", holds a block that is "fresh" since the last trigger, or an    *)
(* "old" one, which was read or which somebody asked for who is gone.      *)
(*                                                                         *)
(* An operator with "_" in its name is a faulty variant of the operator    *)
(* that follows it; no specification uses it.                              *)
(***************************************************************************)
EXTENDS Naturals, Sequences

CONSTANTS
    main, Workers,  \* threads: of the test program, and of any client
    Nobody,
    Devices,        \* paths of CONFIG_DEV_RANDOM and CONFIG_DEV_URANDOM_ARCH
    BlockSize,      \* BL616CL_TRNG_BLOCK_SIZE
    Lengths         \* of reads of any client

Readers == Workers \cup {main}

RngConstantsOK ==
    /\ Nobody \notin Readers /\ main \notin Workers /\ BlockSize \in Nat \ {0}
    /\ Lengths \subseteq Nat

VARIABLES
    trng,           \* g_bl616cl_trng is known
    registering,    \* the place in bl616cl_rng_register, or "no"
    devices,        \* devices that are registered
    mutex,          \* g_bl616cl_rng_lock
    en, busy, dout, ht,     \* the unit
    healthy,        \* it answers in time, to threads that run in time
    late,           \* it was left while busy, and nobody has seen it idle since
    pc,             \* the place of each reader in bl616cl_rng_read
    buflen, generated, block,
    script, verdict         \* the test program: lengths to read, and its result

unitVars == <<en, busy, dout, ht, healthy, late>>
registerVars == <<trng, registering, devices>>
readVars == <<buflen, generated, block>>
rngTestVars == <<script, verdict>>
rngVars == <<registerVars, mutex, unitVars, pc, readVars, rngTestVars>>

\* The unit is found in any state.
RngInit ==
    /\ trng = FALSE /\ registering = "no" /\ devices = {} /\ mutex = Nobody
    /\ en \in BOOLEAN /\ busy \in BOOLEAN /\ dout \in {"clear", "old"} /\ ht \in BOOLEAN
    /\ healthy \in BOOLEAN /\ late = busy
    /\ pc = [t \in Readers |-> "idle"]
    /\ buflen = [t \in Readers |-> 0] /\ generated = [t \in Readers |-> 0]
    /\ block = [t \in Readers |-> "zero"]
-----------------------------------------------------------------------------
\* INT_CLR_1T, which may or may not clear the error of the health test.
ClearsInterrupt == ht' \in {ht, FALSE}

\* bl616cl_rng_cleanup, in two steps between which a unit that is still busy may
\* finish: no trigger and no output; then off.
ClearOutput ==
    /\ dout' = "clear"
    /\ UNCHANGED <<en, busy, ht, healthy, late>>

SwitchOff ==
    /\ en' = FALSE /\ ClearsInterrupt
    /\ UNCHANGED <<busy, dout, healthy, late>>

\* The second device finds the unit known, and leaves it alone.
KnownAlready == trng

\* bl616cl_rng_initialize; a unit that is missing changes nothing.
Initialize ==
    /\ registering = "no" /\ devices # Devices
    /\ trng' = TRUE
    /\ registering' = IF KnownAlready THEN "driver" ELSE "clear"
    /\ UNCHANGED <<devices, mutex, unitVars, pc, readVars, rngTestVars>>

InitializeClears ==
    /\ registering = "clear" /\ registering' = "off"
    /\ ClearOutput
    /\ UNCHANGED <<trng, devices, mutex, pc, readVars, rngTestVars>>

InitializeStops ==
    /\ registering = "off" /\ registering' = "driver"
    /\ SwitchOff
    /\ UNCHANGED <<trng, devices, mutex, pc, readVars, rngTestVars>>

\* register_driver may refuse.
Register(d) ==
    /\ registering = "driver" /\ registering' = "no"
    /\ d \notin devices /\ devices' \in {devices, devices \cup {d}}
    /\ UNCHANGED <<trng, mutex, unitVars, pc, readVars, rngTestVars>>

RegisterSteps == Initialize \/ InitializeClears \/ InitializeStops \/ \E d \in Devices : Register(d)

Goes(t, from, to) == pc[t] = from /\ pc' = [pc EXCEPT ![t] = to]

\* bl616cl_rng_read; a length of zero returns at once.
Read(t, len) ==
    /\ devices # {}
    /\ Goes(t, "idle", IF len = 0 THEN "return" ELSE "lock")
    /\ buflen' = [buflen EXCEPT ![t] = len] /\ generated' = [generated EXCEPT ![t] = 0]
    /\ UNCHANGED <<registerVars, mutex, unitVars, block, rngTestVars>>

Free_always == TRUE

Free == mutex = Nobody

Lock(t) ==
    /\ Free
    /\ Goes(t, "lock", "enable")
    /\ mutex' = t
    /\ UNCHANGED <<registerVars, unitVars, readVars, rngTestVars>>

\* bl616cl_rng_read_block: the unit is switched on, which may start it ...
Enable(t) ==
    /\ Goes(t, "enable", "wait idle")
    /\ en' = TRUE /\ ClearsInterrupt
    /\ busy' \in {busy, TRUE}
    /\ UNCHANGED <<registerVars, mutex, dout, healthy, late, readVars, rngTestVars>>

\* ... and triggered: a block that is there is not the one that is asked for.
Trigger(t) ==
    /\ Goes(t, "trigger", "wait block")
    /\ busy' = TRUE /\ ClearsInterrupt
    /\ dout' = IF dout = "clear" THEN "clear" ELSE "old"
    /\ UNCHANGED <<registerVars, mutex, en, healthy, late, readVars, rngTestVars>>

\* The unit finishes: a block, or an error of its health test.  When it was
\* switched off meanwhile the block may be there all the same.
Finish ==
    /\ busy
    /\ busy' = FALSE /\ dout' \in IF en THEN {"fresh"} ELSE {dout, "fresh"}
    /\ ht' \in IF healthy THEN {ht} ELSE BOOLEAN
    /\ UNCHANGED <<registerVars, mutex, en, healthy, late, pc, readVars, rngTestVars>>

Waits(t) == pc[t] \in {"wait idle", "wait block"}

\* bl616cl_rng_wait_idle sees the unit idle ...
SeesIdle(t) ==
    /\ ~busy /\ Waits(t)
    /\ pc' = [pc EXCEPT ![t] = IF ht THEN "clear failed"
                               ELSE IF @ = "wait idle" THEN "trigger" ELSE "take"]
    /\ late' = FALSE
    /\ UNCHANGED <<registerVars, mutex, en, busy, dout, ht, healthy, readVars, rngTestVars>>

\* ... or busy, and looks at the clock afterwards.
SeesBusy(t) ==
    /\ busy /\ Waits(t)
    /\ pc' = [pc EXCEPT ![t] = IF @ = "wait idle" THEN "look idle" ELSE "look block"]
    /\ UNCHANGED <<registerVars, mutex, unitVars, readVars, rngTestVars>>

Looks(t) == pc[t] \in {"look idle", "look block"}

InTime(t) ==
    /\ Looks(t)
    /\ pc' = [pc EXCEPT ![t] = IF @ = "look idle" THEN "wait idle" ELSE "wait block"]
    /\ UNCHANGED <<registerVars, mutex, unitVars, readVars, rngTestVars>>

\* Whether more than BL616CL_TRNG_TIMEOUT_MS can have passed.
TimeUp_never == FALSE

TimeUp == ~healthy

TooLate(t) ==
    /\ Looks(t) /\ TimeUp
    /\ pc' = [pc EXCEPT ![t] = "clear failed"]
    /\ late' = TRUE
    /\ UNCHANGED <<registerVars, mutex, en, busy, dout, ht, healthy, readVars, rngTestVars>>

\* The words of the block are read one by one.
Take(t) ==
    /\ Goes(t, "take", "clear taken")
    /\ block' = [block EXCEPT ![t] = dout]
    /\ dout' = "old"
    /\ UNCHANGED <<registerVars, mutex, en, busy, ht, healthy, late, buflen, generated, rngTestVars>>

\* The unit is cleared behind a block that was read or that failed ...
Clears(t) ==
    /\ Goes(t, "clear taken", "off taken") \/ Goes(t, "clear failed", "off failed")
    /\ ClearOutput
    /\ UNCHANGED <<registerVars, mutex, readVars, rngTestVars>>

\* ... and switched off.  Blocks that were copied before one that failed are kept.
Stops(t) ==
    /\ \/ Goes(t, "off taken", "copy") /\ UNCHANGED block
       \/ Goes(t, "off failed", "unlock") /\ block' = [block EXCEPT ![t] = "zero"]
    /\ SwitchOff
    /\ UNCHANGED <<registerVars, mutex, buflen, generated, rngTestVars>>

Copylen_block(rest) == BlockSize

Copylen(rest) == IF rest > BlockSize THEN BlockSize ELSE rest

\* What is left of the block is wiped.
Copy(t) ==
    LET copied == generated[t] + Copylen(buflen[t] - generated[t])
    IN  /\ Goes(t, "copy", IF copied < buflen[t] THEN "enable" ELSE "unlock")
        /\ generated' = [generated EXCEPT ![t] = copied]
        /\ block' = [block EXCEPT ![t] = "zero"]
        /\ UNCHANGED <<registerVars, mutex, unitVars, buflen, rngTestVars>>

Unlock(t) ==
    /\ Goes(t, "unlock", "return")
    /\ mutex' = Nobody
    /\ UNCHANGED <<registerVars, unitVars, readVars, rngTestVars>>

\* The number of bytes, or an error when there are none.
Return(t) ==
    /\ Goes(t, "return", "idle")
    /\ buflen' = [buflen EXCEPT ![t] = 0] /\ generated' = [generated EXCEPT ![t] = 0]
    /\ UNCHANGED <<registerVars, mutex, unitVars, block>>

Works(t) ==
    \/ Lock(t) \/ Enable(t) \/ Trigger(t) \/ SeesIdle(t) \/ SeesBusy(t)
    \/ InTime(t) \/ TooLate(t) \/ Take(t) \/ Clears(t) \/ Stops(t) \/ Copy(t) \/ Unlock(t)

ReturnAny(t) == Return(t) /\ UNCHANGED rngTestVars

\* Any reader at any time.
RngNext ==
    \/ RegisterSteps
    \/ \E t \in Workers : \/ Works(t) \/ ReturnAny(t)
                          \/ \E len \in Lengths : Read(t, len)
    \/ Finish
-----------------------------------------------------------------------------
(* The test program                                                        *)

\* g_lengths, and what getrandom and the statistics read in one piece; the
\* workers start at different places of a list of their own.
trng_test_lengths == <<0, 1, BlockSize - 1, BlockSize, BlockSize + 1, 3 * BlockSize + 1>>
trng_test_api == <<3 * BlockSize + 1, 3 * BlockSize + 1>>
trng_test_stats == <<4 * BlockSize>>

\* The lengths of the workers, who start at different places of one list.
LengthsOfWorker == <<1, BlockSize, BlockSize + 1>>
trng_worker(id) == [i \in 1 .. 3 |-> LengthsOfWorker[((id + i) % 3) + 1]]

Reads(lens) == [i \in 1 .. Len(lens) |-> [op |-> "read", arg |-> lens[i]]]

\* All workers are created, and then joined one after the other.
Each(op, workers) == [i \in 1 .. Len(workers) |-> [op |-> op, arg |-> workers[i]]]
trng_test_concurrent(workers) == Each("create", workers) \o Each("join", workers)

\* The option "all"; workers is a sequence of them.
RngTestInit(workers) ==
    /\ script = [t \in Readers |->
         IF t # main THEN <<>>
         ELSE Reads(trng_test_lengths \o trng_test_api \o trng_test_stats)
              \o trng_test_concurrent(workers)]
    /\ verdict = "running" /\ healthy /\ ~ht

Is(t, op) == pc[t] = "idle" /\ script[t] # <<>> /\ Head(script[t]).op = op

ReadStep(t) == Is(t, "read") /\ Read(t, Head(script[t]).arg)

CreateStep(id) ==
    /\ Is(main, "create")
    /\ LET w == Head(script[main]).arg
       IN  script' = [script EXCEPT ![main] = Tail(@), ![w] = Reads(trng_worker(id[w]))]
    /\ UNCHANGED <<registerVars, mutex, unitVars, pc, readVars, verdict>>

JoinStep ==
    /\ Is(main, "join")
    /\ LET w == Head(script[main]).arg IN pc[w] = "idle" /\ script[w] = <<>>
    /\ script' = [script EXCEPT ![main] = Tail(@)]
    /\ UNCHANGED <<registerVars, mutex, unitVars, pc, readVars, verdict>>

\* trng_read_exact wants every byte, and the byte behind them untouched.
ReturnStep(t) ==
    /\ Return(t)
    /\ script' = [script EXCEPT ![t] = Tail(@)]
    /\ verdict' = IF generated[t] = buflen[t] THEN verdict ELSE "fail"

Summary ==
    /\ script = [t \in Readers |-> <<>>] /\ verdict = "running"
    /\ verdict' = "pass"
    /\ UNCHANGED <<registerVars, mutex, unitVars, pc, readVars, script>>

RngTestNext(id) ==
    \/ RegisterSteps
    \/ \E t \in Readers : Works(t) \/ ReadStep(t) \/ ReturnStep(t)
    \/ CreateStep(id) \/ JoinStep \/ Finish \/ Summary

RngSpec == RngInit /\ [][RngNext]_rngVars
RngTestSpec(workers, id) == RngInit /\ RngTestInit(workers) /\ [][RngTestNext(id)]_rngVars
-----------------------------------------------------------------------------
(* Properties                                                              *)

RngTypeOK ==
    /\ {trng, en, busy, ht, healthy, late} \subseteq BOOLEAN /\ devices \subseteq Devices
    /\ registering \in {"no", "clear", "off", "driver"}
    /\ mutex \in Readers \cup {Nobody} /\ dout \in {"clear", "fresh", "old"}
    /\ \A t \in Readers : generated[t] <= buflen[t]

\* Every block that is copied to a reader came out of the unit since this reader
\* triggered it: it is not the cleared register, nor a block that was handed out
\* before, nor the late block of a read that gave up, whatever readers, failures
\* and registrations do meanwhile.
Fresh(t) == block'[t] # block[t] => block'[t] \in {"zero", "fresh"}

\* While nobody reads, the unit is off and nothing of a block is left on the stack
\* of a reader; nor in the register, unless the unit was busy when it was left:
\* the block that it finishes then is behind the clearing, and stays.
NothingLeft ==
    trng /\ registering \notin {"clear", "off"} /\ mutex = Nobody =>
        /\ ~en /\ \A t \in Readers : block[t] = "zero"
        /\ dout # "clear" => late

\* A block goes to one reader once, the one who asked for it, and no step leaves
\* more of it behind than a unit that answers late does.
BlocksOnce == [][NothingLeft' /\ \A t \in Readers : Fresh(t)]_rngVars

\* A read ends, also when the unit never answers.
ReadsReturn == \A t \in Readers : pc[t] = "lock" ~> pc[t] = "idle"

\* The test program of the generator passes.
TrngTestPasses == verdict # "fail"
=============================================================================
