------------------------------- MODULE I2cBus --------------------------------
(***************************************************************************)
(* One I2C bus, chips/bl616cl/bl616cl_i2c.c.  A transfer is a chain of     *)
(* messages.  It is validated before the lock is taken, and then goes out  *)
(* in groups: a prefix (a write without a stop) with the read that follows *)
(* it, or one message.  Each group programs the controller anew and moves; *)
(* after a failure the status is read, the controller is shut down and the *)
(* transfer ends.  The lock is held from the first group to the last.      *)
(*                                                                         *)
(* In a test build the transport can be replaced by another one.           *)
(*                                                                         *)
(* An operator with "_" in its name is a faulty variant of the operator    *)
(* that follows it; no specification uses it.                              *)
(***************************************************************************)
EXTENDS Naturals, Sequences

CONSTANTS
    Threads, NoThread,
    Messages,       \* [addr, freq, flags, length, buffer] of struct i2c_msg_s
    MaxCount,       \* messages of a transfer, at most
    Addresses,      \* the addresses of 7 bits
    NoBuffer,       \* NULL
    I2cFrequencies, \* the two that bl616cl_i2c_frequency_valid accepts
    DefaultFrequency, \* BL616CL_I2C_DEFAULT_FREQUENCY
    Off,            \* a controller that is not programmed
    MaxLength,      \* BL616CL_I2C_MAX_LENGTH
    MaxPrefix,      \* BL616CL_I2C_MAX_PREFIX
    Errors,         \* what a transport reports, "LHAL ETIMEDOUT" among it
    Statuses,       \* what the interrupt status of the controller may be
    Pins, NoPins,   \* pairs of pins
    Word,           \* 2^16: the reference count is a uint16_t
    MaxUsers        \* bound on references; the code has none

NoStatus == "none"
AllFlags == {"read", "ten", "nostop", "nostart"}

I2cConstantsOK ==
    /\ NoThread \notin Threads /\ NoPins \notin Pins
    /\ DefaultFrequency \in I2cFrequencies /\ Off \notin I2cFrequencies
    /\ {"OK", "ETIMEDOUT"} \cap Errors = {} /\ NoStatus \notin Statuses
    /\ Word \in Nat /\ MaxUsers \in Nat /\ MaxUsers < Word

VARIABLES
    \* struct bl616cl_i2c_priv_s; test_ops says whether it is set
    i2cLock, i2cRefs, pins, test_ops, last_status,
    \* the peripheral clock, the controller and the pins routed to it
    i2cClock, controller, routed,
    \* the transfer of the holder of the lock: the chain, its next message,
    \* where it is in the group, and the error it will return
    chain, next, phase, ret,
    i2cMine         \* references that each client has

busVars == <<i2cRefs, pins, i2cClock, routed, i2cMine>>
transferVars == <<i2cLock, chain, next, phase, ret>>
i2cVars == <<transferVars, test_ops, last_status, controller, busVars>>

I2cInit ==
    /\ i2cLock = NoThread /\ i2cRefs = 0 /\ pins = NoPins
    /\ test_ops = FALSE /\ last_status = NoStatus
    /\ i2cClock = FALSE /\ controller = Off /\ routed = NoPins
    /\ chain = <<>> /\ next = 1 /\ phase = "none" /\ ret = "OK"
    /\ i2cMine = [t \in Threads |-> 0]
-----------------------------------------------------------------------------
(* bl616cl_i2c_validate                                                    *)

Described(m) ==
    /\ m.buffer # NoBuffer /\ m.length \in 1 .. MaxLength
    /\ m.addr \in Addresses /\ m.freq \in I2cFrequencies
    /\ m.flags \subseteq AllFlags

Supported(m) == m.flags \cap {"ten", "nostart"} = {}

NoStop(m) == "nostop" \in m.flags

PairMatches_address(p, r) == p.addr = r.addr

\* The prefix and its read go to one device at one frequency.
PairMatches(p, r) == p.addr = r.addr /\ p.freq = r.freq

PrefixOK_early(c, i) ==
    /\ "read" \notin c[i].flags /\ c[i].length <= MaxPrefix
    /\ i + 1 < Len(c)
    /\ c[i + 1].flags = {"read"}

PrefixOK(c, i) ==
    /\ "read" \notin c[i].flags /\ c[i].length <= MaxPrefix
    /\ i < Len(c)
    /\ c[i + 1].flags = {"read"}

\* The second loop looks at a message, or at a prefix with its read, and goes on
\* behind it.
Validate(c) ==
    LET from[i \in 1 .. Len(c) + 2] ==
          IF i > Len(c) THEN "OK"
          ELSE IF ~Supported(c[i]) THEN "EOPNOTSUPP"
          ELSE IF ~NoStop(c[i]) THEN from[i + 1]
          ELSE IF ~PrefixOK(c, i) THEN "EOPNOTSUPP"
          ELSE IF ~PairMatches(c[i], c[i + 1]) THEN "EINVAL"
          ELSE from[i + 2]
    IN  IF c # <<>> /\ \A i \in DOMAIN c : Described(c[i]) THEN from[1] ELSE "EINVAL"
-----------------------------------------------------------------------------
(* bl616cl_i2c_transfer; one that is not valid changes nothing             *)

Begin(t, c) ==
    /\ i2cLock = NoThread /\ i2cRefs > 0
    /\ Validate(c) = "OK"
    /\ last_status' = NoStatus
    /\ i2cLock' = t
    /\ chain' = c /\ next' = 1 /\ phase' = "configure"
    /\ UNCHANGED <<ret, test_ops, controller, busVars>>

\* Without a reference the transfer returns -ENODEV.
NoDevice(c) ==
    /\ i2cLock = NoThread /\ i2cRefs = 0
    /\ Validate(c) = "OK"
    /\ last_status' = NoStatus
    /\ UNCHANGED <<transferVars, test_ops, controller, busVars>>

GroupCount == IF NoStop(chain[next]) THEN 2 ELSE 1

Group == SubSeq(chain, next, next + GroupCount - 1)

In(t, p) == i2cLock = t /\ phase = p

\* bl616cl_i2c_transport_configure; only the transport of a test can fail.
Configure(t, r) ==
    /\ In(t, "configure")
    /\ r # "OK" => test_ops
    /\ controller' = IF test_ops THEN controller ELSE chain[next].freq
    /\ phase' = IF r = "OK" THEN "transfer" ELSE "status"
    /\ ret' = r
    /\ UNCHANGED <<i2cLock, chain, next, test_ops, last_status, busVars>>

\* bl616cl_i2c_transport_transfer
Move(t) ==
    /\ In(t, "transfer")
    /\ phase' = "moving"
    /\ UNCHANGED <<i2cLock, chain, next, ret, test_ops, last_status, controller, busVars>>

Return ==
    /\ i2cLock' = NoThread
    /\ chain' = <<>> /\ next' = 1 /\ phase' = "none" /\ ret' = "OK"

IsLast == next + GroupCount > Len(chain)

GroupMoved(t) ==
    /\ In(t, "moving")
    /\ IF IsLast THEN Return
       ELSE next' = next + GroupCount /\ phase' = "configure" /\ UNCHANGED <<i2cLock, chain, ret>>
    /\ UNCHANGED <<test_ops, last_status, controller, busVars>>

\* The vendor code has another number for a timeout than the system.
Errno(r) == IF r = "LHAL ETIMEDOUT" /\ ~test_ops THEN "ETIMEDOUT" ELSE r

MoveFails(t, r) ==
    /\ In(t, "moving")
    /\ phase' = "status" /\ ret' = Errno(r)
    /\ UNCHANGED <<i2cLock, chain, next, test_ops, last_status, controller, busVars>>

\* bl616cl_i2c_transport_failed
Status(t, s) ==
    /\ In(t, "status")
    /\ last_status' = s
    /\ phase' = "cleanup"
    /\ UNCHANGED <<i2cLock, chain, next, ret, test_ops, controller, busVars>>

Cleanup(t) ==
    /\ In(t, "cleanup")
    /\ controller' = IF test_ops THEN controller ELSE Off
    /\ Return
    /\ UNCHANGED <<test_ops, last_status, busVars>>
-----------------------------------------------------------------------------
(* bl616cl_i2cbus_initialize and bl616cl_i2cbus_uninitialize               *)

\* With users the pins must be the same; the first one sets the bus up.
I2cInitialize(t, p) ==
    /\ i2cLock = NoThread
    /\ i2cRefs < MaxUsers
    /\ \/ /\ i2cRefs > 0 /\ pins = p
          /\ UNCHANGED <<pins, i2cClock, controller, routed>>
       \/ /\ i2cRefs = 0
          /\ pins' = p /\ routed' = p
          /\ i2cClock' = TRUE /\ controller' = DefaultFrequency
    /\ i2cRefs' = (i2cRefs + 1) % Word
    /\ i2cMine' = [i2cMine EXCEPT ![t] = @ + 1]
    /\ UNCHANGED <<transferVars, test_ops, last_status>>

I2cLastReference == i2cRefs = 1

I2cUninitialize(t) ==
    /\ i2cLock = NoThread
    /\ i2cMine[t] > 0
    /\ i2cRefs' = i2cRefs - 1
    /\ IF I2cLastReference
       THEN controller' = Off /\ routed' = NoPins /\ i2cClock' = FALSE
       ELSE UNCHANGED <<i2cClock, controller, routed>>
    /\ i2cMine' = [i2cMine EXCEPT ![t] = @ - 1]
    /\ UNCHANGED <<transferVars, test_ops, last_status, pins>>

\* bl616cl_i2c_test_install, refused with -ENODEV without a reference.
Install(ops) ==
    /\ i2cLock = NoThread /\ i2cRefs > 0
    /\ test_ops' = ops
    /\ UNCHANGED <<transferVars, last_status, controller, busVars>>
-----------------------------------------------------------------------------
Chains == UNION {[1 .. n -> Messages] : n \in 1 .. MaxCount}

Step(t) ==
    \/ \E c \in Chains : Begin(t, c)
    \/ \E c \in [1 .. 1 -> Messages] : NoDevice(c)
    \/ \E r \in Errors \cup {"OK"} : Configure(t, r)
    \/ Move(t) \/ GroupMoved(t)
    \/ \E r \in Errors : MoveFails(t, r)
    \/ \E s \in Statuses : Status(t, s)
    \/ Cleanup(t)
    \/ \E p \in Pins : I2cInitialize(t, p)
    \/ I2cUninitialize(t)
    \/ \E ops \in BOOLEAN : Install(ops)

I2cNext == \E t \in Threads : Step(t)

I2cSpec == I2cInit /\ [][I2cNext]_i2cVars
-----------------------------------------------------------------------------
I2cTypeOK ==
    /\ i2cLock \in Threads \cup {NoThread}
    /\ i2cRefs \in 0 .. MaxUsers /\ i2cMine \in [Threads -> 0 .. MaxUsers]
    /\ pins \in Pins \cup {NoPins} /\ routed \in Pins \cup {NoPins}
    /\ i2cClock \in BOOLEAN /\ controller \in I2cFrequencies \cup {Off}
    /\ test_ops \in BOOLEAN /\ last_status \in Statuses \cup {NoStatus}
    /\ phase \in {"none", "configure", "transfer", "moving", "status", "cleanup"}
    /\ ret # "OK" <=> phase \in {"status", "cleanup"}

\* What goes out is what was validated: each group lies within the chain, is a
\* prefix with a read of the same device, or one message that ends in a stop,
\* and every message of it goes out at its own frequency, on a bus that is
\* clocked and routed to the pins of its users.  The validation and the
\* transfer walk the chain separately; failures of earlier transfers have shut
\* the controller down in between.
GroupsAreWhole ==
    [][\A t \in Threads : Move(t) =>
         LET group == next .. next + GroupCount - 1
         IN  /\ group \subseteq DOMAIN chain
             /\ i2cClock /\ routed = pins
             /\ \A i \in group : test_ops \/ controller = chain[i].freq
             /\ GroupCount = 1 => "nostop" \notin chain[next].flags
             /\ GroupCount = 2 => /\ chain[next + 1].flags = {"read"}
                                  /\ chain[next + 1].addr = chain[next].addr]_i2cVars
=============================================================================
