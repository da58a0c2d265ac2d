------------------------------- MODULE SpiBus -------------------------------
(***************************************************************************)
(* One SPI bus, chips/bl616cl/bl616cl_spi.c: its reference count, its bus  *)
(* lock, the configuration it keeps a copy of, chip selects and exchanges. *)
(*                                                                         *)
(* Clients share the bus: each takes the lock, configures, selects,        *)
(* exchanges, and releases the lock.  initialize and uninitialize hold the *)
(* lock from beginning to end: each is one action.  Frequency, mode, word  *)
(* length and bit order go the same way: they are Items.  The transport of *)
(* the test build is in SpiTests.                                          *)
(*                                                                         *)
(* An operator with "_" in its name is a faulty variant of the operator    *)
(* that follows it; no specification uses it.                              *)
(***************************************************************************)
EXTENDS Naturals

CONSTANTS
    Clients, NoClient,
    Items,          \* BL616CL_SPI_CONFIG_FREQUENCY, _MODE, _BITS, _BITORDER
    Values,         \* what an item can be set to
    Default,        \* what initialize sets each item to
    Unknown,        \* a register after a failed configuration; nothing asked
    Devs,           \* devices the board has a chip select for
    Strange,        \* a device id the board does not know
    NoDev,
    MaxRefs         \* UINT16_MAX

ASSUME ClientsAssumption == NoClient \notin Clients
ASSUME ValuesAssumption == Default \in [Items -> Values] /\ Unknown \notin Values
ASSUME DevsAssumption == Strange \notin Devs /\ NoDev \notin Devs \cup {Strange}
ASSUME RefsAssumption == MaxRefs \in Nat \ {0}

VARIABLES
    \* struct bl616cl_spi_priv_s
    lock, refs, cache, configError, selected, selectionError,
    lastError,      \* last_error is not OK
    \* the controller and the board's chip selects
    clock, hw, asserted,
    \* the clients
    mine,           \* references that each client has
    asked,          \* what the holder of the lock has asked for since it has it
    target          \* the device it has selected since

cfgVars == <<cache, configError, hw>>
selVars == <<selected, selectionError, asserted>>
sessionVars == <<asked, target>>
vars == <<lock, refs, lastError, clock, mine, cfgVars, selVars, sessionVars>>

Nothing == [i \in Items |-> Unknown]

Init ==
    /\ lock = NoClient /\ refs = 0 /\ lastError = FALSE
    /\ cache = Default /\ configError = {}
    /\ selected = NoDev /\ selectionError = FALSE
    /\ clock = FALSE /\ hw = Nothing /\ asserted = {}
    /\ mine = [t \in Clients |-> 0]
    /\ asked = Nothing /\ target = NoDev
-----------------------------------------------------------------------------
(* Pins.  The signals 2 and 3 of a bus go out on every pin whose number is *)
(* 2 or 3 modulo 4; each group of 12 pins can have them swapped.           *)

\* What bl616cl_spi_configure_pins accepts.
PinsAccepted(miso, mosi) ==
    /\ {miso, mosi} \subseteq {p \in 0 .. 36 : p % 4 \in {2, 3}}
    /\ miso \div 12 = mosi \div 12 => miso % 4 # mosi % 4

SwapOfMosi(mosi) == mosi % 4 = 2

\* The swaps after it; swap is what the groups had.
ConfigurePins(swap, miso, mosi) ==
    [g \in DOMAIN swap |->
        IF g = miso \div 12 THEN miso % 4 = 3
        ELSE IF g = mosi \div 12 THEN SwapOfMosi(mosi) ELSE swap[g]]

\* What a pin carries: signal 2 is MISO, 3 is MOSI.
SignalAt(swap, pin) == IF (pin % 4 = 3) # swap[pin \div 12] THEN "MOSI" ELSE "MISO"
-----------------------------------------------------------------------------
(* bl616cl_spibus_initialize and bl616cl_spibus_uninitialize               *)

RoomForReference == refs < MaxRefs

\* Only the first reference sets the bus up.
Initialize(t) ==
    /\ lock = NoClient
    /\ \/ /\ refs > 0 /\ RoomForReference
          /\ UNCHANGED <<lastError, clock, cfgVars, selVars>>
       \/ /\ refs = 0
          /\ clock' = TRUE
          /\ cache' = Default /\ hw' = Default /\ configError' = {}
          /\ selected' = NoDev /\ selectionError' = FALSE
          /\ lastError' = FALSE
          /\ UNCHANGED asserted
    /\ refs' = refs + 1
    /\ mine' = [mine EXCEPT ![t] = @ + 1]
    /\ UNCHANGED <<lock, sessionVars>>

\* The clock cannot be enabled.
InitializeFails ==
    /\ lock = NoClient /\ refs = 0
    /\ clock' = FALSE
    /\ UNCHANGED <<lock, refs, lastError, mine, cfgVars, selVars, sessionVars>>

LastReference_early == refs <= 2

LastReference == refs = 1

\* Disabling the clock may fail; the error is ignored.
Uninitialize(t) ==
    /\ lock = NoClient /\ mine[t] > 0
    /\ refs' = refs - 1
    /\ mine' = [mine EXCEPT ![t] = @ - 1]
    /\ IF LastReference
       THEN /\ asserted' = asserted \ {selected}
            /\ selected' = NoDev
            /\ hw' = Nothing
            /\ clock' \in BOOLEAN
            /\ UNCHANGED <<cache, configError, selectionError>>
       ELSE UNCHANGED <<clock, cfgVars, selVars>>
    /\ UNCHANGED <<lock, lastError, sessionVars>>
-----------------------------------------------------------------------------
(* A client's turn on the bus                                              *)

Taken(t) ==
    /\ lock = NoClient /\ lock' = t
    /\ UNCHANGED <<refs, lastError, clock, mine, cfgVars, selVars, sessionVars>>

\* A client with a reference takes it.
Lock(t) == mine[t] > 0 /\ Taken(t)

Unlock(t) ==
    /\ lock = t
    /\ lock' = NoClient
    /\ asked' = Nothing /\ target' = NoDev
    /\ UNCHANGED <<refs, lastError, clock, mine, cfgVars, selVars>>

\* The board accepts the devices it knows, and a deselect of those.
Accepts(d) == d \in Devs

DeselectFirst_never(d) == FALSE

\* Another device is still selected: it is deselected first.
DeselectFirst(d) == selected # NoDev /\ selected # d

\* bl616cl_spi_select, of a device and of none
Chosen(d) ==
    /\ target' = d
    /\ LET others == IF DeselectFirst(d) THEN asserted \ {selected} ELSE asserted IN
       IF Accepts(d)
       THEN /\ asserted' = others \cup {d} /\ selected' = d
            /\ selectionError' = FALSE
            /\ UNCHANGED lastError
       ELSE /\ asserted' = others
            /\ selected' = IF DeselectFirst(d) THEN NoDev ELSE selected
            /\ selectionError' = TRUE /\ lastError' = TRUE
    /\ UNCHANGED <<lock, refs, clock, mine, cfgVars, asked>>

Dropped(d) ==
    /\ target' = NoDev
    /\ asserted' = asserted \ {d}
    /\ selected' = IF selected = d THEN NoDev ELSE selected
    /\ UNCHANGED <<lock, refs, lastError, clock, mine, cfgVars, asked, selectionError>>

\* The hardware has the value already.
Cached(i, v) == cache[i] = v /\ i \notin configError

\* bl616cl_spi_config_succeeded
ErrorAfter(errors) == lastError /\ errors # {}

\* bl616cl_spi_setfrequency, _setmode, _setbits and _hwfeatures
Written(i, v) ==
    /\ asked' = [asked EXCEPT ![i] = v]
    /\ ~Cached(i, v)
    /\ cache' = [cache EXCEPT ![i] = v]
    /\ hw' = [hw EXCEPT ![i] = v]
    /\ configError' = configError \ {i}
    /\ lastError' = ErrorAfter(configError \ {i})
    /\ UNCHANGED <<lock, refs, clock, mine, selVars, target>>

LeftAlone(i, v) ==
    /\ asked' = [asked EXCEPT ![i] = v]
    /\ Cached(i, v)
    /\ UNCHANGED <<lock, refs, lastError, clock, mine, cfgVars, selVars, target>>

\* The value is invalid, or the controller fails while it is set.
NotWritten(i, v) ==
    /\ asked' = [asked EXCEPT ![i] = v]
    /\ ~Cached(i, v)
    /\ hw' \in {hw, [hw EXCEPT ![i] = v], [hw EXCEPT ![i] = Unknown]}
    /\ configError' = configError \cup {i}
    /\ lastError' = TRUE
    /\ UNCHANGED <<lock, refs, clock, mine, cache, selVars, target>>

Suppressed_bySelection == selectionError

\* The two guards of bl616cl_spi_exchange that return without a word and
\* change nothing.
Suppressed == configError # {} \/ selectionError

Moved ==
    /\ ~Suppressed
    /\ lastError' = FALSE
    /\ UNCHANGED <<lock, refs, clock, mine, cfgVars, selVars, sessionVars>>

\* bl616cl_spi_recover programs the controller from the copy.
Recovered == cache

\* The transport fails half way; registers may hold anything by then.
MoveFailed ==
    /\ ~Suppressed
    /\ lastError' = TRUE
    /\ hw' = Recovered
    /\ UNCHANGED <<lock, refs, clock, mine, cache, configError, selVars, sessionVars>>

\* A 16-bit transfer with a misaligned buffer, or too long.
NotMoved ==
    /\ ~Suppressed
    /\ lastError' = TRUE
    /\ UNCHANGED <<lock, refs, clock, mine, cfgVars, selVars, sessionVars>>

\* A client calls them while it has the bus.
Select(t, d) == lock = t /\ Chosen(d)
Deselect(t, d) == lock = t /\ Dropped(d)
SetItem(t, i, v) == lock = t /\ Written(i, v)
SetItemCached(t, i, v) == lock = t /\ LeftAlone(i, v)
SetItemFails(t, i, v) == lock = t /\ NotWritten(i, v)
Exchange(t) == lock = t /\ Moved
ExchangeFails(t) == lock = t /\ MoveFailed
ExchangeInvalid(t) == lock = t /\ NotMoved
-----------------------------------------------------------------------------
Next ==
    \/ InitializeFails
    \/ \E t \in Clients :
         \/ Initialize(t) \/ Uninitialize(t)
         \/ Lock(t) \/ Unlock(t)
         \/ Exchange(t) \/ ExchangeFails(t) \/ ExchangeInvalid(t)
         \/ \E d \in Devs \cup {Strange} : Select(t, d) \/ Deselect(t, d)
         \/ \E i \in Items, v \in Values :
              SetItem(t, i, v) \/ SetItemCached(t, i, v) \/ SetItemFails(t, i, v)

Spec == Init /\ [][Next]_vars
-----------------------------------------------------------------------------
(* Properties                                                              *)

TypeOK ==
    /\ lock \in Clients \cup {NoClient}
    /\ refs \in 0 .. MaxRefs /\ mine \in [Clients -> Nat]
    /\ cache \in [Items -> Values] /\ configError \subseteq Items
    /\ hw \in [Items -> Values \cup {Unknown}]
    /\ selected \in Devs \cup {NoDev} /\ asserted \subseteq Devs
    /\ selectionError \in BOOLEAN /\ lastError \in BOOLEAN /\ clock \in BOOLEAN
    /\ asked \in [Items -> Values \cup {Unknown}]
    /\ target \in Devs \cup {Strange, NoDev}

\* While any client has a reference the controller is clocked and programmed:
\* the copy is what the hardware has, except for items in error.
BusUp ==
    /\ (\E t \in Clients : mine[t] > 0) => clock
    /\ refs > 0 => \A i \in Items \ configError : hw[i] = cache[i]

\* Data moves.
Moves == \E t \in Clients : Exchange(t) \/ ExchangeFails(t)

\* Data moves only with the settings that the client itself asked for last,
\* whatever other clients and earlier failures left in the controller and in
\* its copy ("Frequency, error and recovery contract" of docs/bl616cl-spi.md).
ConfigAsAsked ==
    [][Moves => \A i \in Items : asked[i] # Unknown => hw[i] = asked[i]]_vars

\* Data moves only to the device that the client has selected, and to no
\* other.
SelectedTalks == [][Moves /\ target # NoDev => asserted = {target}]_vars

\* While an item is in error the diagnosis says so.
ErrorRemembered == configError # {} => lastError
=============================================================================
