------------------------------ MODULE GpioPins ------------------------------
(***************************************************************************)
(* Levels and triggers of the pins, chips/bl616cl/bl616cl_gpio.c, under    *)
(* the character devices of boards/.../ai_m64l_kit_gpio.c.  Each call is   *)
(* one critical section of the expander's mutex; what attach, detach and   *)
(* the worker do between their steps is in module GpioInterrupt.           *)
(*                                                                         *)
(* A pin drives its wire or not, and pulls it up, down or not.  Both       *)
(* output configurations drive both levels; they differ in the pull.       *)
(***************************************************************************)
EXTENDS Naturals

CONSTANTS
    Pins,           \* pins that have a device
    Outputs,        \* those that start as outputs, the others as inputs
    Keys,           \* pins with a key: the wire is low while it is pressed
    Joined          \* pairs of pins that a wire joins

Directions == {"in", "in pullup", "in pulldown", "out", "out opendrain"}
Edges == {"rising", "falling", "both"}
PinTypes == Directions \cup Edges

PinsConstantsOK == Outputs \cup Keys \subseteq Pins /\ Joined \subseteq Pins \X Pins

VARIABLES
    pad,            \* what bflb_gpio_init has set: drives, and pull
    latch,          \* pins whose output is set
    inverted,       \* priv->invert
    trig, armed,    \* trigger of each pin, and pins that are not masked
    events,         \* interrupt status: pins with an edge not yet served
    attached,       \* pins with a callback
    pintype,        \* gp_pintype of each device
    pressed         \* keys that are held down

padVars == <<pad, latch, inverted, trig, armed, attached>>
pinVars == <<padVars, events, pintype, pressed>>
-----------------------------------------------------------------------------
(* Wires                                                                   *)

Wire(p) == {q \in Pins : q = p \/ <<p, q>> \in Joined \/ <<q, p>> \in Joined}

\* The levels a pin may have: of the drivers of its wire, of its key, or of the
\* pulls; a wire that nothing holds has any.
LevelsOf(conf, high, down, p) ==
    LET drivers == {q \in Wire(p) : conf[q].drives}
        pulls == {conf[q].pull : q \in Wire(p)} \ {"float"}
    IN  IF drivers # {} THEN {v \in BOOLEAN : \E q \in drivers : v <=> q \in high}
        ELSE IF p \in Keys THEN {p \notin down}
        ELSE IF pulls = {"up"} THEN {TRUE}
        ELSE IF pulls = {"down"} THEN {FALSE}
        ELSE BOOLEAN

Levels(p) == LevelsOf(pad, latch, pressed, p)

Matches(edge, before, after) ==
    \/ edge \in {"rising", "both"} /\ FALSE \in before /\ TRUE \in after
    \/ edge \in {"falling", "both"} /\ TRUE \in before /\ FALSE \in after

\* What a change of pads, outputs or keys does to the interrupt status.
Change(conf, high, down) ==
    /\ pad' = conf /\ latch' = high /\ pressed' = down
    /\ events' = events \cup
         {p \in armed : LET after == LevelsOf(conf, high, down, p)
                        IN  Levels(p) # after /\ Matches(trig[p], Levels(p), after)}
-----------------------------------------------------------------------------
(* bl616cl_gpio.c                                                          *)

Drives(direction) == direction \in {"out", "out opendrain"}

\* The pull of the configuration sets of lines 47 to 56.
Pull(direction) ==
    CASE direction \in {"in", "out opendrain"} -> "float"
      [] direction \in {"in pullup", "out"} -> "up"
      [] direction = "in pulldown" -> "down"

Direction(p, direction) ==
    /\ Change([pad EXCEPT ![p] = [drives |-> Drives(direction), pull |-> Pull(direction)]],
              latch, pressed)
    /\ UNCHANGED <<inverted, trig, armed, attached>>

\* IOEXPANDER_OPTION_INVERT
Invert(p, invert) ==
    /\ inverted' = IF invert THEN inverted \cup {p} ELSE inverted \ {p}
    /\ UNCHANGED <<pad, latch, trig, armed, attached, events, pintype, pressed>>

\* IOEXPANDER_OPTION_INTCFG; the configuration also arms the pin.
Intcfg(p, edge) ==
    /\ Change([pad EXCEPT ![p] = [drives |-> FALSE,
                                  pull |-> IF edge = "rising" THEN "down" ELSE "up"]],
              latch, pressed)
    /\ trig' = [trig EXCEPT ![p] = edge]
    /\ armed' = armed \cup {p}
    /\ UNCHANGED <<inverted, attached>>

\* The level of the pin for a value, and the value of a level.
Inverts(p, value) == value # (p \in inverted)

Writepin(p, value) ==
    /\ Change(pad, IF Inverts(p, value) THEN latch \cup {p} ELSE latch \ {p}, pressed)
    /\ UNCHANGED <<inverted, trig, armed, attached, pintype>>

\* The values that a read may return; readbuf is the same call.
Readpin(p) == {Inverts(p, v) : v \in Levels(p)}

Attach(p) ==
    /\ attached' = attached \cup {p} /\ armed' = armed \cup {p}
    /\ UNCHANGED <<pad, latch, inverted, trig, events, pintype, pressed>>

MaskedByDetach(p) == armed \ {p}

Detach(p) ==
    /\ attached' = attached \ {p} /\ armed' = MaskedByDetach(p)
    /\ UNCHANGED <<pad, latch, inverted, trig, events, pintype, pressed>>

\* bl616cl_gpio_irqworker, for one pin
Serve(p) ==
    /\ p \in events \cap armed \cap attached
    /\ events' = events \ {p}
    /\ UNCHANGED <<padVars, pintype, pressed>>
-----------------------------------------------------------------------------
(* The character devices                                                   *)

\* ai_m64l_kit_gpio_initialize: gpio_lower_half gives each pin its default type.
PinsInit ==
    /\ pad = [p \in Pins |-> IF p \in Outputs THEN [drives |-> TRUE, pull |-> "up"]
                                              ELSE [drives |-> FALSE, pull |-> "float"]]
    /\ pintype = [p \in Pins |-> IF p \in Outputs THEN "out" ELSE "in"]
    /\ latch = {} /\ inverted = {} /\ attached = {} /\ pressed = {}
    /\ trig = [p \in Pins |-> "none"] /\ armed = {} /\ events = {}

\* GPIOC_SETPINTYPE
Setpintype(p, type) ==
    /\ IF type \in Directions THEN Direction(p, type) ELSE Intcfg(p, type)
    /\ pintype' = [pintype EXCEPT ![p] = type]

Key(down) == Change(pad, latch, down) /\ UNCHANGED <<inverted, trig, armed, attached, pintype>>
-----------------------------------------------------------------------------
\* An event of an armed pin has a callback that takes it: without one the
\* worker clears nothing, and interrupt and worker alternate for ever
\* (bl616cl_gpio.c:623 and 646).
NoStorm == events \cap armed \subseteq attached

PinsTypeOK ==
    /\ \A p \in Pins : pad[p].drives \in BOOLEAN /\ pad[p].pull \in {"float", "up", "down"}
    /\ latch \cup inverted \cup armed \cup events \cup attached \cup pressed \subseteq Pins
    /\ \A p \in Pins : pintype[p] \in PinTypes /\ trig[p] \in Edges \cup {"none"}
=============================================================================
