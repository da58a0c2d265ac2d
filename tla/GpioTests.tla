------------------------------ MODULE GpioTests ------------------------------
(***************************************************************************)
(* The test program of the pins,                                           *)
(* apps/mcu_peripheral_tests/gpio/gpio_case_main.c.  A case is the         *)
(* sequence of its calls with what it expects of each; the first call that *)
(* fails ends the program, behind the calls that clean up.                 *)
(*                                                                         *)
(* With --interactive a person presses and releases the keys as prompted.  *)
(* A wait ends in its timeout only when nothing more can happen.           *)
(***************************************************************************)
EXTENDS GpioPins, Sequences

CONSTANTS
    Paths,          \* the settings of --key0, --key1, --led, --out and --in
    Runs,           \* sequences of case names: runs of the program, one after the other
    Count           \* -n

VARIABLES
    config,         \* struct app_config_s: paths, restore, interactive
    script,         \* the calls to come
    todo,           \* cases to come, each a run of the program
    handles,        \* open handles, each with its pin and original type
    signal,         \* SIGUSR1: "open", "blocked" or "pending"
    verdict,        \* "pass", or "fail" at the first failure
    asked           \* the value last asked of each output, as a set that may be empty

gpioTestVars == <<config, script, todo, handles, signal, verdict, asked>>

Call(op, p, arg) == [op |-> op, pin |-> p, arg |-> arg]

gpio_open_handle(p) == <<Call("open", p, "none")>>
gpio_close_handle(p) == <<Call("close", p, "none")>>
gpio_set_type(p, type) == <<Call("set type", p, type)>>
gpio_write_value(p, value) == <<Call("write", p, value)>>
gpio_read_value(p, value) == <<Call("read", p, {value})>>
stable_read(p, value) == <<Call("stable read", p, {value})>>
Refused(p, op) == <<Call("refused", p, op)>>
Block == <<Call("block", "none", "none")>>
Unblock == <<Call("unblock", "none", "none")>>
register_gpio_signal(p) == <<Call("register", p, "none")>>
unregister_gpio_signal(p) == <<Call("unregister", p, "none")>>

\* The prompt asks for a key to be pressed, to be released, or for nothing.
wait_gpio_signal(p, prompt) == <<Call("wait signal", p, prompt)>>
wait_for_key_state(p, prompt) == <<Call("wait key", p, prompt)>>

Repeat(calls(_)) ==
    LET f[n \in 0 .. Count] == IF n = 0 THEN <<>> ELSE f[n - 1] \o calls(n - 1)
    IN  f[Count]

led_set_active_low(led, on) == gpio_write_value(led, ~on)

led_blink(led, count) ==
    LET f[n \in 0 .. count] ==
            IF n = 0 THEN gpio_set_type(led, "out")
            ELSE f[n - 1] \o led_set_active_low(led, TRUE) \o led_set_active_low(led, FALSE)
    IN  f[count]

Between(pins, body) ==
    LET f[n \in 0 .. Len(pins)] ==
            IF n = 0 THEN body
            ELSE LET p == pins[Len(pins) + 1 - n]
                 IN  gpio_open_handle(p) \o f[n - 1] \o gpio_close_handle(p)
    IN  f[Len(pins)]

run_key_irq_case(key, led, edge, prompt, blinks) ==
    Block \o gpio_set_type(key, edge) \o register_gpio_signal(key)
      \o wait_gpio_signal(key, prompt) \o unregister_gpio_signal(key)
      \o led_blink(led, blinks) \o Unblock

KeyChecks(key, led) ==
    wait_for_key_state(key, "release")
      \o run_key_irq_case(key, led, "falling", "press", 1)
      \o run_key_irq_case(key, led, "rising", "release", 2)

run_board_case(c) ==
    Between(<<c.key0, c.key1, c.led>>,
        gpio_set_type(c.led, "out") \o led_blink(c.led, 3)
          \o gpio_set_type(c.key0, "in") \o gpio_set_type(c.key1, "in")
          \o stable_read(c.key0, TRUE) \o stable_read(c.key1, TRUE)
          \o (IF c.interactive THEN KeyChecks(c.key0, c.led) \o KeyChecks(c.key1, c.led)
                               ELSE <<>>)
          \o gpio_set_type(c.led, "out opendrain")
          \o led_set_active_low(c.led, TRUE) \o led_set_active_low(c.led, FALSE))

Odd(i) == i % 2 = 1

run_case_001_pair(c) ==
    Between(<<c.out, c.in>>,
        gpio_set_type(c.out, "out") \o gpio_set_type(c.in, "in")
          \o Repeat(LAMBDA i : gpio_write_value(c.out, Odd(i)) \o gpio_read_value(c.in, Odd(i))))

WriteAndRead(c, value) == gpio_write_value(c.out, value) \o gpio_read_value(c.in, value)

run_case_002_pair(c) ==
    Between(<<c.out, c.in>>,
        gpio_set_type(c.out, "out opendrain") \o gpio_set_type(c.in, "in pullup")
          \o WriteAndRead(c, FALSE) \o WriteAndRead(c, TRUE))

run_case_003_pair(c) ==
    Between(<<c.out, c.in>>,
        gpio_set_type(c.out, "in")
          \o gpio_set_type(c.in, "in pullup") \o stable_read(c.in, TRUE)
          \o gpio_set_type(c.in, "in pulldown") \o stable_read(c.in, FALSE)
          \o gpio_set_type(c.out, "out")
          \o gpio_set_type(c.in, "in pulldown") \o WriteAndRead(c, TRUE)
          \o gpio_set_type(c.in, "in pullup") \o WriteAndRead(c, FALSE))

run_irq_pair_case(c, edge, initial) ==
    Between(<<c.out, c.in>>,
        Block \o gpio_set_type(c.out, "out") \o gpio_write_value(c.out, initial)
          \o gpio_set_type(c.in, edge) \o register_gpio_signal(c.in)
          \o Repeat(LAMBDA i : gpio_write_value(c.out, ~initial)
                                 \o wait_gpio_signal(c.in, "nothing")
                                 \o gpio_write_value(c.out, initial))
          \o unregister_gpio_signal(c.in) \o Unblock)

run_case_004_pair(c) == run_irq_pair_case(c, "rising", FALSE)
run_case_005_pair(c) == run_irq_pair_case(c, "falling", TRUE)

run_pair_case(c) ==
    run_case_001_pair(c) \o run_case_003_pair(c) \o run_case_004_pair(c)
      \o run_case_005_pair(c) \o run_case_002_pair(c)

run_edge_case(c) ==
    Between(<<c.out>>,
        Refused(c.out, "unknown ioctl") \o Refused(c.out, "unknown type")
          \o gpio_set_type(c.out, "in pulldown") \o Refused(c.out, "write")
          \o Repeat(LAMBDA i : gpio_set_type(c.out, "out")
                                 \o gpio_write_value(c.out, Odd(i))
                                 \o gpio_read_value(c.out, Odd(i))
                                 \o gpio_set_type(c.out, "in pulldown")))

run_case_007_measure(c) ==
    Between(<<c.out>>, gpio_set_type(c.out, "out") \o gpio_write_value(c.out, TRUE))

run_case_008_measure(c) ==
    Between(<<c.out>>,
        gpio_set_type(c.out, "out")
          \o Repeat(LAMBDA i : gpio_write_value(c.out, TRUE) \o gpio_write_value(c.out, FALSE)))

\* It closes without restoring, which is the same: it has set no type.
record_one_gpio(p) == Between(<<p>>, <<Call("read", p, BOOLEAN)>>)

run_case_010_record(c) ==
    record_one_gpio(c.key0) \o record_one_gpio(c.key1) \o record_one_gpio(c.led)
      \o record_one_gpio(c.out) \o record_one_gpio(c.in)

run_selected_case(name, c) ==
    CASE name = "board" -> run_board_case(c)
      [] name = "pair" -> run_pair_case(c)
      [] name = "edge" -> run_edge_case(c)
      [] name = "001" -> run_case_001_pair(c)
      [] name = "002" -> run_case_002_pair(c)
      [] name = "003" -> run_case_003_pair(c)
      [] name = "004" -> run_case_004_pair(c)
      [] name = "005" -> run_case_005_pair(c)
      [] name = "007" -> run_case_007_measure(c)
      [] name = "008" -> run_case_008_measure(c)
      [] name = "010" -> run_case_010_record(c)
      [] name = "all" -> run_case_010_record(c) \o run_board_case(c) \o run_pair_case(c)

case_uses_pair(name) == name \in {"all", "pair", "001", "002", "003", "004", "005"}

validate_record_path_unique(c) ==
    \A i, j \in {"key0", "key1", "led", "out", "in"} : i # j => c[i] # c[j]

validate_config_paths_never(name, c) == TRUE

validate_config_paths(name, c) ==
    /\ case_uses_pair(name) => c.out # c.in
    /\ name \in {"all", "010"} => validate_record_path_unique(c)
-----------------------------------------------------------------------------
(* The calls                                                               *)

\* init_default_config and what parse_args makes of it.  A second run of the
\* program finds the pins as the first has left them.
GpioTestInit ==
    /\ PinsInit
    /\ config \in {[key0 |-> c.key0, key1 |-> c.key1, led |-> c.led, out |-> c.out,
                     in |-> c.in, restore |-> r, interactive |-> m] :
                        c \in Paths, r \in BOOLEAN, m \in BOOLEAN}
    /\ todo \in Runs
    /\ script = <<>> /\ handles = <<>> /\ signal = "open" /\ verdict = "pass"
    /\ asked = [p \in Pins |-> {}]

\* validate_config_paths may refuse the case.
StartCase ==
    /\ script = <<>> /\ todo # <<>> /\ verdict = "pass"
    /\ todo' = Tail(todo)
    /\ script' = IF validate_config_paths(Head(todo), config)
                 THEN run_selected_case(Head(todo), config) ELSE <<>>
    /\ UNCHANGED <<pinVars, config, handles, signal, verdict, asked>>

Is(op) == script # <<>> /\ Head(script).op = op
pin == Head(script).pin
arg == Head(script).arg

\* What the case still has open is closed; a signal is unregistered first.
Cleanup ==
    (IF attached = {} THEN <<>> ELSE unregister_gpio_signal(CHOOSE p \in attached : TRUE))
      \o (IF signal = "open" THEN <<>> ELSE Unblock)
      \o SelectSeq(script, LAMBDA c : c.op = "close"
                                      /\ \E i \in DOMAIN handles : handles[i].pin = c.pin)

Expect(ok) ==
    IF ok THEN script' = Tail(script) /\ UNCHANGED verdict
    ELSE script' = Cleanup /\ verdict' = "fail"

Rest == UNCHANGED <<config, todo, handles, signal>>

OpenStep ==
    /\ Is("open") /\ Expect(TRUE)
    /\ handles' = <<[pin |-> pin, original |-> pintype[pin]]>> \o handles
    /\ UNCHANGED <<pinVars, config, todo, signal, asked>>

CloseStep ==
    /\ Is("close") /\ Expect(TRUE)
    /\ handles' = Tail(handles)
    /\ IF config.restore
       THEN /\ Setpintype(pin, Head(handles).original)
            /\ asked' = [asked EXCEPT ![pin] = {}]
       ELSE UNCHANGED <<pinVars, asked>>
    /\ UNCHANGED <<config, todo, signal>>

SetTypeStep ==
    /\ Is("set type") /\ Expect(TRUE)
    /\ Setpintype(pin, arg) /\ asked' = [asked EXCEPT ![pin] = {}] /\ Rest

\* GPIOC_WRITE is for outputs.
Writable(p) == pintype[p] \in {"out", "out opendrain"}

WriteStep ==
    /\ Is("write") /\ Expect(Writable(pin))
    /\ IF Writable(pin)
       THEN Writepin(pin, arg) /\ asked' = [asked EXCEPT ![pin] = {arg}]
       ELSE UNCHANGED <<pinVars, asked>>
    /\ Rest

ReadStep ==
    /\ Is("read") /\ (\E v \in Readpin(pin) : Expect(v \in arg))
    /\ UNCHANGED <<pinVars, asked>> /\ Rest

\* Eight reads in a row
StableReadStep ==
    /\ Is("stable read") /\ Expect(Readpin(pin) = arg)
    /\ UNCHANGED <<pinVars, asked>> /\ Rest

RefusedStep ==
    /\ Is("refused")
    /\ Expect(CASE arg = "write" -> ~Writable(pin) [] OTHER -> arg \notin PinTypes)
    /\ UNCHANGED <<pinVars, asked>> /\ Rest

\* sigprocmask; a signal that is left over would be delivered now.
MaskStep ==
    /\ \/ Is("block") /\ signal' = "blocked" /\ Expect(TRUE)
       \/ /\ Is("unblock") /\ signal' = "open"
          /\ script' = Tail(script)
          /\ verdict' = IF signal = "pending" THEN "fail" ELSE verdict
    /\ UNCHANGED <<pinVars, config, todo, handles, asked>>

RegisterStep ==
    /\ \/ Is("register") /\ Attach(pin)
       \/ Is("unregister") /\ Detach(pin)
    /\ Expect(TRUE) /\ UNCHANGED asked /\ Rest

\* The person holds a key down only while asked to.
Wanted ==
    IF ~Is("wait signal") /\ ~Is("wait key") THEN pressed
    ELSE CASE arg = "press" -> pressed \cup {pin}
           [] arg = "release" -> pressed \ {pin}
           [] OTHER -> pressed

PersonStep ==
    /\ Wanted # pressed
    /\ Key(Wanted)
    /\ UNCHANGED gpioTestVars

\* The worker and the callback of the upper half, which sends the signal.
Arrives == IF signal = "open" THEN "open" ELSE "pending"

ServeStep ==
    /\ \E p \in Pins : Serve(p)
    /\ signal' = Arrives
    /\ verdict' = IF signal = "open" THEN "fail" ELSE verdict
    /\ UNCHANGED <<config, script, todo, handles, asked>>

WaitSignalStep ==
    /\ Is("wait signal")
    /\ \/ signal = "pending" /\ signal' = "blocked" /\ Expect(TRUE)
       \/ /\ signal = "blocked" /\ Wanted = pressed /\ events \cap armed \cap attached = {}
          /\ Expect(FALSE) /\ UNCHANGED signal
    /\ UNCHANGED <<pinVars, config, todo, handles, asked>>

WaitKeyStep ==
    /\ Is("wait key") /\ Wanted = pressed
    /\ (\E v \in Readpin(pin) : Expect(v = (arg = "release")))
    /\ UNCHANGED <<pinVars, asked>> /\ Rest

GpioTestNext ==
    \/ StartCase \/ OpenStep \/ CloseStep \/ SetTypeStep \/ WriteStep \/ ReadStep
    \/ StableReadStep \/ RefusedStep \/ MaskStep \/ RegisterStep \/ PersonStep
    \/ ServeStep \/ WaitSignalStep \/ WaitKeyStep

JoinedPins == {p \in Pins : Wire(p) # {p}}

\* A client that turns the polarity of two joined pins and drives them.
ClientNext ==
    /\ \/ \E p \in JoinedPins, i \in BOOLEAN :
            /\ Invert(p, i)
            /\ asked' = [asked EXCEPT ![p] = IF i = (p \in inverted) THEN @ ELSE {}]
       \/ \E p \in JoinedPins, t \in {"in", "out"} :
            Setpintype(p, t) /\ asked' = [asked EXCEPT ![p] = {}]
       \/ \E p \in JoinedPins, v \in BOOLEAN :
            Writable(p) /\ Writepin(p, v) /\ asked' = [asked EXCEPT ![p] = {v}]
    /\ UNCHANGED <<config, script, todo, handles, signal, verdict>>

ClientSpec == GpioTestInit /\ [][ClientNext]_<<pinVars, gpioTestVars>>
-----------------------------------------------------------------------------
(* Properties                                                              *)

\* The pins pass their test, with the pins as any earlier case has left them:
\* each read is as expected, each edge gives one signal in time and none comes
\* while the program does not block it.
GpioTestPasses == verdict = "pass"

\* Whoever reads a pin that he alone drives reads what he wrote, inverted or not.
ReadsOwn ==
    \A p \in Pins :
        asked[p] # {} /\ (\A q \in Wire(p) \ {p} : ~pad[q].drives)
          => Readpin(p) = asked[p]

\* Between two cases nothing is open, registered or blocked; with -r the types
\* are the ones of the start.
Tidy ==
    script = <<>> /\ handles = <<>> =>
        /\ attached = {} /\ signal = "open"
        /\ config.restore =>
             \A p \in Pins : pintype[p] = IF p \in Outputs THEN "out" ELSE "in"
=============================================================================
