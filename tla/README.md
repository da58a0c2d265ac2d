# Verification of the BL616CL port

This directory is a verification development of the BL616CL vendor port in this
repository (`src/chips/bl616cl`, `src/boards/bl616cl`) and of the test programs that
come with it (`src/apps`): TLA+ models of the drivers and of the programs that use
them, the TLC configurations that check them on small instances, and TLAPS proofs
about them. The port supplies the lower halves, adapters and board code that an RTOS
(NuttX/openvela) calls; the RTOS and the chip's register library are not in the
repository and are modelled only through how the port uses them.

The processor has one core. A driver therefore has three kinds of context:
threads, which are preempted anywhere; interrupt handlers, which run to their end
before a thread runs again; and callbacks, which a handler (or, in a test build,
a thread) calls in the middle of its work. Most of the port protects its state
with `enter_critical_section` or a spin lock that masks interrupts: in the models
such a region is one action. Everything that can go wrong lies between two
regions of one call.

## 1. Inventory

| Component | State it keeps | Operations | Interacts with |
|---|---|---|---|
| DMA0 adapter (`bl616cl_dma.c`) | per channel: state, configuration, request, residue, callback, `callbacks_inflight`, semaphores `available`, `callback_done`; channel registers | get, put, config, start, stop, residual; the shared interrupt; test hooks (inject, hold) | clients' threads and callbacks, cache maintenance, controller |
| General purpose timer (`bl616cl_tim.c`) | callback, timeout, generation, divider, started; registers, interrupt line | start, stop, getstatus, settimeout (us and ticks), setcallback, ioctl, handler | timer upper half; a callback that calls back into the driver |
| Oneshot timer (`bl616cl_oneshot.c`) | callback, running; TIMER1, mtime | start, start_absolute, cancel, current, handler | tickless/oneshot upper half, callback that restarts |
| Watchdog (`bl616cl_wdt.c`) | timeout, handler, mode, started, last feed | start, stop, keepalive, getstatus, settimeout, capture, handler | watchdog upper half, reset reason |
| RTC (`bl616cl_rtc.c`, `bl616cl_rtc_hw.c`) | base time and counter, the ONCE alarm, its state, `wait_for_clock`; 48-bit counter, compare, interrupt | rdtime, settime, setalarm, setrelative, cancelalarm, rdalarm, destroy, interrupt | rtc upper half and its callbacks, HBN |
| PWM (`bl616cl_pwm.c`) | frequency/duty solution, per channel enable, pins | setup, shutdown, start, stop | pwm upper half, clock, pins |
| SPI bus (`bl616cl_spi.c`) | reference count, bus lock, cached frequency/mode/width/order and "configured", actual frequency, error count | initialize, uninitialize, lock, select, setfrequency, setmode, setbits, hwfeatures, send, exchange; test hooks (install, last error, error count) | SPI drivers of several devices, pins, board chip selects |
| I2C bus (`bl616cl_i2c.c`) | reference count, lock, hardware object, last status | initialize, uninitialize, transfer; test hook (install) | I2C drivers |
| GPIO and pin interrupts (`bl616cl_gpio.c`) | configuration of pins, table of interrupt slots, deferred work | direction, option (invert, INTCFG), read, write, attach, detach, interrupt, worker | IO expander clients, HPWORK queue, irq adapter |
| UART (`bl616cl_serial.c`, `bl616cl_lowputc.c`) | configuration, interrupt masks, FIFOs, the upper half's buffers | setup, shutdown, attach, detach, rxint, txint, TCSETS/TCGETS, interrupt, console output | serial upper half, console |
| Interrupt adapter (`bl616cl_irq*.c`) | handler table, CLIC registers | attach, detach, enable, disable, set and clear pending, dispatch | every driver |
| Cache (`bl616cl_cache.c`) | two caches (hardware) | enable, disable, clean, invalidate, flush of ranges or of all, coherent | DMA buffers, code that is loaded |
| RNG (`bl616cl_rng.c`) | a mutex, the unit | register, read | character devices |
| Security mutexes (`bl616cl_sec_mutex.c`) | three mutexes | take, give | security engine users |
| Reset reason (`bl616cl_systemreset.c`, `common/src/bl616cl_reset.c`) | magic word in HBN RSV0, sticky watchdog status | take reason at boot, reset with a reason | watchdog, board |
| Board bring-up and tables (`boards/bl616cl`) | registered devices | one boot sequence | every driver |
| Start-up, clocks, memory, flash | registers, heap bounds | boot code run once | - |
| Tests (`apps`) | script position, what was read so far, test transports | cases made of calls and of what they must return | every driver |

Which behaviours are hard, and what makes each component correct:

* **DMA0.** A put waits for a callback that runs in another context; a start,
  stop or second put arrives between the regions of a put; a handler works on a
  snapshot of the status while callbacks start and stop channels. Correct means:
  a channel is held by one client at a time and never lost, no callback of an
  old lease runs in a new one, a completion is reported only for bytes that
  moved, the residue never understates what is missing, a put returns.
* **Timers.** A callback changes the timer that is calling it; a live update
  reprograms a running counter; an interrupt cannot be attached. Correct means:
  the interrupt is open exactly while there is something to call, the registers
  hold what the software believes, the callback's own changes win.
* **RTC.** The counter moves while an alarm is programmed, the base time is
  changed under a pending alarm, callbacks rearm, the interrupt is delivered
  after a cancel. Correct means: an alarm never fires before its time on the
  clock that is set, fires once, and is never lost.
* **SPI/I2C.** One failed reprogramming leaves the bus in a configuration that
  the cache does not describe; initialize and uninitialize race on the count.
  Correct means: no exchange with a configuration nobody asked for, the hardware
  is up exactly while somebody holds a reference, a chain goes out as validated.
* **GPIO.** A detach races the worker that is about to run the callback; pins
  share slots; the trigger configuration arms an interrupt. Correct means: a
  detached callback does not run, an armed pin with a callback is served, a
  disabled pin stays disabled.
* **UART.** Four registers change one after the other and any of them may fail;
  a writer sleeps on an interrupt it has just unmasked; a close waits for bytes that
  the hardware moves. Correct means: the registers are what is kept, whoever writes or
  closes comes back, what arrives is handed on.
* **Interrupts.** A handler and its argument are two words of a table that is read by the
  dispatcher. Correct means: the owner's handler runs with the owner's argument, no edge
  is forgotten.
* **Caches.** Ranges begin and end inside of lines that others use. Correct means: a
  device and the processor see each other's latest data, nothing next to it is lost, code
  that was written is the code that is executed.
* **RNG.** Two readers share a unit that may not answer. Correct means: no block goes to
  two readers, a read ends.
* **PWM.** The error arithmetic of the solver, several channels on one counter.
* **Watchdog, oneshot, reset reason.** Conversions at their bounds, capture
  racing reset, what a reset leaves for the next boot to read.
* **Test programs.** They are the executable statement of what the drivers promise: a case
  is a sequence of calls with the result each must have. Composed with the model of the
  driver, the case must pass in every interleaving and with every choice of the hardware,
  not in the one a test bench happens to produce.

## 2. Plan

All modules that were planned are written; what is open is listed at the end.

1. `DmaLease`, `DmaChannel`, `DmaChannel_proofs`.
2. `Timer`, `Oneshot`; `GpioInterrupt`, `GpioPins`, `GpioTests`; `Rng`.
3. `SpiBus`, `SpiTests`; `I2cBus`, `I2cTests`, `I2cBus_proofs`; `Pwm`; `Buses_proofs` (SPI and PWM).
4. `Irq`; `Cache`, `CacheTests`, `Cache_proofs`; `RtcAlarm`.
5. `Devices_proofs` (timer, pins, random numbers); `System_proofs` (interrupts,
   oneshot, RTC).
6. `ByteStream`, `Uart`, `UartTests`, `Uart_proofs`.
7. `Watchdog`, `ResetReason`, `WatchdogTests`, `ResetReason_proofs`.

Abstract specifications: `DmaLease` for the DMA adapter, implemented by `DmaChannel`, and
`ByteStream` for the serial port, implemented by `Uart`.

Open: the test programs of the timer, the RTC, the PWM and the DMA as clients of their
modules; what the test programs that are modelled say, as theorems for every script, which is
done for the generator's only.

## 3. Conventions

* A definition keeps the name of the function or field it models without the
  prefix `bl616cl_`; a comment names the function when the name differs.
* A region of code that runs under a spin lock or in a critical section, or a
  whole call that a mutex serialises, is one action. An error return that changes
  nothing is a guard of the action that succeeds.
* An operator whose name has an underscore and a lower-case word at its end
  (`Suppressed_bySelection`) is a faulty variant of the operator that follows it, the way
  the code could plausibly have been written wrong. No specification uses it: it is there
  to show that a property is violated when it replaces the right one.
* `MC*` modules give values to constants; `*_proofs` modules hold theorems; `*Tests`
  modules are test programs. A test program is a `script`, the sequence of calls to come of
  each thread, with what is expected of each; its steps are actions of the driver's module
  whose arguments are at the head of the script.
* Numbers that are wide in the code (a 48-bit counter, 32-bit words, 16-bit fields)
  are constants; a run takes them so small that wrapping, rounding and saturation
  happen within a few steps.
* Modules that declare no assumption themselves state what they ask of their constants as
  `ConstantsOK`; the `MC` module that instantiates them assumes it.

## 4. The modules

### DmaChannel and DmaLease (`bl616cl_dma.c`)

State: one function per field of `struct bl616cl_dma_chan_s` (`state`, `configured`,
`held`, `width`, `request`, `residual`, `callback`, `inflight`), the values of its
two semaphores (`avail`, `done`), the registers (`enabled`, `left`, `tcStatus`,
`errStatus`), for each context the bits of the interrupt snapshot it has still to
look at (`tcs`, `errs`), the callback it runs (`calling`) and where in a call it
is (`pc`, `on`). `owner` and `holders` belong to the clients: who was given the
channel, who has its handle.

Actions: `GetEnter/GetWait/GetLock` are `get_chan`, `PutEnter/PutLock/PutWait/
PutFinish/PutPost` are `put_chan` with its two locked regions and the waits and posts
between them, `Config`, `Start`, `Stop`, `Residual` one region each;
`StartRefused/StartErrno` are the start that decides under the lock and reads the
state again after it for its error code. `Interrupt` takes the snapshot,
`ProcessIrq` retires one channel and starts its callback, `CallbackDone` ends the
callback and posts. `Inject`, `SetHold`, `ReleaseHold` are the hooks of the test
build. `HwMove`, `HwDone`, `HwError` are the controller.

Contexts: `CanRun` lets threads run only while the interrupt is not being handled.
A callback may call the driver for its own channel, not block.

`DmaLease` is what the adapter promises: a channel is free, held or being given
back, a request is submitted to a held channel, ends once with at most one report,
and the channel becomes free only after the last report has returned. `LeaseBar`
and `ActiveBar` at the end of `DmaChannel` are the refinement mapping.

Switches: `TestBuild` includes the hooks; `ConcurrentPut` lets several threads put one
handle; `CrossChannel` lets a callback use other channels. No run sets `CrossChannel`:
the handler works on a snapshot, so a callback that stops and restarts another
channel whose bit is still in the snapshot gets that channel completed early, which
neither documents nor tests of the repository do.

### Timer (`bl616cl_tim.c`)

State: callback, timeout, generation, divider and `started`, the registers, and the
interrupt handler between its two critical sections (`handler`, `latched`).
Actions: `Start`, `Stop`, `SetTimeout`, `TickSetTimeout`, `SetCallback`, `SetClockDiv`,
each called by a thread or by the callback that the handler is running;
`HandlerBegin` (match, latch, call), `HandlerEnd` (apply the callback's answer unless the
generation changed), `HwTick`. `getstatus` is an operator, `TimeLeft`; `RunningAsSet` also bounds
what it reports. One instance is
modelled; the shared register words of TIMER0 and TIMER1 are changed only inside
critical sections.

### RtcAlarm (`bl616cl_rtc.c`, `bl616cl_rtc_hw.c`)

State: base time and counter, the alarm, `alarm_irq_ready`, `alarm_wait_for_clock`; the
counter, compare register and interrupt of the HBN domain; `offset`, the system clock
less the clock of the RTC. `RtcTick` moves the counter; `SetTime`, `SetAlarm`, `SetRelative`,
`CancelAlarm`, `Destroy`, `Interrupt`, `Reset` are the operations. Inside an operation the
counter moves too: `ProgramCounter` follows the loop that writes a target, reads the
counter again and retries with a target further away, with a latency chosen anew for
each access. `SetTime` begins only with `offset = 0`: the upper half synchronises the
system clock before it returns from one setting and takes the next.

### GpioInterrupt (`bl616cl_gpio.c`)

State: the pin of each slot, the driver's mutex, mask and status of each pin, the
controller's interrupt line, the worker (`queued`, `worker`, `at`, `called`) and each
thread's call (`place`, `on`). `OptionConfigure/OptionArm` are the two halves of an INTCFG,
`Attach` one critical section, `DetachMask/DetachClear` the two regions of a
detach, `Interrupt` disables the line and queues the worker, `WorkerBegin` to `WorkerEnd`
walk the slots: clear the status, call, clear again, re-enable the line.

### GpioPins and GpioTests (`bl616cl_gpio.c`, `ai_m64l_kit_gpio.c`; `gpio_case_main.c`)

`GpioPins` looks at the same driver from the other side: what a pin drives and pulls
(`pad`, `latch`), what a read returns on a wire that two pins share or that a key pulls down,
inversion, triggers, and which edges the controller records. Each call is one step: the
steps of attach, detach and the worker are the matter of `GpioInterrupt`. A wire has the
levels of its drivers, else of its key, else of its pulls; a wire that nothing holds has any
level. An edge is recorded only while its pin is not masked. Level triggers, which no
caller uses, are not distinguished from edges.

`GpioTests` is the test program over these pins: each case is a script of opens, type
changes, writes, reads (`stable_read` reads several times), signals that are blocked,
registered and awaited, and prompts. A person presses and releases keys as prompted and
only then. Cases run one after the other on the pins as the case before left them. A
second client (`ClientNext`) inverts and drives joined pins in any order. The keys are taken
to be registered as inputs: the kit's table has no `/dev/gpio8` and `/dev/gpio9`, so that the
defaults of `all`, `board` and `010` find KEY0 only on a board that registers it.
Unregistering a signal is modelled as the detach that it makes.

### SpiBus and SpiTests (`bl616cl_spi.c`; `spi_test_main.c`)

State: lock, reference count, the copy of the configuration with its error bits, the
selected device and its error, `last_error`; clock, controller registers, chip selects;
for each client its references, and for the holder of the lock what it asked for.
Frequency, mode, word length and bit order follow the same code path
(check the value, compare with the copy, write, remember): they are `Items`. A
failing write may leave the register unchanged, changed or undefined. The bodies of the
operations (`Written`, `Chosen`, `Moved`, ...) do not mention the lock, so that the test
program can also call them with its own transport. `ConfigurePins` is the routing of MISO
and MOSI through the swaps of the groups of pins.

`SpiTests` is the test program: the cases `lifecycle`, `config`, `exchange`, `sequence`,
`errors`, `concurrent` and `all` on a transport of its own, and `loopback`, `paths`,
`hw sequence` and `boundary` on the controller, with MOSI tied to MISO. `Fake` is `SpiBus`
once more with the transport in place of the controller. A session is a sequence of command
lines; the program borrows the reference that the board's bring-up holds. The divider
arithmetic (`ActualFrequency`) has the real numbers: XCLK is 40 MHz, `Highest` stands for
`UINT32_MAX`. `honest` records whether every word on the controller moved with the settings,
the frequency and the device of the command line.

### I2cBus and I2cTests (`bl616cl_i2c.c`; `i2c_test_main.c`)

State: lock, reference count, pins; clock, controller (its frequency, or off), routed pins; the
chain of the holder's transfer, the position of its next message and the `phase` of its
group. `Validate` is the validation with its two loops; `Begin` takes the lock for a valid
chain; a group, a prefix with its read or one message, goes through `Configure`, `Move`,
`Moved` or `MoveFails`, `Status` and `Cleanup`, one step each. The last group releases the
lock. `Initialize` and `Uninitialize` count references. The code has no limit for the count;
`MaxRefs` bounds it here. `Install` replaces the transport in a test build.

`I2cTests` is the test program: its cases on a transport of its own, where each transfer
must return what the transport was told to return and call it as expected, and its cases
on an EEPROM (`cells`, `pointer` and the write `cycle` during which it does not answer).
The options describe the device as it is, the delay behind a write is at least the write
cycle, an address has one byte.

### Irq (`bl616cl_irq.c`, `bl616cl_irq_dispatch.c`, `bl616cl_irq_adapter.c`)

State: the bits of the CLIC (`ie`, `ip`, `edge`) and of `mie`, what the sources drive (`level`),
the table of handlers and arguments (`adapter`), the vectors of `irq_attach`, who has
interrupts off, the interrupt being handled. `Initialize` is `up_irqinitialize`; attaching
and detaching are a step per field, between which interrupts are taken. `given` and
`owed` are histories: the call each interrupt is to have, and the edges that no handler
has seen. Every interrupt has one owner, which attaches before it enables. Priorities
decide nothing, because handlers do not nest and nobody sets them.

### Cache and CacheTests (`bl616cl_cache.c`; `cache_test.c`)

The model keeps no values, but which copies hold the latest value of a byte: memory
(`fresh`), the data cache (`good`) and the instruction cache (`igood`). `RangeOf` is the
path from a call's range to lines: refusal, alignment that wraps at the top of the
address space, cutting into pieces no longer than `INT32_MAX`. A line may be evicted at any
time, and filled by any access. `Offer`, `Lease`, `DeviceWrites` and `Finish` are users that
hand buffers to devices, `Coherent` and `Refetch` code that is loaded. `EarlyInit`,
`AfterLoadClean` and `AfterLoadInvalidate` are the initialisation before and behind the
copying of sections at start.

`CacheTests` is the test program of the caches. It relies on two things, which the module
names: no line comes into the data cache unasked between an invalidation and the writes
behind the alias that is not cached, and (`Quiet`) no interrupt writes memory between the last
clean and the critical section of CACHE-005.

### Uart, ByteStream and UartTests (`bl616cl_serial.c`, `bl616cl_lowputc.c`; `uart_test_main.c`)

State: the configuration kept (`priv`) and in the registers (`hw`), `spoiled` for a rollback that
failed, the masks of the two interrupts, FIFOs and software buffers, the timeout of the
receiver, and each thread's place in open, close, write. `Tcsets` writes four registers and,
when one fails, writes the old ones back, which can fail as well. `TxintOn` is the
unmasking with what the handler sends at once. The transmitter is wired to the
receiver. An interrupt runs as soon as it is raised (`Quick`), so that only the handler's
end, where RTO is cleared, is a step of its own.

`ByteStream` is what the port promises of the bytes, without interrupts, masks, buffers and
FIFOs: one writer at a time hands over what is `pending`; what is `sent` arrives in order, once
each; a byte is lost only when more than the reader's buffer holds has arrived, or the
receiver is full, by a flush, or when a closed port is opened; only a byte for
the console may pass others. The refinement mapping stands at the end of `Uart`: `sent` is the
transmit FIFO followed by the buffer, `received` the reader's buffer followed by the receive FIFO.
`Data` is what users may write at once and `Chars` what is put on the console.

`UartTests` is the test program with its cases 001 to 010 in one go: several threads,
buffers that overflow, flushes, drains, all 24 formats. A case that misses bytes is
"partial" where the program says so, and not failed.

### Rng (`bl616cl_rng.c`; `trng_test_main.c`)

State: the mutex, the unit (`en`, `busy`, the data register `dout`, the error of the health
test), for each reader its place in the loop over blocks and what it has. A block is known
by where it stands: the register is "clear", holds a block that is "fresh" since the last
trigger, or an "old" one, which was read or whose reader gave up. `Finish` is the unit;
when it is not healthy it may never answer, and readers give up (`TooLate`).

`bl616cl_rng_cleanup` clears the register (76 to 82) before it switches the unit off (84 to 86),
so it is two steps here (`Clears`, `Stops`; `InitializeClears`, `InitializeStops` at the first
registration). Behind a read that timed out the unit may still be busy and finish between
the two, or after the second: its block then stays in the register while nobody reads. A
unit that finishes after it was switched off may leave its block or not (`Finish`). `late` says
that the unit was left busy and nobody has seen it idle since. `BlocksOnce` is what remains
true: such a block is never handed out, because the next reader waits for the unit and
triggers it again before it takes anything (`Trigger` makes what is there "old"), and a block
stays in the register only while `late` holds. The second half of the module is the option "all" of the
test program, with its workers.

### Oneshot (`bl616cl_oneshot.c`)

State: `running`, TIMER1 (`counting`, `count`, `compare`, `status`, `masked`, `irqEnabled`), `mtime`
and, for the property, when the callback is `due`. `Start`, `StartAbsolute`, `Cancel` and
`Handler` are the functions; up to `Lag` ticks pass inside an operation, so that
`ReadMtime` is a reading of two halves of a clock that counts. A callback that
restarts the timer runs after the handler has stopped it: it is a `Start` after `Handler`.

### Watchdog and ResetReason (`bl616cl_wdt.c`, `bl616cl_systemreset.c`, `bl616cl_reset.c`)

`Watchdog` has the driver's fields, the registers, what WVR may `show` for a while after the
counter was reset, and the ages of the last reset of the counter (`age`) and of `lastreset`
(`since`). Its actions are the operations, the interrupt handler (`Handle`) and `HwTick`.
What the counter does behind the compare value in interrupt mode is left open: it
goes on, or starts again. `ResetReason` extends it with the words that outlive a reset and
the boot: `AskReset` is `board_reset`, after which `up_systemreset` waits while the
watchdog still counts, `SystemReset` its end, `Bite` the watchdog's reset, `Boot`
`bl616cl_reset_reason_initialize`. A reset puts memory and registers back, which is what
`bl616cl_wdt_initialize` makes sure of. Not modelled: the second watchdog in the HBN domain,
which the port does not use.

### WatchdogTests (`wdt_case_main.c`)

The cases of the watchdog's test program, across the resets they provoke: the script goes
on behind a boot, as the program's instructions ask of the person who runs it. The
test is prompt: at most one tick passes between two sleeps, and an interrupt is
served before the next tick. `Timeouts` are those that `main` accepts and that outlast a nap.

### Pwm (`bl616cl_pwm.c`)

`Solve` is the search of `bl616cl_pwm_solve`, a recursive function over dividers with the
three candidates for each, the comparison of errors as quotient and remainder, and the
early end; `Threshold` is the duty. The calls `Setup`, `Shutdown`, `Start`, `Stop` are
serialised by the upper half; a start has the outcomes refused, no clock, granted (live
update or full configuration) and failed (any timeout or readback).

## 5. The runs

Modules that share no state are checked in one run where that saves nothing but the
start: the initial state chooses which user (`user`, `bus`) a behaviour is about, and
the parts that are not used stay as they are. `MCBuses` holds SPI, I2C, their test programs and
the PWM channel, `MCDevices` TIMER0, pins and random numbers, `MCSystem` the alarm,
interrupts, oneshot and caches, `MCUart` the port and its test program.

| Run | Instance | Shows |
|---|---|---|
| `dma_lease` | product build, 2 channels behind one interrupt, one thread, widths 1 and 2, requests of 1, 2, 4 bytes | `CompleteMeansMoved`, `ResidualCovers`: what a completion and a residue say of the bytes |
| `dma_fair` | 1 channel, 2 threads, test build, fairness | `ChannelToken`, `DrainHandshake`: exactly one token for a channel and one post for a waiting put; `DrainedBeforeReuse`: nothing of a lease is left when the channel is free; `HardwareOwned`: registers are active only for a running request; `CallsEnd`: a put returns and a request ends; `ImplementsLease`: the adapter implements `DmaLease` with its liveness |
| `dma_errno` (violated) | product build | a start that is refused because the channel runs can return -EINVAL |
| `dma_concurrent_put` (violated) | 3 threads, concurrent puts | the second of two concurrent puts takes the channel from its next owner |
| `gpio_disable` (violated) | 2 pins, 2 slots, 2 threads | disabling a pin's interrupt leaves it armed |
| `buses` | SPI: 2 clients, 2 devices and an unknown one, 2 items of 2 values, 3 references; I2C: chains of up to 3 of 7 messages; both test programs; PWM: source 61, dividers to 9, periods to 11, every frequency, 3 duties | `BusUp`, `ConfigAsAsked`, `SelectedTalks`: data moves only with the settings and to the device the client asked for, on a bus that is up while referenced; `GroupsAreWhole`: an I2C group goes out whole, as validated; `TestsPass`; `OutputAsAsked`: the registers are the best pair for the frequency that was granted, the duty is within half a step, clock, pin and channel are held exactly while the output runs |
| `spi_after_fake` (violated) | the SPI test program, two command lines | a command on the controller behind a case on the test's transport moves its words with other settings |
| `reset` | 5 ticks in 4 ms, a 3-bit counter, every timeout, 2 handlers, all kinds of resets; or the cases of the test program | `FedDogSleeps`, `UnfedDogActs`: the watchdog acts neither early nor never; `ReasonIsTrue`: the reported reason is why the chip was reset; `StatusesTrue`: a status is right about a dog that has time; `TestPasses` |
| `wdt_all` (violated) | the option `all` of the watchdog's test program | WDT-003 fails behind WDT-004 |
| `uart` | buffers of 2, FIFOs of 1 and 2 bytes, 2 users, 8 rates; or the test program with 3 threads | `PortOK`: the registers are what is kept, with a divisor that is right to the rounding, one thread writes at a time, and who sleeps for room or for the end of a close has the interrupt that moves the bytes; `TestPasses`; `CallersReturn`: whoever writes or closes comes back; `BytesArrive`: what arrives is handed on; `ImplementsStream`: the port, and the port under its test program, implement `ByteStream` |
| `devices` | TIMER0: words of 3 bits, 2 dividers, 2 calls per callback; pin interrupts: 2 pins, 2 slots, 2 threads; pins: 5 pins, 2 of them joined, 2 keys, every pair of the short cases and three longer runs; RNG: 2 readers, reads of less than a block and of two, and the test program, on units that answer or not | `RunningAsSet`, `CallbackHasLastWord`, `MatchAnswered`: the interrupt is open exactly while a callback is set and the timer runs, registers are what the driver believes, the callback's own changes win, a match is answered; `PinsOK`: the line is handed over, a pin with a client is armed, no callback is NULL; `NoEventDropped`, `EventServed`: no event is lost and every event of an attached pin is served; `BlocksOnce`, `RandomReadsReturn`; `TestsPass`: the test programs, reads of pins return what was written, and no armed pin without a callback has an edge (`NoStorm`) |
| `system` | RTC: a 64-value counter, 5/3 Hz, latencies 0 and 7; 2 interrupts, one an edge with a bit in `mie`; TIMER1: halves of 2 bits, delays to 5, mtime to 9, a lag of 1; caches: seven lines of 3 bytes, `INT32_MAX` of 7, 8 ranges, and the test program | `AlarmOnTime`: an alarm is neither early nor lost, and not before the system clock was synchronised; `FiresOnTime`: a oneshot is neither early nor noticeably late; `EdgesKept`, `OwnHandler`; `ProcessorSees`, `OthersSee`: what processor, devices and code see; `TestsPass` |

Bounds. Two threads on one channel let two puts of one handle meet, three (in
`dma_concurrent_put`) let them race a thread that waits for the channel, and the theorems about
the same invariants are for any number; two channels are the least with which one snapshot
serves two. The timer's words of 3 bits let the counter pass the compare value and
wrap; two calls of a callback reach stop followed by start. The RTC's counter starts six
ticks before it wraps, latency 7 exceeds the guard of 2, so that all attempts of
the programming loop are needed, also the last, which is not checked; `Horizon`
stops the counter after 12 ticks, about twice the alarm at three seconds. Two slots and two
pins let a detach and an attach meet in a slot while the worker holds its index. In SPI two
items let one be in error while the other is set, and three references reach the limit. In
PWM the product of the largest divider and period exceeds the source, as on the chip; duties
6 and 7 of 8 round up to and reach the period. The oneshot's horizon lets the low half
of mtime wrap twice, delays reach past the longest. In I2C the 7 messages hold the pairs that
differ only in the frequency or only in the device and a prefix that is too long; three
messages let a prefix stand first, in the middle or last; the EEPROM of the test has pages of
2 bytes, and what is written ends or begins inside of one. The watchdog's ages are told
apart up to 9 ticks, two more than the largest compare value. A UART write of one byte more
than the buffer blocks; in the transfers all bytes are equal, in the test program they differ,
and in the theorem they are any; the lengths of the test program are below, at and above the FIFO and
the buffer, as the program's are. The 3-byte lines let a range begin and end inside of a line,
and the largest size of 7 bytes makes a range of three lines two pieces; the top of the
address space is inside of a line, so that aligning up wraps.

Symmetry is used in `buses` (clients, items, devices, pins) only, where no liveness is checked. Deadlock is not checked where the system really stops: where a
test program or a bounded clock comes to its end (`buses`, `devices`, `system`, `uart`,
`spi_after_fake`).

Fairness. `DmaChannel`: strong fairness for each step of a thread in a call, because it is
disabled again and again while the interrupt is handled and the scheduler still gives a
ready thread the processor afterwards; strong fairness for a context's steps in the
interrupt routine and in callbacks (a callback makes finitely many calls); weak
fairness for the interrupt (it is masked only inside regions) and for the controller
(an enabled channel moves or fails). Nothing forces a client to call, or a held
start to be released. `Timer`: weak fairness of the handler's two halves. `GpioInterrupt`:
weak fairness of the interrupt and of the worker, which nothing preempts but
interrupts. `Rng`: weak fairness of a reader's steps, strong fairness of taking the mutex and
of finding that the time is up (others have the processor and the mutex in between); the
unit is fair only when it is healthy. `Uart`: strong fairness of each thread that is in the
port, for the same reason as in the DMA adapter, weak fairness of the interrupt, of the shift
register and of the receiver's timeout. `ResetReason`: weak
fairness of time, of the watchdog's handler while the system is up, of a boot and of the end of
a reset. `RtcAlarm`, `SpiBus`, `I2cBus`, `Oneshot`, `Pwm`, `Irq`, `Cache`: safety only.

Assumptions worth knowing.

* `GpioInterrupt` runs with `Preemptive = FALSE`: threads that attach and detach run below
  the priority of the work queue. The worker tests `cbfunc` and calls it later without a
  lock; with `Preemptive = TRUE` it may call NULL. `SharePins = FALSE`: a pin is attached once.
* `CrossChannel = FALSE` in `DmaChannel`: callbacks stop and start their own channel only.
* Who hands a buffer to a device in `Cache` does what the DMA test does (`dma_test_main.c`, 358
  to 371): clean what the device reads, invalidate what it writes before and behind the
  transfer.
* `NoStorm` of `GpioPins`, part of `TestsPass`, holds for the test program with a person who
  presses keys when prompted. An INTCFG arms a pin before a callback is attached, and the
  worker clears no status of a pin without a slot: a client whose pin changes between
  the two calls makes interrupt and worker alternate for ever.
* The upper halves of the operating system are modelled from how the port uses them: a
  timer's upper half serialises the threads, the serial upper half has one writer
  at a time, the automonitor feeds the dog.
* Allocation and thread creation in the test programs do not fail.
* `RtcConstantsOK`: `MinTicks <= Guard` and `8 * Guard < Modulus`, as on the chip (the last
  window of the programming loop is eight guards and the counter has 48 bits); an access
  to the HBN registers takes less than that window; the clock is watched for less than
  a turn of the counter (`RtcHorizon`), for 48 bits at 32 kHz some 270 years.
* `PwmConstantsOK`: periods longer than two steps exist, and the longest is at most twice the
  number of steps of a duty (both fields have 16 bits on the chip).

## 6. What the violated runs found

* `dma_errno`: `bl616cl_dma_start` decides under the lock and reads the state again after
  the unlock to choose between -EBUSY and -EINVAL; when the running request ends in
  between, the caller is told -EINVAL where the DMA test's README expects -EBUSY.
* `dma_concurrent_put`: a repeated put is recognised only while the channel is free or
  being released. When a waiting get takes the channel first, the second put revokes it from
  its new owner; the design document says concurrent puts post once. The
  theorem `OwnerCorrect` shows that one put per get is enough to exclude it.
* `gpio_disable`: `IOEXPANDER_VAL_DISABLE` masks the pin and then falls into the common
  unmask.
* `wdt_all`: `getstatus` falls back on the software's own time only when WVR shows at least the
  compare value. A stale count below it is taken for the new one, so that under `all` the
  time left does not drop within 20 ms in WDT-003, which runs behind WDT-004.
* `spi_after_fake`: installing or removing the test's transport leaves the driver's copy of the
  configuration as the other transport had it. A setting that equals the copy is not
  written, so a `hw` command behind a case on the test's transport can run with the settings
  from before, and says PASS.

Recorded without a run, because nothing in the repository promises otherwise:

* `fake lifecycle`, and with it `fake all`, expect mode 0 and 8 bits of a bus that was not
  set; a second time on the bus that the board registered, or behind a `hw` command
  with other settings, they fail. `fake config` fails behind `hw ... --lsb`. The sessions of
  the run `buses` leave these orders out.
* With `CrossChannel`, TLC shows the early completion that section 4 describes. The hazard at
  `bl616cl_dma.c`, 294 has no property for that reason.
* A random number read that times out may leave a block in the register of the unit after the
  mutex is free (`bl616cl_rng.c`, 76 to 86): the register is cleared before the unit is
  switched off. No reader gets that block (`BlocksOnce`), but it stays there until the next read.
* A timer callback that asks for an interval that the counter has already passed waits for
  the counter to wrap (hazard at `bl616cl_tim.c`, 212): how long callbacks take
  is not bounded anywhere.

## 7. What is proved

All theorems hold for every value of the constants, from the assumptions that the modules
name. The run shows the same property on its instance first.

**DMA** (`DmaChannel_proofs`).

* `TypeCorrect`, `CallbackCorrect`, `TokenCorrect`, `DrainCorrect`, `HardwareCorrect`,
  `ReuseCorrect`: types, one callback at a time, and the four invariants of
  `dma_fair`, for any number of threads;
* `OwnerCorrect`: a client keeps its channel until it puts it, if no handle is put by two
  threads (`~ConcurrentPut`);
* `ResidueCorrect`: a residue covers what has not moved, whoever stops, fails or injects;
* `CompletionCorrect`: a completion means that every unit has moved, for the product
  build (`~TestBuild`, `~CrossChannel`: a test injects completions, and a
  callback that restarts other channels gets them early, see section 4);
* `LeaseImplemented`: the safety part of the refinement of `DmaLease`.

The base is types, `ConfiguredWidth` (a configured channel has a width,
since the division in start needs one) and `OneCallback`; it is inductive by itself. The
token and the handshake are not properties of the state of the channel alone:
`ChannelToken` counts the token in `avail`, in the gets between their wait and their
region and in the puts between their region and their post; `DrainHandshake` ties
`done`, the state RELEASING, `inflight` and the put that waits. `Inv` is their conjunction
with the base. `HardwareOwned` and the absence of an old callback follow with `Inv` as
hypothesis, and give the mapping of each action to a step of `DmaLease` or a stutter.
`Covered`: while a request runs, was stopped or failed, the bytes left in the controller are at
most the residue, and the residue at most the request, through the division by the width.
`Moved`: where nobody injects a status, one that is pending, or that the handler has read for
a request that still runs, was given with the last unit; nobody calls the driver for
a channel whose bit the handler has still to look at.

**SPI** (`Buses_proofs`). `TypeCorrect`, `ReferencedIsUp`, `ErrorsRemembered`, `MovesAsAsked`,
`MovesToSelected`: the types, the three properties of the run about SPI, and that an
item in error is remembered in `last_error`. The count of references is no
invariant by itself: `Counted` says that it is the cardinality of the set of references
that clients have, so that a client with one keeps the bus up against every uninitialize
of others. On a bus that is up, `CopyProgrammed` ties the copy to the registers,
`AsAsked` the registers to what the holder of the lock asked for, `OneSelect` the chip selects
to the device it selected; `Turn` makes them hold again when the lock changes hands.
`RoutedAsAsked` is about the pins: those that are accepted carry MISO and MOSI as they were
configured, whatever the swaps of their groups were before.

**PWM** (`Buses_proofs`). `OutputCorrect`: `OutputAsAsked` is inductive as it stands. What it
rests on is arithmetic: `ThresholdAsAsked` for the rounding of a duty, and `SolutionIsBest` for
the search: no divider and period come closer to the frequency than what is found,
though three periods are tried for each divider and the search stops at the first divider
that leaves too short a period. `Best` is the invariant of the loop: after a
divider, everything that it and smaller ones make is beaten (`Closer`, an order on products,
which `ErrorLessIs` shows the comparison by quotient and remainder to decide), or, while
even the longest period is too short for it, nothing has been found. `NearestIsTried`
finds one of the three candidates between any other period and the target, `FirstInReach`
does so across dividers, `StopIsHarmless` for those behind the early end. The loop is a
recursive function; that it exists (`SearchExists`) and keeps its invariant is shown by
`SetInduction`, the induction over a set of numbers that the theorem of the library about
well-founded relations gives.

**I2C** (`I2cBus_proofs`). `TypeCorrect` and `GroupsCorrect`: a group that goes out was accepted by the
validation and lies within its chain, on a bus that is clocked and routed. `Walk` is the
validation as a function over positions (`SetInduction` again); `Walking` says that the position
of a transfer is one at which the walk found the rest of the chain valid, `ForGroup` that the
controller has the frequency of the group's first message, and `UsersCounted` counts references
as in SPI.

**Timer** (`Devices_proofs`). `TimerRunsAsSet` is the invariant `RunningAsSet`; `CallbacksHaveLastWord`
needs `Moved`: while the callback runs, the generation has moved once for every operation of
the callback but those that leave a stopped timer stopped. There are more generations than
calls of one callback, so that the handler cannot mistake a changed generation for its own.

**Pin interrupts** (`Devices_proofs`). `LineIsHandedOver` holds always; `EventsAreKept` (no event is
dropped) always, because it only follows one step; `AttachedPinsAreArmed` with
`~SharePins`, from `OneDetacher` (a slot is detached by one thread) and `OneSlot` (a pin has one
slot); `PinsCorrect`, all of `PinsOK`, with `~SharePins` and `~Preemptive`.

**Levels of the pins** (`Devices_proofs`). `WrittenIsRead`: the clients of `ClientSpec`, over any pins
and wires, read back what they wrote (`ReadsOwn`, a part of `TestsPass`). `Latched` says that the
output register holds what was asked of a pin last, as its polarity turns it, and that a
pin that takes a write drives. A change of the polarity does not touch the register, which is why
it ends what the model remembers of the last write (`asked`).

**Random numbers** (`Devices_proofs`). `BlocksAreHandedOutOnce`, for readers and for the test
program, whatever its workers: `OneReader` says that only the holder of the mutex is inside
the unit and has a block only from reading it to copying it; `Unknown` that nobody reads before
the first registration has switched the unit off; `UnitFollows` what the unit may be doing at
each place of its holder. Two of its facts carry the half about what is left behind: a unit that is
busy when no reader waits for it was left busy (`Accounted`), and so was one that holds a
block behind the clearing (`Kept`); both hold for units that answer late or never.
`ReadsAreBounded`: no read returns more than it was asked for. `RandomTestPasses`: the
test program passes with any workers, ids and block sizes (the run has two workers), on a unit that
answers before a reader gives up and whose health test finds nothing (`RngTestSpec`). Its
invariant says that the script of a worker is a sequence of calls with whole answers (`Whole`), by the
functions that build it (`ScriptsBegin`, `EachIsCalls`).

**Interrupts** (`System_proofs`). `EdgesAreKept`: what is owed is pending, because the dispatcher
acknowledges before it calls. `OwnHandlerRuns`: for each interrupt, `Good` says at each place
of its owner's call what the two words of the table hold, that it is enabled only
with a call that is attached, and what the vector is; the step of one owner leaves the rows
of others alone.

**Oneshot** (`System_proofs`). `OneshotFiresOnTime`: `FiresOnTime` with types is inductive. The work is
in the two reads of the high half of mtime around the low one (a reading lies between the
begin and the end of the call) and in the delays at the limits of the hardware.

**RTC** (`System_proofs`). `AlarmIsOnTime`, the whole of `AlarmOnTime`. `RtcInv` adds to the types that
the counter has moved no further from its base than time has passed, and `Kept`: an active
alarm is ready, still to come on the clock that is set or waits for the system clock; when
its interrupt is not pending it is armed; and `Meets`: the ticks that have passed and those
left until the comparator matches reach the alarm, and exceed it by less than the last window
of the programming loop. All distances are modulo the counter (`Place`, `Ticks`), which is why the
windows must be small against it. It needs `RtcConstantsOK`, with a bound for the latency of
an access.

**UART** (`Uart_proofs`). `PortCorrect` is the run's `PortOK`. Configuration: `Settled` says that
what is kept is a complete configuration, `Programmed` that a port that is on has an accepted
rate and, unless a rollback failed, registers equal to what is kept, `Opened` that a port that is
open or closing is on. `DivisorIsNear` is the arithmetic of the rounding. Nobody stranded: `Turn` says
that the lock of the transmit buffer is the writer's and that a port with a writer is open,
`Served` that only who sleeps waits for room, with bytes in the buffer, and that bytes which no writer
owns any more (`Left`) find the interrupt unmasked. That `uart_xmitchars` leaves the interrupt
unmasked exactly for what it leaves in the buffer (`XmitcharsDoes`) is what the rest hangs on. It
needs buffers and FIFOs of at least one byte (`SizeAssumption`). The waiting itself ends by
fairness, which `CallersReturn` shows on the instance.

`StreamImplemented` is the refinement of `ByteStream`, for any data, threads and sizes. Its
lemmas are one per step that maps to something: `StreamSends`, `StreamFlushes`, `StreamMoves`,
`StreamArrives`, `StreamPassed`, `StreamOpens`; all else stutters. They rest on what sequences do
when bytes move from one to the next: `FrontMoves` (a part that goes from the front of the buffer to
the end of the FIFO leaves the two together as they were, whence the interrupt, and the
unmasking in the middle of a write, cannot be seen), `AppendRight`, `FirstOfBoth`, `FirstPart`,
`LastPart`. That bytes come from the writer who has the lock is `Turn` again.

**Caches** (`Cache_proofs`). `ProcessorIsServed`, `DevicesAreServed`, `CodeIsExecuted`, `OthersAreServed`,
from `ConstantsOK` (the memory does not reach the last line of the address space).
`InStep`: a byte that nobody else writes has its latest value in the data cache if its line
is there, and in memory if its line is not dirty. The heart is
`InsideRange`: after alignment and cutting, a line that an invalidation drops without
cleaning it lies inside of the range that it was asked to drop. `CodeIsExecuted` is about
behaviours in which no buffers are lent to devices meanwhile (`CodingSpec`);
`OthersAreServed` is the run's `OthersSee`, of which the part about code needs the same.

**Watchdog and resets** (`ResetReason_proofs`). `ReasonCorrect`: `Told` says in each phase what
the saved word and the sticky status tell of the cause. `DogIsPatient`: `Dog` bounds the counter
by the age of its last reset; that conversions round up gives the whole timeout.
`StatusCorrect`: with `Stamped` (the software's time stamp is as old as the counter) no status says
that less time is left than is, nor more than the timeout, whatever WVR still shows of an
earlier count. The timeout and the counter are tied by `AgeAssumption`.

Only model-checked:

* liveness (`CallsEnd`, the liveness of `DmaLease`, `MatchAnswered`, `EventServed`,
  `RandomReadsReturn`, `CallersReturn`, `BytesArrive`, `UnfedDogActs`), which is out of the prover's
  reach;
* the test programs (`TestsPass`, `TestPasses`) other than the generator's: a case is a particular
  script, and what it shows of a driver is proved as the driver's own properties;
* `NoStorm` and `Tidy` of the pins, whose clients are test programs;
* `EepromTold` of `I2cTests` and `SpiTestTold` of `SpiTests`, what the test programs say of a device.

## 8. What is not modelled

* The security engine's three mutexes: a take and a give each, no other state.
* Board bring-up, a straight line of initialisations that stops at the first error, and the
  board's tables of pins and devices, which the compiler checks.
* Start-up code, clocks, flash and heap: it runs once, in one order, before anything
  else, with interrupts off. What it does to the caches is in `Cache`.
* The test programs of the timer, the RTC, the PWM, the DMA and the OS features other than
  the caches: they were read as the reference for what clients do. Cases on two ports
  (`dual` of SPI and I2C), which share no state, and calls with ports that do not exist.
* Addresses of DMA buffers and the cache maintenance that DMA clients do on them (`Cache` has
  the operations and what they guarantee); register layouts; logging.
* Calendar conversions of the RTC; `SET_TIME` with invalid dates returns before any change.
* The second watchdog in the HBN domain, which the port does not use; the radio resets
  inside `up_systemreset`.
* The upper halves of the RTOS, the chip's register library below the adapters, build scripts,
  flash tools and porting documents.
