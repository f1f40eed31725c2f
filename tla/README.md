# A TLA+ model of Fused

Fused is a full-system simulator (SystemC) of energy-driven computers: a
microcontroller (Cortex-M0 or MSP430FR5xx) with its memories and peripherals,
the supply circuit whose voltage switches it on and off, and the devices on its
buses. What it promises is that software behaves in the simulator as it would
on the hardware, across interrupts, sleep and power failures. This directory
holds TLA+ modules of its parts, the TLC configurations that check them on small
instances, and proofs that TLAPS checks for all instances. Paths below are
relative to `src/`.

## 1. Inventory

One simulation is one SystemC kernel. Its processes (methods and threads) run
one at a time; a signal written in one evaluation phase changes in the next
delta cycle; a thread keeps the processor until it waits. All the concurrency
of the simulator is of this kind, except for the debug server's thread.

| component (source) | state | operations | talks to |
|---|---|---|---|
| Cortex-M0 CPU (`mcu/cortex-m0/CortexM0Cpu.cpp`, `decode.c`, `exmemwb*.c`) | registers, ipsr, pipeline queue and bubbles, sleeping, run/step/breakpoints | main loop, exception entry and return, reset, WFI | NVIC, SysTick and DMA by signals, memory by blocking bus calls |
| NVIC (`mcu/cortex-m0/Nvic.cpp`) | enable, pending and priority registers, previous irq and active exception | `process`, `reset`, register accesses | irq lines in, `nvic_pending` out, active/returning exception in |
| SysTick (`mcu/cortex-m0/SysTick.cpp`) | CSR, RVR, CVR, queued expiry, `m_setIrq` | `process`, `irqControl`, `reset`, accesses | tick line to the CPU, returning exception in |
| GPIO (`mcu/cortex-m0/Gpio.cpp`) | pin state, IE, IFG, `m_setIrq` | `process`, `irqControl`, `reset`, accesses | pins, an NVIC line, active exception in |
| Cortex-M0 DMA (`mcu/cortex-m0/Dma.cpp`) | registers; per channel: configuration, addresses, size, flag; the transfer under way | channel threads, transfer thread, trigger multiplexers, flag update, interrupt control, reset, accesses | bus (as initiator), `busStall` to the CPU, NVIC line |
| SPI (`mcu/cortex-m0/Spi.cpp`) | registers, two 4-byte FIFOs, enable | transfer thread, interrupt control, reset, accesses | SPI devices by blocking calls, NVIC line |
| Cache (`mcu/Cache.cpp`, `CacheReplacementPolicies.hpp`) | lines, replacement policy | accesses, debug accesses, reset | bus, non-volatile memory |
| Memories, bus, register file (`mcu/GenericMemory.cpp`, `Bus.cpp`, `RegisterFile.cpp`, ...) | bytes, registers, routing table | transactions | everything |
| MSP430 CPU (`mcu/msp430fr5xx/Msp430Cpu.cpp`) | registers (PC, SP, SR), the state the power model sees | main loop, interrupt acceptance, RETI, reset | arbiter by `irq`, `irqIdx`, `ira`; memory by blocking bus calls |
| MSP430 interrupt arbiter (`mcu/msp430fr5xx/InterruptArbiter.hpp`) | its output signals | `process` | irq/ira lines of the sources, the CPU |
| MSP430 power management (`mcu/msp430fr5xx/PowerManagementModule.cpp`) | `m_isOn`, registers without effect | its thread: thresholds, boot current trace, reset interrupt | supply in, `pwrGood` out, interrupt line 0 |
| MSP430 Timer_A (`mcu/msp430fr5xx/TimerA.cpp`) | registers, direction of counting | `process`, `reset`, accesses | irq/ira line 10, DMA trigger |
| MSP430 ports (`mcu/msp430fr5xx/DigitalIo.cpp`) | registers, last state of the pins | `process`, `reset`, accesses | pins, irq line without `ira` |
| other MSP430 peripherals (DMA, ADC12, eUSCI_B, clocks, MPY32, FRAM controller) | registers, counters | clocked methods and threads | irq/ira lines, DMA triggers |
| Power model (`ps/PowerModelChannel.cpp`, events, states) | event counts, current state of each module, log | registration, report, pop, log, dump | everything that consumes energy |
| Power bridge (`ps/PowerModelBridge.hpp`) | time and counts of the last read | one method, at every change of vcc | channel, supply circuit |
| Supply circuit (`ps/ExternalCircuitry.hpp`) | capacitor voltage, on/off | analogue steps | vcc out, current and keep-alive in |
| Accelerometer and other SPI devices (`sd/`) | shift registers, registers, FIFO, measurement state, interrupt | transactions, measurement thread, reset | SPI, chip select and interrupt pins |
| Boards (`boards/`) | reset line | reset controller, pin wiring | everything above |
| Simulation control (`utilities/SimulationController.*`) | stop flags | run, stall, step, breakpoints, from another thread | CPU |

What is hard, and what makes each part correct:

* *Interrupt handshakes across delta cycles.* A request passes through a flag, a
  zero-time event, a signal, the pending register, another signal and the CPU,
  and is withdrawn by signals coming back. Correct means: nothing requested is
  lost, nothing is served that was not requested, no output is stale.
* *Power failures.* The reset line may change in any state. Some processes see
  it at once (methods), others only when they next look (threads waiting for a
  bus access), and some state is never reset. Correct means: no request, job or
  byte of memory is half lost, and what survives is what the code says survives.
* *Shared buses.* The DMA takes the bus from the CPU. Correct means: the
  elements go where the job said, and the CPU gets the bus back.
* *Interrupts that are acknowledged by index.* The MSP430's CPU takes a vector
  by the index it reads, and the arbiter acknowledges by the index it drives.
  Correct means: both mean the same source, and no other source is affected.
* *Devices behind a serial bus.* A response is prepared a transaction ahead by a
  device that measures on its own time. Correct means: data arrive in order and
  once, and interrupts on both sides are neither lost nor idle.
* *The energy loop.* What software does decides what current is drawn, which
  decides whether software runs. Correct means: each event is charged and logged
  once, and a node starts only from a charged capacitor.
* *A cache in front of a memory that outlives the power.* Correct means: every
  read returns the last write; after an outage memory is an earlier version of
  each line, never a mixture.

`PROJECT.json` lists every hazard at its line, with the property that covers it
or the reason why none does yet.

## 2. What is modelled

Every module is a translation of the handlers of one component; a composition
adds the scheduler, the software and the environment. Sections of `map` in
`PROJECT.json` give the lines of each definition. Three principles hold
throughout:

* *A thread's state is where it waits.* Code between two waits is one action,
  because the SystemC kernel never interrupts it. Everything else may happen
  during the wait, which is where the races are.
* *Delta cycles are kept, time is abstract.* `sig` and `nxt` (or `run` and
  `soon`) distinguish what has been written from what can be read. When the
  delta cycles of an instant are over, any subset of what is due happens at the
  next instant (`TimePasses`), so all relative speeds of the parts are covered.
  The DMA controller and the power loop count time, because their code does.
* *Data only as far as the properties look.* Registers are sets of lines or
  pins, bytes are numbered, instructions are what they do to the state at hand.

History variables (`requested`, `ticked`, `owed`, `tickOwed`, `job`, `due` and
`acked` in the Cortex-M0 and DMA models, `requested`, `expiryOwed`, `edgeOwed`
and `booted` in the MSP430 model, `handed`, `inOrder`, `lost`, `rxOwed` in the
sensor node) are read by properties only, never by a guard.

### The interrupt path of the Cortex-M0

`Cm0Kernel` holds the signals of `Cm0Microcontroller.cpp` (`sig`: what every
process reads, `nxt`: what has been written), the runnable processes `run`, the
events of the next delta cycle `delta`, and the SystemC scheduler as far as the
components use it. `Nvic`, `SysTick`, `Gpio` and `CortexM0Cpu` are the
components: one action per process, handler or register write, with the whole
handler in the action. `Cm0System` composes them with the software (which
executes any instruction that matters: plain, branch, store to a peripheral,
WFI, exception return), the pins, the timer and the supply. The CPU waits
(`phase`) in a fetch, a store, the stacking of an exception entry, the
unstacking of a return, sleep, or for power; `NextTurn` is the code between two
waits.

### The interrupt path of the MSP430

`Msp430Kernel` has the same scheduler for the signals of
`Msp430Microcontroller.cpp`. The components are `InterruptArbiter` (no state of
its own), `PowerManagementModule` (its thread: watching the supply, or replaying
the boot trace and deaf to it), `TimerA` (three counting modes, flag,
acknowledgement), `DigitalIo` (edges of pins, no acknowledgement) and
`Msp430Cpu` (sleep, fetch, store, stacking, the two periods with `ira` up, the
read of the vector, RETI, waiting for power). `Msp430System` composes them with
a program that writes any register and nests handlers up to `MaxNesting`, with
the pins and a supply that moves between the three regions its thresholds
distinguish. Two delays of the code are respected in `TimePasses`: a register
hears of a store at the instant the access ends (`written`, `Hears`), and the
boot trace is longer than an instruction (`Due`), so that the CPU has found the
power off before it comes on again.

### The sensor node

`SensorKernel` has the bytes on the bus and the delta cycles of the board
(methods of a phase before threads, as the SystemC kernel runs them). `Spi` is
the master: its thread (`SpiWake`, `SpiReceive`, around `Transmit`), FIFOs as
sequences, the interrupt line through `m_setIrq` and `irqControl`, reset and
register accesses. `Accelerometer` is the slave on top of `SpiDevice`: shift
registers, `spiInterface()` at the end of a transaction and at deselection, the
measurement loop with its waits, and the FIFO that drops its oldest frames.
`SensorNode` connects them as the board does, with the line's bit in the NVIC
(module `Nvic` has the whole of it), the CPU's handler, the reset line, and a
program that keeps the protocol of `Accelerometer.hpp`: it deselects only while
the bus is idle, and starts each exchange with an address. A byte of the FIFO
carries its number, so order and repetition can be told.

### The power loop

`PowerModelChannel` has registration, reports, the pop of the counts and the
log with its file; `EventLedger` is the abstract specification: an event is
charged for at most once and counted in the row that is open when it is
reported, and rows never change afterwards. `SupplyCircuit` has the capacitor
and the voltage detector with hysteresis and the keep-alive input.
`PowerSystem` closes the loop as `boards/Cm0SensorNode` does: the bridge turns
counts into a current at every change of vcc, the capacitor discharges, the
reset controller starts and stops the node. Voltages are small integers, the
harvest is a nondeterministic amount out of `Harvest`, the energy of events is
any current up to `MaxDynamic`.

### The DMA controller of the Cortex-M0

`Dma` has the same scheduler and the two kinds of threads: `DmaChannel::process`
per channel (at the trigger, at the accept signal, or in the two-cycle pause of
a burst) and `Dma::process` (idle, synchronizing, reading, writing). Time counts
clock cycles here, because the pause of a burst and the memory accesses race by
cycles. The software programs channels, triggers, disables and acknowledges
them while they run; it programs a channel's configuration only while it is
disabled. An address counts elements.

`DmaCopy` adds the memory: `Dma::process` takes an element out of it when its read
begins and puts it back when its write begins (`Transfer`), and the CPU stores to
the same cells whenever it has the bus (`CpuStore`). `BlockCopy` is the abstract
specification, with neither signals nor threads nor time: a block is started by a
trigger, moves one element at a time, in order and each at one instant, and is
reported when all of it was moved. It also says what a power failure does to a
block (at most one more element, and a report although the block is not whole) and
what the software can do to it between two triggers (halt, resume, forget).
`Blocks` is the refinement mapping: what is left of a block and where the next
element comes from follow from the members of the channel and from the element
under way, which counts before the thread of the channel has seen it accepted.

### The cache

`CacheReplacementPolicies` has LRU, LFU, round robin and pseudo-random as
operators on one record; `Cache` the accesses under the three write policies,
reset and debugger accesses, one action each, as `b_transport()` never waits.
`PersistentMemory` is the abstract specification: what a processor on an
intermittent supply may rely on. `Cache` implements it under a refinement
mapping (`Persistent`: the view through the cache, and what memory holds).
`CacheLru` adds a record of use to compare victims with the least recently used
line. `CacheAddress` has the split of an address into tag, set and offset, which
`Cache` takes as given, as arithmetic on line numbers; `CacheMasks` has the masks
and shifts of the constructor, and compares the two. Both are checked for
every address of the lines the cache holds.

## 3. Runs

The properties are defined, with the code they are about, at the end of each
module.

| run | shows | bounds |
|---|---|---|
| `cm0_entries` | within one power cycle the CPU takes an exception only if it was requested since it was last taken; every enabled edge is served | 2 lines, 2 priorities, 1 pin, 2 edges, 1 tick, 3 stores |
| `cm0_power_cycles` | the supply may go on, off and on at any instant: no edge and no tick is lost while power lasts, the NVIC output is never stale, the CPU takes the most urgent line, the core does not sleep over an exception | as above, 2 ticks, 3 changes of supply |
| `msp430_interrupts` | the source told of an acknowledgement is the one whose vector is taken, no expiry of the timer is lost or taken twice, nothing runs before the reset vector | all three counting modes up to 2, 1 pin, 1 edge, 2 stores, 3 changes of supply, no nested handler |
| `msp430_power` | an enabled edge is served, power-up ends in the reset handler unless a line outranks it, a supply that failed during the boot trace is noticed | up mode, 1 pin, 1 edge, 1 store, 3 changes of supply |
| `msp430_boot` (violation) | a line that outlives a power failure keeps the reset from the CPU for ever | as above, no edge |
| `sensor_node` | samples arrive in order and once, the device's interrupt means data, no byte's interrupt is lost, a byte to send wakes the SPI | FIFO of 4 bytes, 2 frames, 3 bytes sent, 2 writes of the configuration, 1 change of reset |
| `power_model` | the channel implements the ledger, the bridge never divides by zero, a node starts from a charged capacitor | 2 events, 2 states, 12 steps of the supply, 2 reports, a row every 2 steps, a dump above 1 row |
| `dma_transfers` | elements in place, whole blocks, completions reported, bus released | 2 channels, all modes, 4 register accesses, 1 hardware trigger, 2 changes of supply |
| `dma_copy` | refines the copy of blocks, with a CPU that stores to the memory | 1 channel, the modes whose blocks end, 4 accesses, 1 hardware trigger, 2 changes of supply, 2 cells with 2 values |
| `cache_write_back` | refines the persistent memory; clean lines agree with memory | 3 tags, 2 lines, 2 offsets, 2 values |
| `cache_write_around` | write around with LFU and a debugger: no duplicate tags, writes are visible | 3 tags, 2 lines |
| `cache_lru` | write through with LRU: memory up to date, the victim is the least recently used line; victims go home, accesses stay in their line, the masks cut an address where the arithmetic does | 2 sets, 3 tags, 2 lines; every address of a line that is held, every length; 32 addresses, lines of 4 |

Why these bounds are enough to be interesting: two interrupt lines are the
fewest with a priority decision and tail chaining, two edges the fewest for one
to arrive while the other is served, three supply changes are on, off, on again;
a power-cycled CPU with a handler in flight needs the third. The bound on stores
(an enable, and two of disable, pend, clear, priority) limits how far software
can go, not when. For the MSP430 the arbiter's three lines are the reset, one
with and one without acknowledgement, which are all the kinds there are; a
counter of width 2 passes each of its special values (0, TA1CCR0, the largest)
and one between; two stores start the timer and then change it. A frame of three
axes fills the FIFO of four bytes, so the second drops the first, partly read or
not; three bytes are an address and two reads. Twelve steps let the capacitor
reach the upper threshold, discharge below the lower one and charge again; two
reports and a dump above one row let a report fall before, between and after a
pop, a new row and a dump. Three tags on two lines force an eviction with a
choice; two offsets are the fewest that tell a line from a mixture. Two channels
are the fewest with a priority; blocks of two tell the last element from the
others; a burst of five pauses once, at four; four accesses program two
channels. Two cells are the fewest between which an element can move, and two values
tell a store from none; one channel is enough for the copy, because the mapping of a
channel looks at no other (an instance with two channels and three accesses passes
too). The counters in `used`, `reports`, `now` and `pushed` with the guards
that read them are the only bounds; `MaxMoved` cuts off the two repeated modes
that never end.

Deadlock checking is off except for the cache: when the bounds are used up and
nothing is due, the instance stops.

Each property is paired in `PROJECT.json` with a mutant, a plausible slip in a
definition that models code (an operator whose comment says *Mutant*), under
which the run must fail.

### Disagreements between the code and what it says

The first has a run, the others are shown by a change of a configuration. They were
met while writing the passing properties, each of which states the case it
leaves out.

* *The reset may never reach the CPU* (`msp430_boot`). The arbiter's scan
  (`InterruptArbiter.hpp:82`) lets the highest index win, so line 0, the reset,
  has the lowest priority; Timer_A's `reset()` does not lower its line. A line
  that is up at a power failure is all the CPU is offered afterwards, and it
  sleeps with GIE clear. `AlwaysBoots` fails; `Boots` holds with the exception
  stated. A port's line can stay up in the same way: a pin that is high and an
  interrupt enable written in the instant power fails are enough.
* *An exception is served twice after a power failure.* `CortexM0Cpu::reset()`
  (`CortexM0Cpu.cpp:189`) leaves `activeException` at the handler that was
  interrupted, so the NVIC misses the next entry of that handler.
  `NvicEntriesRequested` fails in `Cm0Entries.cfg` with `MaxPower = 3`.
* *A tick nobody asked for.* `SysTick::reset()` (`SysTick.cpp:55`) cancels the
  queued events but leaves the line up. `TickEntriesRequested` fails with
  `MaxPower = 3`.
* *The three-stage pipeline fails its assertion.* `sc_assert(m_bubbles <= 1)`
  in `getNextExecutionPc()` (`CortexM0Cpu.cpp:550`) aborts when an exception
  follows a branch. `NextPcAssertion` of `CortexM0Cpu` fails with
  `PipelineStages = 3`; with 2 it holds by the range of the variable.
* *LRU under write around is not LRU.* `Cache.cpp:140` asks the policy for a
  victim also for a write that replaces nothing, and the policy takes it as a
  use. `EvictsLeastRecent` fails in `CacheLru.cfg` with
  `WritePolicy = "WriteAround"`; the cache runs pair LRU with write through.
* *One acknowledgement clears all flags of the DMA.*
  `m_clearIfg` (`Dma.cpp:247`) stays set while flags are cleared one after the
  other. A job that ends between the start of the handler and the update of the
  flags, or with the one that is acknowledged, loses its completion: no handler
  starts for it. `OneFlagPerAcknowledgement` fails in `DmaTransfers.cfg`;
  `NoLostCompletion` counts a completion as reported when its flag is cleared.
* *A repeated burst has no breakout condition.* The break on a disabled
  channel (`Dma.cpp:520`) leaves the inner loop only. After a power failure the
  channel stays pending, `busStall` stays up, and the CPU never gets the bus.
  `BurstBreaksOut` fails in `DmaTransfers.cfg`; `BusReleased` leaves the case out.

Behaviour worth knowing, about which the repository says nothing: a stopped
timer does not hear its acknowledgement (its thread waits for a write); in
up/down mode the count turns at once when TA1CCR0 is 1, and the initial
direction is uninitialized; a port without power drives its pins low; the SPI's
line drops while its handler runs when a third byte comes, and the NVIC's latch
keeps the request; the SPI's reset keeps the receive FIFO; `get()` on an empty
FIFO makes its level negative (`Spi.hpp:165`), so the modelled program reads only
what is there; events reported while vcc is not positive are charged after the
recovery; a store that disables, clears or reorders an interrupt takes effect one
exception late (`TakesMostUrgent` leaves the end of a store out); the DMA reports a
block that a power failure cut; the keep-alive pin keeps its level over a reset, so a node can restart
below the detector's upper threshold; a repeated DMA block never counts down
(`Dma.cpp:489`); the DMA's `irqControl()` is not sensitive to the power
(`Dma.cpp:80`); `reportEvent` of the power model asserts `id <= size`, one more
than there are.

### Fairness

`FairSpec` of `Cm0System`: weak fairness of delta cycles, of the peripherals'
processes and of the CPU's steps, because the SystemC scheduler runs every
runnable process and never starves one; weak fairness of time passing to the end
of the CPU's pending wait, because each is for a finite time; strong fairness of
`Return`, which says that handlers return (an assumption on the software: without
it nothing behind a handler is ever served). `FairSpec` of `Msp430System`: the
same weak fairness of delta cycles, peripherals and CPU; strong fairness of time
passing to the end of the CPU's wait and of the boot trace, because both are
finite times that other events at earlier instants do not extend. `FairSpec` of
`Dma`: weak fairness of `Next` only. Within an instant there are finitely many
steps and waits count down, so a simulation that goes on gets the DMA through
its loops. No fairness is assumed of inputs (pins, triggers, timers, software,
supply).

## 4. Proofs

Eight modules of proofs, each beside the module it is about. A theorem holds for
every value of the constants that meets the named assumptions of the module, and
for behaviours of any length: none of the bounds that stop a run plays a part.

### The interrupt path of the Cortex-M0: `Cm0System_proofs`

For all lines, pins and priorities, two or three pipeline stages, and any number
of edges, ticks, stores and supply changes (`IrqsAssumption`, `GpioAssumption`,
`StagesAssumption`, `PriosAssumption`, `BoundsAssumption`):

| theorem | says |
|---|---|
| `Cm0TypeCorrect` | type correctness; the scan of the priorities names a line in use (`MostUrgent`: priority and number are one rank, which has a least value) |
| `OutputFresh` | what the NVIC offers is the most urgent enabled pending line |
| `SleepsRightly` | the core does not sleep over an exception |
| `NoTickLost` | no tick outside the handler is lost |
| `NoEdgeLost` | no enabled edge of a pin is lost, across power failures and glitches |
| `MostUrgentIsTaken` | the exception the CPU takes is the most urgent enabled pending line |
| `NvicEntriesAreAsked`, `TickEntriesAreAsked` | within one power cycle the CPU takes only exceptions that were asked for since they were last taken |

Each rests on an invariant of its own over the type invariant. `FreshInv` and
`SleepInv` weaken the property to all moments of an instant: the output is right
or `process()` is still to run; the core is about to be woken or has nothing to
take. `TickInv` adds that an expiry and the return of a handler meet in one run of
`irqControl()` only if the request is there to win. `EdgeInv` has four parts
around `NoLostEdge`:

* `PhaseInv`: `Gpio::process` and a store of the CPU run in the first phase of an
  instant, when the NVIC has seen every line. Without it an edge could be noted
  while the line falls for the previous one.
* `LineInv`: no request is noted while the line is about to fall, and a line about
  to rise is new to the NVIC. Without it `irqControl()` could swallow a request
  (`m_setIrq` is cleared although the line is up already), or raise a line in which
  the NVIC sees no edge.
* `HandlerInv`: when the NVIC clears the pending bit at the start of the handler,
  nothing is owed any more; a line it has seen up is otherwise pending.
* `PowerInv`: the exception to the last: between the edge of `pwrOn` and its own
  reset the port may still note an edge with the old enables, while the NVIC is
  reset, before or after. The line is then low, so the NVIC will see it rise.

`MostUrgentIsTaken` needs `LooksInv` over `FreshInv`: when the CPU is about to look, no
reset of the NVIC is under way (a sleeping core has power, and the power failure that
resets the NVIC wakes the core before), and the output is that of the registers, or
is being changed. Without the first part a core could be woken by an output that the
reset has already made void.

The last two assume `MaxPower <= 2`: the supply comes, and goes at most once. Over
more changes both properties fail (section 3), so the assumption is not one of
convenience. `OneCycleInv` has three parts. `StartsStill` says that power comes to a
system at rest. `TicksRequested` traces SysTick's request and its line to an expiry
that was not taken yet, to the handler that is running, or to the return that is
about to lower the line; `TickInv` excludes that the CPU looks at the line before
it has fallen. `LinesRequested` traces a pending bit, and what the NVIC offers, to a
request, to the entry that is stacking, or to a handler whose start the NVIC has yet
to see (`Starting`); `PhaseInv` above makes sure that the CPU looks only after that.

### The interrupt path of the MSP430: `Msp430System_proofs`

For all pins, counting modes, counter widths and nesting depths (`TimerAssumption`
and the assumptions on the bounds):

| theorem | says |
|---|---|
| `Msp430TypeCorrect` | type correctness: the timer keeps its width, the stack its depth |
| `NothingBeforeReset` | after power-up the first instruction is that of the reset vector |
| `AcknowledgesTheVector` | the source told of an acknowledgement is the one whose vector is taken |
| `NoExpiryLost` | an enabled expiry keeps its line up until it is taken or the program writes to the timer |
| `TimerTakenForRequest` | the CPU takes the timer's vector at most once per expiry |

`Nesting` (GIE implies room on the stack, RETI only in a handler) is what makes the
types inductive; `ReachesHandlers` (before the reset vector GIE is clear) is the
invariant of the second. The third needs the whole handshake, `Handshake ==
ArbiterInv /\ PowerInv /\ CpuInv /\ TurnInv`: only the line on `idxOut` is told and
only while `ira` is up; power comes with the reset interrupt; `ira` is up exactly
while the CPU waits with it, and until the arbiter has seen it fall `idxOut` is the
line of the vector; and the CPU takes its turn when the handshake is at rest.
Leave one out and the arbiter may choose a new line between the CPU's reading of
the index and its acknowledgement. `NoExpiryLost` adds `KeepsExpiry` and `Tells`
(the timer is told once per change of `ira`, so it clears no flag that was set
after the acknowledgement).

`TimerTakenForRequest` is the converse, and the flag, the line and the vector in
hand must each be traced to an expiry since the timer last heard an
acknowledgement (`RequestInv`). `Announces` says that the CPU takes its turn with
what the arbiter has announced, `Waits` that power comes back only to a CPU that
waits for it. The exception is `LeftUp`: a line that was acknowledged while the
timer had no power stays up, with no request behind it. It is not taken, because
the same line hides the reset interrupt (`HidesReset`), and the CPU, whose reset
cleared GIE, sleeps: the deadlock of `msp430_boot` is what saves the property.

### The power loop: `PowerSystem_proofs`

For all modules (finitely many), events, harvests and thresholds with
`VCore + MaxStepSize <= VOff`:

| theorem | says |
|---|---|
| `PowerTypeCorrect` | the tables of the channel fit together; no division by a time of zero |
| `NodeStartsCharged` | a node starts only above the detector's upper threshold, or with the keep-alive pin high |
| `ChannelImplementsLedger` | channel, bridge and log implement `EventLedger` |

`ReadBefore` says that the bridge's last read lies before the instant at which it is
woken, which the division needs; `Followed` that the detector's output is at most
a step behind the capacitor, for the start of the node; `RowEndsOnTime` that the
log's wait ends with its row, so that the row a report is counted in is the one the
ledger has open, also across a dump that empties the memory.

### The DMA controller: `Dma_proofs`

For all channels, triggers, jobs, addresses and delays of the memory that meet
`DmaAssumption`, and any number of accesses, triggers and supply changes:

| theorem | says |
|---|---|
| `DmaTypeCorrect` | type correctness: no count goes below zero |
| `NoCompletionLost` | a completion whose interrupt is enabled reaches the line |
| `WholeBlocks` | a job that is done has moved its block, and no job moves more |
| `TransfersInPlace` | every transfer moves the next element of its job, from its place to its place |
| `DmaCopiesBlocks` | with the memory and a CPU that stores to it, the controller implements `BlockCopy` |

`Types` adds to the types that a channel which is enabled, or whose DMAxSZ holds a
size the software wrote, has elements to count (`Sound`); the reset leaves 0xAAAA in
DMAxSZ and 0 in the channel, and nothing else keeps the two apart. `CompletionInv`
says that the news of a flag is on its way (notified, timed, in a process that is
about to run, in `m_setIrq`) or has reached the line, and that `irqControl()` sees
the line as it will be.

`WholeBlocks` and `TransfersInPlace` need the handshake between `Dma::process` and the threads of
the channels, `HandshakeInv`:

* `ThreadInv`, `ChannelInv`: `accept` is up exactly during the write of the channel
  the bus thread works on, and a channel that runs while it waits for accept sees
  the accept of its own element.
* `PauseInv`: the two cycles of a burst's pause end with or before the next read,
  whatever the delays, so the channel is back at `accept` when accept rises again.
* `StaleInv`, `PhaseInv`: an element nobody waits for belongs to a channel that was
  reset, which stays disabled until the bus is free. A trigger that came between
  the fall of `pending` and the end of the write would otherwise start a block that
  takes the old element for its first.
* `CpuInv`: the CPU accesses a register only while all channels wait for a trigger.
  Without it an access to another channel's registers, which rewrites `size`, could
  fall between two elements.

On it rests `JobsInv`: what the thread has seen accepted, plus what is left to
count, is the size of the block (one more during a pause, which comes before the
count), the internal addresses are those of the next element, DMAxSZ agrees with the
channel whenever the CPU may look, and the element being read is the next one.

`DmaCopiesBlocks` has the premise `BlocksEnd`: no job has one of the two repeated modes
that copy without end (`Dma.cpp:489`, `504`), of which `BlockCopy` promises nothing. It
needs three invariants besides the handshake:

* `CountsInv`: a channel that is not in the middle of a block counts what the software
  wrote, or a block that was halted; a channel that was reset in the middle of one has
  a count of zero, so the next accept ends it.
* `DataInv`: the element `Dma::process` holds between its read and its write is still
  the one in memory. This is where `busStall` counts: `CpuInv` keeps the CPU's stores
  out of the two waits.
* `StaleInv` of the handshake: an element that is committed although its channel was
  reset is the one stray element the abstract specification allows.

For each step of the controller a lemma says what it does to the blocks (`MapProcess`:
the write of an element is the move of the block, everything else of the bus thread a
stutter; `MapChannel`: start, completion, or the report of a block that was cut;
`MapSoftware`, `MapStore`, `MapReset`, `MapOthers`). What makes the mapping work is
`BlockFrame`: a signal that becomes visible, the return of `accept` above all, changes
no block.

### The cache: `Cache_proofs`

For all parameters that meet `PolicyAssumption` and `CacheAssumption`:

| theorem | says |
|---|---|
| `CacheTypeCorrect` | type correctness, and that the LRU list stays a permutation |
| `CacheAssertions` | no tag twice in a set, with a debugger or without |
| `DirtyLinesValid` | the code's assertions on dirty lines hold |
| `EveryWriteVisible` | the next read of an address returns what a write stored, hit or miss, under every policy |
| `CacheCoherent` | clean lines agree with memory, if no debugger writes behind the cache |
| `NothingVolatile` | under write through and write around memory is up to date |
| `CacheRefinement` | the cache with its memory implements `PersistentMemory` |

The inductive invariant is

    Inv == /\ TypeOK /\ UniqueTags /\ DirtyAssertions /\ LruIsPermutation
           /\ ~Debugger => CleanLinesCoherent

Without `LruIsPermutation` a miss may name no line, and `TypeOK` is not preserved.
Without `UniqueTags` an update of the line that `findLine()` returns says nothing
about a second line with the same tag, so neither coherence nor the view is
preserved. `DirtyAssertions` makes the victim of a write-through or write-around
access clean, and coherence then says that dropping it loses nothing. The argument
has two layers: lemmas about the operators (`HitGood`, `MissGood`, `UpdateLine`,
`UpdateMemory`, `ViewIs`), then one lemma per access (`ReadHitEffect` ...
`WriteBackMissEffect`, `ResetEffect`, `DebugWriteEffect`) that gives both the
invariant and the effect on the view; the refinement follows from the same effects.
`DirtyAssertions` and `LruIsPermutation` have no run: they are proved, and TLC sees
what follows from them.

### The address of a line: `CacheAddress_proofs`

For every width of a line and every number of sets (`CacheAddressAssumption`): the address to
which a victim is written back, put together from its tag and its set, is that of the
line it was filled from, and an access that passes the check of `b_transport()`
touches one line only (`LinesAreApart`). Both follow from the
division of an address by the size of a line and of its line number by the number of
sets. That the masks and shifts of the code are these divisions is `MasksDivide`, which
needs `Bitwise` and stays with TLC.

### The least recently used line: `CacheLru_proofs`

`LruListComplete` says that the list `m_lru` has every line once, under every policy
for writes; `LruEvictsLeastRecent` that a line which is replaced was not used after
any other line of its set. The second assumes that misses fill lines, which is write
through and write back: under write around a write that misses moves its victim to
the front and fills nothing, and the property fails (section 3). The invariant is
`SortedInv`: the list is sorted by last use, the order that `CacheLru` records. It
does not follow from what a step does to the head of the list alone; moving any
entry to the front keeps the order of the others (`MoveToFrontSorts`). Everything
about the cache itself comes from `Cache_proofs`, since a step of `CacheLru` is a
step of `Cache` (`LruSteps`).

### The sensor node: `SensorNode_proofs`

For any number of frames, bytes, settings and changes of the reset line, any
capacity of the FIFO that holds a frame (`SensorAssumption`, `FifoAssumption`,
`NodeAssumption`):

| theorem | says |
|---|---|
| `NodeTypes` | type correctness; neither FIFO holds more than fits |
| `BytesComeInOrder` | no byte is received twice, none after a newer one |
| `SpiInterruptSurvives` | an interrupt owed for a byte stays pending until a handler starts |
| `AccelerometerIrqIsTrue` | the device's line means data, unless a reset lost them |
| `SpiNeverSleepsOnBytes` | an enabled SPI with a byte to send has its event on the way |

The bound on the FIFO needs `TrimmedFits` (the loop that drops the oldest frame ends
within the capacity, and leaves an end of what there was) and `SampleRoom` (a
sample is taken only for a frame that can be numbered). The others share `Turns`:
methods of a delta cycle run before threads, the change of `nReset` meets nothing
else, and the device hears of the end of a transfer in the instant the SPI does.
Without it a thread could see half of what a method does. Then

* `TxInv` and `IrqInv` extend the two properties to all moments of an instant.
* `RxInv` follows a request through three stages: `Requested` (asked for, line
  down), `Raised` (line up, not seen by the NVIC), `Offered` (pending, and the start
  of a handler does not take it away). The hard step is `irqControl` with a request,
  a start and an end of a handler in the same delta cycle.
* `ProtocolInv` says for whom a response can be ready: a program that reads data, or
  one whose next byte is an address. A transfer left over from before a reset is
  `Stale`: the device cannot be brought to answer by it.
* `OrderInv` compares the numbers in the three places a byte can be in at once: the
  head of the device's FIFO, the response prepared a transaction ahead, and the
  transfer that brings it (`Carried`); they agree only while the device is about
  to pop the byte (`Popping`).

### Only model-checked

`MasksDivide` (it uses `Bitwise`, which TLAPS cannot load); all liveness (`EdgeServed`
of both processors, `Boots`, `LowSupplyNoticed`, `BusReleased`), because fairness and
ENABLED are out of the prover's reach.

## 5. What is not modelled

* *Arithmetic of instructions* (`decode.c`, `exmemwb*.c`, the execution part of
  `Msp430Cpu.cpp`, `Mpy32.cpp`): sequential functions on 32- and 64-bit words
  with direct unit tests; the state of the models only knows what an instruction
  does to interrupts, sleep, power and registers of peripherals.
* *Real-valued parts*: clock frequencies, ADC conversions, analogue voltages and
  energies. Their effect (a clock edge at any time, a supply in any of its
  regions, any current within a bound) is an input.
* *MSP430 DMA, ADC12, eUSCI_B*: their threads repeat patterns that are modelled
  elsewhere (`Dma`, `DigitalIo`, `Spi`); the first of them differs from `Dma` in
  its acknowledgement, which is `TimerA`'s.
* *The debug server* runs in a thread of an external library; the modelled cores
  run free.
* *Other SPI devices* (`sd/Bme280.cpp`, `sd/Nrf24Radio.cpp`, the loop-back).
* Routing and byte lanes of the bus, logging, printing, configuration,
  construction, vendored code, and the target software.

Simplifications inside the modelled parts: NVIC registers are accessed by 32-bit
words; SysTick has a positive reload value and its counter value is not modelled;
Cortex-M0 GPIO pins and MSP430 port pins are inputs; breakpoints and stepping are
those of a free-running core; the DMA's byte and word sizes are one element; 16
bits of pseudo-random state are any choice of line; SPI transfers are of 8 bits
and the program reads no empty FIFO; the power loop starts with an empty
capacitor (`CapacitorInitialVoltage` above the threshold makes the bridge divide
by a time of zero at the start), its voltage warning, which no board reads, and
the dump of the log in the destructor are left out.

## 6. Plan

1. `Instructions`: flags, shifts and extension of `exmemwb*.c` and of
   `Msp430Cpu`, as operators on w-bit words against reference definitions over
   all words of small width, together with the address arithmetic.
2. `RegisterFile` and `Bus`: byte lanes, masks, routing, as operators.
3. The MSP430's DMA and eUSCI_B in `Msp430System`: two more acknowledged lines.
4. `Bme280` and `Nrf24Radio`: measurement and transmission state machines on
   `SpiDevice`, with the `SensorKernel` that is there.
5. `Debugger`: run, step and breakpoints set by another thread.

Theorems worth proving next: the path of an interrupt, from the edge of a pin to its
handler, as an abstract specification that `Cm0System` and `Msp430System` both
implement; and the same for the SPI, from a store to its FIFO to the byte received.
