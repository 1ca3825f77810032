# TLA+ models of the TASTE SAMV71 RTEMS runtime

The runtime is the layer between code generated by TASTE and RTEMS on a SAMV71
(one core, preemptive priorities). This directory holds TLA+ specifications of
its parts, TLC configurations that check them on small instances, and proofs
of the main results for every instance. Paths below are relative to the
repository's `src/`; `PROJECT.json` gives for every definition the lines it was
translated from.

* [Parts of the system](#parts-of-the-system)
* [Modules and the code](#modules-and-the-code)
* [Runs and bounds](#runs-and-bounds)
* [Fairness](#fairness)
* [Proofs](#proofs)
* [Findings](#findings)
* [What is not modelled](#what-is-not-modelled)
* [Plan](#plan)

## Parts of the system

    generated threads ----> ThreadsCommon ----> RTEMS queues, timers
        |                     |      |
        |                     |      +--> Hal (elapsed time, semaphores, sleep)
        |                     +--------> Monitor (log, maxima, overflow callback)
        +--> Hal, BrokerLock, Monitor
    drivers ---> Xdmac (driver, controller access, table of peripherals)
    faults ----> FaultHandler ---> DeathReportWriter ---> reset ---> BootHelper
    start -----> SamV71Core (clock registers, MPU), Hal_Init, Monitor_Init

**Elapsed-time clock** (`Hal/Hal.c`). State: the 16-bit hardware counter,
`reloads_counter`, `reloads_modified_flag`. Operations: `timer_irq_handler`,
`Hal_GetElapsedTimeInNs`. Used by the activation log and by
`ThreadsCommon_ProcessRequest`, and by every user thread, without a lock. Hard:
the counter may wrap between any two accesses, the interrupt may come a little
after the wrap, and readers preempt each other. Correct if every wrap is counted
once, and if a reader returns the time of one instant of its call.

**Sporadic requests and queue statistics** (`ThreadsCommon/ThreadsCommon.c`,
`Monitor/Monitor.c`). State: RTEMS queues, `maximum_queued_items`, the overflow
callback. Operations: `ThreadsCommon_SendRequest`, the setters and getters of
Monitor, the receive of the interface's thread. Hard: a send, the count of what
is queued, the comparison and the record are four unprotected steps of every
sender. Correct if the maximum is never more than what was reached, if it covers
what an undisturbed sender saw, and if refused requests are reported.

**Cyclic requests** (`ThreadsCommon/ThreadsCommon.c`). State: one slot per
request with its timer, interval and next wakeup, in wrapping ticks. Operations:
`ThreadsCommon_CreateCyclicRequest`, `timer_callback`. Hard: the delay is a
difference of wrapping counts, is computed some ticks before it is used, and the
request lives only by each callback arming the next. Correct if expiries stay on
the grid of multiples of the interval and the chain never ends.

**Interface activation log** (`Monitor/Monitor.c`). State: a cyclic buffer in a
linker section, a 64-bit counter, `is_frozen`. Operations: indicate activated or
deactivated, freeze, unfreeze, clear, get. Hard: all writers and the reader
access fields and counter one by one. Correct if the buffer is the history of
entries, and the reader is told how much of it is filled and where the latest is.

**Execution statistics** (`ThreadsCommon/ThreadsCommon.c`, `Monitor/Monitor.c`).
State: minimum, maximum, mean and count of execution times per thread.
Operations: `ThreadsCommon_ProcessRequest`, `Monitor_GetUsageData`. Interacts
with the clock and the log. Hard: a thread is read while it updates, and a reading
of the clock may fall behind the one before it. Correct if the measured time lies
between what the user function and the whole call took, and if the four fields are
those of the history.

**DMA driver, controller access, peripheral table** (`Xdmac/`). State: a channel
record with state and callback per channel; the controller's enable, status and
mask registers. Operations: initialise, allocate, free, set callback, prepare,
configure, start, stop, is-done, and the handler, which runs as an interrupt or
inside polling. Hard: the controller, the threads and the handler race; reading
a status clears it. Correct if each channel has one owner, a channel that is done
has stopped, and every transfer that ends is found finished and notified.

**Fault handling, death report and reset reason** (`FaultHandler/`,
`BootHelper/`). State: a report in memory behind a data cache, the exception
that is active, the reset type. Operations: initialisation, `Fault_Handler` with
the report writer, the reset, `BootHelper_GetResetReason`. Hard: the handler may
be cut off anywhere, by a reset or by a fault of its own, and cache lines reach
memory in any order. Correct if a valid report is of one fault, survives until
it is seen, and every fault ends in a restart.

**HAL semaphores** (`Hal/Hal.c`), **broker lock** (`BrokerLock/`). State: an array
of identifiers and its count, the kernel's semaphores. Hard: the count that limits
creation also ends obtain and release, with threads waiting. Correct if whoever
was told it has a semaphore has it alone, and if nobody waits for ever.

**Watchdog and idle task** (`Hal/Hal.c`). State: the watchdog's mode and counter.
Operations: `Init_setup_watchdog`, `Hal_IdleTask`. Hard: the mode can be written
once per reset, and the boot software may have been first. Correct if a hang ends
in a reset exactly where the build says so.

**CPU usage, stack usage** (`Monitor/Monitor.c`). State: minimum, maximum and
average share of the idle task; the stack of every thread. Hard: both are read
while others write them. Correct if the record is that of the samples, and if the
stack's use is not overstated.

**Core clock and MPU configuration** (`SamV71Core/`). State: the frequency read back
from the clock registers, the next MPU region. Correct if the frequency is the
hardware's, and if all memory asked for, and no other, leaves the data cache.

**Sleep** (`Hal_SleepNs`): one conversion and one RTEMS call.

**Interface tables** (`Mocks/`), **example application** (`app/main.c`), linker
scripts, board support and build files: stand-ins, configuration and addresses.

The hazards of each part, with the line where they bite and the property that
would catch them, are the list `hazards` of `PROJECT.json`.

## Modules and the code

| module | code | one action per |
|---|---|---|
| `HalClock` | `Hal.c` 40-50, 110-174 | access to the flag, the counter of reloads or the hardware counter |
| `RequestQueues` | `ThreadsCommon.c` 68-77, 160-182; `Monitor.c` 186-267 | access to the queue, the maximum or the callback |
| `CyclicRequests` | `ThreadsCommon.c` 28-136 | clock tick, timer callback, and half of a creation |
| `ActivationLog` | `Monitor.c` 25-79, 274-357 | field, load and store of the counter, read of the reader |
| `Xdmad` | `xdmad.c`, the accessors of `xdmac.c` it uses | write of state, channel, masks or status; visit of a channel by the handler |
| `Clock` | what `HalClock` promises | begin and return of a call |
| `RequestProcessing` | `ThreadsCommon.c` 79-102, 138-158; `Monitor.c` 206-217, 274-284 | reading of the clock, update or read of a field |
| `Semaphores` | `Hal.c` 44-45, 186-225; `BrokerLock.c` | call, and return of a wait |
| `Watchdog` | `Hal.c` 50-103, 227-232 | write and read of the mode, restart |
| `CoreConfiguration` | `SamV71Core.c` 39-229, 270-300 | initialization; region taken |
| `CpuUsage` | `Monitor.c` 81-113, 199-204, 219-224 | update or copy of a field |
| `StackUsage` | `Monitor.c` 115-183, 226-244 | word scanned, push or pop of the measured thread |
| `DmaChannels` | what `Xdmad` promises | change of a channel's state |
| `DeathReports` | `FaultHandler.c`, `CustomExceptionVector.c`, `DeathReportWriter.c`, `BootHelper.c` | step of the handler whose loss can be told in memory |

`MC<name>` instantiates modules for TLC (some counterexamples need none), `<name>Proofs`
holds theorems.
`HalClock` and `Xdmad` each implement an abstract module, `Clock` and
`DmaChannels`, under the refinement mapping at their end. `RequestProcessing` is
built on `Clock`: what is checked of the statistics holds on the lock-free clock
as long as that implements the abstract one, until its 32-bit product overflows. Otherwise the modules share no variables,
and what one sees of another is a step of its environment (the clock's value of the
log, the timer's send of the queues). `MCMonitor` puts the log, the
execution statistics, the usage record and the stack in one run, `MCPlatform` the
cyclic requests, the semaphores, the watchdog, the clock registers and the MPU; these
share no state, so a behaviour there is of one of them. Operators that a comment calls a mutant are wrong versions of
the definition that follows them; they are used to see that each property can
fail, and nothing else refers to them.

**HalClock.** `counter`, `irq` and `late` are the hardware: a wrap makes the
interrupt pending, and a thread completes at most `IrqDelay` accesses before it is
taken. The handler's three statements are `IrqCount`, `IrqMark` and
`IrqAcknowledge`. A reader goes through `ResetFlag`, `LoadReloads`, `ReadTicks`,
`CheckFlag` (back to the reset if the flag is up) and `ReturnNs`. A reader is
named by its priority; it steps only if no higher one is in a call. A handler later
than a whole period of the counter is left out: the next wrap waits for it.
`TotalTicks` has the code's 32-bit product and `ElapsedNs` the truncating
division. The histories `began`, `sampledAt` and `disturbed` say when a call
began, at which wrap it read the counter, and whether another call reset the flag
it relies on.

**Clock.** Time passes, a call returns the time of a moment between its beginning
and its end. A call that saw another one begin may be behind by up to a reload:
that is what the shared flag costs, and what its users have to live with.

**RequestQueues.** A call of `ThreadsCommon_SendRequest` is Send, Count, Compare,
Record, CheckOverflow, Report, Return. Priorities are the application's, so all
interleavings are allowed. `Submit` and `Enqueue` are RTEMS: a waiting receiver
takes the message directly, a full queue answers `TOO_MANY`, a message of the
wrong size is refused. An interface outside `Mapped` has no queue Monitor can look
into, and its count is -1. `peak`, `interrupted` and `registered` are histories.

**CyclicRequests.** `Tick` counts and collects the timers that are `due`; the
callbacks run before any thread. `CreateBegins` computes the first delay and
`CreateFires` uses it, with ticks allowed in between. `FireAfter` has what RTEMS
does with a delay of zero: it refuses, and the code ignores it.

**ActivationLog.** The slot is computed anew for each field; the evaluation order
of `buffer[i].timestamp = Hal_GetElapsedTimeInNs()` is open in C, hence the choice
in `WriteStamp`. `size` is fixed in the initial state, 0 included. The counter is
not bounded by 2^64 but by `MaxCalls`. All overlaps of calls are in the model; what is
claimed of buffer and reader is claimed where none has happened (`clean`,
`readClean`).

**Xdmad.** `enabled`, `CIS`, `CIM`, `GIM` and `program` are the controller's
registers as far as the driver tells their values apart. Channel addresses,
descriptors and block sizes are one value, the kind of transfer. `XDMAC_*`
operators are `xdmac.c`. The controller ends blocks and transfers, raises bus
errors and finishes pending accesses of stopped channels. Start, stop and handler
are split at each register write. Clients follow the order allocate, prepare,
{ configure, start, wait or stop }, free, on their own channel, as `xdmad.h`
lists the operations. `XDMAD_ConfigureTransfer` is what the code does in any state;
what a client keeps to when it calls it, no configuration during a transfer and a
callback for every interrupt beyond the end, is `ClientConfigures`.

**DmaChannels.** Each channel has a state and the threads it is handed to. Allocation
needs a free channel that nobody has; start, end, stop and release follow in this
order.

**RequestProcessing.** A thread is its priority; a user function may block, so
threads below it run. `Monitor_GetUsageData` is another thread with a priority of
its own. 64-bit fields are one access: below 2^32 ns their upper words do not
change. `Ns` is the truncating conversion at the end of `Hal_GetElapsedTimeInNs`, so
two readings may differ by less than the time between them. The initial minimum comes
from the generated table (in `Mocks` it is 0); the run starts between the durations it
has, the theorem anywhere. An indication to the log may or may not read the clock, as
the log is frozen or not, and overtakes the calls it preempts (`LogReadsClock`).
What `MeasuredWithinCall` claims it claims of calls no other one overtook, and of
the highest priority; for an overtaken one the unsigned difference may wrap.

**Semaphores.** The kernel's semaphores have an owner, a nesting count and a queue
of waiters. Clients obtain upwards in the order of identifiers, then release all
they hold; without an order any semaphore deadlocks. The initialization thread
alone creates, before or after others start (`Hal.h` 59).

**Watchdog.** `build` is the macro the program was compiled with. `SetConfig` and
`AssertConfig` are the write and the assertions after reading it back; a mode that
was written before the program ran stays, and the assertions halt it.

**CoreConfiguration.** A configuration is what the registers' fields name, the sources
`Slck` and `Upllck` and reserved values included, which the code accepts without a
case for them. `WorkedOut` are those whose frequency the code does find. Memory is
counted in the smallest regions of 32 bytes.

**CpuUsage**, **StackUsage.** The tick and the copy of the record, the scan and the
thread it measures, may preempt each other at any step. Nothing is claimed of the
record's minimum, which starts at 0 and stays there.

**DeathReports.** Each field of the report and each word of its stack names the fault
it was written for, the 16-bit CRC is ideal and stands for the data it was computed
over. `save_stack` copies as many words as the length it stores, any up to the room
there is; the words behind them stay as an earlier fault left them, under the same
checksum. A fault of the handler comes in the middle of either copy. `cache` is what
the processor sees, `memory` what a reset leaves; `WriteBack` may copy any part
at any time. The boot software, which marks a report as seen, and the kinds of
reset are external.

## Runs and bounds

Passing runs; all are exhaustive within their bounds.

| run | instance | shows |
|---|---|---|
| `clock` | two readers; counter of 3 values; 32 bits scaled to 3 bits; one access of interrupt delay; 2 wraps | `WrapsCountedOnce`, `PairOfOneInstant`, `TopReaderPairOfOneInstant`, `ImplementsClock` |
| `queues` | two senders; a mapped and an unmapped interface; queues of two; one callback | `MaximumWasReached`, `UninterruptedSendIsCounted`, `OverflowReported`, `MaximumDecreasesOnlyByRace` |
| `dma` | two threads, one of which may poll, and a third that may keep a channel; two channels; a known and an unknown peripheral | `DoneHasStopped`, `HandlerMeetsNoFreeChannel`, `DoneIsNotified`, `ImplementsChannels`, `SingleTransferEnds` |
| `death_reports` | three faults; a stack trace of two words; builds with and without the watchdog | `ValidReportIsOfOneFault`, `SoftwareResetHasReport`, `UnseenReportIsKept`, `FaultLeadsToRestart` |
| `monitor` | log: two writers, a reader, 0 or 2 slots, three entries; statistics: two threads and a reader between them in priority, three instants, two requests before the last begins; idle share: three samples; a stack of five words | `NoSlotInEmptyLog`, `BufferIsHistory`, `ReaderIsToldRight`, `MeasuredWithinCall`, `StatisticsOfHistory`, `UsageBoundsOrdered`, `IdleUsageOfTicks`, `StackUsageOfScan` |
| `platform` | cyclic: two slots, ticks modulo 8, intervals of 0, 1 and 3 ticks, offsets of 0 and 2, up to two ticks of preemption; three threads, three kernel semaphores, one the broker's, limit of two, nesting of two; a watchdog period of two; all clock sources, prescalers and dividers with five PLLA multipliers and four dividers; three sizes of regions at three addresses and a misaligned one | `ExpiryOnSchedule`, `TimelyKeepsGoing`, `TimelySendsForever`, `HoldsWhatItWasTold`, `WaitEnds`, `WatchdogAsBuilt`, `FrequencyIsTheHardwares`, `RequestedIsUncached` |

`clock`, `queues`, `dma` and `death_reports` also check their module's `TypeOK`,
`monitor` that of the log and `platform` that of the cyclic requests. Runs that must
find a counterexample are under [Findings](#findings).

Why the bounds are enough for the question asked:

* *clock*: with two readers every relation of two priorities occurs, and two wraps
  are one more than a call can straddle between two of its accesses; a third
  reader only disturbs as the second does. The scaled numbers keep the proportions
  the code depends on (`TICKS_PER_RELOAD` is the period less one, the product does
  not overflow in this run, the conversion truncates). `IrqDelay` is 1, the
  processor's: the read of a peripheral register may complete while the interrupt
  it races with is being signalled. With 2 the loop would not be safe, which is
  why the assumption appears in the theorem.
* *queues*: a lost update needs two senders; a queue of two has an empty, a partly
  filled and a full state, and a maximum that can fall from 2 to 1.
* *platform, cyclic requests*: the tick counter wraps several times per behaviour; the intervals
  cover zero, one and several ticks; preemption of two ticks is more and less
  than an interval; the second slot has an expiry in the same tick as the first.
* *monitor, log*: three entries go once round two slots and overwrite one;
  two writers are what an overlap takes.
* *dma*: one channel below and one above in the handler's walk is all a visit
  depends on; with a third thread that takes a channel and keeps it (`KeeperSpec`) the
  channels run out, and the two compete for the one that is left. A third thread that
  also transfers is covered by the theorems.
* *monitor, statistics*: the reader preempts one thread and is preempted by the other. A
  thread processes up to two requests (`MaxRuns`), so its mean is divided by one and
  two; two requests precede the last to begin (`AllRuns`), three in all. Two ticks are
  three nanoseconds, so durations are cut off.
* *platform, semaphores*: a third thread makes a queue of waiters; with a limit of two
  there are semaphores in use before it is reached and after. `Start` may come at any
  creation, so the array may be filled while the initialization thread holds one.
* *platform, core*: the multipliers and dividers give exact and cut-off divisions; the
  regions go from 15 to 12 and a fifth call fails its assertion.
* *death_reports*: three faults allow one complete report, and one that faults
  again while it is being handled; two words of stack are a copied one and one left
  from before. Theorems cover any number.

## Fairness

Safety runs assume none. The liveness properties are checked under

* `CyclicRequests`: weak fairness of the clock tick, of each due callback and of
  the end of a creation. The clock interrupt does not stop, RTEMS runs all due
  timers in it, and a thread that creates requests is eventually scheduled. No
  thread is obliged to create anything.
* `Xdmad`: weak fairness of the controller (a transfer or a stop that began ends),
  of the interrupt's entry and of the handler's steps. Nothing is assumed of
  threads, so a stop never comes to the rescue of a lost end, and only the
  interrupt mode is claimed to make progress.
* `Semaphores`: weak fairness of the end of initialization, of the return of a wait
  that has been granted, and of clients on their way out and through their
  releases: a client that holds something comes to release it. Nobody is obliged to
  obtain, and the queue of waiters is the kernel's, first come first served.
* `Watchdog`: weak fairness of the watchdog's counter and reset, which are clocked
  whatever the processor does. Nothing is assumed of the program, a hung one does
  nothing.
* `DeathReports`: weak fairness of the handler's steps, and of the watchdog's reset
  of a processor that has locked up: it no longer runs the idle task that feeds it.
  Resets from outside are never obliged to come.

## Proofs

Proved with TLAPS for every value of the constants that satisfies the assumptions
named in the modules. Nothing else is assumed, except where the third column
says so.

| theorem | states | rests on |
|---|---|---|
| `HalClockProofs!TypeCorrect` | `[]TypeOK` | `ClockAssumption` |
| `HalClockProofs!EveryWrapIsCounted` | `[]WrapsCountedOnce` | the same |
| `HalClockProofs!UndisturbedPair` | `[]PairOfOneInstant` | and `PromptIrq` |
| `HalClockProofs!TopReaderPair` | `[]TopReaderPairOfOneInstant` | and `PromptIrq` |
| `HalClockProofs!ClockRefinement` | `ImplementsClock` | and `PromptIrq`, `WrapLosesOneTick`, `ProductFits` |
| `RequestQueuesProofs!TypeCorrect` | `[]TypeOK` | `QueuesAssumption` |
| `RequestQueuesProofs!MaximumReached` | `[]MaximumWasReached` | the same |
| `RequestQueuesProofs!RefusalReported` | `[]OverflowReported` | the same |
| `RequestQueuesProofs!SendCounted` | `[]UninterruptedSendIsCounted` | the same |
| `RequestQueuesProofs!MaximumLoweredByRace` | `MaximumDecreasesOnlyByRace` | the same |
| `CyclicRequestsProofs!TypeCorrect` | `[]TypeOK` | `CyclicAssumption` |
| `CyclicRequestsProofs!TimersOnSchedule` | `[]ExpiryOnSchedule` | the same |
| `CyclicRequestsProofs!TimelyArmedForEver` | `[]TimelyKeepsGoing` | the same |
| `ActivationLogProofs!TypeCorrect` | `[]TypeOK` | `LogAssumption` |
| `ActivationLogProofs!EmptyLogUnused` | `[]NoSlotInEmptyLog` | the same |
| `ActivationLogProofs!BufferKeepsHistory` | `[]BufferIsHistory` | the same |
| `ActivationLogProofs!ReaderToldRight` | `[]ReaderIsToldRight` | the same |
| `XdmadProofs!TypeCorrect` | `[]TypeOK` | `XdmadAssumption` |
| `XdmadProofs!DoneChannelHasStopped` | `[]DoneHasStopped` | the same |
| `XdmadProofs!HandlerServesAll` | `[]HandlerMeetsNoFreeChannel` | the same |
| `XdmadProofs!CallbackBeforeDone` | `[]DoneIsNotified` | the same |
| `XdmadProofs!Refinement` | `ImplementsChannels` | the same |
| `DeathReportsProofs!TypeCorrect` | `[]TypeOK` | `ReportsAssumption` |
| `DeathReportsProofs!ValidReport` | `[]ValidReportIsOfOneFault` | the same |
| `DeathReportsProofs!ReportSurvives` | `[]SoftwareResetHasReport` | the same |
| `DeathReportsProofs!ReportKept` | `UnseenReportIsKept` | the same |
| `MonitorProofs!MeasuredRight` | `[]MeasuredWithinCall` | `ProcessingAssumption` |
| `MonitorProofs!BoundsOrdered` | `[]UsageBoundsOrdered` | the same |
| `MonitorProofs!StatisticsRight` | `[]StatisticsOfHistory` | the same |
| `MonitorProofs!UsageOfTicks` | `[]IdleUsageOfTicks` | `CpuUsageAssumption` |
| `MonitorProofs!UsageOfScan` | `[]StackUsageOfScan` | `StackUsageAssumption` |
| `HalProofs!TypeCorrect` | `[]TypeOK` of the semaphores | `SemaphoresAssumption` |
| `HalProofs!MutualExclusion` | `[]HoldsWhatItWasTold` | the same |
| `HalProofs!CacheDisabled` | `[]RequestedIsUncached` | `CoreAssumption` |
| `HalProofs!FrequencyRight` | `[]FrequencyIsTheHardwares` | the same |
| `HalProofs!WatchedAsBuilt`, `UnwatchedStaysHung` | first and last conjunct of `WatchdogAsBuilt` | none |

*Clock.* `PromptIrq` says that a thread completes at most one access between a wrap
and its interrupt. `PairOfOneInstant` speaks of the end of the loop only; the
invariant `PairInv` follows the call from the load of the reloads: either the flag
is already set, or the words still agree, or the interrupt that will set the flag
has begun or must be taken before the next access. The step where it is used up
is the read of the counter after a late interrupt, where the bound of one access
is needed. `ClockAssumption` keeps the number of wraps below 2^32, so the counter
of reloads itself does not come round (after about a year).
`TopReaderPair` adds that nobody disturbs the caller of highest priority.

*Clock implements `Clock`.* `SpanInv` places the words of every call, disturbed or
not, between what the clock showed when the call began and what it shows now:
old reloads with new ticks are behind by at most a reload. `NestedInv` says that
a call another one preempted is marked as disturbed, which `Clock` asks of a call
that is behind. Two more hypotheses appear. `WrapLosesOneTick`: a reload is worth at
least all but one tick of the counter's period, which 65535 of 65536 is; if it lost
more, the time itself would fall back at a wrap. `ProductFits`: the
32-bit product of `Hal.c` 167 does not overflow. The code does not ensure that; the
run `clock_wraps` shows what happens then. With an `IrqDelay` of two TLC finds a
counterexample, so `PromptIrq` cannot be dropped.

*Queues.* `MaximumWasReached` is not inductive: a sender carries its count across
two steps before it records it. `PeakInv` adds that a carried count was reached
by the queue it came from, and that a count on its way to be recorded is not -1.
Type correctness needs it too, for otherwise -1 could be recorded. `ReportInv`
follows the answer of the kernel and the callback through the rest of a call.
`CountInv` says what an uninterrupted call knows: its count is what the queue
holds, and one it is about to record is above the maximum. The action property
follows, for `Record` alone writes the maximum.

*Cyclic requests.* `UnusedInv` says that a slot has no timer before its creation is at
the call that arms it, `PendingInv` that the delay computed in `CreateBegins` still
leads to the wakeup and beyond it by the ticks it has waited, `DueInv` that a timer
whose callback is due has run out. The rest is arithmetic modulo the tick period:
delays shorter than it are recovered from their remainders.

*Activation log.* `WriteInv` says what the call in progress has written, as long as
it is the only one, `ReadInv` what an undisturbed reader has seen, `EmptyInv` that a
log without slots stays frozen, `BoundInv` that the counter is at most the number
of timestamps. The lemmas on slots say that two of the latest `size` entries never
share one.

*DMA driver.* The invariant is `TypeOK` with three parts. `ChannelInv`: what the
registers may hold in each state of a channel; unless the channel is active, no
unmasked flag is up and none will be raised (`Quiet`), so the handler cannot meet
it. `OwnerInv`: a thread that was handed a channel has it alone, and how far it has
come (`Prepares`, `Transfers`) says what the driver has done to it. `HandlerInv`:
the status the handler read at its entry is still good when a channel is visited,
since no thread runs meanwhile. The handler's walk is over a set of channels that
shrinks; that it has a lowest member comes from the well-foundedness of `<`. Each
step of driver, handler or controller is then one of `DmaChannels` or leaves states
and owners as they are.

*Death report.* `SealedInv` says that a checksum, where there is one, was computed
over a stack and registers of one fault, as far as the length goes; it needs `ProgressInv`, which follows the registers and
the stack copy of the latest fault through the handler. A report with a right
checksum is then equal to those parts, whichever lines of it reached memory.
`AfterReset` carries that from the software reset to the start of the program.
`WrittenBack` says that outside the handler the cache has nothing of the report that
memory lacks, so no line written back there can make it invalid.

*Execution statistics.* `MeasureInv` bounds the difference of the two readings by what
`Clock` allows each of them; `Ns` is monotonic (`NsOrder`), which is all the
truncation asks for. `FieldsInv` says that after a thread's first execution its
minimum, mean and maximum are in order, also between two updates of a later one.
`ReadInv` carries this through the reader's three reads: it reads the maximum first,
and a minimum only falls. `HistoryInv` says how many samples each field has taken
up. An update of the mean is one exact division, because `Scale` is a multiple of
the number of samples (`NextMean`, `IsMean`).

*CPU and stack usage.* `CpuInv` follows a tick through its three updates in the same
way, with the same lemmas on means. `StackInv` says that the scan has not passed a
word that was without pattern throughout, and that no word below the deepest stack
pointer has lost its pattern.

*Semaphores.* A release hands the semaphore to the first waiter before that thread
runs, so there is an owner who has been told nothing yet. `OwnerInv` relates owners,
nesting and calls in progress to what each thread was told, `QueueInv` says that a
waiter is inside its call, is not the owner and waits once, and `KeptInv` that only
identifiers still in the array, or the broker's, are used.

*Core configuration.* `MpuInv` says that the regions above the next one are exactly the
accepted requests. The frequency needs no invariant but that it is what the read back
gives; the lemma `CutOff` bounds what four divisions with a multiplication between
them lose. `CoreAssumption` has the crystal's frequency positive.

*Watchdog.* `WatchdogInv` adds that the idle task's flag is off until the mode is
adopted, as the reset left it.

Only model-checked: liveness (`TimelySendsForever`, `SingleTransferEnds`, `WaitEnds`,
`FaultLeadsToRestart`, and the two `~>` of `WatchdogAsBuilt`), whose
rules are beyond the installed provers. The six counterexamples of the next section
are TLC's too. Every other property of a passing run is a theorem.

## Findings

Each is the counterexample of a run.

| run | property | what happens |
|---|---|---|
| `clock_wraps` | `ElapsedNeverDecreases` | `reloads * TICKS_PER_RELOAD` is a 32-bit product; the time falls back when it overflows. The run has one reader and five wraps in scaled widths. |
| `cyclic_never_sent` | `CreatedIsSent` | A request created exactly at its first wakeup gets a delay of zero, which RTEMS refuses and the code ignores. |
| `dma_lost_end` | `FinishedIsFoundFinished` | A linked list ends after the handler's snapshot of the enabled channels; reading the channel's status clears the flags of the end, and the channel stays busy. The run has one thread that does lists only. |
| `log_latest` | `LatestIsInLog` | `counter % size - 1` is `UINT32_MAX` whenever the counter is a multiple of the size: a reader is not given the index of the latest entry, which is the last of the buffer. |
| `semaphore_release` | `HeldIsReleased` | The last semaphore is created while one is held; from then on every release is refused. |
| `core_prescaler` | `MainClockIsFound` | The prescaler 3 makes the code divide by 7. |

Other places where the code does less than one would expect. The models have all of
them; the properties do not claim what fails there, and say what holds all the same:

* `Hal.c` 161: a preempting reader resets the flag the preempted one needs, which
  then returns new ticks with old reloads. `ImplementsClock` bounds the damage: such
  a call is behind by at most a reload, and only if another began during it.
* `ThreadsCommon.c` 153: two readings of which the second fell behind the first, by
  another call or by the overflow in `Hal.c` 167, give an execution time of almost
  2^64. `MeasuredWithinCall` claims nothing of overtaken calls, and its clock has no
  overflow.
* `ThreadsCommon.c` 172: a sender preempted between comparison and assignment lowers
  the maximum. `MaximumDecreasesOnlyByRace`: nothing else does.
* `Monitor.c` 65, 69: calls that overlap mix the fields of a slot and lose entries or a
  clear. `BufferIsHistory` and `ReaderIsToldRight` speak of logs without overlap.
* `Hal.c` 208: a refused obtain after the last creation. `WaitEnds`: nobody is left
  waiting for ever by it; the broker's lock is not affected.
* `SamV71Core.c` 78, 93-146: for the sources `Slck` and `Upllck` the frequency is taken to
  be the main oscillator's. `FrequencyIsTheHardwares` leaves them out.
* `SamV71Core.c` 272: the assertion lets addresses pass that are not multiples of the
  region's size, of which the hardware ignores the low bits, so memory before them
  leaves the cache and their end stays in it. `RequestedIsUncached` claims all of
  the memory asked for, and no other, for aligned regions only.
* `Monitor.c` 98: the minimum of the idle task's share starts at 0 and stays there;
  `IdleUsageOfTicks` does not mention it. So does a minimum execution time whose
  table starts with 0: `StatisticsOfHistory` takes the minimum with that start.

## What is not modelled

* `HalClock` measures in the code's own unit: `TICKS_PER_RELOAD` is 65535 for a
  counter of 65536 values, a drift of one tick in 65536 that no property mentions.
* Two threads that create cyclic requests at once, DMA callbacks that call back
  into the driver, polling from several threads, configuring during a transfer.
* An interrupt of the clock that is served later than one whole period after its wrap.
* Execution statistics after the overflow of the clock's product: they are modelled
  on the abstract clock.
* The bits of the CRC, how the length of the stack copy is computed from addresses,
  the contents of messages, DMA descriptors and addresses.
* Suspend, resume, software request and flush of the DMA controller, which
  nothing in the repository calls.
* RTEMS, the BSP and the register drivers: they appear as the effect the runtime's
  code depends on, marked external in `PROJECT.json`.
* Priority inheritance of the semaphores, which changes when threads run and not who
  owns what.
* `Hal_SleepNs`: it keeps no state. Its conversion gives master clock cycles, which
  it passes as RTEMS ticks.
* The rounding of floating-point means and averages: they are exact here.
* The forwarders of `SamV71Core.c` to the register driver and its routing of
  interrupts to RTEMS.
* The application, the tables in `Mocks`, linker scripts and build files, which have
  no behaviour of their own.

## Plan

Done: every part with behaviour of its own has a module and a run; the clock and the
DMA driver implement abstract ones; every invariant and action property of the passing
runs, and both refinements, are proved.

Next:

1. `ClockRefinement` beyond the overflow of the product: what a call returns then is
   the time modulo the product's range, which `Clock` could be told.
2. The composition as a theorem: the specification of `RequestProcessing` on
   `HalClock`, by way of `ClockRefinement`, instead of on `Clock`.
3. `CyclicRequests` with two threads that create requests at once, and `Xdmad` with a
   client that configures during a transfer: both are hazards without a property.
4. Claims about the log for calls that do overlap: which fields of a slot may be mixed,
   and how far the counter may fall behind.
