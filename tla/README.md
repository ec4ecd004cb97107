# Formal models of the space-baremetal skeleton

TLA+ models of the firmware in this repository: a FreeRTOS application for
RISC-V that detects faults (a software watchdog, a memory scrubber, a software
memory protection), isolates them by changing the system's mode (NOMINAL,
DEGRADED, SAFE) and recovers from them. Modelled are the application's tasks, the
data they share, the boot, and of the kernel underneath what they use: scheduler,
delays, queues, heap. TLC checks the models on small instances; TLAPS proves the
most important safety properties for every value of the constants. Source paths
below are relative to the repository.

1. [The system](#1-the-system): inventory, interactions, what is hard
2. [The models](#2-the-models): module by module, against the code
3. [What is abstracted](#3-what-is-abstracted-and-why-that-is-sound)
4. [The runs](#4-the-runs): questions, bounds, fairness
5. [The proofs](#5-the-proofs)
6. [Where code and documentation differ](#6-where-code-and-documentation-differ)
7. [Not modelled](#7-not-modelled) and [the plan](#8-plan)

## 1. The system

| Part | State it keeps | Operations | Talks to |
|---|---|---|---|
| State machine (`src/state_machine.c`, `system_state.c`) | `gSystemState`, request queue of 4 | boot verdict; receive, decide, apply, policy hooks | read by every task; queue written by watchdog, scrubber, protection, commands |
| Safe policy (`src/safe_policy.c`) | none | what each mode allows; entry and exit hooks | switches automatic injection off |
| Watchdog (`src/watchdog.c`) | received bits, snapshot of the mode, deadline, count of good cycles | cycle: collect bits until complete or 3.5 s; judge; request | notification word, set by `watchdog_kick` of three tasks |
| Heartbeat (`src/tasks.c`) | none | kick every 1 s | watchdog |
| Memory scrubber (`src/memory_scrub.c`, `golden_copy.c`) | `scrub_area` (512 bytes), `seu_counter`, `seu_total_count` | targeted repair per fault event, background scrub, escalation every 5th SEU, kick every 0.8 s | fault queue, state requests, protection, recorder |
| Fault injection (`src/fault_inject.c`, `fault_queue.c`) | `fault_inject_enabled`, fault queue of 5 | every 3 s in NOMINAL: kick, invert a bit, queue an event | scrub area, watchdog |
| Commands (`src/command.c`) | command queue of 8 | input task polls the UART every 10 ms; handler requests modes, injects, scrubs, toggles, prints, dumps | nearly everything |
| Flight recorder (`src/event_log.c`) | ring, head, count | store; chronological dump | called by four tasks, without a lock |
| Memory protection (`src/memory_protection.c`, `critical_exec.c`) | region table of 8, violation count | register, check, escalate from the third violation | called by every kick and every scrubber access |
| Image integrity (`src/image_integrity.c`, `crc32.c`, `scripts/patch_image_crc.py`) | verdict of the boot check | CRC-32 of the image around the slot of the CRC | decides NOMINAL or DEGRADED at boot |
| Boot (`src/main.c`, `tasks.c`, `startup.s`) | `gSystemState` BOOT | creates queues, checks the image, creates the tasks, starts the scheduler, which creates its own | heap, image integrity, recorder |
| Telemetry, ISR stack guard (`src/telemetry.c`, `isr_stack_guard.c`) | high-water marks | prints (DEBUG builds only) | reads state |
| UART, timer, interrupt, string | registers | I/O, library routines | — |
| FreeRTOS tasks and lists (`tasks.c`, `list.c`) | ready, delayed, overflow and suspended lists, tick count, pended ticks | choice of the task, tick, delay, suspending the scheduler, waiting on an event, time-outs, notifications | everything |
| FreeRTOS queues (`queue.c`) | ring of items, list of waiting receivers | send, receive with and without a time limit | state requests, commands, fault events |
| FreeRTOS heap (`heap_4.c`) | blocks and the list of free ones | malloc, free with merging | all queues and tasks |

Priorities: Watchdog 4, StateMachine 3, MemScrub and CommandHandler 2,
Heartbeat, FaultInject and CommandInput 1; preemptive, time-sliced within a
priority, tick of 1 ms.

What is hard here, and where nobody would write a test (the complete list, each
at its line, is under "hazards" in `PROJECT.json`):

- **The watchdog judges by what it has read earlier.** The mode is copied when a
  cycle begins, immediately after the watchdog has posted a request that the
  state machine, of lower priority, cannot have applied yet. Notification bits
  are never cleared.
- **Every caller ignores a dropped request.** `system_state_request_change`
  fails when the queue does not exist yet (it is created by a task, not by
  `main`) or is full. That no request is ever lost rests on the priorities.
- **Mode and policy change in two steps**, and tasks read mode and flag at
  different times (check, preemption, act).
- **Recovery and escalation compete** in DEGRADED: good cycles count towards
  NOMINAL, timeouts ask for SAFE, requests are refused or arrive late.
- **The recorder is shared without a lock** by tasks of three priorities.
- **The scrub area and its counter are shared without a lock** by the background
  scrub, the forced scrub of a command and the injection, each of which reads
  first and writes later.
- **The kernel suspends its scheduler instead of masking interrupts**: ticks are
  counted late, a task can be made ready between looking at a queue and waiting
  for it, wake times can lie beyond the wrap of the tick count.
- **Some creations are checked and some are not**, some happen only after the
  scheduler has started, and all of them share one heap.
- **Boundaries**: ring full for the first time, access that ends where a region
  begins, eight-bit cut of a 9-bit index, a CRC of zero, a heap block that just fits.

Per component, what makes it correct:

| Component | Correct if |
|---|---|
| State machine | requests take effect in the order posted, by one rule; none is lost; the policy of a mode is in force before anyone can look |
| Watchdog | a timeout means silence; no false alarm while the tasks keep their periods; silence ends in SAFE; DEGRADED is left again |
| Commands | no operator key is dropped |
| Recorder | a dump shows the last events in order; a race damages only what takes part in it |
| Memory protection | the check is exact; protection only grows; the firmware is never blocked by its own regions |
| Scrubber | a queued bit is put right, in every mode; a wrong bit is lost from sight only when its event is dropped or a stale byte is written back, and is then found by the background scrub; no escalation is passed over |
| Image integrity | an intact image is accepted and a damaged one refused; script and firmware compute the same |
| Boot | the mode and the log tell the truth about the image; what runs is complete; the configured heap suffices |
| Kernel | a task sleeps until its time and no longer; the right task runs; none starves; no wake-up is lost; a queue is a FIFO |
| Heap | blocks tile the heap, the free list is exact and merged, what is allocated does not overlap |

## 2. The models

```
SystemDefs ── StateMachine ──┬── StateMachineImpl   (refines ModeRegister)
     │                       │
     ├────── Watchdog ───────┴── Fdir ── FdirProofs   (uses StateMachineImpl, Folding)
     ├────── Scrub ── ScrubProofs
     ├────── EventLog (refines BoundedLog) ── EventLogProofs
     └──────────────┬── Boot ──┬── BootMC
  ImageIntegrity ───┤          └── BootProofs ── Folding
  Heap ─────────────┘
EventLogRaces ── EventLogRacesProofs

MemoryProtection ── FirmwareProtection ── MemoryProtectionProofs

KernelLists ── KernelTasks ── KernelQueue ──┬── KernelMC
                 (refines BoundedQueue)     └── KernelQueueProofs
```

Composition is by `EXTENDS`: a component's module says what each of its steps
does to its own variables, the composing module adds who may take the step when
and what happens to the rest.

| Module | Models | Correspondence |
|---|---|---|
| `SystemDefs` | modes, reasons, acceptance rule, policy helpers | pure functions of `state_machine.c` and `safe_policy.c`, under the source's names |
| `StateMachine` | `vTaskStateMachine`, `system_state_request_change` | one action for each stretch between two points where another task can come in: create the queue (`SystemStateInit`), `Boot`, `Receive`, `Apply` (mode written), `RunPolicy` (hooks). `smPc` is the program counter |
| `ModeRegister` | abstract: a register in which a request takes effect when posted | what callers of `system_state_request_change` may assume |
| `StateMachineImpl` | `StateMachine` with any task posting any request the code posts, at any time | refinement mapping `Settled`: mode, request in hand and queue, folded by `ApplyRequest` |
| `Watchdog` | `vTaskWatchdog`, `watchdog_evaluate_cycle`, `watchdog_kick`, and the kernel's notification word | `BeginCycle` (head of the outer loop), `LeaveLoop`, `NotifyWait` / `NotifyReturn` (`xTaskNotifyWait` before and after blocking), `EvaluateCycle`; `NotifyBit` is the kick |
| `Fdir` | all application tasks under their priorities | `CanRun(t)` guards every step of task `t`; every periodic task and the handler have program counters, with the kick, the delay, each look at shared state and each access of `seu_counter` as steps of their own; `Tick` is the timer interrupt |
| `BoundedLog` | abstract: the last `Capacity` events in order | ARCHITECTURE.md, "Flight recorder" |
| `EventLog` | ring, head, count; every `event_log_record_*`; `event_log_dump` | one action per recording function, with its arguments' ranges and the cuts to `uint8_t` |
| `EventLogRaces` | `event_log_store` and the dump, load by load and store by store, by four tasks | order of accesses as the -O2 build makes it: the count is loaded once, the head again after the call of `xTaskGetTickCount` |
| `MemoryProtection` | the region table, the check, violations and escalation | addresses are numbers modulo `AddressSpace`, so `address + size` wraps as in `uintptr_t` |
| `FirmwareProtection` | the calls this firmware makes, for any layout the linker may choose | `Layouts` follows `linker.ld`; registered permissions follow `critical_exec.c` and `memory_scrub.c` |
| `Scrub` | injection, fault queue, scrubber and forced scrub on the bytes of `scrub_area` | every load and store of a byte or of `seu_counter` is a step of its own; `pc` is the position in `memory_scrub`, `memory_scrub_fix_event`, `memory_scrub_record_seu` and `inject_random_fault`; a byte is the set of its wrong bits. `stale` and `lost` are history: tasks that hold a byte another one has written since, and wrong bits whose event is gone |
| `ImageIntegrity` | `image_integrity_verify`, `crc32_update`, `patch_kernel` of the script, damage in between | CRC, bytes and image of any size; a word is the set of its bits that are 1 |
| `Heap` | `heap_4.c` | pure operators on a heap; addresses and sizes are bytes |
| `Boot` | `main`, `tasks_create_all`, `vTaskStartScheduler`, `vTaskStateMachine` up to its loop | `call` is what happens next; every allocation is the allocator's |
| `KernelLists` | `list.c` | a list is its items in order, a ready list also the position of `pxIndex` |
| `KernelTasks` | `tasks.c` | the kernel's variables are one record, each function an operator on it, so that a function that calls others is their composition |
| `KernelQueue` | `vTaskDelay`, `xQueueGenericSend`, `xQueueReceive`, the tick interrupt | an action is a critical section, or what happens while the scheduler is suspended; the tick can come between any two |
| `BoundedQueue` | abstract: a first-in first-out queue of limited length | what senders and receivers may assume |

`BootMC` and `KernelMC` give the constants of `Boot` and `KernelQueue` their values.
`Folding` has facts about folds and sums, which models no code.

## 3. What is abstracted, and why that is sound

- **Scheduling.** A step of a task needs that no task of higher priority is
  ready; tasks of one priority interleave at every step (time slicing). Steps
  are as fine as shared state requires: each reads or writes shared state once,
  or does so within a kernel call that is a critical section, or where only
  tasks that cannot come in between share it. A kick and the `vTaskDelay` after it
  are two steps, because time may pass in between and the delay counts from its
  call. For the same reason FaultInject's first delay, the first thing it
  does, begins only when this task of priority 1 first gets the processor.
- **Time.** `delay[t]` and `remaining` are countdowns, decremented by `Tick`,
  and equivalent to the kernel's wake times and the watchdog's deadline. Wrap-around
  of the tick counter does not appear here: the code compares by a signed
  difference (`KernelQueue` has the wrap). `busy` counts the ticks since the processor was last idle, and
  `MaxBusy` bounds it: work takes time, but not without end.
- **Hanging.** A monitored task may hang and come back, for whole ticks at a
  time (`stalled`): the faults the watchdog is there for.
- **Scrub area.** The number of wrong bits. Injection inverts a bit, so the number
  goes up or down by one; a correction puts right at least one bit. `Scrub` has
  the bytes, with the mode changing as any request may change it.
- **UART.** A key may be pressed whenever the input task could run. Keys that only
  print (`s`, `v`, `u`, `h`) change nothing and are left out; so is `l` in `Fdir`,
  which is in `EventLogRaces`. Output is left out everywhere.
- **Locals** that are dead are not kept (`inHand` is `<<>>` once the request is
  applied), so that states that differ in nothing observable are equal.
- **Recorder calls and protection checks** are left out of `Fdir`. The recorder
  only receives. The checks never refuse anything the firmware asks for:
  theorem `FirmwareNeverBlocked`. `EventLogRaces` takes an event to be the number
  of the call that records it, and an entry to be two halves.
- **Enumerated constants.** `SystemState_t` is compared with `<`, so modes are
  numbers; reason codes are named by their meaning. The code also passes 0 and 5
  as reasons of the first transition; only the recorder sees these.
- **Allocation.** `Fdir` takes the creation of queues and tasks to succeed; `Boot` says
  when it does.
- **Scrub.** `seu_total_count` is only printed and left out. The bit to invert is
  `(r >> 8) % 8` of the tick count `r`, with `r % 512` for the byte: both are kept,
  with smaller numbers.
- **Kernel.** Only receivers wait for a queue (the firmware sends with a block
  time of 0), and no interrupt uses a queue; therefore `xPendingReadyList` and the
  queue's own locks (`cRxLock`, `cTxLock`), which only an interrupt can fill, stay
  empty and are left out. A send to a full queue changes nothing and is a guard. The
  timer task waits for ever and does not occur. An `ecall` in the critical section of
  `xTaskResumeAll` switches at once. `due` and `passed` are history: the interrupts
  until the time a task asked for, and how often others were chosen before it.
  Ticks have 64 bits in this build (`portmacro.h:68`), so that they never wrap in
  practice; the kernel provides for it, and so does the model (`TickModulus`).
- **Boot.** The registers and memory that `startup.s` and `main` set are left out. Sizes
  are those of the 64-bit build: `sizeof(Queue_t)` and `sizeof(TCB_t)` 144, a block's
  header and the alignment 16; with them the allocator leaves the 17 520 bytes free that
  README.md:178 shows, for the tasks it lists. What `Recorded` keeps of an allocation is for the
  properties only. The statistics of `heap_4.c` and its checks for overflow of
  `size_t` are left out: the sizes asked for are constants.
- **Image.** The region begins at 0; the slot is last in the image, as `linker.ld:30-32`
  puts it, or in its middle. `.data` is not covered by the check. `main` reads no verdict
  before `image_integrity_verify` gives one.

## 4. The runs

Passing runs finish exhaustively; none uses a state constraint, a symmetry or a view.

| Run | Asks | Instance | States |
|---|---|---|---|
| `sm_register` | Is queueing invisible to those who post? | queue of 3, both boot verdicts, all eight requests, injection toggled at any time | 73 thousand |
| `fdir_safety` | Is a request or key ever lost? What does a timeout mean? Is the policy in force? Is `Inv` an invariant? | queues of 2, timeout 3 ticks, 2 cycles to recover, 2 SEUs to escalate, two keys of any kind, MemScrub may hang | 5.0 million |
| `fdir_liveness` | Is DEGRADED left? Does silence end in SAFE? Are requests served? | the same system with every monitored task able to hang and come back, both boot verdicts, one SEU to escalate, no keys | 0.9 million |
| `fdir_timing` | Does a healthy system ever time out, and is `AlarmInv` an invariant? | the code's own numbers in units of 100 ms (35, 10, 8, 30; 5 cycles; 5 SEUs; queues 4 and 8), work of up to 200 ms before and after each delay, both boot verdicts | 2.2 million |
| `sticky_bits` | Does a good cycle mean that all have kicked? | Heartbeat may hang | violated |
| `recorder_ring` | Does the ring implement a bounded log? | capacity 3, all kinds of events | 99 thousand |
| `recorder_races` | What can unlocked stores do to the ring, and is `RecorderInv` an invariant? | capacity 3, 5 events, 4 tasks and dumps | 1.6 million |
| `protection` | Is the check exact, the firmware never blocked, protection only growing? | every layout in an address space of 7 | 5236 (2618 layouts) |
| `scrub` | Can a race forget an error, run the counter away, leave a bit wrong for ever? | 2 bytes of 2 bits, 3 ticks (a fault in byte 0, two bits of byte 1), fault queue of 1, threshold 2 | 0.9 million |
| `kernel` | Do tasks wake on time, in the right order, is a queue a FIFO, and is `KernelInv` an invariant? | 5 tasks of 3 priorities, 4 workloads, ticks modulo 5, 9 ticks, queue of 2 | 1.4 million |
| `boot` | Is the image judged rightly, is the heap kept, and is what runs complete? | 5 bytes of 2 bits, CRC of 4 bits, every image and damage; every heap from 128 to 20 800 bytes, and the configured one | 0.2 million |
| `debug_boot` | Does the configured heap boot in a DEBUG build too? | as `boot` | violated |

**Why the bounds are enough.** *Queue of 2*: the proof shows the request queue
never holds more than two, so a longer one behaves the same. *Timeout of 3 ticks with `MaxBusy` 1*:
tasks can be late by a tick and cycles can both complete and time out; the only
relation the properties need is `MaxBusy < WatchdogTimeout`, and `fdir_timing`
uses the real proportions. *Hanging tasks*: whichever hangs in `fdir_safety`, the others' kicks
still come or not in every cycle; that all of them hang at once is what `fdir_liveness` is for.
*No keys in `fdir_liveness`*: a bounded number of keys are all pressed after finitely many
steps and change nothing that holds for ever or again and again, and the states
from which a system may then have to recover are reached by
hanging tasks, SEUs and both boot verdicts. *Thresholds of 2*: the smallest at which "one short of
the threshold" exists. *Two keys*: a state request against a toggle, an injection
against a forced scrub, two opposite state requests; more keys only wait, as the
command queue never holds more than one (proved). *Capacity 3, 5 events*: the
ring fills, wraps and overwrites; three writers of different priority can be
nested in one slot, and later undisturbed events still fit. *Address space of 7*:
two regions with a gap before, between and behind them, adjacent regions, and
regions at the top of the space. *Scrub*: two tasks can be in the same byte and in
different ones, there are faults in one byte, in two bits of a byte and in both bytes, and the fault queue,
of one slot, fills with the first event and drops the second; `MaxCount`
2 bounds the count from which an increment starts, since increments
that interleave with resets could be repeated without end. *Kernel*: the tick count wraps once
and a time-out can span the wrap; delays of 1 up to the modulus less one put tasks on either delayed
list; `MaxTicks` 9 is less than two periods; up to two ticks are pended while the scheduler is
suspended. The four workloads are the firmware's patterns: tasks that only delay; a
sender of higher priority than a receiver with and without a limit; a sender of the
receiver's own priority; a second receiver that only polls. *Boot*: one image with
every heap, and every image with the configured heap, because the heap does not
depend on the image. The heaps go in steps of the alignment from one that holds nothing to
one that holds everything, so every allocation is the first to fail in some. A CRC of 4
bits has all that distinguishes one of 32 (reflection, shifts over byte boundaries, both inversions).

**Deadlock** is checked except where the behaviour ends: in `recorder_races` and
`kernel` at the bound of events or ticks, in `boot` and `debug_boot` when the
system runs or has halted.

**Fairness.** `FairSpec` of `Fdir`: weak fairness of the tick and of each task's
steps. The timer interrupt is periodic hardware. A task's step is enabled only
while no task of higher priority is ready, so weak fairness says no more than that
the scheduler runs the highest ready task, in turn where there are several, which
`configUSE_PREEMPTION` and `configUSE_TIME_SLICING` give. Nothing is assumed of the
operator, of a hanging task or of which bits a scrub finds: no key need be pressed, no
hanging task need return. `FairSpec` of `Scrub`: weak fairness of MemScrub and of the
handler, which take turns; strong fairness of FaultInject, which is preempted by them
again and again but also gets the processor again and again, because both block
between short pieces of work. No fairness of the mode's changes or of the operator.

**Properties**

- `ImplementsRegister`: each accepted request takes effect, seen through `Settled`,
  exactly when it is posted; no internal step changes what was promised.
- `NoRequestIsLost`: whoever is about to post finds the queue created and a slot free.
- `NoCommandIsLost`: the handler empties its queue faster than it is filled.
- `TimeoutMeansSilence`: at a timeout either nobody has kicked in this cycle, or an
  awaited task has never kicked at all. This is weaker than the documentation's
  intent, and the strongest that holds (see `sticky_bits`).
- `InjectionOffUnlessOperator`: any task below the state machine finds automatic
  injection off in DEGRADED and SAFE, unless the operator has switched it on there.
- `NoFalseAlarm`: while nothing hangs, every cycle that is judged is complete; after a boot
  in DEGRADED, where FaultInject is waited for but does not kick, FaultInject is all that can be
  missing (`Excused`). `AlarmInv` is what makes it inductive.
- `DegradedIsTransient`, `SilenceEndsInSafe`, `RequestsAreServed`: liveness.
- `RingInv`, `IsBoundedLog`: the ring, and its refinement of `BoundedLog`.
- `QuietEventsSurvive`: an event recorded without overlap is whole in the ring until
  `Capacity` more have been recorded, whatever races follow. `RecorderInv` adds
  that no race makes an index leave the array or the count exceed it (`RacesInv`), and what
  the proof of `QuietEventsSurvive` needs (`QuietInv`).
- `ChecksAreExact`: the two comparisons of `region_overlaps` decide what a check of
  each byte would. Accesses that run past the top of the address space are left
  out, except those of one byte, which the firmware asks for.
- `ProtectionOnlyGrows`, `NeverBlocked`, `FwInv`: see the module.

- `CounterBelowThreshold`: the counter stands at its threshold only while a task is
  about to escalate and reset it. Increments may be lost or doubled, and the count can
  pass the threshold before the reset; an escalation is never passed over.
- `NothingForgotten`: every wrong bit has an event in the queue or in the hands of a task, in
  every mode, unless it is `lost`. A bit is lost in two ways only: its event found the queue
  full, or a task wrote back a byte that another had written since it was read,
  and so brought back a bit that had been put right. That a race never loses any other
  bit of the byte is what the property says.
- `QueuedIsRepaired`, `AreaIsCleaned`: liveness. The first holds in SAFE too; the second is
  for what is lost, and needs the injections to stop.
- `SleepsUntilDue`, `EmptyOnlyWhenDue`: a delay or a time-out lasts as many ticks as were
  asked for, through pended ticks and the wrap.
- `RightTaskRuns`, `FairShare`, `NoLostWakeup`: scheduling and waking. `KernelInv` is what
  makes the first and the last inductive: `TypeOK`; every task is in one list for its state,
  once (`InOneList`); only the running task holds the scheduler up, and no yield is
  forgotten (`ControlInv`); whoever waits was given a time, and the idle task is ready (`WaitInv`).
- `ImplementsFifo`: the queue's ring and its waiting receivers implement `BoundedQueue`.
- `HeapIsConsistent`, `ObjectsAreApart`, `RunningIsComplete`, `ConfiguredBootCompletes`,
  `ModeTellsImage`: the boot; see `Boot`.
- `IntactIsAccepted`, `DamageIsRefused`, `CrcIsRemainder`: the image check. The second says of
  any burst of wrong bits no longer than the CRC and of any two wrong bits that they are
  found. The third compares with the definition of a CRC as the remainder of a division of
  polynomials.

Each property has a mutant in `PROJECT.json`: a plausible bug in a modelled
definition under which TLC finds that property violated.

## 5. The proofs

Eight modules hold proofs, which TLAPS checks to the last leaf. Assumptions on constants are named in the modules that declare
them: positive periods, thresholds and lengths; `StateQueueLength >= 2` (the code
has 4); `MaxBusy < WatchdogTimeout` (the processor is never busy for 3.5 s without
a pause, else the watchdog rightly reports a failure); `MaxRegions >= 2` (the code
has 8); the stack of the first task is no smaller than the command queue (in the code 2048 bytes and 176);
stacks are not empty, and each heap has room for one block header between its rounded ends
(`HeapsAssumption`: in less than that the unsigned sizes of `prvHeapInit` wrap).

**Fdir.** `TypeCorrect`, then `Invariance` for
`Inv == TypeOK /\ NotifyInv /\ QueueInv /\ PolicyInv /\ NoCommandIsLost`, with the
others as consequences. None of the properties is inductive alone:

- *`NoRequestIsLost`* needs to know that a third request cannot come before the first
  two are served. Tasks of priority 2 post only when the state machine waits for an
  empty queue (`LowerTaskRuns`), so they leave at most one request. The watchdog
  alone can add a second, and has then just begun a cycle: `FreshCycle` says that it
  has received nothing and that `remaining + busy >= WatchdogTimeout`. For a
  third request it would have to finish the cycle: by a kick, but no task that kicks can
  run before the state machine; or by the deadline, but then `busy` would have reached
  the timeout, which `MaxBusy < WatchdogTimeout` excludes. The same argument covers
  the time before the queue exists.
- *`TimeoutMeansSilence`* needs `NotifyInv`: once a kick of this cycle has been taken, the
  watchdog holds everything the notification word does.
- *`InjectionOffUnlessOperator`* needs `PolicyInv`: a forbidden flag is set only while the
  state machine is about to run the policy, and then it is ready, so no lower task runs.
- *`NoCommandIsLost`*: the input task runs only when the handler waits on an empty queue.

`KicksAreTimely` and `AlarmsAreTrue` prove `AlarmInv` and `NoFalseAlarm` for every system with
`PeriodsAreKept`: no task hangs, the operator neither changes the mode nor
corrupts memory, and Heartbeat's and FaultInject's periods plus *twice* `MaxBusy` are less than the
timeout. Twice, because the task may have to wait for the processor both before it calls `vTaskDelay` and after
the delay is over: FaultInject's first kick comes up to `MaxBusy + InjectPeriod + MaxBusy` after the
watchdog's first deadline began, and Heartbeat's next one as long after the kick before it.
`TimelyInv` compares two clocks: for every kick still needed, the time until the task
that owes it is due at the latest (`KickDue`) ends before the watchdog's. A kick is
owed by whoever has never kicked and, since bits stick, by Heartbeat in every
cycle. `UntroubledInv` says why FaultInject comes to its first kick after a boot in NOMINAL: until
then there is no error in memory and so no way out of NOMINAL, the only mode it kicks in. After a
boot in DEGRADED it owes none, and every other kick still comes in time. The bound is
exact: with the code's numbers `fdir_timing` holds for `MaxBusy` 2, where 30 + 2 * 2 = 34 is less than 35,
and TLC finds a false alarm for `MaxBusy` 3 (36), and for `MaxBusy` 2 with a period of 31 (35).

**State machine.** `QueueingIsInvisible` proves `ImplementsRegister`: any tasks may post at any time, and a
request that is accepted takes effect when it is posted, for any length of the queue. The refinement mapping
`Settled` is a fold over the request in hand and the queue; an accepted request is appended to what
it goes over, and a step of the task moves its first element from the queue to the hand, and from the
hand into the mode (`AfterOneMore`, from `FoldLeftConcatenation`). `AloneInv` adds that nothing is in
the queue before it is created. The state machine is proved about on its own here
(`Alone`, an instance of `StateMachineImpl`); `NoRequestIsLost` above says that in the whole
system every request is accepted.

**EventLog.** `RingIsWellFormed` proves `RingInv` (before the ring is full, the head
equals the count), and `RecorderIsBoundedLog` proves the refinement for every
capacity: the dump is the window of entries that begins at `Oldest`
(`DumpedEntries`), and storing appends to it, dropping the first when full
(`StoreRecords`). `SumInRing` and `ModWraps` carry the arithmetic modulo the capacity.

**Memory protection.** For any callers at all (`ProtSpec`):
`ProtectionTypeCorrect`, `ChecksExact` for every address space, table, address and
size, and `GrowsOnly`. For this firmware (`FwSpec`) and every layout:
`FirmwareNeverBlocked`, by `FwInv`, that the table holds the text and the scrub area
and nothing else (`FirmwareInvariance`).

**Recorder under races.** `RacesStayInRing`: whatever the interleaving, no access leaves
the array, for any capacity and tasks. `RacesInv` adds to `TypeOK` what a writer holds in its
registers: a count or an index that is about to be used is less than the capacity, and
a writer under way has an event. `QuietEventsAreKept` proves `QuietEventsSurvive` by `QuietInv`:
what other writers hold (a slot, or a head about to be stored) is ahead of an
undisturbed event's slot by no more than the number of events recorded since, although
races may store an old head or advance it twice; so nothing comes round to that slot
before `Capacity` more events have come. `ModWraps` and its kin carry the arithmetic of the ring.

**Scrub.** `MemoryInv == TypeOK /\ LoadedIsCurrent /\ NothingForgotten`. `NoErrorIsForgotten`
needs `LoadedIsCurrent`: the byte a task has read and is about to write back is still what
the area holds, unless the task is `stale`, since another one has written the byte meanwhile. Then a write
by a task that is not stale brings no wrong bit back, and one by a task that is
brings back only bits that `lost` has. That the lost ones are put right in the end is
`AreaIsCleaned`, which is model-checked. `CounterIsBounded` needs that a task past its increment is on its way to compare.

**Kernel.** `QueueIsFifo`: the refinement of `BoundedQueue` for any length, tasks and items.
`RingInv` relates the write and the read position by the number of items; this proof uses
nothing about the scheduler, only that each critical section is one step.

*The scheduler.* `KernelStaysOrdered` (`KernelInv`), `HighestPriorityRuns` (`RightTaskRuns`) and
`NoWakeupIsLost` (`NoLostWakeup`), for any tasks, priorities, delays, waits, length of the queue and
width of the tick count, and for ticks that come in anywhere. Assumed is that the tasks are
created one after the other, each once, that priorities are natural numbers, and that one task of priority 0, the idle
task, neither delays nor waits (`KernelAssumption`, `QueueAssumption`); the kernel
itself relies on the last, else its search for a ready task ends in an assertion
(`FreeRTOS/Source/tasks.c:202`).

The proof follows the calls. Lemmas about lists (inserting in order and at the
index, removing) give what each operation of `KernelTasks` does to `InOneList` and to the sets of ready,
blocked and waiting tasks: `BecomesBlocked`, `Selects`, `Resumes` and `Starts` bundle what
callers need, so that the proof of a caller does not open its callee. The loops over expired
tasks, pended ticks and tasks to create are folds; `FoldLeftReaches` of `Folding` carries what holds
after each round. `RightTaskRuns` is not inductive alone for two reasons. A task made ready while
the scheduler is suspended may have a higher priority than the running one until the
yield that `xTaskResumeAll` makes: `ControlInv` says that until then no one else runs, and
`Resumes` that either a yield is then pending or nobody is higher. And the choice of the next task
takes the highest list that is not empty: that there is one needs a task that
never blocks (`WaitInv`), and that the search finds it needs that `uxTopReadyPriority` is no lower than
any list with a task in it (`ReadyListSound`).

`NoWakeupIsLost` has the hypothesis `OneReceiver`: in each workload one task waits for the queue,
as in the firmware, where each queue has one receiver that waits (TLC checks it of the
instance, `WorkloadsAssumption`). With two the property is false and
should be: two wait, one item comes, one of them is woken and has not run yet. A send then
leaves nobody waiting (`SendWakes`), and a task begins to wait only after it has seen, with the
scheduler suspended, that the queue is empty; no other step adds a waiter or an item (`FewerWait`).

*Fair shares.* `SharesAreFair` (`FairShare`), for any tasks. The bound alone is not inductive. `Fair`
says, for each ready list, how often the task at a place has been passed over at most: what counts is
whether the index still has to come to it, how many tasks are in between, and whether the
list can still grow, since whoever blocks moves the index back and whoever wakes is inserted
before it. A list with all the tasks of its priority cannot grow, which closes the bound at twice
the number of peers, for all of them together.

*Times.* `EmptyHandedOnlyWhenDue` (`EmptyOnlyWhenDue`) and `SleepersAreOnTime` (`SleepsUntilDue`). `Timed` says
that both delayed lists are in the order of wake times, that those in the first wake before the
count wraps and those in the other after it, and that the kernel's next time to unblock is no later than the
first. `Timely` relates what is left of the time a task was given to three things: its wake time while it
sleeps, the ticks it is about to ask for, and the time out it has noted. Time is `Clock`: the
ticks counted plus those that have come in while the scheduler was suspended, which
`xTaskResumeAll` catches up with one by one.

`Timely` has two halves. Nobody comes back early: this one needs nothing. Nobody oversleeps
needs `Prompt`: no task is held up between two looks of one `xQueueReceive`, at the queue and at the
time, while the tick count wraps twice. `xTaskCheckForTimeOut` asks only whether the number of wraps
has changed (`FreeRTOS/Source/tasks.c:5636`), and takes a second wrap with a lower count than the
one noted for a part of one lap. TLC finds that counterexample with `TickModulus` 4, `MaxTicks` 13 and the
workload `Beside`. With a tick count of 64 bits it takes longer than the hardware lasts.
`SleepersAreOnTimeAtFirst` drops the condition where fewer interrupts come than two wraps take, as in
the instance TLC checks.

**Boot.** `WhatRunsIsComplete`: for any heap, list of tasks and sizes. The one
creation nobody checks is that of the command queue. It is the second allocation, so the heap then has at
most one free block, and what does not fit into it rules out whatever is as large
(`NoRoomGrows`). The next allocation is the first task's stack; when it fails,
`main` halts. `BootInv` says for each call what exists before it.

*The image.* `IntactImageIsAccepted`: for every image, CRC width and polynomial, an undamaged
image is accepted exactly if it was patched and its CRC is not 0. The firmware computes the CRC
of what is before the slot and goes on with what is behind it, the script computes it of
both joined; `FoldLeftConcatenation` says that it is the same. Nothing about the polynomial is needed.

*The CRC.* `CrcIsTheRemainder` (`CrcIsRemainder`), for every width, polynomial, size of a byte and of the
image, place of the slot and contents. A polynomial is the set of its exponents. After some bits
the register is the upper end of what is being divided (`Stands`): one shift is one step of the
division (`ShiftDivides`), and the exclusive or with the next byte adds the next part of the dividend
(`ByteIsTaken`). `DataIsMessage` numbers the bits of the two pieces round the slot.

`DamagedImageIsRefused` (`DamageIsRefused`) follows from this. The division is linear
(`RemainderIsLinear`), so if the image before the damage and after it are both accepted, the generator divides
the polynomial of the wrong bits (`AcceptedDiffer`), in which a bit of the slot stands for a
low exponent. A burst of up to `Width` bits it never divides: a shift cannot make a register 0, since the generator's lowest
coefficient is 1 (`BurstLeaves`). Two bits it does not divide if it divides no sum of two
powers as close (`PairLeaves`); that is the hypothesis `TwoBitsDiffer`, that the order of the polynomial
exceeds the bits of the image. For CRC-32 the order is 2^32 - 1 and the image has some hundred
thousand bits; for the polynomial of the instance, of order 15, and its 10 bits TLC evaluates it
(`OrderExceedsImage` in `BootMC`). With it `ModeTellsTheImage` says that mode and flight log tell
the truth about every image.

*Enough heap.* `EnoughHeapBoots` (`ConfiguredBootCompletes`): if the configured heap has more free bytes than the blocks
of all objects take (`HeapSuffices`), the boot of a release build never stops. Until the scheduler runs
nothing is given back, so there is one free block, from which each creation cuts its piece.
TLC evaluates `HeapSuffices` for the code's sizes (`ConfiguredHeapSuffices` in `BootMC`).

*The heap.* `HeapStaysConsistent` and `ObjectsStayApart`, for every heap its first header fits in (`HeapsAssumption`), and every alignment, header and sizes.
The invariant `SoundHeap` says that the books of the allocator are right: blocks
tile it from the first address to the end marker (`Tiling`), the list has exactly the free ones
in the order of addresses, no two adjacent (`Listing`), and the number of free bytes is their
sum. A block is taken whole or in part (`TakenWhole`, `TakenPart`); one that is given back may touch
at most its two neighbours in the list, and merging with neither, either or
both keeps the books (`Returned`, `Joined`, `InsertKeeps`). `OwnBlocks` says that every object
has an allocated block of its own, which is large enough.

**Folding.** Folds and sums are defined by recursion. TLAPS cannot instantiate the library's induction
theorems, which take a predicate; `Folding` has induction for *sets* (a set with 0 that has n + 1
for every n in it has all numbers), derived from the well-foundedness of finite sets,
and from it what folds from the left and sums over finite sets compute.

**Only model-checked**: liveness (TLAPS has no fairness or ENABLED here), and that the constants of the
code meet the hypotheses above. Every invariant and every action property that a passing run
checks is also proved.

## 6. Where code and documentation differ

Two have a run whose counterexample TLC finds (`PROJECT.json`, "findings"):

1. `sticky_bits`: `xTaskNotifyWait(0, 0, ...)` clears no bits (`src/watchdog.c:97`), so
   a task that has kicked once counts as alive as long as any other task kicks, against
   README.md:103.
2. `debug_boot`: a DEBUG build asks the kernel for the handle of the idle task before the
   scheduler has created it (`src/tasks.c:91`, `src/telemetry.c:109`), and the kernel's
   assertion (`FreeRTOS/Source/tasks.c:4537`) stops the boot, against README.md:81.

Met while modelling; the models have the behaviour, no run is spent on it:

- A healthy system booted in DEGRADED times out: FaultInject kicks only in NOMINAL
  (`src/fault_inject.c:55`), but is waited for in DEGRADED (ARCHITECTURE.md:53, 91).
  After a boot in NOMINAL the kept bits of item 1 hide this. `NoFalseAlarm` says that nothing else
  is missing then.
- The timeout after the one that led to DEGRADED asks for DEGRADED again, since the
  mode was copied too early (`src/watchdog.c:88`); SAFE comes one watchdog period later
  than README.md:91 says.
- An injection decided in NOMINAL may land in SAFE (`src/fault_inject.c:57`, ARCHITECTURE.md:48).
- Two tasks in `event_log_store` can share a slot and advance the head twice, so that a dump prints
  an entry nobody recorded, or one mixed of two (`src/event_log.c:17`, ARCHITECTURE.md:60).
- `event_log_record_seu_corrected` cuts the byte index to eight bits (`src/event_log.c:64`),
  though the scrub area has 512 bytes.
- The critical text is registered as READ and EXEC (`src/critical_exec.c:13`), where
  ARCHITECTURE.md calls it execute-only.
- An injection or a repair that was read before another task's repair and is written after
  it undoes that repair; the background scrub finds the bit again outside SAFE.
- Round robin is not one turn each: when the running task blocks, `pxIndex` moves back
  (`FreeRTOS/Source/list.c:232-235`), and a task made ready then is inserted before
  it (`list.c:118-120`). While a task is ready, others can be chosen before it up to twice as often, in all, as it has peers (`FairShare`).
- `xTaskCheckForTimeOut` does not count the wraps of the tick count (`FreeRTOS/Source/tasks.c:5636`): after
  two of them it may let a wait go on for longer; with 64 bits that takes longer than the hardware lasts.
- An intact image whose CRC is 0 is refused, one in 2^32 (`src/image_integrity.c:50`).
- There are heaps, smaller than the configured one, with which all tasks are created and the state machine
  then fails to create its queue after the scheduler has started; `xQueueReceive` then asserts.

## 7. Not modelled

- **Telemetry, ISR stack guard**: DEBUG builds only, read and print. Their one effect on
  the boot is a step of `Boot`.
- **UART, timer, interrupt, string, startup.s**: register-level I/O and library code;
  `timer.c` and `interrupt.c` are unused once FreeRTOS owns the traps.
- **The rest of FreeRTOS**: vendored. Not compiled or never called here are the SMP
  scheduler, static allocation, deletion and suspension of tasks, changes of priority, mutexes and
  priority inheritance, sending with a block time, queues used from interrupts, queue sets, event
  groups, stream buffers, software timers, co-routines, tracing, the MPU wrappers and the other
  heaps and ports. A model of these would have no caller in this firmware to take its inputs from.
- **Crash and restart**: nothing is persisted; a reset is a boot.

About 35 000 of the 39 500 lines of source are FreeRTOS, mostly comments, declarations and
the parts just listed. The application's own files, some 2400 lines, are mapped but for
printing and register access, and so is each kernel function the application
runs through; that is why the mapped share of all lines is small and stays so.

## 8. Plan

Done, in this order: the core (`SystemDefs`, `StateMachine`, `ModeRegister`,
`StateMachineImpl`, `Watchdog`, `Fdir`), the recorder (`BoundedLog`, `EventLog`,
`EventLogRaces`), the protection (`MemoryProtection`, `FirmwareProtection`), the
scrubber (`Scrub`), the kernel (`KernelLists`, `KernelTasks`, `KernelQueue`,
`BoundedQueue`), the boot (`ImageIntegrity`, `Heap`, `Boot`), and the proofs of
section 5.

Left: a history of episodes in DEGRADED in `Watchdog`, for the count of good cycles that
survives them, if the documents come to say what it should be.

The runs are kept few, one for each question; when a later module needs room, runs
that document a divergence give way to runs that establish a property.
