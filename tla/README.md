# Verification of the sepextract tracing framework and its analyser

The repository holds the software of a thesis on extracting processing models
from an instrumented Linux kernel (a Galaxy Nexus phone, two Cortex-A9 cores).
Its own code is a kernel tracer, a collector on the phone, a shell script that
runs experiments, and Go programs that turn a trace into *signatures*
(per-service lists of events and processing times) and delays. The rest of the
tree is the vendored Linux kernel with tracepoints inserted, the bcmdhd
driver, build files and recorded data.

This directory models that own code, and the instrumented kernel primitives it
rests on, in TLA+; it checks the models with TLC and proves their safety
properties with TLAPS. `PROJECT.json` lists components, runs, mutants, the map from
definitions to source lines, findings, hazards and theorems.

## 1. The system

```
 instrumented kernel paths (any CPU, task / softirq / interrupt context)
      | tracepoints, kprobes: static.c, dynamic.c
      v trace_entry()
 entry buffer in the kernel  --WAKE_UP_USNL-->  usnl (user space, phone)
 sepext_trace.c              <--REQUEST_ENTRY-- usnl.c
                             --entry/EOD/STOP-->    |
                             <--SYNC_COMPLETE--     v
 experiment.sh --SEPEXT_STOP (procfs)-->        trace.out
                                                    |  resolve.go
                                                    v
               signatures <-- analyse.go <-- trace.res --> intraosdelay.go,
                                                           migrationdelay.go
```

| component | state | operations | interaction | what makes it correct |
|---|---|---|---|---|
| tracer (`sepext_trace.c`) | entry buffer, `lastentry`, `lastread`, `tracing_active`, `tasklet_scheduled`, `stop_tracing_requested`, `us_pid` | `trace_entry`, `stop_tracing`, `nl_rcv_func`, `schedule_usnl`, `awake_usnl` | called from every context of every CPU; netlink to usnl; IPI to CPU 0 | slots in bounds and exclusive, entries in cycle order, exactly one wake-up per full buffer |
| collector (`usnl.c`) | `curcount`, `inservice`, `outcount`, `trace.out`, its socket's queue | request loop, wait, sync, stop | netlink, file | every entry once, in order; sync only when drained; stop ends the session |
| module life cycle (`sepext.c`) | /proc entries, buffer, socket, registered probes | load, unload | probes of all CPUs, commands and stops meanwhile | nobody uses what is not there |
| dynamic probes (`dynamic.c`) | table of kprobes, `lastprobe` | `add_probe`, cleanup | procfs, kprobes | table bounds, nothing left armed |
| queue probe (`static.c`) | table of extractors | `add_pktextr`, `probe_sepext_pktqueue` | procfs, `trace_entry` | one group of lines per packet |
| driver (`experiment.sh`) | experiment counter, adb shells | boot, start usnl, traffic, stop, timeout, pull | adb, procfs | one usnl at a time, own and whole traces, the series ends |
| resolver (`resolve.go`) | two channels, symbol table, cache | read, resolve, print | goroutines | order kept, nothing dropped, nearest symbol, termination |
| analyser, replay (`analyse.go`) | `CurrentLEU`, `ServiceStack`, `Interrupted`, `LEUs`, `CurrentPEU`, `TempVars`, `LastAppended`, limbo per CPU | one handler per event type | reads the trace | right LEU, service, device and variable for every line; whole instances; no panic |
| analyser, cycles | `PerCPUTraceState` | a line, EOD | feeds durations | total follows real time |
| analyser, signatures | locals of `createSignatures`, `Profile` | one event of an instance | reads instances | durations add up and stay beside their events |
| delay scripts | `packets`, `rxstart`, `lastMigration`, cycles | a line, EOD | read the trace | reported delays are real |
| kernel primitives (`semaphore.c`, completions in `sched.c`, tasklets in `softirq.c`) | counts, wait lists, tasklet state bits and queues | down/up, wait/complete, schedule/run/kill | tracer's own tasklet; source of SEM*, COMPL, softirq lines | nothing lost, nobody forgotten |

What is hard: contexts nest on a CPU and run in parallel on two; the wake-up
protocol has no acknowledgement and shares a queue with the replies; usnl can
be killed between any two of its steps and the kernel is not told; probes run
while the module is loaded and unloaded; the trace has gaps in which anything
may have happened; the analyser must reconstruct nesting per CPU from
interleaved lines; a timeout or signal races with the hand-over it waits for.
The list `hazards` gives the lines.

## 2. Modules

| module | models | composition |
|---|---|---|
| `SepextTrace` | the kernel side under an arbitrary client (`KSpec`) | |
| `TraceSystem` | `SepextTrace` with usnl as client, the stop command, kill and restart | EXTENDS `SepextTrace`; on one CPU implements `DrainCycle` |
| `DrainCycle` | abstract: rounds of events recorded, sent and stored whole | instantiated by `TraceSystem` (`DrainRounds`) |
| `Lifecycle` | load and unload beside probes, commands, stops | |
| `DynProbes` | the table of dynamic probes | |
| `PktQueue` | extractors, queue probe, and `handlePKTQUEUE` reading its lines | |
| `Experiment` | the series of experiments and the phone | |
| `Analyse` | the replay, beside the machine that produces the lines | |
| `Peu` | `AppendToPEU`, `handleSync`, `handleTEMPSYNCH`, beside a driver and its DMA interrupt | |
| `CycleCount` | cycle totals of one CPU | |
| `Signatures` | `createSignatures` for one instance, index walk of `storeSignatures` | |
| `Resolve` | the goroutine pipeline | |
| `Delay` | both delay scripts, beside the forwarding of packets | |
| `Semaphore`, `Completion`, `Tasklet` | the instrumented kernel primitives | |
| `MCAnalyse` | symmetry of the threads of `Analyse` | EXTENDS `Analyse` |
| `MCUnload` | TLC instances: `Lifecycle`, `DynProbes`, `Tasklet` | EXTENDS the first, INSTANCEs the others |
| `MCMeasure` | TLC instances: `CycleCount`, `Signatures`, `Peu`, `PktQueue`, `Delay` | EXTENDS the first, INSTANCEs the others |
| `MCKernel` | TLC instances: `Semaphore`, `Completion` | EXTENDS the first, INSTANCEs the other |
| `MCTools` | TLC instances: `Resolve`, `Experiment` | EXTENDS the first, INSTANCEs the other |
| `SepextTraceProofs`, `CycleCountProofs`, `TraceSystemProofs`, `AnalyseProofs` | theorems about one module | EXTEND it, and TLAPS |
| `UnloadProofs`, `KernelProofs`, `ToolsProofs`, `MeasureProofs` | theorems about the components of an MC module | EXTEND the MC module, and TLAPS |

An MC module of several components is their disjoint union. The components of
one such module share no variable, so there is nothing to interleave: a
variable (`which`) is chosen in the initial state and
says which one runs; a step is a step of that one and leaves the others as they
began, and fairness is that of the components. TLC thus explores the sum of
their state spaces, not the product, and every property is checked in every
behaviour of its component. The definitions of the components are used
unchanged; the MC module repeats the names of the properties it checks of
instances.

Operators named `X_Something` with a comment "Fault:" are not used by any
specification; each is a plausible mistake in place of the definition `X`, and
a property fails when it is substituted (`mutants`).

### SepextTrace

One step is one access to a variable other contexts also access. A context is
`<<cpu, level>>`: level 1 is the running task, `IrqLevel` the interrupt
handler, levels between them softirqs, and level 0 of `UsnlCpu` the collector's
own thread, in which `nl_rcv_func()` runs (a netlink send calls it
synchronously). `pc[c]` follows `trace_entry()`: `reserve` (after the test of
`tracing_active`), `stamp` or `full`, `write`, `test`, `call`. Higher levels of
a CPU suspend lower ones (`Runs`), and none starts while one below has
interrupts off (`IrqOff`). `hpc` follows the four commands of `nl_rcv_func()`
statement by statement; in REQUEST_ENTRY each test and the message it decides
on are steps of their own. `slot`, `cyc` are the locals `a` and `cycles`;
`epoch` counts resets of `lastentry` and `epo` remembers the one a slot was
drawn in (both are there for the properties only). `ccnt` is the cycle counter,
which ticks once per call; its wrap is the subject of `CycleCount`.

A message is lost when `nlmsg_new()` fails (`Lose`) or when no socket has
`us_pid`. The buffer is not cleared, so unwritten slots hold `Garbage`.

Abstractions: sequential consistency; the fields of an entry are written in
one step; usnl's thread does not migrate between CPUs; the tasklet may run on
any CPU; an entry is its CPU, count and kind (a service entry, a service exit,
another event, an ID).

### TraceSystem and DrainCycle

`upc` follows `main()` of `usnl.c`: `start`, `loop` (send a request), `recv`,
`sync`, `wait` (the second `recvmsg()`), `bye`, `close`, `off`. `f` is
`trace.out`. `totcount` is never incremented in the code, so the loop has no
bound of its own. `experiment_end` writes `SEPEXT_STOP`, only to a session that
runs unless `StrayStops`; `kill` ends usnl between system calls, a SIGKILL from
outside (`analyse.go:524` reckons with it), and leaves the kernel's variables as
they are.

`DrainCycle` says what the two promise together without naming a message or a
flag: events are recorded in rounds, a round is sent in the order of its slots
and stored in the file in that order, and only then does the next one begin; a
mark never falls inside a round; at most the first event of a round is sent and
not stored. The mapping (`Open`, `Round`, `Stored`) reads the round off the
entries of the current epoch and what of them is in the file. The refinement
holds on one CPU without stops and kills; the runs `DrainRace` and `SmpWakeup`
show ways in which stronger statements fail.

### Lifecycle and DynProbes

`mpc` follows `sepext_init_module()` and `cleanup_module()` call by call, on
one CPU, while probes fire on all; a probe is cut down to the resources it
touches (`probe`: testing, writing, waking). `synchronize_sched()` waits for
the CPUs that were inside a probe when it began (`waiting`). `initialize_tracer`
may fail at each of its three resources. `Unpaired` are the tracepoints that
are registered and never unregistered. The recorded kernels have the tracer
built in (`CONFIG_MODULES` is not set), so unloading is about the
module the code also is. Not covered: the IPI of `schedule_usnl` still in
flight at unload; the /proc entry `pktextr`, created and removed with the
static probes.

`DynProbes` has one action per registration; the kernel's view (`armed`) is
keyed by structure and address as in `kprobes.c`.

### Experiment

The script's steps beside a phone that owes it nothing: usnl may come up late,
not at all, or never stop. `killall adb` ends the clients on the PC only; a
reboot ends what runs on the phone and keeps its files. `stopping` is
`stop_tracing_requested`: the stop is noted whether a usnl runs (`"own"`) or not
(`"kept"`), and START_TRACING does not clear it, so that a stop kept from an
experiment whose usnl failed or was late ends the next session at any time, its
traffic unfinished. `misled` remembers the experiments whose usnl came up to a
pending stop.

### Analyse, Peu, PktQueue

The machine has, per CPU, a running thread and possibly an interrupt handler,
and per LEU (thread or interrupt) the activations it is inside of. Its actions
follow the order of tracepoints in `irq_enter`, `handle_irq_event_percpu`,
`irq_exit`, `__do_softirq`, `context_switch` and `pull_task`. Each step writes a
line, which `ReadLine` replays with the operators that translate the handlers
(`state` is the Go struct `State`; a Go map is a partial function). `BufferFull`
starts a gap (EOD in the trace), during which the machine moves on unseen.
Threads migrate by `pull_task`, whose line may be written by a CPU in limbo (then
`run` skips it) or name one, and by `try_to_wake_up`, which has no tracepoint;
`astray` remembers the threads that left a stack behind since the last EOD, at
most `MaxAstray` at a time, and none after the last of the `MaxGaps` gaps.
`state.panic` is the type of the line at which the analyser panicked.
Of an element's `Entries` the first and the last are kept, the only ones these
handlers read; of `LEUs` the set of keys and the instance the last line stored.

PEUs, temporary variables and packet marks do not feed back into stacks or
LEUs and have modules of their own. `Peu`: a driver declares a completion on
its stack, starts the DMA engine and waits, other interrupts and another
completion come in between, a wait may time out, the buffer may fill; `hist`
remembers what really happened to the transfer. All of it is on CPU 0, since
`AppendToPEU` ignores other CPUs. `PktQueue`: the probe traces one line per
extractor of the queue and is interrupted between two, and the lines of two CPUs
interleave; the two branches of the probe (by queue number, by list head) differ
only in how a queue is known. `mixed` remembers the packets of which a line was
read while a group of the other CPU was incomplete.

### CycleCount, Signatures, Resolve, Delay

`CycleCount` keeps the real elapsed time beside the analyser's total; between
two counted lines less than one turn of the counter is assumed (6 s at 700 MHz;
the timer interrupt alone writes lines more often).

`Signatures` produces one instance line by line together with the real time
spent in the service (`own`) and in interrupts that hit it (`hit`), and runs the
loop body of `createSignatures` on each line. Event types that are treated alike
are one action (`Point`). Five kinds of instance differ: a service, a pass of a
loop, `irq_enter`, a pass of a loop of `__do_softirq` that lies in `irq_exit`, and
an interrupt handler dequeued in `handle_irq_event_percpu`, whose exit carries no
name. `Unregistered` is the other branch of `PushNewService`: loops and softirqs
at a location in `irq_exit` are not registered with their caller.

`Resolve` has one action per channel operation and per word; addresses are
numbers, so "nearest symbol below" is meant literally.

`Delay` has both scripts (`script`, chosen at the start), which differ in what a
delay is measured from and in the migration. `held` remembers when a forwarded
packet really was received; the phone's own packets share numbers with forwarded
ones. `Migrates` has every `pull_task` of both CPUs; `migrationdelay.go` reads
lines of CPU 0 only and compares the PID with `currpid` (`Taken`), and `moved`
remembers when such a line was last written.

### Semaphore, Completion, Tasklet

A critical section under the lock (semaphore, completion) or an atomic bit
operation (tasklet) is one step. A sleeping task is woken by the hand-over, by
its timer, by a signal, or by someone else; these may coincide.
`down_interruptible` and `down_killable`, and the waiting variants of a
completion, are one kind each, since only the signals that count differ.
`x->done` keeps its width; at most one `complete_all()` is modelled, since two
of them overflow the count. `tasklet_hi_action` is the same code over another
queue and is not repeated; `ksoftirqd` and the restart loop of `__do_softirq`
are the same step.

## 3. Runs

| run | bounds | shows |
|---|---|---|
| `Smp` | 2 CPUs, 2 levels + usnl, 2 slots, 2 calls per CPU, 2 sessions, 1 kill | `TypeOK`, `WriteInBounds`, `SlotExclusive`, `CycleOrder` |
| `Drain` | 1 CPU, 2 slots, 10 calls, 2 sessions, no stop | `NoLostWakeup`, `FileFaithful`, `OnlyMatchedExitsCounted`, `FullBufferDrained`, and that `TraceSystem` implements `DrainCycle` (`DrainRounds`) |
| `Client` | 1 CPU, 5 calls, stop at any time, kill, 1 lost message | `RequestAnswered` |
| `Unload` | `Lifecycle`: 2 CPUs, 2 tracepoints of which 1 unpaired, 1 dynamic probe | `BufferLive`, `TextUnused` |
| | `DynProbes`: table of 3, 4 requests, 2 addresses, 1 writer | `LoopInTable`, `NoneLeftArmed` |
| | `Tasklet`: 2 CPUs, 2 tasklets, 4 calls | `Exclusive`, `KilledGone`, `ScheduledRuns` |
| `Analyse` | 2 CPUs of which 1 runs handlers, 3 threads, 1 IRQ, depth 2, 1 gap, 1 thread astray | `LEUTracked`, `StackTracked`, `InstancesWhole`, `NoPanic` |
| `Measure` | `CycleCount`: counter of 5 values, 16 cycles | `CyclesFollow`, `CyclesGrow` |
| | `Signatures`: 6 lines | `DurationsAligned`, `OwnTimeCharged` |
| | `Peu`: 2 transfers, 3 other interrupts or waits, 1 gap | `PeuExact`, `UsersOwn` |
| | `PktQueue`: 2 CPUs, 2 queues, 2 extractors, 3 packets, 2 interrupts | `OneMark`, `Extracted` |
| | `Delay`: 2 CPUs, 3 threads, 2 packets, counter of 3 values, 10 cycles, 1 gap | `DelayExact` |
| `Kernel` | `Semaphore`: 3 tasks, 1 permission, 1 from outside | `Conserved`, `NoBarging`, `DownReturns` |
| | `Completion`: 3 tasks, 2 `complete()`, 1 `complete_all()` | `WakeupsSuffice`, `WaitEnds` |
| `Tools` | `Resolve`: 3 lines of 2 words, channels of 1 | `PrintedFaithful`, `ToolsEnd` |
| | `Experiment`: 3 experiments, 3 polls | `OneUsnl`, `PulledWhole`, `ToolsEnd` |
| `StopRace` | 1 CPU, 5 calls, 1 stop | violation of `StopCompletes` |
| `SmpWakeup` | 2 CPUs, 2 slots, 3 calls per CPU | violation of `NoLostWakeup` |
| `DrainRace` | 1 CPU, 4 calls | violation of `DrainedBeforeSync` |
| `AnalyseIrq` | 2 CPUs that both run handlers, 4 threads, 2 IRQs, none astray | violation of `LEUTracked` |

Why the bounds are enough. Two slots and two calls on each of two CPUs let
both CPUs find the buffer full and race for `tasklet_scheduled`, or one of
them fill it and the other draw a slot after the reset, with a call of the old
epoch still in flight; what `Smp` checks is also proved without bounds
(section 4). Ten calls on one CPU fill and drain the buffer three times, so that
flags left over from one round meet the next. Three threads let each
CPU in turn have a thread to switch to, which ends its limbo, and one of them
migrate with a service open, seen or unseen. A thread goes astray only before the
gap: a stretch begins in limbo wherever it lies, the machine may have entered
anything by the first CTXSW, and the gap then shows what EOD forgets. Depth 2 holds a handler in an interrupt, or an
interrupt in a service; what `Analyse` checks is also proved for every depth,
number of threads and number of gaps, threads astray apart (section 4). Six lines
hold any two of call, loop, interrupt, sleep and switch, nested or in turn,
between START and STOP; any number is proved. `SYMMETRY` permutes the threads of `Analyse` only; its runs have no
liveness property.

A table of three slots with four requests is asked for more than it holds.
Two transfers meet the leftovers of one that timed out. Three tasks on a
semaphore or completion are a holder, a waiter that gives up, and one behind
it. A counter of three values wraps several times within ten cycles, seen and
unseen. Three experiments let one hang between two that do not, or fail and leave
its stop to the next. Two CPUs, two extractors and three packets let a group of
two lines be interrupted, or meet a packet of the other CPU. Two tasklets
and two CPUs let a tasklet be scheduled while it runs elsewhere and be put back
behind another.

Deadlock checking is off where the system may stop: a finished program
(`Resolve`, `Signatures`, `Experiment`, the delay scripts), a module that is
gone or whose loading failed, bounds on events used up (`TraceSystem`, `Peu`,
`PktQueue`, `DynProbes`, `Tasklet`), an analyser that panicked (`Analyse`), and
tasks waiting for a completion nobody owes (`Completion`); hence in all runs. What
must not stop is stated as liveness instead.

Fairness. `TraceSystem!FairSpec`, `Resolve!Spec`: weak fairness of a context
inside `trace_entry()` or `stop_tracing()` (straight-line code with interrupts
or preemption off), of pending IPIs and tasklets, of the handler and of usnl
(the scheduler runs a runnable thread), and of each goroutine. None is assumed
of events, stops, kills or new sessions. `Semaphore!FairSpec`: runnable tasks
go on, and a holder calls `up()`, which is the caller's duty. `Completion!Spec`:
runnable tasks go on; nobody need call `complete()`. `Tasklet!Spec`: CPUs go
on, a started `tasklet_schedule()` finishes, a disabled tasklet is enabled
again. `Experiment!Spec`: the script goes on; of the phone only that it boots.

### Findings

* `StopRace`: the message that confirms a stop is read by the `recvmsg()` that
  waits for a wake-up, and is lost. It needs an earlier wake-up that was read
  as the answer to a request, for instance a buffer that fills between
  START_TRACING and the first request. `experiment.sh` has a timeout for
  "any unknown reason".
* `SmpWakeup`: CPU 1 finds the buffer full and is about to `test_and_set_bit()`;
  usnl on CPU 0, which was asking anyway, drains the buffer and its SYNC_COMPLETE
  clears the flag; CPU 1 then sets it for the next round. Its wake-up is read
  while tracing is on, and the next full buffer sends none. One CPU cannot show
  it (`Drain`): the test is made with interrupts off. The buffer has two slots,
  since with one a wake-up is lost without any race (below).
* `DrainRace`: the buffer fills between the test of `tracing_active` and the
  END_OF_DATA it leads to, and the wake-up is queued first. usnl takes it for the
  answer and asks again; the late END_OF_DATA is read with `curcount` 0, so no
  SYNC_COMPLETE is sent, and the second `recvmsg()` takes the first entry of the
  round for the wake-up. All other entries arrive, and the END_OF_DATA after them
  leads to a SYNC_COMPLETE that empties a buffer whose first entry is not in the
  file. `DrainCycle` allows exactly this loss.
* `AnalyseIrq`: `State.Interrupted` is one stack although `CurrentLEU` and
  `ServiceStack` are per CPU. Handlers that all run on one CPU are unaffected
  (`Analyse`), and that is how `gic_dist_init()` routes the interrupts
  (`gic.c:293`) until somebody sets another affinity.

### Observations made while modelling, without a run

* A stop between the two tests of one request (lines 138 and 145 of
  `sepext_trace.c`) makes the handler send a slot that was not written in this
  round: `FileFaithful` fails in `Drain` with `MaxStops = 1`.
* `cleanup_tracer()` frees the buffer before the static probes that run are
  waited for: `BufferLive` fails in `Unload` without its conjunct `~Going`.
  The same cleanup is right for dynamic probes and commands.
* `statecondition`, `dequeuerq` and `tempsynch` are never unregistered (their
  lines in `deactivate_static_probes()` are inside `#if 0`); `TextUnused`
  excepts them.
* `unsigned int ret` makes both error paths of `add_probe()` dead code, so that
  a refused registration takes a slot and reports success. By accident that is
  what keeps cleanup complete: with the comparison repaired alone, a refusal
  after the kretprobe is in place leaves it armed if its slot is used again
  (the mutant of `NoneLeftArmed`).
* MIGRATE lines are skipped while the CPU that wrote them is in limbo, and a
  migration at wake-up writes none: the thread's stack stays behind, and it can be
  on the stacks of both CPUs, which the comment at `analyse.go:752` excludes.
  `StackTracked` and `InstancesWhole` except such threads until the next EOD;
  without the exception (`astray`) they fail. `LEUTracked` needs none.
* `handleMIGRATE` to a CPU without a stack map stores into a nil map: one that has
  had no CTXSW since the trace began or resumed. `NoPanic` says that this is the
  only panic.
* `LastAppended` is one line for all CPUs: where the lines of packets of two CPUs
  interleave, a packet gets two marks or none (`OneMark` excepts `mixed`). An
  interrupt between two lines of a group does no harm, because its own lines then
  come before the next PKTQUEUEN.
* `migrationdelay.go` compares the PID given with `currpid` (`entry[2]`; the moved
  thread is `entry[4]`) and reads CPU 0 only, and a thread that runs is never
  pulled: the time it prints is never that since the PID's own migration.
* A stop sent while no usnl runs stays in `stop_tracing_requested`, and ends the
  next session early: `PulledWhole` fails without `misled`.
* A slot drawn before SYNC_COMPLETE can be written after it, over an entry of
  the next round, by a second CPU; within one round slots are exclusive.
* With one slot (`avail_entries = 1`) a wake-up is lost on one CPU too: the only
  entry of a round, read by the `recvmsg()` that waits for the wake-up, leaves
  `curcount` 0, END_OF_DATA then leads to no SYNC_COMPLETE, and the tracer stays
  off. Hence the hypothesis of `WakeupNotLost`; the module parameter
  `numentries` is 100000 by default.
* `lastread` is not reset by START_TRACING: after a kill the next session may
  begin in the middle of the buffer.
* `usnl` without a service never ends by itself: `totcount` stays 0.
* A failed load leaves the /proc entries of the tracer behind.
* Two processes writing to /proc/dynprobes at once share `lastprobe` without a
  lock; `NoneLeftArmed` then fails.
* If usnl does not start, the trace pulled is that of the experiment before.
  The adb shell of the phone's own pktgen delays or forces the timeout too.
* An interrupt that is the first line after PEUSTART is never recognised
  (index 0 means none; the exception is stated in `PeuExact`), and another
  completion used meanwhile can be taken for the driver's (`PeuExact` is about
  transfers without one).
* `delta()` is one cycle short per wrap (`0xFFFFFFFF - a + b`).
* `createSignatures` notes `starti` and then deducts the difference to it, so
  time in `irq_enter` stays in the interrupted service's duration
  (`OwnTimeCharged` adds it as `hit`). The time of a softirq loop before a pass or
  softirq that `PushNewService` does not register is in no duration (`skipped`).
* Handlers dequeued from `SRVQ_HIRQ` never yield a signature, since their
  SRVEXIT has the name 0.
* `handlePKTQUEUE` appends packet ids to copies of the stack elements.
* Two `complete_all()` and two `complete()` on one completion wrap `x->done`
  to 0.

## 4. Proofs

`SepextTraceProofs` proves four theorems of `KSpec` for every set of CPUs, any
number of nesting levels, slots and IDs, and an arbitrary client:

* `Types`: `TypeOK`.
* `WritesInBounds`, `SlotsExclusive`: from `SlotInv`. Exclusiveness alone is
  not inductive: a new number is different from those held only because all
  numbers drawn since the last reset are at most `lastentry` (`DrawnSince`).
* `CyclesOrdered`: from `CycleInv`, which adds that nothing runs above a
  context with interrupts off (`IrqsMasked`), that recorded counts lie in the
  past (`StampsPast`), that a context about to read the counter holds the last
  slot of its CPU (`LastSlot`), and the order of counts read but not yet
  written (`PendingOrder`). This is the argument that drawing the slot and
  reading the counter must be in one section with interrupts off, while the
  write may be outside.

`CycleCountProofs` proves `TotalFollowsTime` and `TotalGrows` for every counter
width `Wrap >= 2`, from `CountInv`: the counter's position relative to the last
counted line, and `cycles = elapsed - wraps`.

`TraceSystemProofs` is about the tracer with usnl as its client.

* `ImplementsTracer`: `TraceSystem` implements `KSpec`. Every step of usnl that
  reaches the kernel is one of the commands an arbitrary client may send, every
  other one leaves the kernel's variables alone; hence the four theorems above
  hold of the whole system (the corollaries beside it). It is a lemma about the
  composition, which no run checks.
* `RequestsAnswered`: usnl is not left alone in `recvmsg()`. `RequestInv` says
  what is owed to it: the handler is at a step before its answer and the pid it
  will send to is that of usnl's socket, or the queue is not empty.
* `SamplesCounted`: `outcount` is the number of exits in the file that have
  their entry in the same stretch. It needs what `inservice` means for the file
  (`CountInv`), and that it is stale from an EOD line to the next request.

Three more are about one CPU, as are the properties: on two they fail
(section 3). `OneCPU` says so and excludes SEPEXT_STOP; `Reliable` adds that no
message is lost, usnl is not killed and the buffer has more than one slot. Any
nesting of contexts, number of slots, sessions and entries is allowed. The run
`Drain` is an instance of the hypotheses.

* `FileIsFaithful` (`OneCPU`): `FileInv`. `RoundInv` orders a drain round: which
  command the handler is in by where usnl is (`Paired`), that a slot which is held
  was drawn since the last reset (`ThisRound`), that a drawn slot is filled or
  about to be (`Filled`), and that within a session tracing is off only if the
  buffer is full or being reset (`OffWhenFull`). `StreamInv` then says that the file followed
  by the queue is in cycle order and before everything yet to be sent or
  recorded, so that a message read out of step does no harm.
* `WakeupNotLost` (`Reliable`): `WakeInv`, `RoundInv` with what the flag means
  (`OneBusy`, `Flags`), whom the handler sends to (`Addressed`) and what can be
  in the queue (`Queue`): at most two messages, each possible content with the
  `lastread` and `curcount` it goes with. usnl falls one message behind when it
  reads the wake-up as an answer, and catches up when it reads an answer as the
  wake-up; before that the message it waits for is always in the queue.
* `SystemDrainsRounds` (`Reliable`): `DrainInv` adds how far usnl has stored the
  round (`StoredInv`): up to `lastread` less the entries still in the queue, and
  nothing while `curcount` is 0, since the first entry may have been read as the
  wake-up. Each step is then a step of `DrainCycle` or leaves the mapped state
  alone.

`UnloadProofs` is about `Lifecycle`, `DynProbes` and `Tasklet`.

* `BufferLives` (but for static probes during unload, which the code lets write to
  the freed buffer), `TextIsUnused`: from `LifeInv`, which says at which statements
  of `initialize_tracer()` and `cleanup_module()` each resource is there, and
  for each kind of probe from where on none is registered and none runs
  unwaited for; any number of CPUs and tracepoints.
* `LoopStaysInTable`, `NothingStaysArmed`: from `DynInv`: the last slot is never
  used, and the kernel knows no probe that the table does not note with its
  address. Both assume `OneWriter`; with two writers they fail (section 3).
* `TaskletsExclusive`, `KilledStaysGone`: from `TaskInv`: a tasklet waits in one
  place of one queue at most, only with SCHED set, and RUN is a lock. The place
  is an index, so that "once in the lists of all CPUs" needs no counting.

`KernelProofs` is about `Semaphore` and `Completion`, for every finite set of
tasks.

* `TypeCorrect`, `PermissionsConserved`, `NobodyBarges`. Conservation counts
  sets, so it is inductive only with the facts that a task given the semaphore
  is neither in the list nor holding (`GivenAwake`), that the list holds waiting
  tasks (`Waiting`), each once (`Once`): then each step moves exactly one
  permission between `count`, `up` and the holders, and giving up moves none.
* `NoWakeupLost`: as many waiters are awake as there are completions left, from
  `CompletionInv`: the queue holds exactly the waiting tasks, each once, and
  `x->done` has not overflowed (`DoneAssumption`; section 3 says what happens
  when it does).

`ToolsProofs` is about `Experiment` and `Resolve`.

* `OneUsnlAtATime`, `PulledTracesWhole`: from `ExperimentInv`: a usnl on the
  phone is the current experiment's and, while the script waits, an adb shell
  stands for it; the file is the current experiment's from when its usnl is up;
  a stop that meets a usnl which is not `misled` is the one sent after its traffic.
* `OutputFaithful`: from `PipeInv`: the lines in the two channels and in the
  goroutines are, in order, the next lines of the file, resolved as far as they
  have come (`OrderInv`), what is cached is what a lookup gives (`CacheInv`), and
  a channel is closed after everything went through it (`ClosedInv`). That the
  loop over offsets finds the nearest symbol below is the lemma
  `LookupExpected`.

`MeasureProofs` is about `Delay`, `Peu`, `PktQueue` and `Signatures`.

* `DelaysExact`: for every counter width, number of gaps, CPUs and threads. `NotesInv` relates
  each number of cycles the script has noted to the time and the wraps when it
  was noted; the lemma `CounterStep` is the arithmetic of one wrap.
* `UsesOwnDeclaration`: from `TempsInv`: the address of the driver's completion
  stands for its current transfer or for none.
* `PacketsExtracted`: from `PktInv`, for any CPUs: no packet is that of two
  probes, a probe has traced the lines of the extractors its loop is past
  (`Loop`), and extractors are only added. `handlePKTQUEUE()` may rewrite a line
  of another packet, but only its type.
* `OneMarkPerPacket`: from `MarkInv`, for any CPUs: of the lines of a packet that
  is not `mixed` one carries the mark while its probe runs too, and a probe that
  goes on finds its own line, or none, read last.
* `OwnTimeIsCharged`: from `OwnTimeInv`: the durations written so far and what
  is pending since the last event stay within the time in the service and in the
  interrupts that hit it, and are all of it if nothing was left out (`Accounted`); the pending time is not negative,
  and nothing is left to deduct at an event or from a sleep (`Deducted`). No
  sum over lines is expanded: `IsTotal` carries the running sums as a function,
  which a written duration extends by one value, and the recursive definition is
  that function.
* `DurationsAreAligned`: from `SignatureInv`, which adds in the same way the
  running index of `storeSignatures()` over the events (`Located`).
* `TransfersAreCharged`: from `TransferInv`: a transfer that can be charged was
  charged, or is still looked for, and then the scan of its lines so far
  (`Scanned`, again carried as a function) remembers the completion and the
  interrupt just as far as the machine has got (`Known`, `Caught`).

`AnalyseProofs` is about the replay, for any number of threads, interrupts and
services and any depth of calls: `LEUsFollowed`, `StacksFollowed`,
`StoredInstancesWhole` and `ReplayNeverPanics`, all from `ReplayInvariant`. None
of the four properties is inductive alone: what a line does to the stacks
depends on whose they are, and what is stored on what the stack's elements
began with. The invariant has two halves.

* `MachineInv`, of the machine alone: a handler is the outermost activation of
  its LEU and is not interrupted (`Served`, `InHandler`); an interrupted thread
  stays on its CPU, and a handler is called between `irq_enter()` and
  `irq_exit()` (`InThread`). One lemma per kind of step keeps it.
* `AnalyserInv`, relating the analyser to it: nothing is known of a CPU in limbo
  (`Limbo`); a CPU that is followed has its LEU in `CurrentLEU`, a map in
  `ServiceStack`, and during a handler the interrupted thread last in
  `Interrupted` and the whole stack of the handler (`Follows`); every stack
  names the innermost activations of its LEU, and each element begins with the
  line that opened it (`Stacks`); a thread's stack is on the CPU the thread is
  queued on, a handler's on the CPU that runs handlers (`Owners`).

The steps of `analyse.go` are first described as relations between two states of
the analyser (`Only`, `Turned`, `MigrateOf`: which stack changes, and to what),
in lemmas that know nothing of the machine; `Unseen`, `Seen`, `Hidden` and
`SeenMove` then carry the invariant over the step of the machine. The theorems
assume `Followed`: handlers run on at most one CPU, as `gic_dist_init()` sets it
up, and no thread that is on a stack moves unseen (`MaxAstray = 0`; threads that
are on none may, and MIGRATE lines may be skipped). Without the first they fail
(`AnalyseIrq`); threads astray are left to TLC (`Analyse`). The panic of
`handleMIGRATE` is part of what is proved: `Replay` is `Inv`, or `Crashed` at a
line that named a CPU without a map, after which nothing more is read.

Assumptions on the constants are those of the modules, each evaluated by TLC in
the run of the module: that CPU numbers, table sizes, widths and bounds are
natural numbers, of any size, and not 0 where the code divides by or indexes
with them (`CpusAssumption`, `BufferAssumption`, `BoundsAssumption`,
`ClientAssumption`, `WrapAssumption`, `ElapsedAssumption`, `TableAssumption`,
`LimitsAssumption`, `RunsAssumption`, `MeasureAssumption`, which also says that
time does not run backwards between lines); that an unwritten slot is told apart
from an entry (`GarbageAssumption`); that there are finitely many tasks (`SemAssumption`); that `complete()` is not called more than
half the range of the count often (`DoneAssumption`); that names of tracepoints
are not those of other contexts (`LifeAssumption`, `NameAssumption`); that there
are at most the two CPUs for which the analyser has a `traceState`, and
interrupt numbers are natural (`CpuAssumption`, `IrqAssumption`). `OneWriter`,
`OneCPU`, `Reliable` and `Followed` are hypotheses of the theorems they are
named in.

Every inductive invariant was checked by TLC on the run's instance before it was
proved.

Only model-checked: liveness under fairness, which is out of the prover's reach.
Every invariant of a passing run is stated by a theorem.

## 5. Not modelled

The symbol lookup (`st.c`, `proc.c`), the registry tables, the remaining
probes (each is one call of `trace_entry`), `pktextractors.c` (inside `#if 0`),
`split.go` and `stats_parse.go` (text filters), averages and file output,
debugging code (`loadCase`, `createSignature`), statistics counters. The ns-3
part that the repository's README names is not in the tree.

The vendored kernel and the bcmdhd driver are 13.8 million lines of
third-party code and make up nearly all of the tree; of them only the
instrumented primitives are modelled. The map therefore covers a small share of
the tree's lines, and most of the repository's own program.

## 6. Plan

Done: tracer and collector, replay, cycles, signatures, resolver; then PEUs and
packet marks, life cycle, dynamic probes, experiments, delays, kernel
primitives, the abstract drain cycle, and the proofs of section 4. Left:

1. Grouping and averaging of signatures against a reference definition.
2. `Lifecycle` with the IPI in flight at unload.
