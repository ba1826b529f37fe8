----------------------------- MODULE SepextTrace -----------------------------
(***************************************************************************)
(* The in-kernel half of the tracing framework: sepext_trace.c.            *)
(*                                                                         *)
(* Every instrumented kernel path calls trace_entry(), on any CPU and in   *)
(* task or interrupt context, and appends one entry to a linear buffer.    *)
(* When the buffer is full tracing is switched off and the collector       *)
(* (usnl) is sent a wake-up over netlink; it then requests the entries one *)
(* by one, and SYNC_COMPLETE empties the buffer and switches tracing on.   *)
(*                                                                         *)
(* A netlink command runs nl_rcv_func() synchronously in the sender's own  *)
(* context, so its steps interleave with trace_entry() like any other      *)
(* thread's.  One step here is one access to a variable that other         *)
(* contexts also access; local accesses are merged into it.                *)
(*                                                                         *)
(* KSpec lets an arbitrary client open the socket and send any command at  *)
(* any time; module TraceSystem replaces it by the real collector.         *)
(***************************************************************************)
EXTENDS Integers, Sequences, FiniteSets

CONSTANTS
  CPUs,          \* CPU numbers; smp_call_function_single() targets CPU 0
  UsnlCpu,       \* the CPU the collector's thread runs on
  IrqLevel,      \* the innermost level contexts of a CPU nest to
  avail_entries, \* number of slots of the entry buffer
  NumIDs,        \* entries trace_IDs() writes when tracing starts
  Kinds,         \* what an event entry can be to the collector's counters
  Garbage,       \* the contents of a slot of the vmalloc()ed buffer not yet written
  MaxCalls,      \* bound: trace_entry() calls per CPU, trace_IDs() excluded
  MaxStops,      \* bound: writes of SEPEXT_STOP to /proc/sepextcmd
  MaxLost        \* bound: messages lost to a failed skb allocation

ASSUME CpusAssumption ==
  /\ CPUs \subseteq Nat
  /\ 0 \in CPUs
  /\ UsnlCpu \in CPUs
  /\ IrqLevel \in Nat /\ IrqLevel >= 2

ASSUME BufferAssumption ==
  /\ avail_entries \in Nat \ {0}
  /\ NumIDs \in Nat

ASSUME BoundsAssumption ==
  /\ MaxCalls \in Nat
  /\ MaxStops \in Nat
  /\ MaxLost \in Nat

VARIABLES
  tracing_active,         \* 1 while trace_entry() records events
  lastentry,              \* atomic_t: slots handed out since the last reset
  lastread,               \* slots sent to user space since the last reset
  tasklet_scheduled,      \* 1 while a wake-up is considered under way
  stop_tracing_requested, \* 1 from SEPEXT_STOP until the collector is told
  us_pid,                 \* pid wake-ups and replies go to; 0: none yet
  entries,                \* the buffer: slot -> entry
  tasklet,                \* 1 while sep_tasklet is scheduled
  ipi,                    \* calls of schedule_usnl() pending on CPU 0
  pc, slot, cyc, epo,     \* per context: where in trace_entry(), `a`, `cycles`,
                          \* and the epoch `a` was drawn in
  ccnt,                   \* per CPU: the cycle counter, one tick per call
  epoch,                  \* number of resets of lastentry so far
  hpc, ids,               \* where in nl_rcv_func(), and IDs left to trace
  sock, rcvq,             \* pid bound to the collector's socket, its queue
  stops, lost             \* commands and lost messages so far

control == <<tracing_active, stop_tracing_requested, us_pid>>
buffer == <<lastentry, epoch, lastread, entries>>
wakeup == <<tasklet_scheduled, tasklet, ipi>>
locals == <<slot, cyc, epo>>
handler == <<hpc, ids>>
channel == <<sock, rcvq, lost>>

kvars == <<control, buffer, wakeup, pc, locals, ccnt, handler, channel, stops>>
-----------------------------------------------------------------------------
(* Contexts: level 1 of a CPU is the running task, level IrqLevel its      *)
(* interrupt handler, the levels between them softirqs; level 0 is the     *)
(* collector's thread, in which nl_rcv_func() and trace_IDs() run.         *)
Usnl == <<UsnlCpu, 0>>
Ctx == (CPUs \X (1 .. IrqLevel)) \cup {Usnl}
CpuOf(c) == c[1]
Level(c) == c[2]

\* Fault: interrupts are enabled again before the cycle counter is read.
IrqOff_EarlyRestore == {"reserve", "full", "test", "stop1", "stop2", "stop3"}

\* The part of trace_entry() and stop_tracing() that runs with the local
\* interrupts disabled (raw_local_irq_save ... raw_local_irq_restore).
IrqOff == {"reserve", "stamp", "full", "test", "stop1", "stop2", "stop3"}
PCs == {"idle", "reserve", "stamp", "write", "full", "test", "call",
        "stop1", "stop2", "stop3"}

\* Probes run with preemption off, so a context is suspended only by the
\* higher levels of its own CPU.
Runs(c) == \A d \in Ctx : CpuOf(d) = CpuOf(c) /\ Level(d) > Level(c) => pc[d] = "idle"

\* A context starts on a CPU when nothing above it runs there and no context
\* below it has disabled the interrupts.
CanEnter(c) ==
  /\ pc[c] = "idle"
  /\ Runs(c)
  /\ \A d \in Ctx : CpuOf(d) = CpuOf(c) /\ Level(d) < Level(c) => pc[d] \notin IrqOff

IrqsEnabled(p) == CanEnter(<<p, IrqLevel>>)
SoftirqsEnabled(p) == CanEnter(<<p, 2>>)

Entry == [cpu : CPUs, cyc : Nat, kind : Kinds \cup {"id"}, epo : Nat]
\* What a slot holds before its first write is told apart from every entry.
ASSUME GarbageAssumption == Garbage \notin Entry

Msg == [t : {"WAKE_UP_USNL", "END_OF_DATA", "STOP_TRACING"}]
         \cup [t : {"ENTRY"}, e : Entry \cup {Garbage}]
Slots == 0 .. avail_entries - 1
-----------------------------------------------------------------------------
(* send_to_userspace(): nlmsg_new() may fail, and a unicast to a pid with  *)
(* no socket is refused; both are only logged.                             *)
Lose ==
  /\ lost < MaxLost
  /\ lost' = lost + 1
  /\ UNCHANGED rcvq

send_to_userspace(m, pid) ==
  \/ /\ rcvq' = IF pid = sock /\ sock # 0 THEN Append(rcvq, m) ELSE rcvq
     /\ UNCHANGED lost
  \/ Lose

awake_usnl == send_to_userspace([t |-> "WAKE_UP_USNL"], us_pid)

\* schedule_usnl(): runs on CPU 0, by inter-processor interrupt or directly.
schedule_usnl == IF us_pid # 0 THEN awake_usnl ELSE UNCHANGED <<rcvq, lost>>
-----------------------------------------------------------------------------
(* trace_entry()                                                           *)
Goto(c, l) == pc' = [pc EXCEPT ![c] = l]

\* The locals are dead from here on.
Forget(c) ==
  /\ slot' = [slot EXCEPT ![c] = 0]
  /\ cyc' = [cyc EXCEPT ![c] = 0]
  /\ epo' = [epo EXCEPT ![c] = 0]

\* An instrumented event: interrupts off, then the test of tracing_active.
\* A call that finds it clear returns at once and changes nothing.
TraceCheck(c) ==
  /\ c # Usnl
  /\ CanEnter(c)
  /\ ccnt[CpuOf(c)] < MaxCalls
  /\ tracing_active = 1
  /\ ccnt' = [ccnt EXCEPT ![CpuOf(c)] = @ + 1]
  /\ Goto(c, "reserve")
  /\ UNCHANGED <<control, buffer, wakeup, locals, handler, channel, stops>>

\* Fault: the add is not atomic, and another CPU's may overwrite it.
atomic_add_LostUpdate == lastentry' \in {lastentry, lastentry + 1}
atomic_add == lastentry' = lastentry + 1

\* Fault: off by one.
TooFar_OffByOne(a) == a > avail_entries + 1
TooFar(a) == a > avail_entries

\* a = atomic_add_return(1, &lastentry), and the test for a full buffer.
Reserve(c) ==
  /\ pc[c] = "reserve"
  /\ Runs(c)
  /\ atomic_add
  /\ slot' = [slot EXCEPT ![c] = lastentry + 1]
  /\ epo' = [epo EXCEPT ![c] = epoch]
  /\ Goto(c, IF TooFar(lastentry + 1) THEN "full" ELSE "stamp")
  /\ UNCHANGED <<control, epoch, lastread, entries, wakeup, cyc, ccnt,
                 handler, channel, stops>>

\* The cycle counter is read, then interrupts are enabled again.
Stamp(c) ==
  /\ pc[c] = "stamp"
  /\ Runs(c)
  /\ cyc' = [cyc EXCEPT ![c] = ccnt[CpuOf(c)]]
  /\ Goto(c, "write")
  /\ UNCHANGED <<control, buffer, wakeup, slot, epo, ccnt, handler, channel,
                 stops>>

\* entries[a - 1] is filled in, with interrupts enabled.
Write(c) ==
  /\ pc[c] = "write"
  /\ Runs(c)
  /\ \E k \in IF c = Usnl THEN {"id"} ELSE Kinds :
       entries' = [entries EXCEPT ![slot[c] - 1] =
                     [cpu |-> CpuOf(c), cyc |-> cyc[c], kind |-> k, epo |-> epo[c]]]
  /\ Forget(c)
  /\ Goto(c, "idle")
  /\ UNCHANGED <<control, lastentry, epoch, lastread, wakeup, ccnt, handler,
                 channel, stops>>

\* a > avail_entries: tracing is switched off ...
Full(c) ==
  /\ pc[c] = "full"
  /\ Runs(c)
  /\ tracing_active' = 0
  /\ Goto(c, "test")
  /\ UNCHANGED <<stop_tracing_requested, us_pid, buffer, wakeup, locals,
                 ccnt, handler, channel, stops>>

\* Fault: the flag counts instead.
test_and_set_Counts == tasklet_scheduled' = tasklet_scheduled + 1
test_and_set == tasklet_scheduled' = 1

\* ... and test_and_set_bit(0, &tasklet_scheduled) elects who wakes usnl.
TestAndSet(c) ==
  /\ pc[c] = "test"
  /\ Runs(c)
  /\ test_and_set
  /\ Forget(c)
  /\ Goto(c, IF tasklet_scheduled = 0 THEN "call" ELSE "idle")
  /\ UNCHANGED <<control, buffer, tasklet, ipi, ccnt, handler, channel, stops>>

\* smp_call_function_single(0, &schedule_usnl, NULL, 0): direct on CPU 0.
CallUsnl(c) ==
  /\ pc[c] = "call"
  /\ Runs(c)
  /\ Goto(c, "idle")
  /\ IF CpuOf(c) = 0
       THEN schedule_usnl /\ UNCHANGED ipi
       ELSE ipi' = ipi + 1 /\ UNCHANGED <<rcvq, lost>>
  /\ UNCHANGED <<control, buffer, tasklet_scheduled, tasklet, locals, ccnt,
                 handler, sock, stops>>

\* The inter-processor interrupt arrives on CPU 0.
RunIpi ==
  /\ ipi > 0
  /\ IrqsEnabled(0)
  /\ ipi' = ipi - 1
  /\ schedule_usnl
  /\ UNCHANGED <<control, buffer, tasklet_scheduled, tasklet, pc, locals,
                 ccnt, handler, sock, stops>>

\* sep_tasklet runs as a softirq.
RunTasklet ==
  /\ tasklet = 1
  /\ \E p \in CPUs : SoftirqsEnabled(p)
  /\ tasklet' = 0
  /\ awake_usnl
  /\ UNCHANGED <<control, buffer, tasklet_scheduled, ipi, pc, locals, ccnt,
                 handler, sock, stops>>
-----------------------------------------------------------------------------
(* stop_tracing(), called by run_command() for SEPEXT_STOP                 *)
run_command(c) ==
  /\ Level(c) = 1
  /\ CanEnter(c)
  /\ stops < MaxStops
  /\ stops' = stops + 1
  /\ Goto(c, "stop1")
  /\ UNCHANGED <<control, buffer, wakeup, locals, ccnt, handler, channel>>

StopActive(c) ==
  /\ pc[c] = "stop1"
  /\ tracing_active' = 0
  /\ Goto(c, "stop2")
  /\ UNCHANGED <<stop_tracing_requested, us_pid, buffer, wakeup, locals,
                 ccnt, handler, channel, stops>>

StopRequest(c) ==
  /\ pc[c] = "stop2"
  /\ stop_tracing_requested' = 1
  /\ Goto(c, "stop3")
  /\ UNCHANGED <<tracing_active, us_pid, buffer, wakeup, locals, ccnt,
                 handler, channel, stops>>

\* The tasklet is scheduled unless a wake-up is already under way.
StopSchedule(c) ==
  /\ pc[c] = "stop3"
  /\ test_and_set
  /\ tasklet' = IF tasklet_scheduled = 0 /\ us_pid # 0 THEN 1 ELSE tasklet
  /\ Goto(c, "idle")
  /\ UNCHANGED <<control, buffer, ipi, locals, ccnt, handler, channel,
                 stops>>
-----------------------------------------------------------------------------
(* nl_rcv_func(): one netlink command, in the sender's context             *)
Commands == {"START_TRACING", "STOP_TRACING", "SYNC_COMPLETE", "REQUEST_ENTRY"}
FirstStep == [START_TRACING |-> "start1", STOP_TRACING |-> "stop1",
              SYNC_COMPLETE |-> "sync1", REQUEST_ENTRY |-> "req1"]
HPCs == {"none", "start1", "start2", "ids", "stop1", "stop2", "stop3",
         "sync1", "sync2", "sync3", "req1", "sendstop", "clear", "req2",
         "sendeod", "sendentry"}

\* The handler's thread is running and is not inside trace_entry().
Handling(l) == hpc = l /\ Runs(Usnl) /\ pc[Usnl] = "idle"

\* sendmsg(): the handler is entered and records the sender's pid.
nl_rcv_func(cmd) ==
  /\ Handling("none")
  /\ sock # 0
  /\ us_pid' = sock
  /\ hpc' = FirstStep[cmd]
  /\ UNCHANGED <<tracing_active, stop_tracing_requested, buffer, wakeup, pc,
                 locals, ccnt, ids, channel, stops>>

ResetLastentry == lastentry' = 0 /\ epoch' = epoch + 1

\* Fault: lastread is not reset.
ResetLastread_Forgotten == UNCHANGED lastread
ResetLastread == lastread' = 0

\* Fault: the next full buffer finds a wake-up under way.
Rearm_Forgotten == UNCHANGED tasklet_scheduled
Rearm == tasklet_scheduled' = 0

\* START_TRACING: the buffer is emptied, tracing switched on, the IDs traced.
StartReset ==
  /\ Handling("start1")
  /\ ResetLastentry
  /\ hpc' = "start2"
  /\ UNCHANGED <<control, lastread, entries, wakeup, pc, locals, ccnt, ids,
                 channel, stops>>

StartActive ==
  /\ Handling("start2")
  /\ tracing_active' = 1
  /\ hpc' = "ids"
  /\ ids' = NumIDs
  /\ UNCHANGED <<stop_tracing_requested, us_pid, buffer, wakeup, pc, locals,
                 ccnt, channel, stops>>

\* trace_IDs(): an ID entry passes the test of tracing_active in any case.
trace_IDs ==
  /\ Handling("ids")
  /\ ids > 0
  /\ ids' = ids - 1
  /\ ccnt' = [ccnt EXCEPT ![UsnlCpu] = @ + 1]
  /\ Goto(Usnl, "reserve")
  /\ UNCHANGED <<control, buffer, wakeup, locals, hpc, channel, stops>>

StartDone ==
  /\ Handling("ids")
  /\ ids = 0
  /\ hpc' = "none"
  /\ UNCHANGED <<control, buffer, wakeup, pc, locals, ccnt, ids, channel,
                 stops>>

\* STOP_TRACING
StopCmdSched ==
  /\ Handling("stop1")
  /\ Rearm
  /\ hpc' = "stop2"
  /\ UNCHANGED <<control, buffer, tasklet, ipi, pc, locals, ccnt, ids,
                 channel, stops>>

StopCmdActive ==
  /\ Handling("stop2")
  /\ tracing_active' = 0
  /\ hpc' = "stop3"
  /\ UNCHANGED <<stop_tracing_requested, us_pid, buffer, wakeup, pc, locals,
                 ccnt, ids, channel, stops>>

StopCmdReset ==
  /\ Handling("stop3")
  /\ ResetLastread
  /\ ResetLastentry
  /\ hpc' = "none"
  /\ UNCHANGED <<control, entries, wakeup, pc, locals, ccnt, ids, channel,
                 stops>>

\* SYNC_COMPLETE: nothing happens while tracing is active.
SyncReset ==
  /\ Handling("sync1")
  /\ IF tracing_active = 1
       THEN hpc' = "none" /\ UNCHANGED <<lastread, lastentry, epoch>>
       ELSE hpc' = "sync2" /\ ResetLastread /\ ResetLastentry
  /\ UNCHANGED <<control, entries, wakeup, pc, locals, ccnt, ids, channel,
                 stops>>

SyncSched ==
  /\ Handling("sync2")
  /\ Rearm
  /\ hpc' = "sync3"
  /\ UNCHANGED <<control, buffer, tasklet, ipi, pc, locals, ccnt, ids,
                 channel, stops>>

SyncActive ==
  /\ Handling("sync3")
  /\ tracing_active' = 1
  /\ hpc' = "none"
  /\ UNCHANGED <<stop_tracing_requested, us_pid, buffer, wakeup, pc, locals,
                 ccnt, ids, channel, stops>>

\* REQUEST_ENTRY: first a requested stop is tested for, which is confirmed
\* once the buffer is drained; then for data.  The message goes out after the
\* test, and an interrupt may queue a wake-up between the two.
RequestStop ==
  /\ Handling("req1")
  /\ hpc' = IF /\ stop_tracing_requested = 1
               /\ lastentry <= lastread \/ lastread >= avail_entries
              THEN "sendstop" ELSE "req2"
  /\ UNCHANGED <<control, buffer, wakeup, pc, locals, ccnt, ids, channel,
                 stops>>

SendStop ==
  /\ Handling("sendstop")
  /\ send_to_userspace([t |-> "STOP_TRACING"], us_pid)
  /\ hpc' = "clear"
  /\ UNCHANGED <<control, buffer, wakeup, pc, locals, ccnt, ids, sock,
                 stops>>

RequestClear ==
  /\ Handling("clear")
  /\ stop_tracing_requested' = 0
  /\ hpc' = "none"
  /\ UNCHANGED <<tracing_active, us_pid, buffer, wakeup, pc, locals, ccnt,
                 ids, channel, stops>>

\* Fault: entries are sent while tracing is active.
OutOfData_NotActive == lastread >= avail_entries
\* Fault: the last entry is left out.
OutOfData_OneShort == tracing_active = 1 \/ lastread + 1 >= avail_entries
OutOfData == tracing_active = 1 \/ lastread >= avail_entries

RequestData ==
  /\ Handling("req2")
  /\ hpc' = IF OutOfData THEN "sendeod" ELSE "sendentry"
  /\ UNCHANGED <<control, buffer, wakeup, pc, locals, ccnt, ids, channel,
                 stops>>

\* Fault: nothing is sent.
EndOfData_Silent == UNCHANGED <<rcvq, lost>>
EndOfData == send_to_userspace([t |-> "END_OF_DATA"], us_pid)

SendEndOfData ==
  /\ Handling("sendeod")
  /\ EndOfData
  /\ hpc' = "none"
  /\ UNCHANGED <<control, buffer, wakeup, pc, locals, ccnt, ids, sock,
                 stops>>

SendEntry ==
  /\ Handling("sendentry")
  /\ send_to_userspace([t |-> "ENTRY", e |-> entries[lastread]], us_pid)
  /\ lastread' = lastread + 1
  /\ hpc' = "none"
  /\ UNCHANGED <<control, lastentry, epoch, entries, wakeup, pc, locals,
                 ccnt, ids, sock, stops>>
-----------------------------------------------------------------------------
(* initialize_tracer(): the buffer is allocated, never cleared.            *)
initialize_tracer ==
  /\ tracing_active = 0
  /\ lastentry = 0
  /\ lastread = 0
  /\ tasklet_scheduled = 0
  /\ stop_tracing_requested = 0
  /\ us_pid = 0
  /\ entries = [s \in Slots |-> Garbage]
  /\ tasklet = 0
  /\ ipi = 0
  /\ pc = [c \in Ctx |-> "idle"]
  /\ slot = [c \in Ctx |-> 0]
  /\ cyc = [c \in Ctx |-> 0]
  /\ epo = [c \in Ctx |-> 0]
  /\ ccnt = [p \in CPUs |-> 0]
  /\ epoch = 0
  /\ hpc = "none"
  /\ ids = 0
  /\ sock = 0
  /\ rcvq = <<>>
  /\ stops = 0
  /\ lost = 0

\* The client's end of the socket: it is bound, read and closed between
\* commands; closing drops what is queued.
Socket(q) ==
  /\ Handling("none")
  /\ rcvq' = q
  /\ UNCHANGED <<control, buffer, wakeup, pc, locals, ccnt, handler, lost,
                 stops>>

bind == sock = 0 /\ sock' \in Nat \ {0} /\ Socket(<<>>)
recvmsg == sock # 0 /\ rcvq # <<>> /\ sock' = sock /\ Socket(Tail(rcvq))
close == sock # 0 /\ sock' = 0 /\ Socket(<<>>)
-----------------------------------------------------------------------------
\* The rest of trace_entry() and of stop_tracing(), once entered.
Trace(c) ==
  \/ Reserve(c)
  \/ Stamp(c)
  \/ Write(c)
  \/ Full(c)
  \/ TestAndSet(c)
  \/ CallUsnl(c)

Stop(c) ==
  \/ StopActive(c)
  \/ StopRequest(c)
  \/ StopSchedule(c)

\* What nl_rcv_func() does once entered.
Handler ==
  \/ StartReset \/ StartActive \/ trace_IDs \/ StartDone
  \/ StopCmdSched \/ StopCmdActive \/ StopCmdReset
  \/ SyncReset \/ SyncSched \/ SyncActive
  \/ RequestStop \/ SendStop \/ RequestClear
  \/ RequestData \/ SendEndOfData \/ SendEntry

Kernel ==
  \/ \E c \in Ctx : TraceCheck(c) \/ Trace(c) \/ run_command(c) \/ Stop(c)
  \/ RunIpi
  \/ RunTasklet
  \/ Handler

Client ==
  \/ \E cmd \in Commands : nl_rcv_func(cmd)
  \/ bind
  \/ recvmsg
  \/ close

KNext == Kernel \/ Client
KSpec == initialize_tracer /\ [][KNext]_kvars
-----------------------------------------------------------------------------
\* The values the variables take.
TypeOK ==
  /\ tracing_active \in {0, 1}
  /\ lastentry \in Nat
  /\ lastread \in 0 .. avail_entries
  /\ hpc = "sendentry" => lastread < avail_entries
  /\ tasklet_scheduled \in {0, 1}
  /\ stop_tracing_requested \in {0, 1}
  /\ us_pid \in Nat
  /\ entries \in [Slots -> Entry \cup {Garbage}]
  /\ tasklet \in {0, 1}
  /\ ipi \in Nat
  /\ pc \in [Ctx -> PCs]
  /\ slot \in [Ctx -> Nat]
  /\ cyc \in [Ctx -> Nat]
  /\ epo \in [Ctx -> Nat]
  /\ ccnt \in [CPUs -> Nat]
  /\ epoch \in Nat
  /\ hpc \in HPCs
  /\ ids \in Nat
  /\ sock \in Nat
  /\ rcvq \in Seq(Msg)
  /\ stops \in Nat
  /\ lost \in Nat

\* Contexts that hold a slot they have yet to fill.
Holds(c) == pc[c] \in {"stamp", "write"}

\* trace_entry() never writes outside the buffer: a slot number is checked
\* against avail_entries before use, however many contexts drew one past the
\* end before tracing_active was cleared.
WriteInBounds == \A c \in Ctx : Holds(c) => slot[c] \in 1 .. avail_entries

\* Two contexts that drew their slots between the same two resets of
\* lastentry never write to the same slot (sepext_trace.c:228-230), and no
\* context overwrites an entry already written since that reset.
SlotExclusive ==
  \A c \in Ctx : Holds(c) =>
    /\ \A d \in Ctx \ {c} : Holds(d) /\ epo[d] = epo[c] => slot[d] # slot[c]
    /\ entries[slot[c] - 1] # Garbage => entries[slot[c] - 1].epo # epo[c]

\* Entries of one CPU written between two resets are in the order of their
\* cycle counts: drawing the slot and reading the counter are not separated
\* by an interrupt's own entry.  analyse.go takes differences of successive
\* counts and treats a decrease as a counter wrap.
CycleOrder ==
  \A s, t \in Slots :
    /\ s < t
    /\ entries[s] # Garbage /\ entries[t] # Garbage
    /\ entries[s].cpu = entries[t].cpu
    /\ entries[s].epo = entries[t].epo
    => entries[s].cyc < entries[t].cyc
-----------------------------------------------------------------------------
(* Inductive strengthenings                                                *)

\* Numbers drawn since the last reset are at most lastentry, so the next one
\* is new.
DrawnSince ==
  /\ \A c \in Ctx : Holds(c) =>
       epo[c] <= epoch /\ (epo[c] = epoch => slot[c] <= lastentry)
  /\ \A s \in Slots : entries[s] # Garbage =>
       entries[s].epo <= epoch /\ (entries[s].epo = epoch => s < lastentry)

SlotInv == TypeOK /\ WriteInBounds /\ SlotExclusive /\ DrawnSince

\* Above a context that has disabled interrupts nothing runs on its CPU.
IrqsMasked ==
  \A c, d \in Ctx :
    pc[c] \in IrqOff /\ CpuOf(c) = CpuOf(d) /\ Level(d) > Level(c) => pc[d] = "idle"

\* Recorded counts lie in the past; strictly so once a new call has begun.
StampsPast ==
  /\ \A s \in Slots : entries[s] # Garbage =>
       entries[s].cyc <= ccnt[entries[s].cpu]
  /\ \A c \in Ctx : pc[c] = "write" => cyc[c] <= ccnt[CpuOf(c)]
  /\ \A c \in Ctx : pc[c] \in {"reserve", "stamp"} =>
       /\ \A s \in Slots : entries[s] # Garbage /\ entries[s].cpu = CpuOf(c) =>
            entries[s].cyc < ccnt[CpuOf(c)]
       /\ \A d \in Ctx : pc[d] = "write" /\ CpuOf(d) = CpuOf(c) =>
            cyc[d] < ccnt[CpuOf(c)]

\* The slot of a context about to read the counter is the CPU's last one.
LastSlot ==
  \A c \in Ctx : pc[c] = "stamp" =>
    /\ \A s \in Slots :
         entries[s] # Garbage /\ entries[s].cpu = CpuOf(c) /\ entries[s].epo = epo[c]
         => s + 1 < slot[c]
    /\ \A d \in Ctx : pc[d] = "write" /\ CpuOf(d) = CpuOf(c) /\ epo[d] = epo[c] =>
         slot[d] < slot[c]

\* Counts already read but not yet written are in order too.
PendingOrder ==
  \A c \in Ctx : pc[c] = "write" =>
    /\ \A s \in Slots :
         entries[s] # Garbage /\ entries[s].cpu = CpuOf(c) /\ entries[s].epo = epo[c] =>
           /\ s + 1 < slot[c] => entries[s].cyc < cyc[c]
           /\ s + 1 > slot[c] => entries[s].cyc > cyc[c]
    /\ \A d \in Ctx :
         pc[d] = "write" /\ CpuOf(d) = CpuOf(c) /\ epo[d] = epo[c] /\ slot[d] < slot[c] =>
           cyc[d] < cyc[c]

CycleInv == SlotInv /\ IrqsMasked /\ StampsPast /\ LastSlot /\ PendingOrder /\ CycleOrder
=============================================================================
