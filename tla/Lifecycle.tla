------------------------------ MODULE Lifecycle ------------------------------
(***************************************************************************)
(* The life of the tracer: sepext.c loads and unloads it, and while it     *)
(* does so, tracepoint probes and kprobe handlers fire on every CPU, the   *)
(* collector sends commands and SEPEXT_STOP is written to /proc.           *)
(*                                                                         *)
(* What a probe does is cut down to the resources it touches: the entry    *)
(* buffer (vmalloc, vfree) and the netlink socket.  Freeing either and     *)
(* freeing the module's text are steps of the thread that loads or         *)
(* unloads, on MCPU.                                                       *)
(***************************************************************************)
EXTENDS Integers, FiniteSets

CONSTANTS
  CPUs,
  MCPU,        \* the CPU that thread runs on
  Tracepoints, \* activate_static_probes() registers a probe with each
  Unpaired,    \* those deactivate_static_probes() leaves registered:
               \* statecondition, dequeuerq, tempsynch
  Modular      \* FALSE: built into the kernel, never unloaded

ASSUME LifeAssumption ==
  /\ 0 \in CPUs /\ MCPU \in CPUs
  /\ Unpaired \subseteq Tracepoints
  /\ Tracepoints \cap {"none", "irq", "kprobe"} = {}
  /\ Modular \in BOOLEAN

VARIABLES
  mpc,     \* where sepext_init_module() or cleanup_module() is
  waiting, \* CPUs synchronize_sched() waits for
  proc,    \* entries in /proc
  buf,     \* entries: "none", "live", "freed"
  nl_sk,   \* the kernel's netlink socket: "none", "live", "freed"
  regs,    \* tracepoints with a probe
  kprobe,  \* TRUE: a dynamic probe is installed
  tracing_active, tasklet_scheduled, us_pid, ipi, tasklet,
  client,  \* TRUE: usnl has its socket open
  nl,      \* TRUE: nl_rcv_func() runs
  probe    \* per CPU: what runs there and how far it is

mod == <<mpc, waiting>>
res == <<proc, buf, nl_sk>>
inst == <<regs, kprobe>>
trc == <<tracing_active, tasklet_scheduled, us_pid, ipi, tasklet>>
cli == <<client, nl>>
vars == <<mod, res, inst, trc, cli, probe>>

None == [what |-> "none", at |-> "none"]
Idle(p) == probe[p] = None
-----------------------------------------------------------------------------
(* A probe on CPU p, with preemption off: trace_entry() in short.          *)
Leave(p) ==
  /\ probe' = [probe EXCEPT ![p] = None]
  /\ waiting' = waiting \ {p}
To(p, l) == probe' = [probe EXCEPT ![p].at = l] /\ UNCHANGED waiting

Fire(p, w) ==
  /\ Idle(p)
  /\ w \in regs \/ (w = "kprobe" /\ kprobe)
  /\ probe' = [probe EXCEPT ![p] = [what |-> w, at |-> "test"]]
  /\ UNCHANGED <<mod, res, inst, trc, cli>>

NotTraced(p) ==
  /\ probe[p].at = "test"
  /\ tracing_active = 0
  /\ Leave(p)
  /\ UNCHANGED <<mpc, res, inst, trc, cli>>

Slot(p) ==
  /\ probe[p].at = "test"
  /\ tracing_active = 1
  /\ To(p, "write")
  /\ UNCHANGED <<mpc, res, inst, trc, cli>>

\* The buffer is full: usnl is to be woken, from CPU 0.
Full(p) ==
  /\ probe[p].at = "test"
  /\ tracing_active = 1
  /\ tracing_active' = 0
  /\ tasklet_scheduled' = 1
  /\ IF tasklet_scheduled = 0 /\ p = 0
       THEN To(p, "wake") /\ UNCHANGED ipi
       ELSE Leave(p) /\ ipi' = (ipi \/ tasklet_scheduled = 0)
  /\ UNCHANGED <<mpc, res, inst, us_pid, tasklet, cli>>

\* The end of a write to the buffer, or of awake_usnl().
Finish(p) ==
  /\ probe[p].at \in {"write", "wake"}
  /\ Leave(p)
  /\ UNCHANGED <<mpc, res, inst, trc, cli>>

\* schedule_usnl() by interrupt on CPU 0, or awake_usnl() as a tasklet.
Interrupt(p) ==
  /\ Idle(p)
  /\ us_pid
  /\ \/ p = 0 /\ ipi /\ ipi' = FALSE /\ UNCHANGED tasklet
     \/ tasklet /\ tasklet' = FALSE /\ UNCHANGED ipi
  /\ probe' = [probe EXCEPT ![p] = [what |-> "irq", at |-> "wake"]]
  /\ UNCHANGED <<mod, res, inst, tracing_active, tasklet_scheduled, us_pid, cli>>
-----------------------------------------------------------------------------
(* User space                                                              *)

\* Fault: an open socket does not keep the module.
InUse_NotCounted == FALSE
\* A netlink socket holds a reference to the module (netlink_create()).
InUse == client

Going == mpc \in {"remove_dyn", "unregister_dyn", "sync_dyn", "unregister",
                  "remove", "vfree", "release", "tasklet_kill", "sync", "gone"}

Open ==
  /\ nl_sk = "live" /\ ~Going /\ ~client
  /\ client' = TRUE
  /\ UNCHANGED <<mod, res, inst, trc, nl, probe>>

\* A command: START_TRACING and SYNC_COMPLETE switch tracing on, STOP_TRACING
\* off, REQUEST_ENTRY neither; START_TRACING writes IDs to the buffer and
\* REQUEST_ENTRY reads from it.
Command ==
  /\ client /\ ~nl
  /\ nl' = TRUE
  /\ us_pid' = TRUE
  /\ \/ tracing_active' = 1 /\ tasklet_scheduled' \in {tasklet_scheduled, 0}
     \/ tracing_active' = 0 /\ tasklet_scheduled' = 0
     \/ UNCHANGED <<tracing_active, tasklet_scheduled>>
  /\ UNCHANGED <<mod, res, inst, ipi, tasklet, client, probe>>

Return ==
  /\ nl
  /\ nl' = FALSE
  /\ UNCHANGED <<mod, res, inst, trc, client, probe>>

\* usnl ends, by itself after STOP_TRACING or by a signal.
Close ==
  /\ client /\ ~nl
  /\ client' = FALSE
  /\ UNCHANGED <<mod, res, inst, trc, nl, probe>>

\* stop_tracing() through /proc/sepextcmd; remove_proc_entry() waits for it.
stop_tracing ==
  /\ "sepextcmd" \in proc
  /\ tracing_active' = 0
  /\ tasklet_scheduled' = 1
  /\ tasklet' = (tasklet \/ (tasklet_scheduled = 0 /\ us_pid))
  /\ UNCHANGED <<mod, res, inst, us_pid, ipi, cli, probe>>

\* add_probe() through /proc/dynprobes.
add_probe ==
  /\ "dynprobes" \in proc
  /\ kprobe' = TRUE
  /\ UNCHANGED <<mod, res, regs, trc, cli, probe>>
-----------------------------------------------------------------------------
(* sepext_init_module()                                                    *)
At(l) == mpc = l /\ Idle(MCPU)
Step(l, m) == At(l) /\ mpc' = m /\ UNCHANGED waiting

\* initialize_tracer(): /proc, buffer, socket; a failure ends the loading.
CreateProc ==
  /\ \/ Step("load", "vmalloc") /\ proc' \in {{"sepextstats"}, {"sepextstats", "sepextcmd"}}
     \/ Step("load", "failed") /\ UNCHANGED proc
  /\ UNCHANGED <<buf, nl_sk, inst, trc, cli, probe>>

\* Fault: the result of vmalloc() is not looked at.
Unallocated_Ignored == Step("vmalloc", "netlink")
Unallocated == Step("vmalloc", "failed")

Vmalloc ==
  /\ \/ /\ Step("vmalloc", "netlink")
        /\ buf' = "live"
        /\ tracing_active' = 0 /\ tasklet_scheduled' = 0
     \/ Unallocated /\ UNCHANGED <<buf, tracing_active, tasklet_scheduled>>
  /\ UNCHANGED <<proc, nl_sk, inst, us_pid, ipi, tasklet, cli, probe>>

CreateSocket ==
  /\ \/ Step("netlink", "register") /\ nl_sk' = "live"
     \/ Step("netlink", "failed") /\ UNCHANGED nl_sk
  /\ UNCHANGED <<proc, buf, inst, trc, cli, probe>>

\* activate_static_probes(): one tracepoint at a time; a probe that cannot be
\* registered is left out.
Register ==
  /\ \/ \E t \in Tracepoints \ regs : Step("register", "register") /\ regs' = regs \cup {t}
     \/ Step("register", "dynprobes") /\ UNCHANGED regs
  /\ UNCHANGED <<res, kprobe, trc, cli, probe>>

\* initialize_dynamic_probing()
CreateDynprobes ==
  /\ Step("dynprobes", "up")
  /\ proc' \in {proc, proc \cup {"dynprobes"}}
  /\ UNCHANGED <<buf, nl_sk, inst, trc, cli, probe>>
-----------------------------------------------------------------------------
(* cleanup_module()                                                        *)
DeleteModule ==
  /\ Modular /\ ~InUse
  /\ Step("up", "remove_dyn")
  /\ UNCHANGED <<res, inst, trc, cli, probe>>

\* cleanup_dynamic_probing(): unregister_kretprobe() disarms, then waits.
RemoveDynprobes ==
  /\ Step("remove_dyn", "unregister_dyn")
  /\ proc' = proc \ {"dynprobes"}
  /\ UNCHANGED <<buf, nl_sk, inst, trc, cli, probe>>

Busy == {p \in CPUs : ~Idle(p)}

\* Fault: unregister_kretprobe() does not wait for handlers that run.
UnregisterDyn_NoWait ==
  /\ At("unregister_dyn") /\ mpc' = "unregister" /\ UNCHANGED waiting
  /\ kprobe' = FALSE
  /\ UNCHANGED <<res, regs, trc, cli, probe>>

UnregisterDyn ==
  /\ At("unregister_dyn") /\ mpc' = "sync_dyn" /\ waiting' = Busy
  /\ kprobe' = FALSE
  /\ UNCHANGED <<res, regs, trc, cli, probe>>

Synchronized ==
  /\ waiting = {}
  /\ Step("sync_dyn", "unregister")
  /\ UNCHANGED <<res, inst, trc, cli, probe>>

\* deactivate_static_probes()
Unregister ==
  /\ \/ \E t \in regs \ Unpaired : Step("unregister", "unregister") /\ regs' = regs \ {t}
     \/ regs \subseteq Unpaired /\ Step("unregister", "remove") /\ UNCHANGED regs
  /\ UNCHANGED <<res, kprobe, trc, cli, probe>>

\* cleanup_tracer(): /proc, buffer, socket, tasklet
RemoveProc ==
  /\ Step("remove", "vfree")
  /\ proc' = {}
  /\ UNCHANGED <<buf, nl_sk, inst, trc, cli, probe>>

Vfree ==
  /\ Step("vfree", "release")
  /\ buf' = "freed"
  /\ UNCHANGED <<proc, nl_sk, inst, trc, cli, probe>>

ReleaseSocket ==
  /\ Step("release", "tasklet_kill")
  /\ nl_sk' = "freed"
  /\ UNCHANGED <<proc, buf, inst, trc, cli, probe>>

\* Fault: the probes that run are not waited for.
synchronize_Not == waiting' = {}
synchronize == waiting' = Busy

\* tasklet_kill() waits for the tasklet; tracepoint_synchronize_unregister().
TaskletKill ==
  /\ At("tasklet_kill") /\ mpc' = "sync"
  /\ ~tasklet
  /\ synchronize
  /\ UNCHANGED <<res, inst, trc, cli, probe>>

\* The end of cleanup_module(): the text of the module is freed.
Gone ==
  /\ waiting = {}
  /\ Step("sync", "gone")
  /\ UNCHANGED <<res, inst, trc, cli, probe>>
-----------------------------------------------------------------------------
Init ==
  /\ mpc = "load" /\ waiting = {}
  /\ proc = {} /\ buf = "none" /\ nl_sk = "none"
  /\ regs = {} /\ kprobe = FALSE
  /\ tracing_active = 0 /\ tasklet_scheduled = 0 /\ us_pid = FALSE
  /\ ipi = FALSE /\ tasklet = FALSE
  /\ client = FALSE /\ nl = FALSE
  /\ probe = [p \in CPUs |-> None]

Load == CreateProc \/ Vmalloc \/ CreateSocket \/ Register \/ CreateDynprobes
Unload ==
  \/ DeleteModule \/ RemoveDynprobes \/ UnregisterDyn \/ Synchronized \/ Unregister
  \/ RemoveProc \/ Vfree \/ ReleaseSocket \/ TaskletKill \/ Gone

Next ==
  \/ \E p \in CPUs : \/ \E w \in Tracepoints \cup {"kprobe"} : Fire(p, w)
                     \/ NotTraced(p) \/ Slot(p) \/ Full(p) \/ Finish(p) \/ Interrupt(p)
  \/ Open \/ Command \/ Return \/ Close
  \/ stop_tracing \/ add_probe
  \/ Load
  \/ Unload

Spec == Init /\ [][Next]_vars
-----------------------------------------------------------------------------
Writing(p) == probe[p].at = "write"

\* Whatever initialize_tracer() runs out of, nobody touches a buffer or a
\* socket that is not there: dynamic probes and nl_rcv_func() also during
\* unload, static probes before it.  A static probe that runs during unload is
\* excepted: cleanup_tracer() frees the buffer before it waits for them, and
\* the probe then does write to freed memory (built in, the tracer is never
\* unloaded).
BufferLive ==
  /\ \A p \in CPUs : Writing(p) /\ (~Going \/ probe[p].what = "kprobe") => buf = "live"
  /\ nl => buf = "live" /\ nl_sk = "live"

\* When the text of the module is freed, no CPU executes a probe of it and
\* none can start (include/linux/tracepoint.h:70-72), but for the tracepoints
\* deactivate_static_probes() forgets.
TextUnused ==
  mpc = "gone" =>
    /\ regs \subseteq Unpaired /\ ~kprobe
    /\ \A p \in CPUs : probe[p].what \notin (Tracepoints \ Unpaired) \cup {"kprobe"}
=============================================================================
