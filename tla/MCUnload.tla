------------------------------ MODULE MCUnload ------------------------------
(***************************************************************************)
(* Loading and unloading for TLC: the life cycle of the tracer, the table  *)
(* of dynamic probes it empties, or the tasklets it kills one of.  What    *)
(* Lifecycle needs of the table and of tasklet_kill() it states itself, so *)
(* the three share no state here: each behaviour is one of one component,  *)
(* chosen at the start, and the others stay as they began.                 *)
(***************************************************************************)
EXTENDS Lifecycle

CONSTANTS MAX_PROBES, Addrs, Writers, MaxRequests, Tasklets, MaxCalls

ASSUME TableAssumption == MAX_PROBES \in Nat \ {0}

VARIABLES
  which,
  lastprobe, kprobes, armed, wpc, req, requests, cpc, i,
  SCHED, RUN, disabled, marked, tasklet_vec, pending, pc, list, kpc, bug, calls

D == INSTANCE DynProbes
T == INSTANCE Tasklet

dynprobes == <<lastprobe, kprobes, armed, wpc, req, requests, cpc, i>>
tasklets == <<SCHED, RUN, disabled, marked, tasklet_vec, pending, pc, list, kpc, bug, calls>>
all_vars == <<which, vars, dynprobes, tasklets>>

\* A step of one component.
OfLifecycle(A) == which = "lifecycle" /\ A /\ UNCHANGED <<which, dynprobes, tasklets>>
OfDynProbes(A) == which = "dynprobes" /\ A /\ UNCHANGED <<which, vars, tasklets>>
OfTasklet(A) == which = "tasklet" /\ A /\ UNCHANGED <<which, vars, dynprobes>>

UnloadInit == which \in {"lifecycle", "dynprobes", "tasklet"} /\ Init /\ D!Init /\ T!Init
UnloadNext == OfLifecycle(Next) \/ OfDynProbes(D!Next) \/ OfTasklet(T!Next)

\* The fairness of Tasklet; the other two have none.
UnloadSpec ==
  /\ UnloadInit /\ [][UnloadNext]_all_vars
  /\ \A c \in CPUs : /\ WF_all_vars(OfTasklet(T!Softirq(c)))
                     /\ \A t \in Tasklets : WF_all_vars(OfTasklet(T!__tasklet_schedule(c, t)))
  /\ \A t \in Tasklets : /\ WF_all_vars(OfTasklet(T!tasklet_enable(t)))
                         /\ WF_all_vars(OfTasklet(T!KillSched(t) \/ T!KillRun(t)))
-----------------------------------------------------------------------------
\* DynProbes: the loop of cleanup_dynamic_probing() stays in the table.
LoopInTable == D!LoopInTable

\* DynProbes: after it the kernel knows no probe of the table.
NoneLeftArmed == D!NoneLeftArmed

\* Tasklet: tasklet_action() never reaches its BUG(), and a tasklet never runs
\* on two CPUs at once.
Exclusive == T!Exclusive

\* Tasklet: it runs nowhere and is queued nowhere once tasklet_kill() is done.
KilledGone == T!KilledGone

\* Tasklet: what tasklet_schedule() scheduled runs, and tasklet_kill() returns.
ScheduledRuns == T!ScheduledRuns
=============================================================================
