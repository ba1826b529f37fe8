------------------------------- MODULE Tasklet -------------------------------
(***************************************************************************)
(* Softirqs and tasklets of the instrumented kernel: kernel/softirq.c and  *)
(* include/linux/interrupt.h.  stop_tracing() wakes the collector through  *)
(* one, cleanup_tracer() kills it, and the analyser reads the tracepoints  *)
(* of both loops.                                                          *)
(*                                                                         *)
(* One step is an atomic bit operation or a section with interrupts off.   *)
(* Between two of them an interrupt may come in on the same CPU and        *)
(* schedule a tasklet, and the other CPUs go on.                           *)
(***************************************************************************)
EXTENDS Integers, Sequences, FiniteSets

CONSTANTS
  CPUs,
  Tasklets,
  MaxCalls   \* bound: calls of tasklet_schedule() and tasklet_disable_nosync()

VARIABLES
  SCHED, RUN,   \* tasklets with the bit of t->state set
  disabled,     \* tasklets with t->count > 0
  marked,       \* CPU -> tasklets whose SCHED its contexts set, yet to be queued
  tasklet_vec,  \* CPU -> queue
  pending,      \* CPUs with TASKLET_SOFTIRQ pending
  pc,           \* CPU -> where its softirq is
  list,         \* CPU -> what tasklet_action() took from the queue
  kpc,          \* tasklet -> where its tasklet_kill() is
  bug,          \* BUG() was reached
  calls         \* bounded calls

vars == <<SCHED, RUN, disabled, marked, tasklet_vec, pending, pc, list, kpc, bug, calls>>
queues == <<marked, tasklet_vec, pending>>
softirq == <<pc, list, bug>>
Goto(c, l) == pc' = [pc EXCEPT ![c] = l]
Alive(t) == kpc[t] = "alive"
-----------------------------------------------------------------------------
(* tasklet_schedule(), from any context; not once the tasklet is killed.   *)

\* Fault: the bit is not tested.
Marks_Untested(t) == {t}
\* test_and_set_bit(TASKLET_STATE_SCHED): the first to set it queues it.
Marks(t) == {t} \ SCHED

tasklet_schedule(c, t) ==
  /\ Alive(t)
  /\ calls < MaxCalls
  /\ calls' = calls + 1
  /\ SCHED' = SCHED \cup {t}
  /\ marked' = [marked EXCEPT ![c] = @ \cup Marks(t)]
  /\ UNCHANGED <<RUN, disabled, tasklet_vec, pending, kpc, softirq>>

\* __tasklet_schedule(), with interrupts off.
__tasklet_schedule(c, t) ==
  /\ t \in marked[c]
  /\ marked' = [marked EXCEPT ![c] = @ \ {t}]
  /\ tasklet_vec' = [tasklet_vec EXCEPT ![c] = Append(@, t)]
  /\ pending' = pending \cup {c}
  /\ UNCHANGED <<SCHED, RUN, disabled, kpc, calls, softirq>>
-----------------------------------------------------------------------------
(* __do_softirq() and tasklet_action()                                     *)

\* On the way out of an interrupt, or in ksoftirqd.
__do_softirq(c) ==
  /\ pc[c] = "idle"
  /\ c \in pending
  /\ pending' = pending \ {c}
  /\ Goto(c, "take")
  /\ UNCHANGED <<SCHED, RUN, disabled, marked, tasklet_vec, list, kpc, bug, calls>>

tasklet_action(c) ==
  /\ pc[c] = "take"
  /\ list' = [list EXCEPT ![c] = tasklet_vec[c]]
  /\ tasklet_vec' = [tasklet_vec EXCEPT ![c] = <<>>]
  /\ Goto(c, "loop")
  /\ UNCHANGED <<SCHED, RUN, disabled, marked, pending, kpc, bug, calls>>

LoopEnds(c) ==
  /\ pc[c] = "loop"
  /\ list[c] = <<>>
  /\ Goto(c, "idle")
  /\ UNCHANGED <<SCHED, RUN, disabled, queues, list, kpc, bug, calls>>

\* Fault: what a uniprocessor build has.
Locked_Not(t) == FALSE
Locked(t) == t \in RUN

tasklet_trylock(c) ==
  /\ pc[c] = "loop"
  /\ list[c] # <<>>
  /\ Goto(c, IF Locked(Head(list[c])) THEN "requeue" ELSE "count")
  /\ RUN' = RUN \cup {Head(list[c])}
  /\ UNCHANGED <<SCHED, disabled, queues, list, kpc, bug, calls>>

\* t->count is read: a disabled tasklet is put back.
CountRead(c) ==
  /\ pc[c] = "count"
  /\ Goto(c, IF Head(list[c]) \in disabled THEN "unlock" ELSE "clear")
  /\ UNCHANGED <<SCHED, RUN, disabled, queues, list, kpc, bug, calls>>

\* test_and_clear_bit(TASKLET_STATE_SCHED), or BUG().
ClearSched(c) ==
  /\ pc[c] = "clear"
  /\ SCHED' = SCHED \ {Head(list[c])}
  /\ bug' = (bug \/ Head(list[c]) \notin SCHED)
  /\ Goto(c, "func")
  /\ UNCHANGED <<RUN, disabled, queues, list, kpc, calls>>

\* t->func() returns.
tasklet_unlock(c) ==
  /\ pc[c] \in {"func", "unlock"}
  /\ RUN' = RUN \ {Head(list[c])}
  /\ list' = IF pc[c] = "func" THEN [list EXCEPT ![c] = Tail(@)] ELSE list
  /\ Goto(c, IF pc[c] = "func" THEN "loop" ELSE "requeue")
  /\ UNCHANGED <<SCHED, disabled, queues, kpc, bug, calls>>

\* Fault: the softirq is not raised again.
Raised_Not(c) == pending
Raised(c) == pending \cup {c}

Requeue(c) ==
  /\ pc[c] = "requeue"
  /\ list' = [list EXCEPT ![c] = Tail(@)]
  /\ tasklet_vec' = [tasklet_vec EXCEPT ![c] = Append(@, Head(list[c]))]
  /\ pending' = Raised(c)
  /\ Goto(c, "loop")
  /\ UNCHANGED <<SCHED, RUN, disabled, marked, kpc, bug, calls>>
-----------------------------------------------------------------------------
(* tasklet_disable_nosync(), tasklet_enable(), tasklet_kill()              *)
tasklet_disable_nosync(t) ==
  /\ Alive(t) /\ t \notin disabled
  /\ calls < MaxCalls
  /\ calls' = calls + 1
  /\ disabled' = disabled \cup {t}
  /\ UNCHANGED <<SCHED, RUN, queues, kpc, softirq>>

tasklet_enable(t) ==
  /\ t \in disabled
  /\ disabled' = disabled \ {t}
  /\ UNCHANGED <<SCHED, RUN, queues, kpc, calls, softirq>>

\* Whoever kills a tasklet schedules it no more.
tasklet_kill(t) ==
  /\ Alive(t)
  /\ kpc' = [kpc EXCEPT ![t] = "sched"]
  /\ UNCHANGED <<SCHED, RUN, disabled, queues, calls, softirq>>

KillSched(t) ==
  /\ kpc[t] = "sched"
  /\ t \notin SCHED
  /\ SCHED' = SCHED \cup {t}
  /\ kpc' = [kpc EXCEPT ![t] = "run"]
  /\ UNCHANGED <<RUN, disabled, queues, calls, softirq>>

\* Fault: what runs is not waited for.
Quiet_Not(t) == TRUE
\* tasklet_unlock_wait()
Quiet(t) == t \notin RUN

KillRun(t) ==
  /\ kpc[t] = "run"
  /\ Quiet(t)
  /\ SCHED' = SCHED \ {t}
  /\ kpc' = [kpc EXCEPT ![t] = "killed"]
  /\ UNCHANGED <<RUN, disabled, queues, calls, softirq>>
-----------------------------------------------------------------------------
Init ==
  /\ SCHED = {} /\ RUN = {} /\ disabled = {}
  /\ marked = [c \in CPUs |-> {}]
  /\ tasklet_vec = [c \in CPUs |-> <<>>]
  /\ pending = {}
  /\ pc = [c \in CPUs |-> "idle"]
  /\ list = [c \in CPUs |-> <<>>]
  /\ kpc = [t \in Tasklets |-> "alive"]
  /\ bug = FALSE
  /\ calls = 0

Softirq(c) ==
  \/ __do_softirq(c) \/ tasklet_action(c) \/ LoopEnds(c) \/ tasklet_trylock(c)
  \/ CountRead(c) \/ ClearSched(c) \/ tasklet_unlock(c) \/ Requeue(c)

Next ==
  \/ \E c \in CPUs, t \in Tasklets : tasklet_schedule(c, t) \/ __tasklet_schedule(c, t)
  \/ \E c \in CPUs : Softirq(c)
  \/ \E t \in Tasklets : \/ tasklet_disable_nosync(t) \/ tasklet_enable(t)
                         \/ tasklet_kill(t) \/ KillSched(t) \/ KillRun(t)

\* CPUs go on; a tasklet that is disabled is enabled again.
Spec ==
  /\ Init /\ [][Next]_vars
  /\ \A c \in CPUs : WF_vars(Softirq(c)) /\ \A t \in Tasklets : WF_vars(__tasklet_schedule(c, t))
  /\ \A t \in Tasklets : WF_vars(tasklet_enable(t)) /\ WF_vars(KillSched(t) \/ KillRun(t))
-----------------------------------------------------------------------------
InFunc(t) == {c \in CPUs : pc[c] \in {"count", "clear", "func"} /\ Head(list[c]) = t}

\* A tasklet is in one queue, and has its bit set there: the kernel's own
\* check, BUG() in tasklet_action(), is never reached, although the bit is set
\* on one CPU, tested on others and cleared by whoever runs the tasklet.  Its
\* function never runs on two CPUs at once.
Exclusive == ~bug /\ \A t \in Tasklets : Cardinality(InFunc(t)) <= 1

\* After tasklet_kill() the tasklet neither runs nor is queued anywhere, so
\* that the module's text, with its function, may go.  (The socket it sends to
\* is released just before, at sepext_trace.c:423.)
KilledGone ==
  \A t \in Tasklets : kpc[t] = "killed" =>
    /\ InFunc(t) = {}
    /\ \A c \in CPUs : /\ t \notin marked[c]
                       /\ \A i \in 1..Len(tasklet_vec[c]) : tasklet_vec[c][i] # t
                       /\ \A i \in 1..Len(list[c]) : list[c][i] # t

\* A tasklet that was scheduled runs, also when it was scheduled while it ran
\* or while its softirq was being handled, and tasklet_kill() returns.
ScheduledRuns ==
  \A t \in Tasklets : /\ (t \in SCHED) ~> (t \notin SCHED)
                      /\ (kpc[t] = "sched") ~> (kpc[t] = "killed")
=============================================================================
