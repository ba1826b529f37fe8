------------------------------ MODULE Completion ------------------------------
(***************************************************************************)
(* The completions of the instrumented kernel: complete(), complete_all(), *)
(* wait_for_completion() and its variants, try_wait_for_completion() in    *)
(* kernel/sched.c, over the exclusive wait queue of __wake_up_common().    *)
(* The analyser reads their tracepoints (COMPL, WAITCOMPL).                *)
(*                                                                         *)
(* A critical section under x->wait.lock is one step.  Unlike a semaphore, *)
(* a completion is not handed over: complete() counts it and wakes a task, *)
(* which stays in the queue until it has the lock again, and another task  *)
(* may take the count first.                                               *)
(***************************************************************************)
EXTENDS Integers, Sequences, FiniteSets

CONSTANTS
  Tasks,
  UINT_MAX,      \* of x->done: more than twice MaxCompletes
  MaxCompletes   \* bound: calls of complete()

VARIABLES
  done,     \* x->done
  queue,    \* tasks in do_wait_for_common(), in the order they came
  awake,    \* those of them that are running
  pc,       \* task -> "idle", "lock", "wait"
  timed,    \* tasks whose call has a timeout ...
  spent,    \* ... and those that have none of it left
  intr,     \* tasks whose call a signal interrupts, and that have one pending
  completes, all \* calls of complete(), and whether complete_all() was called

vars == <<done, queue, awake, pc, timed, spent, intr, completes, all>>
caller == <<timed, spent, intr>>
Goto(t, l) == pc' = [pc EXCEPT ![t] = l]

\* __remove_wait_queue(): a task that did not wait is not in the queue.
list_del(s, t) ==
  IF \E i \in 1..Len(s) : s[i] = t
    THEN LET k == CHOOSE i \in 1..Len(s) : s[i] = t
         IN [i \in 1..(Len(s) - 1) |-> IF i < k THEN s[i] ELSE s[i + 1]]
    ELSE s
-----------------------------------------------------------------------------
(* complete(), complete_all()                                              *)

\* Fault: the first task is woken, whether it sleeps or not.
Woken_First == IF queue = <<>> THEN {} ELSE {Head(queue)}
\* __wake_up_common() with nr_exclusive = 1: a task that runs already does not
\* count, the scan goes on to the first one that sleeps.
Woken ==
  {queue[i] : i \in {j \in 1..Len(queue) :
     queue[j] \notin awake /\ \A k \in 1..(j - 1) : queue[k] \in awake}}

complete ==
  /\ completes < MaxCompletes
  /\ completes' = completes + 1
  /\ done' = (done + 1) % (UINT_MAX + 1)
  /\ awake' = awake \cup Woken
  /\ UNCHANGED <<queue, pc, all, caller>>

complete_all ==
  /\ ~all
  /\ all' = TRUE
  /\ done' = (done + UINT_MAX \div 2) % (UINT_MAX + 1)
  /\ awake' = awake \cup {queue[i] : i \in 1..Len(queue)}
  /\ UNCHANGED <<queue, pc, completes, caller>>
-----------------------------------------------------------------------------
(* wait_for_completion() and its variants                                  *)

Call(t, to) ==
  /\ pc[t] = "idle"
  /\ Goto(t, "lock")
  /\ timed' = IF to THEN timed \cup {t} ELSE timed
  /\ UNCHANGED <<done, queue, awake, spent, intr, completes, all>>

\* The call returns; a signal is delivered.
Return(t) ==
  /\ Goto(t, "idle")
  /\ timed' = timed \ {t}
  /\ spent' = spent \ {t}
  /\ intr' = intr \ {t}

\* The count is there: x->done--.  After a wait the task leaves the queue.
Take(t) ==
  /\ pc[t] = "lock" \/ (pc[t] = "wait" /\ t \in awake)
  /\ done > 0
  /\ done' = done - 1
  /\ queue' = list_del(queue, t)
  /\ awake' = awake \ {t}
  /\ Return(t)
  /\ UNCHANGED <<completes, all>>

\* try_wait_for_completion()
TryWait(t) ==
  /\ pc[t] = "idle"
  /\ done > 0
  /\ done' = done - 1
  /\ UNCHANGED <<queue, awake, pc, completes, all, caller>>

Enqueue(t) ==
  /\ pc[t] = "lock"
  /\ done = 0 /\ t \notin intr
  /\ queue' = Append(queue, t)
  /\ Goto(t, "wait")
  /\ UNCHANGED <<done, awake, completes, all, caller>>

\* The timer, a signal.
Timeout(t) ==
  /\ t \in timed \ spent
  /\ pc[t] = "wait"
  /\ spent' = spent \cup {t}
  /\ awake' = awake \cup {t}
  /\ UNCHANGED <<done, queue, pc, timed, intr, completes, all>>

Signal(t) ==
  /\ t \notin intr /\ pc[t] # "idle"
  /\ intr' = intr \cup {t}
  /\ awake' = IF pc[t] = "wait" THEN awake \cup {t} ELSE awake
  /\ UNCHANGED <<done, queue, pc, timed, spent, completes, all>>

\* Fault: the time that is left is looked at before x->done.
Fails_First(t) == t \in spent \cup intr
Fails(t) == done = 0 /\ t \in spent \cup intr

\* Timed out or interrupted, and nothing to take.
GiveUp(t) ==
  /\ pc[t] = "lock" \/ (pc[t] = "wait" /\ t \in awake)
  /\ Fails(t)
  /\ queue' = list_del(queue, t)
  /\ awake' = awake \ {t}
  /\ Return(t)
  /\ UNCHANGED <<done, completes, all>>

\* Another task was faster: wait on, at the same place in the queue.
Again(t) ==
  /\ pc[t] = "wait" /\ t \in awake
  /\ done = 0 /\ t \notin spent \cup intr
  /\ awake' = awake \ {t}
  /\ UNCHANGED <<done, queue, pc, completes, all, caller>>
-----------------------------------------------------------------------------
Init ==
  /\ done = 0 /\ queue = <<>> /\ awake = {}
  /\ pc = [t \in Tasks |-> "idle"]
  /\ timed = {} /\ spent = {} /\ intr = {}
  /\ completes = 0 /\ all = FALSE

Proceed(t) == Take(t) \/ Enqueue(t) \/ GiveUp(t) \/ Again(t)

Next ==
  \/ complete \/ complete_all
  \/ \E t \in Tasks : \/ \E to \in BOOLEAN : Call(t, to)
                      \/ Proceed(t) \/ TryWait(t) \/ Timeout(t) \/ Signal(t)

\* Tasks that can run do; nobody need ever call complete().
Spec == Init /\ [][Next]_vars /\ \A t \in Tasks : WF_vars(Proceed(t))
-----------------------------------------------------------------------------
Least(a, b) == IF a < b THEN a ELSE b

\* No wake-up is lost: as long as completions are left, as many waiters as can
\* have one are running, although a task that was woken for one may time out,
\* be interrupted or be overtaken.
WakeupsSuffice == Cardinality(awake) >= Least(done, Len(queue))

\* A task does not wait for ever while completions are left: it gets one, or
\* others have taken them all.
WaitEnds == \A t \in Tasks : (pc[t] = "wait" /\ done > 0) ~> (pc[t] # "wait" \/ done = 0)
=============================================================================
