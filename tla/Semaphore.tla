------------------------------ MODULE Semaphore ------------------------------
(***************************************************************************)
(* The counting semaphores of the instrumented kernel: kernel/semaphore.c. *)
(* Their tracepoints (SEMDOWN, SEMUP) are what the analyser reads; the     *)
(* wireless driver's threads are driven by them.                           *)
(*                                                                         *)
(* A critical section under sem->lock is one step.  Between two of them a  *)
(* task sleeps, and it wakes for any of three reasons at once: it was      *)
(* given the semaphore, its time is up, a signal came.                     *)
(***************************************************************************)
EXTENDS Integers, Sequences, FiniteSets

CONSTANTS
  Tasks,
  Initial,  \* sema_init(): how many may acquire it
  MaxExtra  \* bound: up() by a context that never called down()

ASSUME SemAssumption ==
  /\ IsFiniteSet(Tasks)
  /\ Initial \in Nat
  /\ MaxExtra \in Nat

VARIABLES
  count,      \* sem->count
  wait_list,  \* tasks in __down_common(), in the order they came
  up,         \* tasks whose waiter.up is set
  pc,         \* task -> "idle", "lock", "sleep", "relock", "held"
  kind,       \* task -> the function called
  expired,    \* tasks whose timeout is used up
  signalled,  \* tasks with a signal pending
  extra       \* up() by contexts that hold nothing

vars == <<count, wait_list, up, pc, kind, expired, signalled, extra>>

Kinds == {"down", "interruptible", "timeout", "trylock"}
Goto(t, l) == pc' = [pc EXCEPT ![t] = l]

list_del(s, t) ==
  IF \E i \in 1..Len(s) : s[i] = t
    THEN LET k == CHOOSE i \in 1..Len(s) : s[i] = t
         IN [i \in 1..(Len(s) - 1) |-> IF i < k THEN s[i] ELSE s[i + 1]]
    ELSE s
-----------------------------------------------------------------------------
(* down(), down_interruptible() and down_killable() (alike but for the     *)
(* signals that count), down_timeout(), down_trylock()                     *)

\* The call, up to taking the lock; SEMDOWN is traced here.  The signals of
\* the call before were delivered when the task left the kernel.
Call(t, k) ==
  /\ pc[t] = "idle"
  /\ kind' = [kind EXCEPT ![t] = k]
  /\ expired' = expired \ {t}
  /\ signalled' = signalled \ {t}
  /\ Goto(t, "lock")
  /\ UNCHANGED <<count, wait_list, up, extra>>

Acquire(t) ==
  /\ pc[t] = "lock"
  /\ count > 0
  /\ count' = count - 1
  /\ Goto(t, "held")
  /\ UNCHANGED <<wait_list, up, kind, expired, signalled, extra>>

\* signal_pending_state()
Interrupted(t) == kind[t] = "interruptible" /\ t \in signalled

\* What makes a task stop waiting, or not begin to: down_trylock() never
\* waits, jiffies may be 0 from the start.
NoWait(t) == kind[t] = "trylock" \/ t \in expired \/ Interrupted(t)

Refused(t) ==
  /\ pc[t] = "lock"
  /\ count = 0
  /\ NoWait(t)
  /\ Goto(t, "idle")
  /\ UNCHANGED <<count, wait_list, up, kind, expired, signalled, extra>>

\* __down_common() up to schedule_timeout().
Enqueue(t) ==
  /\ pc[t] = "lock"
  /\ count = 0
  /\ ~NoWait(t)
  /\ wait_list' = Append(wait_list, t)
  /\ Goto(t, "sleep")
  /\ UNCHANGED <<count, up, kind, expired, signalled, extra>>

\* The timer fires, a signal wakes the task, or some other wake_up_process().
Timeout(t) ==
  /\ pc[t] \in {"lock", "sleep", "relock"}
  /\ kind[t] = "timeout"
  /\ t \notin expired
  /\ expired' = expired \cup {t}
  /\ Goto(t, IF pc[t] = "lock" THEN "lock" ELSE "relock")
  /\ UNCHANGED <<count, wait_list, up, kind, signalled, extra>>

\* Only a call that a signal interrupts can tell that there is one.
Signal(t) ==
  /\ pc[t] \in {"lock", "sleep", "relock"}
  /\ kind[t] = "interruptible"
  /\ t \notin signalled
  /\ signalled' = signalled \cup {t}
  /\ Goto(t, IF pc[t] = "lock" THEN "lock" ELSE "relock")
  /\ UNCHANGED <<count, wait_list, up, kind, expired, extra>>

Wake(t) ==
  /\ pc[t] = "sleep"
  /\ Goto(t, "relock")
  /\ UNCHANGED <<count, wait_list, up, kind, expired, signalled, extra>>

\* The loop in __down_common() after the lock is taken again.  waiter.up
\* comes first: a task that was given the semaphore keeps it.
Granted(t) ==
  /\ pc[t] = "relock"
  /\ t \in up
  /\ up' = up \ {t}
  /\ Goto(t, "held")
  /\ UNCHANGED <<count, wait_list, kind, expired, signalled, extra>>

\* Fault: the timeout and the signal are looked at first.
GivesUp_First(t) == pc[t] = "relock" /\ NoWait(t)
GivesUp(t) == pc[t] = "relock" /\ t \notin up /\ NoWait(t)

GiveUp(t) ==
  /\ GivesUp(t)
  /\ wait_list' = list_del(wait_list, t)
  /\ up' = up \ {t}
  /\ Goto(t, "idle")
  /\ UNCHANGED <<count, kind, expired, signalled, extra>>

Again(t) ==
  /\ pc[t] = "relock"
  /\ t \notin up /\ ~NoWait(t)
  /\ Goto(t, "sleep")
  /\ UNCHANGED <<count, wait_list, up, kind, expired, signalled, extra>>
-----------------------------------------------------------------------------
\* Fault: the waiter is given the semaphore but not woken.
Hand_NoWakeup(p) ==
  IF wait_list = <<>>
    THEN count' = count + 1 /\ pc' = p /\ UNCHANGED <<wait_list, up>>
    ELSE /\ wait_list' = Tail(wait_list)
         /\ up' = up \cup {Head(wait_list)}
         /\ pc' = p
         /\ UNCHANGED count

\* Fault: the semaphore is released to whoever comes first.
Hand_ToAnyone(p) ==
  /\ count' = count + 1
  /\ pc' = IF wait_list # <<>> /\ p[Head(wait_list)] = "sleep"
             THEN [p EXCEPT ![Head(wait_list)] = "relock"] ELSE p
  /\ UNCHANGED <<wait_list, up>>

\* up() and __up(): the first waiter is given the semaphore and woken.
Hand(p) ==
  IF wait_list = <<>>
    THEN count' = count + 1 /\ pc' = p /\ UNCHANGED <<wait_list, up>>
    ELSE /\ wait_list' = Tail(wait_list)
         /\ up' = up \cup {Head(wait_list)}
         /\ pc' = [p EXCEPT ![Head(wait_list)] = "relock"]
         /\ UNCHANGED count

Up(t) ==
  /\ pc[t] = "held"
  /\ Hand([pc EXCEPT ![t] = "idle"])
  /\ UNCHANGED <<kind, expired, signalled, extra>>

UpByOther ==
  /\ extra < MaxExtra
  /\ extra' = extra + 1
  /\ Hand(pc)
  /\ UNCHANGED <<kind, expired, signalled>>
-----------------------------------------------------------------------------
Init ==
  /\ count = Initial
  /\ wait_list = <<>>
  /\ up = {}
  /\ pc = [t \in Tasks |-> "idle"]
  /\ kind = [t \in Tasks |-> "down"]
  /\ expired = {}
  /\ signalled = {}
  /\ extra = 0

\* What a task does once it has called: the scheduler lets it go on.
Proceed(t) == Acquire(t) \/ Refused(t) \/ Enqueue(t) \/ Granted(t) \/ GiveUp(t) \/ Again(t)

Next ==
  \/ \E t \in Tasks : \/ \E k \in Kinds : Call(t, k)
                      \/ Proceed(t) \/ Timeout(t) \/ Signal(t) \/ Wake(t) \/ Up(t)
  \/ UpByOther

Spec == Init /\ [][Next]_vars

\* Tasks run when they can, and whoever holds the semaphore releases it.
FairSpec == Spec /\ \A t \in Tasks : WF_vars(Proceed(t)) /\ WF_vars(Up(t))
-----------------------------------------------------------------------------
\* The types of the variables.
TypeOK ==
  /\ count \in Nat
  /\ wait_list \in Seq(Tasks)
  /\ up \subseteq Tasks
  /\ pc \in [Tasks -> {"idle", "lock", "sleep", "relock", "held"}]
  /\ kind \in [Tasks -> Kinds]
  /\ expired \subseteq Tasks /\ signalled \subseteq Tasks
  /\ extra \in Nat

\* No permission is lost or made up: those left, those given to a task that
\* has yet to wake, and those held are the ones the semaphore was set up with
\* and received, although up() races with timeouts and signals.
Holding == {t \in Tasks : pc[t] = "held"}
Conserved == count + Cardinality(up) + Cardinality(Holding) = Initial + extra

\* Nobody gets past those who wait: there are waiters only while the count
\* is 0 ("If it's zero, there may be tasks waiting on the wait_list").
NoBarging == wait_list # <<>> => count = 0

\* Every down() ends: the semaphore is handed on in turn, so that no task
\* waits for ever while holders release it.
DownReturns == \A t \in Tasks : pc[t] = "lock" ~> pc[t] \in {"held", "idle"}
=============================================================================
