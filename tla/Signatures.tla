----------------------------- MODULE Signatures -----------------------------
(***************************************************************************)
(* createSignatures() and storeSignatures() of analyse.go: the lines of    *)
(* one instance of a service (module Analyse) become a signature, a list   *)
(* of events and a list of durations, and the signatures of a service that *)
(* have the same events are averaged, duration by duration.                *)
(*                                                                         *)
(* The instance is produced line by line beside the loop that reads it:    *)
(* a thread inside the service passes events, calls other services, runs   *)
(* loops, is interrupted, is switched out and in, and leaves.              *)
(***************************************************************************)
EXTENDS Integers, Sequences

CONSTANTS
  MaxEntries, \* bound: lines of an instance
  Steps       \* cycles that may pass between two lines

VARIABLES
  service,  \* what the instance is of: a service, a loop, irq_enter, a handler,
            \* or "softirq": a loop of __do_softirq() that lies in irq_exit()
  where,    \* machine: where the thread is, seen from the service
  now,      \* ... the CPU's total cycle count ...
  own, hit, \* ... cycles it has spent in the service, and in interrupts of it ...
  skipped,  \* ... and whether the analyser leaves some of them out by design
  n,        \* lines read
  toDeduct, starti, startii, lastEvent, didSleep, previousEntry, \* the locals
  Events, Duration, \* signature
  stored    \* profiles.PutSignature() was called

machine == <<service, where, now, own, hit, skipped, n>>
locals == <<toDeduct, starti, startii, lastEvent, didSleep, previousEntry>>
signature == <<Events, Duration, stored>>
vars == <<machine, locals, signature>>
-----------------------------------------------------------------------------
(* One line of the instance, at the cycle count now'                       *)

\* Time passes: in the service, in an interrupt that hit it, or elsewhere.
Pass(what) ==
  /\ n < MaxEntries
  /\ n' = n + 1
  /\ \E d \in Steps :
       /\ now' = now + d
       /\ own' = IF what = "own" THEN own + d ELSE own
       /\ hit' = IF what = "irq" THEN hit + d ELSE hit
  /\ UNCHANGED service

Move(from, to) == where = from /\ where' = to

\* AddDuration((entry.Cycles - lastEvent) - toDeduct)
Process == [k |-> "process", n |-> (now' - lastEvent) - toDeduct]
Peu == [k |-> "peu", n |-> 0]

\* Fault: the two durations of a PEUSTART in the wrong order.
PeuDurations_Swapped == <<Peu, Process>>
PeuDurations == <<Process, Peu>>

Emit(event, durations) ==
  /\ Events' = Append(Events, event)
  /\ Duration' = Duration \o durations
  /\ UNCHANGED stored

Restarted == toDeduct' = 0 /\ lastEvent' = now'
KeepClock == UNCHANGED <<starti, startii>>
Previous(ev) == previousEntry' = ev

\* The entry of the service itself: the first line.
Start ==
  /\ Move("before", "in")
  /\ Pass("other")
  /\ Emit("START", <<>>)
  /\ Restarted /\ KeepClock /\ Previous("START")
  /\ UNCHANGED <<skipped, didSleep>>

\* Events of the processing model: packet, queue, state and synchronisation
\* events, the start of a loop, a service taken off a queue and run.
Point(ev, to) ==
  /\ service = "softirq" => to = "in"
  /\ Move("in", to)
  /\ Pass("own")
  /\ Emit("POINT", <<Process>>)
  /\ Restarted /\ KeepClock /\ Previous(ev)
  /\ UNCHANGED <<skipped, didSleep>>

\* A wake-up that a semaphore or completion makes is part of that event.
Wakeup ==
  /\ Move("in", "in")
  /\ Pass("own")
  /\ IF previousEntry = "UP"
       THEN UNCHANGED <<toDeduct, lastEvent, signature>>
       ELSE Emit("POINT", <<Process>>) /\ Restarted
  /\ KeepClock /\ Previous("TTWAKEUP")
  /\ UNCHANGED <<skipped, didSleep>>

PeuStart ==
  /\ Move("in", "in")
  /\ Pass("own")
  /\ Emit("PEUSTART", PeuDurations)
  /\ Restarted /\ KeepClock /\ Previous("PEUSTART")
  /\ UNCHANGED <<skipped, didSleep>>

\* A call of another service; the clock is restarted on return.
Call ==
  /\ Move("in", "call")
  /\ Pass("own")
  /\ Emit("CALL", <<Process>>)
  /\ toDeduct' = 0
  /\ KeepClock /\ Previous("CALL")
  /\ UNCHANGED <<skipped, lastEvent, didSleep>>

\* Return from the callee, or LOOPSTOP.
Resume(from) ==
  /\ Move(from, "in")
  /\ Pass("other")
  /\ Restarted
  /\ KeepClock /\ Previous("RETURN")
  /\ UNCHANGED <<skipped, didSleep, signature>>

\* A loop that starts or a softirq that is dequeued at a location in irq_exit()
\* is not registered with its caller, and the time before it goes with it: the
\* outer loop of __do_softirq() in irq_enter, in it the inner loop, and in that
\* every softirq.
Unregistered(to) ==
  /\ service = "softirq" \/ (service = "irq_enter" /\ to = "loop")
  /\ Move("in", to)
  /\ Pass("own")
  /\ skipped' = TRUE
  /\ UNCHANGED <<locals, signature>>

\* irq_enter() in the service: its start is noted and the difference to
\* itself, zero, deducted; its exit changes nothing.
Interrupt ==
  /\ Move("in", "irq")
  /\ Pass("own")
  /\ starti' = now'
  /\ UNCHANGED <<skipped, toDeduct, startii, lastEvent, didSleep, previousEntry, signature>>
InterruptReturn ==
  /\ Move("irq", "in")
  /\ Pass("irq")
  /\ Previous("SRVEXIT")
  /\ UNCHANGED <<skipped, toDeduct, starti, startii, lastEvent, didSleep, signature>>

\* HIRQENTRY and HIRQEXIT appear in the service an interrupt's handler is
\* dequeued in.
HirqEntry ==
  /\ service = "handler"
  /\ Move("in", "hirq")
  /\ Pass("own")
  /\ startii' = now'
  /\ UNCHANGED <<skipped, toDeduct, starti, lastEvent, didSleep, previousEntry, signature>>
HirqExit ==
  /\ Move("hirq", "in")
  /\ Pass("other")
  /\ toDeduct' = toDeduct + (now' - startii)
  /\ UNCHANGED <<skipped, starti, startii, lastEvent, didSleep, previousEntry, signature>>

Sleep ==
  /\ service \notin {"irq_enter", "softirq"}
  /\ Move("in", "in")
  /\ Pass("own")
  /\ didSleep' = TRUE
  /\ UNCHANGED <<skipped, toDeduct, starti, startii, lastEvent, previousEntry, signature>>

\* CTXSW away: an event of its own if the thread went to sleep by itself, not
\* if it waits for a semaphore or completion, or was preempted.
SwitchOut ==
  /\ service \in {"service", "loop"}
  /\ Move("in", "out")
  /\ Pass("own")
  /\ IF didSleep /\ previousEntry # "DOWN"
       THEN Emit("SLEEP", <<Process>>) /\ toDeduct' = 0 /\ UNCHANGED <<starti, skipped>>
       ELSE starti' = now' /\ skipped' = (skipped \/ didSleep) /\ UNCHANGED <<toDeduct, signature>>
  /\ Previous("CTXSW")
  /\ UNCHANGED <<startii, lastEvent, didSleep>>

\* Fault: time spent switched out is not deducted.
Preempted_Charged == UNCHANGED toDeduct
Preempted == toDeduct' = toDeduct + (now' - starti)

SwitchIn ==
  /\ Move("out", "in")
  /\ Pass("other")
  /\ IF didSleep
       THEN lastEvent' = now' /\ Previous("CTXSW") /\ UNCHANGED toDeduct
       ELSE Preempted /\ UNCHANGED <<lastEvent, previousEntry>>
  /\ didSleep' = FALSE
  /\ UNCHANGED <<skipped, starti, startii, signature>>

\* The exit of the service, or the end of a pass of the loop.  The exit of a
\* handler carries no name and is taken for the return from a call.
Stop ==
  /\ Move("in", "after")
  /\ Pass("own")
  /\ IF service = "handler"
       THEN Restarted /\ UNCHANGED signature
       ELSE /\ Events' = Append(Events, "STOP")
            /\ Duration' = Append(Duration, Process)
            /\ stored' = TRUE
            /\ toDeduct' = 0
            /\ UNCHANGED lastEvent
  /\ KeepClock /\ Previous("STOP")
  /\ UNCHANGED <<skipped, didSleep>>
-----------------------------------------------------------------------------
Init ==
  /\ service \in {"service", "loop", "irq_enter", "softirq", "handler"}
  /\ where = "before"
  /\ now = 0
  /\ own = 0 /\ hit = 0
  /\ skipped = FALSE
  /\ n = 0
  /\ toDeduct = 0 /\ starti = 0 /\ startii = 0 /\ lastEvent = 0
  /\ didSleep = FALSE
  /\ previousEntry = "none"
  /\ Events = <<>>
  /\ Duration = <<>>
  /\ stored = FALSE

Next ==
  \/ Start
  \/ \E ev \in {"UP", "DOWN", "OTHER"} : Point(ev, "in")
  \/ Point("LOOPSTART", "loop") \/ Unregistered("loop") \/ Resume("loop")
  \/ Call \/ Point("SRVQUEUE", "call") \/ Unregistered("call") \/ Resume("call")
  \/ Wakeup \/ PeuStart
  \/ Interrupt \/ InterruptReturn
  \/ HirqEntry \/ HirqExit
  \/ Sleep \/ SwitchOut \/ SwitchIn
  \/ Stop

Spec == Init /\ [][Next]_vars
-----------------------------------------------------------------------------
(* storeSignatures(): the durations are written after the events they      *)
(* belong to, by an index that runs along with the events.                 *)

\* delayInd when event i is reached.
delayInd(i) ==
  LET before[j \in 0 .. i - 1] ==
        IF j = 0 THEN 0
        ELSE before[j - 1] + (IF Events[j] = "PEUSTART" THEN 2 ELSE 1)
  IN  before[i - 1]

\* The duration written as PROCESS after event i, and for a PEUSTART before it.
ProcessAt(i) == delayInd(i) + 1 + (IF Events[i] = "PEUSTART" THEN 1 ELSE 0)
PeuAt(i) == delayInd(i) + 1

\* Each duration of a stored signature is written where it belongs: the
\* indices run through all of them, a PEUSTART gets the duration of its PEU
\* and every PROCESS line a processing time.
DurationsAligned ==
  stored =>
    /\ delayInd(Len(Events)) = Len(Duration)
    /\ \A i \in 1 .. Len(Events) - 1 :
         /\ Duration[ProcessAt(i)].k = "process"
         /\ Events[i] = "PEUSTART" => Duration[PeuAt(i)].k = "peu"

SumTo(d) ==
  LET sum[j \in 0 .. Len(d)] == IF j = 0 THEN 0 ELSE sum[j - 1] + d[j].n
  IN  sum[Len(d)]

\* No duration is negative, and together the durations of a signature are the
\* time the thread spent in the service and in the interrupts that hit it there,
\* whose time is noted but never deducted: not in what it called, not switched
\* out, in whatever order these come.  They are all of it, unless the thread
\* slept on a semaphore or a call was not registered, the softirqs' in
\* irq_exit(), which leave out the time before them.
OwnTimeCharged ==
  /\ \A i \in DOMAIN Duration : Duration[i].n >= 0
  /\ stored => SumTo(Duration) <= own + hit
  /\ stored /\ ~skipped => SumTo(Duration) = own + hit
=============================================================================
