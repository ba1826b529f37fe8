----------------------------- MODULE MCMeasure -----------------------------
(***************************************************************************)
(* What is measured with the lines of a trace, for TLC: the running cycle  *)
(* count, the durations of a signature, the work of a device, the lines of *)
(* a queued packet, and the packet delays of the two scripts.  These parts *)
(* share no state, so each behaviour is one of one of them, chosen at the  *)
(* start; the others stay as they began.                                   *)
(***************************************************************************)
EXTENDS CycleCount

CONSTANTS
  MaxEntries, Steps,                                       \* Signatures
  MaxOps, MaxOther, MaxGaps,                               \* Peu; MaxGaps of Delay too
  CPUs, Queues, MAX_EXTRACTORS, MaxPackets, MaxInterrupts, \* PktQueue
  Threads, migrate_pid, Packets, W, MaxTime                \* Delay; CPUs too

ASSUME MeasureAssumption ==
  W \in Nat \ {0} /\ MaxOps \in Nat /\ MaxPackets \in Nat /\ Steps \subseteq Nat

VARIABLES
  which,
  service, where, now, own, hit, skipped, n, toDeduct, starti, startii, lastEvent,
  didSleep, previousEntry, Events, Duration, stored,
  op, hirq, left, pnow, hist, plimbo, peu, temps, users,
  pi_entries, probe, intr, taken, packets, lines, last, mixed,
  time, dwraps, gaps, loop, moved, held, lastCycles, dcycles, rxstart,
  received, lastMigration, report

S == INSTANCE Signatures
P == INSTANCE Peu WITH now <- pnow, limbo <- plimbo
Q == INSTANCE PktQueue
D == INSTANCE Delay
       WITH script <- IF which = "migration" THEN "migration" ELSE "intraos",
            wraps <- dwraps, cycles <- dcycles, packets <- received

signatures ==
  <<service, where, now, own, hit, skipped, n, toDeduct, starti, startii, lastEvent,
    didSleep, previousEntry, Events, Duration, stored>>
device == <<op, hirq, left, pnow, hist, plimbo, peu, temps, users>>
pktqueue == <<pi_entries, probe, intr, taken, packets, lines, last, mixed>>
delay ==
  <<time, dwraps, gaps, loop, moved, held, lastCycles, dcycles, rxstart,
    received, lastMigration, report>>
all_vars == <<which, vars, signatures, device, pktqueue, delay>>

\* A step of one part.
OfCycleCount(A) == which = "cycles" /\ A /\ UNCHANGED <<which, signatures, device, pktqueue, delay>>
OfSignatures(A) == which = "signatures" /\ A /\ UNCHANGED <<which, vars, device, pktqueue, delay>>
OfPeu(A) == which = "peu" /\ A /\ UNCHANGED <<which, vars, signatures, pktqueue, delay>>
OfPktQueue(A) == which = "pktqueue" /\ A /\ UNCHANGED <<which, vars, signatures, device, delay>>
OfDelay(A) ==
  /\ which \in {"intraos", "migration"}
  /\ UNCHANGED <<which, vars, signatures, device, pktqueue>>
  /\ A

MeasureInit ==
  /\ which \in {"cycles", "signatures", "peu", "pktqueue", "intraos", "migration"}
  /\ Init /\ (which # "cycles" => counter = 0)
  /\ S!Init /\ (which # "signatures" => service = "service")
  /\ P!Init /\ Q!Init /\ D!Init

MeasureNext ==
  \/ OfCycleCount(Next) \/ OfSignatures(S!Next) \/ OfPeu(P!Next) \/ OfPktQueue(Q!Next)
  \/ OfDelay(D!Next)

MeasureSpec == MeasureInit /\ [][MeasureNext]_all_vars
-----------------------------------------------------------------------------
\* Signatures: each duration is written where storeSignatures() puts it.
DurationsAligned == S!DurationsAligned

\* Signatures: the durations are the time the thread spent in the service and
\* in the interrupts of it, which createSignatures() fails to deduct.
OwnTimeCharged == S!OwnTimeCharged

\* Peu: AppendToPEU() charges every transfer it can be expected to, with its
\* own interrupt and time.
PeuExact == P!PeuExact

\* Peu: the uses of a temporary completion go to its own declaration.
UsersOwn == P!UsersOwn

\* PktQueue: handlePKTQUEUE() leaves one mark per packet, but for packets of
\* two CPUs whose lines were read among each other.
OneMark == Q!OneMark

\* PktQueue: probe_sepext_pktqueue() traces each extractor's line once.
Extracted == Q!Extracted

\* Delay: the delay either script prints for a forwarded packet is its own, and
\* the time beside it that since the last MIGRATE line migrationdelay.go took.
DelayExact == D!DelayExact
=============================================================================
