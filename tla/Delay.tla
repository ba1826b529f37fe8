-------------------------------- MODULE Delay --------------------------------
(***************************************************************************)
(* The delay scripts intraosdelay.go and scripts/migrationdelay.go: how    *)
(* long a forwarded packet stays in the phone, read from the PKTEXTR lines *)
(* of the wireless driver on CPU 0 (0: its receive loop (re)starts, 1: a   *)
(* packet goes to IP, 2: a packet was sent).  The second script starts at  *)
(* the first MIGRATE line it takes and also reports the time since the     *)
(* last one: a line of CPU 0 whose third field is the PID asked for.  That *)
(* field is the thread that ran on the CPU when the line was written, not  *)
(* the thread that moved.                                                  *)
(*                                                                         *)
(* A packet is known by its number: the probe leaves out the UDP port, so  *)
(* packets the phone itself generates have the numbers of forwarded ones.  *)
(***************************************************************************)
EXTENDS Integers

CONSTANTS
  CPUs,
  Threads,
  migrate_pid, \* the option -migrate: one of the threads
  Packets,   \* packet numbers
  W,         \* 2^32: values of the cycle counter
  MaxTime,   \* bound: cycles
  MaxGaps    \* bound: times the buffer fills

VARIABLES
  script,  \* the one that runs: "intraos" or "migration"
  time,    \* cycles that have really passed
  wraps,   \* wraps of the counter between lines that were read
  gaps,    \* times the buffer has filled
  loop,    \* [time, wraps] when the receive loop last restarted
  moved,   \* ... when CPU 0 last pulled a thread while migrate_pid ran there
  held,    \* packet -> ... from when its delay counts; forwarded packets only
  lastCycles, cycles, rxstart, packets, lastMigration, \* of the scripts
  report   \* the last line printed for a forwarded packet, <<>> for none

truth == <<loop, moved, held>>
scripts == <<lastCycles, cycles, rxstart, packets, lastMigration, report>>
vars == <<script, time, wraps, gaps, truth, scripts>>
Migr == script = "migration"
None == -1
-----------------------------------------------------------------------------
\* "32-bits assumption": one cycle short for each wrap.
delta(a, b) == IF b < a THEN (W - 1 - a) + b ELSE b - a

\* A line of CPU 0 is read; there is one within each period of the counter.
Line ==
  /\ \E d \in 1..(W - 1) : time' = time + d
  /\ time' <= MaxTime
  /\ lastCycles' = time' % W
  /\ cycles' = cycles + delta(lastCycles, time' % W)
  /\ wraps' = wraps + IF time' % W < lastCycles THEN 1 ELSE 0
Mark == [time |-> time', wraps |-> wraps']
\* migrationdelay.go reads PKTEXTR lines only after a MIGRATE line it takes.
Reads == Migr => lastMigration # 0
Silent == report' = <<>>

Restarts ==
  /\ Line /\ Silent
  /\ loop' = Mark
  /\ rxstart' = IF Reads THEN cycles' ELSE rxstart
  /\ UNCHANGED <<gaps, moved, held, packets, lastMigration>>

\* intraosdelay.go takes one packet per iteration of the loop, from now on;
\* migrationdelay.go takes all, from the start of the iteration.
Received(p) ==
  /\ held[p].time = None
  /\ Line /\ Silent
  /\ held' = [held EXCEPT ![p] = IF Migr THEN loop ELSE Mark]
  /\ LET taken == Reads /\ rxstart # None IN
       /\ packets' = IF taken THEN [packets EXCEPT ![p] = IF Migr THEN rxstart ELSE cycles']
                              ELSE packets
       /\ rxstart' = IF taken /\ ~Migr THEN None ELSE rxstart
  /\ UNCHANGED <<gaps, loop, moved, lastMigration>>

\* A packet was sent: a forwarded one, or one of the phone with the same number.
Sent(p, forwarded) ==
  /\ forwarded => held[p].time # None
  /\ Line
  /\ LET known == Reads /\ packets[p] # None IN
       /\ report' = IF known /\ forwarded
                      THEN [delay |-> cycles' - packets[p], since |-> cycles' - lastMigration,
                            from |-> held[p], migration |-> moved]
                      ELSE <<>>
       /\ packets' = IF known THEN [packets EXCEPT ![p] = None] ELSE packets
  /\ UNCHANGED <<gaps, truth, rxstart, lastMigration>>

\* pull_task() on CPU c, where cur is current, moves the thread p: a thread
\* that runs is never moved.  The script drops the lines of other CPUs, and
\* compares its PID with currpid.
Taken(cur) == cur = migrate_pid
Migrates(c, cur, p) ==
  /\ Migr /\ p # cur
  /\ Silent
  /\ IF c = 0 THEN Line ELSE UNCHANGED <<time, wraps, lastCycles, cycles>>
  /\ IF c = 0 /\ Taken(cur)
       THEN moved' = Mark /\ lastMigration' = cycles'
       ELSE UNCHANGED <<moved, lastMigration>>
  /\ UNCHANGED <<gaps, loop, held, rxstart, packets>>

\* Fault: what was received before a gap is kept.
EOD_KeepsPackets == rxstart' = None /\ lastMigration' = 0 /\ UNCHANGED packets
\* Fault: the last migration of before the gap is kept.
EOD_KeepsMigration ==
  packets' = [p \in Packets |-> None] /\ rxstart' = None /\ UNCHANGED lastMigration
EOD == packets' = [p \in Packets |-> None] /\ rxstart' = None /\ lastMigration' = 0

\* The buffer was full: the counter may go round unseen; lines are missing.
Gap ==
  /\ gaps < MaxGaps
  /\ gaps' = gaps + 1
  /\ \E d \in 0..2 * W : time' = time + d
  /\ time' <= MaxTime
  /\ Silent
  /\ EOD
  /\ UNCHANGED <<wraps, truth, lastCycles, cycles>>

Init ==
  /\ script \in {"intraos", "migration"}
  /\ time = 0 /\ wraps = 0 /\ gaps = 0
  /\ loop = [time |-> 0, wraps |-> 0] /\ moved = [time |-> 0, wraps |-> 0]
  /\ held = [p \in Packets |-> [time |-> None, wraps |-> 0]]
  /\ lastCycles = 0 /\ cycles = 0
  /\ rxstart = None /\ lastMigration = 0
  /\ packets = [p \in Packets |-> None]
  /\ report = <<>>

Next ==
  /\ \/ Restarts \/ Gap
     \/ \E c \in CPUs : \E cur, p \in Threads : Migrates(c, cur, p)
     \/ \E p \in Packets : Received(p) \/ \E f \in BOOLEAN : Sent(p, f)
  /\ UNCHANGED script

Spec == Init /\ [][Next]_vars
-----------------------------------------------------------------------------
Exact(d, from) == d + (wraps - from.wraps) = time - from.time

\* The delay reported for a forwarded packet is the time since that packet was
\* received (or its iteration of the loop began).  The time reported beside it
\* is that since CPU 0 last pulled some thread while migrate_pid ran on it,
\* whatever threads were moved before and after: it is not the time since
\* migrate_pid itself was moved, whose line always names another currpid.  Both
\* are one cycle short per wrap, and neither is ever a time across a gap, in
\* which the counter may have gone round.
DelayExact ==
  report # <<>> =>
    /\ Exact(report.delay, report.from)
    /\ Migr => Exact(report.since, report.migration)
=============================================================================
