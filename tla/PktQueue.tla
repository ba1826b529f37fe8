------------------------------ MODULE PktQueue ------------------------------
(***************************************************************************)
(* Packet extractors: add_pktextr() fills the table, the queue probe       *)
(* probe_sepext_pktqueue() traces one line per extractor of the queue      *)
(* (PKTQUEUE, then PKTQUEUEN), and handlePKTQUEUE() of analyse.go moves    *)
(* the PKTQUEUE mark to the last line of the group.                        *)
(*                                                                         *)
(* The probe is interrupted between two lines, and the interrupt may queue *)
(* a packet of its own; the CPUs' lines interleave.                        *)
(***************************************************************************)
EXTENDS Integers, Sequences, FiniteSets, FiniteSetsExt

CONSTANTS
  CPUs,
  Queues,
  MAX_EXTRACTORS,
  MaxPackets,     \* bound: packets queued
  MaxInterrupts   \* bound: interrupts taken

VARIABLES
  pi_entries,  \* the queue of each extractor
  probe,       \* context -> the probe that runs there
  intr,        \* CPUs inside an interrupt handler
  taken,       \* interrupts taken
  packets,     \* packet -> [queue, known (extractors when the probe began)]
  lines,       \* analyser: packet -> <<the EventType and extractor of its lines>>
  last,        \* analyser: LastAppended, <<packet, line>>, packet 0 for another
  mixed        \* packets whose lines were read among those of another CPU's

vars == <<pi_entries, probe, intr, taken, packets, lines, last, mixed>>

Ctx == CPUs \X {0, 1}   \* a CPU's thread and its interrupt handler
NoProbe == [packet |-> 0, i |-> 0, extracted |-> FALSE]
Running(x) == IF x[2] = 1 THEN x[1] \in intr ELSE x[1] \notin intr
Extractors(q) == {i \in 1..Len(pi_entries) : pi_entries[i] = q}
-----------------------------------------------------------------------------
\* handlePKTQUEUE(): a line continues a group if the line read before it, on
\* any CPU, carries the mark.
Continues(ev) ==
  /\ ev = "PKTQUEUEN"
  /\ last[1] # 0
  /\ lines[last[1]][last[2]].ev = "PKTQUEUE"

handlePKTQUEUE(p, ev, ext) ==
  LET moved == IF Continues(ev) THEN [lines EXCEPT ![last[1]][last[2]].ev = "PKTQUEUEN"]
                                ELSE lines
      line == [ev |-> IF Continues(ev) THEN "PKTQUEUE" ELSE ev, ext |-> ext]
  IN  /\ lines' = [moved EXCEPT ![p] = Append(@, line)]
      /\ last' = <<p, Len(lines[p]) + 1>>

\* The packets of which a probe on another CPU than x's has traced some lines.
Amid(x) == {probe[y].packet : y \in {z \in Ctx : z[1] # x[1] /\ probe[z].extracted}}
\* x writes a line of packet p, and the trace is read in the order of its slots.
Trace(x, p, ev, ext) ==
  /\ handlePKTQUEUE(p, ev, ext)
  /\ mixed' = IF Amid(x) = {} THEN mixed ELSE mixed \cup Amid(x) \cup {p}

\* Any other line that is read becomes LastAppended.
OtherLine == last' = <<0, 0>> /\ UNCHANGED <<lines, mixed>>
-----------------------------------------------------------------------------
add_pktextr(q) ==
  /\ Len(pi_entries) < MAX_EXTRACTORS
  /\ pi_entries' = Append(pi_entries, q)
  /\ UNCHANGED <<probe, intr, taken, packets, lines, last, mixed>>

\* A packet that is not there yet (pktdata == NULL) has one line at once.
NullPacket(x, q) ==
  /\ Running(x) /\ probe[x] = NoProbe /\ Len(packets) < MaxPackets
  /\ packets' = Append(packets, [queue |-> q, known |-> {}])
  /\ Trace(x, Len(packets) + 1, "PKTQUEUE", 0)
  /\ UNCHANGED <<pi_entries, probe, intr, taken>>

Enter(x, q) ==
  /\ Running(x) /\ probe[x] = NoProbe /\ Len(packets) < MaxPackets
  /\ packets' = Append(packets, [queue |-> q, known |-> Extractors(q)])
  /\ probe' = [probe EXCEPT ![x] = [NoProbe EXCEPT !.packet = Len(packets) + 1]]
  /\ UNCHANGED <<pi_entries, intr, taken, lines, last, mixed>>

\* Fault: every line begins a group.
typeToTrace_First(pr) == "PKTQUEUE"
typeToTrace(pr) == IF pr.extracted THEN "PKTQUEUEN" ELSE "PKTQUEUE"

\* Fault: the search for the next extractor skips one.
Later_Skips(pr) == {i \in Extractors(packets[pr.packet].queue) : i > pr.i + 1}
\* The extractors of the packet's queue that the loop has yet to come to.
Later(pr) == {i \in Extractors(packets[pr.packet].queue) : i > pr.i}

\* The loop goes on to the next extractor of the queue and traces a line.
Extract(x) ==
  LET pr == probe[x] IN
  /\ Running(x) /\ pr.packet # 0
  /\ Later(pr) # {}
  /\ LET i == Min(Later(pr)) IN
       /\ Trace(x, pr.packet, typeToTrace(pr), i)
       /\ probe' = [probe EXCEPT ![x].i = i, ![x].extracted = TRUE]
  /\ UNCHANGED <<pi_entries, intr, taken, packets>>

\* The loop has ended: without an extractor the packet has one plain line.
Leave(x) ==
  LET pr == probe[x] IN
  /\ Running(x) /\ pr.packet # 0
  /\ Later(pr) = {}
  /\ IF pr.extracted THEN UNCHANGED <<lines, last, mixed>>
                     ELSE Trace(x, pr.packet, "PKTQUEUE", 0)
  /\ probe' = [probe EXCEPT ![x] = NoProbe]
  /\ UNCHANGED <<pi_entries, intr, taken, packets>>

Interrupt(c) ==
  /\ c \notin intr /\ taken < MaxInterrupts
  /\ intr' = intr \cup {c}
  /\ taken' = taken + 1
  /\ OtherLine   \* HIRQENTRY
  /\ UNCHANGED <<pi_entries, probe, packets>>

Resume(c) ==
  /\ c \in intr /\ probe[<<c, 1>>] = NoProbe
  /\ intr' = intr \ {c}
  /\ OtherLine   \* HIRQEXIT
  /\ UNCHANGED <<pi_entries, probe, taken, packets>>

Init ==
  /\ pi_entries = <<>>
  /\ probe = [x \in Ctx |-> NoProbe]
  /\ intr = {}
  /\ taken = 0
  /\ packets = <<>>
  /\ lines = [p \in 1..MaxPackets |-> <<>>]
  /\ last = <<0, 0>>
  /\ mixed = {}

Next ==
  \/ \E q \in Queues : add_pktextr(q)
  \/ \E x \in Ctx : (\E q \in Queues : Enter(x, q) \/ NullPacket(x, q)) \/ Extract(x) \/ Leave(x)
  \/ \E c \in CPUs : Interrupt(c) \/ Resume(c)

Spec == Init /\ [][Next]_vars
-----------------------------------------------------------------------------
Done(p) == \A x \in Ctx : probe[x].packet # p
Marks(p) == {i \in 1..Len(lines[p]) : lines[p][i].ev = "PKTQUEUE"}

\* One packet is one group: of the lines of a packet exactly one carries the
\* mark, however the probe was interrupted and whatever other lines the CPUs
\* wrote meanwhile, so that the analyser can tell "one extract with several
\* entries" from several extracts with one.  Only where the lines of packets of
\* two CPUs were read among each other does LastAppended, one for all CPUs, let
\* one packet take the mark of the other.
OneMark ==
  \A p \in 1..Len(packets) : Done(p) /\ p \notin mixed => Cardinality(Marks(p)) = 1

\* Each extractor of the queue that was active when the probe began gives the
\* packet one line, in the table's order, although extractors are added while
\* the probe runs; a packet always has a line.
Extracted ==
  \A p \in 1..Len(packets) :
    Done(p) =>
      /\ lines[p] # <<>>
      /\ packets[p].known \subseteq {lines[p][i].ext : i \in 1..Len(lines[p])}
      /\ \A i, j \in 1..Len(lines[p]) : i < j => lines[p][i].ext < lines[p][j].ext
=============================================================================
