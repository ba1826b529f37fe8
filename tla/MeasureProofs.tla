--------------------------- MODULE MeasureProofs ---------------------------
(***************************************************************************)
(* Proofs about what is measured with the lines of a trace: the delays the *)
(* two scripts print, the uses of a temporary completion, the lines of a   *)
(* queued packet, the durations of a signature, and the work of a device.  *)
(*                                                                         *)
(* Sums and scans that the model defines by recursion need no induction:   *)
(* the invariants carry the recursion's values so far as a function, and a *)
(* step extends it by one.                                                 *)
(***************************************************************************)
EXTENDS MCMeasure, Sequences, FiniteSets, FiniteSetTheorems,
        SequenceTheorems, WellFoundedInduction, TLAPS

\* A step of the parts is a step of each, or leaves its state alone.
LEMMA Stepwise ==
  ASSUME [MeasureNext]_all_vars
  PROVE  /\ [D!Next]_<<which, delay>>
         /\ [P!Next]_device
         /\ [Q!Next]_pktqueue
         /\ [S!Next]_signatures
<1> SUFFICES ASSUME MeasureNext \/ UNCHANGED all_vars
             PROVE  /\ D!Next \/ UNCHANGED <<which, delay>>
                    /\ P!Next \/ UNCHANGED device
                    /\ Q!Next \/ UNCHANGED pktqueue
                    /\ S!Next \/ UNCHANGED signatures
  OBVIOUS
<1>1. CASE OfCycleCount(Next) \/ OfSignatures(S!Next)
  BY <1>1 DEF OfCycleCount, OfSignatures
<1>2. CASE OfPeu(P!Next)
  BY <1>2 DEF OfPeu
<1>3. CASE OfPktQueue(Q!Next)
  BY <1>3 DEF OfPktQueue
<1>4. CASE OfDelay(D!Next)
  BY <1>4 DEF OfDelay
<1>5. CASE UNCHANGED all_vars
  BY <1>5 DEF all_vars
<1> QED
  BY <1>1, <1>2, <1>3, <1>4, <1>5 DEF MeasureNext
-----------------------------------------------------------------------------
(* Arithmetic                                                              *)

LEMMA Division ==
  ASSUME NEW m \in Nat \ {0}, NEW a \in Nat
  PROVE  \E q \in Int : a % m \in 0..(m - 1) /\ a = q * m + (a % m)
<1>1. a \div m \in Int
  OBVIOUS
<1>2. a % m \in 0..(m - 1)
  OBVIOUS
<1>3. a = (a \div m) * m + (a % m)
  OBVIOUS
<1> QED
  BY <1>1, <1>2, <1>3

LEMMA Remainder ==
  ASSUME NEW m \in Nat \ {0}, NEW p \in Int, NEW q \in Int,
         NEW r \in 0..(m - 1), NEW s \in 0..(m - 1), p * m + r = q * m + s
  PROVE  r = s
OBVIOUS

\* A counter that goes on by less than its period wraps at most once.
LEMMA CounterStep ==
  ASSUME NEW m \in Nat \ {0}, NEW a \in Nat, NEW d \in 1..(m - 1)
  PROVE  (a + d) % m = IF (a % m) + d < m THEN (a % m) + d ELSE (a % m) + d - m
<1>1. PICK q \in Int : a % m \in 0..(m - 1) /\ a = q * m + (a % m)
  BY Division
<1>2. PICK r \in 0..(m - 1) : a % m = r /\ a = q * m + r
  BY <1>1
<1>3. a + d \in Nat
  OBVIOUS
<1>4. PICK p \in Int : (a + d) % m \in 0..(m - 1) /\ a + d = p * m + ((a + d) % m)
  BY <1>3, Division
<1>5. PICK s \in 0..(m - 1) : (a + d) % m = s /\ a + d = p * m + s
  BY <1>4
<1>6. CASE r + d < m
  <2>1. a + d = q * m + (r + d) /\ r + d \in 0..(m - 1)
    BY <1>2, <1>6
  <2>2. s = r + d
    BY <1>5, <2>1, Remainder
  <2> QED
    BY <1>2, <1>5, <1>6, <2>2
<1>7. CASE ~(r + d < m)
  <2>1. r + d - m \in 0..(m - 1) /\ q + 1 \in Int
    BY <1>7
  <2>2. (q + 1) * m = q * m + m
    OBVIOUS
  <2>3. a + d = (q + 1) * m + (r + d - m)
    BY <1>2, <2>2
  <2>4. s = r + d - m
    BY <1>5, <2>1, <2>3, Remainder
  <2> QED
    BY <1>2, <1>5, <1>7, <2>4
<1> QED
  BY <1>6, <1>7

\* Every set of numbers has a least one.
LEMMA LeastNumber ==
  ASSUME NEW T, T \subseteq Nat, T # {}
  PROVE  \E x \in T : \A y \in T : x <= y
<1> DEFINE R == OpToRel(<, Nat)
<1>1. IsWellFoundedOn(R, Nat)
  BY NatLessThanWellFounded
<1>2. \A x, y \in Nat : y < x => <<y, x>> \in R
  BY DEF OpToRel
<1> HIDE DEF R
<1>3. PICK x \in T : \A y \in T : ~ (<<y, x>> \in R)
  BY <1>1, WFMin
<1>4. \A y \in T : x \in Nat /\ y \in Nat /\ ~ (y < x)
  BY <1>2, <1>3
<1>5. \A y \in T : x <= y
  BY <1>4
<1> QED
  BY <1>5
-----------------------------------------------------------------------------
(* The delay scripts                                                       *)

Migration == which = "migration"
None == -1

DelayTypes ==
  /\ time \in Nat /\ dwraps \in Nat /\ dcycles \in Nat /\ lastCycles \in 0..(W - 1)
  /\ rxstart \in Nat \cup {None}
  /\ lastMigration \in 0..dcycles
  /\ received \in [Packets -> Nat \cup {None}]
  /\ loop \in [time : Nat, wraps : Nat]
  /\ moved \in [time : Nat, wraps : Nat]
  /\ held \in [Packets -> [time : Nat \cup {None}, wraps : Nat]]

\* The last line read is where the counter is: there was no gap since.
InStep == lastCycles = time % W
\* A count v was noted at mark m, and the count has followed time since.
Noted(v, m) == (dcycles - v) + (dwraps - m.wraps) = time - m.time

\* Whatever the scripts have noted, they have noted since the last gap.
NotesInv ==
  /\ rxstart # None => InStep
  /\ rxstart # None /\ Migration => lastMigration # 0 /\ Noted(rxstart, loop)
  /\ \A p \in Packets :
       received[p] # None => InStep /\ held[p].time # None /\ Noted(received[p], held[p])
  /\ Migration /\ lastMigration # 0 => InStep /\ Noted(lastMigration, moved)

DelayInv == DelayTypes /\ NotesInv /\ DelayExact
LEMMA DelayInit == D!Init => DelayInv
<1> SUFFICES ASSUME D!Init
             PROVE  DelayInv
  OBVIOUS
<1>1. DelayTypes
  BY MeasureAssumption DEF D!Init, DelayTypes, D!None, None
<1>2. NotesInv
  BY DEF D!Init, NotesInv, D!None, None
<1>3. DelayExact
  BY DEF D!Init, DelayExact, D!DelayExact
<1> QED
  BY <1>1, <1>2, <1>3 DEF DelayInv

\* Between two lines without a gap the count goes on as time does, but for one
\* cycle when the counter wraps; after a gap it still never goes back.
LEMMA LineCounts ==
  ASSUME DelayTypes, D!Line
  PROVE  /\ time' \in Nat /\ dwraps' \in Nat /\ dcycles' \in Nat
         /\ lastCycles' \in 0..(W - 1)
         /\ dcycles' >= dcycles
         /\ InStep'
         /\ InStep => dcycles' + dwraps' - time' = dcycles + dwraps - time
<1> USE MeasureAssumption
<1>1. PICK d \in 1..(W - 1) : time' = time + d
  BY DEF D!Line
<1>2. /\ time \in Nat /\ dwraps \in Nat /\ dcycles \in Nat /\ lastCycles \in 0..(W - 1)
      /\ time' \in Nat
  BY <1>1 DEF DelayTypes
<1>3. time' % W \in 0..(W - 1)
  BY <1>2, Division
<1>4. PICK b \in 0..(W - 1) : b = time' % W
  BY <1>3
<1>5. /\ lastCycles' = b
      /\ dcycles' = dcycles + D!delta(lastCycles, b)
      /\ dwraps' = dwraps + IF b < lastCycles THEN 1 ELSE 0
  BY <1>4 DEF D!Line
<1>6. D!delta(lastCycles, b) = IF b < lastCycles THEN (W - 1 - lastCycles) + b ELSE b - lastCycles
  BY DEF D!delta
<1>7. dcycles' \in Nat /\ dcycles' >= dcycles /\ dwraps' \in Nat
  BY <1>2, <1>5, <1>6
<1>8. InStep'
  BY <1>4, <1>5 DEF InStep
<1>9. ASSUME InStep
      PROVE  dcycles' + dwraps' - time' = dcycles + dwraps - time
  <2>1. b = IF lastCycles + d < W THEN lastCycles + d ELSE lastCycles + d - W
    BY <1>1, <1>2, <1>4, <1>9, CounterStep DEF InStep
  <2> QED
    BY <1>1, <1>2, <1>5, <1>6, <2>1
<1> QED
  BY <1>2, <1>5, <1>7, <1>8, <1>9

\* What was noted at a mark stays noted when a line is read.
LEMMA StaysNoted ==
  ASSUME DelayTypes, D!Line, InStep, NEW v \in Int,
         NEW m, m.time \in Int, m.wraps \in Int, Noted(v, m)
  PROVE  /\ Noted(v, m)'
         /\ D!Exact(dcycles - v, m)'
<1>1. /\ time' \in Nat /\ dwraps' \in Nat /\ dcycles' \in Nat
      /\ time \in Nat /\ dwraps \in Nat /\ dcycles \in Nat
      /\ dcycles' + dwraps' - time' = dcycles + dwraps - time
  BY LineCounts DEF DelayTypes
<1>2. PICK a \in Int, b \in Int : a = m.time /\ b = m.wraps
  OBVIOUS
<1>3. (dcycles - v) + (dwraps - b) = time - a
  BY <1>2 DEF Noted
<1>4. PICK c \in Int, w \in Int, u \in Int, cc \in Int, ww \in Int, uu \in Int :
        /\ c = dcycles /\ w = dwraps /\ u = time
        /\ cc = dcycles' /\ ww = dwraps' /\ uu = time'
  BY <1>1
<1>5. cc + ww - uu = c + w - u
  BY <1>1, <1>4
<1>6. (c - v) + (w - b) = u - a
  BY <1>3, <1>4
<1>7. (cc - v) + (ww - b) = uu - a
  BY <1>5, <1>6
<1> QED
  BY <1>2, <1>4, <1>7 DEF Noted, D!Exact

\* ... and a count is noted at the mark of its own line.
LEMMA NotedNow ==
  ASSUME DelayTypes, D!Line
  PROVE  /\ D!Mark \in [time : Nat, wraps : Nat]
         /\ (dcycles' - dcycles') + (dwraps' - D!Mark.wraps) = time' - D!Mark.time
<1>1. time' \in Nat /\ dwraps' \in Nat /\ dcycles' \in Nat
  BY LineCounts
<1> QED
  BY <1>1 DEF D!Mark

LEMMA WhichScript ==
  /\ D!Migr <=> Migration
  /\ D!Reads <=> (Migration => lastMigration # 0)
BY DEF D!Migr, D!Reads, Migration

LEMMA DelayTypesNext ==
  DelayTypes /\ [D!Next]_<<which, delay>> => DelayTypes'
<1> SUFFICES ASSUME DelayTypes, D!Next \/ UNCHANGED <<which, delay>>
             PROVE  DelayTypes'
  OBVIOUS
<1>1. CASE UNCHANGED <<which, delay>>
  BY <1>1 DEF delay, DelayTypes
<1>2. CASE D!Gap
  BY <1>2, MeasureAssumption DEF D!Gap, D!EOD, D!None, None, D!truth, DelayTypes
<1>3. ASSUME D!Line,
             rxstart' \in {rxstart, dcycles', None},
             lastMigration' \in {lastMigration, dcycles'},
             received' \in [Packets -> Nat \cup {None}],
             loop' \in {loop, D!Mark}, moved' \in {moved, D!Mark},
             held' \in [Packets -> [time : Nat \cup {None}, wraps : Nat]]
      PROVE  DelayTypes'
  <2>1. /\ time' \in Nat /\ dwraps' \in Nat /\ dcycles' \in Nat
        /\ lastCycles' \in 0..(W - 1) /\ dcycles' >= dcycles
        /\ D!Mark \in [time : Nat, wraps : Nat]
    BY <1>3, LineCounts, NotedNow
  <2>2. lastMigration' \in 0..dcycles'
    BY <1>3, <2>1 DEF DelayTypes
  <2> QED
    BY <1>3, <2>1, <2>2 DEF DelayTypes
<1>4. CASE D!Restarts
  BY <1>3, <1>4 DEF D!Restarts, DelayTypes
<1>5. ASSUME NEW c \in CPUs, NEW cur \in Threads, NEW p \in Threads, D!Migrates(c, cur, p)
      PROVE  DelayTypes'
  <2>1. CASE c = 0
    BY <1>3, <1>5, <2>1 DEF D!Migrates, DelayTypes
  <2>2. CASE c # 0
    BY <1>5, <2>2 DEF D!Migrates, DelayTypes
  <2> QED
    BY <2>1, <2>2
<1>6. ASSUME NEW p \in Packets, D!Received(p)
      PROVE  DelayTypes'
  <2>1. /\ D!Line /\ UNCHANGED <<loop, moved, lastMigration>>
        /\ rxstart' \in {rxstart, None}
        /\ held' = [held EXCEPT ![p] = IF D!Migr THEN loop ELSE D!Mark]
        /\ \/ received' = received
           \/ /\ rxstart # None
              /\ received' = [received EXCEPT ![p] = IF D!Migr THEN rxstart ELSE dcycles']
    BY <1>6 DEF D!Received, D!None, None
  <2>2. D!Mark \in [time : Nat, wraps : Nat] /\ dcycles' \in Nat
    BY <2>1, NotedNow, LineCounts
  <2>3. held' \in [Packets -> [time : Nat \cup {None}, wraps : Nat]]
    BY <2>1, <2>2 DEF DelayTypes
  <2>4. received' \in [Packets -> Nat \cup {None}]
    BY <2>1, <2>2 DEF DelayTypes
  <2> QED
    BY <1>3, <2>1, <2>3, <2>4
<1>7. ASSUME NEW p \in Packets, NEW f \in BOOLEAN, D!Sent(p, f)
      PROVE  DelayTypes'
  <2>1. /\ D!Line /\ UNCHANGED <<loop, moved, held, rxstart, lastMigration>>
        /\ received' \in {received, [received EXCEPT ![p] = None]}
    BY <1>7 DEF D!Sent, D!None, None, D!truth
  <2> QED
    BY <1>3, <2>1 DEF DelayTypes
<1> QED
  BY <1>1, <1>2, <1>4, <1>5, <1>6, <1>7 DEF D!Next

\* As Noted, once the line is read.
NotedNext(v, m) == (dcycles' - v) + (dwraps' - m.wraps) = time' - m.time

LEMMA NotesKept ==
  ASSUME DelayTypes, NotesInv, D!Line
  PROVE  /\ InStep'
         /\ rxstart # None /\ Migration => NotedNext(rxstart, loop)
         /\ \A p \in Packets : received[p] # None => NotedNext(received[p], held[p])
         /\ Migration /\ lastMigration # 0 => NotedNext(lastMigration, moved)
         /\ NotedNext(dcycles', D!Mark)
<1>1. ASSUME NEW v \in Int, NEW m, m.time \in Int, m.wraps \in Int, InStep, Noted(v, m)
      PROVE  NotedNext(v, m)
  <2>1. Noted(v, m)'
    BY <1>1, StaysNoted
  <2> QED
    BY <2>1 DEF Noted, NotedNext
<1>2. ASSUME rxstart # None, Migration
      PROVE  NotedNext(rxstart, loop)
  <2>1. /\ rxstart \in Int /\ loop.time \in Int /\ loop.wraps \in Int
        /\ InStep /\ Noted(rxstart, loop)
    BY <1>2 DEF DelayTypes, NotesInv, None
  <2>2. PICK v, m : v = rxstart /\ m = loop
    BY <2>1
  <2> QED
    BY <1>1, <2>1, <2>2
<1>3. ASSUME NEW p \in Packets, received[p] # None
      PROVE  NotedNext(received[p], held[p])
  <2>1. /\ received[p] \in Int /\ held[p].time \in Int /\ held[p].wraps \in Int
        /\ InStep /\ Noted(received[p], held[p])
    BY <1>3 DEF DelayTypes, NotesInv, None
  <2>2. PICK v, m : v = received[p] /\ m = held[p]
    BY <2>1
  <2> QED
    BY <1>1, <2>1, <2>2
<1>4. ASSUME Migration, lastMigration # 0
      PROVE  NotedNext(lastMigration, moved)
  <2>1. /\ lastMigration \in Int /\ moved.time \in Int /\ moved.wraps \in Int
        /\ InStep /\ Noted(lastMigration, moved)
    BY <1>4 DEF DelayTypes, NotesInv
  <2>2. PICK v, m : v = lastMigration /\ m = moved
    BY <2>1
  <2> QED
    BY <1>1, <2>1, <2>2
<1>5. InStep' /\ NotedNext(dcycles', D!Mark)
  BY LineCounts, NotedNow DEF NotedNext
<1> QED
  BY <1>2, <1>3, <1>4, <1>5

LEMMA NotesNext ==
  DelayInv /\ [D!Next]_<<which, delay>> => NotesInv'
<1> SUFFICES ASSUME DelayInv, D!Next \/ UNCHANGED <<which, delay>>
             PROVE  NotesInv'
  OBVIOUS
<1> USE DEF DelayInv
<1>1. CASE UNCHANGED <<which, delay>>
  BY <1>1 DEF delay, NotesInv, InStep, Noted, Migration
<1>2. ASSUME D!Next
      PROVE  Migration' <=> Migration
  BY <1>2 DEF D!Next, Migration
<1>3. CASE D!Gap
  BY <1>3 DEF D!Gap, D!EOD, D!None, None, NotesInv
<1>4. CASE D!Restarts /\ D!Next
  <2>1. /\ D!Line /\ loop' = D!Mark /\ UNCHANGED <<moved, held, received, lastMigration>>
        /\ rxstart' = IF Migration => lastMigration # 0 THEN dcycles' ELSE rxstart
    BY <1>4, WhichScript DEF D!Restarts
  <2>2. /\ InStep'
        /\ \A p \in Packets : received[p] # None => NotedNext(received[p], held[p])
        /\ Migration /\ lastMigration # 0 => NotedNext(lastMigration, moved)
        /\ NotedNext(dcycles', D!Mark)
    BY <2>1, NotesKept
  <2>3. Migration /\ rxstart # None => lastMigration # 0
    BY DEF NotesInv
  <2> QED
    BY <1>2, <1>4, <2>1, <2>2, <2>3 DEF NotesInv, Noted, NotedNext
<1>5. ASSUME NEW c \in CPUs, NEW cur \in Threads, NEW x \in Threads,
             D!Migrates(c, cur, x), D!Next
      PROVE  NotesInv'
  <2>1. UNCHANGED <<loop, held, received, rxstart>>
    BY <1>5 DEF D!Migrates
  <2>2. CASE c # 0
    <3>1. UNCHANGED <<time, dwraps, lastCycles, dcycles, moved, lastMigration>>
      BY <1>5, <2>2 DEF D!Migrates
    <3> QED
      BY <1>2, <1>5, <2>1, <3>1 DEF NotesInv, InStep, Noted
  <2>3. CASE c = 0
    <3>1. D!Line
      BY <1>5, <2>3 DEF D!Migrates
    <3>2. /\ InStep'
          /\ rxstart # None /\ Migration => NotedNext(rxstart, loop)
          /\ \A p \in Packets : received[p] # None => NotedNext(received[p], held[p])
          /\ Migration /\ lastMigration # 0 => NotedNext(lastMigration, moved)
          /\ NotedNext(dcycles', D!Mark)
      BY <3>1, NotesKept
    <3>3. CASE D!Taken(cur)
      <4>1. moved' = D!Mark /\ lastMigration' = dcycles'
        BY <1>5, <2>3, <3>3 DEF D!Migrates
      <4>2. Migration /\ rxstart # None => lastMigration' # 0
        BY <3>1, <4>1, LineCounts DEF NotesInv, DelayTypes
      <4> QED
        BY <1>2, <1>5, <2>1, <3>2, <4>1, <4>2 DEF NotesInv, Noted, NotedNext
    <3>4. CASE ~ D!Taken(cur)
      <4>1. UNCHANGED <<moved, lastMigration>>
        BY <1>5, <2>3, <3>4 DEF D!Migrates
      <4> QED
        BY <1>2, <1>5, <2>1, <3>2, <4>1 DEF NotesInv, Noted, NotedNext
    <3> QED
      BY <3>3, <3>4
  <2> QED
    BY <2>2, <2>3
<1>6. ASSUME NEW p \in Packets, D!Received(p), D!Next
      PROVE  NotesInv'
  <2>1. /\ D!Line /\ UNCHANGED <<loop, moved, lastMigration>>
        /\ held[p].time = None
        /\ rxstart' \in {rxstart, None}
        /\ held' = [held EXCEPT ![p] = IF Migration THEN loop ELSE D!Mark]
        /\ \/ received' = received
           \/ /\ rxstart # None
              /\ received' = [received EXCEPT ![p] = IF Migration THEN rxstart ELSE dcycles']
    BY <1>6, WhichScript DEF D!Received, D!None, None
  <2>2. /\ InStep'
        /\ rxstart # None /\ Migration => NotedNext(rxstart, loop)
        /\ \A x \in Packets : received[x] # None => NotedNext(received[x], held[x])
        /\ Migration /\ lastMigration # 0 => NotedNext(lastMigration, moved)
        /\ NotedNext(dcycles', D!Mark)
    BY <2>1, NotesKept
  <2>3. /\ received[p] = None
        /\ loop.time # None /\ D!Mark.time # None
    BY <2>1, NotedNow DEF NotesInv, DelayTypes, None
  <2>4. ASSUME NEW x \in Packets, received'[x] # None
        PROVE  held'[x].time # None /\ NotedNext(received'[x], held'[x])
    <3>1. CASE x = p
      <4>1. held'[x] = IF Migration THEN loop ELSE D!Mark
        BY <2>1, <3>1 DEF DelayTypes
      <4>2. rxstart # None /\ received'[x] = IF Migration THEN rxstart ELSE dcycles'
        BY <2>1, <2>3, <2>4, <3>1 DEF DelayTypes
      <4> QED
        BY <2>2, <2>3, <4>1, <4>2
    <3>2. CASE x # p
      <4>1. held'[x] = held[x] /\ received'[x] = received[x]
        BY <2>1, <3>2 DEF DelayTypes
      <4> QED
        BY <2>2, <2>4, <4>1 DEF NotesInv
    <3> QED
      BY <3>1, <3>2
  <2> QED
    BY <1>2, <1>6, <2>1, <2>2, <2>4 DEF NotesInv, Noted, NotedNext
<1>7. ASSUME NEW p \in Packets, NEW f \in BOOLEAN, D!Sent(p, f), D!Next
      PROVE  NotesInv'
  <2>1. /\ D!Line /\ UNCHANGED <<loop, moved, held, rxstart, lastMigration>>
        /\ received' \in {received, [received EXCEPT ![p] = None]}
    BY <1>7 DEF D!Sent, D!None, None, D!truth
  <2>2. /\ InStep'
        /\ rxstart # None /\ Migration => NotedNext(rxstart, loop)
        /\ \A x \in Packets : received[x] # None => NotedNext(received[x], held[x])
        /\ Migration /\ lastMigration # 0 => NotedNext(lastMigration, moved)
    BY <2>1, NotesKept
  <2>3. \A x \in Packets : received'[x] # None => received'[x] = received[x]
    BY <2>1 DEF DelayTypes
  <2> QED
    BY <1>2, <1>7, <2>1, <2>2, <2>3 DEF NotesInv, Noted, NotedNext
<1> QED
  BY <1>1, <1>3, <1>4, <1>5, <1>6, <1>7 DEF D!Next

LEMMA ReportNext ==
  DelayInv /\ [D!Next]_<<which, delay>> => DelayExact'
<1> SUFFICES ASSUME DelayInv, D!Next \/ UNCHANGED <<which, delay>>
             PROVE  DelayExact'
  OBVIOUS
<1> USE DEF DelayInv
<1>1. CASE UNCHANGED <<which, delay>>
  BY <1>1 DEF delay, DelayExact, D!DelayExact, D!Exact, D!Migr
<1>2. CASE report' = <<>>
  BY <1>2 DEF DelayExact, D!DelayExact
<1>3. ASSUME D!Next, report' # <<>>
      PROVE  DelayExact'
  <2>1. PICK p \in Packets : \E f \in BOOLEAN : D!Sent(p, f)
    BY <1>3 DEF D!Next, D!Restarts, D!Migrates, D!Gap, D!Received, D!Silent
  <2>2. /\ D!Line
        /\ Migration => lastMigration # 0
        /\ received[p] # None
        /\ report' = [delay |-> dcycles' - received[p], since |-> dcycles' - lastMigration,
                       from |-> held[p], migration |-> moved]
    BY <1>3, <2>1, WhichScript DEF D!Sent, D!None, None
  <2>3. /\ report'.delay = dcycles' - received[p] /\ report'.from = held[p]
        /\ report'.since = dcycles' - lastMigration /\ report'.migration = moved
    BY <2>2
  <2>4. NotedNext(received[p], held[p]) /\ (Migration => NotedNext(lastMigration, moved))
    BY <2>2, NotesKept
  <2>5. D!Migr' <=> Migration
    BY <1>3 DEF D!Next, D!Migr, Migration
  <2> QED
    BY <2>3, <2>4, <2>5 DEF DelayExact, D!DelayExact, D!Exact, NotedNext
<1> QED
  BY <1>1, <1>2, <1>3

\* The delay that intraosdelay.go or migrationdelay.go prints for a forwarded
\* packet is that packet's own, and the time the second one prints beside it is
\* that since CPU 0 last pulled a thread while migrate_pid ran on it, the only
\* MIGRATE lines the script takes: one cycle short for each wrap of the counter,
\* never a time across a gap (for every width of the counter, any packets,
\* threads and number of gaps).
THEOREM DelaysExact == MeasureSpec => []DelayExact
<1>1. MeasureInit => DelayInv
  BY DelayInit DEF MeasureInit
<1>2. DelayInv /\ [MeasureNext]_all_vars => DelayInv'
  BY Stepwise, DelayTypesNext, NotesNext, ReportNext DEF DelayInv
<1>3. DelayInv => DelayExact
  BY DEF DelayInv
<1> QED
  BY <1>1, <1>2, <1>3, PTL DEF MeasureSpec
-----------------------------------------------------------------------------
(* Temporary completions                                                   *)

Phases == {"idle", "declared", "started", "waiting"}
Ops == [phase : Phases, nr : 0..MaxOps, irq : BOOLEAN]
Temps == [{P!Own, P!Other} -> [nr : Nat, Value : Int]]

\* The driver's address stands for the declaration of its current transfer or
\* for none, and for none while the CPU is in limbo; the other address was
\* never declared.
TempsInv ==
  /\ op \in Ops
  /\ temps \in Temps
  /\ temps[P!Other].nr = 0
  /\ temps[P!Own].nr \in {0, op.nr}
  /\ plimbo => temps[P!Own].nr = 0
  /\ users \in [1..MaxOps -> Seq(Int \X Int)]

UsersInv == TempsInv /\ UsersOwn

\* The driver's state after one of its steps.
LEMMA OpPhase ==
  ASSUME NEW o \in Ops, NEW ph \in Phases
  PROVE  [o EXCEPT !.phase = ph] \in Ops /\ [o EXCEPT !.phase = ph].nr = o.nr
BY DEF Ops, Phases

LEMMA OpIrq ==
  ASSUME NEW o \in Ops, NEW b \in BOOLEAN
  PROVE  [o EXCEPT !.irq = b] \in Ops /\ [o EXCEPT !.irq = b].nr = o.nr
BY DEF Ops

LEMMA OpDeclared ==
  ASSUME NEW o \in Ops, NEW ph \in Phases, NEW nr0 \in 0..MaxOps
  PROVE  /\ [o EXCEPT !.phase = ph, !.nr = nr0] \in Ops
         /\ [o EXCEPT !.phase = ph, !.nr = nr0].nr = nr0
BY DEF Ops, Phases

LEMMA OpPhaseIrq ==
  ASSUME NEW o \in Ops, NEW ph \in Phases, NEW b \in BOOLEAN
  PROVE  /\ [o EXCEPT !.phase = ph, !.irq = b] \in Ops
         /\ [o EXCEPT !.phase = ph, !.irq = b].nr = o.nr
BY DEF Ops, Phases

\* TempVars after a declaration and after a use of the driver's completion.
LEMMA DeclaredTemps ==
  ASSUME NEW ts \in Temps, NEW nr0 \in Nat
  PROVE  /\ P!Declared(ts, P!Own, nr0) \in Temps
         /\ P!Declared(ts, P!Own, nr0)[P!Other] = ts[P!Other]
         /\ P!Declared(ts, P!Own, nr0)[P!Own].nr = nr0
BY DEF P!Declared, Temps, P!Own, P!Other

LEMMA CountedTemps ==
  ASSUME NEW ts \in Temps, NEW d \in Int
  PROVE  /\ P!Counted(ts, P!Own, d) \in Temps
         /\ P!Counted(ts, P!Own, d)[P!Other] = ts[P!Other]
         /\ P!Counted(ts, P!Own, d)[P!Own].nr \in {0, ts[P!Own].nr}
BY DEF P!Counted, Temps, P!Own, P!Other

LEMMA UsersInit == P!Init => UsersInv
BY MeasureAssumption
   DEF P!Init, UsersInv, TempsInv, UsersOwn, P!UsersOwn, P!Own, P!Other, Ops, Phases, Temps

LEMMA Appended ==
  ASSUME NEW E, NEW s \in Seq(E), NEW u \in E
  PROVE  /\ Append(s, u) \in Seq(E) /\ Len(Append(s, u)) = Len(s) + 1
         /\ Append(s, u)[Len(s) + 1] = u
         /\ \A j \in 1..Len(s) : Append(s, u)[j] = s[j]
         /\ \A j \in 1..Len(Append(s, u)) :
              Append(s, u)[j] = u \/ (j \in 1..Len(s) /\ Append(s, u)[j] = s[j])
OBVIOUS

LEMMA AppendedUse ==
  ASSUME NEW s \in Seq(Int \X Int), NEW u \in Int \X Int
  PROVE  /\ Append(s, u) \in Seq(Int \X Int)
         /\ \A j \in 1..Len(Append(s, u)) :
              Append(s, u)[j] = u \/ (j \in 1..Len(s) /\ Append(s, u)[j] = s[j])
<1>1. PICK E : E = Int \X Int
  OBVIOUS
<1>2. s \in Seq(E) /\ u \in E
  BY <1>1
<1>3. /\ Append(s, u) \in Seq(E)
      /\ \A j \in 1..Len(Append(s, u)) :
           Append(s, u)[j] = u \/ (j \in 1..Len(s) /\ Append(s, u)[j] = s[j])
  BY <1>2, Appended
<1> QED
  BY <1>1, <1>3

\* Lines appended to one of the lists of users.
LEMMA UseAppended ==
  ASSUME NEW us \in [1..MaxOps -> Seq(Int \X Int)], NEW nr0 \in 1..MaxOps, NEW d \in Int,
         \A m \in 1..MaxOps : \A j \in 1..Len(us[m]) : us[m][j][1] = m,
         NEW vs, vs = [us EXCEPT ![nr0] = Append(us[nr0], <<nr0, d>>)]
  PROVE  /\ vs \in [1..MaxOps -> Seq(Int \X Int)]
         /\ \A m \in 1..MaxOps : \A j \in 1..Len(vs[m]) : vs[m][j][1] = m
<1> USE MeasureAssumption
<1>1. PICK s \in Seq(Int \X Int), u \in Int \X Int :
        s = us[nr0] /\ u = <<nr0, d>> /\ u[1] = nr0
  <2>1. nr0 \in Int
    OBVIOUS
  <2>2. us[nr0] \in Seq(Int \X Int)
    OBVIOUS
  <2>3. <<nr0, d>> \in Int \X Int /\ <<nr0, d>>[1] = nr0
    BY <2>1
  <2> QED
    BY <2>2, <2>3
<1>2. /\ Append(s, u) \in Seq(Int \X Int)
      /\ \A j \in 1..Len(Append(s, u)) :
           Append(s, u)[j] = u \/ (j \in 1..Len(s) /\ Append(s, u)[j] = s[j])
  BY AppendedUse
<1>3. vs = [us EXCEPT ![nr0] = Append(s, u)]
  BY <1>1
<1>4. /\ vs \in [1..MaxOps -> Seq(Int \X Int)]
      /\ vs[nr0] = Append(s, u)
      /\ \A m \in 1..MaxOps : m # nr0 => vs[m] = us[m]
  BY <1>2, <1>3
<1>5. \A j \in 1..Len(s) : s[j][1] = nr0
  BY <1>1
<1>6. \A j \in 1..Len(vs[nr0]) : vs[nr0][j][1] = nr0
  BY <1>1, <1>2, <1>4, <1>5
<1> QED
  BY <1>4, <1>6

\* A use of the completion at address v, by the transfer who.
LEMMA UseRecorded ==
  ASSUME UsersInv, plimbo' = plimbo, op'.nr = op.nr, op' \in Ops,
         NEW ev, NEW v, NEW d \in Int, NEW who,
         (v = P!Own /\ who = op.nr) \/ v = P!Other, P!Sync(ev, v, d, who)
  PROVE  UsersInv'
<1>1. CASE plimbo \/ temps[v].nr = 0
  <2>1. UNCHANGED <<temps, users>>
    BY <1>1 DEF P!Sync, P!NoSync
  <2>2. TempsInv'
    BY <2>1 DEF TempsInv, UsersInv
  <2>3. UsersOwn'
    BY <2>1 DEF UsersOwn, P!UsersOwn, UsersInv
  <2> QED
    BY <2>2, <2>3 DEF UsersInv
<1>2. CASE ~plimbo /\ temps[v].nr # 0
  <2>1. v = P!Own /\ who = op.nr /\ temps[v].nr = op.nr
    BY <1>2 DEF TempsInv, UsersInv
  <2>2. PICK nr0 \in 1..MaxOps : nr0 = op.nr
    BY <1>2, <2>1 DEF TempsInv, UsersInv, Ops
  <2>3. /\ temps' = P!Counted(temps, P!Own, d)
        /\ users' = [users EXCEPT ![nr0] = Append(users[nr0], <<nr0, d>>)]
    BY <1>2, <2>1, <2>2 DEF P!Sync
  <2>4. /\ temps' \in Temps
        /\ temps'[P!Other].nr = 0 /\ temps'[P!Own].nr \in {0, op.nr}
    BY <2>1, <2>3, CountedTemps DEF TempsInv, UsersInv
  <2>5. PICK us, vs : us = users /\ vs = users'
    OBVIOUS
  <2>6. /\ us \in [1..MaxOps -> Seq(Int \X Int)]
        /\ \A m \in 1..MaxOps : \A j \in 1..Len(us[m]) : us[m][j][1] = m
    BY <2>5 DEF TempsInv, UsersInv, UsersOwn, P!UsersOwn
  <2>7. vs = [us EXCEPT ![nr0] = Append(us[nr0], <<nr0, d>>)]
    BY <2>3, <2>5
  <2>8. /\ vs \in [1..MaxOps -> Seq(Int \X Int)]
        /\ \A m \in 1..MaxOps : \A j \in 1..Len(vs[m]) : vs[m][j][1] = m
    BY <2>2, <2>6, <2>7, UseAppended
  <2>9. UsersOwn'
    BY <2>5, <2>8 DEF UsersOwn, P!UsersOwn
  <2>10. TempsInv'
    BY <1>2, <2>4, <2>5, <2>8 DEF TempsInv
  <2> QED
    BY <2>9, <2>10 DEF UsersInv
<1> QED
  BY <1>1, <1>2

\* A step that uses no completion.
LEMMA NoneUsed ==
  ASSUME UsersInv, UNCHANGED <<temps, users>>, plimbo' => plimbo, op'.nr = op.nr, op' \in Ops
  PROVE  UsersInv'
<1>1. TempsInv'
  BY DEF UsersInv, TempsInv
<1>2. UsersOwn'
  BY DEF UsersInv, UsersOwn, P!UsersOwn
<1> QED
  BY <1>1, <1>2 DEF UsersInv

LEMMA UsersNext == UsersInv /\ [P!Next]_device => UsersInv'
<1> SUFFICES ASSUME UsersInv, P!Next \/ UNCHANGED device
             PROVE  UsersInv'
  OBVIOUS
<1>1. op \in Ops /\ temps \in Temps /\ op.nr \in 0..MaxOps
  BY DEF UsersInv, TempsInv, Ops
<1>2. CASE UNCHANGED device
  BY <1>1, <1>2, NoneUsed DEF device
<1>3. CASE P!DECLARE_COMPLETION_ONSTACK
  <2>1. /\ op.nr < MaxOps /\ op' = [op EXCEPT !.phase = "declared", !.nr = op.nr + 1]
        /\ temps' = IF plimbo THEN temps ELSE P!Declared(temps, P!Own, op.nr + 1)
        /\ UNCHANGED <<plimbo, users>>
    BY <1>3 DEF P!DECLARE_COMPLETION_ONSTACK
  <2>2. op.nr + 1 \in 0..MaxOps /\ op.nr + 1 \in Nat
    BY <1>1, <2>1, MeasureAssumption
  <2>3. op'.nr = op.nr + 1 /\ op' \in Ops
    BY <1>1, <2>1, <2>2, OpDeclared DEF Phases
  <2>4. CASE plimbo
    BY <2>1, <2>3, <2>4 DEF UsersInv, TempsInv, UsersOwn, P!UsersOwn
  <2>5. CASE ~plimbo
    <3>1. temps' = P!Declared(temps, P!Own, op.nr + 1)
      BY <2>1, <2>5
    <3>2. temps' \in Temps /\ temps'[P!Other] = temps[P!Other] /\ temps'[P!Own].nr = op.nr + 1
      BY <1>1, <2>2, <3>1, DeclaredTemps
    <3>3. TempsInv'
      BY <2>1, <2>3, <2>5, <3>2 DEF UsersInv, TempsInv
    <3> QED
      BY <2>1, <3>3 DEF UsersInv, UsersOwn, P!UsersOwn
  <2> QED
    BY <2>4, <2>5
<1>4. CASE P!omap_start_dma
  <2>1. /\ UNCHANGED <<temps, users, plimbo>>
        /\ op' = [op EXCEPT !.phase = "started", !.irq = TRUE]
    BY <1>4 DEF P!omap_start_dma, P!NoSync
  <2>2. op'.nr = op.nr /\ op' \in Ops
    BY <1>1, <2>1, OpPhaseIrq DEF Phases
  <2> QED
    BY <2>1, <2>2, NoneUsed
<1>5. CASE P!Return
  <2>1. /\ UNCHANGED <<temps, users>> /\ ~plimbo'
        /\ op' = [op EXCEPT !.phase = "idle", !.irq = FALSE]
    BY <1>5 DEF P!Return, P!NoSync
  <2>2. op'.nr = op.nr /\ op' \in Ops
    BY <1>1, <2>1, OpPhaseIrq DEF Phases
  <2> QED
    BY <2>1, <2>2, NoneUsed
<1>6. CASE P!HandlerReturns
  <2>1. UNCHANGED <<temps, users, plimbo, op>>
    BY <1>6 DEF P!HandlerReturns, P!NoSync
  <2> QED
    BY <1>1, <2>1, NoneUsed
<1>7. ASSUME NEW irq \in {P!Dma, P!Timer}, P!handle_IRQ_event(irq)
      PROVE  UsersInv'
  <2>1. /\ UNCHANGED <<temps, users, plimbo>>
        /\ op' = op \/ op' = [op EXCEPT !.irq = FALSE]
    BY <1>7 DEF P!handle_IRQ_event, P!NoSync
  <2>2. op'.nr = op.nr /\ op' \in Ops
    BY <1>1, <2>1, OpIrq
  <2> QED
    BY <2>1, <2>2, NoneUsed
<1>8. CASE P!wait_for_completion_timeout
  <2>1. /\ op' = [op EXCEPT !.phase = "waiting"] /\ plimbo' = plimbo
        /\ P!Sync("WAITCOMPL", P!Own, -1, op.nr)
    BY <1>8 DEF P!wait_for_completion_timeout
  <2>2. op'.nr = op.nr /\ op' \in Ops
    BY <1>1, <2>1, OpPhase DEF Phases
  <2>3. PICK who : who = op.nr
    OBVIOUS
  <2>4. P!Sync("WAITCOMPL", P!Own, -1, who)
    BY <2>1, <2>3
  <2> QED
    BY <2>1, <2>2, <2>3, <2>4, UseRecorded
<1>9. CASE P!complete
  <2>1. UNCHANGED <<op, plimbo>>
    BY <1>9 DEF P!complete
  <2>2. PICK who : who = op.nr
    OBVIOUS
  <2>3. P!Sync("COMPL", P!Own, 1, who) \/ P!Sync("COMPL", P!Other, 1, 0)
    BY <1>9, <2>2 DEF P!complete
  <2> QED
    BY <1>1, <2>1, <2>2, <2>3, UseRecorded
<1>10. CASE P!OtherWaits
  <2>1. UNCHANGED <<op, plimbo>> /\ P!Sync("WAITCOMPL", P!Other, -1, 0)
    BY <1>10 DEF P!OtherWaits
  <2> QED
    BY <1>1, <2>1, UseRecorded
<1>11. CASE P!Gap
  <2>1. /\ UNCHANGED <<op, users>>
        /\ temps' = [v \in {P!Own, P!Other} |-> [nr |-> 0, Value |-> 0]]
    BY <1>11 DEF P!Gap
  <2>2. temps' \in Temps /\ temps'[P!Own].nr = 0 /\ temps'[P!Other].nr = 0
    BY <2>1 DEF Temps
  <2> QED
    BY <1>1, <2>1, <2>2 DEF UsersInv, TempsInv, UsersOwn, P!UsersOwn
<1> QED
  BY <1>2, <1>3, <1>4, <1>5, <1>6, <1>7, <1>8, <1>9, <1>10, <1>11 DEF P!Next

\* handleSync() records every use of a temporary completion with its own
\* declaration, whatever transfers timed out before, although each has its
\* completion at the same address and lines are lost in gaps.
THEOREM UsesOwnDeclaration == MeasureSpec => []UsersOwn
<1>1. MeasureInit => UsersInv
  BY UsersInit DEF MeasureInit
<1>2. UsersInv /\ [MeasureNext]_all_vars => UsersInv'
  BY Stepwise, UsersNext
<1>3. UsersInv => UsersOwn
  BY DEF UsersInv
<1> QED
  BY <1>1, <1>2, <1>3, PTL DEF MeasureSpec
-----------------------------------------------------------------------------
(* The lines of a queued packet                                            *)

EventTypes == {"PKTQUEUE", "PKTQUEUEN"}
TracedLine == [ev : EventTypes, ext : Nat]
Traced == [1..MaxPackets -> Seq(TracedLine)]
QueuedPackets == [queue : Queues, known : SUBSET Nat]
Probes == [packet : 0..MaxPackets, i : Nat, extracted : BOOLEAN]

QueueTypes ==
  /\ pi_entries \in Seq(Queues)
  /\ probe \in [Q!Ctx -> Probes]
  /\ packets \in Seq(QueuedPackets)
  /\ Len(packets) <= MaxPackets
  /\ lines \in Traced
  /\ last \in Nat \X Nat
  /\ last[1] # 0 => last[1] \in 1..MaxPackets /\ last[2] \in 1..Len(lines[last[1]])

\* No packet is that of two probes, and one that is not there yet has no line.
ProbesInv ==
  /\ \A x \in Q!Ctx : probe[x].packet <= Len(packets)
  /\ \A x, y \in Q!Ctx : x # y /\ probe[x].packet # 0 => probe[x].packet # probe[y].packet
  /\ \A p \in 1..MaxPackets : p > Len(packets) => Len(lines[p]) = 0

Ascending(p) ==
  \A j, k \in 1..Len(lines[p]) : j < k => lines[p][j].ext < lines[p][k].ext
HasLine(p, e) == \E j \in 1..Len(lines[p]) : lines[p][j].ext = e

\* The loop of a probe is past the extractor e: it has traced the lines of the
\* extractors up to there, and ex tells whether there is one.
Loop(p, e, ex) ==
  /\ ex <=> Len(lines[p]) > 0
  /\ \A j \in 1..Len(lines[p]) : lines[p][j].ext <= e
  /\ Ascending(p)
  /\ packets[p].known \subseteq Q!Extractors(packets[p].queue)
  /\ \A k \in packets[p].known : k > e \/ HasLine(p, k)
LoopInv ==
  \A x \in Q!Ctx :
    probe[x].packet # 0 => Loop(probe[x].packet, probe[x].i, probe[x].extracted)

\* A packet that no probe is at any more.
Whole(p) ==
  /\ Len(lines[p]) > 0
  /\ \A k \in packets[p].known : HasLine(p, k)
  /\ Ascending(p)
WholeInv == \A p \in 1..Len(packets) : Q!Done(p) => Whole(p)

PktInv == QueueTypes /\ ProbesInv /\ LoopInv /\ WholeInv

Unmarked(ls, a, b) == [ls EXCEPT ![a][b].ev = "PKTQUEUEN"]
Added(ls, p, u) == [ls EXCEPT ![p] = Append(ls[p], u)]

\* Moving the mark changes the type of one line and nothing else.
LEMMA MarkMoved ==
  ASSUME NEW ls \in Traced, NEW a \in 1..MaxPackets, NEW b \in 1..Len(ls[a])
  PROVE  /\ Unmarked(ls, a, b) \in Traced
         /\ \A r \in 1..MaxPackets : Len(Unmarked(ls, a, b)[r]) = Len(ls[r])
         /\ \A r \in 1..MaxPackets : \A j \in 1..Len(ls[r]) :
              /\ Unmarked(ls, a, b)[r][j].ext = ls[r][j].ext
              /\ Unmarked(ls, a, b)[r][j].ev =
                   IF r = a /\ j = b THEN "PKTQUEUEN" ELSE ls[r][j].ev
<1> DEFINE ms == Unmarked(ls, a, b)
<1>1. PICK s \in Seq(TracedLine) : s = ls[a]
  BY DEF Traced
<1>2. PICK u \in TracedLine : u = s[b]
  BY <1>1
<1>3. PICK v : v = [u EXCEPT !.ev = "PKTQUEUEN"]
  OBVIOUS
<1>4. v \in TracedLine /\ v.ext = u.ext /\ v.ev = "PKTQUEUEN"
  BY <1>3 DEF TracedLine, EventTypes
<1>5. PICK t : t = [s EXCEPT ![b] = v]
  OBVIOUS
<1>6. /\ t \in Seq(TracedLine) /\ Len(t) = Len(s)
      /\ \A j \in 1..Len(s) : t[j] = IF j = b THEN v ELSE s[j]
  BY <1>1, <1>4, <1>5
<1>7. ms = [ls EXCEPT ![a] = t]
  BY <1>1, <1>2, <1>3, <1>5, Zenon DEF Unmarked
<1> HIDE DEF ms
<1>8. /\ ms \in Traced /\ ms[a] = t
      /\ \A r \in 1..MaxPackets : r # a => ms[r] = ls[r]
  BY <1>6, <1>7 DEF Traced
<1>9. /\ ms \in Traced
      /\ \A r \in 1..MaxPackets : Len(ms[r]) = Len(ls[r])
      /\ \A r \in 1..MaxPackets : \A j \in 1..Len(ls[r]) :
           /\ ms[r][j].ext = ls[r][j].ext
           /\ ms[r][j].ev = IF r = a /\ j = b THEN "PKTQUEUEN" ELSE ls[r][j].ev
  BY <1>1, <1>2, <1>4, <1>6, <1>8
<1> QED
  BY <1>9 DEF ms

\* A line more for the packet p.
LEMMA LineAdded ==
  ASSUME NEW ls \in Traced, NEW p \in 1..MaxPackets, NEW u \in TracedLine
  PROVE  /\ Added(ls, p, u) \in Traced
         /\ Len(Added(ls, p, u)[p]) = Len(ls[p]) + 1
         /\ Added(ls, p, u)[p][Len(ls[p]) + 1] = u
         /\ \A j \in 1..Len(ls[p]) : Added(ls, p, u)[p][j] = ls[p][j]
         /\ \A r \in 1..MaxPackets : r # p => Added(ls, p, u)[r] = ls[r]
<1>1. PICK s \in Seq(TracedLine) : s = ls[p]
  BY DEF Traced
<1>2. /\ Append(s, u) \in Seq(TracedLine) /\ Len(Append(s, u)) = Len(s) + 1
      /\ Append(s, u)[Len(s) + 1] = u
      /\ \A j \in 1..Len(s) : Append(s, u)[j] = s[j]
  BY Appended
<1>3. PICK t \in Seq(TracedLine) : t = Append(s, u)
  BY <1>2
<1>4. Added(ls, p, u) = [ls EXCEPT ![p] = t]
  BY <1>1, <1>3 DEF Added
<1>5. /\ Added(ls, p, u) \in Traced /\ Added(ls, p, u)[p] = t
      /\ \A r \in 1..MaxPackets : r # p => Added(ls, p, u)[r] = ls[r]
  BY <1>4 DEF Traced
<1> QED
  BY <1>1, <1>2, <1>3, <1>5

\* What handlePKTQUEUE() does to the lines.
LEMMA Handled ==
  ASSUME QueueTypes, NEW p \in 1..MaxPackets, NEW ev \in EventTypes, NEW ext \in Nat,
         Q!handlePKTQUEUE(p, ev, ext)
  PROVE  /\ lines' \in Traced
         /\ last' \in Nat \X Nat /\ last' = <<p, Len(lines[p]) + 1>>
         /\ Len(lines'[p]) = Len(lines[p]) + 1
         /\ lines'[p][Len(lines[p]) + 1].ext = ext
         /\ Q!Continues(ev) => lines'[p][Len(lines[p]) + 1].ev = "PKTQUEUE"
         /\ ~Q!Continues(ev) => lines'[p][Len(lines[p]) + 1].ev = ev
         /\ \A r \in 1..MaxPackets : r # p => Len(lines'[r]) = Len(lines[r])
         /\ \A r \in 1..MaxPackets : \A j \in 1..Len(lines[r]) :
              lines'[r][j].ext = lines[r][j].ext
         /\ \A r \in 1..MaxPackets : \A j \in 1..Len(lines[r]) :
              ~Q!Continues(ev) \/ r # last[1] \/ j # last[2] =>
                lines'[r][j].ev = lines[r][j].ev
         /\ Q!Continues(ev) => lines'[last[1]][last[2]].ev = "PKTQUEUEN"
<1>1. PICK ls, ns : ls = lines /\ ns = lines' /\ ls \in Traced
  BY DEF QueueTypes
<1>2. PICK e \in EventTypes : e = IF Q!Continues(ev) THEN "PKTQUEUE" ELSE ev
  <2>1. CASE Q!Continues(ev)
    BY <2>1 DEF EventTypes
  <2>2. CASE ~Q!Continues(ev)
    BY <2>2
  <2> QED
    BY <2>1, <2>2
<1>3. PICK u \in TracedLine : u = [ev |-> e, ext |-> ext]
  BY DEF TracedLine
<1>4. PICK a, b : u.ext = ext /\ u.ev = e /\ a = last[1] /\ b = last[2]
  BY <1>3
<1>5. PICK ms : ms = IF Q!Continues(ev) THEN Unmarked(ls, a, b) ELSE ls
  OBVIOUS
<1>6. ns = Added(ms, p, u) /\ last' = <<p, Len(ls[p]) + 1>>
  BY <1>1, <1>2, <1>3, <1>4, <1>5 DEF Q!handlePKTQUEUE, Added, Unmarked
<1>7. /\ ms \in Traced
      /\ \A r \in 1..MaxPackets : Len(ms[r]) = Len(ls[r])
      /\ \A r \in 1..MaxPackets : \A j \in 1..Len(ls[r]) : ms[r][j].ext = ls[r][j].ext
      /\ \A r \in 1..MaxPackets : \A j \in 1..Len(ls[r]) :
           ~Q!Continues(ev) \/ r # a \/ j # b => ms[r][j].ev = ls[r][j].ev
      /\ Q!Continues(ev) => /\ a \in 1..MaxPackets /\ b \in 1..Len(ls[a])
                            /\ ms[a][b].ev = "PKTQUEUEN"
  <2>1. CASE Q!Continues(ev)
    <3>1. a \in 1..MaxPackets /\ b \in 1..Len(ls[a])
      BY <1>1, <1>4, <2>1 DEF Q!Continues, QueueTypes
    <3>2. ms = Unmarked(ls, a, b)
      BY <1>5, <2>1
    <3>3. ls \in Traced
      BY <1>1
    <3>4. /\ Unmarked(ls, a, b) \in Traced
          /\ \A r \in 1..MaxPackets : Len(Unmarked(ls, a, b)[r]) = Len(ls[r])
          /\ \A r \in 1..MaxPackets : \A j \in 1..Len(ls[r]) :
               /\ Unmarked(ls, a, b)[r][j].ext = ls[r][j].ext
               /\ Unmarked(ls, a, b)[r][j].ev =
                    IF r = a /\ j = b THEN "PKTQUEUEN" ELSE ls[r][j].ev
      BY <3>1, <3>3, MarkMoved, Zenon
    <3> QED
      BY <2>1, <3>1, <3>2, <3>4
  <2>2. CASE ~Q!Continues(ev)
    BY <1>1, <1>5, <2>2
  <2> QED
    BY <2>1, <2>2
<1>8. /\ ns \in Traced
      /\ Len(ns[p]) = Len(ms[p]) + 1 /\ ns[p][Len(ms[p]) + 1] = u
      /\ \A j \in 1..Len(ms[p]) : ns[p][j] = ms[p][j]
      /\ \A r \in 1..MaxPackets : r # p => ns[r] = ms[r]
  <2>1. ms \in Traced /\ ns = Added(ms, p, u)
    BY <1>6, <1>7
  <2>2. /\ Added(ms, p, u) \in Traced
        /\ Len(Added(ms, p, u)[p]) = Len(ms[p]) + 1
        /\ Added(ms, p, u)[p][Len(ms[p]) + 1] = u
        /\ \A j \in 1..Len(ms[p]) : Added(ms, p, u)[p][j] = ms[p][j]
        /\ \A r \in 1..MaxPackets : r # p => Added(ms, p, u)[r] = ms[r]
    BY <2>1, LineAdded, Zenon
  <2> QED
    BY <2>1, <2>2
<1>9. Len(ls[p]) \in Nat
  BY <1>1 DEF Traced
<1>10. last' \in Nat \X Nat
  BY <1>6, <1>9
<1>11. \A r \in 1..MaxPackets : \A j \in 1..Len(ls[r]) : ns[r][j] = ms[r][j]
  BY <1>7, <1>8
<1>12. Len(ns[p]) = Len(ls[p]) + 1 /\ ns[p][Len(ls[p]) + 1] = u
  BY <1>7, <1>8
<1>13. \A r \in 1..MaxPackets : r # p => Len(ns[r]) = Len(ls[r])
  BY <1>7, <1>8
<1>14. /\ \A r \in 1..MaxPackets : \A j \in 1..Len(ls[r]) : ns[r][j].ext = ls[r][j].ext
       /\ \A r \in 1..MaxPackets : \A j \in 1..Len(ls[r]) :
            ~Q!Continues(ev) \/ r # a \/ j # b => ns[r][j].ev = ls[r][j].ev
       /\ Q!Continues(ev) => ns[a][b].ev = "PKTQUEUEN"
  BY <1>7, <1>11
<1>15. CASE Q!Continues(ev)
  BY <1>1, <1>2, <1>4, <1>6, <1>8, <1>10, <1>12, <1>13, <1>14, <1>15
<1>16. CASE ~Q!Continues(ev)
  BY <1>1, <1>2, <1>4, <1>6, <1>8, <1>10, <1>12, <1>13, <1>14, <1>16
<1> QED
  BY <1>15, <1>16
-----------------------------------------------------------------------------
LEMMA PacketTypes ==
  ASSUME QueueTypes, NEW p \in 1..Len(packets)
  PROVE  /\ p \in 1..MaxPackets
         /\ packets[p].queue \in Queues /\ packets[p].known \subseteq Nat
         /\ Len(lines[p]) \in Nat
         /\ \A j \in 1..Len(lines[p]) : lines[p][j].ext \in Nat
<1>1. p \in 1..MaxPackets
  BY MeasureAssumption DEF QueueTypes
<1>2. packets[p] \in QueuedPackets
  BY DEF QueueTypes
<1>3. PICK s \in Seq(TracedLine) : s = lines[p]
  BY <1>1 DEF QueueTypes, Traced
<1>4. \A j \in 1..Len(s) : s[j] \in TracedLine
  OBVIOUS
<1>5. \A j \in 1..Len(s) : s[j].ext \in Nat
  BY <1>4 DEF TracedLine
<1> QED
  BY <1>1, <1>2, <1>3, <1>5 DEF QueuedPackets

\* The probe of the context x after a step of it; the others stay.
ProbeIs(x, p, e, ex) ==
  /\ probe' \in [Q!Ctx -> Probes]
  /\ probe'[x].packet = p /\ probe'[x].i = e /\ probe'[x].extracted = ex
  /\ \A y \in Q!Ctx : y # x => probe'[y] = probe[y]

LEMMA ProbeChanges ==
  ASSUME probe \in [Q!Ctx -> Probes], NEW x \in Q!Ctx, NEW w \in Probes,
         probe' = [probe EXCEPT ![x] = w]
  PROVE  ProbeIs(x, w.packet, w.i, w.extracted)
BY DEF ProbeIs

LEMMA ProbeEnters ==
  ASSUME probe \in [Q!Ctx -> Probes], NEW x \in Q!Ctx, NEW p \in 0..MaxPackets,
         probe' = [probe EXCEPT ![x] = [Q!NoProbe EXCEPT !.packet = p]]
  PROVE  ProbeIs(x, p, 0, FALSE)
<1>1. PICK w : w = [Q!NoProbe EXCEPT !.packet = p]
  OBVIOUS
<1>2. w \in Probes /\ w.packet = p /\ w.i = 0 /\ w.extracted = FALSE
  BY <1>1 DEF Q!NoProbe, Probes
<1> QED
  BY <1>1, <1>2, ProbeChanges

LEMMA ProbeLeaves ==
  ASSUME probe \in [Q!Ctx -> Probes], NEW x \in Q!Ctx,
         probe' = [probe EXCEPT ![x] = Q!NoProbe]
  PROVE  ProbeIs(x, 0, 0, FALSE)
<1>1. PICK w : w = Q!NoProbe
  OBVIOUS
<1>2. w \in Probes /\ w.packet = 0 /\ w.i = 0 /\ w.extracted = FALSE
  BY <1>1, MeasureAssumption DEF Q!NoProbe, Probes
<1> QED
  BY <1>1, <1>2, ProbeChanges

LEMMA ProbeGoesOn ==
  ASSUME probe \in [Q!Ctx -> Probes], NEW x \in Q!Ctx, NEW e \in Nat,
         probe' = [probe EXCEPT ![x].i = e, ![x].extracted = TRUE]
  PROVE  ProbeIs(x, probe[x].packet, e, TRUE)
<1>1. PICK w \in Probes : w = probe[x]
  OBVIOUS
<1>2. PICK v : v = [w EXCEPT !.i = e, !.extracted = TRUE]
  OBVIOUS
<1>3. v \in Probes /\ v.packet = w.packet /\ v.i = e /\ v.extracted = TRUE
  BY <1>2 DEF Probes
<1>4. probe' = [probe EXCEPT ![x] = v]
  BY <1>1, <1>2
<1>5. ProbeIs(x, v.packet, v.i, v.extracted)
  BY <1>3, <1>4, ProbeChanges
<1> QED
  BY <1>1, <1>3, <1>5
-----------------------------------------------------------------------------
\* The lines of the packet r are those it had, but for a mark that may have moved.
SameLines(r) ==
  /\ Len(lines'[r]) = Len(lines[r])
  /\ \A j \in 1..Len(lines[r]) : lines'[r][j].ext = lines[r][j].ext
\* ... and a line of the extractor e.
OneMore(p, e) ==
  /\ Len(lines'[p]) = Len(lines[p]) + 1
  /\ \A j \in 1..Len(lines[p]) : lines'[p][j].ext = lines[p][j].ext
  /\ lines'[p][Len(lines[p]) + 1].ext = e

\* Extractors are added, never removed; packets stay what they are.
Monotone ==
  /\ \A q \in Queues : Q!Extractors(q) \subseteq Q!Extractors(q)'
  /\ Len(packets) <= Len(packets')
  /\ \A p \in 1..Len(packets) : packets'[p] = packets[p]

LEMMA SameKept ==
  ASSUME QueueTypes, Monotone, NEW r \in 1..Len(packets), SameLines(r)
  PROVE  /\ \A e, ex : Loop(r, e, ex) => Loop(r, e, ex)'
         /\ Whole(r) => Whole(r)'
<1>1. packets'[r] = packets[r] /\ packets[r].queue \in Queues
  BY PacketTypes DEF Monotone
<1>2. Ascending(r) => Ascending(r)'
  BY DEF SameLines, Ascending
<1>3. \A k : HasLine(r, k) => HasLine(r, k)'
  BY DEF SameLines, HasLine
<1>4. Q!Extractors(packets[r].queue) \subseteq Q!Extractors(packets[r].queue)'
  BY <1>1 DEF Monotone
<1> QED
  BY <1>1, <1>2, <1>3, <1>4 DEF SameLines, Loop, Whole

\* The loop traces the line of the next extractor.
LEMMA NextLine ==
  ASSUME QueueTypes, Monotone, NEW p \in 1..Len(packets), NEW e \in Nat, NEW ex \in BOOLEAN,
         Loop(p, e, ex), NEW m \in Nat, m > e, OneMore(p, m),
         \A k \in Q!Extractors(packets[p].queue) : k > e => m <= k
  PROVE  Loop(p, m, TRUE)'
<1>1. packets'[p] = packets[p] /\ packets[p].queue \in Queues
  BY PacketTypes DEF Monotone
<1>2. Q!Extractors(packets[p].queue) \subseteq Q!Extractors(packets[p].queue)'
  BY <1>1 DEF Monotone
<1>3. PICK s, t, len : s = lines[p] /\ t = lines'[p] /\ len = Len(s)
  OBVIOUS
<1>4. /\ len \in Nat /\ Len(t) = len + 1 /\ t[len + 1].ext = m
      /\ \A j \in 1..len : t[j].ext = s[j].ext /\ s[j].ext \in Nat
  BY <1>3, PacketTypes DEF OneMore
<1>5. \A j \in 1..len : s[j].ext <= e
  BY <1>3 DEF Loop
<1>6. \A j, k \in 1..len : j < k => s[j].ext < s[k].ext
  BY <1>3 DEF Loop, Ascending
<1>7. Ascending(p)'
  <2>1. \A j, k \in 1..(len + 1) : j < k => t[j].ext < t[k].ext
    <3> SUFFICES ASSUME NEW j \in 1..(len + 1), NEW k \in 1..(len + 1), j < k
                 PROVE  t[j].ext < t[k].ext
      OBVIOUS
    <3>1. j \in 1..len
      BY <1>4
    <3>2. CASE k \in 1..len
      BY <1>4, <1>6, <3>1, <3>2
    <3>3. CASE k = len + 1
      BY <1>4, <1>5, <3>1, <3>3
    <3> QED
      BY <1>4, <3>2, <3>3
  <2> QED
    BY <1>3, <1>4, <2>1 DEF Ascending
<1>8. ASSUME NEW k, HasLine(p, k)
      PROVE  HasLine(p, k)'
  <2>1. PICK j \in 1..len : s[j].ext = k
    BY <1>3, <1>8 DEF HasLine
  <2>2. j \in 1..(len + 1) /\ t[j].ext = k
    BY <1>4, <2>1
  <2> QED
    BY <1>3, <1>4, <2>2 DEF HasLine
<1>9. HasLine(p, m)'
  BY <1>3, <1>4 DEF HasLine
<1>10. \A k \in packets[p].known : k > m \/ HasLine(p, k)'
  <2> SUFFICES ASSUME NEW k \in packets[p].known, ~HasLine(p, k)'
               PROVE  k > m
    OBVIOUS
  <2>1. k > e /\ k \in Q!Extractors(packets[p].queue)
    BY <1>8 DEF Loop
  <2>2. m <= k /\ k # m /\ k \in Nat
    BY <1>9, <2>1 DEF Q!Extractors
  <2> QED
    BY <2>2
<1>11. \A j \in 1..Len(lines'[p]) : lines'[p][j].ext <= m
  <2>1. ASSUME NEW j \in 1..(len + 1)
        PROVE  t[j].ext <= m
    <3>1. CASE j = len + 1
      BY <1>4, <3>1
    <3>2. CASE j # len + 1
      <4>1. j \in 1..len
        BY <1>4, <3>2
      <4> QED
        BY <1>4, <1>5, <4>1
    <3> QED
      BY <3>1, <3>2
  <2> QED
    BY <1>3, <1>4, <2>1
<1> QED
  BY <1>1, <1>2, <1>3, <1>7, <1>10, <1>11, <1>4 DEF Loop

\* The loop has come to the end of the table.
LEMMA LoopEnds ==
  ASSUME QueueTypes, NEW p \in 1..Len(packets), NEW e \in Nat, NEW ex \in BOOLEAN,
         Loop(p, e, ex), \A k \in Q!Extractors(packets[p].queue) : ~(k > e)
  PROVE  (ex => Whole(p)) /\ (~ex => packets[p].known = {} /\ Len(lines[p]) = 0)
<1>1. Len(lines[p]) \in Nat
  BY DEF QueueTypes, Traced
<1>2. \A k \in packets[p].known : HasLine(p, k)
  BY DEF Loop
<1> QED
  BY <1>1, <1>2 DEF Loop, Whole, HasLine

\* A packet without extractors has one plain line.
LEMMA PlainLine ==
  ASSUME NEW p, Len(lines[p]) = 0, OneMore(p, 0), packets'[p].known = {}
  PROVE  Whole(p)'
BY DEF OneMore, Whole, Ascending

LEMMA ExtractedWhole == QueueTypes /\ WholeInv => Extracted
<1> SUFFICES ASSUME QueueTypes, WholeInv, NEW p \in 1..Len(packets), Q!Done(p)
             PROVE  /\ lines[p] # <<>>
                    /\ packets[p].known \subseteq {lines[p][j].ext : j \in 1..Len(lines[p])}
                    /\ \A j, k \in 1..Len(lines[p]) : j < k => lines[p][j].ext < lines[p][k].ext
  BY DEF Extracted, Q!Extracted
<1>1. Whole(p)
  BY DEF WholeInv
<1> QED
  BY <1>1 DEF Whole, HasLine, Ascending
-----------------------------------------------------------------------------
(* The steps                                                               *)

LEMMA PktInit == Q!Init => PktInv
<1> SUFFICES ASSUME Q!Init
             PROVE  PktInv
  OBVIOUS
<1>1. Q!NoProbe \in Probes /\ Q!NoProbe.packet = 0
  BY MeasureAssumption DEF Q!NoProbe, Probes
<1>2. probe \in [Q!Ctx -> Probes] /\ \A x \in Q!Ctx : probe[x].packet = 0
  BY <1>1 DEF Q!Init
<1>3. packets = <<>> /\ Len(packets) = 0 /\ packets \in Seq(QueuedPackets)
  BY DEF Q!Init
<1>4. lines \in Traced /\ \A p \in 1..MaxPackets : Len(lines[p]) = 0
  BY DEF Q!Init, Traced
<1>5. pi_entries \in Seq(Queues) /\ last \in Nat \X Nat /\ last[1] = 0
  BY DEF Q!Init
<1>6. QueueTypes
  BY <1>2, <1>3, <1>4, <1>5, MeasureAssumption DEF QueueTypes
<1> QED
  BY <1>2, <1>3, <1>4, <1>6 DEF PktInv, ProbesInv, LoopInv, WholeInv

\* handlePKTQUEUE() in these terms.
LEMMA HandledLines ==
  ASSUME QueueTypes, NEW p \in 1..MaxPackets, NEW ev \in EventTypes, NEW e \in Nat,
         Q!handlePKTQUEUE(p, ev, e)
  PROVE  /\ OneMore(p, e)
         /\ \A r \in 1..MaxPackets : r # p => SameLines(r)
         /\ lines' \in Traced /\ last' \in Nat \X Nat
         /\ last'[1] # 0 => last'[1] \in 1..MaxPackets /\ last'[2] \in 1..Len(lines'[last'[1]])
<1>1. /\ lines' \in Traced
      /\ last' \in Nat \X Nat /\ last' = <<p, Len(lines[p]) + 1>>
      /\ Len(lines'[p]) = Len(lines[p]) + 1
      /\ lines'[p][Len(lines[p]) + 1].ext = e
      /\ \A r \in 1..MaxPackets : r # p => Len(lines'[r]) = Len(lines[r])
      /\ \A r \in 1..MaxPackets : \A j \in 1..Len(lines[r]) :
           lines'[r][j].ext = lines[r][j].ext
  BY Handled
<1>2. Len(lines[p]) \in Nat
  BY DEF QueueTypes, Traced
<1>3. last'[1] = p /\ last'[2] = Len(lines[p]) + 1
  BY <1>1
<1> QED
  BY <1>1, <1>2, <1>3 DEF OneMore, SameLines

\* A packet more, of the queue q.
LEMMA PacketAdded ==
  ASSUME QueueTypes, NEW q \in Queues, NEW known \in SUBSET Nat, Len(packets) < MaxPackets,
         packets' = Append(packets, [queue |-> q, known |-> known]), pi_entries' = pi_entries
  PROVE  /\ Monotone
         /\ packets' \in Seq(QueuedPackets) /\ Len(packets') = Len(packets) + 1
         /\ Len(packets) \in Nat /\ Len(packets) + 1 \in 1..MaxPackets
         /\ packets'[Len(packets) + 1].queue = q
         /\ packets'[Len(packets) + 1].known = known
<1>1. PICK u \in QueuedPackets : u = [queue |-> q, known |-> known]
  BY DEF QueuedPackets
<1>2. u.queue = q /\ u.known = known
  BY <1>1
<1>3. PICK s, t : s = packets /\ t = packets' /\ s \in Seq(QueuedPackets)
  BY DEF QueueTypes
<1>4. t = Append(s, u)
  BY <1>1, <1>3
<1>5. /\ t \in Seq(QueuedPackets) /\ Len(t) = Len(s) + 1 /\ t[Len(s) + 1] = u
      /\ \A j \in 1..Len(s) : t[j] = s[j]
  BY <1>3, <1>4, Appended
<1>6. \A qq \in Queues : Q!Extractors(qq) \subseteq Q!Extractors(qq)'
  BY DEF Q!Extractors
<1>7. Len(s) \in Nat
  BY <1>3
<1> QED
  BY <1>2, <1>3, <1>5, <1>6, <1>7, MeasureAssumption DEF Monotone

\* A step that touches neither a packet nor a probe.
LEMMA TableStep ==
  ASSUME PktInv, QueueTypes', Monotone, UNCHANGED <<probe, packets, lines>>
  PROVE  PktInv'
<1>1. ProbesInv'
  BY DEF PktInv, ProbesInv
<1>2. \A r \in 1..Len(packets) : SameLines(r)
  BY DEF SameLines
<1>3. LoopInv'
  <2> SUFFICES ASSUME NEW x \in Q!Ctx, probe'[x].packet # 0
               PROVE  Loop(probe[x].packet, probe[x].i, probe[x].extracted)'
    BY DEF LoopInv
  <2>1. PICK p, e, ex : p = probe[x].packet /\ e = probe[x].i /\ ex = probe[x].extracted
    OBVIOUS
  <2>2. p \in 1..Len(packets) /\ Loop(p, e, ex)
    BY <2>1 DEF PktInv, ProbesInv, LoopInv, QueueTypes, Probes
  <2>3. Loop(p, e, ex)'
    BY <1>2, <2>2, SameKept DEF PktInv
  <2> QED
    BY <2>1, <2>3 DEF PktInv
<1>4. WholeInv'
  <2> SUFFICES ASSUME NEW p \in 1..Len(packets), Q!Done(p)'
               PROVE  Whole(p)'
    BY DEF WholeInv
  <2>1. Q!Done(p)
    BY DEF Q!Done
  <2> QED
    BY <1>2, <2>1, SameKept DEF PktInv, WholeInv
<1> QED
  BY <1>1, <1>3, <1>4 DEF PktInv

\* A step of the probe in x, which is at the packet p before or after it.
LEMMA ProbeStep ==
  ASSUME PktInv, QueueTypes', Monotone, NEW x \in Q!Ctx, NEW p \in 1..Len(packets'),
         NEW pp \in {0, p}, NEW e, NEW ex,
         ProbeIs(x, pp, e, ex),
         \/ Len(packets') = Len(packets) /\ probe[x].packet = p
         \/ Len(packets') = Len(packets) + 1 /\ p = Len(packets') /\ probe[x].packet = 0,
         \A r \in 1..Len(packets) : r # p => SameLines(r),
         \A r \in 1..MaxPackets : r > Len(packets') => Len(lines'[r]) = 0,
         pp = p => Loop(p, e, ex)',
         pp = 0 => Whole(p)'
  PROVE  PktInv'
<1>1. Len(packets) \in Nat /\ Len(packets') \in Nat /\ p # 0
  BY DEF PktInv, QueueTypes
<1>2. \A y \in Q!Ctx : probe'[y].packet = IF y = x THEN pp ELSE probe[y].packet
  BY DEF ProbeIs
<1>3. \A y \in Q!Ctx : probe[y].packet \in 0..Len(packets)
  BY <1>1 DEF PktInv, ProbesInv, QueueTypes, Probes
<1>4. \A y \in Q!Ctx : y # x => probe[y].packet # p
  <2> SUFFICES ASSUME NEW y \in Q!Ctx, y # x, probe[y].packet = p
               PROVE  FALSE
    OBVIOUS
  <2>1. p \in 1..Len(packets)
    BY <1>1, <1>3
  <2> QED
    BY <1>1, <2>1 DEF PktInv, ProbesInv
<1>5. ProbesInv'
  <2>1. \A y \in Q!Ctx : probe'[y].packet <= Len(packets')
    BY <1>1, <1>2, <1>3 DEF Monotone
  <2>2. \A y, z \in Q!Ctx :
          y # z /\ probe'[y].packet # 0 => probe'[y].packet # probe'[z].packet
    BY <1>2, <1>4 DEF PktInv, ProbesInv
  <2> QED
    BY <2>1, <2>2 DEF ProbesInv
<1>6. LoopInv'
  <2> SUFFICES ASSUME NEW y \in Q!Ctx, probe'[y].packet # 0
               PROVE  Loop(probe[y].packet, probe[y].i, probe[y].extracted)'
    BY DEF LoopInv
  <2>1. CASE y = x
    BY <2>1 DEF ProbeIs
  <2>2. CASE y # x
    <3>1. PICK r, i, b : r = probe[y].packet /\ i = probe[y].i /\ b = probe[y].extracted
      OBVIOUS
    <3>2. probe'[y] = probe[y]
      BY <2>2 DEF ProbeIs
    <3>3. r \in 1..Len(packets) /\ r # p
      BY <1>3, <1>4, <2>2, <3>1, <3>2
    <3>4. Loop(r, i, b)
      BY <3>1, <3>3 DEF PktInv, LoopInv
    <3>5. Loop(r, i, b)'
      BY <3>3, <3>4, SameKept DEF PktInv
    <3> QED
      BY <3>1, <3>2, <3>5
  <2> QED
    BY <2>1, <2>2
<1>7. WholeInv'
  <2> SUFFICES ASSUME NEW r \in 1..Len(packets'), Q!Done(r)'
               PROVE  Whole(r)'
    BY DEF WholeInv
  <2>1. CASE r = p
    BY <1>2, <2>1 DEF Q!Done
  <2>2. CASE r # p
    <3>1. r \in 1..Len(packets)
      BY <1>1, <2>2
    <3>2. Q!Done(r)
      BY <1>2, <2>2, <3>1 DEF Q!Done
    <3> QED
      BY <2>2, <3>1, <3>2, SameKept DEF PktInv, WholeInv
  <2> QED
    BY <2>1, <2>2
<1> QED
  BY <1>5, <1>6, <1>7 DEF PktInv

\* Interrupts, and extractors added.
LEMMA PktTable ==
  ASSUME PktInv, \/ \E q \in Queues : Q!add_pktextr(q)
                 \/ \E c \in CPUs : Q!Interrupt(c) \/ Q!Resume(c)
                 \/ UNCHANGED pktqueue
  PROVE  PktInv'
<1> USE DEF PktInv
<1>1. CASE \E q \in Queues : Q!add_pktextr(q)
  <2>1. PICK q \in Queues : pi_entries' = Append(pi_entries, q)
    BY <1>1 DEF Q!add_pktextr
  <2>2. UNCHANGED <<probe, packets, lines, last>>
    BY <1>1 DEF Q!add_pktextr
  <2>3. PICK s, t : s = pi_entries /\ t = pi_entries' /\ s \in Seq(Queues)
    BY DEF QueueTypes
  <2>4. t = Append(s, q)
    BY <2>1, <2>3
  <2>5. /\ t \in Seq(Queues) /\ Len(t) = Len(s) + 1 /\ Len(s) \in Nat
        /\ \A j \in 1..Len(s) : t[j] = s[j]
    BY <2>3, <2>4, Appended
  <2>6. QueueTypes'
    BY <2>2, <2>3, <2>5 DEF QueueTypes
  <2>7. \A qq \in Queues : Q!Extractors(qq) \subseteq Q!Extractors(qq)'
    BY <2>3, <2>5 DEF Q!Extractors
  <2>8. Len(packets) \in Nat
    BY DEF QueueTypes
  <2> QED
    BY <2>2, <2>6, <2>7, <2>8, TableStep DEF Monotone
<1>2. CASE \/ \E c \in CPUs : Q!Interrupt(c) \/ Q!Resume(c)
           \/ UNCHANGED pktqueue
  <2>1. UNCHANGED <<pi_entries, probe, packets, lines>> /\ last' \in {last, <<0, 0>>}
    BY <1>2 DEF Q!Interrupt, Q!Resume, Q!OtherLine, pktqueue
  <2>2. QueueTypes'
    <3>1. CASE last' = last
      BY <2>1, <3>1 DEF QueueTypes
    <3>2. CASE last' = <<0, 0>>
      <4>1. last' \in Nat \X Nat /\ last'[1] = 0
        BY <3>2
      <4> QED
        BY <2>1, <4>1 DEF QueueTypes
    <3> QED
      BY <2>1, <3>1, <3>2
  <2>3. Monotone
    <3>1. Len(packets) \in Nat
      BY DEF QueueTypes
    <3> QED
      BY <2>1, <3>1 DEF Monotone, Q!Extractors
  <2> QED
    BY <2>1, <2>2, <2>3, TableStep
<1> QED
  BY <1>1, <1>2

LEMMA PktNull ==
  ASSUME PktInv, NEW x \in Q!Ctx, NEW q \in Queues, Q!NullPacket(x, q)
  PROVE  PktInv'
<1>1. PICK p : p = Len(packets) + 1
  OBVIOUS
<1>2. /\ Len(packets) < MaxPackets /\ probe[x] = Q!NoProbe
      /\ packets' = Append(packets, [queue |-> q, known |-> {}])
      /\ Q!handlePKTQUEUE(p, "PKTQUEUE", 0)
      /\ UNCHANGED <<pi_entries, probe>>
  BY <1>1 DEF Q!NullPacket, Q!Trace
<1>3. QueueTypes /\ {} \in SUBSET Nat
  BY DEF PktInv
<1>4. /\ Monotone /\ packets' \in Seq(QueuedPackets) /\ Len(packets') = Len(packets) + 1
      /\ Len(packets) \in Nat /\ p \in 1..MaxPackets /\ packets'[p].known = {}
  BY <1>1, <1>2, <1>3, PacketAdded
<1>5. /\ OneMore(p, 0)
      /\ \A r \in 1..MaxPackets : r # p => SameLines(r)
      /\ lines' \in Traced /\ last' \in Nat \X Nat
      /\ last'[1] # 0 => last'[1] \in 1..MaxPackets /\ last'[2] \in 1..Len(lines'[last'[1]])
  BY <1>2, <1>3, <1>4, HandledLines DEF EventTypes
<1>6. QueueTypes'
  BY <1>1, <1>2, <1>3, <1>4, <1>5 DEF QueueTypes
<1>7. ProbeIs(x, 0, 0, FALSE) /\ probe[x].packet = 0
  BY <1>2, <1>3 DEF ProbeIs, QueueTypes, Q!NoProbe
<1>8. \A r \in 1..MaxPackets : r > Len(packets) => Len(lines[r]) = 0
  BY DEF PktInv, ProbesInv
<1>9. Whole(p)'
  BY <1>1, <1>4, <1>5, <1>8, PlainLine
<1>10. \A r \in 1..MaxPackets : r > Len(packets') => Len(lines'[r]) = 0
  BY <1>1, <1>4, <1>5, <1>8 DEF SameLines
<1>11. \A r \in 1..Len(packets) : r # p => SameLines(r)
  BY <1>1, <1>2, <1>4, <1>5, MeasureAssumption
<1>12. p \in 1..Len(packets') /\ p # 0
  BY <1>1, <1>4
<1> QED
  BY <1>1, <1>4, <1>6, <1>7, <1>9, <1>10, <1>11, <1>12, ProbeStep

LEMMA PktEnter ==
  ASSUME PktInv, NEW x \in Q!Ctx, NEW q \in Queues, Q!Enter(x, q)
  PROVE  PktInv'
<1>1. PICK p, known : p = Len(packets) + 1 /\ known = Q!Extractors(q)
  OBVIOUS
<1>2. /\ Len(packets) < MaxPackets /\ probe[x] = Q!NoProbe
      /\ packets' = Append(packets, [queue |-> q, known |-> known])
      /\ probe' = [probe EXCEPT ![x] = [Q!NoProbe EXCEPT !.packet = p]]
      /\ UNCHANGED <<pi_entries, lines, last>>
  BY <1>1 DEF Q!Enter
<1>3. QueueTypes /\ known \in SUBSET Nat /\ \A k \in known : k > 0
  BY <1>1 DEF PktInv, Q!Extractors
<1>4. /\ Monotone /\ packets' \in Seq(QueuedPackets) /\ Len(packets') = Len(packets) + 1
      /\ Len(packets) \in Nat /\ p \in 1..MaxPackets
      /\ packets'[p].known = known /\ packets'[p].queue = q
  BY <1>1, <1>2, <1>3, PacketAdded
<1>5. ProbeIs(x, p, 0, FALSE)
  <2>1. p \in 0..MaxPackets /\ probe \in [Q!Ctx -> Probes]
    BY <1>3, <1>4 DEF QueueTypes
  <2> QED
    BY <1>2, <2>1, ProbeEnters
<1>6. probe[x].packet = 0
  BY <1>2 DEF Q!NoProbe
<1>7. QueueTypes'
  BY <1>1, <1>2, <1>3, <1>4, <1>5 DEF QueueTypes, ProbeIs
<1>8. \A r \in 1..MaxPackets : r > Len(packets) => Len(lines'[r]) = 0
  BY <1>2 DEF PktInv, ProbesInv
<1>9. Q!Extractors(q)' = known
  BY <1>1, <1>2 DEF Q!Extractors
<1>10. Loop(p, 0, FALSE)'
  <2>1. Len(lines'[p]) = 0
    BY <1>1, <1>4, <1>8
  <2>2. packets'[p].known \subseteq Q!Extractors(packets[p].queue)'
    BY <1>4, <1>9
  <2> QED
    BY <1>3, <1>4, <2>1, <2>2 DEF Loop, Ascending
<1>11. \A r \in 1..MaxPackets : r > Len(packets') => Len(lines'[r]) = 0
  BY <1>4, <1>8
<1>12. \A r \in 1..Len(packets) : r # p => SameLines(r)
  BY <1>2 DEF SameLines
<1>13. p \in 1..Len(packets') /\ p # 0
  BY <1>1, <1>4
<1> QED
  BY <1>1, <1>4, <1>5, <1>6, <1>7, <1>10, <1>11, <1>12, <1>13, ProbeStep

\* What a probe finds when it goes on.
LEMMA AtPacket ==
  ASSUME PktInv, NEW x \in Q!Ctx, probe[x].packet # 0
  PROVE  /\ probe[x].packet \in 1..Len(packets) /\ probe[x].packet \in 1..MaxPackets
         /\ probe[x].i \in Nat /\ probe[x].extracted \in BOOLEAN
         /\ Loop(probe[x].packet, probe[x].i, probe[x].extracted)
         /\ Len(packets) \in Nat
<1>1. probe[x] \in Probes /\ Len(packets) \in Nat /\ probe[x].packet <= Len(packets)
  BY DEF PktInv, QueueTypes, ProbesInv
<1>2. Loop(probe[x].packet, probe[x].i, probe[x].extracted)
  BY DEF PktInv, LoopInv
<1> QED
  BY <1>1, <1>2 DEF Probes

LEMMA PktExtract ==
  ASSUME PktInv, NEW x \in Q!Ctx, Q!Extract(x)
  PROVE  PktInv'
<1>1. PICK p, e, ex : p = probe[x].packet /\ e = probe[x].i /\ ex = probe[x].extracted
  OBVIOUS
<1>2. p # 0 /\ UNCHANGED <<pi_entries, packets>> /\ QueueTypes
  BY <1>1 DEF Q!Extract, PktInv
<1>3. /\ p \in 1..Len(packets) /\ p \in 1..MaxPackets /\ e \in Nat /\ ex \in BOOLEAN
      /\ Loop(p, e, ex) /\ Len(packets) \in Nat
  BY <1>1, <1>2, AtPacket
<1>4. PICK T : T = Q!Later(probe[x])
  OBVIOUS
<1>5. /\ T # {} /\ T \subseteq Nat
      /\ \A k \in T : k > e
      /\ \A k \in Q!Extractors(packets[p].queue) : k > e => k \in T
  BY <1>1, <1>4 DEF Q!Extract, Q!Later, Q!Extractors
<1>6. PICK m : m = Q!Min(T)
  OBVIOUS
<1>7. m \in T /\ \A k \in T : m <= k
  <2>1. \E k \in T : \A y \in T : k <= y
    BY <1>5, LeastNumber
  <2> QED
    BY <1>6, <2>1 DEF Q!Min
<1>8. PICK ev \in EventTypes : ev = Q!typeToTrace(probe[x])
  BY DEF Q!typeToTrace, EventTypes
<1>9. /\ Q!handlePKTQUEUE(p, ev, m)
      /\ probe' = [probe EXCEPT ![x].i = m, ![x].extracted = TRUE]
  BY <1>1, <1>4, <1>6, <1>8 DEF Q!Extract, Q!Trace
<1>10. m \in Nat /\ m > e
  BY <1>5, <1>7
<1>11. /\ OneMore(p, m)
       /\ \A r \in 1..MaxPackets : r # p => SameLines(r)
       /\ lines' \in Traced /\ last' \in Nat \X Nat
       /\ last'[1] # 0 => last'[1] \in 1..MaxPackets /\ last'[2] \in 1..Len(lines'[last'[1]])
  BY <1>2, <1>3, <1>9, <1>10, HandledLines
<1>12. ProbeIs(x, p, m, TRUE)
  BY <1>1, <1>2, <1>9, <1>10, ProbeGoesOn DEF QueueTypes
<1>13. QueueTypes'
  BY <1>2, <1>11, <1>12 DEF QueueTypes, ProbeIs
<1>14. Monotone
  BY <1>2, <1>3 DEF Monotone, Q!Extractors
<1>15. Loop(p, m, TRUE)'
  BY <1>2, <1>3, <1>5, <1>7, <1>10, <1>11, <1>14, NextLine
<1>16. \A r \in 1..MaxPackets : r > Len(packets') => Len(lines'[r]) = 0
  BY <1>2, <1>3, <1>11 DEF SameLines, PktInv, ProbesInv
<1>17. \A r \in 1..Len(packets) : r # p => SameLines(r)
  BY <1>2, <1>3, <1>11, MeasureAssumption DEF QueueTypes
<1>18. Len(packets') = Len(packets) /\ p \in 1..Len(packets')
  BY <1>2, <1>3
<1> QED
  BY <1>1, <1>2, <1>12, <1>13, <1>14, <1>15, <1>16, <1>17, <1>18, ProbeStep

LEMMA PktLeave ==
  ASSUME PktInv, NEW x \in Q!Ctx, Q!Leave(x)
  PROVE  PktInv'
<1>1. PICK p, e, ex : p = probe[x].packet /\ e = probe[x].i /\ ex = probe[x].extracted
  OBVIOUS
<1>2. p # 0 /\ UNCHANGED <<pi_entries, packets>> /\ QueueTypes
  BY <1>1 DEF Q!Leave, PktInv
<1>3. /\ p \in 1..Len(packets) /\ p \in 1..MaxPackets /\ e \in Nat /\ ex \in BOOLEAN
      /\ Loop(p, e, ex) /\ Len(packets) \in Nat
  BY <1>1, <1>2, AtPacket
<1>4. \A k \in Q!Extractors(packets[p].queue) : ~(k > e)
  BY <1>1 DEF Q!Leave, Q!Later
<1>5. probe' = [probe EXCEPT ![x] = Q!NoProbe]
  BY DEF Q!Leave
<1>6. ProbeIs(x, 0, 0, FALSE)
  BY <1>2, <1>5, ProbeLeaves DEF QueueTypes
<1>7. Monotone
  BY <1>2, <1>3 DEF Monotone, Q!Extractors
<1>8. (ex => Whole(p)) /\ (~ex => packets[p].known = {} /\ Len(lines[p]) = 0)
  BY <1>2, <1>3, <1>4, LoopEnds
<1>9. /\ QueueTypes' /\ Whole(p)'
      /\ \A r \in 1..MaxPackets : r # p => SameLines(r)
  <2>1. CASE ex
    <3>1. UNCHANGED <<lines, last>>
      BY <1>1, <2>1 DEF Q!Leave
    <3>2. \A r \in 1..MaxPackets : SameLines(r)
      BY <3>1 DEF SameLines
    <3>3. QueueTypes'
      BY <1>2, <1>6, <3>1 DEF QueueTypes, ProbeIs
    <3> QED
      BY <1>2, <1>3, <1>7, <1>8, <2>1, <3>2, <3>3, SameKept
  <2>2. CASE ~ex
    <3>1. Q!handlePKTQUEUE(p, "PKTQUEUE", 0)
      BY <1>1, <2>2 DEF Q!Leave, Q!Trace
    <3>2. /\ OneMore(p, 0)
          /\ \A r \in 1..MaxPackets : r # p => SameLines(r)
          /\ lines' \in Traced /\ last' \in Nat \X Nat
          /\ last'[1] # 0 => last'[1] \in 1..MaxPackets /\ last'[2] \in 1..Len(lines'[last'[1]])
      BY <1>2, <1>3, <3>1, HandledLines DEF EventTypes
    <3>3. QueueTypes'
      BY <1>2, <1>6, <3>2 DEF QueueTypes, ProbeIs
    <3>4. packets'[p].known = {} /\ Len(lines[p]) = 0
      BY <1>2, <1>8, <2>2
    <3> QED
      BY <3>2, <3>3, <3>4, PlainLine
  <2> QED
    BY <1>3, <2>1, <2>2
<1>10. \A r \in 1..MaxPackets : r > Len(packets') => Len(lines'[r]) = 0
  BY <1>2, <1>3, <1>9 DEF SameLines, PktInv, ProbesInv
<1>11. \A r \in 1..Len(packets) : r # p => SameLines(r)
  BY <1>2, <1>3, <1>9, MeasureAssumption DEF QueueTypes
<1>12. Len(packets') = Len(packets) /\ p \in 1..Len(packets')
  BY <1>2, <1>3
<1> QED
  BY <1>1, <1>2, <1>6, <1>7, <1>9, <1>10, <1>11, <1>12, ProbeStep

LEMMA PktNext == PktInv /\ [Q!Next]_pktqueue => PktInv'
<1> SUFFICES ASSUME PktInv, Q!Next \/ UNCHANGED pktqueue
             PROVE  PktInv'
  OBVIOUS
<1> QED
  BY PktTable, PktNull, PktEnter, PktExtract, PktLeave DEF Q!Next

\* probe_sepext_pktqueue() gives a packet one line for each extractor of its
\* queue that was active when the probe began, in the table's order, whatever
\* interrupts it, on any number of CPUs, and although extractors are added
\* meanwhile; without an extractor the packet has its plain line.
THEOREM PacketsExtracted == MeasureSpec => []Extracted
<1>1. MeasureInit => PktInv
  BY PktInit DEF MeasureInit
<1>2. PktInv /\ [MeasureNext]_all_vars => PktInv'
  BY Stepwise, PktNext
<1>3. PktInv => Extracted
  BY ExtractedWhole DEF PktInv
<1> QED
  BY <1>1, <1>2, <1>3, PTL DEF MeasureSpec
-----------------------------------------------------------------------------
(* The mark of a packet's lines                                            *)

\* A probe that goes on with its lines finds its own line read last, or none of
\* a packet, since an interrupt's own line comes after the interrupt's packets;
\* or one of another CPU's packet, and then both are known to be mixed.
OwnLineLast ==
  \A x \in Q!Ctx :
    Q!Running(x) /\ probe[x].packet # 0 /\ probe[x].extracted =>
      \/ last[1] \in {0, probe[x].packet}
      \/ last[1] \in mixed /\ probe[x].packet \in mixed

\* Of the lines of a packet one carries the mark, while the probe runs too.
MarkAt(p, j) ==
  j \in 1..Len(lines[p]) /\ \A k \in 1..Len(lines[p]) : lines[p][k].ev = "PKTQUEUE" <=> k = j
Marked ==
  \A p \in 1..MaxPackets : p \notin mixed /\ Len(lines[p]) > 0 => \E j : MarkAt(p, j)

MarkInv == PktInv /\ OwnLineLast /\ Marked

LEMMA MarkInit == Q!Init => MarkInv
<1> SUFFICES ASSUME Q!Init
             PROVE  MarkInv
  OBVIOUS
<1>1. last[1] = 0 /\ \A p \in 1..MaxPackets : Len(lines[p]) = 0
  BY DEF Q!Init
<1> QED
  BY <1>1, PktInit DEF MarkInv, OwnLineLast, Marked

LEMMA MarkedStays == Marked /\ UNCHANGED <<lines, mixed>> => Marked'
<1> SUFFICES ASSUME Marked, UNCHANGED <<lines, mixed>>,
                    NEW p \in 1..MaxPackets, p \notin mixed', Len(lines'[p]) > 0
             PROVE  \E j : MarkAt(p, j)'
  BY DEF Marked
<1>1. PICK j : MarkAt(p, j)
  BY DEF Marked
<1>2. MarkAt(p, j)'
  BY <1>1 DEF MarkAt
<1> QED
  BY <1>2

LEMMA OneRuns ==
  ASSUME NEW x \in Q!Ctx, NEW y \in Q!Ctx, Q!Running(x), Q!Running(y), x[1] = y[1]
  PROVE  x = y
<1>1. PICK c \in CPUs, d \in {0, 1} : x = <<c, d>>
  BY DEF Q!Ctx
<1>2. PICK cc \in CPUs, dd \in {0, 1} : y = <<cc, dd>>
  BY DEF Q!Ctx
<1>3. c = cc
  BY <1>1, <1>2
<1>4. d = dd
  BY <1>1, <1>2, <1>3 DEF Q!Running
<1> QED
  BY <1>1, <1>2, <1>3, <1>4

\* handlePKTQUEUE() moves the mark of the group the line belongs to, or leaves
\* the lines of every packet as they are.
LEMMA MarksHandled ==
  ASSUME QueueTypes, Marked, NEW p \in 1..MaxPackets, NEW ev \in EventTypes, NEW e \in Nat,
         Q!handlePKTQUEUE(p, ev, e),
         \/ ev = "PKTQUEUE" /\ Len(lines[p]) = 0
         \/ /\ ev = "PKTQUEUEN" /\ Len(lines[p]) > 0
            /\ last[1] \in {0, p} \/ (last[1] \in mixed /\ p \in mixed),
         mixed \subseteq mixed'
  PROVE  Marked' /\ last'[1] = p
<1>1. /\ last' = <<p, Len(lines[p]) + 1>>
      /\ Len(lines'[p]) = Len(lines[p]) + 1
      /\ Q!Continues(ev) => lines'[p][Len(lines[p]) + 1].ev = "PKTQUEUE"
      /\ ~Q!Continues(ev) => lines'[p][Len(lines[p]) + 1].ev = ev
      /\ \A r \in 1..MaxPackets : r # p => Len(lines'[r]) = Len(lines[r])
      /\ \A r \in 1..MaxPackets : \A j \in 1..Len(lines[r]) :
           ~Q!Continues(ev) \/ r # last[1] \/ j # last[2] =>
             lines'[r][j].ev = lines[r][j].ev
      /\ Q!Continues(ev) => lines'[last[1]][last[2]].ev = "PKTQUEUEN"
  BY Handled
<1>2. PICK s, t, len : len \in Nat /\ len = Len(s) /\ s = lines[p] /\ t = lines'[p]
  <2>1. Len(lines[p]) \in Nat
    BY DEF QueueTypes, Traced
  <2> QED
    BY <2>1
<1>3. /\ Len(t) = len + 1
      /\ Q!Continues(ev) => t[len + 1].ev = "PKTQUEUE"
      /\ ~Q!Continues(ev) => t[len + 1].ev = ev
  BY <1>1, <1>2
<1>4. \A r \in 1..MaxPackets :
        r # p /\ r \notin mixed' /\ Len(lines'[r]) > 0 => \E j : MarkAt(r, j)'
  <2> SUFFICES ASSUME NEW r \in 1..MaxPackets, r # p, r \notin mixed', Len(lines'[r]) > 0
               PROVE  \E j : MarkAt(r, j)'
    OBVIOUS
  <2>1. PICK j : MarkAt(r, j)
    BY <1>1 DEF Marked
  <2>2. Q!Continues(ev) => last[1] # r
    BY DEF Q!Continues
  <2>3. Len(lines'[r]) = Len(lines[r])
        /\ \A k \in 1..Len(lines[r]) : lines'[r][k].ev = lines[r][k].ev
    BY <1>1, <2>2
  <2>4. MarkAt(r, j)'
    BY <2>1, <2>3 DEF MarkAt
  <2> QED
    BY <2>4
<1>5. ASSUME p \notin mixed'
      PROVE  \E j : MarkAt(p, j)'
  <2>1. CASE Q!Continues(ev)
    <3>1. /\ ev = "PKTQUEUEN" /\ last[1] = p /\ s[last[2]].ev = "PKTQUEUE" /\ len > 0
          /\ last[2] \in 1..len
      BY <1>2, <1>5, <2>1 DEF Q!Continues, QueueTypes
    <3>2. PICK j : MarkAt(p, j)
      BY <1>2, <1>5, <3>1 DEF Marked
    <3>3. j = last[2] /\ \A k \in 1..len : s[k].ev = "PKTQUEUE" <=> k = j
      BY <1>2, <3>1, <3>2 DEF MarkAt
    <3>4. \A k \in 1..len : t[k].ev # "PKTQUEUE"
      <4>1. t[j].ev = "PKTQUEUEN" /\ \A k \in 1..len : k # j => t[k].ev = s[k].ev
        BY <1>1, <1>2, <2>1, <3>1, <3>3
      <4> QED
        BY <3>3, <4>1
    <3>5. MarkAt(p, len + 1)'
      <4>1. t[len + 1].ev = "PKTQUEUE" /\ Len(t) = len + 1
        BY <1>3, <2>1
      <4>2. \A k \in 1..(len + 1) : (k \in 1..len /\ k # len + 1) \/ k = len + 1
        BY <1>2
      <4>3. \A k \in 1..(len + 1) : t[k].ev = "PKTQUEUE" <=> k = len + 1
        BY <3>4, <4>1, <4>2
      <4>4. len + 1 \in 1..(len + 1)
        BY <1>2
      <4> QED
        BY <1>2, <4>1, <4>3, <4>4 DEF MarkAt
    <3> QED
      BY <3>5
  <2>2. CASE ~Q!Continues(ev)
    <3>1. t[len + 1].ev = ev /\ \A k \in 1..len : t[k].ev = s[k].ev
      BY <1>1, <1>2, <1>3, <2>2
    <3>2. CASE ev = "PKTQUEUE" /\ len = 0
      <4>1. MarkAt(p, 1)'
        BY <1>2, <1>3, <3>1, <3>2 DEF MarkAt
      <4> QED
        BY <4>1
    <3>3. CASE ev = "PKTQUEUEN" /\ len > 0
      <4>1. PICK j : MarkAt(p, j)
        BY <1>2, <1>5, <3>3 DEF Marked
      <4>2. j \in 1..len /\ \A k \in 1..len : s[k].ev = "PKTQUEUE" <=> k = j
        BY <1>2, <4>1 DEF MarkAt
      <4>3. \A k \in 1..(len + 1) : t[k].ev = "PKTQUEUE" <=> k = j
        <5>1. t[len + 1].ev # "PKTQUEUE" /\ len + 1 # j
          BY <1>2, <3>1, <3>3, <4>2
        <5>2. \A k \in 1..len : t[k].ev = "PKTQUEUE" <=> k = j
          BY <3>1, <4>2
        <5>3. \A k \in 1..(len + 1) : k \in 1..len \/ k = len + 1
          BY <1>2
        <5> QED
          BY <5>1, <5>2, <5>3
      <4>4. j \in 1..(len + 1)
        BY <1>2, <4>2
      <4>5. MarkAt(p, j)'
        BY <1>2, <1>3, <4>3, <4>4 DEF MarkAt
      <4> QED
        BY <4>5
    <3> QED
      BY <1>2, <3>2, <3>3
  <2> QED
    BY <2>1, <2>2
<1> QED
  BY <1>1, <1>4, <1>5 DEF Marked

\* The other CPUs' packets that x writes a line amid.
Noticed(x, p) == mixed' = IF Q!Amid(x) = {} THEN mixed ELSE mixed \cup Q!Amid(x) \cup {p}

\* After a line of the packet p, traced by x or in a step of x that ends its probe.
LEMMA OwnLine ==
  ASSUME NEW x \in Q!Ctx, Q!Running(x), intr' = intr, NEW p, Noticed(x, p),
         last'[1] = p, probe'[x].packet # 0 => probe'[x].packet = p,
         \A y \in Q!Ctx : y # x => probe'[y] = probe[y]
  PROVE  OwnLineLast'
<1> SUFFICES ASSUME NEW y \in Q!Ctx, Q!Running(y)', probe'[y].packet # 0, probe'[y].extracted
             PROVE  \/ last'[1] \in {0, probe'[y].packet}
                    \/ last'[1] \in mixed' /\ probe'[y].packet \in mixed'
  BY DEF OwnLineLast
<1>1. CASE y = x
  BY <1>1
<1>2. CASE y # x
  <2>1. Q!Running(y) /\ probe'[y] = probe[y]
    BY <1>2 DEF Q!Running
  <2>2. y[1] # x[1]
    BY <1>2, <2>1, OneRuns
  <2>3. probe[y].packet \in Q!Amid(x)
    BY <2>1, <2>2 DEF Q!Amid
  <2> QED
    BY <2>1, <2>3 DEF Noticed
<1> QED
  BY <1>1, <1>2

LEMMA MarkNext == MarkInv /\ [Q!Next]_pktqueue => MarkInv'
<1> SUFFICES ASSUME MarkInv, Q!Next \/ UNCHANGED pktqueue
             PROVE  OwnLineLast' /\ Marked'
  BY PktNext DEF MarkInv
<1> USE DEF MarkInv
<1>1. PktInv /\ QueueTypes /\ QueueTypes'
  BY PktNext DEF PktInv
<1>2. CASE \/ \E q \in Queues : Q!add_pktextr(q)
           \/ \E c \in CPUs : Q!Interrupt(c) \/ Q!Resume(c)
           \/ UNCHANGED pktqueue
  <2>1. UNCHANGED <<probe, lines, mixed>>
    BY <1>2 DEF Q!add_pktextr, Q!Interrupt, Q!Resume, Q!OtherLine, pktqueue
  <2>2. UNCHANGED <<intr, last>> \/ last'[1] = 0
    <3>1. UNCHANGED <<intr, last>> \/ last' = <<0, 0>>
      BY <1>2 DEF Q!add_pktextr, Q!Interrupt, Q!Resume, Q!OtherLine, pktqueue
    <3> QED
      BY <3>1
  <2>3. OwnLineLast'
    BY <2>1, <2>2 DEF OwnLineLast, Q!Running
  <2> QED
    BY <2>1, <2>3, MarkedStays
<1>3. ASSUME NEW x \in Q!Ctx, NEW q \in Queues, Q!NullPacket(x, q)
      PROVE  OwnLineLast' /\ Marked'
  <2>1. PICK p : p = Len(packets) + 1
    OBVIOUS
  <2>2. /\ Len(packets) < MaxPackets /\ probe[x] = Q!NoProbe /\ Q!Running(x)
        /\ Q!handlePKTQUEUE(p, "PKTQUEUE", 0) /\ Noticed(x, p)
        /\ UNCHANGED <<intr, probe>>
    BY <1>3, <2>1 DEF Q!NullPacket, Q!Trace, Noticed
  <2>3. p \in 1..MaxPackets /\ Len(lines[p]) = 0
    BY <1>1, <2>1, <2>2, MeasureAssumption DEF QueueTypes, PktInv, ProbesInv
  <2>4. Marked' /\ last'[1] = p
    <3>1. mixed \subseteq mixed'
      BY <2>2 DEF Noticed
    <3> QED
      BY <1>1, <2>2, <2>3, <3>1, MarksHandled DEF EventTypes
  <2>5. probe'[x].packet = 0
    BY <2>2 DEF Q!NoProbe
  <2> QED
    BY <2>2, <2>4, <2>5, OwnLine
<1>4. ASSUME NEW x \in Q!Ctx, NEW q \in Queues, Q!Enter(x, q)
      PROVE  OwnLineLast' /\ Marked'
  <2>1. /\ Q!Running(x) /\ UNCHANGED <<intr, lines, last, mixed>>
        /\ probe' = [probe EXCEPT ![x] = [Q!NoProbe EXCEPT !.packet = Len(packets) + 1]]
    BY <1>4 DEF Q!Enter
  <2>2. probe'[x] = [Q!NoProbe EXCEPT !.packet = Len(packets) + 1]
    BY <1>1, <2>1 DEF QueueTypes
  <2>3. probe'[x].extracted = FALSE
    BY <2>2 DEF Q!NoProbe
  <2>4. OwnLineLast'
    <3>1. \A y \in Q!Ctx : y # x => probe'[y] = probe[y]
      BY <1>1, <2>1 DEF QueueTypes
    <3> QED
      BY <2>1, <2>3, <3>1 DEF OwnLineLast, Q!Running
  <2> QED
    BY <2>1, <2>4, MarkedStays
<1>5. ASSUME NEW x \in Q!Ctx, Q!Extract(x)
      PROVE  OwnLineLast' /\ Marked'
  <2>1. PICK p, ex, e : /\ p = probe[x].packet /\ ex = probe[x].extracted
                        /\ e = Q!Min(Q!Later(probe[x]))
    OBVIOUS
  <2>2. /\ Q!Running(x) /\ p # 0 /\ intr' = intr
        /\ Q!handlePKTQUEUE(p, IF ex THEN "PKTQUEUEN" ELSE "PKTQUEUE", e) /\ Noticed(x, p)
        /\ probe' = [probe EXCEPT ![x].i = e, ![x].extracted = TRUE]
    BY <1>5, <2>1 DEF Q!Extract, Q!typeToTrace, Q!Trace, Noticed
  <2>3. p \in 1..MaxPackets /\ ex \in BOOLEAN /\ (ex <=> Len(lines[p]) > 0)
    BY <1>1, <2>1, <2>2, AtPacket DEF Loop
  <2>4. Len(lines[p]) \in Nat
    BY <1>1, <2>3 DEF QueueTypes, Traced
  <2>5. e \in Nat
    <3>1. PICK T : T = Q!Later(probe[x])
      OBVIOUS
    <3>2. T # {} /\ T \subseteq Nat
      BY <1>5, <3>1 DEF Q!Extract, Q!Later, Q!Extractors
    <3>3. \E k \in T : \A y \in T : k <= y
      BY <3>2, LeastNumber
    <3> QED
      BY <2>1, <3>1, <3>2, <3>3 DEF Q!Min
  <2>6. Marked' /\ last'[1] = p
    <3>1. mixed \subseteq mixed'
      BY <2>2 DEF Noticed
    <3>2. CASE ex
      <4>1. last[1] \in {0, p} \/ (last[1] \in mixed /\ p \in mixed)
        BY <2>1, <2>2, <3>2 DEF OwnLineLast
      <4> QED
        BY <1>1, <2>2, <2>3, <2>5, <3>1, <3>2, <4>1, MarksHandled DEF EventTypes
    <3>3. CASE ~ex
      <4>1. Len(lines[p]) = 0
        BY <2>3, <2>4, <3>3
      <4> QED
        BY <1>1, <2>2, <2>3, <2>5, <3>1, <3>3, <4>1, MarksHandled DEF EventTypes
    <3> QED
      BY <3>2, <3>3
  <2>7. probe'[x].packet = p /\ \A y \in Q!Ctx : y # x => probe'[y] = probe[y]
    BY <1>1, <2>1, <2>2, <2>5, ProbeGoesOn DEF QueueTypes, ProbeIs
  <2> QED
    BY <2>2, <2>6, <2>7, OwnLine
<1>6. ASSUME NEW x \in Q!Ctx, Q!Leave(x)
      PROVE  OwnLineLast' /\ Marked'
  <2>1. PICK p, ex : p = probe[x].packet /\ ex = probe[x].extracted
    OBVIOUS
  <2>2. /\ Q!Running(x) /\ p # 0 /\ intr' = intr
        /\ probe' = [probe EXCEPT ![x] = Q!NoProbe]
    BY <1>6, <2>1 DEF Q!Leave
  <2>3. p \in 1..MaxPackets /\ ex \in BOOLEAN /\ (ex <=> Len(lines[p]) > 0)
    BY <1>1, <2>1, <2>2, AtPacket DEF Loop
  <2>4. Len(lines[p]) \in Nat
    BY <1>1, <2>3 DEF QueueTypes, Traced
  <2>5. probe'[x].packet = 0 /\ \A y \in Q!Ctx : y # x => probe'[y] = probe[y]
    BY <1>1, <2>2, ProbeLeaves DEF QueueTypes, ProbeIs
  <2>6. CASE ex
    <3>1. UNCHANGED <<lines, last, mixed>>
      BY <1>6, <2>1, <2>6 DEF Q!Leave
    <3>2. OwnLineLast'
      BY <2>2, <2>5, <3>1 DEF OwnLineLast, Q!Running
    <3> QED
      BY <3>1, <3>2, MarkedStays
  <2>7. CASE ~ex
    <3>1. Q!handlePKTQUEUE(p, "PKTQUEUE", 0) /\ Noticed(x, p)
      BY <1>6, <2>1, <2>7 DEF Q!Leave, Q!Trace, Noticed
    <3>2. Len(lines[p]) = 0 /\ mixed \subseteq mixed'
      BY <2>3, <2>4, <2>7, <3>1 DEF Noticed
    <3>3. Marked' /\ last'[1] = p
      BY <1>1, <2>3, <3>1, <3>2, MarksHandled DEF EventTypes
    <3> QED
      BY <2>2, <2>5, <3>1, <3>3, OwnLine
  <2> QED
    BY <2>3, <2>6, <2>7
<1> QED
  BY <1>2, <1>3, <1>4, <1>5, <1>6 DEF Q!Next

LEMMA OneMarked == MarkInv => OneMark
<1> SUFFICES ASSUME MarkInv, NEW p \in 1..Len(packets), Q!Done(p), p \notin mixed
             PROVE  Q!Cardinality(Q!Marks(p)) = 1
  BY DEF OneMark, Q!OneMark
<1>1. p \in 1..MaxPackets /\ Len(lines[p]) > 0
  BY PacketTypes DEF MarkInv, PktInv, WholeInv, Whole
<1>2. PICK j : MarkAt(p, j)
  BY <1>1 DEF MarkInv, Marked
<1>3. Q!Marks(p) = {j}
  BY <1>2 DEF MarkAt, Q!Marks
<1>4. Cardinality({j}) = 1
  BY FS_Singleton
<1>5. Q!Cardinality({j}) = Cardinality({j})
  BY DEF Q!Cardinality, Cardinality
<1> QED
  BY <1>3, <1>4, <1>5

\* The analyser leaves one mark per packet, on any number of CPUs: whenever
\* interrupts come between the lines of a packet, and whatever packets they
\* queue themselves, handlePKTQUEUE() never takes the mark of another group,
\* unless the lines of two CPUs' packets were read among each other.
THEOREM OneMarkPerPacket == MeasureSpec => []OneMark
<1>1. MeasureInit => MarkInv
  BY MarkInit DEF MeasureInit
<1>2. MarkInv /\ [MeasureNext]_all_vars => MarkInv'
  BY Stepwise, MarkNext
<1>3. MarkInv => OneMark
  BY OneMarked
<1> QED
  BY <1>1, <1>2, <1>3, PTL DEF MeasureSpec
-----------------------------------------------------------------------------
(* Running sums.  SumTo() of the durations and delayInd() of the events    *)
(* are both defined by recursion; what is proved about them is that they   *)
(* are the last value of any function that obeys the same equation.        *)

Running(g, w, k) == g[0] = 0 /\ \A j \in 1..k : g[j] = g[j - 1] + w[j]

\* Two running sums agree as far as what they sum does.
LEMMA RunningSame ==
  ASSUME NEW k \in Nat, NEW m \in 0..k, NEW g, NEW h, NEW w, NEW v,
         Running(g, w, k), Running(h, v, m), \A j \in 1..m : w[j] = v[j]
  PROVE  \A j \in 0..m : g[j] = h[j]
<1> DEFINE Bad == {j \in 0..m : g[j] # h[j]}
<1>1. SUFFICES ASSUME Bad # {}
               PROVE  FALSE
  OBVIOUS
<1>2. Bad \subseteq Nat
  OBVIOUS
<1>3. PICK j \in Bad : \A y \in Bad : j <= y
  BY <1>1, <1>2, LeastNumber
<1>4. j # 0
  BY DEF Running
<1>5. j \in 1..m /\ j \in 1..k /\ j - 1 \in 0..m
  BY <1>4
<1>6. g[j - 1] = h[j - 1]
  <2>1. j - 1 \notin Bad
    BY <1>3, <1>5
  <2> QED
    BY <1>5, <2>1
<1>7. g[j] = g[j - 1] + w[j] /\ h[j] = h[j - 1] + v[j] /\ w[j] = v[j]
  BY <1>5 DEF Running
<1>8. g[j] = h[j]
  BY <1>6, <1>7
<1> QED
  BY <1>8

\* g goes on with the term x.
Continued(g, v, k, x) ==
  \E h \in [0..(k + 1) -> Int] :
    /\ Running(h, v, k + 1)
    /\ \A j \in 0..k : h[j] = g[j]
    /\ h[k + 1] = g[k] + x

LEMMA RunningNext ==
  ASSUME NEW k \in Nat, NEW g, NEW w, NEW v, NEW x \in Int, g \in [0..k -> Int],
         Running(g, w, k), \A j \in 1..k : v[j] = w[j], v[k + 1] = x
  PROVE  Continued(g, v, k, x)
<1> DEFINE h == [j \in 0..(k + 1) |-> IF j <= k THEN g[j] ELSE g[k] + x]
<1>1. k \in 0..k /\ g[k] \in Int
  OBVIOUS
<1>2. \A j \in 0..k : h[j] = g[j]
  OBVIOUS
<1>3. h[k + 1] = g[k] + x
  OBVIOUS
<1>4. h \in [0..(k + 1) -> Int]
  BY <1>1
<1>5. ASSUME NEW j \in 1..(k + 1)
      PROVE  h[j] = h[j - 1] + v[j]
  <2>1. CASE j = k + 1
    BY <1>2, <1>3, <2>1
  <2>2. CASE j # k + 1
    <3>1. j \in 1..k /\ j - 1 \in 0..k /\ j \in 0..k
      BY <2>2
    <3> QED
      BY <1>2, <3>1 DEF Running
  <2> QED
    BY <2>1, <2>2
<1>6. h[0] = 0
  BY <1>2 DEF Running
<1> QED
  BY <1>2, <1>3, <1>4, <1>5, <1>6 DEF Running, Continued
-----------------------------------------------------------------------------
(* Signatures: the durations                                               *)

Lasting == [k : {"process", "peu"}, n : Nat]
Times(d) == [j \in 1..Len(d) |-> d[j].n]
IsTotal(x, d) == \E g \in [0..Len(d) -> Int] : Running(g, Times(d), Len(d)) /\ g[Len(d)] = x

LEMMA TotalEmpty == IsTotal(0, <<>>)
<1> DEFINE g == [j \in 0..0 |-> 0]
<1>1. g \in [0..Len(<<>>) -> Int] /\ g[Len(<<>>)] = 0
  OBVIOUS
<1>2. Running(g, Times(<<>>), Len(<<>>))
  BY DEF Running
<1> QED
  BY <1>1, <1>2 DEF IsTotal

LEMMA TotalAppend ==
  ASSUME NEW d \in Seq(Lasting), NEW e \in Lasting, NEW x \in Int, IsTotal(x, d)
  PROVE  IsTotal(x + e.n, Append(d, e))
<1> DEFINE k == Len(d)
           b == Append(d, e)
<1>1. PICK g \in [0..k -> Int] : Running(g, Times(d), k) /\ g[k] = x
  BY DEF IsTotal
<1>2. k \in Nat /\ Len(b) = k + 1 /\ b[k + 1] = e /\ \A j \in 1..k : b[j] = d[j]
  OBVIOUS
<1>3. e.n \in Int
  BY DEF Lasting
<1> HIDE DEF k, b
<1>4. Times(b)[k + 1] = e.n
  BY <1>2 DEF Times
<1>5. \A j \in 1..k : Times(b)[j] = Times(d)[j]
  BY <1>2 DEF Times, k
<1>6. PICK h \in [0..(k + 1) -> Int] : Running(h, Times(b), k + 1) /\ h[k + 1] = g[k] + e.n
  <2> DEFINE t == Times(b)
             w == Times(d)
  <2> HIDE DEF t, w
  <2>1. \A j \in 1..k : t[j] = w[j]
    BY <1>5 DEF t, w
  <2>2. t[k + 1] = e.n
    BY <1>4 DEF t
  <2>3. Running(g, w, k)
    BY <1>1 DEF w
  <2>4. PICK y \in Int : y = e.n
    BY <1>3
  <2>5. t[k + 1] = y
    BY <2>2, <2>4
  <2>6. k \in Nat /\ g \in [0..k -> Int]
    BY <1>1, <1>2
  <2>7. Continued(g, t, k, y)
    BY <2>1, <2>3, <2>5, <2>6, RunningNext
  <2> QED
    BY <2>4, <2>7 DEF t, Continued
<1>7. IsTotal(x + e.n, b)
  BY <1>1, <1>2, <1>6 DEF IsTotal
<1> QED
  BY <1>7 DEF b

\* The total is what SumTo() computes.
LEMMA TotalIs ==
  ASSUME NEW d \in Seq(Lasting), NEW x \in Int, IsTotal(x, d)
  PROVE  S!SumTo(d) = x
<1> DEFINE k == Len(d)
<1>1. PICK g \in [0..k -> Int] : Running(g, Times(d), k) /\ g[k] = x
  BY DEF IsTotal
<1>2. k \in Nat
  OBVIOUS
<1>3. \A j \in 1..k : Times(d)[j] = d[j].n
  BY DEF Times
<1>4. \A j \in 0..k : g[j] = IF j = 0 THEN 0 ELSE g[j - 1] + d[j].n
  <2>1. g[0] = 0 /\ \A j \in 1..k : g[j] = g[j - 1] + d[j].n
    BY <1>1, <1>3, Zenon DEF Running
  <2>2. \A j \in 0..k : j = 0 \/ (j \in 1..k /\ j # 0)
    BY <1>2
  <2> QED
    BY <2>1, <2>2, Zenon
<1>5. g = [j \in 0..Len(d) |-> IF j = 0 THEN 0 ELSE g[j - 1] + d[j].n]
  BY <1>1, <1>4
<1>6. PICK h : /\ h = [j \in 0..Len(d) |-> IF j = 0 THEN 0 ELSE h[j - 1] + d[j].n]
               /\ S!SumTo(d) = h[Len(d)]
  BY <1>5, Zenon DEF S!SumTo
<1>7. \A j \in 0..k : h[j] = IF j = 0 THEN 0 ELSE h[j - 1] + d[j].n
  BY <1>6
<1>8. Running(h, Times(d), k)
  BY <1>2, <1>3, <1>7 DEF Running
<1>9. \A j \in 0..k : h[j] = g[j]
  <2>1. k \in 0..k
    BY <1>2
  <2> QED
    BY <1>1, <1>2, <1>8, <2>1, RunningSame
<1> QED
  BY <1>1, <1>2, <1>6, <1>9

Wheres == {"before", "in", "call", "loop", "irq", "hirq", "out", "after"}

\* The time in the service and in the interrupts that hit it.
Spent == own + hit
Parts == own \in Int /\ hit \in Int

SignatureTypes ==
  /\ where \in Wheres
  /\ now \in Int /\ Spent \in Int /\ Parts /\ toDeduct \in Int
  /\ starti \in Int /\ startii \in Int /\ lastEvent \in Int
  /\ skipped \in BOOLEAN /\ didSleep \in BOOLEAN /\ stored \in BOOLEAN
  /\ Duration \in Seq(Lasting)

\* Where the clock of the next duration stands: it stops while the thread is
\* switched out or an interrupt's handler runs.  What is pending is the time
\* since the last event that is not deducted.
Clocked == where \in {"in", "irq", "hirq"} \/ (where = "out" /\ ~didSleep)
Clock == IF where = "hirq" THEN startii ELSE IF where = "out" THEN starti ELSE now
Pending == IF Clocked THEN (Clock - lastEvent) - toDeduct ELSE 0

\* What can be deducted where: nothing at an event, nothing from a sleep.
Deducted ==
  /\ where = "before" => Duration = <<>> /\ Spent = 0
  /\ where = "out" => /\ service \in {"service", "loop"} /\ previousEntry = "CTXSW"
                      /\ didSleep => toDeduct = 0
  /\ where = "hirq" => service = "handler"
  /\ where = "in" /\ previousEntry = "DOWN" /\ service # "handler" => toDeduct = 0
  /\ stored => where = "after"
  /\ Pending >= 0

\* A time x is within the service's own, and all of it if none was left out.
Within(x) ==
  /\ x <= Spent
  /\ ~skipped /\ (where = "after" => stored) => x = Spent

\* The durations and what is pending.
Accounted == \E t \in Int : IsTotal(t, Duration) /\ Within(t + Pending)

OwnTimeInv == SignatureTypes /\ Deducted /\ Accounted

LEMMA OwnTimeInit == S!Init => OwnTimeInv
<1> SUFFICES ASSUME S!Init
             PROVE  OwnTimeInv
  OBVIOUS
<1> USE DEF S!Init
<1>1. SignatureTypes
  <2>1. Duration \in Seq(Lasting)
    OBVIOUS
  <2>2. skipped \in BOOLEAN /\ didSleep \in BOOLEAN /\ stored \in BOOLEAN
    BY Zenon
  <2>3. Parts /\ Spent = 0
    BY DEF Parts, Spent
  <2> QED
    BY <2>1, <2>2, <2>3 DEF SignatureTypes, Wheres
<1>2. Pending = 0 /\ Clock = 0 /\ Spent = 0
  BY DEF Pending, Clocked, Clock, Spent
<1>3. Deducted
  BY <1>2 DEF Deducted
<1>4. Within(0 + Pending)
  BY <1>2 DEF Within
<1>5. Accounted
  BY <1>4, TotalEmpty DEF Accounted
<1> QED
  BY <1>1, <1>3, <1>5 DEF OwnTimeInv

LEMMA OwnTimeStutter == OwnTimeInv /\ UNCHANGED signatures => OwnTimeInv'
BY DEF OwnTimeInv, SignatureTypes, Deducted, Accounted, Within, Clock, Clocked, Pending, Spent,
       Parts, signatures

LEMMA OwnTimeExact == OwnTimeInv => OwnTimeCharged
<1> SUFFICES ASSUME OwnTimeInv
             PROVE  OwnTimeCharged
  OBVIOUS
<1>1. Duration \in Seq(Lasting) /\ Spent \in Int /\ Parts
  BY DEF OwnTimeInv, SignatureTypes
<1>2. \A i \in DOMAIN Duration : Duration[i].n >= 0
  <2>1. \A i \in DOMAIN Duration : Duration[i] \in Lasting
    BY <1>1
  <2> QED
    BY <2>1 DEF Lasting
<1>3. ASSUME stored
      PROVE  S!SumTo(Duration) <= Spent /\ (~skipped => S!SumTo(Duration) = Spent)
  <2>1. where = "after" /\ Pending = 0
    BY <1>3 DEF OwnTimeInv, Deducted, Pending, Clocked
  <2>2. PICK t \in Int : IsTotal(t, Duration) /\ Within(t + Pending)
    BY DEF OwnTimeInv, Accounted
  <2>3. S!SumTo(Duration) = t
    BY <1>1, <2>2, TotalIs
  <2>4. t + Pending = t
    BY <2>1
  <2> QED
    BY <1>3, <2>2, <2>3, <2>4 DEF Within
<1> QED
  BY <1>2, <1>3 DEF OwnTimeCharged, S!OwnTimeCharged, Spent

\* A step that writes no duration: what it adds to the own time it adds to
\* what is pending, or leaves out by design.
LEMMA NothingWritten ==
  ASSUME OwnTimeInv, SignatureTypes', Deducted', Duration' = Duration,
         \A t \in Int : Within(t + Pending) => Within(t + Pending)'
  PROVE  OwnTimeInv'
<1>1. PICK t \in Int : IsTotal(t, Duration) /\ Within(t + Pending)
  BY DEF OwnTimeInv, Accounted
<1>2. IsTotal(t, Duration')
  BY <1>1
<1>3. Within(t + Pending)'
  BY <1>1
<1> QED
  BY <1>2, <1>3 DEF OwnTimeInv, Accounted

\* What is written is not negative: it was pending, and time goes on.
LEMMA PendingWritten ==
  ASSUME OwnTimeInv, where = "in", now' \in Int, now' >= now
  PROVE  S!Process \in Lasting
<1>1. now \in Int /\ lastEvent \in Int /\ toDeduct \in Int
  BY DEF OwnTimeInv, SignatureTypes
<1>2. Pending = (now - lastEvent) - toDeduct
  <2>1. Clocked /\ Clock = now
    BY DEF Clocked, Clock
  <2> QED
    BY <2>1 DEF Pending
<1>3. (now - lastEvent) - toDeduct >= 0
  BY <1>2 DEF OwnTimeInv, Deducted
<1>4. (now' - lastEvent) - toDeduct \in Nat
  <2>1. PICK a \in Int, b \in Int, l \in Int, d \in Int :
               a = now /\ b = now' /\ l = lastEvent /\ d = toDeduct
    BY <1>1
  <2>2. (a - l) - d >= 0 /\ b >= a
    BY <1>3, <2>1
  <2>3. (b - l) - d \in Nat
    BY <2>2
  <2> QED
    BY <2>1, <2>3
<1> QED
  BY <1>4 DEF S!Process, Lasting

\* A step that writes the time since the last event, from inside the service.
LEMMA ProcessWritten ==
  ASSUME OwnTimeInv, SignatureTypes', Deducted', where = "in", Pending' = 0,
         \/ Duration' = Append(Duration, S!Process)
         \/ Duration' = Append(Append(Duration, S!Process), S!Peu),
         now' - now = Spent' - Spent, now' >= now, skipped' = skipped,
         ~ (where' = "after" /\ ~ stored')
  PROVE  OwnTimeInv'
<1>1. PICK t \in Int : IsTotal(t, Duration) /\ Within(t + Pending)
  BY DEF OwnTimeInv, Accounted
<1>2. /\ now \in Int /\ now' \in Int /\ Spent \in Int /\ Parts /\ Spent' \in Int /\ Parts'
      /\ lastEvent \in Int /\ toDeduct \in Int /\ Duration \in Seq(Lasting)
  BY DEF OwnTimeInv, SignatureTypes
<1>3. Pending = (now - lastEvent) - toDeduct
  <2>1. Clocked /\ Clock = now
    BY DEF Clocked, Clock
  <2> QED
    BY <2>1 DEF Pending
<1>4. PICK x \in Int : x = (now' - lastEvent) - toDeduct
  <2>1. (now' - lastEvent) - toDeduct \in Int
    BY <1>2
  <2> QED
    BY <2>1
<1>5. S!Process.n = x
  BY <1>4 DEF S!Process
<1>6. S!Process \in Lasting
  BY <1>2, PendingWritten
<1>7. IsTotal(t + x, Duration')
  <2>1. IsTotal(t + S!Process.n, Append(Duration, S!Process))
    BY <1>1, <1>2, <1>6, TotalAppend
  <2>2. IsTotal(t + x, Append(Duration, S!Process)) /\ Append(Duration, S!Process) \in Seq(Lasting)
    BY <1>2, <1>5, <1>6, <2>1
  <2>3. t + x \in Int /\ S!Peu \in Lasting /\ S!Peu.n = 0
    BY <1>1, <1>4 DEF S!Peu, Lasting
  <2>4. IsTotal((t + x) + S!Peu.n, Append(Append(Duration, S!Process), S!Peu))
    BY <2>2, <2>3, TotalAppend
  <2>5. (t + x) + S!Peu.n = t + x
    BY <2>3
  <2> QED
    BY <2>2, <2>4, <2>5
<1>8. (t + x) + Pending' = t + x
  BY <1>1, <1>4
<1>9. Within(t + x)'
  <2>1. t + Pending <= Spent /\ (~ skipped => t + Pending = Spent)
    BY <1>1 DEF Within, OwnTimeInv, SignatureTypes
  <2>2. PICK p \in Int, a \in Int, b \in Int :
               p = Pending /\ a = Spent /\ b = Spent' /\ x - p = b - a
    <3>1. Pending \in Int
      BY <1>2, <1>3
    <3>2. x - Pending = Spent' - Spent
      BY <1>2, <1>3, <1>4
    <3> QED
      BY <1>2, <3>1, <3>2
  <2>3. x - p = b - a
    BY <2>2
  <2>4. t + p <= a => t + x <= b
    BY <2>3
  <2>5. t + p = a => t + x = b
    BY <2>3
  <2> QED
    BY <2>1, <2>2, <2>4, <2>5, Zenon DEF Within
<1>10. Within((t + x) + Pending)'
  BY <1>8, <1>9
<1> QED
  BY <1>1, <1>4, <1>7, <1>10 DEF OwnTimeInv, Accounted

LEMMA Written ==
  ASSUME NEW d \in Seq(Lasting), NEW e \in Lasting, NEW f \in Lasting
  PROVE  /\ d \o <<>> = d
         /\ d \o <<e>> = Append(d, e)
         /\ d \o <<e, f>> = Append(Append(d, e), f)
         /\ Append(d, e) \in Seq(Lasting)
         /\ Append(Append(d, e), f) \in Seq(Lasting)
OBVIOUS

LEMMA Passing ==
  ASSUME SignatureTypes, NEW what \in {"own", "irq", "other"}, S!Pass(what)
  PROVE  /\ \E d \in Nat : now' = now + d /\ Spent' = IF what = "other" THEN Spent ELSE Spent + d
         /\ now' \in Int /\ Spent' \in Int /\ Parts' /\ now' >= now
         /\ service' = service
<1>1. now \in Int /\ own \in Int /\ hit \in Int
  BY DEF SignatureTypes, Parts
<1>2. PICK d \in Steps : /\ now' = now + d
                         /\ own' = IF what = "own" THEN own + d ELSE own
                         /\ hit' = IF what = "irq" THEN hit + d ELSE hit
  BY DEF S!Pass
<1>3. d \in Nat
  BY MeasureAssumption
<1>4. Spent' = IF what = "other" THEN Spent ELSE Spent + d
  BY <1>1, <1>2, <1>3 DEF Spent
<1>5. own' \in Int /\ hit' \in Int
  BY <1>1, <1>2, <1>3
<1> QED
  BY <1>1, <1>2, <1>3, <1>4, <1>5 DEF S!Pass, Spent, Parts

\* A step that writes a duration and restarts the clock, or leaves the service.
LEMMA WrittenStep ==
  ASSUME OwnTimeInv, where = "in", S!Pass("own"),
         where' \in {"in", "call", "loop", "out", "after"},
         \/ Duration' = Duration \o <<S!Process>>
         \/ Duration' = Duration \o S!PeuDurations
         \/ Duration' = Append(Duration, S!Process),
         toDeduct' = 0, lastEvent' = now' \/ (lastEvent' = lastEvent /\ where' # "in"),
         UNCHANGED <<skipped, didSleep, starti, startii>>,
         stored' \in BOOLEAN, stored' <=> where' = "after",
         where' = "out" => didSleep /\ service \in {"service", "loop"} /\ previousEntry' = "CTXSW"
  PROVE  OwnTimeInv'
<1>1. SignatureTypes /\ Deducted
  BY DEF OwnTimeInv
<1>2. now' \in Int /\ Spent' \in Int /\ Parts' /\ now' >= now /\ service' = service
  BY <1>1, Passing
<1>3. S!Process \in Lasting
  BY <1>2, PendingWritten
<1>4. S!Peu \in Lasting
  BY DEF S!Peu, Lasting
<1>5. Duration \in Seq(Lasting)
  BY <1>1 DEF SignatureTypes
<1>6. /\ \/ Duration' = Append(Duration, S!Process)
         \/ Duration' = Append(Append(Duration, S!Process), S!Peu)
      /\ Duration' \in Seq(Lasting)
  <2>1. /\ Duration \o <<S!Process>> = Append(Duration, S!Process)
        /\ Duration \o <<S!Process, S!Peu>> = Append(Append(Duration, S!Process), S!Peu)
        /\ Append(Duration, S!Process) \in Seq(Lasting)
        /\ Append(Append(Duration, S!Process), S!Peu) \in Seq(Lasting)
    BY <1>3, <1>4, <1>5, Written
  <2> QED
    BY <2>1, Zenon DEF S!PeuDurations
<1>7. SignatureTypes'
  <2>1. skipped' \in BOOLEAN /\ didSleep' \in BOOLEAN /\ stored' \in BOOLEAN
    BY <1>1, Zenon DEF SignatureTypes
  <2>2. /\ starti' \in Int /\ startii' \in Int /\ lastEvent' \in Int /\ toDeduct' \in Int
        /\ where' \in Wheres
    BY <1>1, <1>2 DEF SignatureTypes, Wheres
  <2> QED
    BY <1>2, <1>6, <2>1, <2>2 DEF SignatureTypes
<1>8. Pending' = 0
  <2>1. CASE where' = "in"
    <3>1. Clock' = now' /\ lastEvent' = now'
      BY <2>1 DEF Clock
    <3>2. PICK a \in Int : a = now' /\ (a - a) - 0 = 0
      BY <1>2
    <3>3. (Clock' - lastEvent') - toDeduct' = 0
      BY <3>1, <3>2
    <3> QED
      BY <3>3, Zenon DEF Pending
  <2>2. CASE where' = "out"
    BY <1>2, <2>2 DEF Clock, Pending, Clocked
  <2>3. CASE where' \in {"call", "loop", "after"}
    BY <1>2, <2>3 DEF Clock, Pending, Clocked
  <2> QED
    BY <2>1, <2>2, <2>3
<1>9. Deducted'
  BY <1>2, <1>8 DEF Deducted
<1>10. now' - now = Spent' - Spent
  <2>1. PICK d \in Nat : now' = now + d /\ Spent' = Spent + d
    BY <1>1, Passing
  <2> QED
    BY <1>1, <2>1 DEF SignatureTypes
<1> QED
  BY <1>2, <1>6, <1>7, <1>8, <1>9, <1>10, ProcessWritten

LEMMA PointCharged ==
  ASSUME OwnTimeInv, NEW ev, NEW to \in {"in", "call", "loop"}, S!Point(ev, to)
  PROVE  OwnTimeInv'
<1> USE DEF S!Point, S!Move, S!Emit, S!Restarted, S!KeepClock
<1>1. (stored => where = "after") /\ stored \in BOOLEAN
  BY DEF OwnTimeInv, Deducted, SignatureTypes
<1>2. where = "in" /\ where' \in {"in", "call", "loop"} /\ S!Pass("own")
  OBVIOUS
<1>3. Duration' = Duration \o <<S!Process>> /\ toDeduct' = 0 /\ lastEvent' = now'
  OBVIOUS
<1>4. UNCHANGED <<skipped, didSleep, starti, startii>> /\ stored' = stored
  OBVIOUS
<1> QED
  BY <1>1, <1>2, <1>3, <1>4, WrittenStep

LEMMA PeuStartCharged == OwnTimeInv /\ S!PeuStart => OwnTimeInv'
<1> SUFFICES ASSUME OwnTimeInv, S!PeuStart
             PROVE  OwnTimeInv'
  OBVIOUS
<1> USE DEF S!PeuStart, S!Move, S!Emit, S!Restarted, S!KeepClock
<1>1. (stored => where = "after") /\ stored \in BOOLEAN
  BY DEF OwnTimeInv, Deducted, SignatureTypes
<1>2. where = "in" /\ where' = "in" /\ S!Pass("own")
  OBVIOUS
<1>3. Duration' = Duration \o S!PeuDurations /\ toDeduct' = 0 /\ lastEvent' = now'
  OBVIOUS
<1>4. UNCHANGED <<skipped, didSleep, starti, startii>> /\ stored' = stored
  OBVIOUS
<1> QED
  BY <1>1, <1>2, <1>3, <1>4, WrittenStep

LEMMA CallCharged == OwnTimeInv /\ S!Call => OwnTimeInv'
<1> SUFFICES ASSUME OwnTimeInv, S!Call
             PROVE  OwnTimeInv'
  OBVIOUS
<1> USE DEF S!Call, S!Move, S!Emit, S!KeepClock
<1>1. (stored => where = "after") /\ stored \in BOOLEAN
  BY DEF OwnTimeInv, Deducted, SignatureTypes
<1>2. where = "in" /\ where' = "call" /\ S!Pass("own")
  OBVIOUS
<1>3. Duration' = Duration \o <<S!Process>> /\ toDeduct' = 0 /\ lastEvent' = lastEvent
  OBVIOUS
<1>4. UNCHANGED <<skipped, didSleep, starti, startii>> /\ stored' = stored
  OBVIOUS
<1> QED
  BY <1>1, <1>2, <1>3, <1>4, WrittenStep

\* A step that writes nothing, changes no clock but time's and stays inside.
LEMMA Ticks ==
  ASSUME OwnTimeInv, where \in {"in", "irq"}, where' \in {"in", "irq", "hirq", "out"},
         NEW what \in {"own", "irq"}, S!Pass(what),
         UNCHANGED <<toDeduct, lastEvent, skipped, Duration, stored>>,
         didSleep' \in BOOLEAN, starti' \in Int, startii' \in Int, Clock' = now',
         where' = "out" => ~ didSleep' /\ service \in {"service", "loop"} /\ previousEntry' = "CTXSW",
         where' = "hirq" => service = "handler",
         where' = "in" /\ previousEntry' = "DOWN" /\ service # "handler" => toDeduct = 0
  PROVE  OwnTimeInv'
<1>1. SignatureTypes /\ Deducted
  BY DEF OwnTimeInv
<1>2. now' \in Int /\ Spent' \in Int /\ Parts' /\ now' >= now /\ service' = service
  BY <1>1, Passing
<1>3. SignatureTypes'
  <2>1. skipped' \in BOOLEAN /\ didSleep' \in BOOLEAN /\ stored' \in BOOLEAN
    BY <1>1, Zenon DEF SignatureTypes
  <2> QED
    BY <1>1, <1>2, <2>1 DEF SignatureTypes, Wheres
<1>4. PICK a \in Int, b \in Int, l \in Int, d \in Int, o \in Int, q \in Int :
             /\ a = now /\ b = now' /\ l = lastEvent /\ d = toDeduct
             /\ o = Spent /\ q = Spent'
  BY <1>1, <1>2 DEF SignatureTypes
<1>5. b >= a /\ b - a = q - o
  <2>1. PICK s \in Nat : now' = now + s /\ Spent' = Spent + s
    BY <1>1, Passing
  <2>2. b = a + s /\ q = o + s
    BY <1>4, <2>1
  <2> QED
    BY <2>2
<1>6. Pending = (a - l) - d
  <2>1. Clocked /\ Clock = now
    BY DEF Clocked, Clock
  <2> QED
    BY <1>4, <2>1 DEF Pending
<1>7. Pending' = (b - l) - d
  <2>1. Clocked'
    BY DEF Clocked
  <2> QED
    BY <1>4, <2>1 DEF Pending
<1>8. (b - l) - d >= 0
  <2>1. (a - l) - d >= 0
    BY <1>1, <1>6 DEF Deducted
  <2> QED
    BY <1>5, <2>1
<1>9. Deducted'
  BY <1>1, <1>2, <1>7, <1>8 DEF Deducted
<1>10. ASSUME NEW t \in Int, Within(t + Pending)
       PROVE  Within(t + Pending)'
  <2>1. t + Pending <= Spent /\ (~ skipped => t + Pending = Spent)
    BY <1>10 DEF Within
  <2>2. t + ((a - l) - d) <= o => t + ((b - l) - d) <= q
    BY <1>5
  <2>3. t + ((a - l) - d) = o => t + ((b - l) - d) = q
    BY <1>5
  <2>4. t + Pending = t + ((a - l) - d) /\ t + Pending' = t + ((b - l) - d)
    BY <1>6, <1>7
  <2> QED
    BY <1>4, <2>1, <2>2, <2>3, <2>4, Zenon DEF Within
<1> QED
  BY <1>3, <1>9, <1>10, NothingWritten

LEMMA WakeupCharged == OwnTimeInv /\ S!Wakeup => OwnTimeInv'
<1> SUFFICES ASSUME OwnTimeInv, S!Wakeup
             PROVE  OwnTimeInv'
  OBVIOUS
<1> USE DEF S!Wakeup, S!Move, S!KeepClock, S!Previous
<1>1. (stored => where = "after") /\ stored \in BOOLEAN /\ SignatureTypes
  BY DEF OwnTimeInv, Deducted, SignatureTypes
<1>2. /\ where = "in" /\ where' = "in" /\ S!Pass("own") /\ previousEntry' = "TTWAKEUP"
      /\ UNCHANGED <<skipped, didSleep, starti, startii>>
  OBVIOUS
<1>3. CASE previousEntry = "UP"
  <2>1. UNCHANGED <<toDeduct, lastEvent, skipped, Duration, stored>>
    BY <1>3 DEF S!signature
  <2>2. didSleep' \in BOOLEAN /\ starti' \in Int /\ startii' \in Int
    BY <1>1, <1>2, Zenon DEF SignatureTypes
  <2>3. Clock' = now'
    BY <1>2 DEF Clock
  <2> QED
    BY <1>2, <2>1, <2>2, <2>3, Ticks
<1>4. CASE previousEntry # "UP"
  <2>1. Duration' = Duration \o <<S!Process>> /\ toDeduct' = 0 /\ lastEvent' = now' /\ stored' = stored
    BY <1>4 DEF S!Emit, S!Restarted
  <2> QED
    BY <1>1, <1>2, <2>1, WrittenStep
<1> QED
  BY <1>3, <1>4

LEMMA InterruptCharged ==
  OwnTimeInv /\ (S!Interrupt \/ S!InterruptReturn \/ S!HirqEntry \/ S!Sleep) => OwnTimeInv'
<1> SUFFICES ASSUME OwnTimeInv, S!Interrupt \/ S!InterruptReturn \/ S!HirqEntry \/ S!Sleep
             PROVE  OwnTimeInv'
  OBVIOUS
<1> USE DEF S!Interrupt, S!InterruptReturn, S!HirqEntry, S!Sleep, S!Move, S!signature, S!Previous
<1>1. SignatureTypes /\ Deducted
  BY DEF OwnTimeInv
<1>2. /\ where \in {"in", "irq"} /\ where' \in {"in", "irq", "hirq"} /\ (S!Pass("own") \/ S!Pass("irq"))
      /\ UNCHANGED <<toDeduct, lastEvent, skipped, Duration, stored>>
      /\ where' = "hirq" => service = "handler" /\ startii' = now'
  OBVIOUS
<1>3. now' \in Int
  BY <1>1, <1>2, Passing
<1>4. didSleep' \in BOOLEAN /\ starti' \in Int /\ startii' \in Int
  <2>1. /\ didSleep' = didSleep \/ didSleep' = TRUE
        /\ starti' = starti \/ starti' = now'
        /\ startii' = startii \/ startii' = now'
    OBVIOUS
  <2> QED
    BY <1>1, <1>3, <2>1, Zenon DEF SignatureTypes
<1>5. Clock' = now'
  BY <1>2 DEF Clock
<1>6. where' = "in" /\ previousEntry' = "DOWN" /\ service # "handler" => toDeduct = 0
  BY <1>1 DEF Deducted
<1> QED
  BY <1>2, <1>4, <1>5, <1>6, Ticks

LEMMA SwitchOutCharged == OwnTimeInv /\ S!SwitchOut => OwnTimeInv'
<1> SUFFICES ASSUME OwnTimeInv, S!SwitchOut
             PROVE  OwnTimeInv'
  OBVIOUS
<1> USE DEF S!SwitchOut, S!Move, S!Previous
<1>1. SignatureTypes /\ Deducted
  BY DEF OwnTimeInv
<1>2. /\ where = "in" /\ where' = "out" /\ S!Pass("own")
      /\ service \in {"service", "loop"} /\ previousEntry' = "CTXSW"
      /\ UNCHANGED <<startii, lastEvent, didSleep>>
  OBVIOUS
<1>3. now' \in Int /\ service' = service
  BY <1>1, <1>2, Passing
<1>4. CASE didSleep /\ previousEntry # "DOWN"
  <2>1. /\ Duration' = Duration \o <<S!Process>> /\ toDeduct' = 0 /\ stored' = stored
        /\ UNCHANGED <<starti, skipped>>
    BY <1>4 DEF S!Emit
  <2>2. (stored => where = "after") /\ stored \in BOOLEAN
    BY <1>1 DEF Deducted, SignatureTypes
  <2> QED
    BY <1>2, <1>4, <2>1, <2>2, WrittenStep
<1>5. CASE ~ (didSleep /\ previousEntry # "DOWN")
  <2>1. /\ starti' = now' /\ skipped' = (skipped \/ didSleep)
        /\ UNCHANGED <<toDeduct, Duration, stored>>
    BY <1>5 DEF S!signature
  <2>2. CASE ~ didSleep
    <3>1. skipped' = skipped /\ ~ didSleep'
      <4>1. skipped \in BOOLEAN
        BY <1>1 DEF SignatureTypes
      <4>2. (skipped \/ didSleep) <=> skipped
        BY <2>2
      <4> QED
        BY <1>2, <2>1, <2>2, <4>1, <4>2
    <3>2. didSleep' \in BOOLEAN /\ startii' \in Int
      BY <1>1, <1>2, Zenon DEF SignatureTypes
    <3>3. Clock' = now'
      BY <1>2, <2>1 DEF Clock
    <3> QED
      BY <1>2, <1>3, <2>1, <3>1, <3>2, <3>3, Ticks
  <2>3. CASE didSleep
    <3>1. toDeduct = 0
      BY <1>1, <1>2, <1>5, <2>3 DEF Deducted
    <3>2. skipped' = TRUE /\ didSleep' = TRUE
      BY <1>1, <1>2, <2>1, <2>3, Zenon DEF SignatureTypes
    <3>3. SignatureTypes'
      <4>1. skipped' \in BOOLEAN /\ didSleep' \in BOOLEAN /\ stored' \in BOOLEAN
        BY <1>1, <2>1, <3>2, Zenon DEF SignatureTypes
      <4>2. Spent' \in Int /\ Parts'
        BY <1>1, <1>2, Passing
      <4> QED
        BY <1>1, <1>2, <1>3, <2>1, <4>1, <4>2 DEF SignatureTypes, Wheres
    <3>4. Pending' = 0
      BY <1>2, <3>2 DEF Pending, Clocked
    <3>5. Deducted'
      BY <1>1, <1>2, <1>3, <2>1, <3>1, <3>4 DEF Deducted
    <3>6. Pending \in Int /\ Pending >= 0
      <4>1. Clocked /\ Clock = now
        BY <1>2 DEF Clocked, Clock
      <4>2. Pending = (now - lastEvent) - toDeduct
        BY <4>1 DEF Pending
      <4>3. (now - lastEvent) - toDeduct \in Int
        BY <1>1 DEF SignatureTypes
      <4> QED
        BY <1>1, <4>2, <4>3 DEF Deducted
    <3>7. PICK p \in Int, o \in Int, q \in Int : p = Pending /\ o = Spent /\ q = Spent' /\ p >= 0 /\ o <= q
      <4>1. Spent \in Int /\ Parts /\ Spent' \in Int /\ Parts'
        BY <1>1, <3>3 DEF SignatureTypes
      <4>2. PICK s \in Nat : Spent' = Spent + s
        BY <1>1, <1>2, Passing
      <4>3. Spent <= Spent'
        BY <4>1, <4>2
      <4> QED
        BY <3>6, <4>1, <4>3
    <3>8. ASSUME NEW t \in Int, Within(t + Pending)
          PROVE  Within(t + Pending)'
      <4>1. t + p <= o
        BY <3>7, <3>8 DEF Within
      <4>2. t + 0 <= q
        BY <3>7, <4>1
      <4> QED
        BY <3>2, <3>4, <3>7, <4>2, Zenon DEF Within
    <3> QED
      BY <2>1, <3>3, <3>5, <3>8, NothingWritten
  <2> QED
    BY <2>2, <2>3
<1> QED
  BY <1>4, <1>5

\* The clock goes on from where it stood.
LEMMA SwitchInCharged == OwnTimeInv /\ (S!SwitchIn \/ S!HirqExit) => OwnTimeInv'
<1> SUFFICES ASSUME OwnTimeInv, S!SwitchIn \/ S!HirqExit
             PROVE  OwnTimeInv'
  OBVIOUS
<1> USE DEF S!SwitchIn, S!HirqExit, S!Move, S!Previous, S!Preempted, S!signature
<1>1. SignatureTypes /\ Deducted
  BY DEF OwnTimeInv
<1>2. /\ where \in {"out", "hirq"} /\ where' = "in" /\ S!Pass("other")
      /\ UNCHANGED <<skipped, starti, startii, Duration, stored>>
      /\ where = "out" => didSleep' = FALSE
      /\ where = "hirq" => didSleep' = didSleep
  OBVIOUS
<1>3. now' \in Int /\ service' = service /\ Spent' = Spent /\ Parts'
  BY <1>1, <1>2, Passing
<1>4. ASSUME toDeduct' \in Int, lastEvent' \in Int, Pending' = Pending,
             previousEntry' = "DOWN" /\ service # "handler" => toDeduct' = 0
      PROVE  OwnTimeInv'
  <2>1. SignatureTypes'
    <3>1. skipped' \in BOOLEAN /\ didSleep' \in BOOLEAN /\ stored' \in BOOLEAN
      BY <1>1, <1>2, Zenon DEF SignatureTypes
    <3> QED
      BY <1>1, <1>2, <1>3, <1>4, <3>1 DEF SignatureTypes, Wheres
  <2>2. Deducted'
    BY <1>1, <1>2, <1>3, <1>4 DEF Deducted
  <2>3. ASSUME NEW t \in Int, Within(t + Pending)
        PROVE  Within(t + Pending)'
    BY <1>2, <1>3, <1>4, <2>3 DEF Within
  <2> QED
    BY <1>2, <2>1, <2>2, <2>3, NothingWritten
<1>5. Pending' = (now' - lastEvent') - toDeduct'
  <2>1. Clocked' /\ Clock' = now'
    BY <1>2 DEF Clocked, Clock
  <2> QED
    BY <2>1, Zenon DEF Pending
<1>6. CASE where = "out" /\ didSleep
  <2>1. toDeduct = 0 /\ toDeduct' = toDeduct /\ lastEvent' = now' /\ previousEntry' = "CTXSW"
    BY <1>1, <1>6 DEF Deducted
  <2>2. Pending = 0
    BY <1>6 DEF Pending, Clocked
  <2>3. PICK a \in Int : a = now' /\ (a - a) - 0 = 0
    BY <1>3
  <2>4. Pending' = 0
    BY <1>5, <2>1, <2>3
  <2> QED
    BY <1>3, <1>4, <2>1, <2>2, <2>4
<1>7. CASE ~ (where = "out" /\ didSleep)
  <2>1. PICK a \in Int, l \in Int, d \in Int, c \in Int :
               a = now' /\ l = lastEvent /\ d = toDeduct /\ c = Clock
    BY <1>1, <1>3 DEF SignatureTypes, Clock
  <2>2. lastEvent' = l /\ toDeduct' = d + (a - c) /\ previousEntry' = previousEntry
    BY <1>2, <1>7, <2>1 DEF Clock
  <2>3. Pending = (c - l) - d
    <3>1. Clocked
      BY <1>2, <1>7 DEF Clocked
    <3> QED
      BY <2>1, <3>1 DEF Pending
  <2>4. (a - l) - (d + (a - c)) = (c - l) - d /\ d + (a - c) \in Int
    OBVIOUS
  <2>5. Pending' = Pending
    BY <1>5, <2>1, <2>2, <2>3, <2>4
  <2>6. ~ (previousEntry = "DOWN" /\ service # "handler")
    BY <1>1, <1>2 DEF Deducted
  <2> QED
    BY <1>4, <2>1, <2>2, <2>4, <2>5, <2>6
<1> QED
  BY <1>6, <1>7

\* The service starts, or goes on after a call or a loop: nothing is pending.
LEMMA ResumeCharged ==
  OwnTimeInv /\ (S!Start \/ S!Resume("loop") \/ S!Resume("call")) => OwnTimeInv'
<1> SUFFICES ASSUME OwnTimeInv, S!Start \/ S!Resume("loop") \/ S!Resume("call")
             PROVE  OwnTimeInv'
  OBVIOUS
<1>1. SignatureTypes /\ Deducted
  BY DEF OwnTimeInv
<1>2. /\ where \in {"before", "loop", "call"} /\ where' = "in" /\ S!Pass("other")
      /\ UNCHANGED <<skipped, didSleep, starti, startii, stored>>
      /\ toDeduct' = 0 /\ lastEvent' = now'
  BY DEF S!Start, S!Resume, S!Move, S!Restarted, S!KeepClock, S!Emit, S!signature
<1>3. Duration' = Duration
  <2>1. CASE S!Start
    <3>1. Duration' = Duration \o <<>> /\ Duration \in Seq(Lasting)
      BY <1>1, <2>1 DEF S!Start, S!Emit, SignatureTypes
    <3> QED
      BY <3>1
  <2>2. CASE S!Resume("loop") \/ S!Resume("call")
    BY <2>2 DEF S!Resume, S!signature
  <2> QED
    BY <2>1, <2>2
<1>4. now' \in Int /\ service' = service /\ Spent' = Spent /\ Parts'
  BY <1>1, <1>2, Passing
<1>5. SignatureTypes'
  <2>1. skipped' \in BOOLEAN /\ didSleep' \in BOOLEAN /\ stored' \in BOOLEAN
    BY <1>1, <1>2, Zenon DEF SignatureTypes
  <2> QED
    BY <1>1, <1>2, <1>3, <1>4, <2>1 DEF SignatureTypes, Wheres
<1>6. Pending = 0
  BY <1>2 DEF Pending, Clocked
<1>7. Pending' = 0
  <2>1. Clock' = now'
    BY <1>2 DEF Clock
  <2>2. PICK a \in Int : a = now' /\ (a - a) - 0 = 0
    BY <1>4
  <2>3. (Clock' - lastEvent') - toDeduct' = 0
    BY <1>2, <2>1, <2>2
  <2> QED
    BY <2>3, Zenon DEF Pending
<1>8. Deducted'
  BY <1>1, <1>2, <1>3, <1>4, <1>7 DEF Deducted
<1>9. ASSUME NEW t \in Int, Within(t + Pending)
      PROVE  Within(t + Pending)'
  BY <1>2, <1>4, <1>6, <1>7, <1>9 DEF Within
<1> QED
  BY <1>3, <1>5, <1>8, <1>9, NothingWritten

\* What is left out by design: before loops and softirqs in irq_exit(), and all
\* of a handler.
LEMMA LeftOutCharged ==
  ASSUME OwnTimeInv, where = "in", where' \in {"loop", "call", "after"}, S!Pass("own"),
         Duration' = Duration, stored' = stored, skipped' \in BOOLEAN,
         where' # "after" => skipped' = TRUE,
         toDeduct' \in Int, lastEvent' \in Int,
         UNCHANGED <<didSleep, starti, startii>>
  PROVE  OwnTimeInv'
<1>1. SignatureTypes /\ Deducted /\ ~ stored
  BY DEF OwnTimeInv, Deducted
<1>2. now' \in Int /\ Spent' \in Int /\ Parts' /\ service' = service
  BY <1>1, Passing
<1>3. SignatureTypes'
  <2>1. didSleep' \in BOOLEAN /\ stored' \in BOOLEAN
    BY <1>1, Zenon DEF SignatureTypes
  <2> QED
    BY <1>1, <1>2, <2>1 DEF SignatureTypes, Wheres
<1>4. Pending' = 0
  BY DEF Pending, Clocked
<1>5. Deducted'
  BY <1>1, <1>2, <1>4 DEF Deducted
<1>6. Pending \in Int /\ Pending >= 0
  <2>1. Clocked /\ Clock = now
    BY DEF Clocked, Clock
  <2>2. Pending = (now - lastEvent) - toDeduct
    BY <2>1 DEF Pending
  <2>3. (now - lastEvent) - toDeduct \in Int
    BY <1>1 DEF SignatureTypes
  <2> QED
    BY <1>1, <2>2, <2>3 DEF Deducted
<1>7. PICK p \in Int, o \in Int, q \in Int : p = Pending /\ o = Spent /\ q = Spent' /\ p >= 0 /\ o <= q
  <2>1. Spent \in Int /\ Parts
    BY <1>1 DEF SignatureTypes
  <2>2. PICK s \in Nat : Spent' = Spent + s
    BY <1>1, Passing
  <2>3. Spent <= Spent'
    BY <2>1, <2>2
  <2> QED
    BY <1>2, <1>6, <2>1, <2>3
<1>8. ASSUME NEW t \in Int, Within(t + Pending)
      PROVE  Within(t + Pending)'
  <2>1. t + p <= o
    BY <1>7, <1>8 DEF Within
  <2>2. t + 0 <= q
    BY <1>7, <2>1
  <2>3. (~ skipped' /\ (where' = "after" => stored')) => FALSE
    BY <1>1
  <2> QED
    BY <1>4, <1>7, <2>2, <2>3, Zenon DEF Within
<1> QED
  BY <1>3, <1>5, <1>8, NothingWritten

LEMMA StopCharged == OwnTimeInv /\ (S!Stop \/ S!Unregistered("loop") \/ S!Unregistered("call")) => OwnTimeInv'
<1> SUFFICES ASSUME OwnTimeInv, S!Stop \/ S!Unregistered("loop") \/ S!Unregistered("call")
             PROVE  OwnTimeInv'
  OBVIOUS
<1>1. SignatureTypes
  BY DEF OwnTimeInv
<1>2. CASE S!Unregistered("loop") \/ S!Unregistered("call")
  <2>1. /\ where = "in" /\ where' \in {"loop", "call"} /\ S!Pass("own") /\ skipped' = TRUE
        /\ UNCHANGED <<Duration, stored, toDeduct, lastEvent, didSleep, starti, startii>>
    BY <1>2 DEF S!Unregistered, S!Move, S!locals, S!signature
  <2>2. toDeduct' \in Int /\ lastEvent' \in Int /\ skipped' \in BOOLEAN
    BY <1>1, <2>1, Zenon DEF SignatureTypes
  <2> QED
    BY <2>1, <2>2, LeftOutCharged
<1>3. CASE S!Stop
  <2> USE DEF S!Stop, S!Move, S!KeepClock
  <2>1. /\ where = "in" /\ where' = "after" /\ S!Pass("own")
        /\ UNCHANGED <<skipped, didSleep, starti, startii>>
    BY <1>3
  <2>2. CASE service = "handler"
    <3>1. toDeduct' = 0 /\ lastEvent' = now' /\ Duration' = Duration /\ stored' = stored
      BY <1>3, <2>2 DEF S!Restarted, S!signature
    <3>2. now' \in Int
      BY <1>1, <2>1, Passing
    <3>3. toDeduct' \in Int /\ lastEvent' \in Int /\ skipped' \in BOOLEAN
      BY <1>1, <2>1, <3>1, <3>2 DEF SignatureTypes
    <3> QED
      BY <2>1, <3>1, <3>3, LeftOutCharged
  <2>3. CASE service # "handler"
    <3>1. /\ Duration' = Append(Duration, S!Process) /\ stored' = TRUE /\ toDeduct' = 0
          /\ lastEvent' = lastEvent
      BY <1>3, <2>3
    <3>2. stored' \in BOOLEAN /\ (stored' <=> where' = "after")
      BY <2>1, <3>1, Zenon
    <3> QED
      BY <2>1, <3>1, <3>2, WrittenStep
  <2> QED
    BY <2>2, <2>3
<1> QED
  BY <1>2, <1>3

LEMMA OwnTimeNext == OwnTimeInv /\ [S!Next]_signatures => OwnTimeInv'
<1> SUFFICES ASSUME OwnTimeInv, S!Next \/ UNCHANGED signatures
             PROVE  OwnTimeInv'
  OBVIOUS
<1>1. CASE S!Start \/ S!Resume("loop") \/ S!Resume("call")
  BY <1>1, ResumeCharged
<1>2. CASE \E ev \in {"UP", "DOWN", "OTHER"} : S!Point(ev, "in")
  BY <1>2, PointCharged
<1>3. CASE S!Point("LOOPSTART", "loop") \/ S!Point("SRVQUEUE", "call")
  BY <1>3, PointCharged
<1>4. CASE S!Unregistered("loop") \/ S!Unregistered("call") \/ S!Stop
  BY <1>4, StopCharged
<1>5. CASE S!Call
  BY <1>5, CallCharged
<1>6. CASE S!Wakeup
  BY <1>6, WakeupCharged
<1>7. CASE S!PeuStart
  BY <1>7, PeuStartCharged
<1>8. CASE S!Interrupt \/ S!InterruptReturn \/ S!HirqEntry \/ S!Sleep
  BY <1>8, InterruptCharged
<1>9. CASE S!HirqExit \/ S!SwitchIn
  BY <1>9, SwitchInCharged
<1>10. CASE S!SwitchOut
  BY <1>10, SwitchOutCharged
<1>11. CASE UNCHANGED signatures
  BY <1>11, OwnTimeStutter
<1> QED
  BY <1>1, <1>2, <1>3, <1>4, <1>5, <1>6, <1>7, <1>8, <1>9, <1>10, <1>11 DEF S!Next
-----------------------------------------------------------------------------
(* Signatures: where the durations are written                             *)

EventKinds == {"START", "POINT", "PEUSTART", "CALL", "SLEEP", "STOP"}

Width(ev) == IF ev = "PEUSTART" THEN 2 ELSE 1
Widths(es) == [j \in 1..Len(es) |-> Width(es[j])]

\* The durations d of the events es: g[i] is the index of the processing time
\* after event i, which is written with the next event, a PEU's just before it.
Located(es, d, g) ==
  /\ g \in [0..Len(es) -> Int]
  /\ Running(g, Widths(es), Len(es))
  /\ Len(d) = g[Len(es)] - 1
  /\ \A i \in 1..(Len(es) - 1) : g[i] \in 1..Len(d) /\ d[g[i]].k = "process"
  /\ \A i \in 1..Len(es) :
       es[i] = "PEUSTART" => g[i - 1] + 1 \in 1..Len(d) /\ d[g[i - 1] + 1].k = "peu"

LEMMA LocatedStart == \E g : Located(<<"START">>, <<>>, g)
<1> DEFINE g == [j \in 0..1 |-> j]
           es == <<"START">>
<1>1. Len(es) = 1 /\ es[1] = "START" /\ Len(<<>>) = 0
  OBVIOUS
<1>2. g \in [0..1 -> Int] /\ g[0] = 0 /\ g[1] = 1
  OBVIOUS
<1> HIDE DEF g, es
<1>3. Widths(es)[1] = 1
  BY <1>1 DEF Widths, Width
<1>4. Running(g, Widths(es), 1)
  BY <1>2, <1>3 DEF Running
<1>5. Located(es, <<>>, g)
  BY <1>1, <1>2, <1>4 DEF Located
<1> QED
  BY <1>5 DEF es

\* An event ev with the processing time p before it, and for a PEU its own q.
LEMMA LocatedNext ==
  ASSUME NEW es \in Seq(EventKinds), NEW d \in Seq(Lasting), NEW g, Located(es, d, g), es # <<>>,
         NEW ev \in EventKinds, NEW p \in Lasting, NEW q \in Lasting,
         p.k = "process", q.k = "peu", NEW b,
         b = IF ev = "PEUSTART" THEN Append(Append(d, p), q) ELSE Append(d, p)
  PROVE  \E h : Located(Append(es, ev), b, h)
<1> DEFINE m == Len(es)
           k == Len(d)
           e2 == Append(es, ev)
<1>1. m \in Nat \ {0} /\ Len(e2) = m + 1 /\ e2[m + 1] = ev /\ \A i \in 1..m : e2[i] = es[i]
  OBVIOUS
<1>2. /\ k \in Nat /\ Len(b) = k + Width(ev)
      /\ \A i \in 1..k : b[i] = d[i]
      /\ b[k + 1] = p
      /\ ev = "PEUSTART" => b[k + 2] = q
  <2>1. CASE ev = "PEUSTART"
    <3>1. b = Append(Append(d, p), q)
      BY <2>1
    <3>2. Append(d, p) \in Seq(Lasting) /\ Len(Append(d, p)) = k + 1 /\ k \in Nat
      OBVIOUS
    <3>3. Append(d, p)[k + 1] = p /\ \A i \in 1..k : Append(d, p)[i] = d[i]
      OBVIOUS
    <3> DEFINE c == Append(d, p)
    <3> HIDE DEF c
    <3>4. Len(b) = k + 2 /\ b[k + 2] = q /\ \A i \in 1..(k + 1) : b[i] = c[i]
      <4>1. c \in Seq(Lasting) /\ Len(c) = k + 1 /\ b = Append(c, q)
        BY <3>1, <3>2 DEF c
      <4>2. Len(b) = Len(c) + 1 /\ b[Len(c) + 1] = q /\ \A i \in 1..Len(c) : b[i] = c[i]
        BY <4>1
      <4>3. Len(c) + 1 = k + 2
        BY <3>2, <4>1
      <4> QED
        BY <4>1, <4>2, <4>3
    <3>5. \A i \in 1..k : b[i] = d[i]
      BY <3>2, <3>3, <3>4 DEF c
    <3>6. b[k + 1] = p
      BY <3>2, <3>3, <3>4 DEF c
    <3> QED
      BY <2>1, <3>2, <3>4, <3>5, <3>6 DEF Width
  <2>2. CASE ev # "PEUSTART"
    BY <2>2 DEF Width
  <2> QED
    BY <2>1, <2>2
<1> HIDE DEF m, k, e2
<1>3. /\ g \in [0..m -> Int] /\ Running(g, Widths(es), m) /\ k = g[m] - 1
      /\ \A i \in 1..(m - 1) : g[i] \in 1..k /\ d[g[i]].k = "process"
      /\ \A i \in 1..m : es[i] = "PEUSTART" => g[i - 1] + 1 \in 1..k /\ d[g[i - 1] + 1].k = "peu"
  BY DEF Located, m, k
<1>4. PICK x \in {1, 2} : x = Width(ev) /\ (x = 2 <=> ev = "PEUSTART")
  BY DEF Width
<1>5. Continued(g, Widths(e2), m, x)
  <2> DEFINE t == Widths(e2)
             w == Widths(es)
  <2>1. t[m + 1] = x
    BY <1>1, <1>4 DEF Widths
  <2>2. \A j \in 1..m : t[j] = w[j]
    BY <1>1 DEF Widths, m
  <2> HIDE DEF t, w
  <2>3. Running(g, w, m) /\ g \in [0..m -> Int] /\ m \in Nat /\ x \in Int
    BY <1>1, <1>3 DEF w
  <2>4. Continued(g, t, m, x)
    BY <2>1, <2>2, <2>3, RunningNext
  <2> QED
    BY <2>4 DEF t
<1>6. PICK h \in [0..(m + 1) -> Int] :
             /\ Running(h, Widths(e2), m + 1)
             /\ \A j \in 0..m : h[j] = g[j]
             /\ h[m + 1] = g[m] + x
  BY <1>5 DEF Continued
<1>7. g[m] = k + 1 /\ Len(b) = k + x
  <2>1. g[m] \in Int
    BY <1>1, <1>3
  <2> QED
    BY <1>2, <1>3, <1>4, <2>1
<1>8. Len(b) = h[m + 1] - 1
  BY <1>2, <1>6, <1>7
<1>9. ASSUME NEW i \in 1..m
      PROVE  h[i] \in 1..Len(b) /\ b[h[i]].k = "process"
  <2>1. h[i] = g[i]
    BY <1>1, <1>6
  <2>2. CASE i = m
    <3>1. h[i] = k + 1
      BY <1>7, <2>1, <2>2
    <3>2. b[k + 1] = p /\ k \in Nat
      BY <1>2
    <3>3. k + 1 \in 1..(k + x)
      BY <1>4, <3>2
    <3> QED
      BY <1>7, <3>1, <3>2, <3>3
  <2>3. CASE i # m
    <3>1. g[i] \in 1..k /\ d[g[i]].k = "process"
      BY <1>1, <1>3, <2>3
    <3>2. b[g[i]] = d[g[i]]
      BY <1>2, <3>1
    <3>3. g[i] \in 1..Len(b)
      <4>1. PICK y \in 1..k : y = g[i]
        BY <3>1
      <4>2. k \in Nat
        BY <1>2
      <4>3. y \in 1..(k + x)
        BY <1>4, <4>2
      <4> QED
        BY <1>7, <4>1, <4>3
    <3> QED
      BY <2>1, <3>1, <3>2, <3>3
  <2> QED
    BY <2>2, <2>3
<1>10. ASSUME NEW i \in 1..(m + 1), e2[i] = "PEUSTART"
       PROVE  h[i - 1] + 1 \in 1..Len(b) /\ b[h[i - 1] + 1].k = "peu"
  <2>1. i - 1 \in 0..m /\ h[i - 1] = g[i - 1]
    BY <1>1, <1>6
  <2>2. CASE i = m + 1
    <3>1. x = 2 /\ ev = "PEUSTART"
      BY <1>1, <1>4, <1>10, <2>2
    <3>2. h[i - 1] + 1 = k + 2
      BY <1>1, <1>2, <1>7, <2>1, <2>2
    <3> QED
      BY <1>2, <1>7, <3>1, <3>2
  <2>3. CASE i # m + 1
    <3>1. i \in 1..m
      BY <1>1, <2>3
    <3>2. es[i] = "PEUSTART"
      BY <1>1, <1>10, <3>1
    <3>3. PICK y \in 1..k : y = g[i - 1] + 1 /\ d[y].k = "peu"
      BY <1>3, <3>1, <3>2
    <3>4. b[y] = d[y]
      BY <1>2, <3>3
    <3>5. y \in 1..Len(b)
      <4>1. k \in Nat
        BY <1>2
      <4>2. y \in 1..(k + x)
        BY <1>4, <4>1
      <4> QED
        BY <1>7, <4>2
    <3> QED
      BY <2>1, <3>3, <3>4, <3>5
  <2> QED
    BY <2>2, <2>3
<1>11. Located(e2, b, h)
  <2>1. Len(e2) - 1 = m
    BY <1>1
  <2> QED
    BY <1>1, <1>6, <1>8, <1>9, <1>10, <2>1 DEF Located
<1> QED
  BY <1>11 DEF e2

AlignedInv ==
  /\ Events \in Seq(EventKinds)
  /\ where = "before" => Events = <<>>
  /\ where # "before" => Events # <<>> /\ \E g : Located(Events, Duration, g)
  /\ stored => Events[Len(Events)] = "STOP"

SignatureInv == OwnTimeInv /\ AlignedInv

LEMMA AlignedInit == S!Init => AlignedInv
<1> SUFFICES ASSUME S!Init
             PROVE  AlignedInv
  OBVIOUS
<1>1. Events \in Seq(EventKinds)
  BY DEF S!Init
<1> QED
  BY <1>1 DEF S!Init, AlignedInv

\* A step that writes nothing.
LEMMA AlignedSame ==
  ASSUME AlignedInv, UNCHANGED <<Events, Duration, stored>>,
         (where = "before") <=> (where' = "before")
  PROVE  AlignedInv'
BY DEF AlignedInv

\* A step that writes an event and what belongs to it.
EventWritten(ev) ==
  /\ where = "in" /\ where' # "before" /\ S!Pass("own")
  /\ Events' = Append(Events, ev)
  /\ \/ ev # "PEUSTART" /\ Duration' = Append(Duration, S!Process)
     \/ ev = "PEUSTART" /\ Duration' = Append(Append(Duration, S!Process), S!Peu)
  /\ stored' => stored \/ ev = "STOP"

LEMMA AlignedWritten ==
  ASSUME SignatureInv, NEW ev \in EventKinds, EventWritten(ev)
  PROVE  AlignedInv'
<1> USE DEF EventWritten
<1>1. Events \in Seq(EventKinds) /\ Events # <<>> /\ Duration \in Seq(Lasting)
  BY DEF SignatureInv, AlignedInv, OwnTimeInv, SignatureTypes
<1>2. PICK g : Located(Events, Duration, g)
  BY DEF SignatureInv, AlignedInv
<1>3. S!Process.k = "process"
  BY DEF S!Process
<1>4. S!Peu \in Lasting /\ S!Peu.k = "peu"
  BY DEF S!Peu, Lasting
<1>5. S!Process \in Lasting /\ ~ stored
  <2>1. OwnTimeInv /\ SignatureTypes /\ Deducted
    BY DEF SignatureInv, OwnTimeInv
  <2>2. now' \in Int /\ now' >= now
    BY <2>1, Passing
  <2> QED
    BY <2>1, <2>2, PendingWritten DEF Deducted
<1>6. Duration' = IF ev = "PEUSTART" THEN Append(Append(Duration, S!Process), S!Peu)
                  ELSE Append(Duration, S!Process)
  <2>1. CASE ev = "PEUSTART"
    BY <2>1
  <2>2. CASE ev # "PEUSTART"
    BY <2>2
  <2> QED
    BY <2>1, <2>2
<1>7. \E h : Located(Append(Events, ev), Duration', h)
  BY <1>1, <1>2, <1>3, <1>4, <1>5, <1>6, LocatedNext
<1>8. Events' \in Seq(EventKinds) /\ Events' # <<>> /\ Events'[Len(Events')] = ev
  BY <1>1
<1>9. stored' => ev = "STOP"
  BY <1>5
<1>10. \E h : Located(Events', Duration', h)
  BY <1>7
<1>11. where' # "before"
  OBVIOUS
<1> QED
  BY <1>8, <1>9, <1>10, <1>11 DEF AlignedInv

LEMMA AlignedNext == SignatureInv /\ [S!Next]_signatures => AlignedInv'
<1> SUFFICES ASSUME SignatureInv, S!Next \/ UNCHANGED signatures
             PROVE  AlignedInv'
  OBVIOUS
<1>1. SignatureTypes /\ Deducted /\ AlignedInv /\ OwnTimeInv
  BY DEF SignatureInv, OwnTimeInv
<1>2. Duration \in Seq(Lasting) /\ Events \in Seq(EventKinds)
  BY <1>1 DEF SignatureTypes, AlignedInv
<1>3. S!Peu \in Lasting
  BY DEF S!Peu, Lasting
<1>4. ASSUME where = "in", S!Pass("own")
      PROVE  /\ S!Process \in Lasting /\ ~ stored
             /\ Duration \o <<S!Process>> = Append(Duration, S!Process)
             /\ Duration \o <<S!Process, S!Peu>> = Append(Append(Duration, S!Process), S!Peu)
  <2>1. S!Process \in Lasting
    <3>1. now' \in Int /\ now' >= now
      BY <1>1, <1>4, Passing
    <3> QED
      BY <1>1, <1>4, <3>1, PendingWritten
  <2>2. ~ stored
    BY <1>1, <1>4 DEF Deducted
  <2> QED
    BY <1>2, <1>3, <2>1, <2>2, Written
<1>5. CASE S!Start
  <2>1. /\ where = "before" /\ where' = "in" /\ Events' = Append(Events, "START")
        /\ Duration' = Duration \o <<>> /\ stored' = stored
    BY <1>5 DEF S!Start, S!Move, S!Emit
  <2>2. Events = <<>> /\ Duration = <<>> /\ ~ stored
    BY <1>1, <2>1 DEF AlignedInv, Deducted
  <2>3. Events' = <<"START">> /\ Duration' = <<>>
    BY <2>1, <2>2
  <2>4. Events' \in Seq(EventKinds) /\ Events' # <<>>
    <3>1. "START" \in EventKinds /\ Events' = Append(Events, "START")
      BY <2>1 DEF EventKinds
    <3> QED
      BY <1>2, <3>1
  <2>5. \E g : Located(Events', Duration', g)
    BY <2>3, LocatedStart
  <2> QED
    BY <2>1, <2>2, <2>4, <2>5 DEF AlignedInv
<1>6. ASSUME NEW ev, NEW to \in {"in", "loop", "call"}, S!Point(ev, to)
      PROVE  AlignedInv'
  <2>1. /\ where = "in" /\ where' # "before" /\ Events' = Append(Events, "POINT") /\ S!Pass("own")
        /\ Duration' = Append(Duration, S!Process) /\ stored' = stored
    BY <1>4, <1>6 DEF S!Point, S!Move, S!Emit
  <2>2. EventWritten("POINT")
    BY <2>1 DEF EventWritten
  <2> QED
    BY <2>2, AlignedWritten DEF EventKinds
<1>7. CASE S!Call
  <2>1. /\ where = "in" /\ where' = "call" /\ Events' = Append(Events, "CALL") /\ S!Pass("own")
        /\ Duration' = Append(Duration, S!Process) /\ stored' = stored
    BY <1>4, <1>7 DEF S!Call, S!Move, S!Emit
  <2>2. EventWritten("CALL")
    BY <2>1 DEF EventWritten
  <2> QED
    BY <2>2, AlignedWritten DEF EventKinds
<1>8. CASE S!PeuStart
  <2>1. /\ where = "in" /\ where' = "in" /\ Events' = Append(Events, "PEUSTART") /\ S!Pass("own")
        /\ Duration' = Append(Append(Duration, S!Process), S!Peu) /\ stored' = stored
    BY <1>4, <1>8 DEF S!PeuStart, S!Move, S!Emit, S!PeuDurations
  <2>2. EventWritten("PEUSTART")
    BY <2>1 DEF EventWritten
  <2> QED
    BY <2>2, AlignedWritten DEF EventKinds
<1>9. CASE S!Wakeup
  <2>1. where = "in" /\ where' = "in" /\ S!Pass("own")
    BY <1>9 DEF S!Wakeup, S!Move
  <2>2. CASE previousEntry = "UP"
    BY <1>1, <1>9, <2>1, <2>2, AlignedSame DEF S!Wakeup, S!signature
  <2>3. CASE previousEntry # "UP"
    <3>1. Events' = Append(Events, "POINT") /\ Duration' = Append(Duration, S!Process) /\ stored' = stored
      BY <1>4, <2>1, <1>9, <2>3 DEF S!Wakeup, S!Emit
    <3>2. EventWritten("POINT")
      BY <2>1, <3>1 DEF EventWritten
    <3> QED
      BY <3>2, AlignedWritten DEF EventKinds
  <2> QED
    BY <2>2, <2>3
<1>10. CASE S!SwitchOut
  <2>1. where = "in" /\ where' = "out" /\ S!Pass("own")
    BY <1>10 DEF S!SwitchOut, S!Move
  <2>2. CASE didSleep /\ previousEntry # "DOWN"
    <3>1. Events' = Append(Events, "SLEEP") /\ Duration' = Append(Duration, S!Process) /\ stored' = stored
      BY <1>4, <2>1, <1>10, <2>2 DEF S!SwitchOut, S!Emit
    <3>2. EventWritten("SLEEP")
      BY <2>1, <3>1 DEF EventWritten
    <3> QED
      BY <3>2, AlignedWritten DEF EventKinds
  <2>3. CASE ~ (didSleep /\ previousEntry # "DOWN")
    BY <1>1, <1>10, <2>1, <2>3, AlignedSame DEF S!SwitchOut, S!signature
  <2> QED
    BY <2>2, <2>3
<1>11. CASE S!Stop
  <2>1. where = "in" /\ where' = "after" /\ S!Pass("own")
    BY <1>11 DEF S!Stop, S!Move
  <2>2. CASE service = "handler"
    BY <1>1, <1>11, <2>1, <2>2, AlignedSame DEF S!Stop, S!signature
  <2>3. CASE service # "handler"
    <3>1. Events' = Append(Events, "STOP") /\ Duration' = Append(Duration, S!Process)
      BY <1>11, <2>3 DEF S!Stop
    <3>2. EventWritten("STOP")
      BY <2>1, <3>1 DEF EventWritten
    <3> QED
      BY <3>2, AlignedWritten DEF EventKinds
  <2> QED
    BY <2>2, <2>3
<1>12. CASE \/ S!Unregistered("loop") \/ S!Unregistered("call") \/ S!Resume("loop") \/ S!Resume("call")
            \/ S!Interrupt \/ S!InterruptReturn \/ S!HirqEntry \/ S!HirqExit
            \/ S!Sleep \/ S!SwitchIn
  <2>1. UNCHANGED <<Events, Duration, stored>> /\ where # "before" /\ where' # "before"
    BY <1>12 DEF S!Unregistered, S!Resume, S!Interrupt, S!InterruptReturn, S!HirqEntry,
                 S!HirqExit, S!Sleep, S!SwitchIn, S!Move, S!signature
  <2> QED
    BY <1>1, <2>1, AlignedSame
<1>13. CASE UNCHANGED signatures
  BY <1>1, <1>13, AlignedSame DEF signatures
<1>14. CASE \/ \E ev \in {"UP", "DOWN", "OTHER"} : S!Point(ev, "in")
            \/ S!Point("LOOPSTART", "loop") \/ S!Point("SRVQUEUE", "call")
  BY <1>6, <1>14
<1> QED
  BY <1>5, <1>7, <1>8, <1>9, <1>10, <1>11, <1>12, <1>13, <1>14 DEF S!Next

\* delayInd() when event i is reached.
LEMMA LocatedIs ==
  ASSUME Events \in Seq(EventKinds), NEW d, NEW g, Located(Events, d, g), NEW i \in 1..Len(Events)
  PROVE  S!delayInd(i) = g[i - 1]
<1> DEFINE m == Len(Events)
           r == [j \in 0..(i - 1) |-> g[j]]
<1>1. m \in Nat /\ i \in Nat /\ i - 1 \in 0..m /\ i - 1 \in 0..(i - 1)
  OBVIOUS
<1>2. g \in [0..m -> Int] /\ Running(g, Widths(Events), m)
  BY DEF Located
<1> HIDE DEF m
<1>3. \A j \in 1..m : Widths(Events)[j] = IF Events[j] = "PEUSTART" THEN 2 ELSE 1
  BY DEF Widths, Width, m
<1>4. \A j \in 0..(i - 1) : r[j] = IF j = 0 THEN 0 ELSE r[j - 1] + (IF Events[j] = "PEUSTART" THEN 2 ELSE 1)
  <2> SUFFICES ASSUME NEW j \in 0..(i - 1)
               PROVE  r[j] = IF j = 0 THEN 0 ELSE r[j - 1] + (IF Events[j] = "PEUSTART" THEN 2 ELSE 1)
    OBVIOUS
  <2>1. CASE j = 0
    BY <1>2, <2>1 DEF Running
  <2>2. CASE j # 0
    <3>1. j \in 1..m /\ j - 1 \in 0..(i - 1)
      BY <1>1, <2>2
    <3>2. g[j] = g[j - 1] + Widths(Events)[j]
      BY <1>2, <3>1 DEF Running
    <3>3. r[j] = g[j] /\ r[j - 1] = g[j - 1]
      BY <3>1
    <3>4. r[j] = r[j - 1] + (IF Events[j] = "PEUSTART" THEN 2 ELSE 1)
      BY <1>3, <3>1, <3>2, <3>3
    <3> QED
      BY <2>2, <3>4
  <2> QED
    BY <2>1, <2>2
<1>5. r = [j \in 0 .. i - 1 |-> IF j = 0 THEN 0 ELSE r[j - 1] + (IF Events[j] = "PEUSTART" THEN 2 ELSE 1)]
  BY <1>4
<1> HIDE DEF r
<1>6. PICK h : /\ h = [j \in 0 .. i - 1 |-> IF j = 0 THEN 0 ELSE h[j - 1] + (IF Events[j] = "PEUSTART" THEN 2 ELSE 1)]
               /\ S!delayInd(i) = h[i - 1]
  BY <1>5, Zenon DEF S!delayInd
<1>7. \A j \in 0..(i - 1) : h[j] = IF j = 0 THEN 0 ELSE h[j - 1] + (IF Events[j] = "PEUSTART" THEN 2 ELSE 1)
  BY <1>6
<1> DEFINE w == Widths(Events)
<1>8. Running(h, w, i - 1)
  <2>1. h[0] = 0
    BY <1>1, <1>7
  <2>2. ASSUME NEW j \in 1..(i - 1)
        PROVE  h[j] = h[j - 1] + w[j]
    <3>1. j \in 0..(i - 1) /\ j # 0 /\ j \in 1..m
      BY <1>1
    <3> QED
      BY <1>3, <1>7, <3>1
  <2> QED
    BY <2>1, <2>2 DEF Running
<1> HIDE DEF w
<1>9. \A j \in 0..(i - 1) : g[j] = h[j]
  <2>1. Running(g, w, m) /\ \A j \in 1..(i - 1) : w[j] = w[j]
    BY <1>2 DEF w
  <2> QED
    BY <1>1, <1>8, <2>1, RunningSame
<1> QED
  BY <1>1, <1>6, <1>9

LEMMA SignatureAligned == SignatureInv => DurationsAligned
<1> SUFFICES ASSUME SignatureInv, stored
             PROVE  /\ S!delayInd(Len(Events)) = Len(Duration)
                    /\ \A i \in 1 .. Len(Events) - 1 :
                         /\ Duration[S!ProcessAt(i)].k = "process"
                         /\ Events[i] = "PEUSTART" => Duration[S!PeuAt(i)].k = "peu"
  BY DEF DurationsAligned, S!DurationsAligned
<1>1. /\ Events \in Seq(EventKinds) /\ Events # <<>> /\ Events[Len(Events)] = "STOP"
      /\ where = "after"
  BY DEF SignatureInv, AlignedInv, OwnTimeInv, Deducted
<1>2. PICK g : Located(Events, Duration, g)
  BY <1>1 DEF SignatureInv, AlignedInv
<1> DEFINE m == Len(Events)
<1>3. m \in Nat \ {0} /\ m \in 1..m
  BY <1>1
<1>4. \A i \in 1..m : S!delayInd(i) = g[i - 1]
  BY <1>1, <1>2, LocatedIs
<1> HIDE DEF m
<1>5. \A i \in 1..m : g[i] = g[i - 1] + Width(Events[i]) /\ g[i] \in Int /\ g[i - 1] \in Int
  <2> SUFFICES ASSUME NEW i \in 1..m
               PROVE  g[i] = g[i - 1] + Width(Events[i]) /\ g[i] \in Int /\ g[i - 1] \in Int
    OBVIOUS
  <2>1. i \in 0..m /\ i - 1 \in 0..m
    BY <1>3
  <2>2. Widths(Events)[i] = Width(Events[i])
    BY DEF Widths, m
  <2>3. g \in [0..m -> Int] /\ Running(g, Widths(Events), m)
    BY <1>2 DEF Located, m
  <2> QED
    BY <2>1, <2>2, <2>3 DEF Running
<1>6. S!delayInd(m) = Len(Duration)
  <2>1. Len(Duration) = g[m] - 1
    BY <1>2 DEF Located, m
  <2>2. Width(Events[m]) = 1
    BY <1>1 DEF Width, m
  <2> QED
    BY <1>3, <1>4, <1>5, <2>1, <2>2
<1>7. ASSUME NEW i \in 1..(m - 1)
      PROVE  /\ Duration[S!ProcessAt(i)].k = "process"
             /\ Events[i] = "PEUSTART" => Duration[S!PeuAt(i)].k = "peu"
  <2>1. i \in 1..m
    BY <1>3
  <2>2. /\ Duration[g[i]].k = "process"
        /\ Events[i] = "PEUSTART" => Duration[g[i - 1] + 1].k = "peu"
    BY <1>2, <2>1 DEF Located, m
  <2>3. S!ProcessAt(i) = g[i]
    BY <1>4, <1>5, <2>1 DEF S!ProcessAt, Width
  <2>4. S!PeuAt(i) = g[i - 1] + 1
    BY <1>4, <2>1 DEF S!PeuAt
  <2> QED
    BY <2>2, <2>3, <2>4
<1> QED
  BY <1>6, <1>7 DEF m

\* The durations of a signature are never negative, and together they are at
\* most the time the thread spent in the service and in the interrupts that hit
\* it there, which createSignatures() fails to deduct.  They are all of it unless
\* the thread slept on a semaphore or PushNewService() did not register a softirq
\* loop or a softirq with its caller (a location in irq_exit()); whatever the
\* order of calls, loops, interrupts, sleeps and switches.
THEOREM OwnTimeIsCharged == MeasureSpec => []OwnTimeCharged
<1>1. MeasureInit => OwnTimeInv
  BY OwnTimeInit DEF MeasureInit
<1>2. OwnTimeInv /\ [MeasureNext]_all_vars => OwnTimeInv'
  BY Stepwise, OwnTimeNext
<1>3. OwnTimeInv => OwnTimeCharged
  BY OwnTimeExact
<1> QED
  BY <1>1, <1>2, <1>3, PTL DEF MeasureSpec

\* The index storeSignatures() runs along the events with always meets the
\* durations createSignatures() wrote for them.
THEOREM DurationsAreAligned == MeasureSpec => []DurationsAligned
<1>1. MeasureInit => SignatureInv
  BY OwnTimeInit, AlignedInit DEF MeasureInit, SignatureInv
<1>2. SignatureInv /\ [MeasureNext]_all_vars => SignatureInv'
  BY Stepwise, OwnTimeNext, AlignedNext DEF SignatureInv
<1>3. SignatureInv => DurationsAligned
  BY SignatureAligned
<1> QED
  BY <1>1, <1>2, <1>3, PTL DEF MeasureSpec
-----------------------------------------------------------------------------
(* The work of a device.  Of Scan(), which is recursive in the lines, the  *)
(* invariant keeps the value it has after the lines read so far.           *)

PeuLines ==
  [ev : {"HIRQENTRY", "HIRQEXIT", "WAITCOMPL", "COMPL"},
   cycles : Int, irq : Nat, var : Nat, on : BOOLEAN]
Scans == [int : Nat, var : Nat, compl : Nat, match : Nat]

Scanning(es, g) ==
  /\ g \in [0..Len(es) -> Scans]
  /\ g[0] = P!Unscanned
  /\ \A j \in 1..Len(es) : g[j] = P!ScanLine(g[j - 1], es[j], j)
Scanned(es, a) == \E g : Scanning(es, g) /\ g[Len(es)] = a

LEMMA ScanEmpty == Scanned(<<>>, P!Unscanned) /\ P!Unscanned \in Scans
<1> DEFINE g == [j \in 0..0 |-> P!Unscanned]
<1>1. P!Unscanned \in Scans
  BY DEF P!Unscanned, Scans
<1>2. g \in [0..Len(<<>>) -> Scans] /\ g[0] = P!Unscanned /\ Len(<<>>) = 0
  BY <1>1
<1>3. Scanning(<<>>, g)
  BY <1>2 DEF Scanning
<1> QED
  BY <1>1, <1>2, <1>3 DEF Scanned

LEMMA ScanAppend ==
  ASSUME NEW es \in Seq(PeuLines), NEW e \in PeuLines, NEW a, Scanned(es, a),
         NEW b \in Scans, b = P!ScanLine(a, e, Len(es) + 1)
  PROVE  Scanned(Append(es, e), b)
<1> DEFINE k == Len(es)
           s == Append(es, e)
<1>1. k \in Nat /\ Len(s) = k + 1 /\ s[k + 1] = e /\ \A j \in 1..k : s[j] = es[j]
  OBVIOUS
<1>2. PICK g : Scanning(es, g) /\ g[k] = a
  BY DEF Scanned
<1> HIDE DEF k, s
<1>3. /\ g \in [0..k -> Scans] /\ g[0] = P!Unscanned
      /\ \A j \in 1..k : g[j] = P!ScanLine(g[j - 1], es[j], j)
  BY <1>2 DEF Scanning, k
<1>4. b = P!ScanLine(a, e, k + 1)
  BY DEF k
<1> DEFINE h == [j \in 0..(k + 1) |-> IF j <= k THEN g[j] ELSE b]
<1>5. \A j \in 0..k : h[j] = g[j]
  BY <1>1
<1>6. h[k + 1] = b
  BY <1>1
<1>7. h \in [0..(k + 1) -> Scans]
  BY <1>1, <1>3
<1> HIDE DEF h
<1>8. h[0] = P!Unscanned
  BY <1>1, <1>3, <1>5
<1>9. ASSUME NEW j \in 1..(k + 1)
      PROVE  h[j] = P!ScanLine(h[j - 1], s[j], j)
  <2>1. CASE j = k + 1
    <3>1. h[j] = b /\ s[j] = e /\ j - 1 = k
      BY <1>1, <1>6, <2>1
    <3>2. h[j - 1] = a
      BY <1>1, <1>2, <1>5, <3>1
    <3> QED
      BY <1>4, <2>1, <3>1, <3>2
  <2>2. CASE j # k + 1
    <3>1. j \in 1..k /\ j \in 0..k /\ j - 1 \in 0..k
      BY <1>1, <2>2
    <3>2. h[j] = g[j] /\ h[j - 1] = g[j - 1] /\ s[j] = es[j]
      BY <1>1, <1>5, <3>1
    <3>3. g[j] = P!ScanLine(g[j - 1], es[j], j)
      BY <1>3, <3>1
    <3> QED
      BY <3>2, <3>3
  <2> QED
    BY <2>1, <2>2
<1>10. Scanning(s, h)
  BY <1>1, <1>7, <1>8, <1>9 DEF Scanning
<1> QED
  BY <1>1, <1>6, <1>10 DEF Scanned, s

LEMMA ScanIs ==
  ASSUME NEW es \in Seq(PeuLines), NEW a, Scanned(es, a)
  PROVE  P!Scan(es) = a
<1> DEFINE k == Len(es)
<1>1. k \in Nat
  OBVIOUS
<1>2. PICK g : Scanning(es, g) /\ g[k] = a
  BY DEF Scanned
<1> HIDE DEF k
<1>3. /\ g \in [0..k -> Scans] /\ g[0] = P!Unscanned
      /\ \A j \in 1..k : g[j] = P!ScanLine(g[j - 1], es[j], j)
  BY <1>2 DEF Scanning, k
<1>4. ASSUME NEW j \in 0..k
      PROVE  g[j] = IF j = 0 THEN P!Unscanned ELSE P!ScanLine(g[j - 1], es[j], j)
  <2>1. CASE j = 0
    BY <1>3, <2>1
  <2>2. CASE j # 0
    <3>1. j \in 1..k
      BY <1>1, <2>2
    <3> QED
      BY <1>3, <2>2, <3>1
  <2> QED
    BY <2>1, <2>2
<1>5. g = [j \in 0..Len(es) |-> IF j = 0 THEN P!Unscanned ELSE P!ScanLine(g[j - 1], es[j], j)]
  <2>1. g = [j \in 0..k |-> g[j]]
    BY <1>3
  <2> QED
    BY <1>4, <2>1 DEF k
<1>6. PICK h : /\ h = [j \in 0..Len(es) |->
                         IF j = 0 THEN P!Unscanned ELSE P!ScanLine(h[j - 1], es[j], j)]
               /\ P!Scan(es) = h[Len(es)]
  BY <1>5, Zenon DEF P!Scan
<1>7. \A j \in 0..k : h[j] = IF j = 0 THEN P!Unscanned ELSE P!ScanLine(h[j - 1], es[j], j)
  BY <1>6 DEF k
<1> DEFINE Bad == {j \in 0..k : h[j] # g[j]}
<1>8. Bad = {}
  <2>1. SUFFICES ASSUME Bad # {}
                 PROVE  FALSE
    OBVIOUS
  <2>2. Bad \subseteq Nat
    BY <1>1
  <2>3. PICK j \in Bad : \A y \in Bad : j <= y
    BY <2>1, <2>2, LeastNumber
  <2>4. j # 0
    BY <1>1, <1>3, <1>7
  <2>5. j \in 0..k /\ j - 1 \in 0..k /\ j - 1 \notin Bad
    BY <1>1, <2>3, <2>4
  <2>6. h[j - 1] = g[j - 1]
    BY <2>5
  <2>7. h[j] = g[j]
    BY <1>4, <1>7, <2>4, <2>5, <2>6
  <2> QED
    BY <2>7
<1>9. h[k] = g[k]
  BY <1>1, <1>8
<1> QED
  BY <1>2, <1>6, <1>9 DEF k

\* What a line does to the scan.
LEMMA ScanInterrupt ==
  ASSUME NEW a \in Scans, NEW e \in PeuLines, NEW i \in Nat \ {0}
  PROVE  /\ e.ev = "HIRQENTRY" => P!ScanLine(a, e, i) = [a EXCEPT !.int = i - 1]
         /\ e.ev = "HIRQEXIT" => P!ScanLine(a, e, i) = [a EXCEPT !.int = 0]
         /\ [a EXCEPT !.int = i - 1] \in Scans
         /\ [a EXCEPT !.int = 0] \in Scans
<1>1. [a EXCEPT !.int = i - 1] \in Scans /\ [a EXCEPT !.int = 0] \in Scans
  BY DEF Scans
<1>2. ASSUME e.ev = "HIRQENTRY"
      PROVE  P!ScanLine(a, e, i) = [a EXCEPT !.int = i - 1]
  BY <1>2 DEF P!ScanLine
<1>3. ASSUME e.ev = "HIRQEXIT"
      PROVE  P!ScanLine(a, e, i) = [a EXCEPT !.int = 0]
  BY <1>3 DEF P!ScanLine
<1> QED
  BY <1>1, <1>2, <1>3

LEMMA ScanUse ==
  ASSUME NEW a \in Scans, NEW e \in PeuLines, NEW i \in Nat \ {0}, e.ev \in {"WAITCOMPL", "COMPL"},
         NEW c \in Nat, c = IF e.ev = "COMPL" /\ a.int # 0 THEN a.int ELSE a.compl
  PROVE  /\ P!ScanLine(a, e, i) \in Scans
         /\ P!ScanLine(a, e, i).int = a.int
         /\ a.var = 0 => /\ P!ScanLine(a, e, i).var = e.var
                         /\ P!ScanLine(a, e, i).compl = c
                         /\ P!ScanLine(a, e, i).match = a.match
         /\ a.var # 0 => P!ScanLine(a, e, i).var = a.var
         /\ a.var # 0 /\ c = 0 => /\ P!ScanLine(a, e, i).compl = c
                                  /\ P!ScanLine(a, e, i).match = a.match
         /\ a.var # 0 /\ a.var = e.var /\ c # 0 => P!ScanLine(a, e, i).match = c
<1>1. P!Charged(a, e, i) = c
  BY DEF P!Charged
<1>2. e.ev # "HIRQENTRY" /\ e.ev # "HIRQEXIT" /\ e.var \in Nat
  BY DEF PeuLines
<1>3. P!ScanLine(a, e, i) = IF a.var = 0 THEN [a EXCEPT !.var = e.var, !.compl = c]
                            ELSE IF a.var = e.var /\ c # 0 THEN [a EXCEPT !.match = c]
                            ELSE [a EXCEPT !.compl = c]
  BY <1>1, <1>2 DEF P!ScanLine
<1>4. CASE a.var = 0
  <2>1. P!ScanLine(a, e, i) = [a EXCEPT !.var = e.var, !.compl = c]
    BY <1>3, <1>4
  <2> QED
    BY <1>2, <1>4, <2>1 DEF Scans
<1>5. CASE a.var # 0 /\ a.var = e.var /\ c # 0
  <2>1. P!ScanLine(a, e, i) = [a EXCEPT !.match = c]
    BY <1>3, <1>5
  <2> QED
    BY <1>5, <2>1 DEF Scans
<1>6. CASE a.var # 0 /\ ~ (a.var = e.var /\ c # 0)
  <2>1. P!ScanLine(a, e, i) = [a EXCEPT !.compl = c]
    BY <1>3, <1>6
  <2> QED
    BY <1>6, <2>1 DEF Scans
<1> QED
  BY <1>4, <1>5, <1>6

\* CurrentPEU while its interrupt is looked for, and when it was found.
Open(s, es) == [start |-> s, entries |-> es, irq |-> 0, dur |-> 0]
Closed(i, d) == [start |-> -1, entries |-> <<>>, irq |-> i, dur |-> d]

\* The line made the lines t, in which line k was found.
Found(p, t, k) ==
  IF k = 0 THEN [p EXCEPT !.entries = t]
  ELSE [P!NoPEU EXCEPT !.irq = t[k + 1].irq, !.dur = t[k + 1].cycles - p.start]

LEMMA AppendIs ==
  ASSUME NEW p, NEW l, NEW t, t = Append(p.entries, l), NEW k, k = P!Scan(t).match,
         l.ev # "PEUSTART", ~ (p.start < 0)
  PROVE  P!AppendToPEU(p, l) = Found(p, t, k)
BY Zenon DEF P!AppendToPEU, Found

LEMMA OpenLine ==
  ASSUME NEW es \in Seq(PeuLines), NEW s \in Nat, peu = Open(s, es), plimbo = FALSE,
         NEW e, e.on = TRUE, P!Line(e),
         NEW l \in PeuLines, l = [e EXCEPT !.cycles = pnow],
         NEW a, Scanned(es, a), NEW b \in Scans, b = P!ScanLine(a, l, Len(es) + 1)
  PROVE  /\ Scanned(Append(es, l), b)
         /\ b.match = 0 => peu' = Open(s, Append(es, l))
         /\ b.match # 0 /\ b.match + 1 \in 1..Len(es) =>
              peu' = Closed(es[b.match + 1].irq, es[b.match + 1].cycles - s)
<1> DEFINE t == Append(es, l)
<1>1. Scanned(t, b)
  BY ScanAppend
<1>2. t \in Seq(PeuLines) /\ \A j \in 1..Len(es) : t[j] = es[j]
  OBVIOUS
<1> HIDE DEF t
<1>3. P!Scan(t) = b
  BY <1>1, <1>2, ScanIs
<1>4. peu' = P!AppendToPEU(peu, l)
  BY DEF P!Line
<1>5. peu.start = s /\ peu.entries = es /\ ~ (s < 0) /\ l.ev # "PEUSTART"
  <2>1. peu.start = s /\ peu.entries = es
    BY DEF Open
  <2>2. l.ev \in {"HIRQENTRY", "HIRQEXIT", "WAITCOMPL", "COMPL"}
    BY DEF PeuLines
  <2> QED
    BY <2>1, <2>2
<1>6. Append(peu.entries, l) = t /\ ~ (peu.start < 0)
  BY <1>5 DEF t
<1>7. peu' = IF b.match = 0 THEN [peu EXCEPT !.entries = t]
             ELSE [P!NoPEU EXCEPT !.irq = t[b.match + 1].irq, !.dur = t[b.match + 1].cycles - peu.start]
  <2>1. PICK k : k = b.match /\ k = P!Scan(t).match
    BY <1>3
  <2>2. t = Append(peu.entries, l)
    BY <1>6
  <2>3. P!AppendToPEU(peu, l) = Found(peu, t, k)
    <3>1. l.ev # "PEUSTART" /\ ~ (peu.start < 0) /\ k = P!Scan(t).match
      BY <1>5, <1>6, <2>1
    <3> QED
      BY <2>2, <3>1, AppendIs
  <2> QED
    BY <1>4, <2>1, <2>3 DEF Found
<1>8. [peu EXCEPT !.entries = t] = Open(s, t)
  BY DEF Open
<1>9. ASSUME b.match # 0, b.match + 1 \in 1..Len(es)
      PROVE  peu' = Closed(es[b.match + 1].irq, es[b.match + 1].cycles - s)
  <2>1. t[b.match + 1] = es[b.match + 1]
    BY <1>2, <1>9
  <2>2. peu' = [P!NoPEU EXCEPT !.irq = es[b.match + 1].irq, !.dur = es[b.match + 1].cycles - s]
    BY <1>5, <1>7, <1>9, <2>1
  <2> QED
    BY <2>2 DEF P!NoPEU, Closed
<1> QED
  BY <1>1, <1>7, <1>8, <1>9 DEF t

LEMMA ClosedLine ==
  ASSUME NEW i, NEW d, peu = Closed(i, d), NEW e, e.ev # "PEUSTART", P!Line(e),
         [e EXCEPT !.cycles = pnow].ev = e.ev
  PROVE  peu' = peu
<1>1. peu.start = -1 /\ -1 < 0
  BY DEF Closed
<1>2. CASE plimbo \/ ~ e.on
  BY <1>2 DEF P!Line
<1>3. CASE ~ (plimbo \/ ~ e.on)
  BY <1>1, <1>3 DEF P!Line, P!AppendToPEU
<1> QED
  BY <1>2, <1>3

Served == {<<>>, <<P!Dma>>, <<P!Timer>>, <<P!Dma, 0>>, <<P!Timer, 0>>}
Hists == [start : Nat, at : Nat, whole : BOOLEAN, first : BOOLEAN, alone : BOOLEAN]

TransferTypes ==
  /\ op \in Ops /\ hirq \in Served /\ hist \in Hists
  /\ pnow \in Nat /\ plimbo \in BOOLEAN

\* The engine's handler was entered and has yet to complete; it has completed.
InHandler == hirq = <<P!Dma>>
Ended == op.irq = FALSE /\ ~ InHandler

\* Index k is that of the engine's interrupt, or 0 if its line was the first.
Caught(es, k) ==
  IF hist.first THEN k = 0
  ELSE /\ k # 0 /\ k + 1 \in 1..Len(es)
       /\ es[k + 1].irq = P!Dma /\ es[k + 1].cycles = hist.at

\* What the scan of the lines of the transfer knows.
Known(es, a) ==
  /\ a.match = 0
  /\ op.phase = "started" /\ ~ Ended => a.var = 0 /\ a.compl = 0
  /\ op.phase = "started" /\ Ended => a.var = P!Own /\ Caught(es, a.compl)
  /\ op.phase = "waiting" => a.var = P!Own /\ a.compl = 0
  /\ op.phase = "waiting" /\ Ended => hist.first = TRUE
  /\ InHandler => Caught(es, a.int)

\* There are no lines yet only right after PEUSTART.
Begun(es) ==
  \/ es = <<>> /\ pnow = hist.start + 1 /\ hirq = <<>> /\ op.irq = TRUE
  \/ es # <<>> /\ pnow > hist.start + 1

IsOpen ==
  \E es \in Seq(PeuLines), a \in Scans :
    peu = Open(hist.start, es) /\ Scanned(es, a) /\ Begun(es) /\ Known(es, a)
IsClosed == op.irq = FALSE /\ peu = Closed(P!Dma, hist.at - hist.start)

\* A transfer that is to be charged: charged already or still looked for.
Expected == op.phase \in {"started", "waiting"} /\ hist.alone = TRUE /\ hist.whole = TRUE

TransferInv ==
  /\ TransferTypes
  /\ hist.whole = TRUE => plimbo = FALSE
  /\ hirq \in {<<P!Dma>>, <<P!Dma, 0>>} => op.irq = FALSE
  /\ Expected => IsOpen \/ IsClosed

LEMMA TransferInit == P!Init => TransferInv
<1> SUFFICES ASSUME P!Init
             PROVE  TransferInv
  OBVIOUS
<1>1. op \in Ops
  BY MeasureAssumption DEF P!Init, Ops, Phases
<1>2. hist \in Hists /\ hirq \in Served
  BY DEF P!Init, Hists, Served
<1>3. hirq = <<>> /\ op.phase = "idle" /\ hist.whole = FALSE /\ op.irq = FALSE
      /\ pnow = 0 /\ plimbo = FALSE
  BY DEF P!Init
<1> QED
  BY <1>1, <1>2, <1>3 DEF TransferInv, TransferTypes, Expected

LEMMA TransferExact == TransferInv => PeuExact
<1> SUFFICES ASSUME TransferInv, hist.alone, hist.whole
             PROVE  /\ peu.irq # 0 /\ P!Began => peu.irq = P!Dma /\ peu.dur = hist.at - hist.start
                    /\ P!Completed /\ ~ hist.first => peu.irq = P!Dma
  BY DEF PeuExact, P!PeuExact
<1>1. hist.alone = TRUE /\ hist.whole = TRUE /\ hist.first \in BOOLEAN
  BY DEF TransferInv, TransferTypes, Hists
<1>2. ASSUME P!Began
      PROVE  IsOpen \/ IsClosed
  BY <1>1, <1>2 DEF TransferInv, Expected, P!Began
<1>3. ASSUME IsOpen
      PROVE  peu.irq = 0
  BY <1>3 DEF IsOpen, Open
<1>4. ASSUME IsClosed
      PROVE  peu.irq = P!Dma /\ peu.dur = hist.at - hist.start
  BY <1>4 DEF IsClosed, Closed
<1>5. ASSUME P!Completed, ~ hist.first
      PROVE  P!Began /\ ~ IsOpen
  <2>1. op.phase = "waiting" /\ ~ op.irq /\ hirq = <<>>
    BY <1>5 DEF P!Completed, P!InThread
  <2>2. op.irq \in BOOLEAN
    BY DEF TransferInv, TransferTypes, Ops
  <2>3. Ended
    BY <2>1, <2>2 DEF Ended, InHandler
  <2>4. ~ IsOpen
    BY <1>5, <2>1, <2>3 DEF IsOpen, Known
  <2> QED
    BY <2>1, <2>4 DEF P!Began
<1> QED
  BY <1>2, <1>3, <1>4, <1>5

LEMMA CaughtStays ==
  ASSUME NEW es \in Seq(PeuLines), NEW l \in PeuLines, NEW k \in Nat, Caught(es, k),
         hist'.first = hist.first, hist'.at = hist.at
  PROVE  Caught(Append(es, l), k)'
<1>1. CASE hist.first
  BY <1>1 DEF Caught
<1>2. CASE ~ hist.first
  <2>1. /\ k # 0 /\ k + 1 \in 1..Len(es)
        /\ es[k + 1].irq = P!Dma /\ es[k + 1].cycles = hist.at
    BY <1>2 DEF Caught
  <2>2. Append(es, l)[k + 1] = es[k + 1] /\ k + 1 \in 1..Len(Append(es, l))
    BY <2>1
  <2> QED
    BY <1>2, <2>1, <2>2 DEF Caught
<1> QED
  BY <1>1, <1>2

\* A line as it is read at time t.
Kinds == {"HIRQENTRY", "HIRQEXIT", "WAITCOMPL", "COMPL"}

LEMMA EntryType ==
  ASSUME NEW ev \in Kinds
  PROVE  P!Entry(ev) \in PeuLines
BY DEF P!Entry, PeuLines, Kinds

LEMMA LineType ==
  ASSUME NEW l \in PeuLines, NEW x \in Nat, NEW on \in BOOLEAN
  PROVE  /\ [l EXCEPT !.irq = x] \in PeuLines
         /\ [l EXCEPT !.var = x] \in PeuLines
         /\ [l EXCEPT !.cycles = x] \in PeuLines
         /\ [l EXCEPT !.on = on] \in PeuLines
BY DEF PeuLines

AtTime(l, e, t) == l = [e EXCEPT !.cycles = t]

\* What is traced on entering handler i, and what is read of it at time t.
EntryLine(e, i) == e = [P!Entry("HIRQENTRY") EXCEPT !.irq = i]
EntryRead(l, e, i, t) ==
  /\ l \in PeuLines /\ l.ev = "HIRQENTRY" /\ l.irq = i /\ l.cycles = t
  /\ e.ev = "HIRQENTRY" /\ e.on = TRUE

LEMMA ReadInterrupt ==
  ASSUME NEW i \in Nat, NEW t \in Nat, NEW e, EntryLine(e, i), NEW l, AtTime(l, e, t)
  PROVE  EntryRead(l, e, i, t)
<1>1. "HIRQENTRY" \in Kinds
  BY DEF Kinds
<1>2. PICK r \in PeuLines : r = P!Entry("HIRQENTRY")
  BY <1>1, EntryType
<1>3. e \in PeuLines
  BY <1>2, LineType DEF EntryLine
<1>4. l \in PeuLines
  BY <1>3, LineType DEF AtTime
<1>5. l.ev = "HIRQENTRY" /\ l.irq = i /\ l.cycles = t
  BY <1>4 DEF P!Entry, AtTime, EntryLine
<1>6. e.ev = "HIRQENTRY" /\ e.on = TRUE
  BY <1>3 DEF P!Entry, EntryLine
<1> QED
  BY <1>4, <1>5, <1>6 DEF EntryRead

\* What is traced of the use of variable v, and what is read of it.
Uses == {"WAITCOMPL", "COMPL"}
UseLine(e, ev, v) == e = [P!Entry(ev) EXCEPT !.var = v]
UseRead(l, e, ev, v) ==
  l \in PeuLines /\ l.ev = ev /\ l.var = v /\ e.ev = ev /\ e.on = TRUE

LEMMA ReadUse ==
  ASSUME NEW ev \in Uses, NEW v \in Nat, NEW t \in Nat,
         NEW e, UseLine(e, ev, v), NEW l, AtTime(l, e, t)
  PROVE  UseRead(l, e, ev, v)
<1>1. ev \in Kinds
  BY DEF Kinds, Uses
<1>2. PICK r \in PeuLines : r = P!Entry(ev)
  BY <1>1, EntryType
<1>3. e \in PeuLines
  BY <1>2, LineType DEF UseLine
<1>4. l \in PeuLines
  BY <1>3, LineType DEF AtTime
<1>5. l.ev = ev /\ l.var = v
  BY <1>4 DEF P!Entry, AtTime, UseLine
<1>6. e.ev = ev /\ e.on = TRUE
  BY <1>3 DEF P!Entry, UseLine
<1> QED
  BY <1>4, <1>5, <1>6 DEF UseRead

\* What is traced on leaving a handler, and what is read of it.
ExitLine(e, on) == e = [P!Entry("HIRQEXIT") EXCEPT !.on = on]
ExitRead(l, e, on) == l \in PeuLines /\ l.ev = "HIRQEXIT" /\ e.ev = "HIRQEXIT" /\ e.on = on

LEMMA ReadExit ==
  ASSUME NEW on \in BOOLEAN, NEW t \in Nat, NEW e, ExitLine(e, on), NEW l, AtTime(l, e, t)
  PROVE  ExitRead(l, e, on)
<1>1. "HIRQEXIT" \in Kinds
  BY DEF Kinds
<1>2. PICK r \in PeuLines : r = P!Entry("HIRQEXIT")
  BY <1>1, EntryType
<1>3. e \in PeuLines
  BY <1>2, LineType DEF ExitLine
<1>4. l \in PeuLines
  BY <1>3, LineType DEF AtTime
<1>5. l.ev = "HIRQEXIT"
  BY <1>4 DEF P!Entry, AtTime, ExitLine
<1>6. e.ev = "HIRQEXIT" /\ e.on = on
  BY <1>3 DEF P!Entry, ExitLine
<1> QED
  BY <1>4, <1>5, <1>6 DEF ExitRead
\* A transfer that is looked for, when a line of it is read: a line that closes
\* nothing leaves it open.
LEMMA StaysOpen ==
  ASSUME TransferInv, NEW es \in Seq(PeuLines), NEW a \in Scans,
         peu = Open(hist.start, es), Scanned(es, a), Begun(es), plimbo = FALSE,
         NEW e, e.on = TRUE, P!Line(e), NEW l \in PeuLines, l = [e EXCEPT !.cycles = pnow],
         NEW b \in Scans, b = P!ScanLine(a, l, Len(es) + 1), hist'.start = hist.start,
         Known(Append(es, l), b)'
  PROVE  IsOpen'
<1>1. hist.start \in Nat /\ pnow \in Nat
  BY DEF TransferInv, TransferTypes, Hists
<1>2. b.match = 0
  BY DEF Known
<1>3. peu' = Open(hist.start, Append(es, l)) /\ Scanned(Append(es, l), b)
  BY <1>1, <1>2, OpenLine
<1>4. Append(es, l) \in Seq(PeuLines) /\ Append(es, l) # <<>>
  OBVIOUS
<1>5. pnow' = pnow + 1
  BY DEF P!Line
<1>6. pnow' > hist.start + 1
  BY <1>1, <1>5 DEF Begun
<1> DEFINE t == Append(es, l)
<1>7. peu' = Open(hist'.start, t) /\ Scanned(t, b) /\ t # <<>> /\ pnow' > hist'.start + 1
      /\ t \in Seq(PeuLines) /\ Known(t, b)'
  BY <1>3, <1>4, <1>6
<1> HIDE DEF t
<1>8. Begun(t)'
  BY <1>7 DEF Begun
<1> QED
  BY <1>7, <1>8 DEF IsOpen

LEMMA InterruptEntered ==
  ASSUME TransferInv, NEW i \in {P!Dma, P!Timer}, P!handle_IRQ_event(i)
  PROVE  TransferInv'
<1>e. PICK e : e = [P!Entry("HIRQENTRY") EXCEPT !.irq = i]
  OBVIOUS
<1>1. /\ hirq = <<>> /\ hirq' = <<i>> /\ P!Line(e) /\ plimbo' = plimbo
      /\ i = P!Dma => /\ op.irq /\ op' = [op EXCEPT !.irq = FALSE]
                      /\ hist' = [hist EXCEPT !.at = pnow, !.first = (pnow = hist.start + 1)]
      /\ i = P!Timer => op' = op /\ hist' = hist
  BY <1>e DEF P!handle_IRQ_event, P!InThread, P!Dma, P!Timer
<1>2. TransferTypes /\ op \in Ops /\ hist \in Hists /\ pnow \in Nat
  BY DEF TransferInv, TransferTypes
<1>3. /\ op' \in Ops /\ op'.phase = op.phase
      /\ i = P!Dma => op.irq = TRUE /\ op'.irq = FALSE
  BY <1>1, <1>2 DEF Ops, P!Dma, P!Timer
<1>4. /\ hist' \in Hists /\ hist'.start = hist.start /\ hist'.whole = hist.whole
      /\ hist'.alone = hist.alone
      /\ i = P!Dma => hist'.at = pnow /\ hist'.first = (pnow = hist.start + 1)
  BY <1>1, <1>2 DEF Hists, P!Dma, P!Timer
<1>5. pnow' = pnow + 1 /\ pnow' \in Nat
  BY <1>1, <1>2 DEF P!Line
<1>6. hirq' \in Served
  BY <1>1 DEF Served
<1>7. TransferTypes'
  BY <1>1, <1>2, <1>3, <1>4, <1>5, <1>6 DEF TransferTypes
<1>8. hist'.whole = TRUE => plimbo' = FALSE
  BY <1>1, <1>4 DEF TransferInv
<1>9. hirq' \in {<<P!Dma>>, <<P!Dma, 0>>} => op'.irq = FALSE
  BY <1>1, <1>3 DEF P!Dma, P!Timer
<1>10. ASSUME Expected'
       PROVE  IsOpen' \/ IsClosed'
  <2>1. Expected /\ plimbo = FALSE
    BY <1>3, <1>4, <1>10 DEF Expected, TransferInv
  <2>2. PICK l : l = [e EXCEPT !.cycles = pnow]
    OBVIOUS
  <2>3. /\ l \in PeuLines /\ l.ev = "HIRQENTRY" /\ l.irq = i /\ l.cycles = pnow
        /\ e.on = TRUE /\ e.ev = "HIRQENTRY" /\ l.ev = e.ev
    <3>1. i \in Nat
      BY DEF P!Dma, P!Timer
    <3>2. EntryLine(e, i) /\ AtTime(l, e, pnow)
      BY <1>e, <2>2 DEF EntryLine, AtTime
    <3>3. EntryRead(l, e, i, pnow)
      BY <1>2, <3>1, <3>2, ReadInterrupt
    <3> QED
      BY <3>3 DEF EntryRead
  <2>4. CASE IsClosed
    <3>1. i = P!Timer
      BY <1>3, <2>4 DEF IsClosed
    <3>2. peu' = peu
      BY <1>1, <2>2, <2>3, <2>4, ClosedLine DEF IsClosed
    <3> QED
      BY <1>1, <2>4, <3>1, <3>2 DEF IsClosed
  <2>5. CASE IsOpen
    <3>1. PICK es \in Seq(PeuLines), a \in Scans :
                 peu = Open(hist.start, es) /\ Scanned(es, a) /\ Begun(es) /\ Known(es, a)
      BY <2>5 DEF IsOpen
    <3> DEFINE k == Len(es)
               b == [a EXCEPT !.int = k]
               t == Append(es, l)
    <3>2. k \in Nat /\ Len(t) = k + 1 /\ t[k + 1] = l /\ (k = 0 <=> es = <<>>)
      BY <2>2, <2>3
    <3>3. b \in Scans /\ b = P!ScanLine(a, l, k + 1)
      <4>1. k + 1 \in Nat \ {0} /\ (k + 1) - 1 = k
        BY <3>2
      <4>2. P!ScanLine(a, l, k + 1) = [a EXCEPT !.int = (k + 1) - 1]
            /\ [a EXCEPT !.int = (k + 1) - 1] \in Scans
        BY <2>2, <2>3, <4>1, ScanInterrupt
      <4> QED
        BY <4>1, <4>2
    <3>4. b.int = k /\ b.var = a.var /\ b.compl = a.compl /\ b.match = a.match
      BY DEF Scans
    <3> HIDE DEF b, t, k
    <3>5. Known(t, b)'
      <4>1. CASE i = P!Timer
        <5>1. ~ InHandler /\ ~ InHandler' /\ (Ended' <=> Ended)
          BY <1>1, <4>1 DEF InHandler, Ended, P!Dma, P!Timer
        <5>2. ASSUME Caught(es, a.compl)
              PROVE  Caught(t, b.compl)'
          <6>1. a.compl \in Nat
            BY DEF Scans
          <6>2. Caught(t, a.compl)'
            BY <1>1, <2>2, <2>3, <4>1, <5>2, <6>1, CaughtStays DEF t
          <6> QED
            BY <3>4, <6>2
        <5> QED
          BY <1>1, <1>3, <3>1, <3>4, <4>1, <5>1, <5>2 DEF Known
      <4>2. CASE i = P!Dma
        <5>1. InHandler' /\ ~ Ended' /\ ~ Ended
          BY <1>1, <1>3, <4>2 DEF InHandler, Ended
        <5>2. Caught(t, b.int)'
          <6>1. CASE es = <<>>
            <7>1. hist'.first
              BY <1>4, <3>1, <4>2, <6>1 DEF Begun
            <7> QED
              BY <3>2, <3>4, <6>1, <7>1 DEF Caught
          <6>2. CASE es # <<>>
            <7>1. ~ hist'.first
              BY <1>2, <1>4, <3>1, <4>2, <6>2 DEF Begun, Hists
            <7>2. k # 0 /\ k + 1 \in 1..Len(t)
              BY <3>2, <6>2
            <7> QED
              BY <1>4, <2>2, <2>3, <3>2, <3>4, <4>2, <7>1, <7>2 DEF Caught
          <6> QED
            BY <6>1, <6>2
        <5> QED
          BY <1>3, <3>1, <3>4, <5>1, <5>2 DEF Known
      <4> QED
        BY <4>1, <4>2
    <3> QED
      BY <1>1, <1>4, <2>1, <2>2, <2>3, <3>1, <3>3, <3>5, StaysOpen DEF t, k
  <2> QED
    BY <2>1, <2>4, <2>5 DEF TransferInv
<1> QED
  BY <1>7, <1>8, <1>9, <1>10 DEF TransferInv

\* A line that matches the use of the completion closes it.
LEMMA Closes ==
  ASSUME TransferInv, NEW es \in Seq(PeuLines), NEW a \in Scans,
         peu = Open(hist.start, es), Scanned(es, a), plimbo = FALSE,
         NEW e, e.on = TRUE, P!Line(e), NEW l \in PeuLines, l = [e EXCEPT !.cycles = pnow],
         NEW b \in Scans, b = P!ScanLine(a, l, Len(es) + 1), b.match # 0,
         Caught(es, b.match), hist'.start = hist.start, hist'.at = hist.at, op'.irq = FALSE
  PROVE  IsClosed'
<1>1. hist.start \in Nat /\ hist.first \in BOOLEAN
  BY DEF TransferInv, TransferTypes, Hists
<1>2. /\ b.match + 1 \in 1..Len(es)
      /\ es[b.match + 1].irq = P!Dma /\ es[b.match + 1].cycles = hist.at
  BY DEF Caught
<1>3. peu' = Closed(es[b.match + 1].irq, es[b.match + 1].cycles - hist.start)
  BY <1>1, <1>2, OpenLine
<1>4. peu' = Closed(P!Dma, hist.at - hist.start)
  BY <1>2, <1>3
<1> QED
  BY <1>4 DEF IsClosed

LEMMA WaitBegins ==
  ASSUME TransferInv, P!wait_for_completion_timeout
  PROVE  TransferInv'
<1>e. PICK e : e = [P!Entry("WAITCOMPL") EXCEPT !.var = P!Own]
  OBVIOUS
<1>1. /\ hirq = <<>> /\ hirq' = hirq /\ P!Line(e) /\ plimbo' = plimbo /\ hist' = hist
      /\ op.phase = "started" /\ op' = [op EXCEPT !.phase = "waiting"]
  BY <1>e DEF P!wait_for_completion_timeout, P!DriverRuns, P!InThread, P!Sync
<1>2. TransferTypes /\ op \in Ops /\ hist \in Hists /\ pnow \in Nat
  BY DEF TransferInv, TransferTypes
<1>3. op' \in Ops /\ op'.phase = "waiting" /\ op'.irq = op.irq /\ op.irq \in BOOLEAN
  BY <1>1, <1>2 DEF Ops, Phases
<1>4. pnow' = pnow + 1 /\ pnow' \in Nat
  BY <1>1, <1>2 DEF P!Line
<1>5. TransferTypes'
  BY <1>1, <1>2, <1>3, <1>4 DEF TransferTypes
<1>6. hist'.whole = TRUE => plimbo' = FALSE
  BY <1>1 DEF TransferInv
<1>7. hirq' \in {<<P!Dma>>, <<P!Dma, 0>>} => op'.irq = FALSE
  BY <1>1
<1>8. ASSUME Expected'
      PROVE  IsOpen' \/ IsClosed'
  <2>1. Expected /\ plimbo = FALSE
    BY <1>1, <1>8 DEF Expected, TransferInv
  <2>2. PICK l : l = [e EXCEPT !.cycles = pnow]
    OBVIOUS
  <2>3. /\ l \in PeuLines /\ l.ev = "WAITCOMPL" /\ l.var = P!Own
        /\ e.on = TRUE /\ e.ev = "WAITCOMPL" /\ l.ev = e.ev
    <3>1. P!Own \in Nat /\ "WAITCOMPL" \in Uses
      BY DEF P!Own, Uses
    <3>2. UseLine(e, "WAITCOMPL", P!Own) /\ AtTime(l, e, pnow)
      BY <1>e, <2>2 DEF UseLine, AtTime
    <3>3. UseRead(l, e, "WAITCOMPL", P!Own)
      BY <1>2, <3>1, <3>2, ReadUse
    <3> QED
      BY <3>3 DEF UseRead
  <2>4. CASE IsClosed
    <3>1. peu' = peu
      BY <1>1, <2>2, <2>3, <2>4, ClosedLine DEF IsClosed
    <3> QED
      BY <1>1, <1>3, <2>4, <3>1 DEF IsClosed
  <2>5. CASE IsOpen
    <3>1. PICK es \in Seq(PeuLines), a \in Scans :
                 peu = Open(hist.start, es) /\ Scanned(es, a) /\ Begun(es) /\ Known(es, a)
      BY <2>5 DEF IsOpen
    <3>2. PICK k \in Nat : k = Len(es)
      OBVIOUS
    <3>3. PICK b : b = P!ScanLine(a, l, k + 1)
      OBVIOUS
    <3>4. a.compl \in Nat /\ a.compl = IF l.ev = "COMPL" /\ a.int # 0 THEN a.int ELSE a.compl
      BY <2>3 DEF Scans
    <3>5. /\ b \in Scans
          /\ b.int = a.int
          /\ a.var = 0 => b.var = P!Own /\ b.compl = a.compl /\ b.match = a.match
          /\ a.var # 0 => b.var = a.var
          /\ a.var # 0 /\ a.compl = 0 => b.compl = 0 /\ b.match = a.match
          /\ a.var = P!Own /\ a.compl # 0 => b.match = a.compl
      <4>1. k + 1 \in Nat \ {0} /\ l.ev \in {"WAITCOMPL", "COMPL"} /\ P!Own # 0
        BY <2>3 DEF P!Own
      <4> QED
        BY <2>3, <3>3, <3>4, <4>1, ScanUse
    <3>6. ~ InHandler /\ ~ InHandler' /\ (Ended' <=> Ended)
      BY <1>1, <1>3 DEF InHandler, Ended
    <3>7. CASE ~ Ended
      <4>1. Known(Append(es, l), b)'
        BY <1>3, <3>1, <3>5, <3>6, <3>7, <1>1 DEF Known, P!Own
      <4> QED
        BY <1>1, <2>1, <2>2, <2>3, <3>1, <3>2, <3>3, <3>5, <4>1, StaysOpen
    <3>8. CASE Ended /\ a.compl = 0
      <4>1. hist.first = TRUE /\ a.var = P!Own
        BY <1>1, <1>2, <3>1, <3>8 DEF Known, Caught, Hists
      <4>2. Known(Append(es, l), b)'
        BY <1>1, <1>3, <3>1, <3>5, <3>6, <3>8, <4>1 DEF Known, P!Own
      <4> QED
        BY <1>1, <2>1, <2>2, <2>3, <3>1, <3>2, <3>3, <3>5, <4>2, StaysOpen
    <3>9. CASE Ended /\ a.compl # 0
      <4>1. Caught(es, a.compl) /\ a.var = P!Own
        BY <1>1, <3>1, <3>9 DEF Known
      <4>2. b.match = a.compl /\ op'.irq = FALSE /\ Caught(es, b.match)
        BY <1>3, <3>5, <3>9, <4>1 DEF Ended
      <4> QED
        BY <1>1, <2>1, <2>2, <2>3, <3>1, <3>2, <3>3, <3>5, <3>9, <4>2, Closes
    <3> QED
      BY <3>7, <3>8, <3>9
  <2> QED
    BY <2>1, <2>4, <2>5 DEF TransferInv
<1> QED
  BY <1>5, <1>6, <1>7, <1>8 DEF TransferInv

LEMMA AppendPair == ASSUME NEW x \in Nat PROVE Append(<<x>>, 0) = <<x, 0>>
<1> DEFINE s == Append(<<x>>, 0)
           t == <<x, 0>>
<1>1. /\ s \in Seq(Nat) /\ t \in Seq(Nat) /\ Len(s) = 2 /\ Len(t) = 2
      /\ s[1] = x /\ s[2] = 0 /\ t[1] = x /\ t[2] = 0
  OBVIOUS
<1> HIDE DEF s, t
<1>2. \A i \in 1..2 : s[i] = t[i]
  BY <1>1
<1>3. s = t
  BY <1>1, <1>2, SeqEqual
<1> QED
  BY <1>3 DEF s, t

LEMMA Serving ==
  ASSUME NEW h \in Served
  PROVE  /\ Len(h) = 1 => h \in {<<P!Dma>>, <<P!Timer>>} /\ Append(h, 0) \in Served
         /\ Len(h) = 1 /\ Append(h, 0) \in {<<P!Dma>>, <<P!Dma, 0>>} => h = <<P!Dma>>
         /\ Len(h) = 1 /\ h[1] = P!Dma => h = <<P!Dma>> /\ Append(h, 0) = <<P!Dma, 0>>
         /\ h[1] = P!Timer \/ Len(h) = 2 => h # <<P!Dma>>
         /\ <<P!Dma, 0>> # <<P!Dma>>
<1>1. CASE h = <<>>
  BY <1>1 DEF Served, P!Dma, P!Timer
<1>2. CASE h = <<P!Dma>>
  <2>1. Len(h) = 1 /\ h[1] = P!Dma /\ Append(h, 0) = <<P!Dma, 0>> /\ P!Dma # P!Timer
    BY <1>2, AppendPair DEF P!Dma, P!Timer
  <2>2. <<P!Dma, 0>> # <<P!Dma>>
    OBVIOUS
  <2> QED
    BY <1>2, <2>1, <2>2 DEF Served
<1>3. CASE h = <<P!Timer>>
  <2>1. Len(h) = 1 /\ h[1] = P!Timer /\ Append(h, 0) = <<P!Timer, 0>> /\ P!Dma # P!Timer
    BY <1>3, AppendPair DEF P!Dma, P!Timer
  <2>2. <<P!Dma, 0>> # <<P!Dma>>
    OBVIOUS
  <2>3. <<P!Timer, 0>> # <<P!Dma, 0>> /\ <<P!Timer, 0>> # <<P!Dma>>
    BY DEF P!Dma, P!Timer
  <2>4. h # <<P!Dma>>
    BY <2>1
  <2> QED
    BY <1>3, <2>1, <2>2, <2>3, <2>4 DEF Served
<1>4. CASE h = <<P!Dma, 0>> \/ h = <<P!Timer, 0>>
  <2>1. Len(h) = 2
    BY <1>4
  <2>2. h # <<P!Dma>> /\ <<P!Dma, 0>> # <<P!Dma>>
    BY <2>1
  <2> QED
    BY <2>1, <2>2
<1> QED
  BY <1>1, <1>2, <1>3, <1>4 DEF Served

LEMMA CompletionDone ==
  ASSUME TransferInv, P!complete
  PROVE  TransferInv'
<1>e. PICK e : e = [P!Entry("COMPL") EXCEPT !.var = P!Own]
  OBVIOUS
<1>1. /\ Len(hirq) = 1 /\ hirq' = Append(hirq, 0) /\ plimbo' = plimbo /\ op' = op
      /\ hist' = [hist EXCEPT !.alone = hist.alone /\ hirq[1] = P!Dma]
      /\ hirq[1] = P!Dma => P!Line(e)
      /\ pnow' = pnow + 1
  BY <1>e DEF P!complete, P!Sync, P!Line
<1>2. TransferTypes /\ op \in Ops /\ hist \in Hists /\ pnow \in Nat /\ hirq \in Served
  BY DEF TransferInv, TransferTypes
<1>3. /\ hirq' \in Served
      /\ hirq' \in {<<P!Dma>>, <<P!Dma, 0>>} => hirq = <<P!Dma>>
      /\ hirq[1] = P!Dma => hirq = <<P!Dma>> /\ hirq' = <<P!Dma, 0>> /\ hirq' # <<P!Dma>>
  BY <1>1, <1>2, Serving
<1>4. PICK d \in BOOLEAN : d = (hirq[1] = P!Dma)
  OBVIOUS
<1>5. PICK al \in BOOLEAN : al = (hist.alone /\ hirq[1] = P!Dma)
  OBVIOUS
<1>6. /\ hist' \in Hists /\ hist'.start = hist.start /\ hist'.at = hist.at
      /\ hist'.whole = hist.whole /\ hist'.first = hist.first /\ hist'.alone = al
  BY <1>1, <1>2, <1>5 DEF Hists
<1>7. TransferTypes'
  BY <1>1, <1>2, <1>3, <1>6 DEF TransferTypes
<1>8. hist'.whole = TRUE => plimbo' = FALSE
  BY <1>1, <1>6 DEF TransferInv
<1>9. hirq' \in {<<P!Dma>>, <<P!Dma, 0>>} => op'.irq = FALSE
  BY <1>1, <1>3 DEF TransferInv
<1>10. ASSUME Expected'
       PROVE  IsOpen' \/ IsClosed'
  <2>0. al = TRUE
    BY <1>6, <1>10 DEF Expected
  <2>1. hirq[1] = P!Dma /\ hist.alone = TRUE
    BY <1>2, <1>5, <2>0 DEF Hists
  <2>2. Expected /\ plimbo = FALSE /\ P!Line(e)
    BY <1>1, <1>6, <1>10, <2>1 DEF Expected, TransferInv
  <2>3. hirq = <<P!Dma>> /\ hirq' # <<P!Dma>> /\ op.irq = FALSE
    BY <1>3, <2>1 DEF TransferInv
  <2>4. PICK l : l = [e EXCEPT !.cycles = pnow]
    OBVIOUS
  <2>5. /\ l \in PeuLines /\ l.ev = "COMPL" /\ l.var = P!Own
        /\ e.on = TRUE /\ e.ev = "COMPL" /\ l.ev = e.ev
    <3>1. P!Own \in Nat /\ "COMPL" \in Uses
      BY DEF P!Own, Uses
    <3>2. UseLine(e, "COMPL", P!Own) /\ AtTime(l, e, pnow)
      BY <1>e, <2>4 DEF UseLine, AtTime
    <3>3. UseRead(l, e, "COMPL", P!Own)
      BY <1>2, <3>1, <3>2, ReadUse
    <3> QED
      BY <3>3 DEF UseRead
  <2>6. CASE IsClosed
    <3>1. peu' = peu
      BY <2>2, <2>4, <2>5, <2>6, ClosedLine DEF IsClosed
    <3> QED
      BY <1>1, <1>6, <2>6, <3>1 DEF IsClosed
  <2>7. CASE IsOpen
    <3>1. PICK es \in Seq(PeuLines), a \in Scans :
                 peu = Open(hist.start, es) /\ Scanned(es, a) /\ Begun(es) /\ Known(es, a)
      BY <2>7 DEF IsOpen
    <3>2. PICK k \in Nat : k = Len(es)
      OBVIOUS
    <3>3. PICK b : b = P!ScanLine(a, l, k + 1)
      OBVIOUS
    <3>4. op.phase \in {"started", "waiting"} /\ InHandler /\ ~ Ended /\ Ended' /\ ~ InHandler'
      BY <1>1, <2>2, <2>3 DEF Expected, InHandler, Ended
    <3>5. /\ a.compl = 0 /\ a.match = 0 /\ Caught(es, a.int)
          /\ op.phase = "started" => a.var = 0
          /\ op.phase = "waiting" => a.var = P!Own
      BY <3>1, <3>4 DEF Known
    <3>6. a.int \in Nat /\ a.int = IF l.ev = "COMPL" /\ a.int # 0 THEN a.int ELSE a.compl
      BY <2>5, <3>5 DEF Scans
    <3>7. /\ b \in Scans
          /\ a.var = 0 => b.var = P!Own /\ b.compl = a.int /\ b.match = a.match
          /\ a.var # 0 => b.var = a.var
          /\ a.var # 0 /\ a.int = 0 => b.compl = 0 /\ b.match = a.match
          /\ a.var = P!Own /\ a.int # 0 => b.match = a.int
      <4>1. k + 1 \in Nat \ {0} /\ l.ev \in {"WAITCOMPL", "COMPL"} /\ P!Own # 0
        BY <2>5 DEF P!Own
      <4> QED
        BY <2>5, <3>3, <3>6, <4>1, ScanUse
    <3>8. CASE op.phase = "started"
      <4>1. Caught(Append(es, l), a.int)'
        BY <1>6, <2>5, <3>5, <3>6, CaughtStays
      <4>2. Known(Append(es, l), b)'
        BY <1>1, <3>4, <3>5, <3>7, <3>8, <4>1 DEF Known
      <4> QED
        BY <1>6, <2>2, <2>4, <2>5, <3>1, <3>2, <3>3, <3>7, <4>2, StaysOpen
    <3>9. CASE op.phase = "waiting" /\ a.int = 0
      <4>1. hist.first = TRUE
        BY <1>2, <3>5, <3>9 DEF Caught, Hists
      <4>2. Known(Append(es, l), b)'
        BY <1>1, <1>6, <3>4, <3>5, <3>7, <3>9, <4>1 DEF Known, P!Own
      <4> QED
        BY <1>6, <2>2, <2>4, <2>5, <3>1, <3>2, <3>3, <3>7, <4>2, StaysOpen
    <3>10. CASE op.phase = "waiting" /\ a.int # 0
      <4>1. b.match = a.int /\ op'.irq = FALSE /\ Caught(es, b.match)
        BY <1>1, <2>3, <3>5, <3>7, <3>10
      <4> QED
        BY <1>6, <2>2, <2>4, <2>5, <3>1, <3>2, <3>3, <3>7, <3>10, <4>1, Closes
    <3> QED
      BY <3>4, <3>8, <3>9, <3>10
  <2> QED
    BY <2>2, <2>6, <2>7 DEF TransferInv
<1> QED
  BY <1>7, <1>8, <1>9, <1>10 DEF TransferInv

LEMMA HandlerLeft ==
  ASSUME TransferInv, P!HandlerReturns
  PROVE  TransferInv'
<1>1. PICK on \in BOOLEAN : P!Line([P!Entry("HIRQEXIT") EXCEPT !.on = on])
  BY DEF P!HandlerReturns
<1>e. PICK e : e = [P!Entry("HIRQEXIT") EXCEPT !.on = on] /\ P!Line(e)
  BY <1>1
<1>2. /\ hirq # <<>> /\ (hirq[1] = P!Timer \/ Len(hirq) = 2) /\ hirq' = <<>>
      /\ op' = op /\ hist' = hist /\ plimbo' = plimbo
  BY DEF P!HandlerReturns
<1>3. TransferTypes /\ op \in Ops /\ hist \in Hists /\ pnow \in Nat
  BY DEF TransferInv, TransferTypes
<1>4. pnow' = pnow + 1 /\ pnow' \in Nat
  BY <1>e, <1>3 DEF P!Line
<1>5. hirq' \in Served
  BY <1>2 DEF Served
<1>6. TransferTypes'
  BY <1>2, <1>3, <1>4, <1>5 DEF TransferTypes
<1>7. hist'.whole = TRUE => plimbo' = FALSE
  BY <1>2 DEF TransferInv
<1>8. hirq' \in {<<P!Dma>>, <<P!Dma, 0>>} => op'.irq = FALSE
  BY <1>2
<1>9. ASSUME Expected'
      PROVE  IsOpen' \/ IsClosed'
  <2>1. Expected /\ plimbo = FALSE
    BY <1>2, <1>9 DEF Expected, TransferInv
  <2>2. PICK l : l = [e EXCEPT !.cycles = pnow]
    OBVIOUS
  <2>3. l \in PeuLines /\ l.ev = "HIRQEXIT" /\ e.ev = "HIRQEXIT" /\ e.on = on /\ l.ev = e.ev
    <3>1. ExitLine(e, on) /\ AtTime(l, e, pnow)
      BY <1>e, <2>2 DEF ExitLine, AtTime
    <3>2. ExitRead(l, e, on)
      BY <1>3, <3>1, ReadExit
    <3> QED
      BY <3>2 DEF ExitRead
  <2>4. CASE IsClosed
    <3>1. peu' = peu
      BY <1>e, <2>2, <2>3, <2>4, ClosedLine DEF IsClosed
    <3> QED
      BY <1>2, <2>4, <3>1 DEF IsClosed
  <2>5. CASE IsOpen
    <3>1. PICK es \in Seq(PeuLines), a \in Scans :
                 peu = Open(hist.start, es) /\ Scanned(es, a) /\ Begun(es) /\ Known(es, a)
      BY <2>5 DEF IsOpen
    <3>2. ~ InHandler /\ ~ InHandler' /\ (Ended' <=> Ended)
      <4>1. hirq # <<P!Dma>> /\ hirq' # <<P!Dma>>
        BY <1>2, Serving DEF TransferInv, TransferTypes
      <4> QED
        BY <1>2, <4>1 DEF InHandler, Ended
    <3>3. CASE on = FALSE
      <4>1. peu' = peu
        BY <1>e, <2>3, <3>3 DEF P!Line
      <4>2. Begun(es)'
        BY <1>2, <1>3, <1>4, <3>1 DEF Begun, Hists
      <4>3. Known(es, a)'
        BY <1>2, <3>1, <3>2 DEF Known, Caught
      <4> QED
        BY <1>2, <3>1, <4>1, <4>2, <4>3 DEF IsOpen
    <3>4. CASE on = TRUE
      <4>1. PICK k \in Nat : k = Len(es)
        OBVIOUS
      <4>2. PICK b \in Scans : b = [a EXCEPT !.int = 0] /\ b = P!ScanLine(a, l, k + 1)
        <5>1. k + 1 \in Nat \ {0}
          OBVIOUS
        <5>2. P!ScanLine(a, l, k + 1) = [a EXCEPT !.int = 0] /\ [a EXCEPT !.int = 0] \in Scans
          BY <2>3, <5>1, ScanInterrupt
        <5> QED
          BY <5>2
      <4>3. b.var = a.var /\ b.compl = a.compl /\ b.match = a.match /\ a.compl \in Nat
        BY <4>2 DEF Scans
      <4>4. ASSUME Caught(es, a.compl)
            PROVE  Caught(Append(es, l), b.compl)'
        <5>1. Caught(Append(es, l), a.compl)'
          BY <1>2, <2>3, <4>3, <4>4, CaughtStays
        <5> QED
          BY <4>3, <5>1
      <4>5. Known(Append(es, l), b)'
        BY <1>2, <3>1, <3>2, <4>3, <4>4 DEF Known
      <4> QED
        BY <1>e, <1>2, <2>1, <2>2, <2>3, <3>1, <3>4, <4>1, <4>2, <4>5, StaysOpen
    <3> QED
      BY <3>3, <3>4
  <2> QED
    BY <2>1, <2>4, <2>5 DEF TransferInv
<1> QED
  BY <1>6, <1>7, <1>8, <1>9 DEF TransferInv

LEMMA TransferStarted ==
  ASSUME TransferInv, P!omap_start_dma
  PROVE  TransferInv'
<1>e. PICK e : e = P!Entry("PEUSTART")
  OBVIOUS
<1>1. /\ hirq = <<>> /\ hirq' = hirq /\ P!Line(e) /\ plimbo' = plimbo
      /\ op' = [op EXCEPT !.phase = "started", !.irq = TRUE]
      /\ hist' = [hist EXCEPT !.start = pnow, !.whole = hist.whole /\ ~ plimbo]
  BY <1>e DEF P!omap_start_dma, P!DriverRuns, P!InThread
<1>2. TransferTypes /\ op \in Ops /\ hist \in Hists /\ pnow \in Nat /\ plimbo \in BOOLEAN
  BY DEF TransferInv, TransferTypes
<1>3. op' \in Ops /\ op'.phase = "started" /\ op'.irq = TRUE
  BY <1>1, <1>2 DEF Ops, Phases
<1>4. pnow' = pnow + 1 /\ pnow' \in Nat
  BY <1>1, <1>2 DEF P!Line
<1>5. PICK w \in BOOLEAN : w = (hist.whole /\ ~ plimbo)
  OBVIOUS
<1>6. hist' \in Hists /\ hist'.start = pnow /\ hist'.whole = w
  BY <1>1, <1>2, <1>5 DEF Hists
<1>7. TransferTypes'
  BY <1>1, <1>2, <1>3, <1>4, <1>6 DEF TransferTypes
<1>8. hist'.whole = TRUE => plimbo' = FALSE
  BY <1>1, <1>2, <1>5, <1>6
<1>9. hirq' \in {<<P!Dma>>, <<P!Dma, 0>>} => op'.irq = FALSE
  BY <1>1
<1>10. ASSUME Expected'
       PROVE  IsOpen'
  <2>1. plimbo = FALSE
    BY <1>1, <1>8, <1>10 DEF Expected
  <2>2. PICK l : l = [e EXCEPT !.cycles = pnow]
    OBVIOUS
  <2>3. e.on = TRUE /\ l.ev = "PEUSTART" /\ l.cycles = pnow
    BY <1>e, <2>2 DEF P!Entry
  <2>4. peu' = P!AppendToPEU(peu, l)
    BY <1>1, <2>1, <2>2, <2>3 DEF P!Line
  <2>5. P!AppendToPEU(peu, l) = [P!NoPEU EXCEPT !.start = pnow]
    BY <2>3, Zenon DEF P!AppendToPEU
  <2>6. peu' = Open(hist'.start, <<>>)
    BY <1>6, <2>4, <2>5 DEF P!NoPEU, Open
  <2>7. PICK a \in Scans : a = P!Unscanned /\ Scanned(<<>>, a)
    BY ScanEmpty DEF Scans, P!Unscanned
  <2>8. a.var = 0 /\ a.compl = 0 /\ a.match = 0
    BY <2>7 DEF P!Unscanned
  <2>9. Begun(<<>>)'
    BY <1>1, <1>3, <1>4, <1>6 DEF Begun
  <2>10. Known(<<>>, a)'
    <3>1. ~ InHandler' /\ ~ Ended'
      BY <1>1, <1>3 DEF InHandler, Ended
    <3> QED
      BY <1>3, <2>8, <3>1 DEF Known
  <2>11. <<>> \in Seq(PeuLines)
    OBVIOUS
  <2> QED
    BY <2>6, <2>7, <2>9, <2>10, <2>11 DEF IsOpen
<1> QED
  BY <1>7, <1>8, <1>9, <1>10 DEF TransferInv

\* Steps after which no transfer is to be charged.
LEMMA TransferDeclared ==
  ASSUME TransferInv, P!DECLARE_COMPLETION_ONSTACK
  PROVE  TransferInv'
<1>1. /\ hirq = <<>> /\ hirq' = hirq /\ plimbo' = plimbo /\ pnow' = pnow + 1
      /\ op.nr < MaxOps /\ op' = [op EXCEPT !.phase = "declared", !.nr = @ + 1]
      /\ hist' = P!Fresh
  BY DEF P!DECLARE_COMPLETION_ONSTACK, P!DriverRuns, P!InThread, P!Line
<1>2. op \in Ops /\ hist \in Hists /\ pnow \in Nat /\ plimbo \in BOOLEAN /\ hirq \in Served
  BY DEF TransferInv, TransferTypes
<1>3. op' \in Ops /\ op'.phase = "declared"
  <2>1. op.nr \in 0..MaxOps /\ op.nr + 1 \in 0..MaxOps
    BY <1>1, <1>2, MeasureAssumption DEF Ops
  <2>2. op' = [op EXCEPT !.phase = "declared", !.nr = op.nr + 1]
    BY <1>1
  <2>3. op' \in Ops
    BY <1>2, <2>1, <2>2, OpDeclared DEF Phases
  <2> QED
    BY <1>2, <2>2, <2>3 DEF Ops
<1>4. PICK w \in BOOLEAN : w = ~ plimbo
  OBVIOUS
<1>5. hist' \in Hists /\ hist'.whole = w
  BY <1>1, <1>2, <1>4 DEF Hists, P!Fresh
<1>6. w = TRUE => plimbo' = FALSE
  BY <1>1, <1>2, <1>4
<1> QED
  BY <1>1, <1>2, <1>3, <1>5, <1>6 DEF TransferInv, TransferTypes, Expected

LEMMA DriverReturned ==
  ASSUME TransferInv, P!Return
  PROVE  TransferInv'
<1>1. /\ hirq = <<>> /\ hirq' = hirq /\ plimbo' = FALSE /\ pnow' = pnow /\ hist' = hist
      /\ op' = [op EXCEPT !.phase = "idle", !.irq = FALSE]
  BY DEF P!Return, P!InThread
<1>2. op \in Ops /\ hist \in Hists /\ pnow \in Nat /\ plimbo \in BOOLEAN /\ hirq \in Served
  BY DEF TransferInv, TransferTypes
<1>3. op' \in Ops /\ op'.phase = "idle" /\ op'.irq = FALSE
  BY <1>1, <1>2 DEF Ops, Phases
<1> QED
  BY <1>1, <1>2, <1>3 DEF TransferInv, TransferTypes, Expected

LEMMA OthersWait ==
  ASSUME TransferInv, P!OtherWaits
  PROVE  TransferInv'
<1>1. /\ hirq' = hirq /\ plimbo' = plimbo /\ pnow' = pnow + 1 /\ op' = op
      /\ hist' = [hist EXCEPT !.alone = FALSE]
  BY DEF P!OtherWaits, P!Sync, P!Line
<1>2. op \in Ops /\ hist \in Hists /\ pnow \in Nat /\ plimbo \in BOOLEAN /\ hirq \in Served
  BY DEF TransferInv, TransferTypes
<1>3. hist' \in Hists /\ hist'.alone = FALSE /\ hist'.whole = hist.whole
  BY <1>1, <1>2 DEF Hists
<1> QED
  BY <1>1, <1>2, <1>3 DEF TransferInv, TransferTypes, Expected

LEMMA LinesLost ==
  ASSUME TransferInv, P!Gap
  PROVE  TransferInv'
<1>1. /\ hirq' = hirq /\ plimbo' = TRUE /\ pnow' = pnow /\ op' = op
      /\ hist' = [hist EXCEPT !.whole = FALSE]
  BY DEF P!Gap
<1>2. op \in Ops /\ hist \in Hists /\ pnow \in Nat /\ plimbo \in BOOLEAN /\ hirq \in Served
  BY DEF TransferInv, TransferTypes
<1>3. hist' \in Hists /\ hist'.whole = FALSE
  BY <1>1, <1>2 DEF Hists
<1> QED
  BY <1>1, <1>2, <1>3 DEF TransferInv, TransferTypes, Expected

LEMMA TransferNext == TransferInv /\ [P!Next]_device => TransferInv'
<1> SUFFICES ASSUME TransferInv, [P!Next]_device
             PROVE  TransferInv'
  OBVIOUS
<1>1. ASSUME NEW i \in {P!Dma, P!Timer}, P!handle_IRQ_event(i)
      PROVE  TransferInv'
  BY <1>1, InterruptEntered
<1>2. CASE UNCHANGED device
  <2>1. TransferTypes' /\ (IsOpen => IsOpen') /\ (IsClosed => IsClosed') /\ (Expected' => Expected)
    BY <1>2 DEF device, TransferInv, TransferTypes, IsOpen, IsClosed, Expected, Begun, Known,
                Caught, InHandler, Ended
  <2> QED
    BY <1>2, <2>1 DEF device, TransferInv
<1> QED
  BY <1>1, <1>2, WaitBegins, CompletionDone, HandlerLeft, TransferStarted, TransferDeclared,
     DriverReturned, OthersWait, LinesLost DEF P!Next

\* AppendToPEU() charges a transfer that is the only one to use a completion
\* with the interrupt of its own engine and the time until the handler was
\* entered, and by the time the driver goes on unless the interrupt's line was
\* the first one after PEUSTART: whatever interrupts come in between, before or
\* after the driver waits, and whatever was left of an earlier transfer.
THEOREM TransfersAreCharged == MeasureSpec => []PeuExact
<1>1. MeasureInit => TransferInv
  BY TransferInit DEF MeasureInit
<1>2. TransferInv /\ [MeasureNext]_all_vars => TransferInv'
  BY Stepwise, TransferNext
<1>3. TransferInv => PeuExact
  BY TransferExact
<1> QED
  BY <1>1, <1>2, <1>3, PTL DEF MeasureSpec
=============================================================================
