-------------------------- MODULE CycleCountProofs --------------------------
(***************************************************************************)
(* Proofs about CycleCount, for every width of the counter.                *)
(***************************************************************************)
EXTENDS CycleCount, TLAPS

\* What delta() returns is what passed, less one if the counter wrapped.
LEMMA DeltaFact ==
  ASSUME CountInv, ~first
  PROVE  /\ delta(cyc, counter) = since - wrapped
         /\ since - wrapped >= 0
<1>1. /\ Wrap \in Nat /\ Wrap >= 2
      /\ counter \in 0 .. Wrap - 1 /\ cyc \in 0 .. Wrap - 1 /\ since \in 0 .. Wrap - 1
      /\ wrapped \in {0, 1}
      /\ counter = cyc + since - (IF wrapped = 1 THEN Wrap ELSE 0)
  BY WrapAssumption DEF CountInv, Types, Position
<1>2. CASE wrapped = 1
  <2>1. counter = cyc + since - Wrap
    BY <1>1, <1>2
  <2>2. counter < cyc
    BY <1>1, <2>1
  <2> QED BY <1>1, <1>2, <2>1, <2>2 DEF delta
<1>3. CASE wrapped = 0
  <2>1. counter = cyc + since
    BY <1>1, <1>3
  <2> QED BY <1>1, <1>3, <2>1 DEF delta
<1> QED BY <1>1, <1>2, <1>3

\* A line adds to the total what passed since the one before it, less one for
\* a wrap.
LEMMA LineFact ==
  ASSUME CountInv, NEW ev, Line(ev)
  PROVE  cycles' = cycles + since - wrapped /\ since - wrapped >= 0
<1>1. cycles \in Int /\ since \in Int /\ wrapped \in Int /\ counter \in Int
  BY WrapAssumption DEF CountInv, Types
<1>2. CASE first
  <2>1. delta(counter, counter) = 0 /\ since = 0 /\ wrapped = 0
    BY <1>1, <1>2 DEF CountInv, Position, delta
  <2>2. cycles' = cycles + delta(counter, counter)
    BY <1>2 DEF Line
  <2> QED BY <1>1, <2>1, <2>2
<1>3. CASE ~first
  <2>1. cycles' = cycles + delta(cyc, counter)
    BY <1>3 DEF Line
  <2>2. delta(cyc, counter) = since - wrapped /\ since - wrapped >= 0
    BY <1>3, DeltaFact
  <2> QED BY <1>1, <2>1, <2>2
<1> QED BY <1>2, <1>3

\* The invariant is inductive.
LEMMA CountInvStep ==
  ASSUME CountInv, [Next]_vars
  PROVE  CountInv'
<1> USE WrapAssumption
<1>1. CASE Run
  <2>1. PICK d \in 1 .. Wrap - 1 :
          /\ first \/ since + d < Wrap
          /\ counter' = IF counter + d >= Wrap THEN counter + d - Wrap ELSE counter + d
          /\ since' = IF first THEN 0 ELSE since + d
          /\ wrapped' = IF first THEN 0 ELSE IF counter + d >= Wrap THEN 1 ELSE wrapped
          /\ UNCHANGED <<first, limbo, cyc, cycles, elapsed, wraps>>
    BY <1>1 DEF Run
  <2>2. Types'
    BY <2>1 DEF CountInv, Types
  <2>3. Position'
    <3>1. CASE first
      BY <2>1, <3>1 DEF Position
    <3>2. CASE ~first /\ wrapped = 0
      BY <2>1, <3>2 DEF CountInv, Types, Position
    <3>3. CASE ~first /\ wrapped = 1
      BY <2>1, <3>3 DEF CountInv, Types, Position
    <3> QED BY <3>1, <3>2, <3>3 DEF CountInv, Types
  <2> QED BY <2>1, <2>2, <2>3 DEF CountInv
<1>2. CASE EOD
  BY <1>2 DEF CountInv, Types, Position, EOD, Restart
<1>3. ASSUME NEW ev, Line(ev)
      PROVE  CountInv'
  <2>1. cycles' = cycles + since - wrapped /\ since - wrapped >= 0
    BY <1>3, LineFact
  <2>2. /\ cyc' = counter /\ counter' = counter /\ first' = FALSE /\ limbo' = FALSE
        /\ elapsed' = elapsed + since /\ wraps' = wraps + wrapped
        /\ since' = 0 /\ wrapped' = 0
    BY <1>3 DEF Line
  <2>3. Types'
    <3>1. first' \in BOOLEAN /\ limbo' \in BOOLEAN
      BY <2>2
    <3>2. /\ counter' \in 0 .. Wrap - 1 /\ cyc' \in 0 .. Wrap - 1
          /\ since' \in 0 .. Wrap - 1 /\ wrapped' \in {0, 1}
      BY <2>2 DEF CountInv, Types
    <3>3. cycles' \in Int /\ elapsed' \in Nat /\ wraps' \in Nat
      BY <2>1, <2>2 DEF CountInv, Types
    <3> QED BY <3>1, <3>2, <3>3 DEF Types
  <2>4. Position'
    BY <2>2 DEF CountInv, Types, Position
  <2>5. cycles' = elapsed' - wraps'
    BY <2>1, <2>2 DEF CountInv, Types
  <2> QED BY <2>3, <2>4, <2>5 DEF CountInv
<1>4. CASE UNCHANGED vars
  BY <1>4 DEF CountInv, Types, Position, vars
<1> QED BY <1>1, <1>2, <1>3, <1>4 DEF Next

LEMMA CountInvInit == Init => CountInv
  BY WrapAssumption DEF Init, CountInv, Types, Position

LEMMA CountInvariant == Spec => []CountInv
  BY CountInvInit, CountInvStep, PTL DEF Spec

\* The total is the time that passed while lines were counted, short of it by
\* at most a cycle for each wrap, for every width of the counter.
THEOREM TotalFollowsTime == Spec => []CyclesFollow
<1>1. CountInv => CyclesFollow
  BY DEF CountInv, Types, CyclesFollow
<1> QED BY <1>1, CountInvariant, PTL

\* The total never runs backwards.
THEOREM TotalGrows == Spec => CyclesGrow
<1>1. CountInv /\ [Next]_vars => [cycles' >= cycles]_vars
  <2>1. ASSUME CountInv, NEW ev, Line(ev) PROVE cycles' >= cycles
    BY <2>1, LineFact, WrapAssumption DEF CountInv, Types
  <2>2. ASSUME CountInv, cycles' = cycles PROVE cycles' >= cycles
    BY <2>2 DEF CountInv, Types
  <2> QED BY <2>1, <2>2 DEF Next, Run, EOD
<1> QED BY <1>1, CountInvariant, PTL DEF Spec, CyclesGrow
=============================================================================
