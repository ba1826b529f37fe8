----------------------------- MODULE CycleCount -----------------------------
(***************************************************************************)
(* The part of run() in analyse.go that turns the cycle counts of the      *)
(* lines of one CPU into a running total.  Each CPU has its own counter    *)
(* and its own PerCPUTraceState, so one CPU is modelled.                   *)
(*                                                                         *)
(* The counter is Wrap cycles wide.  Lines are skipped from an EOD to the  *)
(* CPU's next CTXSW (limbo), and what passed in between is not counted.    *)
(***************************************************************************)
EXTENDS Integers

CONSTANTS
  Wrap,      \* the counter's values are 0 .. Wrap - 1; 2^32 in the code
  MaxElapsed \* bound: cycles counted

ASSUME WrapAssumption == Wrap \in Nat /\ Wrap >= 2
ASSUME ElapsedAssumption == MaxElapsed \in Nat

VARIABLES
  counter,    \* the CPU's cycle counter
  since,      \* cycles since the last line that was counted
  wrapped,    \* 1 if the counter has wrapped since then
  first, limbo, cyc, cycles, \* traceState of the CPU
  elapsed,    \* cycles that really passed between counted lines
  wraps       \* wraps of the counter between them

vars == <<counter, since, wrapped, first, limbo, cyc, cycles, elapsed, wraps>>

Init ==
  /\ counter \in 0 .. Wrap - 1
  /\ since = 0
  /\ wrapped = 0
  /\ first = TRUE
  /\ limbo = TRUE
  /\ cyc = 0
  /\ cycles = 0
  /\ elapsed = 0
  /\ wraps = 0

\* The counter runs on.  Between two counted lines less than a full turn is
\* assumed to pass: two counts do not tell how many turns lie between them.
Run ==
  \E d \in 1 .. Wrap - 1 :
    /\ first \/ since + d < Wrap
    /\ first \/ elapsed + since + d <= MaxElapsed
    /\ counter' = IF counter + d >= Wrap THEN counter + d - Wrap ELSE counter + d
    /\ since' = IF first THEN 0 ELSE since + d
    /\ wrapped' = IF first THEN 0 ELSE IF counter + d >= Wrap THEN 1 ELSE wrapped
    /\ UNCHANGED <<first, limbo, cyc, cycles, elapsed, wraps>>

\* Fault: no allowance for a wrap.
delta_NoWrap(a, b) == b - a
delta(a, b) == IF b < a THEN (Wrap - 1 - a) + b ELSE b - a

\* A line is read; in limbo only a CTXSW counts.
Line(ev) ==
  /\ limbo => ev = "CTXSW"
  /\ cyc' = counter
  /\ cycles' = cycles + delta(IF first THEN counter ELSE cyc, counter)
  /\ first' = FALSE
  /\ limbo' = FALSE
  /\ elapsed' = elapsed + since
  /\ wraps' = wraps + wrapped
  /\ since' = 0
  /\ wrapped' = 0
  /\ UNCHANGED counter

\* Fault: the first line after the gap is counted from the last one before it.
Restart_NotFirst == UNCHANGED first
Restart == first' = TRUE

EOD ==
  /\ Restart
  /\ limbo' = TRUE
  /\ since' = 0
  /\ wrapped' = 0
  /\ UNCHANGED <<counter, cyc, cycles, elapsed, wraps>>

Next == Run \/ EOD \/ \E ev \in {"CTXSW", "OTHER"} : Line(ev)
Spec == Init /\ [][Next]_vars
-----------------------------------------------------------------------------
\* The total the analyser takes durations from is the time that really passed
\* while lines were counted: gaps add nothing to it, and a wrap of the counter
\* costs at most one cycle (0xFFFFFFFF is the counter's last value, not its
\* period, so delta() is one short there).
CyclesFollow == cycles <= elapsed /\ elapsed - cycles <= wraps

\* The total never runs backwards.
CyclesGrow == [][cycles' >= cycles]_vars
-----------------------------------------------------------------------------
(* Inductive strengthening                                                 *)
Types ==
  /\ counter \in 0 .. Wrap - 1
  /\ since \in 0 .. Wrap - 1
  /\ wrapped \in {0, 1}
  /\ first \in BOOLEAN
  /\ limbo \in BOOLEAN
  /\ cyc \in 0 .. Wrap - 1
  /\ cycles \in Int
  /\ elapsed \in Nat
  /\ wraps \in Nat

\* Where the counter is, seen from the last counted line.
Position ==
  IF first THEN since = 0 /\ wrapped = 0
  ELSE counter = cyc + since - (IF wrapped = 1 THEN Wrap ELSE 0)

CountInv == Types /\ Position /\ cycles = elapsed - wraps
=============================================================================
