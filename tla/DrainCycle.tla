----------------------------- MODULE DrainCycle -----------------------------
(***************************************************************************)
(* What the tracer and its collector promise together, without the         *)
(* messages and flags they do it with: events are recorded in rounds of N; *)
(* a round is sent whole, in the order of its slots, and stored in the     *)
(* file in that order; only then does the next one begin.  At most the     *)
(* first event of a round is sent and not stored.                          *)
(*                                                                         *)
(* TraceSystem implements this specification on one CPU.                   *)
(***************************************************************************)
EXTENDS Integers, Sequences

CONSTANTS
  N,      \* events in a round
  Events, \* what can be recorded
  None    \* the contents of a slot of the current round not yet recorded

VARIABLES
  open,   \* a session runs
  round,  \* slot -> event of the current round
  sent,   \* slots of the round sent to the collector
  stored, \* slots of the round the collector is done with
  out     \* the file: events and marks between rounds

cvars == <<open, round, sent, stored, out>>

Slots == 0 .. N - 1
Empty == [s \in Slots |-> None]
NoRound == round' = Empty /\ sent' = 0 /\ stored' = 0

Init ==
  /\ open = FALSE
  /\ round = Empty
  /\ sent = 0
  /\ stored = 0
  /\ out = <<>>

Truncate ==
  /\ ~open
  /\ out' = <<>>
  /\ UNCHANGED <<open, round, sent, stored>>

Begin ==
  /\ ~open
  /\ open' = TRUE
  /\ UNCHANGED <<round, sent, stored, out>>

\* Slots are filled in any order, and none once the round is being sent.
Record(s) ==
  /\ open
  /\ sent = 0
  /\ round[s] = None
  /\ round'[s] \in Events
  /\ round' = [round EXCEPT ![s] = round'[s]]
  /\ UNCHANGED <<open, sent, stored, out>>

Send ==
  /\ open
  /\ sent < N
  /\ round[sent] # None
  /\ sent' = sent + 1
  /\ UNCHANGED <<open, round, stored, out>>

Store(s) ==
  /\ open
  /\ s < sent
  /\ s = stored \/ (stored = 0 /\ s = 1)
  /\ out' = Append(out, [t |-> "ENTRY", e |-> round[s]])
  /\ stored' = s + 1
  /\ UNCHANGED <<open, round, sent>>

\* A mark never falls between two events of a round.
Mark ==
  /\ open
  /\ stored \in {0, N}
  /\ out' = Append(out, [t |-> "END_OF_DATA"])
  /\ UNCHANGED <<open, round, sent, stored>>

Restart ==
  /\ open
  /\ stored = N
  /\ NoRound
  /\ UNCHANGED <<open, out>>

End ==
  /\ open
  /\ open' = FALSE
  /\ NoRound
  /\ UNCHANGED out

Next ==
  \/ Truncate \/ Begin \/ Send \/ Mark \/ Restart \/ End
  \/ \E s \in Slots : Record(s) \/ Store(s)

Spec == Init /\ [][Next]_cvars
=============================================================================
