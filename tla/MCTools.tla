------------------------------ MODULE MCTools ------------------------------
(***************************************************************************)
(* The tools around a trace, for TLC: the resolver that rewrites it, or    *)
(* the script that obtains it.  They share no state, so each behaviour is  *)
(* one of one component, chosen at the start; the other stays as it began. *)
(***************************************************************************)
EXTENDS Resolve

CONSTANTS Runs, Polls, PhoneRate

ASSUME RunsAssumption == Runs \in Nat \ {0}

VARIABLES which, pc, n, t, jobs, starting, usnl, stopping, file, pulled, spoiled, misled

E == INSTANCE Experiment

experiment == <<pc, n, t, jobs, starting, usnl, stopping, file, pulled, spoiled, misled>>
all_vars == <<which, vars, experiment>>

\* A step of one component.
OfResolve(A) == which = "resolve" /\ A /\ UNCHANGED <<which, experiment>>
OfExperiment(A) == which = "experiment" /\ A /\ UNCHANGED <<which, vars>>

ToolsInit ==
  /\ which \in {"resolve", "experiment"}
  /\ Init /\ (which = "experiment" => input = <<>>)
  /\ E!Init
ToolsNext == OfResolve(Next) \/ OfExperiment(E!Next)

\* The fairness of the components.
ToolsSpec ==
  /\ ToolsInit /\ [][ToolsNext]_all_vars
  /\ WF_all_vars(OfResolve(Reader)) /\ WF_all_vars(OfResolve(Resolver))
  /\ WF_all_vars(OfResolve(Printer)) /\ WF_all_vars(OfResolve(Exit))
  /\ WF_all_vars(OfExperiment(E!Script))
-----------------------------------------------------------------------------
\* Experiment: there is never more than one usnl on the phone.
OneUsnl == E!OneUsnl

\* Experiment: a trace that experiment.sh pulls is its run's own, and complete
\* unless its usnl met a stop that was kept from before.
PulledWhole == E!PulledWhole

\* Resolve: the pipeline drains and main() returns.  Experiment: the series of
\* runs ends, also when usnl hangs.
ToolsEnd == (which = "resolve" => Terminates) /\ (which = "experiment" => E!SeriesEnds)
=============================================================================
