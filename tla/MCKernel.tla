------------------------------ MODULE MCKernel ------------------------------
(***************************************************************************)
(* What the kernel's threads wait for, for TLC: a semaphore or a           *)
(* completion.  They share no state, so each behaviour is one of one       *)
(* component, chosen at the start; the other stays as it began.            *)
(***************************************************************************)
EXTENDS Semaphore

CONSTANTS UINT_MAX, MaxCompletes

\* complete() is not called so often that x->done overflows.
ASSUME DoneAssumption ==
  /\ UINT_MAX \in Nat /\ MaxCompletes \in Nat
  /\ UINT_MAX > 2 * MaxCompletes

VARIABLES
  which,
  done, queue, awake, cpc, timed, spent, intr, completes, all

C == INSTANCE Completion WITH pc <- cpc

completion == <<done, queue, awake, cpc, timed, spent, intr, completes, all>>
all_vars == <<which, vars, completion>>

\* A step of one component.
OfSemaphore(A) == which = "semaphore" /\ A /\ UNCHANGED <<which, completion>>
OfCompletion(A) == which = "completion" /\ A /\ UNCHANGED <<which, vars>>

KernelInit == which \in {"semaphore", "completion"} /\ Init /\ C!Init
KernelNext == OfSemaphore(Next) \/ OfCompletion(C!Next)

\* The fairness of the components.
KernelSpec ==
  /\ KernelInit /\ [][KernelNext]_all_vars
  /\ \A t \in Tasks : /\ WF_all_vars(OfSemaphore(Proceed(t)))
                      /\ WF_all_vars(OfSemaphore(Up(t)))
                      /\ WF_all_vars(OfCompletion(C!Proceed(t)))
-----------------------------------------------------------------------------
\* Completion: complete() loses no wake-up.
WakeupsSuffice == C!WakeupsSuffice

\* Completion: a task does not wait for ever while completions are left.
WaitEnds == C!WaitEnds
=============================================================================
