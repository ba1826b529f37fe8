---------------------------- MODULE KernelProofs ----------------------------
(***************************************************************************)
(* Proofs about what the kernel's threads wait for, for any finite set of  *)
(* tasks.  Semaphore: no permission is lost or made up, and nobody barges. *)
(* Completion: no wake-up is lost.                                         *)
(***************************************************************************)
EXTENDS MCKernel, Sequences, FiniteSetTheorems, FunctionTheorems,
        WellFoundedInduction, TLAPS

USE SemAssumption

\* A task that was given the semaphore is awake and has not returned; the
\* tasks in the list have not been given it, and each is there once.
GivenAwake == \A t \in up : pc[t] = "relock"
Waiting ==
  \A i \in 1..Len(wait_list) : /\ pc[wait_list[i]] \in {"sleep", "relock"}
                               /\ wait_list[i] \notin up
Once ==
  \A i, j \in 1..Len(wait_list) : wait_list[i] = wait_list[j] => i = j

QInv == GivenAwake /\ Waiting /\ Once
IInv == TypeOK /\ QInv /\ NoBarging /\ Conserved
-----------------------------------------------------------------------------
\* Taking a task off the list leaves the others, in their order.
LEMMA ListDel ==
  ASSUME NEW s \in Seq(Tasks), NEW t
  PROVE  /\ list_del(s, t) \in Seq(Tasks)
         /\ Len(list_del(s, t)) <= Len(s)
         /\ \A i \in 1..Len(list_del(s, t)) :
              \E j \in 1..Len(s) : /\ list_del(s, t)[i] = s[j]
                                   /\ j = i \/ j = i + 1
<1>1. CASE \E i \in 1..Len(s) : s[i] = t
  <2> DEFINE k == CHOOSE i \in 1..Len(s) : s[i] = t
             d == [i \in 1..(Len(s) - 1) |-> IF i < k THEN s[i] ELSE s[i + 1]]
  <2>1. k \in 1..Len(s)
    BY <1>1
  <2>2. list_del(s, t) = d
    BY <1>1 DEF list_del
  <2> HIDE DEF k
  <2>3. d \in Seq(Tasks) /\ Len(d) = Len(s) - 1
    BY <2>1
  <2>4. \A i \in 1..Len(d) : \E j \in 1..Len(s) : d[i] = s[j] /\ (j = i \/ j = i + 1)
    BY <2>1, <2>3
  <2>5. Len(s) \in Nat
    OBVIOUS
  <2> HIDE DEF d
  <2> QED BY <2>2, <2>3, <2>4, <2>5
<1>2. CASE ~\E i \in 1..Len(s) : s[i] = t
  BY <1>2 DEF list_del
<1> QED BY <1>1, <1>2

\* If each task was in the list once, it still is, and the one taken off
\* is not.
LEMMA ListDelOnce ==
  ASSUME NEW s \in Seq(Tasks), NEW t,
         \A i, j \in 1..Len(s) : s[i] = s[j] => i = j
  PROVE  /\ \A i, j \in 1..Len(list_del(s, t)) :
              list_del(s, t)[i] = list_del(s, t)[j] => i = j
         /\ \A i \in 1..Len(list_del(s, t)) : list_del(s, t)[i] # t
<1>1. CASE \E i \in 1..Len(s) : s[i] = t
  <2> DEFINE k == CHOOSE i \in 1..Len(s) : s[i] = t
             d == [i \in 1..(Len(s) - 1) |-> IF i < k THEN s[i] ELSE s[i + 1]]
  <2>1. k \in 1..Len(s) /\ s[k] = t
    BY <1>1
  <2>2. list_del(s, t) = d
    BY <1>1 DEF list_del
  <2> HIDE DEF k
  <2>3. Len(d) = Len(s) - 1
    BY <2>1
  <2>4. \A i \in 1..Len(d) : d[i] # t
    BY <2>1, <2>3
  <2>5. ASSUME NEW i \in 1..Len(d), NEW j \in 1..Len(d), d[i] = d[j]
        PROVE  i = j
    BY <2>1, <2>3, <2>5
  <2> QED BY <2>2, <2>4, <2>5
<1>2. CASE ~\E i \in 1..Len(s) : s[i] = t
  BY <1>2 DEF list_del
<1> QED BY <1>1, <1>2
-----------------------------------------------------------------------------
(* Types                                                                   *)

LEMMA TypeInit == Init => TypeOK
BY DEF Init, TypeOK, Kinds

\* Each step keeps the types; count never falls below 0.
LEMMA TypeStep == TypeOK /\ [Next]_vars => TypeOK'
<1> SUFFICES ASSUME TypeOK, [Next]_vars
             PROVE  TypeOK'
  OBVIOUS
<1> USE DEF TypeOK
<1>1. ASSUME NEW t \in Tasks, NEW k \in Kinds, Call(t, k)
      PROVE  TypeOK'
  BY <1>1 DEF Call, Goto
<1>2. ASSUME NEW t \in Tasks, Proceed(t)
      PROVE  TypeOK'
  <2>1. CASE GiveUp(t)
    BY <2>1, ListDel DEF GiveUp, Goto
  <2>2. CASE ~GiveUp(t)
    BY <1>2, <2>2 DEF Proceed, Acquire, Refused, Enqueue, Granted, Again, Goto
  <2> QED BY <2>1, <2>2
<1>3. ASSUME NEW t \in Tasks, Timeout(t) \/ Signal(t) \/ Wake(t)
      PROVE  TypeOK'
  BY <1>3 DEF Timeout, Signal, Wake, Goto
<1>4. ASSUME NEW t \in Tasks, Up(t)
      PROVE  TypeOK'
  BY <1>4 DEF Up, Hand
<1>5. CASE UpByOther
  <2>1. extra' \in Nat /\ UNCHANGED <<kind, expired, signalled>> /\ Hand(pc)
    BY <1>5 DEF UpByOther
  <2>2. CASE wait_list = <<>>
    BY <2>1, <2>2 DEF Hand
  <2>3. CASE wait_list # <<>>
    <3>1. Head(wait_list) \in Tasks /\ Tail(wait_list) \in Seq(Tasks)
      BY <2>3
    <3> QED BY <2>1, <2>3, <3>1 DEF Hand
  <2> QED BY <2>2, <2>3
<1>6. CASE UNCHANGED vars
  BY <1>6 DEF vars
<1> QED BY <1>1, <1>2, <1>3, <1>4, <1>5, <1>6 DEF Next

\* The variables of kernel/semaphore.c keep their types: sem->count is never
\* negative whatever order the tasks come in.
THEOREM TypeCorrect == Spec => []TypeOK
BY TypeInit, TypeStep, PTL DEF Spec
-----------------------------------------------------------------------------
(* The list and the tasks that were given the semaphore                    *)

LEMMA QueueStep ==
  ASSUME TypeOK, QInv, [Next]_vars
  PROVE  QInv'
<1> USE DEF TypeOK, QInv, GivenAwake, Waiting, Once
<1>1. ASSUME NEW t \in Tasks, NEW k \in Kinds, Call(t, k)
      PROVE  QInv'
  BY <1>1 DEF Call, Goto
<1>2. ASSUME NEW t \in Tasks, Acquire(t) \/ Refused(t)
      PROVE  QInv'
  BY <1>2 DEF Acquire, Refused, Goto
<1>3. ASSUME NEW t \in Tasks, Enqueue(t)
      PROVE  QInv'
  BY <1>3 DEF Enqueue, Goto
<1>4. ASSUME NEW t \in Tasks, Granted(t)
      PROVE  QInv'
  BY <1>4 DEF Granted, Goto
<1>5. ASSUME NEW t \in Tasks, GiveUp(t)
      PROVE  QInv'
  <2>1. /\ wait_list' = list_del(wait_list, t)
        /\ up' = up \ {t}
        /\ pc' = [pc EXCEPT ![t] = "idle"]
    BY <1>5 DEF GiveUp, Goto
  <2>2. Once' /\ \A i \in 1..Len(wait_list') : wait_list'[i] # t
    BY <2>1, ListDelOnce
  <2>3. \A i \in 1..Len(wait_list') : \E j \in 1..Len(wait_list) : wait_list'[i] = wait_list[j]
    BY <2>1, ListDel
  <2>4. Waiting'
    BY <2>1, <2>2, <2>3
  <2>5. GivenAwake'
    BY <2>1
  <2> QED BY <2>2, <2>4, <2>5
<1>6. ASSUME NEW t \in Tasks, Again(t)
      PROVE  QInv'
  BY <1>6 DEF Again, Goto
<1>7. ASSUME NEW t \in Tasks, Timeout(t) \/ Signal(t) \/ Wake(t)
      PROVE  QInv'
  BY <1>7 DEF Timeout, Signal, Wake, Goto
<1>8. ASSUME NEW p \in [Tasks -> {"idle", "lock", "sleep", "relock", "held"}],
             Hand(p),
             \A u \in Tasks : pc[u] # "held" => p[u] = pc[u]
      PROVE  QInv'
  <2>1. CASE wait_list = <<>>
    BY <1>8, <2>1 DEF Hand
  <2>2. CASE wait_list # <<>>
    <3>1. /\ wait_list' = Tail(wait_list)
          /\ up' = up \cup {Head(wait_list)}
          /\ pc' = [p EXCEPT ![Head(wait_list)] = "relock"]
      BY <1>8, <2>2 DEF Hand
    <3>2. /\ Head(wait_list) = wait_list[1] /\ Head(wait_list) \in Tasks
          /\ Len(wait_list') = Len(wait_list) - 1
          /\ \A i \in 1..Len(wait_list') : wait_list'[i] = wait_list[i + 1]
          /\ 1 \in 1..Len(wait_list)
      BY <2>2, <3>1
    <3>3. \A i \in 1..Len(wait_list') : wait_list'[i] # Head(wait_list)
      BY <3>2
    <3>4. Once'
      BY <3>2
    <3>5. Waiting'
      BY <1>8, <3>1, <3>2, <3>3
    <3>6. GivenAwake'
      BY <1>8, <3>1, <3>2
    <3> QED BY <3>4, <3>5, <3>6
  <2> QED BY <2>1, <2>2
<1>9. ASSUME NEW t \in Tasks, Up(t)
      PROVE  QInv'
  <2>1. [pc EXCEPT ![t] = "idle"] \in [Tasks -> {"idle", "lock", "sleep", "relock", "held"}]
    OBVIOUS
  <2>2. \A u \in Tasks : pc[u] # "held" => [pc EXCEPT ![t] = "idle"][u] = pc[u]
    BY <1>9 DEF Up
  <2> QED BY ONLY <1>8, <1>9, <2>1, <2>2 DEF Up
<1>10. CASE UpByOther
  <2>1. pc \in [Tasks -> {"idle", "lock", "sleep", "relock", "held"}]
    OBVIOUS
  <2> QED BY ONLY <1>8, <1>10, <2>1 DEF UpByOther
<1>11. CASE UNCHANGED vars
  BY <1>11 DEF vars
<1> QED
  BY <1>1, <1>2, <1>3, <1>4, <1>5, <1>6, <1>7, <1>9, <1>10, <1>11 DEF Next, Proceed

\* There are waiters only while the count is 0.
LEMMA BargingStep ==
  ASSUME TypeOK, NoBarging, [Next]_vars
  PROVE  NoBarging'
<1> USE DEF TypeOK, NoBarging
<1>1. ASSUME NEW t \in Tasks, GiveUp(t)
      PROVE  NoBarging'
  <2>1. wait_list' = list_del(wait_list, t) /\ count' = count
    BY <1>1 DEF GiveUp
  <2>2. CASE wait_list = <<>>
    <3>1. wait_list' = <<>>
      BY <2>1, <2>2 DEF list_del
    <3> QED BY <3>1
  <2> QED BY <2>1, <2>2
<1>2. ASSUME NEW t \in Tasks, Up(t)
      PROVE  NoBarging'
  BY <1>2 DEF Up, Hand
<1>3. CASE UpByOther
  BY <1>3 DEF UpByOther, Hand
<1>4. ASSUME NEW t \in Tasks,
             \/ \E k \in Kinds : Call(t, k)
             \/ Acquire(t) \/ Refused(t) \/ Enqueue(t) \/ Granted(t) \/ Again(t)
             \/ Timeout(t) \/ Signal(t) \/ Wake(t)
      PROVE  NoBarging'
  BY <1>4 DEF Call, Acquire, Refused, Enqueue, Granted, Again, Timeout, Signal, Wake
<1>5. CASE UNCHANGED vars
  BY <1>5 DEF vars
<1> QED BY <1>1, <1>2, <1>3, <1>4, <1>5 DEF Next, Proceed
-----------------------------------------------------------------------------
(* The permissions                                                         *)

\* What a step does to the number of tasks that hold the semaphore.
LEMMA HoldingChange ==
  ASSUME TypeOK, TypeOK'
  PROVE  /\ IsFiniteSet(Holding) /\ IsFiniteSet(up)
         /\ Cardinality(Holding) \in Nat /\ Cardinality(up) \in Nat
         /\ \A t \in Tasks :
              /\ t \notin Holding /\ Holding' = Holding \cup {t}
                   => Cardinality(Holding') = Cardinality(Holding) + 1
              /\ t \in Holding /\ Holding' = Holding \ {t}
                   => Cardinality(Holding') = Cardinality(Holding) - 1
              /\ t \notin up /\ up' = up \cup {t}
                   => Cardinality(up') = Cardinality(up) + 1
              /\ t \in up /\ up' = up \ {t}
                   => Cardinality(up') = Cardinality(up) - 1
<1>1. IsFiniteSet(Holding) /\ IsFiniteSet(up)
  BY FS_Subset DEF Holding, TypeOK
<1>2. Cardinality(Holding) \in Nat /\ Cardinality(up) \in Nat
  BY <1>1, FS_CardinalityType
<1>3. ASSUME NEW t \in Tasks, NEW S, IsFiniteSet(S)
      PROVE  /\ t \notin S => Cardinality(S \cup {t}) = Cardinality(S) + 1
             /\ t \in S => Cardinality(S \ {t}) = Cardinality(S) - 1
  BY <1>3, FS_AddElement, FS_RemoveElement
<1> QED BY ONLY <1>1, <1>2, <1>3

LEMMA ConservedStep ==
  ASSUME TypeOK, TypeOK', QInv, Conserved, [Next]_vars
  PROVE  Conserved'
<1> DEFINE H == Cardinality(Holding)
           U == Cardinality(up)
<1>n. /\ H \in Nat /\ U \in Nat /\ count \in Nat /\ extra \in Nat
      /\ count + U + H = Initial + extra
  BY HoldingChange DEF TypeOK, Conserved
<1>1. ASSUME NEW t \in Tasks, Acquire(t)
      PROVE  Conserved'
  <2>1. t \notin Holding /\ Holding' = Holding \cup {t}
    BY <1>1 DEF Acquire, Goto, Holding, TypeOK
  <2>2. H' = H + 1
    BY <2>1, HoldingChange
  <2>3. count' = count - 1 /\ up' = up /\ extra' = extra
    BY <1>1 DEF Acquire
  <2> QED BY <1>n, <2>2, <2>3 DEF Conserved
<1>2. ASSUME NEW t \in Tasks, Granted(t)
      PROVE  Conserved'
  <2>1. t \notin Holding /\ Holding' = Holding \cup {t}
    BY <1>2 DEF Granted, Goto, Holding, TypeOK
  <2>2. H' = H + 1
    BY <2>1, HoldingChange
  <2>3. U' = U - 1
    BY <1>2, HoldingChange DEF Granted
  <2>4. count' = count /\ extra' = extra
    BY <1>2 DEF Granted
  <2> QED BY <1>n, <2>2, <2>3, <2>4 DEF Conserved
<1>3. ASSUME NEW t \in Tasks, GiveUp(t)
      PROVE  Conserved'
  <2>1. up' = up /\ Holding' = Holding /\ count' = count /\ extra' = extra
    BY <1>3 DEF GiveUp, GivesUp, Goto, Holding, TypeOK
  <2> QED BY <1>n, <2>1 DEF Conserved
<1>4. ASSUME NEW t \in Tasks,
             \/ \E k \in Kinds : Call(t, k)
             \/ Refused(t) \/ Enqueue(t) \/ Again(t)
             \/ Timeout(t) \/ Signal(t) \/ Wake(t)
      PROVE  Conserved'
  <2>1. Holding' = Holding
    BY <1>4 DEF Call, Refused, Enqueue, Again, Timeout, Signal, Wake, Goto, Holding, TypeOK
  <2>2. up' = up /\ count' = count /\ extra' = extra
    BY <1>4 DEF Call, Refused, Enqueue, Again, Timeout, Signal, Wake
  <2> QED BY <1>n, <2>1, <2>2 DEF Conserved
\* up() passes on one permission: to the count or to the first waiter.
<1>5. ASSUME NEW p, Hand(p)
      PROVE  /\ U' + count' = U + count + 1
             /\ wait_list = <<>> => pc' = p
             /\ wait_list # <<>> => /\ pc' = [p EXCEPT ![Head(wait_list)] = "relock"]
                                   /\ Head(wait_list) \in Tasks
                                   /\ pc[Head(wait_list)] # "held"
  <2>1. CASE wait_list = <<>>
    BY <1>5, <1>n, <2>1 DEF Hand
  <2>2. CASE wait_list # <<>>
    <3>1. /\ Head(wait_list) = wait_list[1] /\ Head(wait_list) \in Tasks
          /\ 1 \in 1..Len(wait_list)
      BY <2>2 DEF TypeOK
    <3>2. Head(wait_list) \notin up /\ pc[Head(wait_list)] # "held"
      BY <3>1 DEF QInv, Waiting
    <3>3. up' = up \cup {Head(wait_list)} /\ count' = count
      BY <1>5, <2>2 DEF Hand
    <3>4. U' = U + 1
      BY <3>1, <3>2, <3>3, HoldingChange
    <3>5. pc' = [p EXCEPT ![Head(wait_list)] = "relock"]
      BY <1>5, <2>2 DEF Hand
    <3> QED BY <1>n, <2>2, <3>1, <3>2, <3>3, <3>4, <3>5
  <2> QED BY <2>1, <2>2
<1>n2. U' \in Nat /\ count' \in Nat
  BY FS_Subset, FS_CardinalityType DEF TypeOK
<1>6. ASSUME NEW t \in Tasks, Up(t)
      PROVE  Conserved'
  <2>1. pc[t] = "held" /\ Hand([pc EXCEPT ![t] = "idle"]) /\ extra' = extra
    BY <1>6 DEF Up
  <2>2. t \in Holding /\ Holding' = Holding \ {t}
    <3>1. CASE wait_list = <<>>
      <4>1. pc' = [pc EXCEPT ![t] = "idle"]
        BY <1>5, <2>1, <3>1
      <4> QED BY <2>1, <4>1 DEF Holding, TypeOK
    <3>2. CASE wait_list # <<>>
      <4>1. /\ pc' = [[pc EXCEPT ![t] = "idle"] EXCEPT ![Head(wait_list)] = "relock"]
            /\ Head(wait_list) \in Tasks /\ pc[Head(wait_list)] # "held"
        BY <1>5, <2>1, <3>2
      <4> QED BY <2>1, <4>1 DEF Holding, TypeOK
    <3> QED BY <3>1, <3>2
  <2>3. H' = H - 1
    BY <2>2, HoldingChange
  <2>4. U' + count' = U + count + 1
    BY <1>5, <2>1
  <2>5. count' + U' + H' = Initial + extra'
    BY <1>n, <1>n2, <2>1, <2>3, <2>4
  <2> QED BY <2>5 DEF Conserved
<1>7. CASE UpByOther
  <2>1. Hand(pc) /\ extra' = extra + 1
    BY <1>7 DEF UpByOther
  <2>2. Holding' = Holding
    <3>1. CASE wait_list = <<>>
      BY <1>5, <2>1, <3>1 DEF Holding
    <3>2. CASE wait_list # <<>>
      <4>1. /\ pc' = [pc EXCEPT ![Head(wait_list)] = "relock"]
            /\ Head(wait_list) \in Tasks /\ pc[Head(wait_list)] # "held"
        BY <1>5, <2>1, <3>2
      <4> QED BY <4>1 DEF Holding, TypeOK
    <3> QED BY <3>1, <3>2
  <2>3. U' + count' = U + count + 1
    BY <1>5, <2>1
  <2>4. H' = H
    BY <2>2
  <2>5. count' + U' + H' = Initial + extra'
    BY <1>n, <1>n2, <2>1, <2>3, <2>4
  <2> QED BY <2>5 DEF Conserved
<1>8. CASE UNCHANGED vars
  BY <1>8, <1>n DEF vars, Conserved, Holding
<1> QED BY <1>1, <1>2, <1>3, <1>4, <1>6, <1>7, <1>8 DEF Next, Proceed
-----------------------------------------------------------------------------
LEMMA IInvInit == Init => IInv
<1> SUFFICES ASSUME Init PROVE IInv
  OBVIOUS
<1>1. TypeOK
  BY TypeInit
<1>2. QInv
  BY DEF Init, QInv, GivenAwake, Waiting, Once
<1>3. Holding = {} /\ up = {}
  BY DEF Init, Holding
<1>4. Conserved
  BY <1>3, FS_EmptySet DEF Init, Conserved
<1> QED BY <1>1, <1>2, <1>4 DEF IInv, NoBarging, Init

LEMMA IInvStep == IInv /\ [Next]_vars => IInv'
BY TypeStep, QueueStep, BargingStep, ConservedStep DEF IInv

LEMMA IInvAlways == Spec => []IInv
BY IInvInit, IInvStep, PTL DEF Spec

\* Whatever the races between up(), timeouts and signals, the permissions
\* left, handed over and held are those the semaphore was given.
THEOREM PermissionsConserved == Spec => []Conserved
BY IInvAlways, PTL DEF IInv

\* A task can take the semaphore past the list only if the list is empty.
THEOREM NobodyBarges == Spec => []NoBarging
BY IInvAlways, PTL DEF IInv
-----------------------------------------------------------------------------
(* Completions                                                             *)

Waiters == {queue[k] : k \in 1..Len(queue)}

CTypes ==
  /\ done \in Nat /\ completes \in 0..MaxCompletes
  /\ queue \in Seq(Tasks)
  /\ cpc \in [Tasks -> {"idle", "lock", "wait"}]

\* A task is in the queue exactly while it waits, and is there once; only
\* those in the queue are counted as awake.
Queued ==
  /\ \A j, k \in 1..Len(queue) : queue[j] = queue[k] => j = k
  /\ \A k \in 1..Len(queue) : cpc[queue[k]] = "wait"
  /\ \A t \in Tasks : cpc[t] = "wait" => t \in Waiters
  /\ awake \subseteq Waiters

\* x->done has not overflowed: complete_all() adds half of its range once.
NoOverflow == done <= completes + (IF all THEN UINT_MAX \div 2 ELSE 0)

CompletionInv == CTypes /\ Queued /\ NoOverflow /\ C!WakeupsSuffice

\* Both components take a task off a list in the same way.
LEMMA SameListDel == \A s, t : C!list_del(s, t) = list_del(s, t)
BY DEF C!list_del, list_del

Elements(s) == {s[k] : k \in 1..Len(s)}

\* What is left of a list, when a task that is in it once is taken off.
LEMMA ListDelRest ==
  ASSUME NEW s \in Seq(Tasks), NEW t,
         \A i, j \in 1..Len(s) : s[i] = s[j] => i = j
  PROVE  /\ Elements(list_del(s, t)) = Elements(s) \ {t}
         /\ Len(list_del(s, t)) = IF t \in Elements(s) THEN Len(s) - 1 ELSE Len(s)
<1>1. CASE \E i \in 1..Len(s) : s[i] = t
  <2> DEFINE k == CHOOSE i \in 1..Len(s) : s[i] = t
             d == [i \in 1..(Len(s) - 1) |-> IF i < k THEN s[i] ELSE s[i + 1]]
  <2>1. k \in 1..Len(s) /\ s[k] = t /\ Len(s) \in Nat
    BY <1>1
  <2>2. list_del(s, t) = d
    BY <1>1 DEF list_del
  <2> HIDE DEF k
  <2>3. Len(d) = Len(s) - 1
    BY <2>1
  <2>4. \A i \in 1..Len(d) : d[i] # t /\ d[i] \in Elements(s)
    BY <2>1, <2>3 DEF Elements
  <2>5. ASSUME NEW x \in Elements(s), x # t
        PROVE  x \in Elements(d)
    <3>1. PICK j \in 1..Len(s) : s[j] = x
      BY DEF Elements
    <3>2. CASE j < k
      <4>1. j \in 1..Len(d) /\ d[j] = x
        BY <2>1, <2>3, <3>1, <3>2
      <4> QED
        BY <4>1 DEF Elements
    <3>3. CASE j > k
      <4>1. j - 1 \in 1..Len(d) /\ d[j - 1] = x
        BY <2>1, <2>3, <3>1, <3>3
      <4> QED
        BY <4>1 DEF Elements
    <3>4. j # k
      BY <2>1, <2>5, <3>1
    <3> QED
      BY <2>1, <3>2, <3>3, <3>4
  <2>6. t \in Elements(s)
    BY <2>1 DEF Elements
  <2> HIDE DEF d
  <2>7. Elements(d) = Elements(s) \ {t}
    BY <2>4, <2>5 DEF Elements
  <2> QED
    BY <2>2, <2>3, <2>6, <2>7
<1>2. CASE ~\E i \in 1..Len(s) : s[i] = t
  <2>1. list_del(s, t) = s
    BY <1>2 DEF list_del
  <2>2. t \notin Elements(s)
    BY <1>2 DEF Elements
  <2> QED
    BY <2>1, <2>2
<1> QED
  BY <1>1, <1>2

\* As many waiters as the queue is long.
LEMMA WaitersCounted ==
  ASSUME CTypes, Queued
  PROVE  /\ Waiters \subseteq Tasks /\ IsFiniteSet(Waiters) /\ IsFiniteSet(awake)
         /\ Cardinality(Waiters) = Len(queue) /\ Len(queue) \in Nat
         /\ Cardinality(awake) \in Nat
<1>1. Waiters \subseteq Tasks /\ Len(queue) \in Nat /\ queue \in [1..Len(queue) -> Tasks]
  BY DEF CTypes, Waiters
<1>2. IsFiniteSet(Waiters) /\ IsFiniteSet(awake)
  BY <1>1, FS_Subset DEF Queued
<1>3. queue \in Surjection(1..Len(queue), Waiters) /\ queue \in Injection(1..Len(queue), Waiters)
  BY <1>1 DEF Surjection, Injection, IsInjective, Waiters, Queued
<1>4. IsFiniteSet(1..Len(queue)) /\ Cardinality(1..Len(queue)) = Len(queue)
  BY <1>1, FS_Interval
<1>5. Cardinality(Waiters) = Len(queue)
  BY <1>3, <1>4, FS_Surjection
<1> QED
  BY <1>1, <1>2, <1>5, FS_CardinalityType

\* Every set of numbers has a least one.
LEMMA LeastNumber ==
  ASSUME NEW T, T \subseteq Nat, T # {}
  PROVE  \E x \in T : \A y \in T : x <= y
<1> DEFINE R == OpToRel(<, Nat)
<1>1. IsWellFoundedOn(R, Nat)
  BY NatLessThanWellFounded
<1>2. \A x, y \in Nat : y < x => <<y, x>> \in R
  BY DEF OpToRel
<1> HIDE DEF R
<1>3. PICK x \in T : \A y \in T : ~ (<<y, x>> \in R)
  BY <1>1, WFMin
<1>4. \A y \in T : x \in Nat /\ y \in Nat /\ ~ (y < x)
  BY <1>2, <1>3
<1>5. \A y \in T : x <= y
  BY <1>4
<1> QED
  BY <1>5

\* The scan of __wake_up_common() finds a task that sleeps, if there is one.
LEMMA WakesSleeper ==
  ASSUME CTypes, Queued
  PROVE  /\ C!Woken \subseteq Waiters
         /\ awake # Waiters => C!Woken \ awake # {}
<1>1. C!Woken \subseteq Waiters
  BY DEF C!Woken, Waiters
<1>2. ASSUME awake # Waiters
      PROVE  C!Woken \ awake # {}
  <2> DEFINE asleep == {j \in 1..Len(queue) : queue[j] \notin awake}
  <2>1. asleep # {} /\ asleep \subseteq Nat
    BY <1>2 DEF Queued, Waiters
  <2>2. PICK j \in asleep : \A k \in asleep : j <= k
    BY <2>1, LeastNumber
  <2>3. Len(queue) \in Nat
    BY DEF CTypes
  <2>4. \A k \in 1..(j - 1) : queue[k] \in awake
    BY <2>2, <2>3
  <2>5. queue[j] \in C!Woken /\ queue[j] \notin awake
    BY <2>4 DEF C!Woken
  <2> QED
    BY <2>5
<1> QED
  BY <1>1, <1>2

LEMMA CInit == C!Init => CompletionInv
<1> SUFFICES ASSUME C!Init
             PROVE  CompletionInv
  OBVIOUS
<1>1. CTypes /\ Queued /\ NoOverflow
  BY DoneAssumption DEF C!Init, CTypes, Queued, NoOverflow, Waiters
<1>2. C!WakeupsSuffice
  <2>1. Cardinality(awake) \in Nat
    BY FS_EmptySet DEF C!Init
  <2>2. C!Least(done, Len(queue)) = 0
    BY DEF C!Init, C!Least
  <2> QED
    BY <2>1, <2>2 DEF C!WakeupsSuffice, C!Cardinality, Cardinality
<1> QED
  BY <1>1, <1>2 DEF CompletionInv

\* x->done + 1, and half of its range, are what they say.
LEMMA DoneCounts ==
  ASSUME CTypes, NoOverflow
  PROVE  /\ C!complete => done' = done + 1
         /\ C!complete_all => done' = done + UINT_MAX \div 2
<1> DEFINE half == UINT_MAX \div 2
<1>1. half \in Nat /\ 2 * half <= UINT_MAX /\ UINT_MAX <= 2 * half + 1
  BY DoneAssumption
<1>2. /\ done \in Nat /\ completes \in Nat /\ completes <= MaxCompletes
      /\ UINT_MAX \in Nat /\ MaxCompletes \in Nat /\ UINT_MAX > 2 * MaxCompletes
  BY DoneAssumption DEF CTypes
<1> HIDE DEF half
<1>3. MaxCompletes <= half
  BY <1>1, <1>2
<1>4. ASSUME C!complete
      PROVE  done' = done + 1
  <2>1. done' = (done + 1) % (UINT_MAX + 1) /\ completes < MaxCompletes
    BY <1>4 DEF C!complete
  <2>2. done <= completes + half
    BY <1>1, <1>2 DEF NoOverflow, half
  <2>3. done + 1 \in 0..UINT_MAX
    BY <1>1, <1>2, <1>3, <2>1, <2>2
  <2> QED
    BY <1>2, <2>1, <2>3
<1>5. ASSUME C!complete_all
      PROVE  done' = done + half
  <2>1. done' = (done + half) % (UINT_MAX + 1) /\ ~all
    BY <1>5 DEF C!complete_all, half
  <2>2. done <= completes
    BY <1>2, <2>1 DEF NoOverflow
  <2>3. done + half \in 0..UINT_MAX
    BY <1>1, <1>2, <1>3, <2>2
  <2> QED
    BY <1>1, <1>2, <2>1, <2>3
<1> QED
  BY <1>4, <1>5 DEF half

\* A task that leaves, with a completion or without one.
LEMMA Leaves ==
  ASSUME CTypes, Queued, NEW t \in Tasks, C!Take(t) \/ C!GiveUp(t)
  PROVE  /\ queue' = list_del(queue, t) /\ awake' = awake \ {t}
         /\ cpc' = [cpc EXCEPT ![t] = "idle"]
         /\ queue' \in Seq(Tasks)
         /\ \A j, k \in 1..Len(queue') : queue'[j] = queue'[k] => j = k
         /\ Waiters' = Waiters \ {t}
         /\ Len(queue') = IF t \in Waiters THEN Len(queue) - 1 ELSE Len(queue)
         /\ t \in awake <=> t \in Waiters
<1>1. /\ queue' = list_del(queue, t) /\ awake' = awake \ {t}
      /\ cpc' = [cpc EXCEPT ![t] = "idle"]
      /\ cpc[t] = "lock" \/ (cpc[t] = "wait" /\ t \in awake)
  BY SameListDel DEF C!Take, C!GiveUp, C!Return, C!Goto
<1>2. queue \in Seq(Tasks) /\ \A j, k \in 1..Len(queue) : queue[j] = queue[k] => j = k
  BY DEF CTypes, Queued
<1>3. list_del(queue, t) \in Seq(Tasks)
  BY <1>2, ListDel
<1>4. \A j, k \in 1..Len(list_del(queue, t)) :
        list_del(queue, t)[j] = list_del(queue, t)[k] => j = k
  BY <1>2, ListDelOnce
<1>5. /\ Elements(list_del(queue, t)) = Elements(queue) \ {t}
      /\ Len(list_del(queue, t)) = IF t \in Elements(queue) THEN Len(queue) - 1 ELSE Len(queue)
  BY <1>2, ListDelRest
<1>6. Waiters = Elements(queue) /\ Waiters' = Elements(queue')
  BY DEF Waiters, Elements
<1>7. t \in awake <=> t \in Waiters
  BY <1>1 DEF Queued, Waiters
<1> QED
  BY <1>1, <1>3, <1>4, <1>5, <1>6, <1>7

\* The steps of Completion other than a return from a wait, and a return.
LEMMA CompletionSteps ==
  ASSUME [C!Next]_completion
  PROVE  \/ C!complete \/ C!complete_all \/ UNCHANGED completion
         \/ \E t \in Tasks : C!Take(t) \/ C!GiveUp(t)
         \/ \E t \in Tasks : C!Enqueue(t)
         \/ \E t \in Tasks : \/ \E to \in BOOLEAN : C!Call(t, to)
                             \/ C!Again(t) \/ C!TryWait(t) \/ C!Timeout(t) \/ C!Signal(t)
BY DEF C!Next, C!Proceed

LEMMA CTypesNext ==
  CompletionInv /\ [C!Next]_completion => CTypes' /\ NoOverflow'
<1> SUFFICES ASSUME CompletionInv, [C!Next]_completion
             PROVE  CTypes' /\ NoOverflow'
  OBVIOUS
<1> USE DoneAssumption DEF CompletionInv
<1>1. CASE UNCHANGED completion
  BY <1>1 DEF completion, CTypes, NoOverflow
<1>2. CASE C!complete
  <2>1. done' = done + 1 /\ completes' = completes + 1 /\ completes < MaxCompletes
        /\ UNCHANGED <<queue, cpc, all>>
    BY <1>2, DoneCounts DEF C!complete
  <2>2. CTypes'
    BY <2>1 DEF CTypes
  <2>3. NoOverflow'
    BY <2>1 DEF CTypes, NoOverflow
  <2> QED
    BY <2>2, <2>3
<1>3. CASE C!complete_all
  <2>1. done' = done + UINT_MAX \div 2 /\ ~all /\ all'
        /\ UNCHANGED <<queue, cpc, completes>>
    BY <1>3, DoneCounts DEF C!complete_all
  <2>2. CTypes'
    BY <2>1 DEF CTypes
  <2>3. NoOverflow'
    BY <2>1 DEF CTypes, NoOverflow
  <2> QED
    BY <2>2, <2>3
<1>4. ASSUME NEW t \in Tasks, C!Take(t) \/ C!GiveUp(t)
      PROVE  CTypes' /\ NoOverflow'
  <2>1. queue' \in Seq(Tasks) /\ cpc' = [cpc EXCEPT ![t] = "idle"]
    BY <1>4, Leaves
  <2>2. done' \in {done, done - 1} /\ done' >= 0 /\ UNCHANGED <<completes, all>>
    BY <1>4 DEF C!Take, C!GiveUp, CTypes
  <2> QED
    BY <2>1, <2>2 DEF CTypes, NoOverflow
<1>5. ASSUME NEW t \in Tasks, C!Enqueue(t)
      PROVE  CTypes' /\ NoOverflow'
  BY <1>5 DEF C!Enqueue, C!Goto, CTypes, NoOverflow
<1>6. ASSUME NEW t \in Tasks,
             \/ \E to \in BOOLEAN : C!Call(t, to)
             \/ C!Again(t) \/ C!TryWait(t) \/ C!Timeout(t) \/ C!Signal(t)
      PROVE  CTypes' /\ NoOverflow'
  <2>1. /\ queue' = queue /\ completes' = completes /\ all' = all
        /\ cpc' \in {cpc, [cpc EXCEPT ![t] = "lock"]}
        /\ done' = done \/ (done > 0 /\ done' = done - 1)
    BY <1>6 DEF C!Call, C!Again, C!TryWait, C!Timeout, C!Signal, C!Goto, C!caller
  <2> QED
    BY <2>1 DEF CTypes, NoOverflow
<1> QED
  BY <1>1, <1>2, <1>3, <1>4, <1>5, <1>6, CompletionSteps

LEMMA QueuedNext == CompletionInv /\ [C!Next]_completion => Queued'
<1> SUFFICES ASSUME CompletionInv, [C!Next]_completion
             PROVE  Queued'
  OBVIOUS
<1> USE DEF CompletionInv
<1>1. CASE UNCHANGED completion
  BY <1>1 DEF completion, Queued, Waiters
<1>2. CASE C!complete \/ C!complete_all
  <2>1. UNCHANGED <<queue, cpc>>
    BY <1>2 DEF C!complete, C!complete_all
  <2>2. awake' \subseteq Waiters
    BY <1>2, WakesSleeper DEF C!complete, C!complete_all, Queued, Waiters
  <2> QED
    BY <2>1, <2>2 DEF Queued, Waiters
<1>3. ASSUME NEW t \in Tasks, C!Take(t) \/ C!GiveUp(t)
      PROVE  Queued'
  <2>1. /\ awake' = awake \ {t}
        /\ cpc' = [cpc EXCEPT ![t] = "idle"]
        /\ \A j, k \in 1..Len(queue') : queue'[j] = queue'[k] => j = k
        /\ Waiters' = Waiters \ {t}
    BY <1>3, Leaves
  <2>2. \A u \in Waiters : cpc[u] = "wait" /\ u \in Tasks
    BY DEF Queued, Waiters, CTypes
  <2>3. \A u \in Waiters' : cpc'[u] = "wait"
    BY <2>1, <2>2 DEF CTypes
  <2>4. \A k \in 1..Len(queue') : cpc'[queue'[k]] = "wait"
    BY <2>3 DEF Waiters
  <2>5. \A u \in Tasks : cpc'[u] = "wait" => u \in Waiters'
    BY <2>1 DEF Queued, CTypes
  <2>6. awake' \subseteq Waiters'
    BY <2>1 DEF Queued
  <2> QED
    BY <2>1, <2>4, <2>5, <2>6 DEF Queued
<1>4. ASSUME NEW t \in Tasks, C!Enqueue(t)
      PROVE  Queued'
  <2>1. /\ cpc[t] = "lock" /\ awake' = awake
        /\ queue' = Append(queue, t) /\ cpc' = [cpc EXCEPT ![t] = "wait"]
    BY <1>4 DEF C!Enqueue, C!Goto
  <2>2. /\ Len(queue) \in Nat /\ Len(queue') = Len(queue) + 1
        /\ queue'[Len(queue) + 1] = t
        /\ \A k \in 1..Len(queue) : queue'[k] = queue[k] /\ queue[k] # t
                                    /\ queue[k] \in Tasks
    BY <2>1 DEF CTypes, Queued
  <2>3. \A j, k \in 1..Len(queue') : queue'[j] = queue'[k] => j = k
    BY <2>2 DEF Queued
  <2>4. Waiters' = Waiters \cup {t}
    BY <2>2 DEF Waiters
  <2>5. \A k \in 1..Len(queue') : cpc'[queue'[k]] = "wait"
    BY <2>1, <2>2 DEF CTypes, Queued
  <2>6. \A u \in Tasks : cpc'[u] = "wait" => u \in Waiters'
    BY <2>1, <2>4 DEF CTypes, Queued
  <2> QED
    BY <2>1, <2>3, <2>4, <2>5, <2>6 DEF Queued
<1>5. ASSUME NEW t \in Tasks,
             \/ \E to \in BOOLEAN : C!Call(t, to)
             \/ C!Again(t) \/ C!TryWait(t) \/ C!Timeout(t) \/ C!Signal(t)
      PROVE  Queued'
  <2>1. /\ queue' = queue
        /\ cpc' = cpc \/ (cpc[t] = "idle" /\ cpc' = [cpc EXCEPT ![t] = "lock"])
        /\ awake' \subseteq awake \/ (cpc[t] = "wait" /\ awake' = awake \cup {t})
    BY <1>5 DEF C!Call, C!Again, C!TryWait, C!Timeout, C!Signal, C!Goto, C!caller
  <2>2. Waiters' = Waiters /\ Waiters \subseteq Tasks
    BY <2>1 DEF Waiters, CTypes
  <2>3. awake' \subseteq Waiters'
    BY <2>1, <2>2 DEF Queued
  <2>4. \A k \in 1..Len(queue) : cpc'[queue[k]] = "wait"
    BY <2>1, <2>2 DEF Queued, CTypes
  <2>5. \A u \in Tasks : cpc'[u] = "wait" => u \in Waiters'
    BY <2>1, <2>2 DEF Queued, CTypes
  <2> QED
    BY <2>1, <2>3, <2>4, <2>5 DEF Queued
<1> QED
  BY <1>1, <1>2, <1>3, <1>4, <1>5, CompletionSteps

\* With nothing left to take there is nothing to wake for.
LEMMA WakeupsWhenNoneLeft ==
  ASSUME CTypes', Queued', done' = 0
  PROVE  C!WakeupsSuffice'
<1>1. Len(queue') \in Nat
  BY DEF CTypes
<1>2. awake' \subseteq Tasks
  BY DEF Queued, Waiters, CTypes
<1>3. Cardinality(awake') \in Nat
  BY <1>2, FS_Subset, FS_CardinalityType
<1> QED
  BY <1>1, <1>3 DEF C!WakeupsSuffice, C!Least, C!Cardinality, Cardinality

LEMMA WakeupsNext ==
  CompletionInv /\ [C!Next]_completion => C!WakeupsSuffice'
<1> SUFFICES ASSUME CompletionInv, [C!Next]_completion
             PROVE  C!WakeupsSuffice'
  OBVIOUS
<1> USE DEF CompletionInv
<1>1. CTypes' /\ Queued'
  BY CTypesNext, QueuedNext
<1>2. /\ IsFiniteSet(Waiters) /\ IsFiniteSet(awake) /\ Len(queue) \in Nat
      /\ Cardinality(Waiters) = Len(queue) /\ Cardinality(awake) \in Nat
      /\ done \in Nat /\ awake \subseteq Waiters
  BY WaitersCounted DEF CTypes, Queued
<1>3. Cardinality(awake) >= done \/ Cardinality(awake) >= Len(queue)
  BY <1>2 DEF C!WakeupsSuffice, C!Least, C!Cardinality, Cardinality
<1>4. SUFFICES ASSUME done' # 0
               PROVE  \/ Cardinality(awake') >= done'
                      \/ Cardinality(awake') >= Len(queue')
  <2>1. done' \in Nat /\ Len(queue') \in Nat
    BY <1>1 DEF CTypes
  <2>2. IsFiniteSet(awake')
    <3>1. awake' \subseteq Tasks
      BY <1>1 DEF Queued, Waiters, CTypes
    <3> QED
      BY <3>1, FS_Subset
  <2>3. Cardinality(awake') \in Nat
    BY <2>2, FS_CardinalityType
  <2>4. CASE done' = 0
    BY <1>1, <2>4, WakeupsWhenNoneLeft
  <2>5. CASE done' # 0
    <3>1. \/ Cardinality(awake') >= done'
          \/ Cardinality(awake') >= Len(queue')
      BY <1>4, <2>5
    <3> QED
      BY <2>1, <2>3, <3>1 DEF C!WakeupsSuffice, C!Least, C!Cardinality, Cardinality
  <2> QED
    BY <2>4, <2>5
<1>5. CASE UNCHANGED completion
  BY <1>3, <1>5 DEF completion
<1>6. CASE C!complete
  <2>1. done' = done + 1 /\ queue' = queue /\ awake' = awake \cup C!Woken
    BY <1>6, DoneCounts DEF C!complete
  <2>2. CASE awake = Waiters
    <3>1. awake' = Waiters
      BY <2>1, <2>2, WakesSleeper
    <3>2. Cardinality(awake') = Len(queue')
      BY <1>2, <2>1, <3>1
    <3> QED
      BY <1>2, <2>1, <3>2
  <2>3. CASE awake # Waiters
    <3>1. PICK u \in C!Woken : u \notin awake
      BY <2>3, WakesSleeper
    <3>2. awake \cup {u} \subseteq awake' /\ awake' \subseteq Waiters
      BY <1>2, <2>1, <3>1, WakesSleeper
    <3>3. Cardinality(awake \cup {u}) = Cardinality(awake) + 1 /\ IsFiniteSet(awake')
      <4>1. IsFiniteSet(awake')
        BY <1>2, <3>2, FS_Subset
      <4> QED
        BY <1>2, <3>1, <4>1, FS_AddElement
    <3>4. Cardinality(awake \cup {u}) <= Cardinality(awake') /\ Cardinality(awake') \in Nat
      BY <3>2, <3>3, FS_Subset, FS_CardinalityType
    <3> QED
      BY <1>2, <1>3, <2>1, <3>3, <3>4
  <2> QED
    BY <2>2, <2>3
<1>7. CASE C!complete_all
  <2>1. queue' = queue /\ awake' = Waiters
    BY <1>2, <1>7 DEF C!complete_all, Waiters
  <2> QED
    BY <1>2, <2>1
<1>8. ASSUME NEW t \in Tasks, C!Take(t) \/ C!GiveUp(t)
      PROVE  \/ Cardinality(awake') >= done'
             \/ Cardinality(awake') >= Len(queue')
  <2>1. done' = done - 1
    BY <1>4, <1>8 DEF C!Take, C!GiveUp, C!Fails
  <2>2. /\ awake' = awake \ {t}
        /\ Len(queue') = IF t \in Waiters THEN Len(queue) - 1 ELSE Len(queue)
        /\ t \in awake <=> t \in Waiters
    BY <1>8, Leaves
  <2>3. Cardinality(awake') = IF t \in awake THEN Cardinality(awake) - 1 ELSE Cardinality(awake)
    BY <1>2, <2>2, FS_RemoveElement
  <2> QED
    BY <1>2, <1>3, <2>1, <2>2, <2>3
<1>9. ASSUME NEW t \in Tasks, C!Enqueue(t)
      PROVE  FALSE
  BY <1>4, <1>9 DEF C!Enqueue
<1>10. ASSUME NEW t \in Tasks,
              \/ \E to \in BOOLEAN : C!Call(t, to)
              \/ C!Again(t) \/ C!TryWait(t) \/ C!Timeout(t) \/ C!Signal(t)
       PROVE  \/ Cardinality(awake') >= done'
              \/ Cardinality(awake') >= Len(queue')
  <2>1. queue' = queue /\ awake' \in {awake, awake \cup {t}} /\ done' \in {done, done - 1}
    BY <1>4, <1>10 DEF C!Call, C!Again, C!TryWait, C!Timeout, C!Signal, C!caller
  <2>2. Cardinality(awake') \in {Cardinality(awake), Cardinality(awake) + 1}
    BY <1>2, <2>1, FS_AddElement
  <2> QED
    BY <1>2, <1>3, <2>1, <2>2
<1> QED
  BY <1>5, <1>6, <1>7, <1>8, <1>9, <1>10, CompletionSteps

\* A step of the two components is a step of Completion or leaves it alone.
LEMMA KernelSteps ==
  ASSUME [KernelNext]_all_vars
  PROVE  [C!Next]_completion
<1> SUFFICES ASSUME KernelNext \/ UNCHANGED all_vars
             PROVE  C!Next \/ UNCHANGED completion
  OBVIOUS
<1>1. CASE OfSemaphore(Next)
  BY <1>1 DEF OfSemaphore
<1>2. CASE OfCompletion(C!Next)
  BY <1>2 DEF OfCompletion
<1>3. CASE UNCHANGED all_vars
  BY <1>3 DEF all_vars
<1> QED
  BY <1>1, <1>2, <1>3 DEF KernelNext

\* complete() loses no wake-up: as many waiters are awake as there are
\* completions left for them, whichever of them time out, are interrupted, or
\* find that another task was faster.
THEOREM NoWakeupLost == KernelSpec => []WakeupsSuffice
<1>1. KernelInit => CompletionInv
  BY CInit DEF KernelInit
<1>2. CompletionInv /\ [KernelNext]_all_vars => CompletionInv'
  BY KernelSteps, CTypesNext, QueuedNext, WakeupsNext DEF CompletionInv
<1>3. CompletionInv => WakeupsSuffice
  BY DEF CompletionInv, WakeupsSuffice
<1> QED
  BY <1>1, <1>2, <1>3, PTL DEF KernelSpec

=============================================================================
