-------------------------- MODULE SepextTraceProofs --------------------------
(***************************************************************************)
(* Proofs about SepextTrace, for any number of CPUs and nesting levels,    *)
(* any buffer size and any client of the netlink socket.                   *)
(***************************************************************************)
EXTENDS SepextTrace, TLAPS

USE CpusAssumption, BufferAssumption, BoundsAssumption
USE DEF control, buffer, wakeup, locals, handler, channel

-----------------------------------------------------------------------------
(* Contexts                                                                *)

\* A context is determined by its CPU and its level.
LEMMA CtxFacts ==
  /\ \A c \in Ctx : CpuOf(c) \in CPUs /\ Level(c) \in Nat
  /\ \A c, d \in Ctx : CpuOf(c) = CpuOf(d) /\ Level(c) = Level(d) => c = d
  /\ Usnl \in Ctx /\ CpuOf(Usnl) = UsnlCpu /\ Level(Usnl) = 0
BY DEF Ctx, CpuOf, Level, Usnl

-----------------------------------------------------------------------------
(* Types                                                                   *)

\* What send_to_userspace() leaves in the collector's queue.
LEMMA SendType ==
  ASSUME rcvq \in Seq(Msg), lost \in Nat, NEW m \in Msg, NEW p,
         send_to_userspace(m, p)
  PROVE  rcvq' \in Seq(Msg) /\ lost' \in Nat
BY DEF send_to_userspace, Lose

LEMMA WakeType ==
  ASSUME rcvq \in Seq(Msg), lost \in Nat, schedule_usnl \/ awake_usnl
  PROVE  rcvq' \in Seq(Msg) /\ lost' \in Nat
<1>1. [t |-> "WAKE_UP_USNL"] \in Msg
  BY DEF Msg
<1>2. CASE awake_usnl
  BY <1>1, <1>2, SendType DEF awake_usnl
<1>3. CASE schedule_usnl
  BY <1>1, <1>3, SendType DEF schedule_usnl, awake_usnl
<1> QED BY <1>2, <1>3

\* initialize_tracer() establishes the types.
LEMMA TypeInit == initialize_tracer => TypeOK
BY DEF initialize_tracer, TypeOK, PCs, HPCs

\* Every step preserves them; in particular REQUEST_ENTRY never moves
\* lastread past the buffer.
LEMMA TypeStep == TypeOK /\ [KNext]_kvars => TypeOK'
<1> SUFFICES ASSUME TypeOK, [KNext]_kvars
             PROVE  TypeOK'
  OBVIOUS
<1> USE DEF TypeOK, Goto
<1>1. ASSUME NEW c \in Ctx, TraceCheck(c) \/ run_command(c) \/ Stop(c)
      PROVE  TypeOK'
  <2>1. CASE TraceCheck(c)
    <3>1. ccnt' \in [CPUs -> Nat]
      <4>1. CpuOf(c) \in CPUs
        BY CtxFacts
      <4>2. ccnt' = [ccnt EXCEPT ![CpuOf(c)] = ccnt[CpuOf(c)] + 1]
        BY <2>1 DEF TraceCheck
      <4>3. ASSUME NEW p \in CPUs PROVE [ccnt EXCEPT ![p] = ccnt[p] + 1] \in [CPUs -> Nat]
        OBVIOUS
      <4> QED BY <4>1, <4>2, <4>3
    <3>2. pc' \in [Ctx -> PCs]
      BY <2>1 DEF TraceCheck, PCs
    <3> QED BY <2>1, <3>1, <3>2 DEF TraceCheck
  <2>2. CASE run_command(c)
    BY <2>2 DEF run_command, PCs
  <2>3. CASE StopActive(c)
    BY <2>3 DEF StopActive, PCs
  <2>4. CASE StopRequest(c)
    BY <2>4 DEF StopRequest, PCs
  <2>5. CASE StopSchedule(c)
    BY <2>5 DEF StopSchedule, test_and_set, PCs
  <2> QED BY <1>1, <2>1, <2>2, <2>3, <2>4, <2>5 DEF Stop
<1>2. ASSUME NEW c \in Ctx, Trace(c)
      PROVE  TypeOK'
  <2>1. CASE Reserve(c)
    BY <2>1 DEF Reserve, atomic_add, TooFar, PCs
  <2>2. CASE Stamp(c)
    BY <2>2, CtxFacts DEF Stamp, PCs
  <2>3. CASE Write(c)
    <3>1. PICK k \in Kinds \cup {"id"} :
            entries' = [entries EXCEPT ![slot[c] - 1] =
              [cpu |-> CpuOf(c), cyc |-> cyc[c], kind |-> k, epo |-> epo[c]]]
      BY <2>3 DEF Write
    <3>2. [cpu |-> CpuOf(c), cyc |-> cyc[c], kind |-> k, epo |-> epo[c]] \in Entry
      BY CtxFacts DEF Entry
    <3>3. entries' \in [Slots -> Entry \cup {Garbage}]
      BY <3>1, <3>2
    <3> QED BY <2>3, <3>3 DEF Write, Forget, PCs
  <2>4. CASE Full(c) \/ TestAndSet(c)
    BY <2>4 DEF Full, TestAndSet, Forget, test_and_set, PCs
  <2>5. CASE CallUsnl(c)
    <3>1. rcvq' \in Seq(Msg) /\ lost' \in Nat /\ ipi' \in Nat
      BY <2>5, WakeType DEF CallUsnl
    <3> QED BY <2>5, <3>1 DEF CallUsnl, PCs
  <2> QED BY <1>2, <2>1, <2>2, <2>3, <2>4, <2>5 DEF Trace
<1>3. CASE RunIpi \/ RunTasklet
  <2>1. schedule_usnl \/ awake_usnl
    BY <1>3 DEF RunIpi, RunTasklet
  <2>2. rcvq' \in Seq(Msg) /\ lost' \in Nat
    BY <2>1, WakeType
  <2>3. CASE RunIpi
    BY <2>2, <2>3 DEF RunIpi
  <2>4. CASE RunTasklet
    BY <2>2, <2>4 DEF RunTasklet
  <2> QED BY <1>3, <2>3, <2>4
<1>4. CASE Handler
  <2>1. CASE StartReset \/ StartActive \/ trace_IDs \/ StartDone
    <3>1. CASE StartReset
      BY <3>1 DEF StartReset, ResetLastentry, HPCs
    <3>2. CASE StartActive
      BY <3>2 DEF StartActive, HPCs
    <3>3. CASE trace_IDs
      BY <3>3, CtxFacts DEF trace_IDs, PCs
    <3>4. CASE StartDone
      BY <3>4 DEF StartDone, HPCs
    <3> QED BY <2>1, <3>1, <3>2, <3>3, <3>4
  <2>2. CASE StopCmdSched \/ StopCmdActive \/ StopCmdReset
    <3>1. CASE StopCmdSched
      BY <3>1 DEF StopCmdSched, Rearm, HPCs
    <3>2. CASE StopCmdActive
      BY <3>2 DEF StopCmdActive, HPCs
    <3>3. CASE StopCmdReset
      BY <3>3 DEF StopCmdReset, ResetLastentry, ResetLastread, HPCs
    <3> QED BY <2>2, <3>1, <3>2, <3>3
  <2>3. CASE SyncReset \/ SyncSched \/ SyncActive
    <3>1. CASE SyncReset
      BY <3>1 DEF SyncReset, ResetLastentry, ResetLastread, HPCs
    <3>2. CASE SyncSched
      BY <3>2 DEF SyncSched, Rearm, HPCs
    <3>3. CASE SyncActive
      BY <3>3 DEF SyncActive, HPCs
    <3> QED BY <2>3, <3>1, <3>2, <3>3
  <2>4. CASE RequestStop \/ SendStop \/ RequestClear
    <3>1. [t |-> "STOP_TRACING"] \in Msg
      BY DEF Msg
    <3>2. CASE RequestStop
      BY <3>2 DEF RequestStop, HPCs
    <3>3. CASE SendStop
      <4>1. rcvq' \in Seq(Msg) /\ lost' \in Nat
        BY <3>1, <3>3, SendType DEF SendStop
      <4> QED BY <3>3, <4>1 DEF SendStop, HPCs
    <3>4. CASE RequestClear
      BY <3>4 DEF RequestClear, HPCs
    <3> QED BY <2>4, <3>2, <3>3, <3>4
  <2>5. CASE RequestData \/ SendEndOfData \/ SendEntry
    <3>1. CASE RequestData
      <4>1. ~OutOfData => lastread < avail_entries
        BY DEF OutOfData
      <4> QED BY <3>1, <4>1 DEF RequestData, HPCs
    <3>2. CASE SendEndOfData
      <4>1. [t |-> "END_OF_DATA"] \in Msg
        BY DEF Msg
      <4>2. rcvq' \in Seq(Msg) /\ lost' \in Nat
        BY <3>2, <4>1, SendType DEF SendEndOfData, EndOfData
      <4> QED BY <3>2, <4>2 DEF SendEndOfData, HPCs
    <3>3. CASE SendEntry
      <4>1. lastread \in Slots
        BY <3>3 DEF SendEntry, Handling, Slots
      <4>2. [t |-> "ENTRY", e |-> entries[lastread]] \in Msg
        BY <4>1 DEF Msg
      <4>3. rcvq' \in Seq(Msg) /\ lost' \in Nat
        BY <3>3, <4>2, SendType DEF SendEntry
      <4>4. lastread' \in 0 .. avail_entries
        BY <3>3, <4>1 DEF SendEntry, Slots
      <4> QED BY <3>3, <4>3, <4>4 DEF SendEntry, HPCs
    <3> QED BY <2>5, <3>1, <3>2, <3>3
  <2> QED BY <1>4, <2>1, <2>2, <2>3, <2>4, <2>5 DEF Handler
<1>5. CASE Client
  <2>1. ASSUME NEW cmd \in Commands, nl_rcv_func(cmd)
        PROVE  TypeOK'
    BY <2>1 DEF nl_rcv_func, Commands, FirstStep, HPCs
  <2>2. CASE bind \/ recvmsg \/ close
    <3>1. rcvq' \in Seq(Msg) /\ sock' \in Nat
      <4>1. rcvq # <<>> => Tail(rcvq) \in Seq(Msg)
        OBVIOUS
      <4>2. <<>> \in Seq(Msg)
        OBVIOUS
      <4> QED BY <2>2, <4>1, <4>2 DEF bind, recvmsg, close, Socket
    <3> QED BY <2>2, <3>1 DEF bind, recvmsg, close, Socket
  <2> QED BY <1>5, <2>1, <2>2 DEF Client
<1>6. CASE UNCHANGED kvars
  BY <1>6 DEF kvars
<1> QED BY <1>1, <1>2, <1>3, <1>4, <1>5, <1>6 DEF KNext, Kernel

\* Type correctness of the kernel half, with any client.
THEOREM Types == KSpec => []TypeOK
BY TypeInit, TypeStep, PTL DEF KSpec
-----------------------------------------------------------------------------
(* Slots                                                                   *)

\* A step that touches neither the buffer nor a slot in use preserves SlotInv.
LEMMA SlotFrame ==
  ASSUME SlotInv, TypeOK',
         lastentry' = lastentry, epoch' = epoch, entries' = entries,
         \A c \in Ctx : Holds(c)' =>
           Holds(c) /\ slot'[c] = slot[c] /\ epo'[c] = epo[c]
  PROVE  SlotInv'
<1>1. WriteInBounds'
  BY DEF SlotInv, WriteInBounds
<1>2. SlotExclusive'
  BY DEF SlotInv, SlotExclusive
<1>3. DrawnSince'
  BY DEF SlotInv, DrawnSince
<1> QED BY <1>1, <1>2, <1>3 DEF SlotInv

\* So does a reset: what was drawn before belongs to an older epoch.
LEMMA SlotReset ==
  ASSUME SlotInv, TypeOK', ResetLastentry, UNCHANGED <<entries, pc, slot, epo>>
  PROVE  SlotInv'
<1>1. WriteInBounds'
  BY DEF SlotInv, WriteInBounds, Holds
<1>2. SlotExclusive'
  BY DEF SlotInv, SlotExclusive, Holds
<1>3. DrawnSince'
  <2>1. ASSUME NEW c \in Ctx, Holds(c)'
        PROVE  epo'[c] <= epoch' /\ (epo'[c] = epoch' => slot'[c] <= lastentry')
    <3>1. epoch \in Nat /\ epo[c] \in Nat
      BY DEF SlotInv, TypeOK
    <3>2. epo[c] <= epoch
      BY <2>1 DEF SlotInv, DrawnSince, Holds
    <3> QED BY <3>1, <3>2 DEF ResetLastentry
  <2>2. ASSUME NEW s \in Slots, entries'[s] # Garbage
        PROVE  /\ entries'[s].epo <= epoch'
               /\ entries'[s].epo = epoch' => s < lastentry'
    <3>1. entries[s] \in Entry
      BY <2>2 DEF SlotInv, TypeOK
    <3>2. entries[s].epo \in Nat
      BY <3>1 DEF Entry
    <3>3. epoch \in Nat /\ entries[s].epo <= epoch
      BY <2>2 DEF SlotInv, DrawnSince, TypeOK
    <3> QED BY <3>2, <3>3 DEF ResetLastentry
  <2> QED BY <2>1, <2>2 DEF DrawnSince
<1> QED BY <1>1, <1>2, <1>3 DEF SlotInv

\* atomic_add_return() hands out a number nobody holds or has used.
LEMMA SlotReserve ==
  ASSUME SlotInv, TypeOK', NEW c \in Ctx, Reserve(c)
  PROVE  SlotInv'
<1> USE DEF Reserve, atomic_add, TooFar, Goto, Holds
<1>0. TypeOK
  BY DEF SlotInv
<1>1. \A d \in Ctx \ {c} :
        (Holds(d)' <=> Holds(d)) /\ slot'[d] = slot[d] /\ epo'[d] = epo[d]
  BY <1>0 DEF TypeOK
<1>2. /\ slot'[c] = lastentry + 1 /\ epo'[c] = epoch
      /\ Holds(c)' => lastentry + 1 <= avail_entries
      /\ ~Holds(c)
  BY <1>0 DEF TypeOK
<1>3. WriteInBounds'
  BY <1>0, <1>1, <1>2 DEF SlotInv, WriteInBounds, TypeOK
<1>4. \A s \in Slots : entries[s] # Garbage => entries[s].epo \in Nat
  BY <1>0 DEF TypeOK, Entry
<1>5. DrawnSince'
  BY <1>0, <1>1, <1>2, <1>4 DEF SlotInv, DrawnSince, TypeOK, Slots
<1>6. SlotExclusive'
  <2>1. ASSUME NEW d \in Ctx, Holds(d)', NEW e \in Ctx \ {d}, Holds(e)', epo'[e] = epo'[d]
        PROVE  slot'[e] # slot'[d]
    <3>1. ASSUME NEW b \in Ctx \ {c}, Holds(b)', epo'[b] = epoch
          PROVE  slot'[b] # lastentry + 1
      <4>1. slot[b] <= lastentry /\ slot[b] \in Nat /\ lastentry \in Nat
        BY <1>0, <1>1, <3>1 DEF SlotInv, DrawnSince, TypeOK
      <4> QED BY <1>1, <4>1
    <3>2. CASE d = c
      BY <1>2, <2>1, <3>1, <3>2
    <3>3. CASE e = c
      BY <1>2, <2>1, <3>1, <3>3
    <3>4. CASE d # c /\ e # c
      BY <1>1, <2>1, <3>4 DEF SlotInv, SlotExclusive
    <3> QED BY <3>2, <3>3, <3>4
  <2>2. ASSUME NEW d \in Ctx, Holds(d)', entries'[slot'[d] - 1] # Garbage
        PROVE  entries'[slot'[d] - 1].epo # epo'[d]
    <3>1. CASE d = c
      <4>1. lastentry \in Slots
        BY <1>0, <1>2, <2>2, <3>1 DEF TypeOK, Slots
      <4> QED BY <1>0, <1>2, <2>2, <3>1, <4>1 DEF SlotInv, DrawnSince, TypeOK
    <3>2. CASE d # c
      BY <1>1, <2>2, <3>2 DEF SlotInv, SlotExclusive
    <3> QED BY <3>1, <3>2
  <2> QED BY <2>1, <2>2 DEF SlotExclusive
<1> QED BY <1>3, <1>5, <1>6 DEF SlotInv

\* Filling in the slot it holds, a context disturbs no other's.
LEMMA SlotWrite ==
  ASSUME SlotInv, TypeOK', NEW c \in Ctx, Write(c)
  PROVE  SlotInv'
<1> USE DEF Goto, Holds
<1>0. TypeOK /\ slot[c] \in 1 .. avail_entries /\ Holds(c)
  BY DEF SlotInv, WriteInBounds, Write
<1>1. PICK k : entries' = [entries EXCEPT ![slot[c] - 1] =
                 [cpu |-> CpuOf(c), cyc |-> cyc[c], kind |-> k, epo |-> epo[c]]]
  BY DEF Write
<1>2. \A d \in Ctx : Holds(d)' =>
        d # c /\ Holds(d) /\ slot'[d] = slot[d] /\ epo'[d] = epo[d]
  BY <1>0 DEF TypeOK, Write, Forget
<1>3. \A s \in Slots : IF s = slot[c] - 1 THEN entries'[s].epo = epo[c]
                                          ELSE entries'[s] = entries[s]
  <2>1. entries \in [Slots -> Entry \cup {Garbage}]
    BY <1>0 DEF TypeOK
  <2> QED BY <1>1, <2>1
<1>4. lastentry' = lastentry /\ epoch' = epoch
  BY DEF Write
<1>5. WriteInBounds'
  BY <1>2 DEF SlotInv, WriteInBounds
<1>6. DrawnSince'
  <2>1. ASSUME NEW s \in Slots, entries'[s] # Garbage
        PROVE  /\ entries'[s].epo <= epoch
               /\ entries'[s].epo = epoch => s < lastentry
    <3>1. CASE s = slot[c] - 1
      <4>1. entries'[s].epo = epo[c] /\ slot[c] \in Nat /\ lastentry \in Nat
        BY <1>0, <1>3, <3>1 DEF TypeOK
      <4>2. epo[c] <= epoch /\ (epo[c] = epoch => slot[c] <= lastentry)
        BY <1>0 DEF SlotInv, DrawnSince
      <4> QED BY <3>1, <4>1, <4>2
    <3>2. CASE s # slot[c] - 1
      BY <1>3, <2>1, <3>2 DEF SlotInv, DrawnSince
    <3> QED BY <3>1, <3>2
  <2> QED BY <1>2, <1>4, <2>1 DEF SlotInv, DrawnSince
<1>7. SlotExclusive'
  <2>1. ASSUME NEW d \in Ctx, Holds(d)', entries'[slot'[d] - 1] # Garbage
        PROVE  entries'[slot'[d] - 1].epo # epo'[d]
    <3>1. slot[d] - 1 \in Slots
      BY <1>2, <2>1 DEF SlotInv, WriteInBounds, Slots
    <3>2. CASE slot[d] = slot[c]
      BY <1>0, <1>2, <1>3, <2>1, <3>1, <3>2 DEF SlotInv, SlotExclusive
    <3>3. CASE slot[d] # slot[c]
      <4>1. slot[d] - 1 # slot[c] - 1
        <5>1. slot[c] \in Nat /\ slot[d] \in Nat
          BY <1>0 DEF TypeOK
        <5> QED BY <3>3, <5>1
      <4> QED BY <1>2, <1>3, <2>1, <3>1, <4>1 DEF SlotInv, SlotExclusive
    <3> QED BY <3>2, <3>3
  <2> QED BY <1>2, <2>1 DEF SlotInv, SlotExclusive
<1> QED BY <1>5, <1>6, <1>7 DEF SlotInv

\* Every step preserves SlotInv.
LEMMA SlotStep == SlotInv /\ [KNext]_kvars => SlotInv'
<1> SUFFICES ASSUME SlotInv, [KNext]_kvars
             PROVE  SlotInv'
  OBVIOUS
<1>0. TypeOK /\ TypeOK'
  BY TypeStep DEF SlotInv
<1>1. ASSUME NEW c \in Ctx, TraceCheck(c) \/ run_command(c) \/ Stop(c)
      PROVE  SlotInv'
  <2>1. \A d \in Ctx : Holds(d)' => Holds(d)
    BY <1>0, <1>1 DEF TraceCheck, run_command, Stop, StopActive, StopRequest,
       StopSchedule, Goto, Holds, TypeOK
  <2> QED BY <1>0, <1>1, <2>1, SlotFrame
      DEF TraceCheck, run_command, Stop, StopActive, StopRequest, StopSchedule
<1>2. ASSUME NEW c \in Ctx, Trace(c)
      PROVE  SlotInv'
  <2>1. CASE Reserve(c)
    BY <1>0, <2>1, SlotReserve
  <2>2. CASE Stamp(c)
    <3>1. \A d \in Ctx : Holds(d)' => Holds(d)
      BY <1>0, <2>2 DEF Stamp, Goto, Holds, TypeOK
    <3> QED BY <1>0, <2>2, <3>1, SlotFrame DEF Stamp
  <2>3. CASE Write(c)
    BY <1>0, <2>3, SlotWrite
  <2>4. CASE Full(c) \/ CallUsnl(c)
    <3>1. \A d \in Ctx : Holds(d)' => Holds(d)
      BY <1>0, <2>4 DEF Full, CallUsnl, Goto, Holds, TypeOK
    <3> QED BY <1>0, <2>4, <3>1, SlotFrame DEF Full, CallUsnl
  <2>5. CASE TestAndSet(c)
    <3>1. \A d \in Ctx : Holds(d)' =>
            Holds(d) /\ slot'[d] = slot[d] /\ epo'[d] = epo[d]
      BY <1>0, <2>5 DEF TestAndSet, Forget, Goto, Holds, TypeOK
    <3> QED BY <1>0, <2>5, <3>1, SlotFrame DEF TestAndSet
  <2> QED BY <1>2, <2>1, <2>2, <2>3, <2>4, <2>5 DEF Trace
<1>3. CASE RunIpi \/ RunTasklet
  BY <1>0, <1>3, SlotFrame DEF RunIpi, RunTasklet, Holds
<1>4. CASE Handler
  <2>1. CASE StartReset \/ StopCmdReset
    BY <1>0, <2>1, SlotReset DEF StartReset, StopCmdReset
  <2>2. CASE SyncReset
    <3>1. CASE tracing_active = 1
      BY <1>0, <2>2, <3>1, SlotFrame DEF SyncReset, Holds
    <3>2. CASE tracing_active # 1
      BY <1>0, <2>2, <3>2, SlotReset DEF SyncReset
    <3> QED BY <3>1, <3>2
  <2>3. CASE trace_IDs
    <3>1. \A d \in Ctx : Holds(d)' => Holds(d)
      BY <1>0, <2>3, CtxFacts DEF trace_IDs, Goto, Holds, TypeOK
    <3> QED BY <1>0, <2>3, <3>1, SlotFrame DEF trace_IDs
  <2>4. CASE StartActive \/ StartDone \/ StopCmdSched \/ StopCmdActive
    BY <1>0, <2>4, SlotFrame DEF StartActive, StartDone, StopCmdSched, StopCmdActive, Holds
  <2>5. CASE SyncSched \/ SyncActive
    BY <1>0, <2>5, SlotFrame DEF SyncSched, SyncActive, Holds
  <2>6. CASE RequestStop \/ SendStop \/ RequestClear \/ RequestData \/ SendEndOfData \/ SendEntry
    BY <1>0, <2>6, SlotFrame
    DEF RequestStop, SendStop, RequestClear, RequestData, SendEndOfData, SendEntry, Holds
  <2> QED BY <1>4, <2>1, <2>2, <2>3, <2>4, <2>5, <2>6 DEF Handler
<1>5. CASE Client
  BY <1>0, <1>5, SlotFrame DEF Client, nl_rcv_func, bind, recvmsg, close, Socket, Holds
<1>6. CASE UNCHANGED kvars
  BY <1>0, <1>6, SlotFrame DEF kvars, Holds
<1> QED BY <1>1, <1>2, <1>3, <1>4, <1>5, <1>6 DEF KNext, Kernel

LEMMA SlotInit == initialize_tracer => SlotInv
<1> SUFFICES ASSUME initialize_tracer
             PROVE  SlotInv
  OBVIOUS
<1>1. \A c \in Ctx : ~Holds(c)
  BY DEF initialize_tracer, Holds
<1>2. \A s \in Slots : entries[s] = Garbage
  BY DEF initialize_tracer
<1> QED BY <1>1, <1>2, TypeInit DEF SlotInv, WriteInBounds, SlotExclusive, DrawnSince

\* trace_entry() never writes outside the buffer, whatever the number of
\* contexts that are past the check of tracing_active when it fills up.
THEOREM WritesInBounds == KSpec => []WriteInBounds
<1>1. SlotInv => WriteInBounds
  BY DEF SlotInv
<1> QED BY <1>1, SlotInit, SlotStep, PTL DEF KSpec

\* Between two resets no slot is handed out or written twice, on any number
\* of CPUs.
THEOREM SlotsExclusive == KSpec => []SlotExclusive
<1>1. SlotInv => SlotExclusive
  BY DEF SlotInv
<1> QED BY <1>1, SlotInit, SlotStep, PTL DEF KSpec
-----------------------------------------------------------------------------
(* Interrupt masking                                                       *)

\* While a context has interrupts disabled no other one moves on its CPU.
LEMMA Alone ==
  ASSUME IrqsMasked, NEW c \in Ctx, NEW d \in Ctx, c # d, CpuOf(c) = CpuOf(d),
         pc[c] \in IrqOff
  PROVE  ~(pc[d] # "idle" /\ Runs(d))
<1>1. Level(c) \in Nat /\ Level(d) \in Nat /\ Level(c) # Level(d)
  BY CtxFacts
<1>2. CASE Level(d) > Level(c)
  BY <1>2 DEF IrqsMasked
<1>3. CASE Level(c) > Level(d)
  BY <1>3 DEF Runs, IrqOff
<1> QED BY <1>1, <1>2, <1>3

\* A context that enters has nothing above it and nothing masked below.
LEMMA MaskedEnter ==
  ASSUME IrqsMasked, pc \in [Ctx -> PCs], NEW c \in Ctx, CanEnter(c), NEW l, Goto(c, l)
  PROVE  IrqsMasked'
<1> SUFFICES ASSUME NEW x \in Ctx, NEW y \in Ctx, pc'[x] \in IrqOff,
                    CpuOf(x) = CpuOf(y), Level(y) > Level(x)
             PROVE  pc'[y] = "idle"
  BY DEF IrqsMasked
<1>1. x # y
  BY CtxFacts
<1>2. CASE x = c
  BY <1>1, <1>2 DEF CanEnter, Runs, Goto
<1>3. CASE y = c
  BY <1>1, <1>3 DEF CanEnter, Goto
<1>4. CASE x # c /\ y # c
  BY <1>4 DEF IrqsMasked, Goto
<1> QED BY <1>2, <1>3, <1>4

\* A context that moves on does not mask what ran unmasked.
LEMMA MaskedGoto ==
  ASSUME IrqsMasked, pc \in [Ctx -> PCs], NEW c \in Ctx, pc[c] # "idle", NEW l,
         Goto(c, l), l \in IrqOff => pc[c] \in IrqOff
  PROVE  IrqsMasked'
BY DEF IrqsMasked, Goto

LEMMA MaskedStep ==
  ASSUME IrqsMasked, TypeOK, [KNext]_kvars
  PROVE  IrqsMasked'
<1>0. pc \in [Ctx -> PCs]
  BY DEF TypeOK
<1>1. ASSUME NEW c \in Ctx, TraceCheck(c) \/ run_command(c)
      PROVE  IrqsMasked'
  BY <1>0, <1>1, MaskedEnter DEF TraceCheck, run_command
<1>2. ASSUME NEW c \in Ctx, Stop(c) \/ Reserve(c) \/ Stamp(c) \/ Full(c)
      PROVE  IrqsMasked'
  <2>1. PICK l : Goto(c, l) /\ pc[c] \in IrqOff /\ pc[c] # "idle"
    BY <1>2 DEF Stop, StopActive, StopRequest, StopSchedule, Reserve, Stamp, Full, IrqOff
  <2> QED BY <1>0, <2>1, MaskedGoto
<1>3. ASSUME NEW c \in Ctx, Write(c) \/ TestAndSet(c) \/ CallUsnl(c)
      PROVE  IrqsMasked'
  <2>1. PICK l : Goto(c, l) /\ l \notin IrqOff /\ pc[c] # "idle"
    BY <1>3 DEF Write, TestAndSet, CallUsnl, IrqOff
  <2> QED BY <1>0, <2>1, MaskedGoto
<1>4. CASE trace_IDs
  <2>1. CanEnter(Usnl)
    BY <1>4, CtxFacts DEF trace_IDs, Handling, CanEnter
  <2> QED BY <1>0, <1>4, <2>1, CtxFacts, MaskedEnter DEF trace_IDs
<1>5. CASE UNCHANGED pc
  BY <1>5 DEF IrqsMasked
<1>6. CASE RunIpi \/ RunTasklet
  BY <1>5, <1>6 DEF RunIpi, RunTasklet
<1>7. CASE Handler /\ ~trace_IDs
  BY <1>5, <1>7 DEF Handler, StartReset, StartActive, StartDone, StopCmdSched,
     StopCmdActive, StopCmdReset, SyncReset, SyncSched, SyncActive, RequestStop,
     SendStop, RequestClear, RequestData, SendEndOfData, SendEntry
<1>8. CASE Client
  BY <1>5, <1>8 DEF Client, nl_rcv_func, bind, recvmsg, close, Socket
<1>9. CASE UNCHANGED kvars
  BY <1>5, <1>9 DEF kvars
<1> QED BY <1>1, <1>2, <1>3, <1>4, <1>6, <1>7, <1>8, <1>9 DEF KNext, Kernel, Trace
-----------------------------------------------------------------------------
(* The order of cycle counts                                               *)

\* The types the order is about.
LEMMA OrderTypes ==
  ASSUME TypeOK
  PROVE  /\ \A c \in Ctx : slot[c] \in Nat /\ cyc[c] \in Nat /\ epo[c] \in Nat
         /\ \A p \in CPUs : ccnt[p] \in Nat
         /\ \A s \in Slots : s \in Nat
         /\ \A s \in Slots : entries[s] # Garbage =>
              entries[s].cyc \in Nat /\ entries[s].epo \in Nat /\ entries[s].cpu \in CPUs
<1>1. \A s \in Slots : entries[s] # Garbage => entries[s] \in Entry
  BY DEF TypeOK
<1>2. \A s \in Slots : entries[s] # Garbage =>
        entries[s].cyc \in Nat /\ entries[s].epo \in Nat /\ entries[s].cpu \in CPUs
  BY <1>1 DEF Entry
<1> QED BY <1>2 DEF TypeOK, Slots

\* A step that changes no recorded or pending count preserves the order.
LEMMA OrderFrame ==
  ASSUME CycleInv, SlotInv', IrqsMasked', entries' = entries, ccnt' = ccnt,
         \A c \in Ctx : pc'[c] \in {"reserve", "stamp", "write"} =>
           /\ pc'[c] = pc[c]
           /\ slot'[c] = slot[c] /\ cyc'[c] = cyc[c] /\ epo'[c] = epo[c]
  PROVE  CycleInv'
<1>1. StampsPast'
  BY DEF CycleInv, StampsPast
<1>2. LastSlot'
  BY DEF CycleInv, LastSlot
<1>3. PendingOrder'
  BY DEF CycleInv, PendingOrder
<1>4. CycleOrder'
  BY DEF CycleInv, CycleOrder
<1> QED BY <1>1, <1>2, <1>3, <1>4 DEF CycleInv

\* A new call: the counter moves past everything recorded on the CPU.
LEMMA OrderTick ==
  ASSUME CycleInv, SlotInv', IrqsMasked', entries' = entries, UNCHANGED <<slot, cyc, epo>>,
         NEW c \in Ctx, pc[c] = "idle", Goto(c, "reserve"),
         ccnt' = [ccnt EXCEPT ![CpuOf(c)] = ccnt[CpuOf(c)] + 1]
  PROVE  CycleInv'
<1>0. TypeOK
  BY DEF CycleInv, SlotInv
<1>1. \A d \in Ctx : pc'[d] = IF d = c THEN "reserve" ELSE pc[d]
  BY <1>0 DEF TypeOK, Goto
<1>2. \A p \in CPUs : ccnt[p] \in Nat /\ ccnt'[p] = IF p = CpuOf(c) THEN ccnt[p] + 1 ELSE ccnt[p]
  <2>1. ccnt \in [CPUs -> Nat]
    BY <1>0 DEF TypeOK
  <2> QED BY <2>1
<1>3. \A p \in CPUs, n \in Nat :
        /\ n <= ccnt[p] => n <= ccnt'[p]
        /\ n < ccnt[p] => n < ccnt'[p]
        /\ n <= ccnt[p] /\ p = CpuOf(c) => n < ccnt'[p]
  <2> SUFFICES ASSUME NEW p \in CPUs, NEW n \in Nat
               PROVE  /\ n <= ccnt[p] => n <= ccnt'[p]
                      /\ n < ccnt[p] => n < ccnt'[p]
                      /\ n <= ccnt[p] /\ p = CpuOf(c) => n < ccnt'[p]
    OBVIOUS
  <2>1. ccnt[p] \in Nat /\ ccnt'[p] = IF p = CpuOf(c) THEN ccnt[p] + 1 ELSE ccnt[p]
    BY <1>2
  <2> QED BY <2>1
<1>4. StampsPast'
  <2>1. ASSUME NEW s \in Slots, entries[s] # Garbage
        PROVE  entries[s].cyc <= ccnt'[entries[s].cpu]
    <3>1. entries[s].cpu \in CPUs /\ entries[s].cyc \in Nat
      BY <1>0, <2>1, OrderTypes
    <3>2. entries[s].cyc <= ccnt[entries[s].cpu]
      BY <2>1 DEF CycleInv, StampsPast
    <3> QED BY <1>3, <3>1, <3>2
  <2>2. ASSUME NEW d \in Ctx, pc'[d] = "write"
        PROVE  cyc[d] <= ccnt'[CpuOf(d)]
    <3>1. CpuOf(d) \in CPUs /\ cyc[d] \in Nat
      BY <1>0, CtxFacts, OrderTypes
    <3>2. cyc[d] <= ccnt[CpuOf(d)]
      BY <1>1, <2>2 DEF CycleInv, StampsPast
    <3> QED BY <1>3, <3>1, <3>2
  <2>3. ASSUME NEW d \in Ctx, pc'[d] \in {"reserve", "stamp"},
               NEW s \in Slots, entries[s] # Garbage, entries[s].cpu = CpuOf(d)
        PROVE  entries[s].cyc < ccnt'[CpuOf(d)]
    <3>1. CpuOf(d) \in CPUs /\ entries[s].cyc \in Nat
      BY <1>0, <2>3, CtxFacts, OrderTypes
    <3>2. CASE d = c
      <4>1. entries[s].cyc <= ccnt[CpuOf(d)]
        BY <2>3 DEF CycleInv, StampsPast
      <4> QED BY <1>3, <3>1, <3>2, <4>1
    <3>3. CASE d # c
      <4>1. entries[s].cyc < ccnt[CpuOf(d)]
        BY <1>1, <2>3, <3>3 DEF CycleInv, StampsPast
      <4> QED BY <1>3, <3>1, <4>1
    <3> QED BY <3>2, <3>3
  <2>4. ASSUME NEW d \in Ctx, pc'[d] \in {"reserve", "stamp"},
               NEW e \in Ctx, pc'[e] = "write", CpuOf(e) = CpuOf(d)
        PROVE  cyc[e] < ccnt'[CpuOf(d)]
    <3>1. CpuOf(d) \in CPUs /\ cyc[e] \in Nat
      BY <1>0, CtxFacts, OrderTypes
    <3>2. CASE d = c
      <4>1. cyc[e] <= ccnt[CpuOf(d)]
        BY <1>1, <2>4, <3>2 DEF CycleInv, StampsPast
      <4> QED BY <1>3, <3>1, <3>2, <4>1
    <3>3. CASE d # c
      <4>1. cyc[e] < ccnt[CpuOf(d)]
        BY <1>1, <2>4, <3>3 DEF CycleInv, StampsPast
      <4> QED BY <1>3, <3>1, <4>1
    <3> QED BY <3>2, <3>3
  <2> QED BY <2>1, <2>2, <2>3, <2>4 DEF StampsPast
<1>5. LastSlot'
  BY <1>1 DEF CycleInv, LastSlot
<1>6. PendingOrder'
  BY <1>1 DEF CycleInv, PendingOrder
<1>7. CycleOrder'
  BY DEF CycleInv, CycleOrder
<1> QED BY <1>4, <1>5, <1>6, <1>7 DEF CycleInv

\* Drawing a slot: it lies after all slots of the CPU in use in this epoch.
LEMMA OrderReserve ==
  ASSUME CycleInv, SlotInv', IrqsMasked', NEW c \in Ctx, Reserve(c)
  PROVE  CycleInv'
<1>0. TypeOK
  BY DEF CycleInv, SlotInv
<1>1. /\ pc[c] = "reserve"
      /\ \A d \in Ctx : pc'[d] = IF d # c THEN pc[d]
                        ELSE IF TooFar(lastentry + 1) THEN "full" ELSE "stamp"
  BY <1>0 DEF TypeOK, Reserve, Goto
<1>2. slot'[c] = lastentry + 1 /\ epo'[c] = epoch /\ lastentry \in Nat
  BY <1>0 DEF TypeOK, Reserve
<1>3. \A d \in Ctx \ {c} : slot'[d] = slot[d] /\ epo'[d] = epo[d]
  BY <1>0 DEF TypeOK, Reserve
<1>4. entries' = entries /\ ccnt' = ccnt /\ cyc' = cyc
  BY DEF Reserve
<1>5. StampsPast'
  BY <1>1, <1>4 DEF CycleInv, StampsPast
<1>6. LastSlot'
  <2>1. ASSUME NEW s \in Slots, entries[s] # Garbage, entries[s].epo = epoch
        PROVE  s + 1 < lastentry + 1
    BY <1>0, <1>2, <2>1, OrderTypes DEF CycleInv, SlotInv, DrawnSince
  <2>2. ASSUME NEW d \in Ctx, pc[d] = "write", epo[d] = epoch
        PROVE  slot[d] < lastentry + 1
    BY <1>0, <1>2, <2>2, OrderTypes DEF CycleInv, SlotInv, DrawnSince, Holds
  <2>3. ASSUME NEW x \in Ctx, pc'[x] = "stamp", x # c
        PROVE  /\ pc[x] = "stamp"
               /\ \A d \in Ctx : pc'[d] = "write" => pc[d] = "write" /\ d # c
    BY <1>1, <2>3
  <2> QED BY <1>1, <1>2, <1>3, <1>4, <2>1, <2>2, <2>3 DEF CycleInv, LastSlot
<1>7. PendingOrder'
  <2>1. \A d \in Ctx : pc'[d] = "write" => pc[d] = "write" /\ d # c
    BY <1>1
  <2> QED BY <1>3, <1>4, <2>1 DEF CycleInv, PendingOrder
<1>8. CycleOrder'
  BY <1>4 DEF CycleInv, CycleOrder
<1> QED BY <1>5, <1>6, <1>7, <1>8 DEF CycleInv

\* Reading the counter: the value is larger than every other of the CPU, and
\* no other context of the CPU is about to read it.
LEMMA OrderStamp ==
  ASSUME CycleInv, SlotInv', IrqsMasked', NEW c \in Ctx, Stamp(c)
  PROVE  CycleInv'
<1>0. TypeOK
  BY DEF CycleInv, SlotInv
<1>1. pc[c] = "stamp" /\ \A d \in Ctx : pc'[d] = IF d = c THEN "write" ELSE pc[d]
  BY <1>0 DEF TypeOK, Stamp, Goto
<1>2. cyc'[c] = ccnt[CpuOf(c)] /\ \A d \in Ctx \ {c} : cyc'[d] = cyc[d]
  BY <1>0 DEF TypeOK, Stamp
<1>3. entries' = entries /\ ccnt' = ccnt /\ slot' = slot /\ epo' = epo
  BY DEF Stamp
<1>4. \A x \in Ctx : pc'[x] \in {"reserve", "stamp"} =>
        x # c /\ pc'[x] = pc[x] /\ CpuOf(x) # CpuOf(c)
  <2> SUFFICES ASSUME NEW x \in Ctx, pc'[x] \in {"reserve", "stamp"}
               PROVE  x # c /\ pc'[x] = pc[x] /\ CpuOf(x) # CpuOf(c)
    OBVIOUS
  <2>1. x # c /\ pc'[x] = pc[x] /\ pc[x] \in IrqOff
    BY <1>1 DEF IrqOff
  <2>2. Runs(c) /\ pc[c] # "idle"
    BY DEF Stamp
  <2> QED BY <2>1, <2>2, Alone DEF CycleInv
<1>5. StampsPast'
  <2>1. ASSUME NEW d \in Ctx, pc'[d] = "write"
        PROVE  cyc'[d] <= ccnt[CpuOf(d)]
    <3>1. ccnt[CpuOf(c)] \in Nat
      <4>1. CpuOf(c) \in CPUs
        BY CtxFacts
      <4> QED BY <1>0, <4>1, OrderTypes
    <3>2. CASE d = c
      BY <1>2, <3>1, <3>2
    <3>3. CASE d # c
      BY <1>1, <1>2, <2>1, <3>3 DEF CycleInv, StampsPast
    <3> QED BY <3>2, <3>3
  <2>2. ASSUME NEW x \in Ctx, pc'[x] \in {"reserve", "stamp"},
               NEW d \in Ctx, pc'[d] = "write", CpuOf(d) = CpuOf(x)
        PROVE  cyc'[d] < ccnt[CpuOf(x)]
    BY <1>1, <1>2, <1>4, <2>2 DEF CycleInv, StampsPast
  <2> QED BY <1>1, <1>3, <2>1, <2>2, <1>4 DEF CycleInv, StampsPast
<1>6. LastSlot'
  BY <1>1, <1>3, <1>4 DEF CycleInv, LastSlot
<1>7. PendingOrder'
  <2>1. ASSUME NEW s \in Slots, entries[s] # Garbage, entries[s].cpu = CpuOf(c),
               entries[s].epo = epo[c]
        PROVE  s + 1 < slot[c] /\ entries[s].cyc < cyc'[c]
    BY <1>1, <1>2, <2>1 DEF CycleInv, LastSlot, StampsPast
  <2>2. ASSUME NEW d \in Ctx \ {c}, pc'[d] = "write", CpuOf(d) = CpuOf(c), epo[d] = epo[c]
        PROVE  slot[d] < slot[c] /\ cyc'[d] < cyc'[c]
    BY <1>1, <1>2, <2>2 DEF CycleInv, LastSlot, StampsPast
  <2>3. ASSUME NEW x \in Ctx, pc'[x] = "write", NEW s \in Slots, entries[s] # Garbage,
               entries[s].cpu = CpuOf(x), entries[s].epo = epo[x]
        PROVE  /\ s + 1 < slot[x] => entries[s].cyc < cyc'[x]
               /\ s + 1 > slot[x] => entries[s].cyc > cyc'[x]
    <3>1. CASE x = c
      BY <1>0, <2>1, <2>3, <3>1, OrderTypes
    <3>2. CASE x # c
      BY <1>1, <1>2, <2>3, <3>2 DEF CycleInv, PendingOrder
    <3> QED BY <3>1, <3>2
  <2>4. ASSUME NEW x \in Ctx, pc'[x] = "write", NEW d \in Ctx, pc'[d] = "write",
               CpuOf(d) = CpuOf(x), epo[d] = epo[x], slot[d] < slot[x]
        PROVE  cyc'[d] < cyc'[x]
    <3>0. slot[d] \in Nat /\ slot[x] \in Nat
      BY <1>0, OrderTypes
    <3>1. CASE x = c
      BY <2>2, <2>4, <3>0, <3>1
    <3>2. CASE d = c
      BY <2>2, <2>4, <3>0, <3>2
    <3>3. CASE x # c /\ d # c
      BY <1>1, <1>2, <2>4, <3>3 DEF CycleInv, PendingOrder
    <3> QED BY <3>1, <3>2, <3>3
  <2> QED BY <1>3, <2>3, <2>4 DEF PendingOrder
<1>8. CycleOrder'
  BY <1>3 DEF CycleInv, CycleOrder
<1> QED BY <1>5, <1>6, <1>7, <1>8 DEF CycleInv

\* Writing the entry: it takes the place its pending count had in the order.
LEMMA OrderWrite ==
  ASSUME CycleInv, SlotInv', IrqsMasked', NEW c \in Ctx, Write(c)
  PROVE  CycleInv'
<1>0. TypeOK /\ slot[c] \in 1 .. avail_entries /\ pc[c] = "write"
  BY DEF CycleInv, SlotInv, WriteInBounds, Holds, Write
<1>1. PICK k : entries' = [entries EXCEPT ![slot[c] - 1] =
                 [cpu |-> CpuOf(c), cyc |-> cyc[c], kind |-> k, epo |-> epo[c]]]
  BY DEF Write
<1>2. \A s \in Slots :
        IF s = slot[c] - 1
          THEN entries'[s].cpu = CpuOf(c) /\ entries'[s].cyc = cyc[c] /\ entries'[s].epo = epo[c]
          ELSE entries'[s] = entries[s]
  <2>1. entries \in [Slots -> Entry \cup {Garbage}]
    BY <1>0 DEF TypeOK
  <2> QED BY <1>1, <2>1
<1>3. \A d \in Ctx : pc'[d] = IF d = c THEN "idle" ELSE pc[d]
  BY <1>0 DEF TypeOK, Write, Goto
<1>4. \A d \in Ctx \ {c} : slot'[d] = slot[d] /\ cyc'[d] = cyc[d] /\ epo'[d] = epo[d]
  BY <1>0 DEF TypeOK, Write, Forget
<1>5. ccnt' = ccnt
  BY DEF Write
<1>6. StampsPast'
  <2>1. ASSUME NEW s \in Slots, entries'[s] # Garbage
        PROVE  entries'[s].cyc <= ccnt[entries'[s].cpu]
    BY <1>0, <1>2, <2>1 DEF CycleInv, StampsPast
  <2>2. ASSUME NEW x \in Ctx, pc'[x] \in {"reserve", "stamp"},
               NEW s \in Slots, entries'[s] # Garbage, entries'[s].cpu = CpuOf(x)
        PROVE  entries'[s].cyc < ccnt[CpuOf(x)]
    BY <1>0, <1>2, <1>3, <2>2 DEF CycleInv, StampsPast
  <2> QED BY <1>3, <1>4, <1>5, <2>1, <2>2 DEF CycleInv, StampsPast
<1>7. LastSlot'
  <2>1. ASSUME NEW x \in Ctx, pc'[x] = "stamp", NEW s \in Slots, entries'[s] # Garbage,
               entries'[s].cpu = CpuOf(x), entries'[s].epo = epo[x]
        PROVE  s + 1 < slot[x]
    <3>1. CASE s = slot[c] - 1
      <4>1. slot[c] < slot[x]
        BY <1>0, <1>2, <1>3, <2>1, <3>1 DEF CycleInv, LastSlot
      <4> QED BY <1>0, <3>1, <4>1
    <3>2. CASE s # slot[c] - 1
      BY <1>2, <1>3, <2>1, <3>2 DEF CycleInv, LastSlot
    <3> QED BY <3>1, <3>2
  <2> QED BY <1>3, <1>4, <2>1 DEF CycleInv, LastSlot
<1>8. PendingOrder'
  <2>1. ASSUME NEW x \in Ctx, pc'[x] = "write", NEW s \in Slots, entries'[s] # Garbage,
               entries'[s].cpu = CpuOf(x), entries'[s].epo = epo[x]
        PROVE  /\ s + 1 < slot[x] => entries'[s].cyc < cyc[x]
               /\ s + 1 > slot[x] => entries'[s].cyc > cyc[x]
    <3>1. CASE s = slot[c] - 1
      <4>1. /\ slot[c] < slot[x] => cyc[c] < cyc[x]
            /\ slot[x] < slot[c] => cyc[x] < cyc[c]
        BY <1>0, <1>2, <1>3, <2>1, <3>1 DEF CycleInv, PendingOrder
      <4>2. slot[c] \in Nat /\ slot[x] \in Nat /\ cyc[c] \in Nat /\ cyc[x] \in Nat
        BY <1>0, OrderTypes
      <4> QED BY <1>2, <3>1, <4>1, <4>2
    <3>2. CASE s # slot[c] - 1
      BY <1>2, <1>3, <2>1, <3>2 DEF CycleInv, PendingOrder
    <3> QED BY <3>1, <3>2
  <2> QED BY <1>3, <1>4, <2>1 DEF CycleInv, PendingOrder
<1>9. CycleOrder'
  <2> SUFFICES ASSUME NEW s \in Slots, NEW t \in Slots, s < t,
                      entries'[s] # Garbage, entries'[t] # Garbage,
                      entries'[s].cpu = entries'[t].cpu, entries'[s].epo = entries'[t].epo
               PROVE  entries'[s].cyc < entries'[t].cyc
    BY DEF CycleOrder
  <2>0. s \in Nat /\ t \in Nat /\ slot[c] \in Nat
    BY <1>0, OrderTypes
  <2>1. CASE s = slot[c] - 1
    <3>1. entries[t] # Garbage /\ entries[t].cpu = CpuOf(c) /\ entries[t].epo = epo[c]
          /\ entries'[t] = entries[t] /\ entries'[s].cyc = cyc[c]
      BY <1>2, <2>0, <2>1
    <3>2. t + 1 > slot[c]
      BY <2>0, <2>1
    <3>3. entries[t].cyc > cyc[c]
      BY <1>0, <3>1, <3>2 DEF CycleInv, PendingOrder
    <3>4. entries[t].cyc \in Nat /\ cyc[c] \in Nat
      BY <1>0, <3>1, OrderTypes
    <3> QED BY <3>1, <3>3, <3>4
  <2>2. CASE t = slot[c] - 1
    <3>1. entries[s] # Garbage /\ entries[s].cpu = CpuOf(c) /\ entries[s].epo = epo[c]
          /\ entries'[s] = entries[s] /\ entries'[t].cyc = cyc[c]
      BY <1>2, <2>0, <2>2
    <3>2. s + 1 < slot[c]
      BY <2>0, <2>2
    <3>3. entries[s].cyc < cyc[c]
      BY <1>0, <3>1, <3>2 DEF CycleInv, PendingOrder
    <3> QED BY <3>1, <3>3
  <2>3. CASE s # slot[c] - 1 /\ t # slot[c] - 1
    BY <1>2, <2>3 DEF CycleInv, CycleOrder
  <2> QED BY <2>1, <2>2, <2>3
<1> QED BY <1>6, <1>7, <1>8, <1>9 DEF CycleInv

\* Every step preserves CycleInv.
LEMMA CycleStep == CycleInv /\ [KNext]_kvars => CycleInv'
<1> SUFFICES ASSUME CycleInv, [KNext]_kvars
             PROVE  CycleInv'
  OBVIOUS
<1>0. SlotInv' /\ IrqsMasked' /\ TypeOK
  BY SlotStep, MaskedStep DEF CycleInv, SlotInv
<1>1. ASSUME NEW c \in Ctx, TraceCheck(c)
      PROVE  CycleInv'
  BY <1>0, <1>1, OrderTick DEF TraceCheck, CanEnter
<1>2. ASSUME NEW c \in Ctx, run_command(c) \/ Stop(c) \/ Full(c) \/ CallUsnl(c)
      PROVE  CycleInv'
  <2>1. \A d \in Ctx : pc'[d] \in {"reserve", "stamp", "write"} => pc'[d] = pc[d]
    BY <1>0, <1>2 DEF run_command, Stop, StopActive, StopRequest, StopSchedule, Full,
       CallUsnl, Goto, TypeOK
  <2>2. UNCHANGED <<entries, ccnt, slot, cyc, epo>>
    BY <1>2 DEF run_command, Stop, StopActive, StopRequest, StopSchedule, Full, CallUsnl
  <2> QED BY <1>0, <2>1, <2>2, OrderFrame
<1>3. ASSUME NEW c \in Ctx, TestAndSet(c)
      PROVE  CycleInv'
  <2>1. \A d \in Ctx : pc'[d] \in {"reserve", "stamp", "write"} =>
          /\ pc'[d] = pc[d]
          /\ slot'[d] = slot[d] /\ cyc'[d] = cyc[d] /\ epo'[d] = epo[d]
    BY <1>0, <1>3 DEF TestAndSet, Forget, Goto, TypeOK
  <2> QED BY <1>0, <1>3, <2>1, OrderFrame DEF TestAndSet
<1>4. ASSUME NEW c \in Ctx, Trace(c)
      PROVE  CycleInv'
  BY <1>0, <1>2, <1>3, <1>4, OrderReserve, OrderStamp, OrderWrite DEF Trace
<1>5. CASE trace_IDs
  <2>1. pc[Usnl] = "idle" /\ Usnl \in Ctx /\ CpuOf(Usnl) = UsnlCpu
    BY <1>5, CtxFacts DEF trace_IDs, Handling
  <2> QED BY <1>0, <1>5, <2>1, OrderTick DEF trace_IDs
<1>6. CASE UNCHANGED <<entries, ccnt, pc, slot, cyc, epo>>
  BY <1>0, <1>6, OrderFrame
<1>7. CASE RunIpi \/ RunTasklet
  BY <1>6, <1>7 DEF RunIpi, RunTasklet
<1>8. CASE Handler /\ ~trace_IDs
  BY <1>6, <1>8 DEF Handler, StartReset, StartActive, StartDone, StopCmdSched,
     StopCmdActive, StopCmdReset, SyncReset, SyncSched, SyncActive, RequestStop,
     SendStop, RequestClear, RequestData, SendEndOfData, SendEntry
<1>9. CASE Client
  BY <1>6, <1>9 DEF Client, nl_rcv_func, bind, recvmsg, close, Socket
<1>10. CASE UNCHANGED kvars
  BY <1>6, <1>10 DEF kvars
<1> QED BY <1>1, <1>2, <1>4, <1>5, <1>7, <1>8, <1>9, <1>10 DEF KNext, Kernel

LEMMA CycleInit == initialize_tracer => CycleInv
<1> SUFFICES ASSUME initialize_tracer
             PROVE  CycleInv
  OBVIOUS
<1>1. \A c \in Ctx : pc[c] = "idle"
  BY DEF initialize_tracer
<1>2. \A s \in Slots : entries[s] = Garbage
  BY DEF initialize_tracer
<1> QED BY <1>1, <1>2, SlotInit
    DEF CycleInv, IrqsMasked, StampsPast, LastSlot, PendingOrder, CycleOrder, IrqOff

\* Per CPU and between two resets, entries are in the order of their cycle
\* counts, however interrupts nest and whatever other CPUs do: interrupts are
\* off from the draw of the slot to the read of the counter.
THEOREM CyclesOrdered == KSpec => []CycleOrder
<1>1. CycleInv => CycleOrder
  BY DEF CycleInv
<1> QED BY <1>1, CycleInit, CycleStep, PTL DEF KSpec
=============================================================================
