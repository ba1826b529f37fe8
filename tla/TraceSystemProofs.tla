------------------------- MODULE TraceSystemProofs -------------------------
(***************************************************************************)
(* What is proved about the tracer with its real client, usnl, driven and  *)
(* killed by experiment.sh: it is one of the clients SepextTrace allows,   *)
(* so all that SepextTraceProofs proves of any client holds of it; a       *)
(* request is answered; and usnl counts the samples that are in its file.  *)
(* On one CPU, moreover, the file is faithful, no wake-up is lost, and the *)
(* two together drain the buffer round by round (DrainCycle).              *)
(***************************************************************************)
EXTENDS TraceSystem, SepextTraceProofs, FiniteSetTheorems, SequenceTheorems

-----------------------------------------------------------------------------
(* The refinement                                                          *)

\* Runs of usnl are counted; their pids are positive.
Pids == sessions \in Nat

LEMMA PidsStep == Pids /\ [Next]_vars => Pids'
BY DEF Pids, Next, vars, uvars, Continue, experiment_end, Interrupt, Handle, UStart, usnl, kill,
   UStartTracing, URequest, URecvStop, URecvEndOfData, URecvWakeUp, URecvEntry, USync,
   UWait, UStopTracing, UClose

\* A step of usnl is a step of the client of SepextTrace.
LEMMA ClientStep ==
  ASSUME usnl
  PROVE  Client
<1>1. CASE UStartTracing
  BY <1>1 DEF UStartTracing, Client, Commands
<1>2. CASE URequest
  BY <1>2 DEF URequest, Client, Commands
<1>3. CASE USync
  BY <1>3 DEF USync, Client, Commands
<1>4. CASE UStopTracing
  BY <1>4 DEF UStopTracing, Client, Commands
<1>5. CASE URecvStop \/ URecvEndOfData \/ URecvWakeUp \/ URecvEntry \/ UWait
  BY <1>5 DEF URecvStop, URecvEndOfData, URecvWakeUp, URecvEntry, UWait, Receive, Client
<1>6. CASE UClose
  BY <1>6 DEF UClose, Client
<1> QED BY <1>1, <1>2, <1>3, <1>4, <1>5, <1>6 DEF usnl

\* Every step of the system is a step of the tracer under an arbitrary client,
\* or one that the tracer does not see.
LEMMA KernelStep == Pids /\ [Next]_vars => [KNext]_kvars
<1> SUFFICES ASSUME Pids, [Next]_vars
             PROVE  [KNext]_kvars
  OBVIOUS
<1>1. ASSUME NEW c \in Ctx, TraceCheck(c) \/ Continue(c) \/ experiment_end(c)
      PROVE  KNext
  BY <1>1 DEF KNext, Kernel, Continue, experiment_end
<1>2. CASE Interrupt \/ Handle
  BY <1>2 DEF KNext, Kernel, Interrupt, Handle
<1>3. CASE UStart
  <2>1. sock' \in Nat \ {0}
    BY <1>3 DEF UStart, Pids
  <2> QED BY <1>3, <2>1 DEF UStart, bind, KNext, Client
<1>4. CASE usnl
  BY <1>4, ClientStep DEF KNext
<1>5. CASE kill
  BY <1>5 DEF kill, KNext, Client
<1>6. CASE UNCHANGED vars
  BY <1>6 DEF vars
<1> QED BY <1>1, <1>2, <1>3, <1>4, <1>5, <1>6 DEF Next

\* usnl.c, with experiment.sh starting, stopping and killing it at any moment
\* outside the kernel, is one of the clients that the specification of the
\* tracer allows.
THEOREM ImplementsTracer == Spec => KSpec
<1>1. Init => initialize_tracer /\ Pids
  BY DEF Init, Pids
<1> QED BY <1>1, PidsStep, KernelStep, PTL DEF Spec, KSpec

\* With that client, too, nothing is written outside the buffer, ...
COROLLARY ClientWritesInBounds == Spec => []WriteInBounds
BY ImplementsTracer, WritesInBounds, PTL

\* ... no slot is given away twice between two resets, ...
COROLLARY ClientSlotsExclusive == Spec => []SlotExclusive
BY ImplementsTracer, SlotsExclusive, PTL

\* ... and the entries of a CPU are in the order of their cycle counts.
COROLLARY ClientCyclesOrdered == Spec => []CycleOrder
BY ImplementsTracer, CyclesOrdered, PTL
-----------------------------------------------------------------------------
(* Requests are answered                                                   *)

\* The steps of REQUEST_ENTRY that come before its answer, and that after it.
Unanswered == {"req1", "sendstop", "req2", "sendeod", "sendentry"}

\* While usnl is in the recvmsg() after a request, either the handler has yet
\* to answer and sends to usnl's own socket, or the queue is not empty.
RequestInv ==
  upc = "recv" /\ lost = 0 =>
    /\ sock # 0
    /\ hpc \in Unanswered \cup {"clear", "none"}
    /\ hpc \in Unanswered => us_pid = sock
    /\ hpc \notin Unanswered => rcvq # <<>>

AnswerInv == Pids /\ TypeOK /\ RequestInv

\* A message that is not lost leaves the queue of its addressee nonempty; no
\* message takes another one away.
LEMMA SendKeeps ==
  ASSUME TypeOK, NEW m \in Msg, NEW pid, send_to_userspace(m, pid)
  PROVE  /\ rcvq # <<>> => rcvq' # <<>>
         /\ lost' = 0 => lost = 0
         /\ lost' = 0 /\ pid = sock /\ sock # 0 => rcvq' # <<>>
<1>1. rcvq \in Seq(Msg) /\ lost \in Nat
  BY DEF TypeOK
<1>2. Append(rcvq, m) # <<>>
  <2>1. Len(Append(rcvq, m)) = Len(rcvq) + 1 /\ Len(rcvq) \in Nat /\ Len(<<>>) = 0
    BY <1>1
  <2> QED BY <2>1
<1> QED BY <1>1, <1>2 DEF send_to_userspace, Lose

LEMMA AnswerInit == Init => AnswerInv
BY TypeInit DEF Init, AnswerInv, Pids, RequestInv

LEMMA AnswerStep == AnswerInv /\ [Next]_vars => AnswerInv'
<1> SUFFICES ASSUME AnswerInv, [Next]_vars
             PROVE  AnswerInv'
  OBVIOUS
<1>0. Pids /\ TypeOK /\ RequestInv /\ Pids' /\ TypeOK'
  BY PidsStep, KernelStep, TypeStep DEF AnswerInv
<1> SUFFICES RequestInv'
  BY <1>0 DEF AnswerInv
\* Steps that leave usnl, the handler and their socket alone ...
<1>1. CASE UNCHANGED <<upc, lost, sock, hpc, us_pid, rcvq>>
  BY <1>0, <1>1 DEF RequestInv
\* ... or only queue another message.
<1>2. ASSUME UNCHANGED <<upc, sock, hpc, us_pid>>,
             rcvq # <<>> => rcvq' # <<>>, lost' = 0 => lost = 0
      PROVE  RequestInv'
  BY <1>0, <1>2 DEF RequestInv
<1>3. ASSUME awake_usnl \/ schedule_usnl, UNCHANGED <<upc, sock, hpc, us_pid>>
      PROVE  RequestInv'
  <2>1. [t |-> "WAKE_UP_USNL"] \in Msg
    BY DEF Msg
  <2>2. (rcvq # <<>> => rcvq' # <<>>) /\ (lost' = 0 => lost = 0)
    BY <1>0, <1>3, <2>1, SendKeeps DEF awake_usnl, schedule_usnl
  <2> QED BY <1>2, <1>3, <2>2
<1>4. ASSUME NEW c \in Ctx, (TraceCheck(c) /\ UNCHANGED uvars) \/ Continue(c) \/ experiment_end(c)
      PROVE  RequestInv'
  <2>1. CASE CallUsnl(c) /\ UNCHANGED uvars
    BY <1>1, <1>3, <2>1 DEF CallUsnl, uvars, control, channel, handler
  <2> QED BY <1>1, <1>4, <2>1 DEF TraceCheck, Continue, Trace, Stop, experiment_end, run_command,
     Reserve, Stamp, Write, Full, TestAndSet, StopActive, StopRequest, StopSchedule, uvars,
     control, channel, handler
<1>5. CASE Interrupt
  BY <1>3, <1>5 DEF Interrupt, RunIpi, RunTasklet, uvars, control, handler
<1>6. CASE Handle
  <2> USE DEF Handling, uvars, control, channel
  <2>1. upc' = upc /\ sock' = sock /\ Handler
    BY <1>6 DEF Handle, Handler, StartReset, StartActive, trace_IDs, StartDone, StopCmdSched,
       StopCmdActive, StopCmdReset, SyncReset, SyncSched, SyncActive, RequestStop, SendStop,
       RequestClear, RequestData, SendEndOfData, SendEntry
  <2>2. CASE ~(hpc \in Unanswered \cup {"clear"})
    BY <1>0, <2>1, <2>2 DEF RequestInv, Unanswered, Handler, StartReset, StartActive, trace_IDs,
       StartDone, StopCmdSched, StopCmdActive, StopCmdReset, SyncReset, SyncSched, SyncActive,
       RequestStop, SendStop, RequestClear, RequestData, SendEndOfData, SendEntry
  <2>3. CASE RequestStop \/ RequestData \/ RequestClear
    BY <1>0, <2>1, <2>3 DEF RequestInv, Unanswered, RequestStop, RequestData, RequestClear
  <2>4. ASSUME NEW m \in Msg, send_to_userspace(m, us_pid), us_pid' = us_pid,
               hpc \in Unanswered, hpc' \in {"clear", "none"}
        PROVE  RequestInv'
    BY <1>0, <2>1, <2>4, SendKeeps DEF RequestInv, Unanswered
  <2>5. CASE SendStop \/ SendEndOfData
    <3>1. [t |-> "STOP_TRACING"] \in Msg /\ [t |-> "END_OF_DATA"] \in Msg
      BY DEF Msg
    <3> QED BY <2>4, <2>5, <3>1 DEF SendStop, SendEndOfData, EndOfData, Unanswered
  <2>6. CASE SendEntry
    <3>1. lastread \in Slots
      BY <1>0, <2>6, BufferAssumption DEF SendEntry, TypeOK, Slots
    <3>2. [t |-> "ENTRY", e |-> entries[lastread]] \in Msg
      BY <1>0, <3>1 DEF TypeOK, Msg
    <3> QED BY <2>4, <2>6, <3>2 DEF SendEntry, Unanswered
  <2>7. hpc \in Unanswered \cup {"clear"} =>
          RequestStop \/ RequestData \/ RequestClear \/ SendStop \/ SendEndOfData \/ SendEntry
    BY <2>1 DEF Unanswered, Handler, StartReset, StartActive, trace_IDs,
       StartDone, StopCmdSched, StopCmdActive, StopCmdReset, SyncReset, SyncSched, SyncActive
  <2> QED BY <2>2, <2>3, <2>5, <2>6, <2>7
<1>7. CASE URequest
  BY <1>0, <1>7 DEF URequest, nl_rcv_func, FirstStep, RequestInv, Unanswered, channel
<1>8. CASE UStart \/ kill \/ (usnl /\ ~URequest)
  <2>1. upc' # "recv"
    BY <1>8 DEF UStart, kill, usnl, UStartTracing, URecvStop, URecvEndOfData, URecvWakeUp,
       URecvEntry, USync, UWait, UStopTracing, UClose
  <2> QED BY <2>1 DEF RequestInv
<1>9. CASE UNCHANGED vars
  BY <1>1, <1>9 DEF vars, kvars, uvars, control, channel, handler
<1> QED BY <1>4, <1>5, <1>6, <1>7, <1>8, <1>9 DEF Next

\* usnl is never left alone in the recvmsg() after a REQUEST_ENTRY, however
\* stops, kills, restarts and wake-ups fall: as long as no message was lost
\* there is one to receive, since the pid the handler recorded is the pid of
\* the socket the request came from.
THEOREM RequestsAnswered == Spec => []RequestAnswered
<1>1. AnswerInv => RequestAnswered
  BY DEF AnswerInv, RequestInv, RequestAnswered, Unanswered
<1> QED BY <1>1, AnswerInit, AnswerStep, PTL DEF Spec
-----------------------------------------------------------------------------
(* The samples usnl counts                                                 *)

\* The file ends inside the service: no exit and no EOD line follow an entry.
EndsInService ==
  \E j \in 1 .. Len(f) :
    /\ IsKind(j, "entry")
    /\ \A k \in j + 1 .. Len(f) : f[k].t = "ENTRY" /\ ~IsKind(k, "exit")

Samples == {i \in DOMAIN f : Counted(i)}

\* inservice says how the file ends, but for the time from an EOD line to the
\* next request, when it is yet to be cleared.
CountInv ==
  /\ f \in Seq(Msg) /\ inservice \in BOOLEAN
  /\ upc = "start" => outcount = 0 /\ ~inservice
  /\ ToObtain > 0 /\ upc \notin {"off", "start"} =>
       /\ outcount = Cardinality(Samples)
       /\ upc \in {"sync", "wait"} => ~EndsInService
       /\ upc \notin {"sync", "wait"} => (inservice <=> EndsInService)

SampleInv == AnswerInv /\ CountInv

\* What a line written to the file changes: lines before it count as before.
LEMMA AppendLine ==
  ASSUME f \in Seq(Msg), NEW m \in Msg, f' = Append(f, m)
  PROVE  /\ f' \in Seq(Msg)
         /\ IF m.t = "ENTRY" /\ Kind(m.e) = "exit" /\ EndsInService
              THEN Samples' = Samples \cup {Len(f) + 1}
              ELSE Samples' = Samples
         /\ EndsInService' <=>
              m.t = "ENTRY" /\ (Kind(m.e) = "entry" \/ (Kind(m.e) # "exit" /\ EndsInService))
<1>0. PICK n \in Nat : n = Len(f)
  OBVIOUS
<1>1. /\ f' \in Seq(Msg) /\ Len(f') = n + 1
      /\ DOMAIN f = 1 .. n /\ DOMAIN f' = 1 .. n + 1
      /\ f'[n + 1] = m
      /\ \A i \in 1 .. n : f'[i] = f[i]
  BY <1>0
<1>2. \A i \in 1 .. n : \A k : IsKind(i, k)' <=> IsKind(i, k)
  BY <1>1 DEF IsKind, Kind
<1>3. \A k : IsKind(n + 1, k)' <=> m.t = "ENTRY" /\ Kind(m.e) = k
  BY <1>1 DEF IsKind, Kind
<1>4. ASSUME NEW i \in 1 .. n
      PROVE  Counted(i)' <=> Counted(i)
  <2>1. \A j \in 1 .. i - 1 : j \in 1 .. n /\ \A k \in j + 1 .. i - 1 : k \in 1 .. n
    BY <1>0
  <2> QED BY <1>1, <1>2, <2>1 DEF Counted
<1>5. Counted(n + 1)' <=> m.t = "ENTRY" /\ Kind(m.e) = "exit" /\ EndsInService
  <2>1. /\ n + 1 - 1 = n
        /\ \A j \in 1 .. n : \A k \in j + 1 .. n : k \in 1 .. n
    BY <1>0
  <2> QED BY <1>0, <1>1, <1>2, <1>3, <2>1 DEF Counted, EndsInService
<1>6. IF m.t = "ENTRY" /\ Kind(m.e) = "exit" /\ EndsInService
        THEN Samples' = Samples \cup {n + 1}
        ELSE Samples' = Samples
  <2>1. Samples = {i \in 1 .. n : Counted(i)}
    BY <1>1 DEF Samples
  <2>2. Samples' = {i \in 1 .. n + 1 : Counted(i)'}
    BY <1>1 DEF Samples
  <2>3. 1 .. n + 1 = 1 .. n \cup {n + 1}
    BY <1>0
  <2> QED BY <1>4, <1>5, <2>1, <2>2, <2>3
<1>7. EndsInService' <=>
        m.t = "ENTRY" /\ (Kind(m.e) = "entry" \/ (Kind(m.e) # "exit" /\ EndsInService))
  <2>1. EndsInService' <=>
          \E j \in 1 .. n + 1 :
            /\ IsKind(j, "entry")'
            /\ \A k \in j + 1 .. n + 1 : f'[k].t = "ENTRY" /\ ~IsKind(k, "exit")'
    BY <1>1 DEF EndsInService
  <2>2. ASSUME NEW j \in 1 .. n
        PROVE  (\A k \in j + 1 .. n + 1 : f'[k].t = "ENTRY" /\ ~IsKind(k, "exit")')
               <=> /\ m.t = "ENTRY" /\ Kind(m.e) # "exit"
                   /\ \A k \in j + 1 .. n : f[k].t = "ENTRY" /\ ~IsKind(k, "exit")
    <3>1. j + 1 .. n + 1 = j + 1 .. n \cup {n + 1} /\ \A k \in j + 1 .. n : k \in 1 .. n
      BY <1>0
    <3> QED BY <1>1, <1>2, <1>3, <3>1
  <2>3. 1 .. n + 1 = 1 .. n \cup {n + 1} /\ n + 1 + 1 .. n + 1 = {}
    BY <1>0
  <2>4. (\A k \in n + 1 + 1 .. n + 1 : f'[k].t = "ENTRY" /\ ~IsKind(k, "exit")') = TRUE
    BY <2>3
  <2> DEFINE Last(j) == /\ IsKind(j, "entry")
                        /\ \A k \in j + 1 .. n : f[k].t = "ENTRY" /\ ~IsKind(k, "exit")
  <2>5. EndsInService' <=>
          \/ IsKind(n + 1, "entry")'
          \/ \E j \in 1 .. n : m.t = "ENTRY" /\ Kind(m.e) # "exit" /\ Last(j)
    BY <1>2, <2>1, <2>2, <2>3, <2>4
  <2>6. EndsInService <=> \E j \in 1 .. n : Last(j)
    BY <1>0 DEF EndsInService
  <2> HIDE DEF Last
  <2>7. IsKind(n + 1, "entry")' <=> m.t = "ENTRY" /\ Kind(m.e) = "entry"
    BY <1>3
  <2>8. EndsInService' <=>
          IsKind(n + 1, "entry")' \/ (m.t = "ENTRY" /\ Kind(m.e) # "exit" /\ EndsInService)
    BY <2>5, <2>6
  <2> QED BY <2>7, <2>8
<1> QED BY <1>0, <1>1, <1>6, <1>7

LEMMA SamplesFinite ==
  ASSUME f \in Seq(Msg)
  PROVE  /\ IsFiniteSet(Samples) /\ Cardinality(Samples) \in Nat
         /\ Cardinality(Samples \cup {Len(f) + 1}) = Cardinality(Samples) + 1
<1>1. Len(f) \in Nat /\ DOMAIN f = 1 .. Len(f)
  OBVIOUS
<1>2. IsFiniteSet(1 .. Len(f)) /\ Samples \in SUBSET (1 .. Len(f))
  BY <1>1, FS_Interval DEF Samples
<1>3. IsFiniteSet(Samples)
  BY <1>2, FS_Subset
<1>4. Len(f) + 1 \notin Samples
  BY <1>1, <1>2
<1> QED BY <1>3, <1>4, FS_CardinalityType, FS_AddElement

LEMMA CountStep == SampleInv /\ [Next]_vars => SampleInv'
<1> SUFFICES ASSUME SampleInv, [Next]_vars
             PROVE  SampleInv'
  OBVIOUS
<1>0. AnswerInv' /\ TypeOK /\ CountInv
  BY AnswerStep DEF SampleInv, AnswerInv
<1> SUFFICES CountInv'
  BY <1>0 DEF SampleInv
\* Steps that leave the file and the counters alone.
<1>1. ASSUME UNCHANGED <<inservice, outcount, f>>,
             \/ upc' = "off" \/ upc' = upc
             \/ /\ upc \notin {"off", "start", "sync", "wait"}
                /\ upc' \notin {"start", "sync", "wait"}
             \/ upc = "sync" /\ upc' = "wait"
      PROVE  CountInv'
  BY <1>0, <1>1 DEF CountInv, Samples, Counted, IsKind, EndsInService
<1>2. CASE UNCHANGED uvars
  BY <1>1, <1>2 DEF uvars
<1>3. CASE UStart \/ kill
  <2>1. /\ upc' \in {"off", "start"} /\ f' = f /\ inservice' \in BOOLEAN
        /\ upc' = "start" => outcount' = 0 /\ ~inservice'
    BY <1>0, <1>3 DEF UStart, kill, CountInv
  <2> QED BY <1>0, <2>1 DEF CountInv
<1>4. CASE URequest \/ URecvStop \/ URecvWakeUp \/ USync \/ UStopTracing \/ UClose
  BY <1>1, <1>4 DEF URequest, URecvStop, URecvWakeUp, Receive, USync, UStopTracing, UClose
\* The file is empty, and so is the count of samples.
<1>5. CASE UStartTracing
  <2>1. f' = <<>> /\ upc' = "loop" /\ outcount' = 0 /\ inservice' = FALSE
    BY <1>0, <1>5 DEF UStartTracing, CountInv
  <2>2. f' \in Seq(Msg) /\ DOMAIN f' = {} /\ 1 .. Len(f') = {}
    BY <2>1
  <2>3. Samples' = {} /\ ~EndsInService'
    BY <2>2 DEF Samples, EndsInService
  <2> QED BY <2>1, <2>2, <2>3, FS_EmptySet DEF CountInv
<1>6. CASE URecvEndOfData
  <2>1. Head(rcvq) \in Msg /\ Head(rcvq).t = "END_OF_DATA"
    BY <1>0, <1>6 DEF TypeOK, URecvEndOfData, Receive, recvmsg
  <2>2. f' \in Seq(Msg) /\ Samples' = Samples /\ ~EndsInService'
    BY <1>0, <1>6, <2>1, AppendLine DEF URecvEndOfData, CountInv
  <2> QED BY <1>0, <1>6, <2>2 DEF URecvEndOfData, Receive, CountInv
<1>7. CASE UWait
  <2>1. Samples' = Samples /\ EndsInService' = EndsInService
    BY <1>7 DEF UWait, Samples, Counted, IsKind, EndsInService
  <2> QED BY <1>0, <1>7, <2>1 DEF UWait, LeaveService, CountInv
<1>8. CASE URecvEntry
  <2>1. PICK m \in Msg : m = Head(rcvq)
    BY <1>0, <1>8 DEF TypeOK, URecvEntry, Receive, recvmsg
  <2>2. m.t = "ENTRY" /\ f' = Append(f, m) /\ upc = "recv"
    BY <1>8, <2>1 DEF URecvEntry, Receive
  <2>3. /\ f' \in Seq(Msg)
        /\ IF Kind(m.e) = "exit" /\ EndsInService
             THEN Samples' = Samples \cup {Len(f) + 1}
             ELSE Samples' = Samples
        /\ EndsInService' <=> Kind(m.e) = "entry" \/ (Kind(m.e) # "exit" /\ EndsInService)
    BY <1>0, <2>2, AppendLine DEF CountInv
  <2>4. CASE ToObtain = 0
    BY <1>0, <1>8, <2>3, <2>4 DEF URecvEntry, CountInv
  <2>5. CASE ToObtain > 0
    <3>1. /\ inservice' = InService(m.e) /\ outcount' = OutCount(m.e)
          /\ upc' \in {"bye", "loop"}
      BY <1>8, <2>1, <2>5 DEF URecvEntry
    <3>2. inservice' \in BOOLEAN /\ (inservice' <=> EndsInService')
      BY <1>0, <2>2, <2>3, <2>5, <3>1 DEF InService, CountInv
    <3>3. outcount' = Cardinality(Samples')
      BY <1>0, <2>2, <2>3, <2>5, <3>1, SamplesFinite DEF OutCount, CountInv
    <3> QED BY <2>3, <3>1, <3>2, <3>3 DEF CountInv
  <2> QED BY <2>4, <2>5, ClientAssumption
<1>9. CASE UNCHANGED vars
  BY <1>2, <1>9 DEF vars
<1> QED BY <1>2, <1>3, <1>4, <1>5, <1>6, <1>7, <1>8, <1>9
    DEF Next, Continue, experiment_end, Interrupt, Handle, usnl

\* However often usnl is stopped, killed and restarted, and wherever the
\* trace is cut, the samples it has counted are the exits in its file that
\* have their entry in the same stretch of it.
THEOREM SamplesCounted == Spec => []OnlyMatchedExitsCounted
<1>1. Init => SampleInv
  <2> SUFFICES ASSUME Init
               PROVE  SampleInv
    OBVIOUS
  <2>1. f = <<>> /\ inservice = FALSE /\ upc = "off"
    BY DEF Init
  <2>2. f \in Seq(Msg)
    BY <2>1
  <2> QED BY <2>1, <2>2, AnswerInit DEF SampleInv, CountInv
<1>2. SampleInv => OnlyMatchedExitsCounted
  BY DEF SampleInv, CountInv, OnlyMatchedExitsCounted, Samples
<1> QED BY <1>1, <1>2, CountStep, PTL DEF Spec
-----------------------------------------------------------------------------
(* One CPU: what the file holds                                            *)

\* The assumption of this part: one CPU, and no SEPEXT_STOP.  Kills, lost
\* messages and any number of sessions are allowed.
OneCPU == CPUs = {0} /\ MaxStops = 0

Idle == \A c \in Ctx : pc[c] = "idle"

\* usnl has a session, but for the first two steps of START_TRACING.
Working == {"loop", "recv", "sync", "wait", "bye"}

\* Which command the handler is in, by where usnl is.
Paired ==
  /\ upc \in Working \cup {"off", "start", "close"}
  /\ hpc # "none" =>
       \/ upc = "loop" /\ hpc \in {"start1", "start2", "ids"}
       \/ upc = "recv" /\ hpc \in {"req1", "req2", "sendeod", "sendentry"}
       \/ upc = "wait" /\ hpc \in {"sync1", "sync2", "sync3"}
       \/ upc = "close" /\ hpc \in {"stop1", "stop2", "stop3"}
  /\ pc[Usnl] # "idle" => hpc = "ids"

NoStop ==
  /\ stops = 0 /\ stop_tracing_requested = 0 /\ tasklet = 0 /\ ipi = 0
  /\ \A c \in Ctx : pc[c] \notin {"stop1", "stop2", "stop3"}

\* The only CPU resets the buffer when no call is in flight, so slots that are
\* held were drawn since.
ThisRound ==
  /\ \A c \in Ctx : Holds(c) => epo[c] = epoch
  /\ \A c \in Ctx : pc[c] \in {"full", "test"} => lastentry > avail_entries

\* A slot that was drawn is filled or about to be.
Filled ==
  \A s \in Slots : s < lastentry =>
    \/ entries[s] # Garbage /\ entries[s].epo = epoch
    \/ \E c \in Ctx : Holds(c) /\ slot[c] = s + 1

\* Within a session tracing is off only when the buffer is full, or while a
\* command is resetting it.
Resetting == {"start1", "start2", "sync2", "sync3"}
OffWhenFull ==
  /\ upc \in Working /\ hpc \notin Resetting /\ tracing_active = 0 =>
       lastentry > avail_entries
  /\ hpc = "sendentry" => tracing_active = 0

RoundInv == Pids /\ CycleInv /\ Paired /\ NoStop /\ ThisRound /\ Filled /\ OffWhenFull

\* On one CPU usnl, and with it the handler, runs only when no call is in
\* flight.
LEMMA OneCpuContexts ==
  ASSUME OneCPU
  PROVE  /\ UsnlCpu = 0
         /\ \A c \in Ctx : CpuOf(c) = 0
         /\ \A l : Handling(l) => Idle
<1>1. UsnlCpu = 0
  BY CpusAssumption DEF OneCPU
<1>2. \A c \in Ctx : CpuOf(c) = 0
  BY CtxFacts DEF OneCPU
<1>3. ASSUME NEW c \in Ctx, c # Usnl
      PROVE  Level(c) > Level(Usnl)
  BY <1>1, <1>2, <1>3, CtxFacts
<1>4. ASSUME NEW l, Handling(l), NEW c \in Ctx
      PROVE  pc[c] = "idle"
  BY <1>1, <1>2, <1>3, <1>4, CtxFacts DEF Handling, Runs
<1> QED BY <1>1, <1>2, <1>4 DEF Idle

\* The steps that are left without stops.
LEMMA StepsWithoutStop ==
  ASSUME OneCPU, NoStop, [Next]_vars
  PROVE  \/ \E c \in Ctx : (TraceCheck(c) \/ Trace(c)) /\ UNCHANGED uvars
         \/ Handle \/ UStart \/ usnl \/ kill
         \/ UNCHANGED vars
<1>1. ~Interrupt
  BY DEF NoStop, Interrupt, RunIpi, RunTasklet
<1>2. \A c \in Ctx : ~experiment_end(c)
  BY DEF NoStop, OneCPU, experiment_end, run_command
<1>3. \A c \in Ctx : ~Stop(c)
  BY DEF NoStop, Stop, StopActive, StopRequest, StopSchedule
<1> QED BY <1>1, <1>2, <1>3 DEF Next, Continue

\* What the handler and usnl leave to the contexts.
LEMMA HandlerKeeps ==
  ASSUME Handler
  PROVE  /\ UNCHANGED <<sock, stops, tasklet, ipi, slot, cyc, epo, entries>>
         /\ stop_tracing_requested = 0 => stop_tracing_requested' = 0
         /\ \E l \in HPCs : Handling(l)
         /\ trace_IDs \/ UNCHANGED <<pc, ccnt>>
         /\ SendStop \/ SendEndOfData \/ SendEntry \/ UNCHANGED <<rcvq, lost>>
BY DEF Handler, HPCs, StartReset, StartActive, trace_IDs, StartDone, StopCmdSched,
   StopCmdActive, StopCmdReset, SyncReset, SyncSched, SyncActive, RequestStop, SendStop,
   RequestClear, RequestData, SendEndOfData, SendEntry, control, buffer, wakeup, locals,
   channel, Rearm

LEMMA UserKeeps ==
  ASSUME UStart \/ usnl \/ kill
  PROVE  /\ UNCHANGED <<buffer, wakeup, pc, locals, ccnt, tracing_active,
                        stop_tracing_requested, stops, lost, ids>>
         /\ Handling("none")
BY DEF UStart, usnl, kill, UStartTracing, URequest, URecvStop, URecvEndOfData, URecvWakeUp,
   URecvEntry, USync, UWait, UStopTracing, UClose, Receive, bind, recvmsg, close, Socket,
   nl_rcv_func, control, handler, channel

LEMMA NoStopStep ==
  ASSUME OneCPU, RoundInv, [Next]_vars
  PROVE  NoStop'
<1>0. pc \in [Ctx -> PCs] /\ NoStop
  BY DEF RoundInv, CycleInv, SlotInv, TypeOK
<1>1. ASSUME NEW c \in Ctx, TraceCheck(c) \/ Trace(c)
      PROVE  NoStop'
  <2>1. /\ UNCHANGED <<stops, stop_tracing_requested, tasklet, ipi>>
        /\ \E l \in PCs \ {"stop1", "stop2", "stop3"} : Goto(c, l)
    BY <1>1, OneCpuContexts DEF TraceCheck, Trace, Reserve, Stamp, Write, Full, TestAndSet,
       CallUsnl, control, wakeup, PCs
  <2> QED BY <1>0, <2>1 DEF Goto, NoStop
<1>2. CASE Handle
  <2>1. /\ UNCHANGED <<stops, tasklet, ipi>> /\ stop_tracing_requested' = 0
        /\ trace_IDs \/ UNCHANGED pc
    BY <1>0, <1>2, HandlerKeeps DEF Handle, NoStop
  <2> QED BY <1>0, <2>1 DEF trace_IDs, Goto, NoStop
<1>3. CASE UStart \/ usnl \/ kill
  BY <1>0, <1>3, UserKeeps DEF NoStop, wakeup
<1>4. CASE UNCHANGED vars
  BY <1>0, <1>4 DEF vars, kvars, NoStop, control, wakeup
<1> QED BY <1>0, <1>1, <1>2, <1>3, <1>4, StepsWithoutStop

LEMMA PairedStep ==
  ASSUME OneCPU, RoundInv, [Next]_vars
  PROVE  Paired'
<1>0. pc \in [Ctx -> PCs] /\ NoStop /\ Paired
  BY DEF RoundInv, CycleInv, SlotInv, TypeOK
<1>1. ASSUME NEW c \in Ctx, TraceCheck(c) \/ Trace(c), UNCHANGED uvars
      PROVE  Paired'
  <2>1. /\ hpc' = hpc /\ upc' = upc
        /\ \E l \in PCs : Goto(c, l)
        /\ c = Usnl => pc[c] # "idle"
    BY <1>1 DEF TraceCheck, Trace, Reserve, Stamp, Write, Full, TestAndSet,
       CallUsnl, handler, PCs, uvars
  <2> QED BY <1>0, <2>1 DEF Goto, Paired
<1>2. CASE Handle
  <2>1. upc' = upc /\ Handler
    BY <1>2 DEF Handle, uvars
  <2>2. CASE trace_IDs
    BY <1>0, <2>1, <2>2 DEF trace_IDs, Handling, Goto, Paired
  <2>3. CASE ~trace_IDs
    <3>1. pc' = pc /\ pc[Usnl] = "idle"
      BY <2>1, <2>3, HandlerKeeps DEF Handling
    <3> QED BY <1>0, <2>1, <2>3, <3>1 DEF Paired, NoStop, Handling, Handler, StartReset,
            StartActive, StartDone, StopCmdSched, StopCmdActive, StopCmdReset, SyncReset,
            SyncSched, SyncActive, RequestStop, SendStop, RequestClear, RequestData,
            SendEndOfData, SendEntry
  <2> QED BY <2>2, <2>3
<1>3. CASE UStart \/ usnl \/ kill
  <2>1. hpc = "none" /\ pc' = pc /\ pc[Usnl] = "idle"
    BY <1>3, UserKeeps DEF Handling
  <2> QED BY <1>0, <1>3, <2>1 DEF Paired, Working, UStart, usnl, kill, UStartTracing, URequest,
          URecvStop, URecvEndOfData, URecvWakeUp, URecvEntry, USync, UWait, UStopTracing, UClose,
          Receive, bind, recvmsg, close, Socket, nl_rcv_func, FirstStep, handler
<1>4. CASE UNCHANGED vars
  BY <1>0, <1>4 DEF vars, kvars, uvars, Paired, handler
<1> QED BY <1>0, <1>1, <1>2, <1>3, <1>4, StepsWithoutStop

LEMMA ThisRoundStep ==
  ASSUME OneCPU, RoundInv, [Next]_vars
  PROVE  ThisRound'
<1>0. TypeOK /\ NoStop /\ ThisRound
  BY DEF RoundInv, CycleInv, SlotInv
<1> USE DEF Holds
<1>1. ASSUME NEW c \in Ctx, TraceCheck(c) \/ Trace(c)
      PROVE  ThisRound'
  <2>1. CASE Reserve(c)
    <3>1. lastentry \in Nat /\ lastentry' = lastentry + 1 /\ epoch' = epoch
      BY <1>0, <2>1 DEF TypeOK, Reserve, atomic_add
    <3>2. /\ epo'[c] = epoch
          /\ pc'[c] \in {"full", "stamp"} /\ (pc'[c] = "full" => lastentry + 1 > avail_entries)
          /\ \A d \in Ctx \ {c} : pc'[d] = pc[d] /\ epo'[d] = epo[d]
      BY <1>0, <2>1 DEF TypeOK, Reserve, Goto, TooFar
    <3> QED BY <1>0, <3>1, <3>2, BufferAssumption DEF ThisRound
  <2>2. CASE TraceCheck(c) \/ Stamp(c) \/ Full(c)
    BY <1>0, <2>2 DEF TypeOK, ThisRound, TraceCheck, Stamp, Full, Goto, buffer, locals
  <2>3. CASE Write(c) \/ TestAndSet(c) \/ CallUsnl(c)
    BY <1>0, <2>3 DEF TypeOK, ThisRound, Write, TestAndSet, CallUsnl, Goto, Forget, buffer, locals
  <2> QED BY <1>1, <2>1, <2>2, <2>3 DEF Trace
<1>2. CASE Handle
  <2>1. Idle /\ (trace_IDs \/ UNCHANGED pc)
    BY <1>2, HandlerKeeps, OneCpuContexts DEF Handle
  <2>2. \A c \in Ctx : pc'[c] \in {"idle", "reserve"}
    BY <1>0, <2>1 DEF TypeOK, Idle, trace_IDs, Goto
  <2> QED BY <2>2 DEF ThisRound
<1>3. CASE UStart \/ usnl \/ kill
  BY <1>0, <1>3, UserKeeps DEF ThisRound, buffer, locals
<1>4. CASE UNCHANGED vars
  BY <1>0, <1>4 DEF vars, kvars, ThisRound, buffer, locals
<1> QED BY <1>0, <1>1, <1>2, <1>3, <1>4, StepsWithoutStop

LEMMA FilledStep ==
  ASSUME OneCPU, RoundInv, [Next]_vars
  PROVE  Filled'
<1>0. TypeOK /\ NoStop /\ ThisRound /\ Filled /\ WriteInBounds
  BY DEF RoundInv, CycleInv, SlotInv
<1> USE DEF Holds
<1>1. ASSUME NEW c \in Ctx, TraceCheck(c) \/ Trace(c)
      PROVE  Filled'
  <2>1. CASE Reserve(c)
    <3> SUFFICES ASSUME NEW s \in Slots, s < lastentry + 1
                 PROVE  \/ entries[s] # Garbage /\ entries[s].epo = epoch
                        \/ \E d \in Ctx : Holds(d)' /\ slot'[d] = s + 1
      BY <2>1 DEF Filled, Reserve, atomic_add
    <3>1. s \in Nat /\ s < avail_entries /\ lastentry \in Nat
      BY <1>0, BufferAssumption DEF TypeOK, Slots
    <3>2. CASE s = lastentry
      <4>1. pc'[c] = "stamp" /\ slot'[c] = s + 1
        BY <1>0, <2>1, <3>1, <3>2, BufferAssumption DEF TypeOK, Reserve, Goto, TooFar
      <4> QED BY <4>1
    <3>3. CASE s < lastentry
      BY <1>0, <2>1, <3>3 DEF TypeOK, Filled, Reserve, Goto
    <3> QED BY <3>1, <3>2, <3>3
  <2>2. CASE Write(c)
    <3> SUFFICES ASSUME NEW s \in Slots, s < lastentry
                 PROVE  \/ entries'[s] # Garbage /\ entries'[s].epo = epoch
                        \/ \E d \in Ctx : Holds(d)' /\ slot'[d] = s + 1
      BY <2>2 DEF Filled, Write
    <3>1. CASE s = slot[c] - 1
      <4>1. PICK k \in Kinds \cup {"id"} : entries' = [entries EXCEPT ![slot[c] - 1] =
                       [cpu |-> CpuOf(c), cyc |-> cyc[c], kind |-> k, epo |-> epo[c]]]
        BY <2>2 DEF Write
      <4>2. entries'[s] = [cpu |-> CpuOf(c), cyc |-> cyc[c], kind |-> k, epo |-> epo[c]]
        BY <1>0, <3>1, <4>1 DEF TypeOK
      <4>3. epo[c] = epoch /\ entries'[s].epo = epo[c]
        BY <1>0, <2>2, <4>2 DEF Write, ThisRound
      <4>4. entries'[s] # Garbage
        <5>1. entries'[s] \in Entry
          BY <1>0, <4>2, CtxFacts DEF TypeOK, Entry
        <5> QED BY <5>1, GarbageAssumption
      <4> QED BY <4>3, <4>4
    <3>2. CASE s # slot[c] - 1
      <4>1. entries'[s] = entries[s]
        BY <1>0, <2>2, <3>2 DEF TypeOK, Write
      <4>2. \A d \in Ctx : Holds(d) /\ d # c => Holds(d)' /\ slot'[d] = slot[d]
        BY <1>0, <2>2 DEF TypeOK, Write, Goto, Forget
      <4>3. slot[c] \in Nat /\ s \in Nat
        BY <1>0, BufferAssumption DEF TypeOK, Slots
      <4> QED BY <1>0, <3>2, <4>1, <4>2, <4>3 DEF Filled
    <3> QED BY <3>1, <3>2
  <2>3. CASE TraceCheck(c) \/ Stamp(c)
    BY <1>0, <2>3 DEF TypeOK, Filled, TraceCheck, CanEnter, Stamp, Goto, buffer, locals
  <2>4. CASE Full(c) \/ TestAndSet(c) \/ CallUsnl(c)
    BY <1>0, <2>4 DEF TypeOK, Filled, Full, TestAndSet, CallUsnl, Goto, Forget, buffer, locals
  <2> QED BY <1>1, <2>1, <2>2, <2>3, <2>4 DEF Trace
<1>2. CASE Handle
  <2>0. Idle /\ Handler /\ UNCHANGED <<entries, slot>> /\ (trace_IDs \/ UNCHANGED pc)
    BY <1>2, HandlerKeeps, OneCpuContexts DEF Handle
  <2>1. CASE ResetLastentry
    BY <2>1, BufferAssumption DEF ResetLastentry, Filled, Slots
  <2>2. CASE UNCHANGED <<lastentry, epoch>>
    BY <1>0, <2>0, <2>2 DEF Filled, Idle
  <2> QED BY <2>0, <2>1, <2>2 DEF Handler, StartReset, StartActive, trace_IDs, StartDone,
          StopCmdSched, StopCmdActive, StopCmdReset, SyncReset, SyncSched, SyncActive, RequestStop,
          SendStop, RequestClear, RequestData, SendEndOfData, SendEntry, buffer
<1>3. CASE UStart \/ usnl \/ kill
  BY <1>0, <1>3, UserKeeps DEF Filled, buffer, locals
<1>4. CASE UNCHANGED vars
  BY <1>0, <1>4 DEF vars, kvars, Filled, buffer, locals
<1> QED BY <1>0, <1>1, <1>2, <1>3, <1>4, StepsWithoutStop

LEMMA OffWhenFullStep ==
  ASSUME OneCPU, RoundInv, [Next]_vars
  PROVE  OffWhenFull'
<1>0. TypeOK /\ NoStop /\ Paired /\ ThisRound /\ OffWhenFull
  BY DEF RoundInv, CycleInv, SlotInv
<1>1. ASSUME NEW c \in Ctx, TraceCheck(c) \/ Trace(c), UNCHANGED uvars
      PROVE  OffWhenFull'
  <2>0. upc' = upc /\ hpc' = hpc /\ lastentry \in Nat
    BY <1>0, <1>1 DEF TypeOK, uvars, TraceCheck, Trace, Reserve, Stamp, Write, Full, TestAndSet,
       CallUsnl, handler
  <2>1. CASE Full(c)
    BY <1>0, <2>0, <2>1 DEF OffWhenFull, ThisRound, Full, buffer
  <2>2. CASE Reserve(c)
    BY <1>0, <2>0, <2>2, BufferAssumption DEF OffWhenFull, Reserve, atomic_add, control
  <2>3. CASE ~Full(c) /\ ~Reserve(c)
    <3>1. tracing_active' = tracing_active /\ lastentry' = lastentry
      BY <1>1, <2>3 DEF TraceCheck, Trace, Stamp, Write, TestAndSet, CallUsnl, control, buffer
    <3> QED BY <1>0, <2>0, <3>1 DEF OffWhenFull
  <2> QED BY <2>1, <2>2, <2>3
<1>2. CASE Handle
  <2>1. upc' = upc /\ Handler
    BY <1>2 DEF Handle, uvars
  <2> QED BY <1>0, <2>1 DEF OffWhenFull, Paired, Working, Resetting, TypeOK, Handling, Handler,
          StartReset, StartActive, trace_IDs, StartDone, StopCmdSched, StopCmdActive, StopCmdReset,
          SyncReset, SyncSched, SyncActive, RequestStop, SendStop, RequestClear, RequestData,
          OutOfData, SendEndOfData, SendEntry, control, buffer
<1>3. CASE UStart \/ usnl \/ kill
  <2>1. UNCHANGED <<lastentry, tracing_active>> /\ hpc = "none"
    BY <1>3, UserKeeps DEF buffer, Handling
  <2>2. hpc' # "sendentry"
    BY <1>3, <2>1 DEF UStart, usnl, kill, UStartTracing, URequest, URecvStop, URecvEndOfData,
       URecvWakeUp, URecvEntry, USync, UWait, UStopTracing, UClose, Receive, bind, recvmsg, close,
       Socket, nl_rcv_func, FirstStep, handler
  <2>3. upc' \in Working => upc \in Working \/ hpc' = "start1"
    BY <1>3, <2>1 DEF UStart, usnl, kill, UStartTracing, URequest, URecvStop, URecvEndOfData,
       URecvWakeUp, URecvEntry, USync, UWait, UStopTracing, UClose, Receive, nl_rcv_func,
       FirstStep, Working
  <2> QED BY <1>0, <2>1, <2>2, <2>3 DEF OffWhenFull, Resetting
<1>4. CASE UNCHANGED vars
  BY <1>0, <1>4 DEF vars, kvars, uvars, OffWhenFull, control, buffer, handler
<1> QED BY <1>0, <1>1, <1>2, <1>3, <1>4, StepsWithoutStop

LEMMA RoundStep == OneCPU /\ RoundInv /\ [Next]_vars => RoundInv'
<1> SUFFICES ASSUME OneCPU, RoundInv, [Next]_vars
             PROVE  RoundInv'
  OBVIOUS
<1>1. Pids' /\ CycleInv'
  BY PidsStep, KernelStep, CycleStep DEF RoundInv
<1> QED BY <1>1, PairedStep, NoStopStep, ThisRoundStep, FilledStep, OffWhenFullStep DEF RoundInv

LEMMA RoundInit == Init => RoundInv
<1> SUFFICES ASSUME Init
             PROVE  RoundInv
  OBVIOUS
<1>1. CycleInv /\ Pids
  BY CycleInit DEF Init, Pids
<1>2. \A c \in Ctx : pc[c] = "idle"
  BY DEF Init, initialize_tracer
<1>3. Usnl \in Ctx
  BY CtxFacts
<1>4. Paired /\ NoStop /\ ThisRound /\ OffWhenFull
  BY <1>2, <1>3 DEF Init, initialize_tracer, Paired, NoStop, ThisRound, OffWhenFull, Holds, Working
<1>5. Filled
  BY BufferAssumption DEF Init, initialize_tracer, Filled, Slots
<1> QED BY <1>1, <1>4, <1>5 DEF RoundInv

\* The cycle counts of the entries among the messages of q.
Cycs(q) == {q[i].e.cyc : i \in {j \in DOMAIN q : q[j].t = "ENTRY"}}

\* They are entries that were written, in the order of their counts.
Sorted(q) ==
  \A i \in DOMAIN q : q[i].t = "ENTRY" =>
    /\ q[i].e # Garbage
    /\ \A j \in 1 .. i - 1 : q[j].t = "ENTRY" => q[j].e.cyc < q[i].e.cyc

\* A file and what is queued for it.
Stream(fs, q) ==
  /\ fs \in Seq(Msg) /\ q \in Seq(Msg)
  /\ Sorted(fs) /\ Sorted(q)
  /\ \A x \in Cycs(fs), y \in Cycs(q) : x < y

\* What is yet to be sent comes after the count x.
After(x) ==
  /\ x <= ccnt[0]
  /\ \A c \in Ctx : /\ pc[c] \in {"reserve", "stamp"} => x < ccnt[0]
                    /\ pc[c] = "write" => x < cyc[c]
  /\ \A s \in Slots :
       s >= lastread /\ entries[s] # Garbage /\ entries[s].epo = epoch => x < entries[s].cyc

StreamInv == Stream(f, rcvq) /\ \A x \in Cycs(f) \cup Cycs(rcvq) : After(x)

FileInv == RoundInv /\ StreamInv

LEMMA CycsNat ==
  ASSUME NEW q \in Seq(Msg), Sorted(q)
  PROVE  Cycs(q) \subseteq Nat
<1> SUFFICES ASSUME NEW i \in DOMAIN q, q[i].t = "ENTRY"
             PROVE  q[i].e.cyc \in Nat
  BY DEF Cycs
<1>1. q[i] \in Msg /\ q[i].e # Garbage
  BY DEF Sorted
<1>2. q[i].e \in Entry
  BY <1>1 DEF Msg
<1> QED BY <1>2 DEF Entry

LEMMA CycsAppend ==
  ASSUME NEW q \in Seq(Msg), NEW m \in Msg
  PROVE  /\ m.t = "ENTRY" => Cycs(Append(q, m)) = Cycs(q) \cup {m.e.cyc}
         /\ m.t # "ENTRY" => Cycs(Append(q, m)) = Cycs(q)
<1>1. PICK n \in Nat : n = Len(q)
  OBVIOUS
<1>2. /\ DOMAIN q = 1 .. n /\ DOMAIN Append(q, m) = 1 .. n + 1
      /\ Append(q, m)[n + 1] = m
      /\ \A i \in 1 .. n : Append(q, m)[i] = q[i]
      /\ 1 .. n + 1 = 1 .. n \cup {n + 1}
  BY <1>1
<1>3. Cycs(Append(q, m)) =
        {Append(q, m)[i].e.cyc : i \in {j \in 1 .. n \cup {n + 1} : Append(q, m)[j].t = "ENTRY"}}
  BY <1>2 DEF Cycs
<1>4. Cycs(q) = {q[i].e.cyc : i \in {j \in 1 .. n : q[j].t = "ENTRY"}}
  BY <1>2 DEF Cycs
<1>5. CASE m.t = "ENTRY"
  <2>1. \A y \in Cycs(Append(q, m)) : y \in Cycs(q) \cup {m.e.cyc}
    BY <1>2, <1>3, <1>4
  <2>2. \A y \in Cycs(q) \cup {m.e.cyc} : y \in Cycs(Append(q, m))
    BY <1>2, <1>3, <1>4, <1>5
  <2> QED BY <1>5, <2>1, <2>2
<1>6. CASE m.t # "ENTRY"
  <2>1. \A y \in Cycs(Append(q, m)) : y \in Cycs(q)
    BY <1>2, <1>3, <1>4, <1>6
  <2>2. \A y \in Cycs(q) : y \in Cycs(Append(q, m))
    BY <1>2, <1>3, <1>4
  <2> QED BY <1>6, <2>1, <2>2
<1> QED BY <1>5, <1>6

LEMMA CycsTail ==
  ASSUME NEW q \in Seq(Msg), q # <<>>
  PROVE  /\ Tail(q) \in Seq(Msg) /\ Head(q) \in Msg
         /\ Cycs(Tail(q)) \subseteq Cycs(q)
         /\ Head(q).t = "ENTRY" => Head(q).e.cyc \in Cycs(q)
<1>1. /\ Tail(q) \in Seq(Msg) /\ Head(q) \in Msg /\ Head(q) = q[1] /\ 1 \in DOMAIN q
      /\ \A i \in DOMAIN Tail(q) : i + 1 \in DOMAIN q /\ Tail(q)[i] = q[i + 1]
  OBVIOUS
<1> QED BY <1>1 DEF Cycs

LEMMA SortedAppend ==
  ASSUME NEW q \in Seq(Msg), Sorted(q), NEW m \in Msg,
         m.t = "ENTRY" => m.e # Garbage /\ \A x \in Cycs(q) : x < m.e.cyc
  PROVE  Sorted(Append(q, m))
<1> DEFINE a == Append(q, m)
<1>1. PICK n \in Nat : n = Len(q)
  OBVIOUS
<1>2. /\ DOMAIN q = 1 .. n /\ DOMAIN a = 1 .. n + 1
      /\ a[n + 1] = m
      /\ \A i \in 1 .. n : a[i] = q[i]
  BY <1>1
<1> HIDE DEF a
<1> SUFFICES ASSUME NEW i \in 1 .. n + 1, a[i].t = "ENTRY"
             PROVE  /\ a[i].e # Garbage
                    /\ \A j \in 1 .. i - 1 : a[j].t = "ENTRY" => a[j].e.cyc < a[i].e.cyc
  BY <1>2 DEF Sorted, a
<1>3. \A j \in 1 .. i - 1 : j \in 1 .. n /\ a[j] = q[j]
  BY <1>2
<1>4. CASE i \in 1 .. n
  BY <1>2, <1>3, <1>4 DEF Sorted
<1>5. CASE i = n + 1
  <2>1. \A j \in 1 .. n : q[j].t = "ENTRY" => q[j].e.cyc \in Cycs(q)
    BY <1>2 DEF Cycs
  <2>2. a[i] = m /\ m.t = "ENTRY"
    BY <1>2, <1>5
  <2> QED BY <1>3, <2>1, <2>2
<1> QED BY <1>4, <1>5

LEMMA SortedTail ==
  ASSUME NEW q \in Seq(Msg), q # <<>>, Sorted(q)
  PROVE  /\ Sorted(Tail(q))
         /\ Head(q).t = "ENTRY" => Head(q).e # Garbage /\ \A x \in Cycs(Tail(q)) : Head(q).e.cyc < x
<1>1. PICK n \in Nat : n = Len(q) /\ n > 0
  OBVIOUS
<1>2. /\ DOMAIN q = 1 .. n /\ DOMAIN Tail(q) = 1 .. n - 1 /\ Head(q) = q[1]
      /\ \A i \in 1 .. n - 1 : Tail(q)[i] = q[i + 1] /\ i + 1 \in 1 .. n
  BY <1>1
<1>3. Sorted(Tail(q))
  <2> SUFFICES ASSUME NEW i \in 1 .. n - 1, Tail(q)[i].t = "ENTRY"
               PROVE  /\ Tail(q)[i].e # Garbage
                      /\ \A j \in 1 .. i - 1 : Tail(q)[j].t = "ENTRY" =>
                           Tail(q)[j].e.cyc < Tail(q)[i].e.cyc
    BY <1>2 DEF Sorted
  <2>1. \A j \in 1 .. i - 1 : j \in 1 .. n - 1 /\ j + 1 \in 1 .. (i + 1) - 1
    OBVIOUS
  <2> QED BY <1>2, <2>1 DEF Sorted
<1>4. ASSUME Head(q).t = "ENTRY"
      PROVE  Head(q).e # Garbage /\ \A x \in Cycs(Tail(q)) : Head(q).e.cyc < x
  <2>1. Head(q).e # Garbage
    BY <1>1, <1>2, <1>4 DEF Sorted
  <2>2. ASSUME NEW i \in 1 .. n - 1, Tail(q)[i].t = "ENTRY"
        PROVE  Head(q).e.cyc < Tail(q)[i].e.cyc
    <3>1. 1 \in 1 .. (i + 1) - 1
      OBVIOUS
    <3> QED BY <1>2, <1>4, <2>2, <3>1 DEF Sorted
  <2> QED BY <1>2, <2>1, <2>2 DEF Cycs
<1> QED BY <1>3, <1>4

\* What usnl and the kernel do to a file and its queue.
LEMMA StreamSend ==
  ASSUME NEW fs, NEW q, Stream(fs, q), NEW m \in Msg,
         m.t = "ENTRY" => m.e # Garbage /\ \A x \in Cycs(fs) \cup Cycs(q) : x < m.e.cyc
  PROVE  Stream(fs, Append(q, m))
BY SortedAppend, CycsAppend DEF Stream

LEMMA StreamDrop ==
  ASSUME NEW fs, NEW q, Stream(fs, q), q # <<>>
  PROVE  Stream(fs, Tail(q))
BY SortedTail, CycsTail DEF Stream

LEMMA StreamRead ==
  ASSUME NEW fs, NEW q, Stream(fs, q), q # <<>>
  PROVE  /\ Stream(Append(fs, Head(q)), Tail(q))
         /\ Cycs(Append(fs, Head(q))) \subseteq Cycs(fs) \cup Cycs(q)
<1>1. /\ Tail(q) \in Seq(Msg) /\ Head(q) \in Msg /\ Append(fs, Head(q)) \in Seq(Msg)
      /\ Cycs(Tail(q)) \subseteq Cycs(q)
      /\ Head(q).t = "ENTRY" => Head(q).e.cyc \in Cycs(q)
  BY CycsTail DEF Stream
<1>2. /\ Head(q).t = "ENTRY" => Cycs(Append(fs, Head(q))) = Cycs(fs) \cup {Head(q).e.cyc}
      /\ Head(q).t # "ENTRY" => Cycs(Append(fs, Head(q))) = Cycs(fs)
  BY <1>1, CycsAppend DEF Stream
<1>3. /\ Sorted(Tail(q))
      /\ Head(q).t = "ENTRY" => Head(q).e # Garbage /\ \A x \in Cycs(Tail(q)) : Head(q).e.cyc < x
  BY SortedTail DEF Stream
<1>4. Sorted(Append(fs, Head(q)))
  BY <1>1, <1>3, SortedAppend DEF Stream
<1> QED BY <1>1, <1>2, <1>3, <1>4 DEF Stream

LEMMA StreamEmpty ==
  ASSUME NEW fs, NEW q, Stream(fs, q)
  PROVE  Stream(<<>>, q) /\ Stream(fs, <<>>) /\ Cycs(<<>>) = {}
<1>1. <<>> \in Seq(Msg) /\ Sorted(<<>>) /\ Cycs(<<>>) = {}
  BY DEF Sorted, Cycs
<1> QED BY <1>1 DEF Stream

\* Time moves on, and the buffer is read in the order of its slots: what is
\* yet to be sent stays after every count it was after.
LEMMA AfterStep ==
  ASSUME OneCPU, RoundInv, [Next]_vars, NEW x \in Nat, After(x)
  PROVE  After(x)'
<1>0. TypeOK /\ TypeOK' /\ NoStop /\ WriteInBounds /\ DrawnSince
  BY RoundStep DEF RoundInv, CycleInv, SlotInv
<1>1. /\ 0 \in CPUs /\ ccnt[0] \in Nat /\ ccnt'[0] \in Nat
      /\ \A c \in Ctx : CpuOf(c) = 0
      /\ lastread \in Nat /\ lastread' \in Nat
      /\ avail_entries \in Nat
  BY <1>0, OneCpuContexts, CpusAssumption, BufferAssumption DEF TypeOK
<1>2. ASSUME NEW c \in Ctx, TraceCheck(c) \/ Trace(c)
      PROVE  After(x)'
  <2>1. CASE TraceCheck(c)
    <3>1. /\ ccnt'[0] = ccnt[0] + 1 /\ UNCHANGED <<buffer, cyc>>
          /\ \A d \in Ctx : pc'[d] = "write" => pc[d] = "write"
      BY <1>0, <1>1, <2>1 DEF TypeOK, TraceCheck, Goto, locals
    <3> QED BY <1>1, <3>1 DEF After, buffer
  <2>2. CASE Stamp(c)
    <3>1. /\ UNCHANGED <<ccnt, buffer>> /\ pc[c] = "stamp" /\ pc'[c] = "write" /\ cyc'[c] = ccnt[0]
          /\ \A d \in Ctx \ {c} : pc'[d] = pc[d] /\ cyc'[d] = cyc[d]
      BY <1>0, <1>1, <2>2 DEF TypeOK, Stamp, Goto
    <3> QED BY <1>1, <3>1 DEF After, buffer
  <2>3. CASE Write(c)
    <3>1. /\ UNCHANGED <<ccnt, lastread, epoch>> /\ pc[c] = "write" /\ pc'[c] = "idle"
          /\ \A d \in Ctx \ {c} : pc'[d] = pc[d] /\ cyc'[d] = cyc[d]
      BY <1>0, <2>3 DEF TypeOK, Write, Goto, Forget
    <3>2. \A s \in Slots : entries'[s] = entries[s] \/ entries'[s].cyc = cyc[c]
      BY <1>0, <2>3 DEF TypeOK, Write
    <3> QED BY <1>1, <3>1, <3>2 DEF After
  <2>4. CASE Reserve(c) \/ Full(c) \/ TestAndSet(c) \/ CallUsnl(c)
    <3>1. /\ UNCHANGED <<ccnt, lastread, epoch, entries>>
          /\ \A d \in Ctx : /\ pc'[d] \in {"reserve", "stamp"} => pc[d] \in {"reserve", "stamp"}
                            /\ pc'[d] = "write" => pc[d] = "write" /\ cyc'[d] = cyc[d]
      BY <1>0, <2>4 DEF TypeOK, Reserve, Full, TestAndSet, CallUsnl, Goto, Forget, buffer, locals
    <3> QED BY <1>1, <3>1 DEF After
  <2> QED BY <1>2, <2>1, <2>2, <2>3, <2>4 DEF Trace
<1>3. CASE Handle
  <2>0. Idle /\ Handler /\ UNCHANGED <<entries, cyc>> /\ (trace_IDs \/ UNCHANGED <<pc, ccnt>>)
    BY <1>3, HandlerKeeps, OneCpuContexts DEF Handle
  <2>1. /\ ccnt'[0] >= ccnt[0]
        /\ \A c \in Ctx : pc'[c] # "idle" => pc'[c] = "reserve" /\ ccnt'[0] > ccnt[0]
    <3>1. CASE trace_IDs
      <4>1. ccnt'[0] = ccnt[0] + 1
        BY <1>0, <1>1, <3>1, OneCpuContexts DEF trace_IDs, TypeOK
      <4>2. \A c \in Ctx : pc'[c] \in {"idle", "reserve"}
        BY <1>0, <2>0, <3>1 DEF trace_IDs, TypeOK, Idle, Goto
      <4> QED BY <1>1, <4>1, <4>2
    <3>2. CASE UNCHANGED <<pc, ccnt>>
      <4>1. pc' = pc /\ ccnt' = ccnt
        BY <3>2
      <4> QED BY <1>1, <2>0, <4>1 DEF Idle
    <3> QED BY <2>0, <3>1, <3>2
  <2>2. \/ epoch' = epoch + 1
        \/ epoch' = epoch /\ lastread' \in {lastread, lastread + 1}
    BY <1>1, <2>0 DEF Handler, StartReset, StartActive, trace_IDs, StartDone, StopCmdSched,
       StopCmdActive, StopCmdReset, SyncReset, SyncSched, SyncActive, RequestStop, SendStop,
       RequestClear, RequestData, SendEndOfData, SendEntry, buffer, ResetLastentry
  <2>3. ASSUME NEW s \in Slots, s >= lastread', entries[s] # Garbage, entries[s].epo = epoch'
        PROVE  x < entries[s].cyc
    <3>0. entries[s] \in Entry
      BY <1>0, <2>3 DEF TypeOK
    <3>1. entries[s].epo \in Nat /\ epoch \in Nat /\ s \in Nat
      BY <1>0, <1>1, <3>0 DEF TypeOK, Entry, Slots
    <3>2. entries[s].epo <= epoch
      BY <1>0, <2>3 DEF DrawnSince
    <3> QED BY <1>1, <2>2, <2>3, <3>1, <3>2 DEF After
  <2> QED BY <1>1, <2>0, <2>1, <2>3 DEF After
<1>4. CASE UStart \/ usnl \/ kill
  BY <1>4, UserKeeps DEF After, buffer, locals
<1>5. CASE UNCHANGED vars
  BY <1>5 DEF vars, kvars, After, buffer, locals
<1> QED BY <1>0, <1>2, <1>3, <1>4, <1>5, StepsWithoutStop

\* An entry that is sent was written in this round.
LEMMA SentEntry ==
  ASSUME OneCPU, RoundInv, SendEntry
  PROVE  /\ lastread \in Slots /\ entries[lastread] \in Entry /\ entries[lastread] # Garbage
         /\ entries[lastread].epo = epoch
         /\ \A x \in Nat : After(x) => x < entries[lastread].cyc
         /\ \A x : x = entries[lastread].cyc => After(x)'
<1>0. TypeOK /\ CycleInv /\ Paired /\ Filled /\ OffWhenFull /\ StampsPast /\ CycleOrder
  BY DEF RoundInv, CycleInv, SlotInv
<1>1. Idle /\ hpc = "sendentry"
  BY OneCpuContexts DEF SendEntry, Handling
<1>2. lastread \in Slots /\ lastread \in Nat /\ lastread < avail_entries
  BY <1>0, <1>1, BufferAssumption DEF TypeOK, Slots
<1>3. lastread < lastentry
  BY <1>0, <1>1, <1>2, BufferAssumption DEF TypeOK, OffWhenFull, Paired, Working, Resetting
<1>4. entries[lastread] # Garbage /\ entries[lastread].epo = epoch
  BY <1>0, <1>1, <1>2, <1>3 DEF Filled, Idle, Holds
<1>5. entries[lastread] \in Entry
  BY <1>0, <1>2, <1>4 DEF TypeOK
<1>6. \A x \in Nat : After(x) => x < entries[lastread].cyc
  BY <1>2, <1>4 DEF After
<1>7. /\ UNCHANGED <<pc, ccnt, entries, epoch, cyc>> /\ lastread' = lastread + 1
  BY DEF SendEntry, locals
<1>8. entries[lastread].cyc <= ccnt[0]
  BY <1>0, <1>2, <1>4, <1>5 DEF StampsPast, Entry, OneCPU
<1>9. ASSUME NEW s \in Slots, s >= lastread + 1, entries[s] # Garbage, entries[s].epo = epoch
      PROVE  entries[lastread].cyc < entries[s].cyc
  <2>1. entries[s] \in Entry /\ s \in Nat
    BY <1>0, <1>9, BufferAssumption DEF TypeOK, Slots
  <2>2. entries[s].cpu = 0 /\ entries[lastread].cpu = 0
    BY <1>5, <2>1 DEF Entry, OneCPU
  <2> QED BY <1>0, <1>2, <1>4, <1>9, <2>1, <2>2 DEF CycleOrder
<1>10. ASSUME NEW x, x = entries[lastread].cyc
       PROVE  After(x)'
  BY <1>10, <1>1, <1>2, <1>7, <1>8, <1>9 DEF After, Idle
<1> QED BY <1>2, <1>4, <1>5, <1>6, <1>10

\* What a message does to the queue.
LEMMA SendCases ==
  ASSUME NEW m, NEW pid, send_to_userspace(m, pid)
  PROVE  rcvq' = rcvq \/ rcvq' = Append(rcvq, m)
BY DEF send_to_userspace, Lose

\* How a step changes the file and its queue.
LEMMA StreamCases ==
  ASSUME OneCPU, NoStop, Paired, [Next]_vars
  PROVE  \/ f' = f /\ rcvq' \in {rcvq, <<>>}
         \/ f' = <<>> /\ rcvq' = rcvq
         \/ f' = f /\ rcvq' \in {Append(rcvq, [t |-> "WAKE_UP_USNL"]),
                                 Append(rcvq, [t |-> "END_OF_DATA"])}
         \/ SendEntry /\ f' = f /\ rcvq' = Append(rcvq, [t |-> "ENTRY", e |-> entries[lastread]])
         \/ rcvq # <<>> /\ rcvq' = Tail(rcvq) /\ f' \in {f, Append(f, Head(rcvq))}
<1>1. ASSUME NEW c \in Ctx, TraceCheck(c) \/ Trace(c), UNCHANGED uvars
      PROVE  f' = f /\ rcvq' \in {rcvq, Append(rcvq, [t |-> "WAKE_UP_USNL"])}
  <2>1. f' = f
    BY <1>1 DEF uvars
  <2>2. CASE CallUsnl(c)
    BY <2>1, <2>2, SendCases DEF CallUsnl, schedule_usnl, awake_usnl
  <2>3. CASE ~CallUsnl(c)
    BY <1>1, <2>1, <2>3 DEF TraceCheck, Trace, Reserve, Stamp, Write, Full, TestAndSet, channel
  <2> QED BY <2>2, <2>3
<1>2. CASE Handle
  <2>0. f' = f /\ Handler
    BY <1>2 DEF Handle, uvars
  <2>1. ~SendStop
    BY DEF SendStop, Handling, Paired
  <2>2. CASE SendEndOfData
    BY <2>0, <2>2, SendCases DEF SendEndOfData, EndOfData
  <2>3. CASE SendEntry
    BY <2>0, <2>3, SendCases DEF SendEntry
  <2> QED BY <2>0, <2>1, <2>2, <2>3, HandlerKeeps
<1>3. CASE UStart \/ kill \/ UClose
  BY <1>3 DEF UStart, kill, UClose, bind, close, Socket
<1>4. CASE UStartTracing \/ URequest \/ USync \/ UStopTracing
  BY <1>4 DEF UStartTracing, URequest, USync, UStopTracing, nl_rcv_func, channel
<1>5. CASE URecvStop \/ URecvEndOfData \/ URecvWakeUp \/ URecvEntry \/ UWait
  BY <1>5 DEF URecvStop, URecvEndOfData, URecvWakeUp, URecvEntry, UWait, Receive, recvmsg, Socket
<1>6. CASE UNCHANGED vars
  BY <1>6 DEF vars, kvars, uvars, channel
<1> QED BY <1>1, <1>2, <1>3, <1>4, <1>5, <1>6, StepsWithoutStop DEF usnl

LEMMA FileStep == OneCPU /\ FileInv /\ [Next]_vars => FileInv'
<1> SUFFICES ASSUME OneCPU, FileInv, [Next]_vars
             PROVE  FileInv'
  OBVIOUS
<1>0. RoundInv /\ NoStop /\ Paired /\ Stream(f, rcvq) /\ RoundInv' /\ rcvq \in Seq(Msg)
  BY RoundStep DEF FileInv, StreamInv, RoundInv, Stream
<1> SUFFICES StreamInv'
  BY <1>0 DEF FileInv
<1>1. \A x \in Cycs(f) \cup Cycs(rcvq) : x \in Nat /\ After(x)
  BY CycsNat DEF FileInv, StreamInv, Stream
<1>2. \A x \in Cycs(f) \cup Cycs(rcvq) : After(x)'
  BY <1>0, <1>1, AfterStep
\* A step that adds no count.
<1>3. ASSUME Stream(f', rcvq'), Cycs(f') \cup Cycs(rcvq') \subseteq Cycs(f) \cup Cycs(rcvq)
      PROVE  StreamInv'
  <2>1. \A x \in Cycs(f') \cup Cycs(rcvq') : After(x)'
    BY <1>2, <1>3
  <2> QED BY <1>3, <2>1 DEF StreamInv
<1>4. CASE f' = f /\ rcvq' \in {rcvq, <<>>}
  <2>1. Stream(f, <<>>) /\ Cycs(<<>>) = {}
    BY <1>0, StreamEmpty
  <2> QED BY <1>0, <1>3, <1>4, <2>1
<1>5. CASE f' = <<>> /\ rcvq' = rcvq
  <2>1. Stream(<<>>, rcvq) /\ Cycs(<<>>) = {}
    BY <1>0, StreamEmpty
  <2> QED BY <1>0, <1>3, <1>5, <2>1
<1>6. ASSUME NEW m \in {[t |-> "WAKE_UP_USNL"], [t |-> "END_OF_DATA"]},
             f' = f, rcvq' = Append(rcvq, m)
      PROVE  StreamInv'
  <2>1. m \in Msg /\ m.t # "ENTRY"
    BY DEF Msg
  <2>2. Stream(f, Append(rcvq, m))
    BY <1>0, <2>1, StreamSend
  <2>3. Cycs(Append(rcvq, m)) = Cycs(rcvq)
    BY <1>0, <2>1, CycsAppend
  <2> QED BY <1>3, <1>6, <2>2, <2>3
<1>7. CASE SendEntry /\ f' = f /\ rcvq' = Append(rcvq, [t |-> "ENTRY", e |-> entries[lastread]])
  <2> DEFINE m == [t |-> "ENTRY", e |-> entries[lastread]]
  <2>1. /\ entries[lastread] \in Entry /\ entries[lastread] # Garbage
        /\ \A x \in Nat : After(x) => x < entries[lastread].cyc
        /\ \A x : x = entries[lastread].cyc => After(x)'
    BY <1>0, <1>7, SentEntry
  <2>2. m \in Msg /\ m.t = "ENTRY" /\ m.e = entries[lastread]
    BY <2>1 DEF Msg
  <2>3. \A x \in Cycs(f) \cup Cycs(rcvq) : x < entries[lastread].cyc
    BY <1>1, <2>1
  <2> HIDE DEF m
  <2>4. Stream(f, Append(rcvq, m))
    BY <1>0, <2>1, <2>2, <2>3, StreamSend
  <2>5. Cycs(Append(rcvq, m)) = Cycs(rcvq) \cup {entries[lastread].cyc}
    BY <1>0, <2>2, CycsAppend
  <2>6. rcvq' = Append(rcvq, m)
    BY <1>7 DEF m
  <2>7. \A x \in Cycs(f') \cup Cycs(rcvq') : After(x)'
    BY <1>2, <1>7, <2>1, <2>5, <2>6
  <2> QED BY <1>7, <2>4, <2>6, <2>7 DEF StreamInv
<1>8. CASE rcvq # <<>> /\ rcvq' = Tail(rcvq) /\ f' = f
  <2>1. Stream(f, Tail(rcvq)) /\ Cycs(Tail(rcvq)) \subseteq Cycs(rcvq)
    BY <1>0, <1>8, StreamDrop, CycsTail
  <2> QED BY <1>3, <1>8, <2>1
<1>9. CASE rcvq # <<>> /\ rcvq' = Tail(rcvq) /\ f' = Append(f, Head(rcvq))
  <2>1. /\ Stream(Append(f, Head(rcvq)), Tail(rcvq)) /\ Cycs(Tail(rcvq)) \subseteq Cycs(rcvq)
        /\ Cycs(Append(f, Head(rcvq))) \subseteq Cycs(f) \cup Cycs(rcvq)
    BY <1>0, <1>9, StreamRead, CycsTail
  <2> QED BY <1>3, <1>9, <2>1
<1> QED BY <1>0, <1>4, <1>5, <1>6, <1>7, <1>8, <1>9, StreamCases

LEMMA FileInit == Init => FileInv
<1> SUFFICES ASSUME Init
             PROVE  FileInv
  OBVIOUS
<1>1. f = <<>> /\ rcvq = <<>>
  BY DEF Init, initialize_tracer
<1>2. <<>> \in Seq(Msg) /\ Sorted(<<>>) /\ Cycs(<<>>) = {}
  BY DEF Sorted, Cycs
<1>3. Stream(<<>>, <<>>)
  BY <1>2 DEF Stream
<1> QED BY <1>1, <1>2, <1>3, RoundInit DEF FileInv, StreamInv

\* On one CPU and without SEPEXT_STOP every entry in the file is an event that
\* was recorded, and they are in the order of their cycle counts, however
\* wake-ups and answers are queued out of step, messages are lost and usnl is
\* killed and started again.
THEOREM FileIsFaithful ==
  ASSUME OneCPU
  PROVE  Spec => []FileFaithful
<1>1. FileInv => FileFaithful
  BY DEF FileInv, StreamInv, Stream, Sorted, FileFaithful
<1>2. OneCPU
  OBVIOUS
<1>3. FileInv /\ [Next]_vars => FileInv'
  BY <1>2, FileStep
<1> QED BY <1>1, <1>3, FileInit, PTL DEF Spec

-----------------------------------------------------------------------------
(* One CPU: the wake-up                                                    *)

\* The assumption of this part: moreover no message is lost, usnl is not
\* killed, and the buffer has more than one slot.
Reliable == OneCPU /\ MaxLost = 0 /\ MaxKills = 0 /\ avail_entries > 1

\* At most one context is in the middle of trace_entry(); others wait for it
\* to return before they write.  Who wakes usnl has switched tracing off and
\* set the flag.
OneBusy ==
  /\ \A c, d \in Ctx : c # d /\ pc[c] \notin {"idle", "write"} => pc[d] \in {"idle", "write"}
  /\ \A c \in Ctx : pc[c] \in {"test", "call"} => tracing_active = 0
  /\ \A c \in Ctx : pc[c] = "call" => tasklet_scheduled = 1

InSession == upc \in Working /\ hpc \notin Resetting

\* usnl was sent the wake-up of this round.
Woken == tasklet_scheduled = 1 /\ \A c \in Ctx : pc[c] # "call"

\* tasklet_scheduled is clear while events are recorded; between sessions, and
\* while usnl ends a round, nothing is recorded.
Flags ==
  /\ InSession => /\ tracing_active = 1 => tasklet_scheduled = 0
                  /\ tracing_active = 0 /\ tasklet_scheduled = 0 => \E c \in Ctx : pc[c] = "test"
  /\ ~InSession => /\ Idle /\ tracing_active = 0
                   /\ tasklet_scheduled = 0 \/ hpc \in {"stop1", "sync2"}
  /\ upc \in {"sync", "bye"} \/ hpc = "sync1" => Idle /\ tracing_active = 0

\* Messages go to the session's own socket, and none is lost.
Addressed ==
  /\ lost = 0 /\ kills = 0
  /\ upc # "off" => sock # 0
  /\ upc \notin {"off", "start"} => us_pid = sock

\* The buffer is read only when nothing is recorded, and from its first slot.
Reads ==
  /\ lastread > 0 => Idle /\ tracing_active = 0
  /\ \/ upc \in {"off", "start"}
     \/ upc = "close" /\ hpc = "none"
     \/ hpc \in {"start1", "start2", "ids", "sync2", "sync3"}
     => lastread = 0

\* A session begins with an empty queue.
Fresh ==
  upc \in {"off", "start"} \/ hpc \in {"start1", "start2"} =>
    rcvq = <<>> /\ (upc # "off" => curcount = 0)

Wake == [t |-> "WAKE_UP_USNL"]
Eod == [t |-> "END_OF_DATA"]
Ent(s) == [t |-> "ENTRY", e |-> entries[s]]

\* usnl is about to request, or its request is yet to be answered.
Asking == upc = "loop" \/ (upc = "recv" /\ hpc # "none")
Answered == upc = "recv" /\ hpc = "none"

\* The queue before the wake-up of the round: usnl is in step, or one message
\* of the last round is left for the recvmsg() that waits.
RecordingQueue ==
  /\ lastread = 0
  /\ upc \in {"loop", "recv", "wait"}
  /\ Asking => rcvq = <<>> /\ curcount = 0
  /\ Answered => rcvq = <<Eod>> /\ curcount = 0
  /\ upc = "wait" => hpc = "none" /\ rcvq \in {<<>>, <<Eod>>}

\* The queue after it.  usnl is one message behind from when it reads the
\* wake-up as an answer until it reads an answer as the wake-up, which may
\* lose it the first entry.
AskingQueue ==
  /\ \/ rcvq = <<>> /\ curcount \in {lastread, lastread - 1}
     \/ rcvq = <<Eod>> /\ lastread \in {0, avail_entries} /\ curcount = lastread
     \/ lastread > 0 /\ rcvq = <<Ent(lastread - 1)>> /\ curcount = lastread - 1
     \/ rcvq = <<Wake>> /\ lastread = 0 /\ curcount = 0
  /\ hpc = "sendeod" => lastread = avail_entries \/ rcvq = <<Wake>>

AnsweredQueue ==
  \/ rcvq = <<Eod>> /\ lastread = avail_entries /\ curcount \in {lastread, lastread - 1}
  \/ rcvq = <<Eod, Eod>> /\ lastread = avail_entries /\ curcount = lastread
  \/ rcvq \in {<<Eod, Wake>>, <<Wake, Eod>>} /\ lastread = 0 /\ curcount = 0
  \/ rcvq \in {<<Eod, Ent(0)>>, <<Wake, Ent(0)>>} /\ lastread = 1 /\ curcount = 0
  \/ lastread > 0 /\ rcvq = <<Ent(lastread - 1)>> /\ curcount \in {lastread - 1, lastread - 2}
  \/ lastread = avail_entries /\ rcvq = <<Ent(lastread - 1), Eod>> /\ curcount = lastread - 1
  \/ lastread > 1 /\ rcvq = <<Ent(lastread - 2), Ent(lastread - 1)>> /\ curcount = lastread - 2

SyncQueue ==
  /\ lastread = avail_entries
  /\ \/ rcvq = <<>> /\ curcount \in {lastread, lastread - 1}
     \/ rcvq = <<Eod>> /\ curcount = lastread

WaitQueue ==
  \/ rcvq \in {<<Wake>>, <<Eod, Wake>>} /\ lastread = 0
  \/ rcvq = <<Ent(0)>> /\ lastread = 1 /\ curcount = 0

DrainingQueue ==
  /\ Asking => AskingQueue
  /\ Answered => AnsweredQueue
  /\ upc = "sync" \/ hpc = "sync1" => SyncQueue
  /\ upc = "wait" /\ hpc = "none" => WaitQueue

Queue ==
  /\ InSession /\ ~Woken => RecordingQueue
  /\ InSession /\ Woken => DrainingQueue
  /\ hpc \in {"sync2", "sync3"} => rcvq \in {<<>>, <<Eod>>}

WakeInv ==
  /\ RoundInv /\ curcount \in Nat
  /\ OneBusy /\ Flags /\ Addressed /\ Reads /\ Fresh /\ Queue

\* Queues of up to two messages.
LEMMA AppendOne ==
  ASSUME NEW a, NEW b
  PROVE  Append(<<a>>, b) = <<a, b>>
<1> DEFINE S == {a, b}
           s == Append(<<a>>, b)
           t == <<a, b>>
<1>1. <<a>> \in Seq(S) /\ Len(<<a>>) = 1 /\ b \in S /\ <<a>>[1] = a
  OBVIOUS
<1>2. s \in Seq(S) /\ Len(s) = 2 /\ s[1] = a /\ s[2] = b
  BY <1>1, AppendProperties
<1>3. t \in Seq(S) /\ Len(t) = 2 /\ t[1] = a /\ t[2] = b
  OBVIOUS
<1> HIDE DEF s, t, S
<1>4. \A i \in 1 .. Len(s) : i = 1 \/ i = 2
  BY <1>2
<1>5. \A i \in 1 .. Len(s) : s[i] = t[i]
  BY <1>2, <1>3, <1>4
<1>6. s = t
  BY <1>2, <1>3, <1>5, SeqEqual
<1> QED BY <1>6 DEF s, t

LEMMA ShortQueues ==
  /\ \A a : /\ Append(<<>>, a) = <<a>> /\ <<a>> # <<>>
            /\ Head(<<a>>) = a /\ Tail(<<a>>) = <<>>
  /\ \A a, b : /\ Append(<<a>>, b) = <<a, b>> /\ <<a, b>> # <<>>
               /\ Head(<<a, b>>) = a /\ Tail(<<a, b>>) = <<b>>
<1>1. ASSUME NEW a
      PROVE  Append(<<>>, a) = <<a>>
  OBVIOUS
<1>2. ASSUME NEW a
      PROVE  <<a>> # <<>> /\ Head(<<a>>) = a
  OBVIOUS
<1>3. ASSUME NEW a
      PROVE  Tail(<<a>>) = <<>>
  OBVIOUS
<1>4. ASSUME NEW a, NEW b
      PROVE  <<a, b>> # <<>> /\ Head(<<a, b>>) = a
  OBVIOUS
<1>5. ASSUME NEW a, NEW b
      PROVE  Tail(<<a, b>>) = <<b>>
  OBVIOUS
<1> QED BY <1>1, <1>2, <1>3, <1>4, <1>5, AppendOne, Zenon

\* The steps that are left when usnl is not killed.
LEMMA ReliableSteps ==
  ASSUME Reliable, WakeInv, [Next]_vars
  PROVE  /\ OneCPU /\ TypeOK /\ NoStop /\ Paired /\ ThisRound /\ OffWhenFull
         /\ \/ \E c \in Ctx : (TraceCheck(c) \/ Trace(c)) /\ UNCHANGED uvars
            \/ Handle \/ UStart \/ usnl
            \/ UNCHANGED vars
<1>1. OneCPU /\ TypeOK /\ NoStop /\ Paired /\ ThisRound /\ OffWhenFull
  BY DEF Reliable, WakeInv, RoundInv, CycleInv, SlotInv
<1>2. ~kill
  BY DEF Reliable, WakeInv, Addressed, kill
<1> QED BY <1>1, <1>2, StepsWithoutStop

\* A message of the tracer reaches usnl.
LEMMA Delivered ==
  ASSUME Reliable, Addressed, upc \notin {"off", "start"}, NEW m, send_to_userspace(m, us_pid)
  PROVE  rcvq' = Append(rcvq, m) /\ lost' = lost
BY DEF Reliable, Addressed, send_to_userspace, Lose

\* What a step of trace_entry() leaves to the handler and usnl.
LEMMA TraceKeeps ==
  ASSUME NEW c \in Ctx, TraceCheck(c) \/ Trace(c), UNCHANGED uvars
  PROVE  /\ UNCHANGED <<upc, curcount, f, sessions, kills, hpc, ids, sock, us_pid, lastread, epoch>>
         /\ CallUsnl(c) \/ UNCHANGED <<rcvq, lost>>
         /\ TestAndSet(c) \/ UNCHANGED tasklet_scheduled
         /\ Full(c) \/ UNCHANGED tracing_active
         /\ Write(c) \/ UNCHANGED entries
         /\ \E l \in PCs : Goto(c, l)
         /\ pc[c] # "idle" \/ TraceCheck(c)
BY DEF TraceCheck, Trace, Reserve, Stamp, Write, Full, TestAndSet, CallUsnl, control, buffer,
   wakeup, handler, channel, uvars, PCs

LEMMA OneBusyStep ==
  ASSUME Reliable, WakeInv, [Next]_vars
  PROVE  OneBusy'
<1>0. OneCPU /\ TypeOK /\ NoStop /\ OneBusy /\ IrqsMasked
  BY ReliableSteps DEF WakeInv, RoundInv, CycleInv
<1>1. ASSUME NEW c \in Ctx, TraceCheck(c)
      PROVE  OneBusy'
  <2>1. \A d \in Ctx : d # c => pc[d] \in {"idle", "write"}
    <3> SUFFICES ASSUME NEW d \in Ctx, d # c
                 PROVE  pc[d] \in {"idle", "write"}
      OBVIOUS
    <3>1. CpuOf(d) = CpuOf(c) /\ (Level(d) > Level(c) \/ Level(d) < Level(c))
      BY <1>0, OneCpuContexts, CtxFacts
    <3>2. pc[d] = "idle" \/ pc[d] \notin IrqOff
      BY <1>1, <3>1 DEF TraceCheck, CanEnter, Runs
    <3>3. pc[d] # "call" /\ pc[d] \in PCs
      BY <1>0, <1>1 DEF OneBusy, TraceCheck, TypeOK
    <3> QED BY <3>2, <3>3 DEF PCs, IrqOff
  <2>2. pc' = [pc EXCEPT ![c] = "reserve"] /\ UNCHANGED <<tracing_active, tasklet_scheduled>>
    BY <1>1 DEF TraceCheck, Goto, control, wakeup
  <2> QED BY <1>0, <2>1, <2>2 DEF OneBusy, TypeOK
<1>2. ASSUME NEW c \in Ctx, Trace(c), UNCHANGED uvars
      PROVE  OneBusy'
  <2>1. CASE pc[c] = "write"
    <3>1. pc' = [pc EXCEPT ![c] = "idle"] /\ UNCHANGED <<tracing_active, tasklet_scheduled>>
      BY <1>2, <2>1 DEF Trace, Reserve, Stamp, Write, Full, TestAndSet, CallUsnl, Goto, control, wakeup
    <3> QED BY <1>0, <3>1 DEF OneBusy, TypeOK
  <2>2. CASE pc[c] # "write"
    <3>1. pc[c] # "idle" /\ (\A d \in Ctx : d # c => pc'[d] = pc[d])
      BY <1>0, <1>2, <2>2 DEF Trace, Reserve, Stamp, Full, TestAndSet, CallUsnl, Goto, Write, TypeOK
    <3>2. \A d \in Ctx : d # c => pc'[d] \in {"idle", "write"}
      BY <1>0, <2>2, <3>1 DEF OneBusy
    <3>3. /\ pc'[c] \in {"test", "call"} => tracing_active' = 0
          /\ pc'[c] = "call" => tasklet_scheduled' = 1
      BY <1>0, <1>2, <2>2 DEF Trace, Reserve, Stamp, Full, TestAndSet, CallUsnl, Goto, Write, TypeOK,
         OneBusy, control, wakeup, test_and_set
    <3> QED BY <3>2, <3>3 DEF OneBusy
  <2> QED BY <2>1, <2>2
<1>3. CASE Handle
  <2>1. Idle /\ (trace_IDs \/ UNCHANGED pc)
    BY <1>0, <1>3, HandlerKeeps, OneCpuContexts DEF Handle
  <2>2. \A c, d \in Ctx : pc'[c] \in {"idle", "reserve"} /\ (c # d => pc'[c] = "idle" \/ pc'[d] = "idle")
    BY <1>0, <2>1 DEF TypeOK, Idle, trace_IDs, Goto
  <2> QED BY <2>2 DEF OneBusy
<1>4. CASE UStart \/ usnl
  BY <1>0, <1>4, UserKeeps DEF OneBusy, wakeup
<1>5. CASE UNCHANGED vars
  BY <1>0, <1>5 DEF vars, kvars, OneBusy, control, wakeup
<1> QED BY <1>1, <1>2, <1>3, <1>4, <1>5, ReliableSteps

\* What usnl may find when it reads an answer.
LEMMA AnswerRead ==
  ASSUME Reliable, WakeInv, upc = "recv", hpc = "none", Idle
  PROVE  /\ rcvq # <<>> /\ Head(rcvq).t \in {"END_OF_DATA", "WAKE_UP_USNL", "ENTRY"}
         /\ curcount > 0 \/ Head(rcvq).t = "ENTRY" => Woken
         /\ Woken => tracing_active = 0
<1>1. InSession /\ Answered
  BY DEF InSession, Answered, Working, Resetting
<1>2. CASE ~Woken
  <2>1. rcvq = <<Eod>> /\ curcount = 0
    BY <1>1, <1>2 DEF WakeInv, Queue, RecordingQueue
  <2> QED BY <1>2, <2>1, ShortQueues DEF Eod
<1>3. CASE Woken
  <2>1. tracing_active = 0
    BY <1>1, <1>3 DEF WakeInv, RoundInv, CycleInv, SlotInv, TypeOK, Flags, Woken
  <2>2. AnsweredQueue
    BY <1>1, <1>3 DEF WakeInv, Queue, DrainingQueue
  <2>3. \E a, b : rcvq \in {<<a>>, <<a, b>>} /\ a.t \in {"END_OF_DATA", "WAKE_UP_USNL", "ENTRY"}
    BY <2>2 DEF AnsweredQueue, Eod, Wake, Ent
  <2> QED BY <1>3, <2>1, <2>3, ShortQueues
<1> QED BY <1>2, <1>3

LEMMA FlagsStep ==
  ASSUME Reliable, WakeInv, [Next]_vars
  PROVE  Flags'
<1>0. OneCPU /\ TypeOK /\ NoStop /\ Paired /\ OneBusy /\ Flags
  BY ReliableSteps DEF WakeInv
<1>1. ASSUME NEW c \in Ctx, TraceCheck(c) \/ Trace(c), UNCHANGED uvars
      PROVE  Flags'
  <2>0. upc' = upc /\ hpc' = hpc /\ tracing_active \in {0, 1} /\ pc \in [Ctx -> PCs]
    BY <1>0, <1>1, TraceKeeps DEF TypeOK
  <2>1. InSession /\ upc \notin {"sync", "bye"} /\ hpc # "sync1"
    <3>1. pc[c] # "idle" \/ tracing_active = 1
      BY <1>1, TraceKeeps DEF TraceCheck
    <3> QED BY <1>0, <3>1 DEF Flags, Idle
  <2>2. InSession'
    BY <2>0, <2>1 DEF InSession
  <2>3. CASE TraceCheck(c)
    BY <1>0, <2>0, <2>1, <2>2, <2>3 DEF Flags, TraceCheck, control, wakeup
  <2>4. CASE Full(c)
    BY <1>0, <2>0, <2>1, <2>2, <2>4 DEF Flags, Full, Goto, wakeup
  <2>5. CASE TestAndSet(c)
    BY <1>0, <2>0, <2>1, <2>2, <2>5 DEF Flags, TestAndSet, test_and_set, OneBusy, control
  <2>6. CASE Reserve(c) \/ Stamp(c) \/ Write(c) \/ CallUsnl(c)
    <3>1. UNCHANGED <<tracing_active, tasklet_scheduled>> /\ pc[c] # "test"
      BY <2>6 DEF Reserve, Stamp, Write, CallUsnl, control, wakeup
    <3>2. \A d \in Ctx : pc[d] = "test" => pc'[d] = "test"
      BY <1>1, <2>0, <3>1, TraceKeeps DEF Goto
    <3> QED BY <1>0, <2>0, <2>1, <2>2, <3>1, <3>2 DEF Flags
  <2> QED BY <1>1, <2>3, <2>4, <2>5, <2>6 DEF Trace
<1>2. CASE Handle
  <2>0. Idle /\ Handler /\ upc' = upc
    BY <1>0, <1>2, HandlerKeeps, OneCpuContexts DEF Handle, uvars
  <2>1. CASE trace_IDs
    <3>1. UNCHANGED <<tracing_active, tasklet_scheduled, hpc>> /\ hpc = "ids"
      BY <2>1 DEF trace_IDs, control, wakeup, Handling
    <3> QED BY <1>0, <2>0, <3>1 DEF Flags, Idle, InSession, Paired, Working, Resetting
  <2>2. CASE ~trace_IDs
    <3>1. pc' = pc /\ Idle' /\ (\A c \in Ctx : pc[c] # "test")
      BY <2>0, <2>2, HandlerKeeps DEF Idle
    <3> QED BY <1>0, <2>0, <2>2, <3>1 DEF Flags, InSession, Paired, NoStop, Working, Resetting, TypeOK,
            Handling, Handler, StartReset, StartActive, StartDone, StopCmdSched, StopCmdActive,
            StopCmdReset, SyncReset, SyncSched, SyncActive, RequestStop, SendStop, RequestClear,
            RequestData, SendEndOfData, SendEntry, control, wakeup, Rearm
  <2> QED BY <2>1, <2>2
<1>3. CASE UStart \/ usnl
  <2>0. /\ UNCHANGED <<tracing_active, tasklet_scheduled, pc>> /\ hpc = "none" /\ Idle /\ Idle'
    BY <1>0, <1>3, UserKeeps, OneCpuContexts DEF wakeup, Handling, Idle
  <2>1. CASE URecvStop \/ URecvEndOfData \/ URecvEntry
    <3>1. upc = "recv" /\ hpc' = "none" /\ Receive(Head(rcvq).t)
      BY <2>0, <2>1 DEF URecvStop, URecvEndOfData, URecvEntry, Receive, recvmsg, Socket, handler
    <3>2. upc' \in {"sync", "bye"} => tracing_active = 0
      BY <2>0, <2>1, <3>1, AnswerRead DEF URecvStop, URecvEndOfData, URecvEntry, Receive
    <3>3. upc' \in Working
      BY <2>1 DEF URecvStop, URecvEndOfData, URecvEntry, Working
    <3> QED BY <1>0, <2>0, <3>1, <3>2, <3>3 DEF Flags, InSession, Working, Resetting
  <2>2. CASE ~(URecvStop \/ URecvEndOfData \/ URecvEntry)
    BY <1>0, <1>3, <2>0, <2>2 DEF Flags, InSession, Working, Resetting, UStart, usnl, UStartTracing,
       URequest, URecvWakeUp, USync, UWait, UStopTracing, UClose, Receive, bind, recvmsg, close,
       Socket, nl_rcv_func, FirstStep, handler
  <2> QED BY <2>1, <2>2
<1>4. CASE UNCHANGED vars
  BY <1>0, <1>4 DEF vars, kvars, uvars, Flags, Idle, InSession, control, wakeup, handler
<1> QED BY <1>1, <1>2, <1>3, <1>4, ReliableSteps

LEMMA AddressedStep ==
  ASSUME Reliable, WakeInv, [Next]_vars
  PROVE  Addressed'
<1>0. Addressed /\ Paired /\ OneCPU /\ MaxLost = 0 /\ Pids
  BY ReliableSteps DEF WakeInv, RoundInv, Reliable
<1>1. ASSUME NEW c \in Ctx, TraceCheck(c) \/ Trace(c), UNCHANGED uvars
      PROVE  Addressed'
  <2>1. lost' = lost
    BY <1>0, <1>1, TraceKeeps DEF CallUsnl, schedule_usnl, awake_usnl, send_to_userspace, Lose,
       Addressed
  <2> QED BY <1>0, <1>1, <2>1, TraceKeeps DEF Addressed
<1>2. CASE Handle
  <2>1. Handler /\ UNCHANGED <<upc, kills, sock>>
    BY <1>2, HandlerKeeps DEF Handle, uvars
  <2>2. us_pid' = us_pid
    BY <2>1 DEF Handler, StartReset, StartActive, trace_IDs, StartDone, StopCmdSched, StopCmdActive,
       StopCmdReset, SyncReset, SyncSched, SyncActive, RequestStop, SendStop, RequestClear,
       RequestData, SendEndOfData, SendEntry, control
  <2>3. lost' = lost
    BY <1>0, <2>1, HandlerKeeps DEF SendStop, SendEndOfData, SendEntry, EndOfData,
       send_to_userspace, Lose, Addressed
  <2> QED BY <1>0, <2>1, <2>2, <2>3 DEF Addressed
<1>3. CASE UStart \/ usnl
  <2>1. lost' = lost /\ kills' = kills
    BY <1>3, UserKeeps DEF UStart, usnl, UStartTracing, URequest, URecvStop, URecvEndOfData,
       URecvWakeUp, URecvEntry, USync, UWait, UStopTracing, UClose
  <2> QED BY <1>0, <1>3, <2>1 DEF Addressed, Pids, UStart, usnl, UStartTracing, URequest, URecvStop,
          URecvEndOfData, URecvWakeUp, URecvEntry, USync, UWait, UStopTracing, UClose, Receive, bind,
          recvmsg, close, Socket, nl_rcv_func, control, channel
<1>4. CASE UNCHANGED vars
  BY <1>0, <1>4 DEF vars, kvars, uvars, Addressed, control, channel
<1> QED BY <1>1, <1>2, <1>3, <1>4, ReliableSteps

LEMMA ReadsStep ==
  ASSUME Reliable, WakeInv, [Next]_vars
  PROVE  Reads'
<1>0. OneCPU /\ TypeOK /\ NoStop /\ Paired /\ OffWhenFull /\ Reads
  BY ReliableSteps DEF WakeInv
<1>1. ASSUME NEW c \in Ctx, TraceCheck(c) \/ Trace(c), UNCHANGED uvars
      PROVE  Reads'
  <2>1. UNCHANGED <<upc, hpc, lastread>> /\ (pc[c] # "idle" \/ tracing_active = 1)
    BY <1>1, TraceKeeps DEF TraceCheck
  <2>2. lastread = 0
    BY <1>0, <2>1, BufferAssumption DEF Reads, Idle, TypeOK
  <2> QED BY <2>1, <2>2 DEF Reads
<1>2. CASE Handle
  <2>0. Idle /\ Handler /\ upc' = upc
    BY <1>0, <1>2, HandlerKeeps, OneCpuContexts DEF Handle, uvars
  <2>1. CASE trace_IDs
    <3>1. UNCHANGED <<hpc, lastread>> /\ hpc = "ids"
      BY <2>1 DEF trace_IDs, Handling, buffer
    <3> QED BY <1>0, <3>1 DEF Reads
  <2>2. CASE ~trace_IDs
    <3>1. Idle'
      BY <2>0, <2>2, HandlerKeeps DEF Idle
    <3> QED BY <1>0, <2>0, <2>2, <3>1 DEF Reads, Paired, NoStop, OffWhenFull, Handling, Handler,
            StartReset, StartActive, StartDone, StopCmdSched, StopCmdActive, StopCmdReset, SyncReset,
            SyncSched, SyncActive, RequestStop, SendStop, RequestClear, RequestData, SendEndOfData,
            SendEntry, control, buffer, ResetLastread
  <2> QED BY <2>1, <2>2
<1>3. CASE UStart \/ usnl
  <2>0. UNCHANGED <<tracing_active, lastread>> /\ hpc = "none" /\ Idle'
    BY <1>0, <1>3, UserKeeps, OneCpuContexts DEF buffer, Handling, Idle
  <2> QED BY <1>0, <1>3, <2>0 DEF Reads, UStart, usnl, UStartTracing, URequest, URecvStop,
          URecvEndOfData, URecvWakeUp, URecvEntry, USync, UWait, UStopTracing, UClose, Receive, bind,
          recvmsg, close, Socket, nl_rcv_func, FirstStep, handler
<1>4. CASE UNCHANGED vars
  BY <1>0, <1>4 DEF vars, kvars, uvars, Reads, Idle, control, buffer, handler
<1> QED BY <1>1, <1>2, <1>3, <1>4, ReliableSteps

LEMMA FreshStep ==
  ASSUME Reliable, WakeInv, [Next]_vars
  PROVE  Fresh'
<1>0. OneCPU /\ TypeOK /\ NoStop /\ Paired /\ Flags /\ Fresh
  BY ReliableSteps DEF WakeInv
<1>1. ASSUME NEW c \in Ctx, TraceCheck(c) \/ Trace(c), UNCHANGED uvars
      PROVE  Fresh'
  <2>1. UNCHANGED <<upc, hpc, curcount>> /\ (CallUsnl(c) => pc[c] # "idle") /\ (CallUsnl(c) \/ rcvq' = rcvq)
    BY <1>1, TraceKeeps DEF CallUsnl
  <2>2. CallUsnl(c) => InSession
    BY <1>0, <2>1 DEF Flags, Idle
  <2> QED BY <1>0, <2>1, <2>2 DEF Fresh, InSession, Working, Resetting
<1>2. CASE Handle
  <2>0. Handler /\ upc' = upc /\ curcount' = curcount
    BY <1>2 DEF Handle, uvars
  <2> QED BY <1>0, <2>0 DEF Fresh, Paired, Handling, Handler,
          StartReset, StartActive, trace_IDs, StartDone, StopCmdSched, StopCmdActive, StopCmdReset,
          SyncReset, SyncSched, SyncActive, RequestStop, SendStop, RequestClear, RequestData,
          SendEndOfData, SendEntry, channel
<1>3. CASE UStart \/ usnl
  <2>0. hpc = "none"
    BY <1>3, UserKeeps DEF Handling
  <2> QED BY <1>0, <1>3, <2>0 DEF Fresh, UStart, usnl, UStartTracing, URequest, URecvStop,
          URecvEndOfData, URecvWakeUp, URecvEntry, USync, UWait, UStopTracing, UClose, Receive, bind,
          recvmsg, close, Socket, nl_rcv_func, FirstStep, handler, channel
<1>4. CASE UNCHANGED vars
  BY <1>0, <1>4 DEF vars, kvars, uvars, Fresh, channel, handler
<1> QED BY <1>1, <1>2, <1>3, <1>4, ReliableSteps

\* A context that records finds nothing read.  It wakes usnl once.
LEMMA QueueTrace ==
  ASSUME Reliable, WakeInv, NEW c \in Ctx, TraceCheck(c) \/ Trace(c), UNCHANGED uvars
  PROVE  Queue'
<1>0. /\ TypeOK /\ Paired /\ OneBusy /\ Flags /\ Reads /\ Queue /\ Addressed /\ OneCPU
      /\ upc' = upc /\ hpc' = hpc /\ curcount' = curcount /\ lastread' = lastread
  BY TraceKeeps DEF WakeInv, RoundInv, CycleInv, SlotInv, Reliable
<1>1. pc[c] # "idle" \/ tracing_active = 1
  BY TraceKeeps DEF TraceCheck
<1>2. InSession /\ lastread = 0
  BY <1>0, <1>1, BufferAssumption DEF Flags, Reads, Idle, TypeOK
<1>3. InSession' /\ hpc' \notin {"sync2", "sync3"}
  BY <1>0, <1>2 DEF InSession, Resetting
<1>4. avail_entries > 0
  BY BufferAssumption
<1>5. CASE CallUsnl(c)
  <2>1. Woken'
    <3>1. tasklet_scheduled' = 1 /\ pc' = [pc EXCEPT ![c] = "idle"]
      BY <1>0, <1>5 DEF CallUsnl, OneBusy, Goto
    <3>2. \A d \in Ctx : pc'[d] # "call"
      BY <1>0, <1>5, <3>1 DEF CallUsnl, OneBusy, TypeOK
    <3> QED BY <3>1, <3>2 DEF Woken
  <2>2. RecordingQueue
    BY <1>0, <1>2, <1>5 DEF Queue, Woken, CallUsnl
  <2>3. rcvq' = Append(rcvq, Wake)
    <3>1. upc \notin {"off", "start"} /\ us_pid # 0 /\ CpuOf(c) = 0
      BY <1>0, <1>2, OneCpuContexts DEF InSession, Working, Addressed
    <3> QED BY <1>0, <1>5, <3>1, Delivered DEF CallUsnl, schedule_usnl, awake_usnl, Wake
  <2>4. Asking => rcvq' = <<Wake>>
    BY <2>2, <2>3, ShortQueues DEF RecordingQueue
  <2>5. Answered => rcvq' = <<Eod, Wake>>
    BY <2>2, <2>3, ShortQueues DEF RecordingQueue
  <2>6. upc = "wait" => rcvq' \in {<<Wake>>, <<Eod, Wake>>}
    BY <2>2, <2>3, ShortQueues DEF RecordingQueue
  <2>7. upc # "sync" /\ hpc # "sync1"
    BY <1>0, <2>2 DEF RecordingQueue, Paired
  <2>8. DrainingQueue'
    BY <1>0, <1>2, <2>2, <2>4, <2>5, <2>6, <2>7 DEF DrainingQueue, RecordingQueue, AskingQueue,
       AnsweredQueue, WaitQueue, Asking, Answered, Wake, Eod
  <2> QED BY <1>3, <2>1, <2>8 DEF Queue
<1>6. CASE ~CallUsnl(c)
  <2>1. rcvq' = rcvq
    BY <1>6, TraceKeeps
  <2>2. Woken' <=> Woken
    <3>1. CASE TestAndSet(c)
      <4>1. /\ \A d \in Ctx : d # c => pc'[d] = pc[d] /\ pc[d] # "call"
            /\ pc[c] # "call" /\ pc'[c] = (IF tasklet_scheduled = 0 THEN "call" ELSE "idle")
            /\ tasklet_scheduled' = 1 /\ tasklet_scheduled \in {0, 1}
        BY <1>0, <3>1 DEF TestAndSet, test_and_set, OneBusy, TypeOK, Goto
      <4> QED BY <4>1 DEF Woken
    <3>2. CASE ~TestAndSet(c)
      <4>1. tasklet_scheduled' = tasklet_scheduled /\ pc[c] # "call" /\ pc'[c] # "call"
        BY <1>0, <1>6, <3>2, TraceKeeps DEF TraceCheck, CanEnter, Trace, Reserve, Stamp, Write, Full, Goto,
           TypeOK
      <4>2. \A d \in Ctx : d # c => pc'[d] = pc[d]
        BY <1>0, TraceKeeps DEF Goto, TypeOK
      <4> QED BY <4>1, <4>2 DEF Woken
    <3> QED BY <3>1, <3>2
  <2>3. RecordingQueue => RecordingQueue'
    BY <1>0, <2>1 DEF RecordingQueue, Asking, Answered, Eod
  <2>4. DrainingQueue => DrainingQueue'
    BY <1>0, <1>2, <1>4, <2>1 DEF DrainingQueue, AskingQueue, AnsweredQueue, SyncQueue, WaitQueue, Asking,
       Answered, Eod, Wake, Ent
  <2> QED BY <1>0, <1>2, <1>3, <2>2, <2>3, <2>4 DEF Queue
<1> QED BY <1>5, <1>6

\* An idle machine whose tracing is off within a session has woken usnl.
LEMMA OffIsWoken ==
  ASSUME TypeOK, Flags, Idle, InSession
  PROVE  Woken <=> tracing_active = 0
BY DEF TypeOK, Flags, Idle, Woken

\* The answer to a request.
LEMMA QueueAnswer ==
  ASSUME Reliable, WakeInv, SendEndOfData \/ SendEntry, UNCHANGED uvars
  PROVE  Queue'
<1>0. /\ TypeOK /\ Paired /\ Flags /\ Queue /\ Addressed /\ OffWhenFull /\ OneCPU
      /\ upc' = upc /\ curcount' = curcount /\ curcount \in Nat /\ lastread \in Nat
      /\ avail_entries \in Nat /\ avail_entries > 1 /\ lastread <= avail_entries
  BY BufferAssumption DEF WakeInv, RoundInv, CycleInv, SlotInv, uvars, Reliable, TypeOK
<1>1. /\ Idle /\ hpc \in {"sendeod", "sendentry"} /\ hpc' = "none" /\ upc = "recv"
      /\ UNCHANGED <<pc, tasklet_scheduled, entries>>
  BY <1>0, OneCpuContexts DEF SendEndOfData, SendEntry, Handling, buffer, wakeup, Paired
<1>2. /\ InSession /\ InSession' /\ Asking /\ ~Asking' /\ Answered' /\ (Woken' <=> Woken)
  BY <1>0, <1>1 DEF InSession, Working, Resetting, Asking, Answered, Woken
<1>3. CASE SendEndOfData
  <2>1. hpc = "sendeod" /\ lastread' = lastread
    BY <1>3 DEF SendEndOfData, Handling, buffer
  <2>2. rcvq' = Append(rcvq, Eod)
    BY <1>0, <1>1, <1>3, Delivered DEF SendEndOfData, EndOfData, Eod
  <2>3. CASE Woken
    <3>1. AskingQueue
      BY <1>0, <1>2, <2>3 DEF Queue, DrainingQueue
    <3>2. CASE rcvq = <<>>
      <4>1. rcvq' = <<Eod>>
        BY <2>2, <3>2, ShortQueues
      <4>2. lastread = avail_entries /\ curcount \in {lastread, lastread - 1}
        BY <2>1, <3>1, <3>2, ShortQueues DEF AskingQueue
      <4> QED BY <1>0, <1>1, <1>2, <2>1, <2>3, <4>1, <4>2
              DEF Queue, DrainingQueue, AnsweredQueue, Eod
    <3>3. CASE rcvq = <<Eod>>
      <4>1. rcvq' = <<Eod, Eod>>
        BY <2>2, <3>3, ShortQueues
      <4>2. rcvq # <<Wake>>
        BY <3>3 DEF Eod, Wake
      <4>3. lastread = avail_entries
        BY <2>1, <3>1, <4>2 DEF AskingQueue
      <4>4. curcount = lastread
        BY <1>0, <3>1, <3>3, <4>2, <4>3, ShortQueues DEF AskingQueue, Eod, Ent
      <4> QED BY <1>0, <1>1, <1>2, <2>1, <2>3, <4>1, <4>3, <4>4
              DEF Queue, DrainingQueue, AnsweredQueue, Eod
    <3>4. CASE lastread > 0 /\ rcvq = <<Ent(lastread - 1)>> /\ curcount = lastread - 1
      <4>1. rcvq' = <<Ent(lastread - 1), Eod>>
        BY <2>2, <3>4, ShortQueues
      <4>2. rcvq # <<Wake>>
        BY <3>4 DEF Ent, Wake
      <4>3. lastread = avail_entries
        BY <2>1, <3>1, <4>2 DEF AskingQueue
      <4> QED BY <1>0, <1>1, <1>2, <2>1, <2>3, <3>4, <4>1, <4>3
              DEF Queue, DrainingQueue, AnsweredQueue, Eod, Ent
    <3>5. CASE rcvq = <<Wake>> /\ lastread = 0 /\ curcount = 0
      <4>1. rcvq' = <<Wake, Eod>>
        BY <2>2, <3>5, ShortQueues
      <4> QED BY <1>0, <1>1, <1>2, <2>1, <2>3, <3>5, <4>1
              DEF Queue, DrainingQueue, AnsweredQueue, Eod, Wake
    <3> QED BY <3>1, <3>2, <3>3, <3>4, <3>5 DEF AskingQueue
  <2>4. CASE ~Woken
    <3>1. RecordingQueue
      BY <1>0, <1>2, <2>4 DEF Queue
    <3>2. rcvq' = <<Eod>> /\ curcount = 0
      BY <1>2, <2>2, <3>1, ShortQueues DEF RecordingQueue
    <3> QED BY <1>0, <1>1, <1>2, <2>1, <2>4, <3>1, <3>2 DEF Queue, RecordingQueue, Eod
  <2> QED BY <2>3, <2>4
<1>4. CASE SendEntry
  <2>1. hpc = "sendentry" /\ lastread' = lastread + 1 /\ lastread < avail_entries
    BY <1>0, <1>4 DEF SendEntry, Handling, TypeOK
  <2>2. rcvq' = Append(rcvq, Ent(lastread))
    BY <1>0, <1>1, <1>4, Delivered DEF SendEntry, Ent
  <2>3. Woken
    BY <1>0, <1>1, <1>2, <2>1, OffIsWoken DEF OffWhenFull
  <2>4. AskingQueue
    BY <1>0, <1>2, <2>3 DEF Queue, DrainingQueue
  <2>5. CASE rcvq = <<>> /\ curcount \in {lastread, lastread - 1}
    <3>1. rcvq' = <<Ent(lastread)>>
      BY <2>2, <2>5, ShortQueues
    <3>2. rcvq' = <<Ent(lastread - 1)>>'
      BY <1>0, <1>1, <2>1, <3>1 DEF Ent
    <3> QED BY <1>0, <1>1, <1>2, <2>1, <2>3, <2>5, <3>2 DEF Queue, DrainingQueue, AnsweredQueue
  <2>6. CASE rcvq = <<Eod>> /\ lastread \in {0, avail_entries} /\ curcount = lastread
    <3>1. rcvq' = <<Eod, Ent(0)>> /\ lastread' = 1 /\ curcount = 0
      BY <2>1, <2>2, <2>6, ShortQueues
    <3> QED BY <1>0, <1>1, <1>2, <2>3, <3>1 DEF Queue, DrainingQueue, AnsweredQueue, Eod, Ent
  <2>7. CASE lastread > 0 /\ rcvq = <<Ent(lastread - 1)>> /\ curcount = lastread - 1
    <3>1. rcvq' = <<Ent(lastread - 1), Ent(lastread)>>
      BY <2>2, <2>7, ShortQueues
    <3>2. rcvq' = <<Ent(lastread - 2), Ent(lastread - 1)>>'
      BY <1>0, <1>1, <2>1, <3>1 DEF Ent
    <3> QED BY <1>0, <1>1, <1>2, <2>1, <2>3, <2>7, <3>2 DEF Queue, DrainingQueue, AnsweredQueue
  <2>8. CASE rcvq = <<Wake>> /\ lastread = 0 /\ curcount = 0
    <3>1. rcvq' = <<Wake, Ent(0)>> /\ lastread' = 1
      BY <2>1, <2>2, <2>8, ShortQueues
    <3> QED BY <1>0, <1>1, <1>2, <2>3, <2>8, <3>1 DEF Queue, DrainingQueue, AnsweredQueue, Wake, Ent
  <2> QED BY <2>4, <2>5, <2>6, <2>7, <2>8 DEF AskingQueue
<1> QED BY <1>3, <1>4

LEMMA QueueHandle ==
  ASSUME Reliable, WakeInv, Handle
  PROVE  Queue'
<1>0. /\ TypeOK /\ Paired /\ NoStop /\ Flags /\ Reads /\ Fresh /\ Queue /\ OneCPU
      /\ upc' = upc /\ curcount' = curcount /\ Handler /\ UNCHANGED uvars
  BY DEF WakeInv, RoundInv, CycleInv, SlotInv, uvars, Reliable, Handle
<1>1. Idle /\ UNCHANGED entries
  BY <1>0, HandlerKeeps, OneCpuContexts
<1>2. CASE StartReset \/ StopCmdSched \/ StopCmdActive \/ StopCmdReset
  <2>1. ~InSession' /\ hpc' \notin {"sync2", "sync3"}
    BY <1>0, <1>2 DEF StartReset, StopCmdSched, StopCmdActive, StopCmdReset, Handling, InSession,
       Paired, Resetting, Working
  <2> QED BY <2>1 DEF Queue
<1>3. CASE StartActive
  <2>1. /\ hpc = "start2" /\ hpc' = "ids" /\ UNCHANGED <<tasklet_scheduled, lastread, rcvq>>
    BY <1>3 DEF StartActive, Handling, buffer, wakeup, channel
  <2>2. upc = "loop" /\ tasklet_scheduled = 0 /\ lastread = 0 /\ rcvq = <<>> /\ curcount = 0
    BY <1>0, <2>1 DEF Paired, Flags, Reads, Fresh, InSession, Resetting
  <2> QED BY <1>0, <2>1, <2>2 DEF Queue, RecordingQueue, Woken, Asking, Answered
<1>4. CASE trace_IDs \/ StartDone \/ RequestStop \/ RequestData
  <2>1. /\ UNCHANGED <<tasklet_scheduled, lastread, rcvq>>
    BY <1>4 DEF trace_IDs, StartDone, RequestStop, RequestData, buffer, wakeup, channel
  <2>2. /\ InSession /\ InSession' /\ Asking /\ Asking' /\ ~Answered /\ ~Answered' /\ upc \in {"loop", "recv"}
        /\ hpc' \notin {"sync1", "sync2", "sync3"}
    BY <1>0, <1>4 DEF trace_IDs, StartDone, RequestStop, RequestData, Handling, Paired, NoStop,
       InSession, Resetting, Working, Asking, Answered
  <2>3. Woken' <=> Woken
    <3>1. \A c \in Ctx : pc[c] # "call" /\ pc'[c] # "call"
      BY <1>0, <1>1, <1>4 DEF trace_IDs, StartDone, RequestStop, RequestData, Idle, Goto, TypeOK
    <3> QED BY <2>1, <3>1 DEF Woken
  <2>4. CASE Woken
    <3>1. hpc' = "sendeod" => lastread = avail_entries
      BY <1>0, <1>1, <1>4, <2>2, <2>4, OffIsWoken, BufferAssumption DEF trace_IDs, StartDone,
         RequestStop, RequestData, OutOfData, Handling, TypeOK
    <3>2. AskingQueue'
      BY <1>0, <1>1, <2>1, <2>2, <2>4, <3>1 DEF Queue, DrainingQueue, AskingQueue, Eod, Wake, Ent
    <3> QED BY <1>0, <2>2, <2>3, <2>4, <3>2 DEF Queue, DrainingQueue
  <2>5. CASE ~Woken
    BY <1>0, <2>1, <2>2, <2>3, <2>5 DEF Queue, RecordingQueue
  <2> QED BY <2>4, <2>5
<1>5. CASE SyncReset
  <2>1. hpc = "sync1" /\ upc = "wait" /\ tracing_active = 0 /\ InSession /\ rcvq' = rcvq
    BY <1>0, <1>5 DEF SyncReset, Handling, Paired, Flags, InSession, Working, Resetting, channel
  <2>2. hpc' = "sync2"
    BY <1>5, <2>1 DEF SyncReset
  <2>3. Woken
    BY <1>0, <1>1, <2>1, OffIsWoken
  <2>4. rcvq \in {<<>>, <<Eod>>}
    BY <1>0, <2>1, <2>3 DEF Queue, DrainingQueue, SyncQueue
  <2> QED BY <2>1, <2>2, <2>4 DEF Queue, InSession, Resetting, Eod
<1>6. CASE SyncSched
  <2>1. hpc = "sync2" /\ hpc' = "sync3" /\ rcvq' = rcvq
    BY <1>6 DEF SyncSched, Handling, channel
  <2> QED BY <1>0, <2>1 DEF Queue, InSession, Resetting, Eod
<1>7. CASE SyncActive
  <2>1. hpc = "sync3" /\ hpc' = "none" /\ UNCHANGED <<rcvq, lastread, tasklet_scheduled>>
    BY <1>7 DEF SyncActive, Handling, channel, buffer, wakeup
  <2>2. upc = "wait" /\ lastread = 0 /\ tasklet_scheduled = 0 /\ rcvq \in {<<>>, <<Eod>>}
    BY <1>0, <2>1 DEF Paired, Reads, Flags, Queue, InSession, Resetting
  <2> QED BY <1>0, <2>1, <2>2 DEF Queue, RecordingQueue, Woken, Asking, Answered, Eod
<1>8. CASE SendEndOfData \/ SendEntry
  BY <1>0, <1>8, QueueAnswer
<1>9. ~SendStop /\ ~RequestClear
  BY <1>0 DEF SendStop, RequestClear, Handling, Paired
<1> QED BY <1>0, <1>2, <1>3, <1>4, <1>5, <1>6, <1>7, <1>8, <1>9 DEF Handler

\* usnl reads an answer, or what was queued before it.
LEMMA QueueRead ==
  ASSUME Reliable, WakeInv, URecvStop \/ URecvEndOfData \/ URecvWakeUp \/ URecvEntry
  PROVE  Queue'
<1>0. /\ TypeOK /\ Flags /\ Queue /\ OneCPU /\ curcount \in Nat /\ lastread \in Nat
      /\ avail_entries \in Nat /\ avail_entries > 1 /\ lastread <= avail_entries
  BY BufferAssumption DEF WakeInv, RoundInv, CycleInv, SlotInv, Reliable, TypeOK
<1>1. /\ upc = "recv" /\ hpc = "none" /\ hpc' = "none" /\ rcvq' = Tail(rcvq) /\ Idle
      /\ UNCHANGED <<pc, tasklet_scheduled, entries, lastread>>
  BY <1>0, OneCpuContexts DEF URecvStop, URecvEndOfData, URecvWakeUp, URecvEntry, Receive, recvmsg,
     Socket, Handling, buffer, wakeup, handler
<1>2. /\ InSession /\ Answered /\ ~Answered' /\ (Woken' <=> Woken)
      /\ upc' \in {"loop", "sync", "wait", "bye"}
  BY <1>1 DEF InSession, Working, Resetting, Asking, Answered, Woken, URecvStop, URecvEndOfData,
     URecvWakeUp, URecvEntry
<1>3. InSession' /\ (Asking' => upc' = "loop")
  BY <1>1, <1>2 DEF InSession, Working, Resetting, Asking
<1>4. Head(rcvq).t # "STOP_TRACING"
  BY <1>1, AnswerRead
<1>5. CASE ~Woken
  <2>1. rcvq = <<Eod>> /\ curcount = 0 /\ lastread = 0
    BY <1>0, <1>2, <1>5 DEF Queue, RecordingQueue
  <2>2. rcvq' = <<>> /\ Head(rcvq).t = "END_OF_DATA"
    BY <1>1, <2>1, ShortQueues DEF Eod
  <2>3. upc' = "wait"
    BY <2>1, <2>2 DEF URecvStop, URecvEndOfData, URecvWakeUp, URecvEntry, Receive
  <2> QED BY <1>1, <1>2, <1>3, <1>5, <2>1, <2>2, <2>3 DEF Queue, RecordingQueue, Asking
<1>6. CASE Woken
  <2>0. AnsweredQueue
    BY <1>0, <1>2, <1>6 DEF Queue, DrainingQueue
  <2>1. /\ upc' = "loop" => AskingQueue'
        /\ upc' = "sync" => SyncQueue'
        /\ upc' = "wait" => WaitQueue'
        => Queue'
    BY <1>1, <1>2, <1>3, <1>6 DEF Queue, DrainingQueue
  <2>2. CASE URecvEndOfData
    <3>0. Head(rcvq).t = "END_OF_DATA" /\ curcount' = curcount /\ upc' = (IF curcount > 0 THEN "sync" ELSE "wait")
      BY <2>2 DEF URecvEndOfData, Receive
    <3>1. CASE rcvq = <<Eod>> /\ lastread = avail_entries /\ curcount \in {lastread, lastread - 1}
      <4>1. rcvq' = <<>> /\ upc' = "sync"
        BY <1>0, <1>1, <3>0, <3>1, ShortQueues
      <4> QED BY <1>1, <2>1, <3>0, <3>1, <4>1 DEF SyncQueue
    <3>2. CASE rcvq = <<Eod, Eod>> /\ lastread = avail_entries /\ curcount = lastread
      <4>1. rcvq' = <<Eod>> /\ upc' = "sync"
        BY <1>0, <1>1, <3>0, <3>2, ShortQueues
      <4> QED BY <1>1, <2>1, <3>0, <3>2, <4>1 DEF SyncQueue, Eod
    <3>3. CASE rcvq = <<Eod, Wake>> /\ lastread = 0 /\ curcount = 0
      <4>1. rcvq' = <<Wake>> /\ upc' = "wait"
        BY <1>1, <3>0, <3>3, ShortQueues
      <4> QED BY <1>1, <2>1, <3>0, <3>3, <4>1 DEF WaitQueue, Wake
    <3>4. CASE rcvq = <<Eod, Ent(0)>> /\ lastread = 1 /\ curcount = 0
      <4>1. rcvq' = <<Ent(0)>> /\ upc' = "wait"
        BY <1>1, <3>0, <3>4, ShortQueues
      <4> QED BY <1>1, <2>1, <3>0, <3>4, <4>1 DEF WaitQueue, Ent
    <3>5. Head(rcvq) # Wake /\ (\A s : Head(rcvq) # Ent(s))
      BY <3>0 DEF Wake, Ent
    <3> QED BY <2>0, <3>1, <3>2, <3>3, <3>4, <3>5, ShortQueues DEF AnsweredQueue
  <2>3. CASE URecvWakeUp
    <3>0. Head(rcvq).t = "WAKE_UP_USNL" /\ curcount' = curcount /\ upc' = "loop"
      BY <2>3 DEF URecvWakeUp, Receive
    <3>1. CASE rcvq = <<Wake, Eod>> /\ lastread = 0 /\ curcount = 0
      <4>1. rcvq' = <<Eod>>
        BY <1>1, <3>1, ShortQueues
      <4> QED BY <1>1, <2>1, <3>0, <3>1, <4>1 DEF AskingQueue, Eod
    <3>2. CASE rcvq = <<Wake, Ent(0)>> /\ lastread = 1 /\ curcount = 0
      <4>1. rcvq' = <<Ent(0)>>
        BY <1>1, <3>2, ShortQueues
      <4> QED BY <1>1, <2>1, <3>0, <3>2, <4>1 DEF AskingQueue, Ent
    <3>3. Head(rcvq) # Eod /\ (\A s : Head(rcvq) # Ent(s))
      BY <3>0 DEF Eod, Ent
    <3> QED BY <2>0, <3>1, <3>2, <3>3, ShortQueues DEF AnsweredQueue
  <2>4. CASE URecvEntry
    <3>0. Head(rcvq).t = "ENTRY" /\ curcount' = curcount + 1 /\ upc' \in {"loop", "bye"}
      BY <2>4 DEF URecvEntry, Receive
    <3>1. CASE lastread > 0 /\ rcvq = <<Ent(lastread - 1)>> /\ curcount \in {lastread - 1, lastread - 2}
      <4>1. rcvq' = <<>>
        BY <1>1, <3>1, ShortQueues
      <4>2. curcount' \in {lastread, lastread - 1}
        BY <1>0, <3>0, <3>1
      <4> QED BY <1>1, <2>1, <3>0, <4>1, <4>2 DEF AskingQueue
    <3>2. CASE lastread = avail_entries /\ rcvq = <<Ent(lastread - 1), Eod>> /\ curcount = lastread - 1
      <4>1. rcvq' = <<Eod>>
        BY <1>1, <3>2, ShortQueues
      <4>2. curcount' = lastread
        BY <1>0, <3>0, <3>2
      <4> QED BY <1>1, <2>1, <3>0, <3>2, <4>1, <4>2 DEF AskingQueue, Eod
    <3>3. CASE lastread > 1 /\ rcvq = <<Ent(lastread - 2), Ent(lastread - 1)>> /\ curcount = lastread - 2
      <4>1. rcvq' = <<Ent(lastread - 1)>>
        BY <1>1, <3>3, ShortQueues
      <4>2. curcount' = lastread - 1
        BY <1>0, <3>0, <3>3
      <4> QED BY <1>0, <1>1, <2>1, <3>0, <3>3, <4>1, <4>2 DEF AskingQueue, Ent
    <3>4. Head(rcvq) # Eod /\ Head(rcvq) # Wake
      BY <3>0 DEF Eod, Wake
    <3> QED BY <2>0, <3>1, <3>2, <3>3, <3>4, ShortQueues DEF AnsweredQueue
  <2> QED BY <1>4, <2>2, <2>3, <2>4 DEF URecvStop, Receive
<1> QED BY <1>5, <1>6

LEMMA QueueUser ==
  ASSUME Reliable, WakeInv, UStart \/ usnl
  PROVE  Queue'
<1>0. TypeOK /\ Queue /\ OneCPU /\ curcount \in Nat /\ Idle
  BY UserKeeps, OneCpuContexts DEF WakeInv, RoundInv, CycleInv, SlotInv, Reliable
<1>1. UNCHANGED <<pc, tasklet_scheduled, entries, lastread>> /\ hpc = "none" /\ (Woken' <=> Woken)
  BY UserKeeps DEF buffer, wakeup, Handling, Woken
<1>2. CASE UStart \/ UStartTracing \/ UStopTracing \/ UClose
  <2>1. ~InSession' /\ hpc' \notin {"sync2", "sync3"}
    BY <1>1, <1>2 DEF UStart, UStartTracing, UStopTracing, UClose, InSession, Working, Resetting,
       bind, close, Socket, nl_rcv_func, FirstStep, handler
  <2> QED BY <2>1 DEF Queue
<1>3. CASE URequest
  <2>1. upc = "loop" /\ upc' = "recv" /\ hpc' = "req1" /\ UNCHANGED <<rcvq, curcount>>
    BY <1>3 DEF URequest, nl_rcv_func, FirstStep, channel
  <2> QED BY <1>0, <1>1, <2>1 DEF Queue, InSession, Working, Resetting, RecordingQueue, DrainingQueue,
          AskingQueue, Asking, Answered, Eod, Wake, Ent
<1>4. CASE USync
  <2>1. upc = "sync" /\ upc' = "wait" /\ hpc' = "sync1" /\ UNCHANGED <<rcvq, curcount>>
    BY <1>4 DEF USync, nl_rcv_func, FirstStep, channel
  <2>2. Woken /\ SyncQueue
    BY <1>0, <1>1, <2>1 DEF Queue, InSession, Working, Resetting, RecordingQueue, DrainingQueue
  <2>3. SyncQueue'
    BY <1>1, <2>1, <2>2 DEF SyncQueue, Eod
  <2> QED BY <1>1, <2>1, <2>2, <2>3 DEF Queue, DrainingQueue, Asking, Answered
<1>5. CASE UWait
  <2>1. /\ upc = "wait" /\ upc' = "loop" /\ hpc' = "none" /\ curcount' = 0
        /\ rcvq # <<>> /\ rcvq' = Tail(rcvq)
    BY <1>1, <1>5 DEF UWait, recvmsg, Socket, handler
  <2>2. InSession /\ InSession' /\ Asking' /\ ~Answered'
    BY <1>1, <2>1 DEF InSession, Working, Resetting, Asking, Answered
  <2>3. CASE Woken
    <3>1. WaitQueue
      BY <1>0, <1>1, <2>1, <2>2, <2>3 DEF Queue, DrainingQueue
    <3>2. CASE rcvq = <<Wake>> /\ lastread = 0
      <4>1. rcvq' = <<>>
        BY <2>1, <3>2, ShortQueues
      <4> QED BY <1>1, <2>1, <2>2, <2>3, <3>2, <4>1 DEF Queue, DrainingQueue, AskingQueue
    <3>3. CASE rcvq = <<Eod, Wake>> /\ lastread = 0
      <4>1. rcvq' = <<Wake>>
        BY <2>1, <3>3, ShortQueues
      <4> QED BY <1>1, <2>1, <2>2, <2>3, <3>3, <4>1 DEF Queue, DrainingQueue, AskingQueue, Wake
    <3>4. CASE rcvq = <<Ent(0)>> /\ lastread = 1
      <4>1. rcvq' = <<>>
        BY <2>1, <3>4, ShortQueues
      <4> QED BY <1>1, <2>1, <2>2, <2>3, <3>4, <4>1 DEF Queue, DrainingQueue, AskingQueue
    <3> QED BY <3>1, <3>2, <3>3, <3>4 DEF WaitQueue
  <2>4. CASE ~Woken
    <3>1. RecordingQueue
      BY <1>0, <2>2, <2>4 DEF Queue
    <3>2. rcvq' = <<>> /\ lastread = 0
      BY <2>1, <3>1, ShortQueues DEF RecordingQueue
    <3> QED BY <1>1, <2>1, <2>2, <2>4, <3>2 DEF Queue, RecordingQueue
  <2> QED BY <2>3, <2>4
<1> QED BY <1>2, <1>3, <1>4, <1>5, QueueRead DEF usnl

LEMMA WakeStep == Reliable /\ WakeInv /\ [Next]_vars => WakeInv'
<1> SUFFICES ASSUME Reliable, WakeInv, [Next]_vars
             PROVE  WakeInv'
  OBVIOUS
<1>1. RoundInv'
  BY RoundStep DEF Reliable, WakeInv
<1>2. curcount' \in Nat
  <2>1. curcount \in Nat
    BY DEF WakeInv
  <2>2. CASE UStart \/ usnl
    BY <2>1, <2>2 DEF UStart, usnl, UStartTracing, URequest, URecvStop, URecvEndOfData, URecvWakeUp,
       URecvEntry, USync, UWait, UStopTracing, UClose
  <2> QED BY <2>1, <2>2, ReliableSteps DEF Handle, vars, uvars
<1>3. Queue'
  <2>1. CASE UNCHANGED vars
    <3>1. /\ UNCHANGED <<upc, curcount, hpc, rcvq, lastread, tasklet_scheduled, pc, entries>>
          /\ Queue
      BY <2>1 DEF vars, kvars, uvars, buffer, wakeup, handler, channel, WakeInv
    <3> QED BY <3>1 DEF Queue, InSession, Woken, RecordingQueue, DrainingQueue, AskingQueue,
            AnsweredQueue, SyncQueue, WaitQueue, Asking, Answered, Eod, Wake, Ent
  <2> QED BY <2>1, ReliableSteps, QueueTrace, QueueHandle, QueueUser
<1> QED BY <1>1, <1>2, <1>3, OneBusyStep, FlagsStep, AddressedStep, ReadsStep, FreshStep DEF WakeInv

LEMMA WakeInit == Init => WakeInv
<1> SUFFICES ASSUME Init
             PROVE  WakeInv
  OBVIOUS
<1>1. Idle /\ RoundInv
  BY RoundInit DEF Init, initialize_tracer, Idle
<1>2. /\ upc = "off" /\ curcount = 0 /\ kills = 0 /\ tracing_active = 0 /\ lastread = 0
      /\ tasklet_scheduled = 0 /\ hpc = "none" /\ rcvq = <<>> /\ lost = 0
  BY DEF Init, initialize_tracer
<1>3. ~InSession
  BY <1>2 DEF InSession, Working
<1> QED BY <1>1, <1>2, <1>3 DEF WakeInv, OneBusy, Flags, Addressed, Reads, Fresh, Queue, Idle

\* On one CPU, when no message is lost and the buffer has more than one slot,
\* usnl never sleeps over a switched-off tracer: trace_entry() has elected one
\* sender of the wake-up since the buffer was last emptied, and what usnl reads
\* out of step with its requests is never the last message it waits for.
THEOREM WakeupNotLost ==
  ASSUME Reliable
  PROVE  Spec => []NoLostWakeup
<1>1. ASSUME WakeInv
      PROVE  NoLostWakeup
  <2> SUFFICES ASSUME upc \in {"wait", "recv"}, tracing_active = 0, hpc = "none",
                      \A c \in Ctx : pc[c] = "idle"
               PROVE  rcvq # <<>>
    BY DEF NoLostWakeup, Quiet
  <2>1. InSession /\ Idle /\ TypeOK /\ Flags /\ Queue
    BY <1>1 DEF InSession, Working, Resetting, Idle, WakeInv, RoundInv, CycleInv, SlotInv
  <2>2. Woken
    BY <2>1, OffIsWoken
  <2>3. CASE upc = "recv"
    BY <1>1, <2>1, <2>3, AnswerRead
  <2>4. CASE upc = "wait"
    <3>1. WaitQueue
      BY <2>1, <2>2, <2>4 DEF Queue, DrainingQueue
    <3> QED BY <3>1, ShortQueues DEF WaitQueue
  <2> QED BY <2>3, <2>4
<1>2. Reliable
  OBVIOUS
<1>3. WakeInv /\ [Next]_vars => WakeInv'
  BY <1>2, WakeStep
<1> QED BY <1>1, <1>3, WakeInit, PTL DEF Spec

-----------------------------------------------------------------------------
(* One CPU: the rounds                                                     *)

\* Entries that usnl has yet to read from a queue of at most two messages.
IsEntry(m) == IF m.t = "ENTRY" THEN 1 ELSE 0
Unread(q) == IF q = <<>> THEN 0
             ELSE IsEntry(Head(q)) + IF Tail(q) = <<>> THEN 0 ELSE IsEntry(Head(Tail(q)))

\* How far usnl has stored the round.  As long as it counted no entry it can
\* only have read one as a wake-up.
Position == IF lastread = 0 \/ curcount = 0 THEN 0 ELSE lastread - Unread(rcvq)

FileSlots == {s \in Slots : InFile(s)}
Last(S, n) == n \in 0 .. avail_entries /\ (n > 0 => n - 1 \in S) /\ (\A s \in S : s < n)
StoredInv == Open => Last(FileSlots, Position)

DrainInv == WakeInv /\ FileInv /\ StoredInv

LEMMA UnreadSend ==
  ASSUME NEW q, NEW m, q = <<>> \/ \E a : q = <<a>>
  PROVE  Unread(Append(q, m)) = Unread(q) + IsEntry(m)
<1>1. CASE q = <<>>
  BY <1>1, ShortQueues DEF Unread, IsEntry
<1>2. ASSUME NEW a, q = <<a>>
      PROVE  Unread(Append(q, m)) = Unread(q) + IsEntry(m)
  <2>1. Append(q, m) = <<a, m>> /\ Unread(q) = IsEntry(a)
    BY <1>2, ShortQueues DEF Unread, IsEntry
  <2>2. Unread(<<a, m>>) = IsEntry(a) + IsEntry(m)
    BY ShortQueues DEF Unread
  <2> QED BY <2>1, <2>2
<1> QED BY <1>1, <1>2

LEMMA UnreadRead ==
  ASSUME NEW q, \E a, b : q \in {<<a>>, <<a, b>>}
  PROVE  Unread(q) = Unread(Tail(q)) + IsEntry(Head(q))
<1>1. ASSUME NEW a, q = <<a>>
      PROVE  Unread(q) = Unread(Tail(q)) + IsEntry(Head(q))
  BY <1>1, ShortQueues DEF Unread, IsEntry
<1>2. ASSUME NEW a, NEW b, q = <<a, b>>
      PROVE  Unread(q) = Unread(Tail(q)) + IsEntry(Head(q))
  <2>1. Head(q) = a /\ Tail(q) = <<b>> /\ Unread(<<b>>) = IsEntry(b)
    BY <1>2, ShortQueues DEF Unread, IsEntry
  <2>2. Unread(q) = IsEntry(a) + IsEntry(b)
    BY <1>2, ShortQueues DEF Unread
  <2>3. IsEntry(a) \in Nat /\ IsEntry(b) \in Nat
    BY DEF IsEntry
  <2>4. Unread(Tail(q)) = IsEntry(b) /\ IsEntry(Head(q)) = IsEntry(a)
    BY <2>1
  <2> QED BY <2>2, <2>3, <2>4
<1> QED BY <1>1, <1>2

\* The slots of the current round.
LEMMA RoundSlots ==
  TypeOK => \A s \in Slots :
    /\ Round[s] # Garbage <=> Open /\ entries[s] # Garbage /\ entries[s].epo = epoch
    /\ Round[s] # Garbage => Round[s] = entries[s] /\ entries[s] \in Entry
BY DEF Round, TypeOK

\* What is yet to be sent is not in the file.
LEMMA NotSentNotStored == FileInv => \A s \in Slots : s >= lastread => ~InFile(s)
<1> SUFFICES ASSUME FileInv, NEW s \in Slots, s >= lastread, InFile(s)
             PROVE  FALSE
  OBVIOUS
<1>0. TypeOK /\ StreamInv
  BY DEF FileInv, RoundInv, CycleInv, SlotInv
<1>1. Round[s] # Garbage
  BY DEF InFile
<1>2. entries[s] # Garbage /\ entries[s].epo = epoch /\ Round[s] = entries[s] /\ entries[s] \in Entry
  BY <1>0, <1>1, RoundSlots
<1>3. PICK i \in DOMAIN f : f[i] = [t |-> "ENTRY", e |-> entries[s]]
  BY <1>2 DEF InFile
<1>4. f[i].t = "ENTRY" /\ f[i].e.cyc = entries[s].cyc
  BY <1>3
<1>5. entries[s].cyc \in Cycs(f)
  BY <1>4 DEF Cycs
<1>6. After(entries[s].cyc)
  BY <1>0, <1>5 DEF StreamInv
<1>7. entries[s].cyc < entries[s].cyc
  BY <1>2, <1>6 DEF After
<1>8. entries[s].cyc \in Nat
  BY <1>2 DEF Entry
<1> QED BY <1>7, <1>8

LEMMA NothingStored == FileInv /\ lastread = 0 => FileSlots = {}
BY NotSentNotStored, BufferAssumption DEF FileSlots, Slots

LEMMA LastUnique ==
  ASSUME NEW S \in SUBSET Slots, NEW m, NEW n, Last(S, m), Last(S, n)
  PROVE  m = n
<1>1. m \in Nat /\ n \in Nat
  BY BufferAssumption DEF Last
<1>2. ~(m < n)
  BY <1>1 DEF Last
<1>3. ~(n < m)
  BY <1>1 DEF Last
<1> QED BY <1>1, <1>2, <1>3

LEMMA StoredLast == (\E n : Last(FileSlots, n)) => Last(FileSlots, Stored)
<1> SUFFICES ASSUME NEW n, Last(FileSlots, n)
             PROVE  Last(FileSlots, Stored)
  OBVIOUS
<1> DEFINE P(m) == /\ m > 0 => InFile(m - 1)
                   /\ \A s \in Slots : s >= m => ~InFile(s)
<1>1. n \in 0 .. avail_entries /\ P(n)
  BY BufferAssumption DEF Last, FileSlots, Slots
<1>2. Stored \in 0 .. avail_entries /\ P(Stored)
  BY <1>1, Zenon DEF Stored
<1> QED BY <1>2, BufferAssumption DEF Last, FileSlots, Slots

\* The number of slots the refinement mapping chooses.
LEMMA StoredIs == FileInv /\ StoredInv => Stored = IF Open THEN Position ELSE 0
<1> SUFFICES ASSUME FileInv, StoredInv
             PROVE  Stored = IF Open THEN Position ELSE 0
  OBVIOUS
<1>0. FileSlots \subseteq Slots
  BY DEF FileSlots
<1>1. CASE Open
  BY <1>0, <1>1, StoredLast, LastUnique DEF StoredInv
<1>2. CASE ~Open
  <2>1. FileSlots = {}
    BY <1>2 DEF FileSlots, InFile, Round
  <2>2. Last(FileSlots, 0)
    BY <2>1, BufferAssumption DEF Last
  <2> QED BY <1>0, <1>2, <2>2, StoredLast, LastUnique
<1> QED BY <1>1, <1>2

LEMMA SameRound ==
  ASSUME Open' <=> Open, UNCHANGED <<entries, epoch>>
  PROVE  Round' = Round
BY DEF Round

LEMMA FileAppend ==
  ASSUME f \in Seq(Msg), NEW m \in Msg, f' = Append(f, m), Round' = Round, NEW s \in Slots
  PROVE  InFile(s)' <=> InFile(s) \/ (Round[s] # Garbage /\ m = [t |-> "ENTRY", e |-> Round[s]])
<1>1. PICK n \in Nat : n = Len(f)
  OBVIOUS
<1>2. /\ DOMAIN f = 1 .. n /\ DOMAIN f' = 1 .. n + 1 /\ f'[n + 1] = m
      /\ \A i \in 1 .. n : f'[i] = f[i]
  BY <1>1
<1>3. \A x : (\E i \in DOMAIN f' : f'[i] = x) <=> (\E i \in DOMAIN f : f[i] = x) \/ m = x
  BY <1>2
<1> QED BY <1>3 DEF InFile

\* While usnl reads a round every slot of it is filled.
LEMMA FullRound ==
  ASSUME WakeInv, InSession, Idle, tracing_active = 0
  PROVE  Open /\ \A s \in Slots : /\ entries[s] \in Entry /\ Round[s] = entries[s]
                                  /\ Round[s] # Garbage
<1>0. TypeOK /\ Filled /\ OffWhenFull
  BY DEF WakeInv, RoundInv, CycleInv, SlotInv
<1>1. Open
  BY DEF InSession, Open, Working, Resetting
<1>2. lastentry > avail_entries /\ lastentry \in Nat
  BY <1>0 DEF OffWhenFull, InSession, TypeOK
<1>3. ASSUME NEW s \in Slots
      PROVE  entries[s] # Garbage /\ entries[s].epo = epoch
  <2>1. s < lastentry
    BY <1>2, BufferAssumption DEF Slots
  <2> QED BY <1>0, <2>1 DEF Filled, Idle, Holds
<1>4. \A s \in Slots : Round[s] = entries[s] /\ entries[s] \in Entry
  BY <1>0, <1>1, <1>3 DEF Round, TypeOK
<1> QED BY <1>1, <1>3, <1>4

LEMMA QueueLengths ==
  ASSUME WakeInv, InSession
  PROVE  /\ Asking => rcvq = <<>> \/ \E a : rcvq = <<a>>
         /\ Answered \/ (upc = "wait" /\ hpc = "none" /\ rcvq # <<>>) =>
              \E a, b : rcvq \in {<<a>>, <<a, b>>}
<1>0. Queue
  BY DEF WakeInv
<1>1. CASE Woken
  BY <1>0, <1>1 DEF Queue, DrainingQueue, AskingQueue, AnsweredQueue, WaitQueue
<1>2. CASE ~Woken
  BY <1>0, <1>2 DEF Queue, RecordingQueue
<1> QED BY <1>1, <1>2

\* usnl reads the entry it has to store next, or the second one after it took
\* the first for a wake-up.
LEMMA EntryRead ==
  ASSUME Reliable, WakeInv, URecvEntry
  PROVE  \E d \in Slots :
           /\ d < lastread /\ Head(rcvq) = Ent(d) /\ tracing_active = 0 /\ InSession /\ Idle
           /\ Position = (IF curcount = 0 THEN 0 ELSE d) /\ (curcount = 0 => d \in {0, 1})
           /\ Position' = d + 1
<1>0. /\ TypeOK /\ Queue /\ OneCPU /\ curcount \in Nat /\ lastread \in Nat
      /\ avail_entries \in Nat /\ avail_entries > 1 /\ lastread <= avail_entries
  BY BufferAssumption DEF WakeInv, RoundInv, CycleInv, SlotInv, Reliable, TypeOK
<1>1. /\ upc = "recv" /\ hpc = "none" /\ Idle /\ rcvq # <<>> /\ Head(rcvq).t = "ENTRY"
      /\ rcvq' = Tail(rcvq) /\ lastread' = lastread /\ curcount' = curcount + 1
  BY <1>0, OneCpuContexts DEF URecvEntry, Receive, recvmsg, Socket, Handling, buffer
<1>2. Answered /\ InSession
  BY <1>1 DEF Answered, InSession, Working, Resetting
<1>3. Woken /\ tracing_active = 0
  BY <1>1, AnswerRead
<1>4. AnsweredQueue
  BY <1>0, <1>2, <1>3 DEF Queue, DrainingQueue
<1>5. Head(rcvq) # Eod /\ Head(rcvq) # Wake
  BY <1>1 DEF Eod, Wake
<1>6. ASSUME NEW d \in Nat, d = lastread - Unread(rcvq), Unread(Tail(rcvq)) = Unread(rcvq) - 1,
             d < lastread, Head(rcvq) = Ent(d), curcount = 0 => d \in {0, 1}
      PROVE  \E s \in Slots :
               /\ s < lastread /\ Head(rcvq) = Ent(s) /\ tracing_active = 0 /\ InSession /\ Idle
               /\ Position = (IF curcount = 0 THEN 0 ELSE s) /\ (curcount = 0 => s \in {0, 1})
               /\ Position' = s + 1
  <2>1. d \in Slots
    BY <1>0, <1>6 DEF Slots
  <2>2. Position = (IF curcount = 0 THEN 0 ELSE d)
    BY <1>0, <1>6 DEF Position
  <2>3. Unread(rcvq) \in Nat
    BY DEF Unread, IsEntry
  <2>4. Position' = d + 1
    <3>1. Position' = lastread - Unread(Tail(rcvq))
      BY <1>0, <1>1, <1>6 DEF Position
    <3> QED BY <1>0, <1>6, <2>3, <3>1
  <2> QED BY <1>1, <1>2, <1>3, <1>6, <2>1, <2>2, <2>4
<1>7. \A s : IsEntry(Ent(s)) = 1
  BY DEF IsEntry, Ent
<1>8. IsEntry(Eod) = 0 /\ Unread(<<>>) = 0 /\ \A a, b : /\ Unread(<<a>>) = IsEntry(a)
                                                        /\ Unread(<<a, b>>) = IsEntry(a) + IsEntry(b)
  <2>1. \A a : IsEntry(a) \in Nat
    BY DEF IsEntry
  <2>2. \A a : Unread(<<a>>) = IsEntry(a)
    BY <2>1, ShortQueues DEF Unread
  <2>3. \A a, b : Unread(<<a, b>>) = IsEntry(a) + IsEntry(b)
    BY ShortQueues DEF Unread
  <2> QED BY <2>2, <2>3 DEF IsEntry, Eod, Unread
<1>9. CASE lastread > 0 /\ rcvq = <<Ent(lastread - 1)>> /\ curcount \in {lastread - 1, lastread - 2}
  <2>1. Unread(rcvq) = 1 /\ Unread(Tail(rcvq)) = 0 /\ Head(rcvq) = Ent(lastread - 1)
    BY <1>7, <1>8, <1>9, ShortQueues
  <2> QED BY <1>0, <1>6, <1>9, <2>1
<1>10. CASE lastread = avail_entries /\ rcvq = <<Ent(lastread - 1), Eod>> /\ curcount = lastread - 1
  <2>1. Unread(rcvq) = 1 /\ Unread(Tail(rcvq)) = 0 /\ Head(rcvq) = Ent(lastread - 1)
    BY <1>7, <1>8, <1>10, ShortQueues
  <2> QED BY <1>0, <1>6, <1>10, <2>1
<1>11. CASE lastread > 1 /\ rcvq = <<Ent(lastread - 2), Ent(lastread - 1)>> /\ curcount = lastread - 2
  <2>1. Unread(rcvq) = 2 /\ Unread(Tail(rcvq)) = 1 /\ Head(rcvq) = Ent(lastread - 2)
    BY <1>7, <1>8, <1>11, ShortQueues
  <2> QED BY <1>0, <1>6, <1>11, <2>1
<1> QED BY <1>4, <1>5, <1>9, <1>10, <1>11, ShortQueues DEF AnsweredQueue

LEMMA KeptStored ==
  ASSUME StoredInv, Open, Round' = Round, f' = f, Position' = Position
  PROVE  StoredInv'
<1>1. FileSlots' = FileSlots
  BY DEF FileSlots, InFile
<1> QED BY <1>1 DEF StoredInv, Last

\* What a step does to a round of which something was read.
LEMMA RoundRead ==
  ASSUME Reliable, WakeInv, [Next]_vars, Open', lastread' # 0
  PROVE  \/ Handle /\ (RequestStop \/ RequestData \/ SendEndOfData \/ SendEntry)
         \/ URequest \/ USync \/ URecvEndOfData \/ URecvWakeUp \/ URecvEntry \/ UWait
         \/ UNCHANGED vars
<1>0. OneCPU /\ TypeOK /\ NoStop /\ Paired /\ Flags /\ Reads
  BY ReliableSteps DEF WakeInv
<1>1. ASSUME NEW c \in Ctx, TraceCheck(c) \/ Trace(c), UNCHANGED uvars
      PROVE  FALSE
  <2>1. lastread' = lastread /\ (pc[c] # "idle" \/ tracing_active = 1)
    BY <1>1, TraceKeeps DEF TraceCheck
  <2> QED BY <1>0, <2>1, BufferAssumption DEF Reads, Idle, TypeOK
<1>2. CASE Handle
  <2>0. Handler /\ upc' = upc
    BY <1>2 DEF Handle, uvars
  <2>1. ~(StartReset \/ StartActive \/ trace_IDs \/ StartDone)
    BY <1>0 DEF StartReset, StartActive, trace_IDs, StartDone, Handling, Reads, buffer
  <2>2. ~(StopCmdSched \/ StopCmdActive \/ StopCmdReset)
    BY <1>0, <2>0 DEF StopCmdSched, StopCmdActive, StopCmdReset, Handling, Paired, Open
  <2>3. ~(SyncReset \/ SyncSched \/ SyncActive)
    BY <1>0 DEF SyncReset, SyncSched, SyncActive, Handling, Reads, Flags, ResetLastread, buffer
  <2>4. ~(SendStop \/ RequestClear)
    BY <1>0 DEF SendStop, RequestClear, Handling, Paired
  <2> QED BY <1>2, <2>0, <2>1, <2>2, <2>3, <2>4 DEF Handler
<1>3. CASE UStart \/ usnl
  <2>0. lastread' = lastread /\ Idle /\ hpc = "none"
    BY <1>0, <1>3, UserKeeps, OneCpuContexts DEF buffer, Handling
  <2>1. ~(UStart \/ UStartTracing \/ UStopTracing \/ UClose)
    BY <1>0, <2>0 DEF UStart, UStartTracing, UStopTracing, UClose, Reads, Open
  <2>2. ~URecvStop
    BY <2>0, AnswerRead DEF URecvStop, Receive
  <2> QED BY <1>3, <2>1, <2>2 DEF usnl
<1> QED BY <1>1, <1>2, <1>3, ReliableSteps

LEMMA StoredStep ==
  ASSUME Reliable, DrainInv, [Next]_vars, FileInv'
  PROVE  StoredInv'
<1> SUFFICES ASSUME Open'
             PROVE  StoredInv'
  BY DEF StoredInv
<1>0. /\ WakeInv /\ FileInv /\ StoredInv /\ TypeOK /\ CycleOrder /\ Queue /\ OneCPU /\ Paired
      /\ curcount \in Nat /\ lastread \in Nat /\ f \in Seq(Msg) /\ rcvq \in Seq(Msg)
      /\ avail_entries \in Nat /\ lastread <= avail_entries
  <2>1. WakeInv /\ FileInv /\ StoredInv
    BY DEF DrainInv
  <2>2. f \in Seq(Msg) /\ rcvq \in Seq(Msg)
    BY <2>1 DEF FileInv, StreamInv, Stream
  <2>3. TypeOK /\ CycleOrder /\ Queue /\ OneCPU /\ Paired /\ curcount \in Nat
    BY <2>1 DEF WakeInv, RoundInv, CycleInv, SlotInv, Reliable
  <2> QED BY <2>1, <2>2, <2>3, BufferAssumption DEF TypeOK
<1>1. CASE lastread' = 0
  <2>1. (FileInv /\ lastread = 0 => FileSlots = {})'
    BY NothingStored, PTL
  <2>2. FileSlots' = {} /\ Position' = 0
    BY <1>1, <2>1 DEF Position
  <2> QED BY <2>2, BufferAssumption DEF StoredInv, Last
<1>2. CASE lastread' # 0
  <2>1. CASE Handle /\ (RequestStop \/ RequestData \/ SendEndOfData \/ SendEntry)
    <3>1. /\ upc = "recv" /\ hpc \in {"req1", "req2", "sendeod", "sendentry"}
          /\ upc' = upc /\ f' = f /\ curcount' = curcount /\ UNCHANGED <<entries, epoch>>
      BY <1>0, <2>1 DEF RequestStop, RequestData, SendEndOfData, SendEntry, Handling, Paired, Handle,
         uvars, buffer
    <3>2. Open /\ InSession /\ Asking /\ Round' = Round
      BY <3>1, SameRound DEF Open, InSession, Working, Resetting, Asking
    <3>3. Unread(rcvq) \in Nat
      BY DEF Unread, IsEntry
    <3>4. rcvq = <<>> \/ \E a : rcvq = <<a>>
      BY <1>0, <3>2, QueueLengths
    <3>5. CASE RequestStop \/ RequestData
      <4>1. lastread' = lastread /\ rcvq' = rcvq
        BY <3>5 DEF RequestStop, RequestData, buffer, channel
      <4>2. Position' = Position
        BY <3>1, <4>1 DEF Position
      <4> QED BY <1>0, <3>1, <3>2, <4>2, KeptStored
    <3>6. CASE SendEndOfData
      <4>1. lastread' = lastread /\ rcvq' = Append(rcvq, Eod)
        BY <1>0, <3>1, <3>6, Delivered DEF SendEndOfData, EndOfData, Eod, buffer, WakeInv
      <4>2. IsEntry(Eod) = 0
        BY DEF IsEntry, Eod
      <4>3. Unread(Append(rcvq, Eod)) = Unread(rcvq)
        BY <3>3, <3>4, <4>2, UnreadSend
      <4>4. Position' = Position
        BY <3>1, <4>1, <4>3 DEF Position
      <4> QED BY <1>0, <3>1, <3>2, <4>4, KeptStored
    <3>7. CASE SendEntry
      <4>1. lastread' = lastread + 1 /\ rcvq' = Append(rcvq, Ent(lastread))
        BY <1>0, <3>1, <3>7, Delivered DEF SendEntry, Ent, WakeInv
      <4>2. IsEntry(Ent(lastread)) = 1
        BY DEF IsEntry, Ent
      <4>3. Unread(Append(rcvq, Ent(lastread))) = Unread(rcvq) + 1
        BY <3>4, <4>2, UnreadSend
      <4>4. lastread = 0 => curcount = 0
        <5>1. CASE Woken
          BY <1>0, <3>2, <5>1 DEF Queue, DrainingQueue, AskingQueue
        <5>2. CASE ~Woken
          BY <1>0, <3>2, <5>2 DEF Queue, RecordingQueue
        <5> QED BY <5>1, <5>2
      <4>5. Unread(rcvq') = Unread(rcvq) + 1
        BY <4>1, <4>3
      <4>6. Position' = Position
        <5>1. CASE curcount = 0
          BY <3>1, <5>1 DEF Position
        <5>2. CASE curcount # 0
          <6>1. Position = lastread - Unread(rcvq) /\ Position' = lastread' - Unread(rcvq')
            BY <1>2, <3>1, <4>4, <5>2 DEF Position
          <6> QED BY <1>0, <3>3, <4>1, <4>5, <6>1
        <5> QED BY <5>1, <5>2
      <4> QED BY <1>0, <3>1, <3>2, <4>6, KeptStored
    <3> QED BY <2>1, <3>5, <3>6, <3>7
  <2>2. CASE URequest \/ USync \/ UNCHANGED vars
    <3>1. UNCHANGED <<curcount, rcvq, f, lastread, entries, epoch>>
      BY <2>2 DEF URequest, USync, nl_rcv_func, vars, kvars, uvars, buffer, channel
    <3>2. Open
      BY <2>2 DEF URequest, USync, nl_rcv_func, Handling, vars, kvars, uvars, handler, Open
    <3>3. Position' = Position /\ Round' = Round
      BY <3>1, <3>2, SameRound DEF Position
    <3> QED BY <1>0, <3>1, <3>2, <3>3, KeptStored
  <2>3. CASE URecvEndOfData \/ URecvWakeUp \/ URecvEntry \/ UWait
    <3>1. /\ upc \in {"recv", "wait"} /\ hpc = "none" /\ rcvq # <<>> /\ rcvq' = Tail(rcvq) /\ Idle
          /\ UNCHANGED <<lastread, entries, epoch>>
      BY <1>0, <2>3, OneCpuContexts DEF URecvEndOfData, URecvWakeUp, URecvEntry, UWait, Receive, recvmsg,
         Socket, Handling, buffer
    <3>2. Open /\ InSession /\ Round' = Round
      BY <3>1, SameRound DEF Open, InSession, Working, Resetting
    <3>3. Unread(rcvq) = Unread(rcvq') + IsEntry(Head(rcvq))
      BY <1>0, <3>1, <3>2, QueueLengths, UnreadRead DEF Answered
    <3>4. Unread(rcvq') \in Nat
      BY DEF Unread, IsEntry
    <3>5. CASE URecvWakeUp \/ URecvEndOfData
      <4>1. curcount' = curcount /\ IsEntry(Head(rcvq)) = 0
        BY <3>5 DEF URecvWakeUp, URecvEndOfData, Receive, IsEntry
      <4>2. Position' = Position
        BY <3>1, <3>3, <3>4, <4>1 DEF Position
      <4>3. CASE URecvWakeUp
        BY <1>0, <3>2, <4>2, <4>3, KeptStored DEF URecvWakeUp
      <4>4. CASE URecvEndOfData
        <5>1. f' = Append(f, Head(rcvq)) /\ Head(rcvq).t = "END_OF_DATA" /\ Head(rcvq) \in Msg
          BY <1>0, <3>1, <4>4 DEF URecvEndOfData, Receive
        <5>2. \A s \in Slots : InFile(s)' <=> InFile(s)
          <6> DEFINE m == Head(rcvq)
          <6> HIDE DEF m
          <6>1. m \in Msg /\ f' = Append(f, m) /\ m.t = "END_OF_DATA"
            BY <5>1 DEF m
          <6> QED BY <1>0, <3>2, <6>1, FileAppend
        <5>3. FileSlots' = FileSlots
          BY <5>2 DEF FileSlots
        <5> QED BY <1>0, <3>2, <4>2, <5>3 DEF StoredInv, Last
      <4> QED BY <3>5, <4>3, <4>4
    <3>6. CASE UWait
      <4>1. upc = "wait" /\ curcount' = 0 /\ f' = f
        BY <3>6 DEF UWait
      <4>2. lastread = 0 \/ curcount = 0
        <5>1. CASE Woken
          BY <1>0, <3>1, <3>2, <4>1, <5>1 DEF Queue, DrainingQueue, WaitQueue
        <5>2. CASE ~Woken
          BY <1>0, <3>2, <5>2 DEF Queue, RecordingQueue
        <5> QED BY <5>1, <5>2
      <4>3. Position' = Position
        BY <4>1, <4>2 DEF Position
      <4> QED BY <1>0, <3>2, <4>1, <4>3, KeptStored
    <3>7. CASE URecvEntry
      <4>1. PICK d \in Slots :
              /\ d < lastread /\ Head(rcvq) = Ent(d) /\ tracing_active = 0
              /\ Position = (IF curcount = 0 THEN 0 ELSE d) /\ Position' = d + 1
        BY <1>0, <3>7, EntryRead
      <4>2. /\ entries[d] \in Entry /\ Round[d] = entries[d] /\ Round[d] # Garbage
        BY <1>0, <3>1, <3>2, <4>1, FullRound
      <4>3. f' = Append(f, Ent(d)) /\ Ent(d) \in Msg
        BY <3>7, <4>1, <4>2 DEF URecvEntry, Msg, Ent
      <4>4. \A s \in Slots : InFile(s)' <=> InFile(s) \/ (Round[s] # Garbage /\ Ent(d) = [t |-> "ENTRY", e |-> Round[s]])
        <5> DEFINE m == Ent(d)
        <5> HIDE DEF m
        <5>1. m \in Msg /\ f' = Append(f, m)
          BY <4>3 DEF m
        <5>2. \A s \in Slots : InFile(s)' <=> InFile(s) \/ (Round[s] # Garbage /\ m = [t |-> "ENTRY", e |-> Round[s]])
          BY <1>0, <3>2, <5>1, FileAppend
        <5> QED BY <5>2 DEF m
      <4>5. d \in Nat /\ d + 1 \in 0 .. avail_entries
        BY <1>0, BufferAssumption DEF Slots
      <4>6. InFile(d)'
        BY <4>2, <4>4 DEF Ent
      <4>7. ASSUME NEW s \in Slots, InFile(s)'
            PROVE  s < d + 1
        <5>0. s \in Nat
          BY BufferAssumption DEF Slots
        <5>1. CASE InFile(s)
          <6>1. s \in FileSlots
            BY <5>1 DEF FileSlots
          <6>2. s < Position
            BY <1>0, <3>2, <6>1 DEF StoredInv, Last
          <6> QED BY <4>1, <4>5, <5>0, <6>2
        <5>2. CASE Round[s] # Garbage /\ Ent(d) = [t |-> "ENTRY", e |-> Round[s]]
          <6>1. Round[s] = entries[d]
            BY <5>2 DEF Ent
          <6>2. entries[s] = entries[d] /\ entries[d] # Garbage
            BY <1>0, <3>1, <3>2, <4>1, <4>2, <6>1, FullRound
          <6>3. entries[d].cyc \in Nat
            BY <4>2 DEF Entry
          <6>4. ~(d < s)
            BY <1>0, <6>2, <6>3 DEF CycleOrder
          <6> QED BY <4>5, <5>0, <6>4
        <5> QED BY <4>4, <4>7, <5>1, <5>2
      <4>8. d \in FileSlots' /\ \A s \in FileSlots' : s < d + 1
        BY <4>6, <4>7 DEF FileSlots
      <4>9. Position' > 0 => Position' - 1 = d
        BY <4>1, <4>5
      <4> QED BY <4>1, <4>5, <4>8, <4>9 DEF StoredInv, Last
    <3> QED BY <2>3, <3>5, <3>6, <3>7
  <2> QED BY <1>0, <1>2, <2>1, <2>2, <2>3, RoundRead
<1> QED BY <1>1, <1>2

LEMMA DrainStep == Reliable /\ DrainInv /\ [Next]_vars => DrainInv'
<1> SUFFICES ASSUME Reliable, DrainInv, [Next]_vars
             PROVE  DrainInv'
  OBVIOUS
<1>1. WakeInv' /\ FileInv'
  BY WakeStep, FileStep DEF DrainInv, Reliable
<1> QED BY <1>1, StoredStep DEF DrainInv

LEMMA DrainInit == Init => DrainInv
BY WakeInit, FileInit DEF DrainInv, StoredInv, Open, Init

\* A round without entries.
LEMMA ClosedRound == ~Open => Round = [s \in Slots |-> Garbage]
BY DEF Round

LEMMA NewRound ==
  ASSUME TypeOK, DrawnSince, entries' = entries, epoch' = epoch + 1
  PROVE  Round' = [s \in Slots |-> Garbage]
<1>1. ASSUME NEW s \in Slots, entries[s] # Garbage
      PROVE  entries[s].epo # epoch + 1
  <2>1. entries[s] \in Entry
    BY <1>1 DEF TypeOK
  <2>2. entries[s].epo \in Nat /\ epoch \in Nat
    BY <2>1 DEF TypeOK, Entry
  <2>3. entries[s].epo <= epoch
    BY <1>1 DEF DrawnSince
  <2> QED BY <2>2, <2>3
<1> QED BY <1>1 DEF Round

LEMMA SameStored ==
  ASSUME FileInv, StoredInv, FileInv', StoredInv', Open' <=> Open, FileSlots' = FileSlots
  PROVE  Stored' = Stored
<1>1. Stored = IF Open THEN Position ELSE 0
  BY StoredIs
<1>2. (FileInv /\ StoredInv => Stored = IF Open THEN Position ELSE 0)'
  BY StoredIs, PTL
<1>3. CASE Open
  <2>1. Last(FileSlots, Position) /\ Last(FileSlots, Position')
    BY <1>3 DEF StoredInv, Last
  <2>2. FileSlots \subseteq Slots
    BY DEF FileSlots
  <2> QED BY <1>1, <1>2, <1>3, <2>1, <2>2, LastUnique
<1>4. CASE ~Open
  BY <1>1, <1>2, <1>4
<1> QED BY <1>3, <1>4

\* A step that DrainCycle does not see.
LEMMA Unseen ==
  ASSUME FileInv, StoredInv, FileInv', StoredInv', Open' <=> Open, Round' = Round, f' = f,
         Open => lastread' = lastread
  PROVE  UNCHANGED Rounds!cvars
<1>1. FileSlots' = FileSlots
  BY DEF FileSlots, InFile
<1>2. Stored' = Stored
  BY <1>1, SameStored
<1>3. Open' = Open /\ (IF Open THEN lastread ELSE 0)' = (IF Open THEN lastread ELSE 0)
  BY DEF Open
<1> QED BY <1>2, <1>3 DEF Rounds!cvars

\* A context that writes its entry records it; the other steps of trace_entry()
\* are not seen.
LEMMA RoundsTrace ==
  ASSUME Reliable, DrainInv, DrainInv', NEW c \in Ctx, TraceCheck(c) \/ Trace(c), UNCHANGED uvars
  PROVE  [Rounds!Next]_(Rounds!cvars)
<1>0. /\ WakeInv /\ FileInv /\ StoredInv /\ FileInv' /\ StoredInv' /\ TypeOK /\ Flags /\ Reads
      /\ WriteInBounds /\ SlotExclusive /\ ThisRound
  BY DEF DrainInv, WakeInv, RoundInv, CycleInv, SlotInv
<1>1. /\ UNCHANGED <<upc, hpc, f, lastread, epoch>> /\ (pc[c] # "idle" \/ tracing_active = 1)
      /\ Write(c) \/ UNCHANGED entries
  BY TraceKeeps DEF TraceCheck
<1>2. Open /\ Open' /\ lastread = 0
  BY <1>0, <1>1, BufferAssumption DEF Flags, Reads, Idle, TypeOK, InSession, Open, Working, Resetting
<1>3. CASE ~Write(c)
  <2>1. Round' = Round
    BY <1>1, <1>2, <1>3, SameRound
  <2> QED BY <1>0, <1>1, <1>2, <2>1, Unseen
<1>4. CASE Write(c)
  <2> DEFINE s == slot[c] - 1
  <2>1. /\ pc[c] = "write" /\ epo[c] = epoch /\ slot[c] \in 1 .. avail_entries
        /\ entries[s] # Garbage => entries[s].epo # epoch
    BY <1>0, <1>4 DEF Write, ThisRound, WriteInBounds, SlotExclusive, Holds
  <2>2. s \in Slots
    BY <2>1, BufferAssumption DEF Slots
  <2>3. PICK k \in Kinds \cup {"id"} : entries' = [entries EXCEPT ![s] =
               [cpu |-> CpuOf(c), cyc |-> cyc[c], kind |-> k, epo |-> epo[c]]]
    BY <1>4 DEF Write
  <2> DEFINE x == [cpu |-> CpuOf(c), cyc |-> cyc[c], kind |-> k, epo |-> epo[c]]
  <2>4. x \in Entry /\ x.epo = epoch
    BY <1>0, <2>1, CtxFacts DEF TypeOK, Entry
  <2>5. x # Garbage
    BY <2>4, GarbageAssumption
  <2> HIDE DEF s, x
  <2>6. entries' = [entries EXCEPT ![s] = x] /\ entries \in [Slots -> Entry \cup {Garbage}]
    BY <1>0, <2>3 DEF s, x, TypeOK
  <2>7. Round[s] = Garbage
    BY <2>1, <2>2 DEF Round, s
  <2>8. Round'[s] = x
    BY <1>1, <1>2, <2>2, <2>4, <2>5, <2>6 DEF Round
  <2>9. Round' = [Round EXCEPT ![s] = x]
    BY <1>1, <1>2, <2>2, <2>4, <2>5, <2>6 DEF Round
  <2>10. FileSlots = {} /\ FileSlots' = {}
    <3>1. (FileInv /\ lastread = 0 => FileSlots = {})'
      BY NothingStored, PTL
    <3> QED BY <1>0, <1>1, <1>2, <3>1, NothingStored
  <2>11. Stored' = Stored
    BY <1>0, <1>2, <2>10, SameStored
  <2>12. Rounds!Record(s)
    BY <1>1, <1>2, <2>4, <2>7, <2>8, <2>9, <2>11 DEF Rounds!Record
  <2> QED BY <2>2, <2>12 DEF Rounds!Next, Rounds!Slots, Slots
<1> QED BY <1>3, <1>4

LEMMA RoundsHandle ==
  ASSUME Reliable, DrainInv, DrainInv', Handle
  PROVE  [Rounds!Next]_(Rounds!cvars)
<1>0. /\ WakeInv /\ RoundInv /\ FileInv /\ StoredInv /\ FileInv' /\ StoredInv' /\ TypeOK /\ DrawnSince
      /\ Paired /\ NoStop /\ Flags /\ Reads /\ Queue /\ OneCPU /\ OffWhenFull
  BY DEF DrainInv, WakeInv, RoundInv, CycleInv, SlotInv, Reliable
<1>1. /\ Handler /\ UNCHANGED <<upc, f, curcount, entries>> /\ Idle
  BY <1>0, HandlerKeeps, OneCpuContexts DEF Handle, uvars
<1>2. Stored = (IF Open THEN Position ELSE 0)
  BY <1>0, StoredIs
<1>3. (FileInv /\ StoredInv => Stored = IF Open THEN Position ELSE 0)'
  BY StoredIs, PTL
<1>4. CASE StopCmdSched \/ StopCmdActive \/ StopCmdReset
  <2>1. ~Open /\ ~Open'
    BY <1>0, <1>1, <1>4 DEF StopCmdSched, StopCmdActive, StopCmdReset, Handling, Paired, Open
  <2>2. Round' = Round
    BY <2>1 DEF Round
  <2> QED BY <1>0, <1>1, <2>1, <2>2, Unseen
<1>5. CASE StartReset
  <2>1. /\ ~Open /\ Open' /\ hpc = "start1" /\ lastread' = lastread /\ epoch' = epoch + 1
    BY <1>0, <1>1, <1>5 DEF StartReset, Handling, Paired, Open, ResetLastentry
  <2>2. lastread = 0
    BY <1>0, <2>1 DEF Reads
  <2>3. Round' = Round
    BY <1>0, <1>1, <2>1, ClosedRound, NewRound
  <2>4. Stored = 0 /\ Stored' = 0
    BY <1>0, <1>2, <1>3, <2>1, <2>2 DEF Position
  <2>5. Rounds!Begin
    BY <1>1, <2>1, <2>2, <2>3, <2>4 DEF Rounds!Begin, Open
  <2> QED BY <2>5 DEF Rounds!Next
<1>6. CASE StartActive \/ trace_IDs \/ StartDone \/ SyncSched \/ SyncActive \/ RequestStop \/ RequestData
           \/ SendEndOfData
  <2>1. UNCHANGED <<lastread, epoch>> /\ hpc # "start1" /\ hpc' # "start1"
    BY <1>6 DEF StartActive, trace_IDs, StartDone, SyncSched, SyncActive, RequestStop, RequestData,
       SendEndOfData, Handling, buffer
  <2>2. Open' <=> Open
    BY <1>1, <2>1 DEF Open
  <2>3. Round' = Round
    BY <1>1, <2>1, <2>2, SameRound
  <2> QED BY <1>0, <1>1, <2>1, <2>2, <2>3, Unseen
<1>7. CASE SendEntry
  <2>1. /\ Open /\ Open' /\ lastread' = lastread + 1 /\ epoch' = epoch
    BY <1>0, <1>1, <1>7 DEF SendEntry, Handling, Paired, Open
  <2>2. /\ lastread \in Slots /\ entries[lastread] # Garbage /\ entries[lastread].epo = epoch
    BY <1>0, <1>7, SentEntry
  <2>3. Round[lastread] # Garbage /\ Round' = Round /\ lastread < avail_entries
    BY <1>0, <1>1, <2>1, <2>2, RoundSlots, SameRound, BufferAssumption DEF Slots
  <2>4. FileSlots' = FileSlots
    BY <1>1, <2>3 DEF FileSlots, InFile
  <2>5. Stored' = Stored
    BY <1>0, <2>1, <2>4, SameStored
  <2>6. Rounds!Send
    BY <1>1, <2>1, <2>3, <2>5 DEF Rounds!Send, Open
  <2> QED BY <2>6 DEF Rounds!Next
<1>8. CASE SyncReset
  <2>1. hpc = "sync1" /\ upc = "wait" /\ tracing_active = 0 /\ InSession
    BY <1>0, <1>8 DEF SyncReset, Handling, Paired, Flags, InSession, Working, Resetting
  <2>2. hpc' = "sync2" /\ lastread' = 0 /\ epoch' = epoch + 1
    BY <1>8, <2>1 DEF SyncReset, ResetLastread, ResetLastentry
  <2>3. Open /\ Open'
    BY <1>1, <2>1, <2>2 DEF Open
  <2>4. SyncQueue
    BY <1>0, <1>1, <2>1, OffIsWoken DEF Queue, DrainingQueue
  <2>5. Unread(rcvq) = 0
    BY <2>4, ShortQueues DEF SyncQueue, Unread, IsEntry, Eod
  <2>6. Position = avail_entries
    BY <2>4, <2>5, BufferAssumption DEF Reliable, SyncQueue, Position
  <2>7. Stored = avail_entries /\ Stored' = 0
    BY <1>0, <1>2, <1>3, <2>2, <2>3, <2>6 DEF Position
  <2>8. Round' = [s \in Slots |-> Garbage]
    BY <1>0, <1>1, <2>2, NewRound
  <2>9. Rounds!Restart
    BY <1>1, <2>2, <2>3, <2>7, <2>8
       DEF Rounds!Restart, Rounds!NoRound, Rounds!Empty, Rounds!Slots, Slots, Open
  <2> QED BY <2>9 DEF Rounds!Next
<1>9. ~SendStop /\ ~RequestClear
  BY <1>0 DEF SendStop, RequestClear, Handling, Paired
<1> QED BY <1>1, <1>4, <1>5, <1>6, <1>7, <1>8, <1>9 DEF Handler

\* usnl reads END_OF_DATA before it stored any of the round, or after all of it.
LEMMA MarkBetween ==
  ASSUME Reliable, WakeInv, URecvEndOfData
  PROVE  Position \in {0, avail_entries}
<1>0. /\ TypeOK /\ Queue /\ OneCPU /\ curcount \in Nat /\ avail_entries \in Nat /\ avail_entries > 1
  BY BufferAssumption DEF WakeInv, RoundInv, CycleInv, SlotInv, Reliable
<1>1. /\ upc = "recv" /\ hpc = "none" /\ Head(rcvq).t = "END_OF_DATA"
  BY DEF URecvEndOfData, Receive, recvmsg, Socket, Handling
<1>2. Answered /\ InSession
  BY <1>1 DEF Answered, InSession, Working, Resetting
<1>3. CASE ~Woken
  BY <1>0, <1>2, <1>3 DEF Queue, RecordingQueue, Position
<1>4. CASE Woken
  <2>1. AnsweredQueue
    BY <1>0, <1>2, <1>4 DEF Queue, DrainingQueue
  <2>2. Head(rcvq) # Wake /\ \A s : Head(rcvq) # Ent(s)
    BY <1>1 DEF Wake, Ent
  <2>3. \/ lastread = avail_entries /\ rcvq \in {<<Eod>>, <<Eod, Eod>>}
        \/ lastread = 0 \/ curcount = 0
    BY <2>1, <2>2, ShortQueues DEF AnsweredQueue
  <2>4. rcvq \in {<<Eod>>, <<Eod, Eod>>} => Unread(rcvq) = 0
    BY ShortQueues DEF Unread, IsEntry, Eod
  <2> QED BY <1>0, <2>3, <2>4 DEF Position
<1> QED BY <1>3, <1>4

LEMMA RoundsUser ==
  ASSUME Reliable, DrainInv, DrainInv', UStart \/ usnl
  PROVE  [Rounds!Next]_(Rounds!cvars)
<1>0. /\ WakeInv /\ FileInv /\ StoredInv /\ FileInv' /\ StoredInv' /\ TypeOK /\ OneCPU
      /\ f \in Seq(Msg) /\ rcvq \in Seq(Msg)
  <2>1. WakeInv /\ FileInv /\ StoredInv /\ FileInv' /\ StoredInv' /\ OneCPU
    BY DEF DrainInv, Reliable
  <2>2. TypeOK
    BY <2>1 DEF WakeInv, RoundInv, CycleInv, SlotInv
  <2> QED BY <2>1, <2>2 DEF FileInv, StreamInv, Stream
<1>1. UNCHANGED <<entries, epoch, lastread>> /\ hpc = "none" /\ Idle
  BY <1>0, UserKeeps, OneCpuContexts DEF buffer, Handling
<1>2. Stored = (IF Open THEN Position ELSE 0)
  BY <1>0, StoredIs
<1>3. (FileInv /\ StoredInv => Stored = IF Open THEN Position ELSE 0)'
  BY StoredIs, PTL
<1>4. CASE UStart \/ UClose
  <2>1. ~Open /\ ~Open' /\ f' = f
    BY <1>4 DEF UStart, UClose, Open
  <2>2. Round' = Round
    BY <2>1 DEF Round
  <2> QED BY <1>0, <2>1, <2>2, Unseen
<1>5. CASE UStartTracing
  <2>1. ~Open /\ ~Open' /\ f' = <<>>
    BY <1>5 DEF UStartTracing, nl_rcv_func, FirstStep, Open
  <2>2. Round' = Round
    BY <2>1 DEF Round
  <2>3. Stored' = Stored
    BY <1>0, <1>2, <1>3, <2>1
  <2>4. Rounds!Truncate
    BY <2>1, <2>2, <2>3 DEF Rounds!Truncate, Open
  <2> QED BY <2>4 DEF Rounds!Next
<1>6. CASE URequest \/ USync \/ URecvWakeUp \/ UWait
  <2>1. Open /\ Open' /\ f' = f
    BY <1>1, <1>6 DEF URequest, USync, URecvWakeUp, UWait, Receive, recvmsg, Socket, nl_rcv_func,
       FirstStep, handler, Open
  <2>2. Round' = Round
    BY <1>1, <2>1, SameRound
  <2> QED BY <1>0, <1>1, <2>1, <2>2, Unseen
<1>7. CASE URecvEndOfData
  <2>1. /\ Open /\ Open' /\ Head(rcvq).t = "END_OF_DATA" /\ rcvq # <<>> /\ f' = Append(f, Head(rcvq))
    BY <1>1, <1>7 DEF URecvEndOfData, Receive, recvmsg, Socket, handler, Open
  <2>2. Head(rcvq) \in Msg
    BY <1>0, <2>1
  <2>3. Head(rcvq) = [t |-> "END_OF_DATA"]
    BY <2>1, <2>2 DEF Msg
  <2>4. Round' = Round
    BY <1>1, <2>1, SameRound
  <2> DEFINE m == [t |-> "END_OF_DATA"]
  <2>5. m \in Msg /\ f' = Append(f, m) /\ (\A x : m # [t |-> "ENTRY", e |-> x])
    BY <2>1, <2>2, <2>3
  <2>6. FileSlots' = FileSlots
    <3> HIDE DEF m
    <3>1. \A s \in Slots : InFile(s)' <=> InFile(s)
      BY <1>0, <2>4, <2>5, FileAppend
    <3> QED BY <3>1 DEF FileSlots
  <2>7. Stored' = Stored
    BY <1>0, <2>1, <2>6, SameStored
  <2>8. Stored \in {0, avail_entries}
    BY <1>0, <1>2, <1>7, <2>1, MarkBetween
  <2>9. Rounds!Mark
    BY <1>1, <2>1, <2>4, <2>5, <2>7, <2>8 DEF Rounds!Mark, Open
  <2> QED BY <2>9 DEF Rounds!Next
<1>8. CASE URecvEntry
  <2>1. PICK d \in Slots :
          /\ d < lastread /\ Head(rcvq) = Ent(d) /\ tracing_active = 0 /\ InSession
          /\ Position = (IF curcount = 0 THEN 0 ELSE d) /\ (curcount = 0 => d \in {0, 1})
          /\ Position' = d + 1
    BY <1>0, <1>8, EntryRead
  <2>2. Open /\ Round[d] = entries[d]
    BY <1>0, <1>1, <2>1, FullRound
  <2>3. Open' /\ f' = Append(f, [t |-> "ENTRY", e |-> Round[d]])
    BY <1>1, <1>8, <2>1, <2>2 DEF URecvEntry, Receive, recvmsg, Socket, handler, Open, Ent
  <2>4. Round' = Round
    BY <1>1, <2>2, <2>3, SameRound
  <2>5. Stored = Position /\ Stored' = d + 1
    BY <1>0, <1>2, <1>3, <2>1, <2>2, <2>3
  <2>6. d = Stored \/ (Stored = 0 /\ d = 1)
    BY <2>1, <2>5
  <2>7. Rounds!Store(d)
    BY <1>1, <2>1, <2>2, <2>3, <2>4, <2>5, <2>6 DEF Rounds!Store, Open
  <2> QED BY <2>7 DEF Rounds!Next, Rounds!Slots, Slots
<1>9. CASE UStopTracing
  <2>1. Open /\ ~Open' /\ f' = f
    BY <1>1, <1>9 DEF UStopTracing, Open
  <2>2. Round' = [s \in Slots |-> Garbage]
    BY <2>1 DEF Round
  <2>3. Stored' = 0
    BY <1>0, <1>3, <2>1
  <2>4. Rounds!End
    BY <2>1, <2>2, <2>3 DEF Rounds!End, Rounds!NoRound, Rounds!Empty, Rounds!Slots, Slots, Open
  <2> QED BY <2>4 DEF Rounds!Next
<1>10. ~URecvStop
  BY <1>0, <1>1, AnswerRead DEF URecvStop, Receive
<1> QED BY <1>4, <1>5, <1>6, <1>7, <1>8, <1>9, <1>10 DEF usnl

LEMMA RoundsStep ==
  Reliable /\ DrainInv /\ DrainInv' /\ [Next]_vars => [Rounds!Next]_(Rounds!cvars)
<1> SUFFICES ASSUME Reliable, DrainInv, DrainInv', [Next]_vars
             PROVE  [Rounds!Next]_(Rounds!cvars)
  OBVIOUS
<1>0. WakeInv /\ FileInv /\ StoredInv /\ FileInv' /\ StoredInv'
  BY DEF DrainInv
<1>1. CASE UNCHANGED vars
  <2>1. UNCHANGED <<upc, hpc, f, entries, epoch, lastread>>
    BY <1>1 DEF vars, kvars, uvars, handler, buffer
  <2>2. Open' <=> Open
    BY <2>1 DEF Open
  <2>3. Round' = Round
    BY <2>1, <2>2, SameRound
  <2> QED BY <1>0, <2>1, <2>2, <2>3, Unseen
<1> QED BY <1>0, <1>1, ReliableSteps, RoundsTrace, RoundsHandle, RoundsUser

LEMMA RoundsInit == Init => Rounds!Init
<1> SUFFICES ASSUME Init
             PROVE  Rounds!Init
  OBVIOUS
<1>1. ~Open /\ f = <<>>
  BY DEF Init, Open
<1>2. FileInv /\ StoredInv
  BY DrainInit DEF DrainInv
<1>3. Stored = 0
  BY <1>1, <1>2, StoredIs
<1>4. Round = [s \in Slots |-> Garbage]
  BY <1>1, ClosedRound
<1> QED BY <1>1, <1>3, <1>4 DEF Rounds!Init, Rounds!Empty, Rounds!Slots, Slots, Open

\* On one CPU, when no message is lost and the buffer has more than one slot,
\* the file is a sequence of rounds: the tracer and usnl implement DrainCycle.
THEOREM SystemDrainsRounds ==
  ASSUME Reliable
  PROVE  Spec => DrainRounds
<1>1. Reliable
  OBVIOUS
<1>2. DrainInv /\ [Next]_vars => DrainInv'
  BY <1>1, DrainStep
<1>3. DrainInv /\ DrainInv' /\ [Next]_vars => [Rounds!Next]_(Rounds!cvars)
  BY <1>1, RoundsStep
<1> QED BY <1>2, <1>3, DrainInit, RoundsInit, PTL DEF Spec, DrainRounds, Rounds!Spec
=============================================================================
