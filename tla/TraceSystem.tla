---------------------------- MODULE TraceSystem ----------------------------
(***************************************************************************)
(* The tracer of SepextTrace together with its one real client: usnl.c,    *)
(* the program on the phone that drains the buffer into /sdcard/trace.out, *)
(* and experiment.sh, which starts it and stops it through                 *)
(* /proc/sepextcmd.  usnl may be killed at any time.                       *)
(*                                                                         *)
(* usnl has one thread, which alternates between its own steps (upc) and   *)
(* the kernel's nl_rcv_func() (hpc), entered by each sendmsg().            *)
(***************************************************************************)
EXTENDS SepextTrace

CONSTANTS
  ToObtain,    \* samples of the service given on the command line; 0: none
  MaxSessions, \* bound: runs of usnl
  MaxKills,    \* bound: runs of usnl ended by SIGKILL
  StrayStops   \* TRUE: SEPEXT_STOP may come when no session waits for one

ASSUME ClientAssumption ==
  /\ {ToObtain, MaxSessions, MaxKills} \subseteq Nat
  /\ StrayStops \in BOOLEAN

VARIABLES
  upc,       \* where usnl's main() is
  curcount,  \* entries received since the last END_OF_DATA
  inservice, \* an entry of the service was seen, its exit not yet
  outcount,  \* exits counted
  f,         \* trace.out: the entries and EOD lines written
  sessions,  \* runs of usnl so far; also their pids
  kills      \* SIGKILLs so far

uvars == <<upc, curcount, inservice, outcount, f, sessions, kills>>
vars == <<kvars, uvars>>
-----------------------------------------------------------------------------
(* main() of usnl.c                                                        *)

\* A new process: its socket is bound to its pid.
UStart ==
  /\ upc = "off"
  /\ sessions < MaxSessions
  /\ sessions' = sessions + 1
  /\ sock' = sessions + 1
  /\ bind
  /\ upc' = "start"
  /\ curcount' = 0
  /\ inservice' = FALSE
  /\ outcount' = 0
  /\ UNCHANGED <<f, kills>>

\* sendmsg(START_TRACING), then the file is truncated.
UStartTracing ==
  /\ upc = "start"
  /\ nl_rcv_func("START_TRACING")
  /\ upc' = "loop"
  /\ f' = <<>>
  /\ UNCHANGED <<curcount, inservice, outcount, sessions, kills>>

\* The top of the loop: sendmsg(REQUEST_ENTRY).  totcount is never
\* incremented, so the loop condition totcount < TO_OBTAIN always holds.
URequest ==
  /\ upc = "loop"
  /\ nl_rcv_func("REQUEST_ENTRY")
  /\ upc' = "recv"
  /\ UNCHANGED <<curcount, inservice, outcount, f, sessions, kills>>

\* The answer, or whatever was queued before it.
Receive(t) == upc = "recv" /\ recvmsg /\ Head(rcvq).t = t

URecvStop ==
  /\ Receive("STOP_TRACING")
  /\ upc' = "bye"
  /\ UNCHANGED <<curcount, inservice, outcount, f, sessions, kills>>

URecvEndOfData ==
  /\ Receive("END_OF_DATA")
  /\ f' = Append(f, Head(rcvq))
  /\ upc' = IF curcount > 0 THEN "sync" ELSE "wait"
  /\ UNCHANGED <<curcount, inservice, outcount, sessions, kills>>

URecvWakeUp ==
  /\ Receive("WAKE_UP_USNL")
  /\ upc' = "loop"
  /\ UNCHANGED <<curcount, inservice, outcount, f, sessions, kills>>

\* How an entry moves the service counters: an exit without its entry is
\* not counted.
Kind(e) == IF e = Garbage THEN "other" ELSE e.kind
InService(e) == IF Kind(e) = "entry" THEN TRUE
                ELSE IF Kind(e) = "exit" THEN FALSE ELSE inservice
OutCount(e) == IF Kind(e) = "exit" /\ inservice THEN outcount + 1 ELSE outcount

URecvEntry ==
  /\ Receive("ENTRY")
  /\ f' = Append(f, Head(rcvq))
  /\ curcount' = curcount + 1
  /\ IF ToObtain = 0
       THEN upc' = "loop" /\ UNCHANGED <<inservice, outcount>>
       ELSE /\ inservice' = InService(Head(rcvq).e)
            /\ outcount' = OutCount(Head(rcvq).e)
            /\ upc' = IF outcount' >= ToObtain THEN "bye" ELSE "loop"
  /\ UNCHANGED <<sessions, kills>>

\* fsync(), then sendmsg(SYNC_COMPLETE).
USync ==
  /\ upc = "sync"
  /\ nl_rcv_func("SYNC_COMPLETE")
  /\ upc' = "wait"
  /\ UNCHANGED <<curcount, inservice, outcount, f, sessions, kills>>

\* Fault: inservice is carried over the gap in the trace.
LeaveService_Forgotten == UNCHANGED inservice
LeaveService == inservice' = FALSE

\* The second recvmsg(): whatever it returns is taken for a wake-up.
UWait ==
  /\ upc = "wait"
  /\ recvmsg
  /\ upc' = "loop"
  /\ LeaveService
  /\ curcount' = 0
  /\ UNCHANGED <<outcount, f, sessions, kills>>

UStopTracing ==
  /\ upc = "bye"
  /\ nl_rcv_func("STOP_TRACING")
  /\ upc' = "close"
  /\ UNCHANGED <<curcount, inservice, outcount, f, sessions, kills>>

UClose ==
  /\ upc = "close"
  /\ close
  /\ upc' = "off"
  /\ UNCHANGED <<curcount, inservice, outcount, f, sessions, kills>>

usnl ==
  \/ UStartTracing \/ URequest \/ URecvStop \/ URecvEndOfData \/ URecvWakeUp
  \/ URecvEntry \/ USync \/ UWait \/ UStopTracing \/ UClose
-----------------------------------------------------------------------------
(* experiment.sh                                                           *)

\* experiment_end(): one stop per experiment, long after its usnl was started.
Started == upc \notin {"off", "start"} /\ hpc \notin {"start1", "start2", "ids"}

experiment_end(c) ==
  /\ StrayStops \/ (Started /\ stops < sessions)
  /\ run_command(c)
  /\ UNCHANGED uvars

\* SIGKILL, from wherever, ends usnl where it is outside the kernel, which is
\* not told; analyse.go:524 reckons with it.
kill ==
  /\ kills < MaxKills
  /\ kills' = kills + 1
  /\ close
  /\ upc' = "off"
  /\ UNCHANGED <<curcount, inservice, outcount, f, sessions>>
-----------------------------------------------------------------------------
Init ==
  /\ initialize_tracer
  /\ upc = "off"
  /\ curcount = 0
  /\ inservice = FALSE
  /\ outcount = 0
  /\ f = <<>>
  /\ sessions = 0
  /\ kills = 0

\* What the kernel carries on with by itself.
Continue(c) == (Trace(c) \/ Stop(c)) /\ UNCHANGED uvars
Interrupt == (RunIpi \/ RunTasklet) /\ UNCHANGED uvars
Handle == Handler /\ UNCHANGED uvars

Next ==
  \/ \E c \in Ctx : \/ TraceCheck(c) /\ UNCHANGED uvars
                    \/ Continue(c)
                    \/ experiment_end(c)
  \/ Interrupt
  \/ Handle
  \/ UStart
  \/ usnl
  \/ kill

Spec == Init /\ [][Next]_vars

\* Contexts, interrupts, the handler and usnl make progress when they can;
\* events, stops, kills and new sessions need not happen.
FairSpec ==
  /\ Spec
  /\ \A c \in Ctx : WF_vars(Continue(c))
  /\ WF_vars(Interrupt)
  /\ WF_vars(Handle)
  /\ WF_vars(usnl)
-----------------------------------------------------------------------------
Quiet == hpc = "none" /\ \A c \in Ctx : pc[c] = "idle"

\* usnl never sleeps over a switched-off tracer: while it waits for a message
\* and tracing is off, a wake-up is queued or on its way.  test_and_set_bit()
\* in trace_entry() elects one sender and SYNC_COMPLETE has to re-arm it.
NoLostWakeup ==
  /\ upc \in {"wait", "recv"}
  /\ tracing_active = 0
  /\ Quiet
  => rcvq # <<>> \/ ipi > 0 \/ tasklet = 1

\* Every entry usnl writes to trace.out is an event that happened, no event is
\* written twice, and those of one CPU are in order, whatever the wake-ups and
\* replies that were queued out of step with the requests.
FileFaithful ==
  \A i \in DOMAIN f : f[i].t = "ENTRY" =>
    /\ f[i].e # Garbage
    /\ \A j \in 1 .. i - 1 :
         f[j].t = "ENTRY" /\ f[j].e.cpu = f[i].e.cpu => f[j].e.cyc < f[i].e.cyc

\* usnl is never stuck in the recvmsg() that follows a REQUEST_ENTRY: unless
\* a message was lost, one is there, after any stops, kills and restarts.
RequestAnswered == upc = "recv" /\ hpc = "none" /\ lost = 0 => rcvq # <<>>

\* A full buffer is drained and emptied again, by SYNC_COMPLETE or by the end
\* of the session: the wake-up, the requests and the reset all happen.
FullBufferDrained == lastentry > avail_entries ~> lastentry <= avail_entries

\* outcount is the number of exits of the service that have their entry in
\* the same stretch of trace.out, between two EOD lines (usnl.c:272-280), in
\* a session that samples a service, from the truncation of the file on.
IsKind(i, k) == f[i].t = "ENTRY" /\ Kind(f[i].e) = k
Counted(i) ==
  /\ IsKind(i, "exit")
  /\ \E j \in 1 .. i - 1 :
       /\ IsKind(j, "entry")
       /\ \A k \in j + 1 .. i - 1 : f[k].t = "ENTRY" /\ ~IsKind(k, "exit")
OnlyMatchedExitsCounted ==
  ToObtain > 0 /\ upc \notin {"off", "start"} =>
    outcount = Cardinality({i \in DOMAIN f : Counted(i)})
-----------------------------------------------------------------------------
(* The rounds of DrainCycle: a session is open from the reset in            *)
(* START_TRACING until usnl sends STOP_TRACING, and the current round are   *)
(* the entries written since the last reset of lastentry.                   *)
Open == upc \in {"loop", "recv", "sync", "wait", "bye"} /\ hpc # "start1"
Round == [s \in Slots |->
           IF Open /\ entries[s] # Garbage /\ entries[s].epo = epoch
             THEN entries[s] ELSE Garbage]
InFile(s) == /\ Round[s] # Garbage
             /\ \E i \in DOMAIN f : f[i] = [t |-> "ENTRY", e |-> Round[s]]
Stored == CHOOSE n \in 0 .. avail_entries :
            /\ n > 0 => InFile(n - 1)
            /\ \A s \in Slots : s >= n => ~InFile(s)

Rounds == INSTANCE DrainCycle WITH
  N <- avail_entries, Events <- Entry, None <- Garbage,
  open <- Open, round <- Round, sent <- IF Open THEN lastread ELSE 0,
  stored <- Stored, out <- f

\* On one CPU and without kills the file is a sequence of rounds: each is
\* recorded before any of it is sent, sent from its first slot to its last,
\* stored in that order with no EOD line inside, and only a round stored to
\* its last entry is followed by another (SYNC_COMPLETE).  Only its first
\* entry can be missing.
DrainRounds == Rounds!Spec
-----------------------------------------------------------------------------
(* What comments in the repository say and the code does not do.           *)

\* stop_tracing() leads to the end of the session: usnl is woken, told to
\* stop, and exits (sepext_trace.c:292-294, experiment.sh:172-176).
StopCompletes == stop_tracing_requested = 1 ~> upc = "off"

\* "This starts the loop of exchanging messages with the kernel to obtain all
\* entries in the trace buffer" (usnl.c:166-168): when SYNC_COMPLETE empties
\* the buffer, every entry in it has reached trace.out.
DrainedBeforeSync ==
  [][hpc = "sync1" /\ epoch' # epoch =>
       \A s \in Slots : s < lastentry =>
         \E i \in DOMAIN f : f[i] = [t |-> "ENTRY", e |-> entries[s]]]_vars
=============================================================================
