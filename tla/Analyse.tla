------------------------------ MODULE Analyse ------------------------------
(***************************************************************************)
(* The analyser's replay of a trace: run() and the event handlers of       *)
(* analyse.go that maintain which thread or interrupt (LEU) runs on each   *)
(* CPU and which services each LEU is inside.                              *)
(*                                                                         *)
(* The trace comes from a machine whose own state is modelled beside it:   *)
(* threads that call services and run loops, interrupts and the softirqs   *)
(* they lead to, context switches, migrations.  Each step of the machine   *)
(* writes one line, which the analyser replays at once; while the tracer   *)
(* is switched off for draining the machine's steps leave no line, and the *)
(* gap is marked by an EOD line.                                           *)
(***************************************************************************)
EXTENDS Integers, Sequences, FiniteSets, FiniteSetsExt

CONSTANTS
  CPUs,        \* CPU numbers: traceState has two elements
  Threads,     \* thread pids
  IrqCPUs,     \* CPUs that run interrupt handlers: gic_dist_init() sets one
  IRQs,        \* interrupt numbers
  Services,    \* instrumented functions
  MaxDepth,    \* bound: activations the LEUs are inside of, taken together
  MaxGaps,     \* bound: times the buffer fills
  MaxAstray    \* bound: LEUs that leave a stack behind between two EODs, each once

ASSUME CpuAssumption == CPUs \subseteq {0, 1} /\ IrqCPUs \subseteq CPUs
ASSUME IrqAssumption == IRQs \subseteq Nat
ASSUME NameAssumption ==
  Services \cap {"HIRQ", "irq_enter", "irq_exit", "handler", "loop"} = {}
ASSUME BoundAssumption == MaxDepth \in Nat /\ MaxGaps \in Nat /\ MaxAstray \in Nat

VARIABLES
  running,   \* machine: the thread on each CPU ...
  hirq,      \* ... the interrupt its handler serves, or NoIRQ ...
  home,      \* ... the CPU a thread is queued on ...
  frames,    \* ... and the activations each LEU is inside of, outermost first
  recording, \* the tracer is switched on
  gaps,      \* times the buffer has filled
  limbo,     \* analyser: per CPU, no CTXSW read yet since EOD
  state,     \* analyser: its State
  astray     \* history: LEUs that left their stack behind since EOD

machine == <<running, hirq, home, frames>>
vars == <<machine, recording, gaps, limbo, state, astray>>

NoIRQ == -1
LEU == [Name : {"Thread"}, Pid : Threads] \cup [Name : {"HIRQ"}, Pid : IRQs]
NoLEU == [Name |-> "", Pid |-> 0]
Thread(t) == [Name |-> "Thread", Pid |-> t]
HIRQ(i) == [Name |-> "HIRQ", Pid |-> i]

\* Go maps: partial functions; a missing key reads as the zero value.
Put(m, k, v) == [x \in DOMAIN m \cup {k} |-> IF x = k THEN v ELSE m[x]]
Get(m, k, zero) == IF k \in DOMAIN m THEN m[k] ELSE zero
NoMap == [x \in {} |-> 0]
-----------------------------------------------------------------------------
(* The service stack.  Of an element's Entries the analyser reads the first *)
(* and the last one here: <<first>> or <<first, last>>.                     *)
Add(entries, e) == IF Len(entries) < 2 THEN Append(entries, e) ELSE <<entries[1], e>>
LastOf(seq) == seq[Len(seq)]
DropLast(seq) == SubSeq(seq, 1, Len(seq) - 1)

GetCurrentLEU(s, e) == Get(s.CurrentLEU, e.CPU, NoLEU)
Stack(s, e) == Get(Get(s.ServiceStack, e.CPU, NoMap), GetCurrentLEU(s, e), <<>>)

\* Reading the stack of a CPU creates the CPU's map.
MakeMap(s, e) ==
  [s EXCEPT !.ServiceStack =
     IF e.CPU \in DOMAIN @ THEN @ ELSE Put(@, e.CPU, NoMap)]
SetStack(s, e, stack) ==
  [s EXCEPT !.ServiceStack =
     Put(@, e.CPU, Put(Get(@, e.CPU, NoMap), GetCurrentLEU(s, e), stack))]
Pop(s, e) == SetStack(s, e, DropLast(Stack(s, e)))

\* What is kept of a trace line once it is in a stack element.
Kept(e) == [ev |-> e.EventType, srv |-> e.Service, loc |-> e.Location]

\* PushService(), PushEntry(): the line is added to the innermost service.
PushService(s, e) ==
  LET stack == Stack(s, e) IN
  IF stack = <<>>
    THEN MakeMap(s, e)
    ELSE SetStack(s, e, [stack EXCEPT ![Len(stack)].Entries = Add(@, Kept(e))])

\* The call is registered in the caller, then the new service is entered.
PushNewService(s, e, name) ==
  LET s1 == IF e.Location = "irq_exit" THEN s ELSE PushService(s, e)
      s2 == SetStack(s1, e, Append(Stack(s1, e), [Name |-> name, Entries |-> <<>>]))
  IN  PushService(s2, e)

\* LEUs is only ever appended to; the model keeps which LEUs have a map and
\* the instance the last line added.
MakeLEU(s, e) == [s EXCEPT !.LEUs = @ \cup {GetCurrentLEU(s, e)}]
PushServiceToLEU(s, e, el) ==
  [s EXCEPT !.stored = <<[leu |-> GetCurrentLEU(s, e), service |-> el.Name,
                          entries |-> el.Entries]>>,
            !.panic = IF GetCurrentLEU(s, e) \in s.LEUs THEN @ ELSE e.EventType]
\* An index out of range or a store into a map that was not made ends the
\* analyser; the model keeps the type of the line it was reading.
Panic(s, e) == [s EXCEPT !.panic = e.EventType]
-----------------------------------------------------------------------------
(* The handlers                                                            *)
handleCTXSW(s, e) ==
  LET s1 == PushService(s, e)
      s2 == [s1 EXCEPT !.CurrentLEU = Put(@, e.CPU, Thread(e.Pid2))]
      s3 == PushService(s2, e)
  IN  MakeLEU(s3, e)

\* Fault: the LEU stays where it was.
handleMIGRATE_Ignored(s, e) == s

\* A LEU found on another CPU's stack moves; storing into the map of a CPU
\* that has none panics.
handleMIGRATE(s, e) ==
  LET leu == Thread(e.Pid1)
      from == {c \in DOMAIN s.ServiceStack \ {e.Pid2} : leu \in DOMAIN s.ServiceStack[c]}
      old == CHOOSE c \in from : TRUE
      moved == s.ServiceStack[old]
  IN  IF from = {} THEN s
      ELSE IF e.Pid2 \notin DOMAIN s.ServiceStack THEN Panic(s, e)
      ELSE [s EXCEPT !.ServiceStack =
              [s.ServiceStack EXCEPT ![e.Pid2] = Put(@, leu, moved[leu]),
                                     ![old] = [x \in DOMAIN moved \ {leu} |-> moved[x]]]]

handleSRVENTRY(s, e) == PushNewService(s, e, e.Service)

\* An exit of a service that was not seen to be entered is ignored.
handleSRVEXIT(s, e) ==
  IF Stack(s, e) = <<>> THEN MakeMap(s, e)
  ELSE LET s1 == PushService(s, e)
           s2 == MakeLEU(Pop(s1, e), e)
           s3 == PushServiceToLEU(s2, e, LastOf(Stack(s1, e)))
       IN  PushService(s3, e)

handleHIRQEntry(s, e) ==
  LET s1 == PushService(s, e)
      s2 == [s1 EXCEPT !.Interrupted = Append(@, GetCurrentLEU(s1, e))]
      s3 == [s2 EXCEPT !.CurrentLEU = Put(@, e.CPU, HIRQ(e.Pid1))]
  IN  PushNewService(MakeLEU(s3, e), e, "HIRQ")

\* Fault: the oldest interrupted LEU is taken for the last one.
Resumed_Oldest(s, e) == s.Interrupted[1]
\* The LEU to go back to.
Resumed(s, e) == LastOf(s.Interrupted)

handleHIRQExit(s, e) ==
  LET s1 == handleSRVEXIT(s, e)
      s2 == [s1 EXCEPT !.CurrentLEU = Put(@, e.CPU, Resumed(s1, e)),
                       !.Interrupted = DropLast(@)]
  IN  IF Stack(s, e) = <<>> THEN s1
      ELSE IF s1.Interrupted = <<>> THEN Panic(s1, e)
      ELSE PushService(s2, e)

\* A loop outside of any service is not followed.
handleLOOPSTART(s, e) ==
  IF Stack(s, e) = <<>> THEN MakeMap(s, e) ELSE PushNewService(s, e, e.Location)

\* The first pass turns the loop's LOOPSTART into a LOOPRSTART; a later one
\* stores the pass before it and starts another.
Retype(entries, i, ev) == [entries EXCEPT ![i].ev = ev]
handleLOOPRSTART(s, e) ==
  LET stack == Stack(s, e)
      top == LastOf(stack)
      first == Retype(top.Entries, Len(top.Entries), "LOOPRSTART")
      s1 == Pop(s, e)
      done == [top EXCEPT !.Entries = Retype(Add(@, Kept(e)), 1, "LOOPSTART")]
      s2 == PushServiceToLEU(s1, e, done)
      next == [Name |-> top.Name, Entries |-> <<[top.Entries[1] EXCEPT !.ev = "LOOPRSTART"]>>]
  IN  IF stack = <<>> THEN MakeMap(s, e)
      ELSE IF top.Entries = <<>> THEN Panic(s, e)
      ELSE IF LastOf(top.Entries).ev = "LOOPSTART"
        THEN SetStack(s, e, [stack EXCEPT ![Len(stack)].Entries = first])
        ELSE SetStack(s2, e, Append(Stack(s2, e), next))

\* The last pass is stored if there was one.
handleLOOPSTOP(s, e) ==
  LET stack == Stack(s, e)
      top == LastOf(stack)
      s1 == Pop(s, e)
      done == [top EXCEPT !.Entries =
                 Retype(Add(@, [@[1] EXCEPT !.ev = "LOOPRSTART"]), 1, "LOOPSTART")]
      s2 == IF top.Entries[1].ev = "LOOPRSTART" THEN PushServiceToLEU(s1, e, done) ELSE s1
  IN  IF stack = <<>> THEN MakeMap(s, e)
      ELSE IF top.Entries = <<>> THEN Panic(s, e)
      ELSE PushService(s2, e)

handleSRVQUEUE(s, e) ==
  IF e.Pid1 = 0 THEN PushService(s, e) ELSE PushNewService(s, e, e.Service)

handleEvent(s, e) ==
  CASE e.EventType = "CTXSW" -> handleCTXSW(s, e)
    [] e.EventType = "MIGRATE" -> handleMIGRATE(s, e)
    [] e.EventType = "SRVENTRY" -> handleSRVENTRY(s, e)
    [] e.EventType = "SRVEXIT" -> handleSRVEXIT(s, e)
    [] e.EventType = "HIRQENTRY" -> handleHIRQEntry(s, e)
    [] e.EventType = "HIRQEXIT" -> handleHIRQExit(s, e)
    [] e.EventType = "LOOPSTART" -> handleLOOPSTART(s, e)
    [] e.EventType = "LOOPRSTART" -> handleLOOPRSTART(s, e)
    [] e.EventType = "LOOPSTOP" -> handleLOOPSTOP(s, e)
    [] e.EventType = "SRVQUEUE" -> handleSRVQUEUE(s, e)
    [] OTHER -> PushService(s, e)

\* run(): after EOD the lines of a CPU are skipped up to its next CTXSW.
ReadLine(e) ==
  IF limbo[e.CPU] /\ e.EventType # "CTXSW"
    THEN UNCHANGED <<limbo, state>>
    ELSE /\ limbo' = [limbo EXCEPT ![e.CPU] = FALSE]
         /\ state' = handleEvent([state EXCEPT !.stored = <<>>], e)

\* Fault: a CPU's lines are not skipped.
Skip_None == [c \in CPUs |-> FALSE]
Skip == [c \in CPUs |-> TRUE]

\* Fault: the stacks survive the gap.
NoStacks_Kept == state.ServiceStack
NoStacks == NoMap

\* Interrupted is not reset.
ReadEOD ==
  /\ limbo' = Skip
  /\ state' = [state EXCEPT !.ServiceStack = NoStacks, !.CurrentLEU = NoMap, !.stored = <<>>]
-----------------------------------------------------------------------------
(* The machine, as far as its tracepoints show it                          *)
Current(c) == IF hirq[c] = NoIRQ THEN Thread(running[c]) ELSE HIRQ(hirq[c])
Frame(k, n) == [kind |-> k, name |-> n]
Inside(c) == frames[Current(c)]
Top(c) == IF Inside(c) = <<>> THEN "none" ELSE LastOf(Inside(c)).kind

Line(c, ev, srv, loc, pid1, pid2) ==
  [EventType |-> ev, CPU |-> c, Service |-> srv, Location |-> loc, Pid1 |-> pid1, Pid2 |-> pid2]

\* A thread that moves unseen stays on the stacks of its old CPU: what run()
\* skips of a line, if that is a MIGRATE.
OnStack(t) ==
  {l \in {Thread(t)} : \E c \in DOMAIN state.ServiceStack : l \in DOMAIN state.ServiceStack[c]}
LeftBehind(e) ==
  IF recording /\ limbo[e.CPU] /\ e.EventType = "MIGRATE" THEN OnStack(e.Pid1) ELSE {}

\* Bound: in every stretch of the trace but the last, so that an EOD may follow.
MayStray(left) ==
  left # {} =>
    /\ left \cap astray = {}
    /\ Cardinality(astray) < MaxAstray
    /\ gaps < MaxGaps

\* A tracepoint is passed.
Trace(e) ==
  /\ state.panic = "none"
  /\ IF recording THEN ReadLine(e) ELSE UNCHANGED <<limbo, state>>
  /\ astray' = astray \cup LeftBehind(e)
  /\ UNCHANGED <<recording, gaps>>

Enter(c, f) ==
  /\ MapThenSumSet(LAMBDA l : Len(frames[l]), LEU) < MaxDepth
  /\ frames' = [frames EXCEPT ![Current(c)] = Append(@, f)]
  /\ UNCHANGED <<running, hirq, home>>
Leave(c) ==
  /\ frames' = [frames EXCEPT ![Current(c)] = DropLast(@)]
  /\ UNCHANGED <<running, hirq, home>>

\* Interrupts are off and the handlers not yet run, or one is about to.
InIrq == {"irq", "handler", "handled"}

\* A service is called, or taken off a service queue by a loop over it.
Call(c) ==
  /\ Top(c) \notin InIrq
  /\ \E n \in Services :
       /\ Enter(c, Frame("srv", n))
       /\ Trace(Line(c, IF Top(c) = "loop" THEN "SRVQUEUE" ELSE "SRVENTRY", n, "", 1, 0))
Return(c) ==
  /\ Top(c) = "srv"
  /\ Leave(c)
  /\ Trace(Line(c, "SRVEXIT", LastOf(Inside(c)).name, "", 0, 0))

\* Any of the events that are only added to the innermost service.
Event(c) ==
  /\ Trace(Line(c, "SRVQUEUE", "", "", 0, 0))
  /\ UNCHANGED machine

\* __do_softirq() in irq_exit(), and loops in services and threads.
LoopStart(c) ==
  LET at == IF Top(c) = "irq" THEN "irq_exit" ELSE "loop" IN
  /\ Top(c) \notin {"handler", "handled"}
  /\ Enter(c, Frame("loop", at))
  /\ Trace(Line(c, "LOOPSTART", "", at, 0, 0))
LoopRestart(c) ==
  /\ Top(c) = "loop"
  /\ Trace(Line(c, "LOOPRSTART", "", "", 0, 0))
  /\ UNCHANGED machine
LoopStop(c) ==
  /\ Top(c) = "loop"
  /\ Leave(c)
  /\ Trace(Line(c, "LOOPSTOP", "", "", 0, 0))

\* irq_enter() and irq_exit(), in the interrupted thread or softirq.  A local
\* timer or an IPI has no handler and comes on every CPU.
irq_enter(c) ==
  /\ hirq[c] = NoIRQ
  /\ Top(c) \notin InIrq
  /\ Enter(c, Frame("irq", "irq_enter"))
  /\ Trace(Line(c, "SRVENTRY", "irq_enter", "", 0, 0))
irq_exit(c) ==
  /\ Top(c) = "irq"
  /\ Leave(c)
  /\ Trace(Line(c, "SRVEXIT", "irq_enter", "", 0, 0))

\* handle_irq_event_percpu(): four lines per handler.
HandlerDequeue(c) ==
  /\ Top(c) = "irq"
  /\ c \in IrqCPUs
  /\ Enter(c, Frame("handler", "handler"))
  /\ Trace(Line(c, "SRVQUEUE", "handler", "", 1, 0))
HandlerStart(c) ==
  /\ Top(c) = "handler"
  /\ \E i \in IRQs :
       /\ \A d \in CPUs : hirq[d] # i
       /\ hirq' = [hirq EXCEPT ![c] = i]
       /\ frames' = [frames EXCEPT ![Current(c)] = Append(DropLast(@), Frame("handled", "handler")),
                                   ![HIRQ(i)] = <<Frame("hirq", "HIRQ")>>]
       /\ Trace(Line(c, "HIRQENTRY", "", "", i, 0))
  /\ UNCHANGED <<running, home>>
HandlerStop(c) ==
  /\ Top(c) = "hirq"
  /\ hirq' = [hirq EXCEPT ![c] = NoIRQ]
  /\ frames' = [frames EXCEPT ![Current(c)] = <<>>]
  /\ Trace(Line(c, "HIRQEXIT", "", "", hirq[c], 0))
  /\ UNCHANGED <<running, home>>
HandlerExit(c) ==
  /\ Top(c) = "handled"
  /\ Leave(c)
  /\ Trace(Line(c, "SRVEXIT", "0", "", 0, 0))

\* context_switch(): never inside an interrupt.
Switch(c) ==
  /\ hirq[c] = NoIRQ
  /\ \A i \in DOMAIN Inside(c) : Inside(c)[i].kind # "irq"
  /\ \E t \in Threads :
       /\ home[t] = c
       /\ t # running[c]
       /\ running' = [running EXCEPT ![c] = t]
       /\ Trace(Line(c, "CTXSW", "", "", running[c], t))
  /\ UNCHANGED <<hirq, home, frames>>

\* A thread that does not run is queued on another CPU.
Move(t, new) ==
  /\ home[t] # new
  /\ \A d \in CPUs : running[d] # t
  /\ home' = [home EXCEPT ![t] = new]
  /\ UNCHANGED <<running, hirq, frames>>

\* pull_task(), called on the new CPU or, by the stopper, on the old one.  The
\* line may name a CPU the analyser does not follow yet, or be written by one.
Migrate(c) ==
  \E t \in Threads, new \in CPUs :
    LET e == Line(c, "MIGRATE", "", "", t, new) IN
    /\ c \in {home[t], new}
    /\ Move(t, new)
    /\ MayStray(LeftBehind(e))
    /\ Trace(e)

\* A thread is woken on another CPU: no tracepoint is passed.
try_to_wake_up(t) ==
  /\ state.panic = "none"
  /\ \E new \in CPUs : Move(t, new)
  /\ MayStray(OnStack(t))
  /\ astray' = astray \cup OnStack(t)
  /\ UNCHANGED <<recording, gaps, limbo, state>>

\* The buffer is full: nothing is recorded until it has been drained.
BufferFull ==
  /\ recording
  /\ state.panic = "none"
  /\ gaps < MaxGaps
  /\ gaps' = gaps + 1
  /\ recording' = FALSE
  /\ ReadEOD
  /\ astray' = {}
  /\ UNCHANGED machine
SyncComplete ==
  /\ ~recording
  /\ recording' = TRUE
  /\ UNCHANGED <<machine, gaps, limbo, state, astray>>
-----------------------------------------------------------------------------
Init ==
  /\ home \in [Threads -> CPUs]
  /\ running \in [CPUs -> Threads]
  /\ \A c \in CPUs : home[running[c]] = c
  /\ hirq = [c \in CPUs |-> NoIRQ]
  /\ frames = [l \in LEU |-> <<>>]
  /\ recording = TRUE
  /\ gaps = 0
  /\ limbo = [c \in CPUs |-> TRUE]
  /\ state = [CurrentLEU |-> NoMap, ServiceStack |-> NoMap, Interrupted |-> <<>>,
              LEUs |-> {}, stored |-> <<>>, panic |-> "none"]
  /\ astray = {}

Next ==
  \/ \E c \in CPUs :
       \/ Call(c) \/ Return(c) \/ Event(c)
       \/ LoopStart(c) \/ LoopRestart(c) \/ LoopStop(c)
       \/ irq_enter(c) \/ irq_exit(c)
       \/ HandlerDequeue(c) \/ HandlerStart(c) \/ HandlerStop(c) \/ HandlerExit(c)
       \/ Switch(c) \/ Migrate(c)
  \/ \E t \in Threads : try_to_wake_up(t)
  \/ BufferFull
  \/ SyncComplete

Spec == Init /\ [][Next]_vars
-----------------------------------------------------------------------------
\* The LEU the analyser attributes a CPU's lines to is the one that runs
\* there, across interrupts, switches and the gaps between two drains.
LEUTracked ==
  \A c \in CPUs : ~limbo[c] /\ recording => Get(state.CurrentLEU, c, NoLEU) = Current(c)

\* The services the analyser has a thread inside of are the innermost ones
\* the thread really is inside of: those entered before the trace resumed are
\* missing, and no exit has removed the wrong one.  Excepted is a thread that
\* moved unseen, woken on another CPU or pulled by one in limbo, whose lines
\* run() skips: its services stay on the old CPU until the next EOD.
IsSuffix(s, t) == Len(s) <= Len(t) /\ s = SubSeq(t, Len(t) - Len(s) + 1, Len(t))
StackTracked ==
  \A c \in CPUs : ~limbo[c] /\ recording /\ Current(c) \notin astray =>
    LET stack == Stack(state, [CPU |-> c])
    IN  IsSuffix([i \in DOMAIN stack |-> stack[i].Name],
                 [i \in DOMAIN Inside(c) |-> Inside(c)[i].name])

\* An instance of a service that is stored for the signatures runs from the
\* entry of that service to its exit, and a pass of a loop from LOOPSTART to
\* LOOPRSTART; threads that left their stack behind are excepted.
Begins(e, n) ==
  \/ e.ev \in {"SRVENTRY", "SRVQUEUE"} /\ e.srv = n
  \/ e.ev = "HIRQENTRY" /\ n = "HIRQ"
  \/ e.ev = "LOOPSTART" /\ e.loc = n
Ends(e, n) ==
  \/ e.ev = "SRVEXIT" /\ e.srv = IF n = "handler" THEN "0" ELSE n
  \/ e.ev = "HIRQEXIT" /\ n = "HIRQ"
  \/ e.ev = "LOOPRSTART" /\ n \in {"loop", "irq_exit"}
InstancesWhole ==
  \A i \in DOMAIN state.stored :
    LET x == state.stored[i]
    IN  x.leu \notin astray =>
          Begins(x.entries[1], x.service) /\ Ends(LastOf(x.entries), x.service)

\* Wherever the trace is cut and wherever threads migrate, the analyser indexes
\* no empty stack, no empty list of entries and no map that was not made, but
\* in one place: handleMIGRATE() stores into the map of a CPU that has had no
\* CTXSW since the trace began or the last EOD.  Once every CPU has, no line
\* ends the analyser.
NoPanic == state.panic # "none" => state.panic = "MIGRATE" /\ \E c \in CPUs : limbo[c]
=============================================================================
