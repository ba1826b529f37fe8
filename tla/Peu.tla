-------------------------------- MODULE Peu --------------------------------
(***************************************************************************)
(* How the analyser finds out which interrupt ends the work of a device:   *)
(* AppendToPEU(), handleSync() and handleTEMPSYNCH() of analyse.go.        *)
(*                                                                         *)
(* A driver declares a completion on its stack (TEMPSYNCH), starts the DMA *)
(* engine (PEUSTART, omap_start_dma()) and waits (WAITCOMPL); the engine's *)
(* interrupt completes it (COMPL).  Other interrupts come in between, and  *)
(* another thread has a completion of its own.  All of it runs on CPU 0:   *)
(* lines of CPU 1 are ignored by AppendToPEU().                            *)
(***************************************************************************)
EXTENDS Integers, Sequences

CONSTANTS
  MaxOps,    \* bound: transfers the driver starts
  MaxOther,  \* bound: interrupts that are not the engine's
  MaxGaps    \* bound: times the buffer fills

Dma == 1
Timer == 2
Own == 1     \* the address of the driver's completion: the same each time
Other == 2   \* the one of the other thread

VARIABLES
  op,     \* the driver: [phase, nr, irq (the engine has yet to interrupt)]
  hirq,   \* <<>>, or the interrupt served, and 0 once complete() was called
  left,   \* what is left of the bounds
  now,    \* the cycle counter: a line is traced at each value
  hist,   \* of this transfer: what its lines tell (see Fresh)
  limbo,  \* analyser: no CTXSW read since EOD
  peu,    \* analyser: CurrentPEU, and what its Start was given last
  temps,  \* analyser: TempVars, address -> [nr, Value], nr 0 if there is none
  users   \* analyser: TempVars of each TEMPSYNCH line

vars == <<op, hirq, left, now, hist, limbo, peu, temps, users>>
NoPEU == [start |-> -1, entries |-> <<>>, irq |-> 0, dur |-> 0]
-----------------------------------------------------------------------------
\* Fault: an interrupt that came before the wait is not remembered.
Charged_Forgets(acc, e, i) == IF e.ev = "COMPL" THEN acc.int ELSE 0
\* The interrupt inside which complete() was called.
Charged(acc, e, i) == IF e.ev = "COMPL" /\ acc.int # 0 THEN acc.int ELSE acc.compl

\* The loop over the lines since PEUSTART, line i of them: the first variable
\* met is taken for the one that is waited for.  Index 0 and "none" are the same.
Unscanned == [int |-> 0, var |-> 0, compl |-> 0, match |-> 0]
ScanLine(acc, e, i) ==
  LET c == Charged(acc, e, i)
  IN  CASE e.ev = "HIRQENTRY" -> [acc EXCEPT !.int = i - 1]
        [] e.ev = "HIRQEXIT" -> [acc EXCEPT !.int = 0]
        [] OTHER -> IF acc.var = 0 THEN [acc EXCEPT !.var = e.var, !.compl = c]
                    ELSE IF acc.var = e.var /\ c # 0 THEN [acc EXCEPT !.match = c]
                    ELSE [acc EXCEPT !.compl = c]
Scan(entries) ==
  LET acc[i \in 0 .. Len(entries)] ==
        IF i = 0 THEN Unscanned ELSE ScanLine(acc[i - 1], entries[i], i)
  IN  acc[Len(entries)]

\* Fault: PEUSTART does not drop the lines of a transfer that was not matched.
AppendToPEU_Keeps(p, e) ==
  LET entries == Append(p.entries, e)
      k == Scan(entries).match
  IN IF e.ev = "PEUSTART" THEN [p EXCEPT !.start = e.cycles]
     ELSE IF p.start < 0 THEN p
     ELSE IF k = 0 THEN [p EXCEPT !.entries = entries]
     ELSE [NoPEU EXCEPT !.irq = entries[k + 1].irq, !.dur = entries[k + 1].cycles - p.start]

\* AppendToPEU(), for a LEU that is inside a service.
AppendToPEU(p, e) ==
  LET entries == Append(p.entries, e)
      k == Scan(entries).match
  IN IF e.ev = "PEUSTART" THEN [NoPEU EXCEPT !.start = e.cycles]
     ELSE IF p.start < 0 THEN p
     ELSE IF k = 0 THEN [p EXCEPT !.entries = entries]
     ELSE [NoPEU EXCEPT !.irq = entries[k + 1].irq, !.dur = entries[k + 1].cycles - p.start]

\* Fault: a variable that is known stays the one it was.
Declared_Old(ts, v, nr) == IF ts[v].nr # 0 THEN ts ELSE [ts EXCEPT ![v] = [nr |-> nr, Value |-> 0]]
\* handleTEMPSYNCH(): whatever the address stood for is forgotten.
Declared(ts, v, nr) == [ts EXCEPT ![v] = [nr |-> nr, Value |-> 0]]

\* handleSync(): a variable whose ups and downs cancel out is forgotten.
Counted(ts, v, d) ==
  [ts EXCEPT ![v] = IF ts[v].Value + d = 0 THEN [nr |-> 0, Value |-> 0]
                    ELSE [nr |-> ts[v].nr, Value |-> ts[v].Value + d]]

\* A line is traced, and read unless the CPU is in limbo.
Line(e) ==
  /\ now' = now + 1
  /\ peu' = IF limbo \/ ~e.on THEN peu ELSE AppendToPEU(peu, [e EXCEPT !.cycles = now])
Entry(ev) == [ev |-> ev, cycles |-> 0, irq |-> 0, var |-> 0, on |-> TRUE]
NoSync == UNCHANGED <<temps, users>>
Sync(ev, v, d, who) ==
  /\ Line([Entry(ev) EXCEPT !.var = v])
  /\ IF limbo \/ temps[v].nr = 0 THEN NoSync
     ELSE /\ temps' = Counted(temps, v, d)
          /\ users' = [users EXCEPT ![temps[v].nr] = Append(@, <<who, d>>)]
-----------------------------------------------------------------------------
(* The machine.  Of the transfer, hist keeps when it was started and when  *)
(* the engine interrupted, and whether ...                                 *)
Fresh == [start |-> now, at |-> 0,
          whole |-> ~limbo,  \* ... every line of it was read,
          first |-> FALSE,   \* ... the first one was the engine's interrupt,
          alone |-> TRUE]    \* ... no other completion was used
Began == op.phase \in {"started", "waiting"}
InThread == hirq = <<>>
DriverRuns == InThread /\ op.phase # "waiting"

DECLARE_COMPLETION_ONSTACK ==
  /\ DriverRuns /\ op.phase = "idle" /\ op.nr < MaxOps
  /\ op' = [op EXCEPT !.phase = "declared", !.nr = @ + 1]
  /\ Line([Entry("TEMPSYNCH") EXCEPT !.on = FALSE])
  /\ temps' = IF limbo THEN temps ELSE Declared(temps, Own, op.nr + 1)
  /\ hist' = Fresh
  /\ UNCHANGED <<hirq, left, limbo, users>>

omap_start_dma ==
  /\ DriverRuns /\ op.phase = "declared"
  /\ op' = [op EXCEPT !.phase = "started", !.irq = TRUE]
  /\ Line(Entry("PEUSTART"))
  /\ hist' = [hist EXCEPT !.start = now, !.whole = @ /\ ~limbo]
  /\ UNCHANGED <<hirq, left, limbo>> /\ NoSync

wait_for_completion_timeout ==
  /\ DriverRuns /\ op.phase = "started"
  /\ op' = [op EXCEPT !.phase = "waiting"]
  /\ Sync("WAITCOMPL", Own, -1, op.nr)
  /\ UNCHANGED <<hirq, left, limbo, hist>>

\* The driver goes on, and returns: completed or timed out, the engine stopped.
Return ==
  /\ InThread /\ op.phase = "waiting"
  /\ op' = [op EXCEPT !.phase = "idle", !.irq = FALSE]
  /\ limbo' = FALSE  \* a CTXSW line
  /\ UNCHANGED <<hirq, left, now, hist, peu>> /\ NoSync

\* An interrupt: its handler may complete a variable, once.
handle_IRQ_event(i) ==
  /\ InThread
  /\ IF i = Dma THEN op.irq ELSE left.other > 0
  /\ hirq' = <<i>>
  /\ op' = IF i = Dma THEN [op EXCEPT !.irq = FALSE] ELSE op
  /\ left' = IF i = Timer THEN [left EXCEPT !.other = @ - 1] ELSE left
  /\ Line([Entry("HIRQENTRY") EXCEPT !.irq = i])
  /\ hist' = IF i = Dma THEN [hist EXCEPT !.at = now, !.first = now = hist.start + 1] ELSE hist
  /\ UNCHANGED limbo /\ NoSync

complete ==
  /\ Len(hirq) = 1
  /\ hirq' = Append(hirq, 0)
  /\ IF hirq[1] = Dma THEN Sync("COMPL", Own, 1, op.nr) ELSE Sync("COMPL", Other, 1, 0)
  /\ hist' = [hist EXCEPT !.alone = @ /\ hirq[1] = Dma]
  /\ UNCHANGED <<op, left, limbo>>

\* The engine's handler always completes; the line of the exit is appended
\* if the thread that was interrupted is inside a service, as the driver is.
HandlerReturns ==
  /\ hirq # <<>> /\ (hirq[1] = Timer \/ Len(hirq) = 2)
  /\ hirq' = <<>>
  /\ \E on \in IF op.phase = "waiting" THEN BOOLEAN ELSE {TRUE} :
       Line([Entry("HIRQEXIT") EXCEPT !.on = on])
  /\ UNCHANGED <<op, left, hist, limbo>> /\ NoSync

OtherWaits ==
  /\ InThread /\ op.phase = "waiting" /\ left.other > 0
  /\ left' = [left EXCEPT !.other = @ - 1]
  /\ Sync("WAITCOMPL", Other, -1, 0)
  /\ hist' = [hist EXCEPT !.alone = FALSE]
  /\ UNCHANGED <<op, hirq, limbo>>

\* The buffer was full: EOD.
Gap ==
  /\ left.gaps > 0
  /\ left' = [left EXCEPT !.gaps = @ - 1]
  /\ limbo' = TRUE
  /\ peu' = NoPEU
  /\ temps' = [v \in {Own, Other} |-> [nr |-> 0, Value |-> 0]]
  /\ hist' = [hist EXCEPT !.whole = FALSE]
  /\ UNCHANGED <<op, hirq, now, users>>

Init ==
  /\ op = [phase |-> "idle", nr |-> 0, irq |-> FALSE]
  /\ hirq = <<>>
  /\ left = [other |-> MaxOther, gaps |-> MaxGaps]
  /\ now = 0
  /\ hist = [start |-> 0, at |-> 0, whole |-> FALSE, first |-> FALSE, alone |-> TRUE]
  /\ limbo = FALSE
  /\ peu = NoPEU
  /\ temps = [v \in {Own, Other} |-> [nr |-> 0, Value |-> 0]]
  /\ users = [n \in 1..MaxOps |-> <<>>]

Next ==
  \/ DECLARE_COMPLETION_ONSTACK \/ omap_start_dma \/ wait_for_completion_timeout \/ Return
  \/ \E i \in {Dma, Timer} : handle_IRQ_event(i)
  \/ complete \/ HandlerReturns \/ OtherWaits \/ Gap

Spec == Init /\ [][Next]_vars
-----------------------------------------------------------------------------
\* A transfer that is the only one to use a completion is charged with the
\* engine's interrupt and the time until its handler was entered, whatever
\* other interrupts come in between and whether the interrupt comes before or
\* after the driver waits.  It is charged by the time the driver returns from a
\* wait that was completed, but for one case: the interrupt's line is the first
\* after PEUSTART, whose index the code takes for "no interrupt".
Completed == op.phase = "waiting" /\ ~op.irq /\ InThread
PeuExact ==
  hist.alone /\ hist.whole =>
    /\ peu.irq # 0 /\ Began => peu.irq = Dma /\ peu.dur = hist.at - hist.start
    /\ Completed /\ ~hist.first => peu.irq = Dma

\* The uses of a temporary completion are recorded with its own declaration,
\* although each transfer has its completion at the same address and one that
\* timed out leaves its count unbalanced.
UsersOwn == \A n \in 1..MaxOps : \A i \in 1..Len(users[n]) : users[n][i][1] = n
=============================================================================
