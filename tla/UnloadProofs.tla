---------------------------- MODULE UnloadProofs ----------------------------
(***************************************************************************)
(* What is proved about loading and unloading, for any number of CPUs,     *)
(* tracepoints, probes, addresses and tasklets: the life cycle, the table  *)
(* of dynamic probes and the tasklets, each on its own and then for the    *)
(* behaviours of MCUnload, in which they take turns at most at the start.  *)
(***************************************************************************)
EXTENDS MCUnload, Sequences, FiniteSetTheorems, TLAPS

\* A step of MCUnload is one of each component, or leaves it alone.
LEMMA Steps == [UnloadNext]_all_vars => [Next]_vars /\ [D!Next]_dynprobes /\ [T!Next]_tasklets
BY DEF UnloadNext, OfLifecycle, OfDynProbes, OfTasklet, all_vars

-----------------------------------------------------------------------------
(* The life cycle                                                          *)

Early == {"load", "vmalloc", "netlink", "failed"}
Freed == {"release", "tasklet_kill", "sync", "gone"}
MPCs == Early \cup Freed \cup
        {"register", "dynprobes", "up", "remove_dyn", "unregister_dyn", "sync_dyn",
         "unregister", "remove", "vfree"}
Probes == [what : Tracepoints \cup {"none", "kprobe", "irq"},
           at : {"none", "test", "write", "wake"}]

LifeTypes ==
  /\ mpc \in MPCs
  /\ probe \in [CPUs -> Probes]
  /\ regs \subseteq Tracepoints /\ kprobe \in BOOLEAN
  /\ client \in BOOLEAN /\ nl \in BOOLEAN /\ us_pid \in BOOLEAN

\* Nothing of the tracer runs, is registered or is open before both its
\* resources are there.
NothingEarly ==
  mpc \in Early => /\ regs = {} /\ ~kprobe /\ ~client /\ ~us_pid
                   /\ nl_sk # "live"
                   /\ \A p \in CPUs : Idle(p)

\* How long each resource lasts.
Resources ==
  /\ mpc \notin Early \cup Freed \/ mpc = "netlink" => buf = "live"
  /\ mpc \notin Early \cup Freed \/ mpc = "release" => nl_sk = "live"
  /\ client => ~Going
  /\ nl => client

\* A dynamic probe is installed only through /proc and gone before the rest
\* is taken down: unregister_kretprobe() waits for the CPUs that run one.
DynamicGone ==
  /\ "dynprobes" \in proc => mpc \in {"up", "remove_dyn"}
  /\ kprobe => mpc \in {"up", "remove_dyn", "unregister_dyn"}
  /\ \A p \in CPUs : probe[p].what = "kprobe" =>
       \/ mpc \in {"up", "remove_dyn", "unregister_dyn"}
       \/ mpc = "sync_dyn" /\ p \in waiting

\* No paired static probe is registered once the loop of
\* deactivate_static_probes() is over, and none runs unwaited for in the end.
StaticGone ==
  /\ mpc \in {"remove", "vfree"} \cup Freed => regs \subseteq Unpaired
  /\ \A p \in CPUs : probe[p].what \in Tracepoints \ Unpaired =>
       mpc # "gone" /\ (mpc = "sync" => p \in waiting)

LifeInv == LifeTypes /\ NothingEarly /\ Resources /\ DynamicGone /\ StaticGone

LEMMA LifeInit == Init => LifeInv
<1> SUFFICES ASSUME Init
             PROVE  LifeInv
  OBVIOUS
<1>1. None \in Probes /\ \A p \in CPUs : probe[p] = None
  BY DEF Init, None, Probes
<1>2. LifeTypes
  BY <1>1 DEF Init, LifeTypes, MPCs, Early
<1>3. NothingEarly /\ Resources
  BY <1>1 DEF Init, NothingEarly, Resources, Idle, Going, Early
<1>4. DynamicGone /\ StaticGone
  BY <1>1, LifeAssumption DEF Init, DynamicGone, StaticGone, None, Freed
<1> QED BY <1>2, <1>3, <1>4 DEF LifeInv

\* Steps of a CPU: only its own probe changes, and it leaves synchronize_sched()
\* only when it is idle.
LEMMA ProbeStep ==
  ASSUME LifeInv, NEW p \in CPUs,
         \/ \E w \in Tracepoints \cup {"kprobe"} : Fire(p, w)
         \/ NotTraced(p) \/ Slot(p) \/ Full(p) \/ Finish(p) \/ Interrupt(p)
  PROVE  LifeInv'
<1> USE DEF LifeInv, LifeTypes
<1>1. /\ UNCHANGED <<mpc, proc, buf, nl_sk, regs, kprobe, us_pid, client, nl>>
      /\ mpc \notin Early
  BY LifeAssumption DEF Fire, NotTraced, Slot, Full, Finish, Interrupt, mod, res, inst, trc, cli,
     NothingEarly, Idle, None, Probes
<1> DEFINE
      Moved(r) == /\ probe' = [probe EXCEPT ![p] = r]
                  /\ \/ r = None /\ waiting' = waiting \ {p}
                     \/ /\ waiting' = waiting
                        /\ \/ r.what \in {probe[p].what, "irq"}
                           \/ r.what \in regs
                           \/ r.what = "kprobe" /\ kprobe
<1>2. ASSUME NEW l \in {"write", "wake"}, To(p, l)
      PROVE  \E r \in Probes : Moved(r)
  <2>1. [probe[p] EXCEPT !.at = l] \in Probes
    BY DEF Probes
  <2>2. [probe[p] EXCEPT !.at = l].what = probe[p].what
    BY DEF Probes
  <2> QED BY <1>2, <2>1, <2>2 DEF To
<1>3. ASSUME Leave(p)
      PROVE  \E r \in Probes : Moved(r)
  BY <1>3 DEF Leave, None, Probes
<1>4. PICK r \in Probes : Moved(r)
  <2>1. CASE \E w \in Tracepoints \cup {"kprobe"} : Fire(p, w)
    <3>1. PICK w \in Tracepoints \cup {"kprobe"} : Fire(p, w)
      BY <2>1
    <3>2. [what |-> w, at |-> "test"] \in Probes
      BY DEF Probes
    <3> QED BY <3>1, <3>2 DEF Fire, mod
  <2>2. CASE Interrupt(p)
    <3>1. [what |-> "irq", at |-> "wake"] \in Probes
      BY DEF Probes
    <3> QED BY <2>2, <3>1 DEF Interrupt, mod
  <2> QED BY <1>2, <1>3, <2>1, <2>2 DEF NotTraced, Slot, Full, Finish
<1>5. LifeTypes' /\ NothingEarly' /\ Resources'
  BY <1>1, <1>4 DEF NothingEarly, Resources, Going
<1>6. DynamicGone'
  BY <1>1, <1>4, LifeAssumption DEF DynamicGone, None
<1>7. StaticGone'
  BY <1>1, <1>4, LifeAssumption DEF StaticGone, None, Freed
<1> QED BY <1>5, <1>6, <1>7

\* Steps of user space: the collector, SEPEXT_STOP and new dynamic probes.
LEMMA UserStep ==
  ASSUME LifeInv, Open \/ Command \/ Return \/ Close \/ stop_tracing \/ add_probe
  PROVE  LifeInv'
<1> USE DEF LifeInv, mod, res, inst, trc, cli
<1>1. UNCHANGED <<mpc, waiting, proc, buf, nl_sk, regs, probe>>
  BY DEF Open, Command, Return, Close, stop_tracing, add_probe
<1>2. CASE Open \/ Command \/ Return \/ Close \/ stop_tracing
  <2>1. UNCHANGED kprobe
    BY <1>2 DEF Open, Command, Return, Close, stop_tracing
  <2>2. LifeTypes'
    BY <1>1, <1>2, <2>1 DEF Open, Command, Return, Close, stop_tracing, LifeTypes
  <2>3. Resources'
    BY <1>1, <1>2 DEF Open, Command, Return, Close, stop_tracing, Resources, Going
  <2>4. ASSUME mpc \notin Early
        PROVE  NothingEarly'
    BY <1>1, <2>4 DEF NothingEarly
  <2>5. ASSUME mpc \in Early
        PROVE  NothingEarly'
    <3>1. ~client /\ nl_sk # "live" /\ UNCHANGED <<client, us_pid>>
      BY <1>2, <2>5 DEF NothingEarly, Open, Command, Return, Close, stop_tracing, Resources
    <3> QED BY <1>1, <2>1, <2>5, <3>1 DEF NothingEarly, Idle
  <2>6. DynamicGone' /\ StaticGone'
    BY <1>1, <2>1 DEF DynamicGone, StaticGone
  <2> QED BY <2>2, <2>3, <2>4, <2>5, <2>6
<1>3. CASE add_probe
  <2>1. mpc \in {"up", "remove_dyn"} /\ mpc \notin Early
    BY <1>3 DEF add_probe, DynamicGone, Early
  <2> QED BY <1>1, <1>3, <2>1 DEF add_probe, LifeTypes, NothingEarly, Resources, Going,
             DynamicGone, StaticGone
<1> QED BY <1>2, <1>3

\* Steps of sepext_init_module().
LEMMA LoadStep ==
  ASSUME LifeInv, Load
  PROVE  LifeInv'
<1> USE DEF LifeInv, res, inst, trc, cli, Step, At
<1>1. UNCHANGED <<waiting, kprobe, us_pid, client, nl, probe>>
  BY DEF Load, CreateProc, Vmalloc, Unallocated, CreateSocket, Register, CreateDynprobes
<1>2. CASE CreateProc \/ Vmalloc \/ CreateSocket
  <2>1. mpc \in Early /\ mpc' \in Early \cup {"register"} /\ regs' = regs
    BY <1>2 DEF CreateProc, Vmalloc, Unallocated, CreateSocket, Early
  <2>2. "dynprobes" \notin proc'
    BY <1>2, <2>1 DEF CreateProc, Vmalloc, CreateSocket, DynamicGone, Early
  <2>3. LifeTypes' /\ DynamicGone' /\ StaticGone'
    BY <1>1, <2>1, <2>2 DEF LifeTypes, MPCs, DynamicGone, StaticGone, NothingEarly, Early, Freed, Idle,
       None
  <2>4. NothingEarly'
    BY <1>1, <1>2, <2>1 DEF NothingEarly, Idle, CreateProc, Vmalloc, CreateSocket, Early
  <2>5. Resources'
    BY <1>1, <1>2, <2>1 DEF NothingEarly, Resources, CreateProc, Vmalloc, Unallocated,
       CreateSocket, Early, Freed, Going
  <2> QED BY <2>3, <2>4, <2>5
<1>3. CASE Register \/ CreateDynprobes
  <2>1. /\ mpc \in {"register", "dynprobes"} /\ mpc' \in {"register", "dynprobes", "up"}
        /\ regs' \subseteq Tracepoints /\ UNCHANGED <<buf, nl_sk>>
        /\ proc' = proc \/ mpc' = "up"
    BY <1>3 DEF Register, CreateDynprobes, LifeTypes
  <2>2. "dynprobes" \notin proc
    BY <2>1 DEF DynamicGone
  <2> QED BY <1>1, <2>1, <2>2 DEF LifeTypes, MPCs, NothingEarly, Resources, Going, DynamicGone,
             StaticGone, Early, Freed
<1> QED BY <1>2, <1>3 DEF Load

\* Steps of cleanup_module().
LEMMA UnloadStep ==
  ASSUME LifeInv, Unload
  PROVE  LifeInv'
<1> USE DEF LifeInv, res, inst, trc, cli, Step, At
<1>1. UNCHANGED <<us_pid, client, nl, probe>>
  BY DEF Unload, DeleteModule, RemoveDynprobes, UnregisterDyn, Synchronized, Unregister,
     RemoveProc, Vfree, ReleaseSocket, TaskletKill, Gone
<1>2. /\ mpc \notin Early /\ mpc' \in MPCs \ Early
      /\ regs' \subseteq regs /\ (kprobe' => kprobe) /\ kprobe' \in BOOLEAN
      /\ proc' \subseteq proc
  <2>1. mpc \notin Early /\ mpc' \in MPCs \ Early
    BY DEF Unload, DeleteModule, RemoveDynprobes, UnregisterDyn, Synchronized, Unregister,
       RemoveProc, Vfree, ReleaseSocket, TaskletKill, Gone, MPCs, Early, Freed
  <2>2. CASE UnregisterDyn
    BY <2>1, <2>2 DEF UnregisterDyn, LifeTypes
  <2>3. CASE Unregister
    <3>1. regs' \subseteq regs /\ kprobe' = kprobe /\ proc' = proc
      BY <2>3 DEF Unregister
    <3> QED BY <2>1, <3>1 DEF LifeTypes
  <2>4. CASE ~(UnregisterDyn \/ Unregister)
    BY <2>1, <2>4 DEF Unload, DeleteModule, RemoveDynprobes, Synchronized, RemoveProc, Vfree,
       ReleaseSocket, TaskletKill, Gone, LifeTypes
  <2> QED BY <2>2, <2>3, <2>4
<1>3. LifeTypes' /\ NothingEarly'
  BY <1>1, <1>2 DEF LifeTypes, NothingEarly
<1>4. Resources'
  <2>1. CASE DeleteModule
    BY <1>1, <2>1 DEF DeleteModule, InUse, Resources, Going, Early, Freed
  <2>2. CASE ~DeleteModule
    <3>1. Going /\ Going'
      BY <2>2 DEF Unload, RemoveDynprobes, UnregisterDyn, Synchronized, Unregister, RemoveProc,
         Vfree, ReleaseSocket, TaskletKill, Gone, Going
    <3>2. /\ mpc' \notin Freed => mpc \notin Freed /\ buf' = buf /\ nl_sk' = nl_sk
          /\ mpc' = "release" => mpc = "vfree" /\ nl_sk' = nl_sk
      BY <2>2 DEF Unload, RemoveDynprobes, UnregisterDyn, Synchronized, Unregister, RemoveProc,
         Vfree, ReleaseSocket, TaskletKill, Gone, Freed
    <3> QED BY <1>1, <1>2, <3>1, <3>2 DEF Resources, Early, Freed
  <2> QED BY <2>1, <2>2
<1>5. DynamicGone'
  <2>1. CASE DeleteModule \/ RemoveDynprobes
    BY <1>1, <2>1 DEF DeleteModule, RemoveDynprobes, DynamicGone
  <2>2. CASE UnregisterDyn
    <3>1. \A p \in CPUs : probe[p].what = "kprobe" => p \in waiting'
      BY <2>2 DEF UnregisterDyn, Busy, Idle, None
    <3> QED BY <1>1, <2>2, <3>1 DEF UnregisterDyn, DynamicGone
  <2>3. CASE Synchronized
    BY <1>1, <2>3 DEF Synchronized, DynamicGone
  <2>4. CASE Unregister \/ RemoveProc \/ Vfree \/ ReleaseSocket \/ TaskletKill \/ Gone
    <3>1. mpc \notin {"up", "remove_dyn", "unregister_dyn", "sync_dyn"}
      BY <2>4 DEF Unregister, RemoveProc, Vfree, ReleaseSocket, TaskletKill, Gone
    <3> QED BY <1>1, <1>2, <3>1 DEF DynamicGone
  <2> QED BY <2>1, <2>2, <2>3, <2>4 DEF Unload
<1>6. StaticGone'
  <2>1. CASE TaskletKill
    <3>1. \A p \in CPUs : probe[p].what \in Tracepoints => p \in waiting'
      BY <2>1, LifeAssumption DEF TaskletKill, synchronize, Busy, Idle, None
    <3> QED BY <1>1, <2>1, <3>1 DEF TaskletKill, StaticGone, Freed
  <2>2. CASE Gone
    BY <1>1, <2>2 DEF Gone, StaticGone, Freed
  <2>3. CASE Unregister
    BY <1>1, <1>2, <2>3 DEF Unregister, StaticGone, Freed
  <2>4. CASE ~(TaskletKill \/ Gone \/ Unregister)
    <3>1. /\ mpc' \notin {"sync", "gone"} /\ regs' = regs
          /\ mpc' \in {"remove", "vfree"} \cup Freed => mpc \in {"remove", "vfree"} \cup Freed
      BY <2>4 DEF Unload, DeleteModule, RemoveDynprobes, UnregisterDyn, Synchronized, RemoveProc,
         Vfree, ReleaseSocket, Freed
    <3> QED BY <1>1, <3>1 DEF StaticGone
  <2> QED BY <2>1, <2>2, <2>3, <2>4
<1> QED BY <1>3, <1>4, <1>5, <1>6

LEMMA LifeStep == LifeInv /\ [Next]_vars => LifeInv'
<1> SUFFICES ASSUME LifeInv, [Next]_vars
             PROVE  LifeInv'
  OBVIOUS
<1>1. CASE UNCHANGED vars
  BY <1>1 DEF vars, mod, res, inst, trc, cli, LifeInv, LifeTypes, NothingEarly, Resources,
     DynamicGone, StaticGone, Idle, Going
<1> QED BY <1>1, ProbeStep, UserStep, LoadStep, UnloadStep DEF Next

\* Whatever initialize_tracer() ran out of, a static probe that runs before
\* unloading begins, a dynamic probe at any time and nl_rcv_func() at any time
\* find the buffer, and the last one its socket.  Nothing is said of static
\* probes during unload, which the code lets write to the freed buffer.
THEOREM BufferLives == UnloadSpec => []BufferLive
<1>1. LifeInv => BufferLive
  <2> SUFFICES ASSUME LifeInv
               PROVE  BufferLive
    OBVIOUS
  <2> USE DEF LifeInv
  <2>1. ASSUME NEW p \in CPUs, Writing(p), ~Going \/ probe[p].what = "kprobe"
        PROVE  buf = "live"
    <3>1. mpc \notin Early
      BY <2>1 DEF NothingEarly, Idle, None, Writing
    <3>2. mpc \notin Freed
      BY <2>1, <3>1 DEF DynamicGone, Freed, Going
    <3> QED BY <3>1, <3>2 DEF Resources
  <2>2. nl => buf = "live" /\ nl_sk = "live"
    BY DEF Resources, NothingEarly, Going, Early, Freed, LifeTypes
  <2> QED BY <2>1, <2>2 DEF BufferLive
<1>2. UnloadInit => LifeInv
  BY LifeInit DEF UnloadInit
<1>3. LifeInv /\ [UnloadNext]_all_vars => LifeInv'
  BY LifeStep, Steps
<1> QED BY <1>1, <1>2, <1>3, PTL DEF UnloadSpec

\* When the text of the module is freed, no probe of it runs or can start on
\* any CPU, but for those of the tracepoints deactivate_static_probes()
\* forgets: the two waits of cleanup_module() cover all others.
THEOREM TextIsUnused == UnloadSpec => []TextUnused
<1>1. LifeInv => TextUnused
  BY DEF LifeInv, DynamicGone, StaticGone, TextUnused, Freed
<1>2. UnloadInit => LifeInv
  BY LifeInit DEF UnloadInit
<1>3. LifeInv /\ [UnloadNext]_all_vars => LifeInv'
  BY LifeStep, Steps
<1> QED BY <1>1, <1>2, <1>3, PTL DEF UnloadSpec
-----------------------------------------------------------------------------
(* The table of dynamic probes                                             *)

\* Nothing keeps two processes from writing to /proc/dynprobes at once, and
\* add_probe() does not lock the table: what follows is about one at a time.
OneWriter == \A v, w \in Writers : v = w

\* The writer is in add_probe(), past the test for a free slot.
Adding(w) == wpc[w] \in {"rp", "jp", "next"}

DynTypes ==
  /\ lastprobe \in 0 .. MAX_PROBES - 1
  /\ kprobes \in [D!Slots -> [D!Kinds -> Addrs \cup {0}]]
  /\ wpc \in [Writers -> {"idle", "rp", "jp", "next"}]
  /\ req \in [Writers -> [addr : Addrs \cup {0}, extractor : BOOLEAN]]
  /\ cpc \in {"up", "loop", "done"}
  /\ i \in Nat
  /\ cpc = "up" => i = 0

\* The last slot stays free, and nobody writes once the /proc entry is gone.
LastSlotFree ==
  \A w \in Writers : Adding(w) => lastprobe < MAX_PROBES - 1 /\ cpc = "up"

\* The kernel knows no probe that the table does not note with its address:
\* a refused registration only ever overwrites the note of an unused slot.
\* Behind the cleanup loop there is none left.
Kept(a) ==
  /\ a \in D!Slots \X D!Kinds \X (Addrs \cup {0})
  /\ kprobes[a[1]][a[2]] = a[3]
  /\ \/ a[1] < lastprobe
     \/ /\ a[1] = lastprobe
        /\ \E w \in Writers : wpc[w] = "next" \/ (wpc[w] = "jp" /\ a[2] = "rp")
  /\ cpc # "up" => a[1] >= i
  /\ cpc # "done"
ArmedNoted == \A a \in armed : Kept(a)

DynInv == DynTypes /\ LastSlotFree /\ ArmedNoted

LEMMA DynInit == D!Init => DynInv
BY TableAssumption DEF D!Init, D!Slots, D!Kinds, DynInv, DynTypes, LastSlotFree, ArmedNoted, Adding

\* A probe goes into a slot and kind the kernel knows nothing of.
LEMMA InstallStep ==
  ASSUME OneWriter, DynInv, NEW w \in Writers, NEW k \in D!Kinds,
         wpc[w] = k, NEW l \in {"jp", "next"}, l = "jp" => k = "rp",
         D!Install(w, k, l), UNCHANGED <<lastprobe, req, requests, cpc, i>>
  PROVE  DynInv'
<1> USE DEF DynInv
<1>1. Adding(w) /\ lastprobe \in D!Slots /\ lastprobe < MAX_PROBES - 1 /\ cpc = "up"
  BY TableAssumption DEF LastSlotFree, Adding, D!Kinds, D!Slots, DynTypes
<1>2. req[w].addr \in Addrs \cup {0}
  BY DEF DynTypes
<1>3. /\ wpc' = [wpc EXCEPT ![w] = l]
      /\ kprobes' = [kprobes EXCEPT ![lastprobe][k] = req[w].addr]
      /\ armed' \subseteq armed \cup {<<lastprobe, k, req[w].addr>>}
  BY DEF D!Install, D!Goto, D!Note, D!register
<1>4. DynTypes' /\ LastSlotFree'
  BY <1>1, <1>2, <1>3 DEF DynTypes, LastSlotFree, Adding, OneWriter
<1>5. \A a \in armed : ~(a[1] = lastprobe /\ a[2] = k)
  BY TableAssumption DEF ArmedNoted, Kept, OneWriter, D!Kinds, DynTypes
<1>6. ASSUME NEW a \in armed
      PROVE  Kept(a)'
  <2>1. Kept(a) /\ ~(a[1] = lastprobe /\ a[2] = k)
    BY <1>5 DEF ArmedNoted
  <2>2. kprobes'[a[1]][a[2]] = a[3]
    BY <1>3, <2>1 DEF Kept, DynTypes
  <2>3. a[1] < lastprobe \/ (a[1] = lastprobe /\ k = "jp" /\ l = "next")
    BY <2>1 DEF Kept, OneWriter, D!Kinds
  <2> QED BY <1>1, <1>3, <2>1, <2>2, <2>3 DEF Kept, DynTypes
<1>7. ASSUME NEW a, a = <<lastprobe, k, req[w].addr>>
      PROVE  Kept(a)'
  <2>1. a[1] = lastprobe /\ a[2] = k /\ a[3] = req[w].addr
    BY <1>7
  <2>2. a \in D!Slots \X D!Kinds \X (Addrs \cup {0})
    BY <1>1, <1>2, <1>7
  <2>3. kprobes'[a[1]][a[2]] = a[3]
    BY <1>1, <1>3, <2>1 DEF DynTypes
  <2>4. wpc'[w] = "next" \/ (wpc'[w] = "jp" /\ a[2] = "rp")
    BY <1>3, <2>1 DEF DynTypes
  <2> QED BY <1>1, <2>1, <2>2, <2>3, <2>4 DEF Kept
<1>8. ArmedNoted'
  BY <1>3, <1>6, <1>7 DEF ArmedNoted
<1> QED BY <1>4, <1>8

LEMMA DynStep ==
  ASSUME OneWriter
  PROVE  DynInv /\ [D!Next]_dynprobes => DynInv'
<1> SUFFICES ASSUME DynInv, [D!Next]_dynprobes
             PROVE  DynInv'
  OBVIOUS
<1> USE DEF DynInv
<1>1. ASSUME NEW w \in Writers, NEW a \in Addrs, NEW x \in BOOLEAN, D!add_probe(w, a, x)
      PROVE  DynInv'
  <2>1. /\ cpc = "up" /\ wpc[w] = "idle"
        /\ wpc' = [wpc EXCEPT ![w] = IF lastprobe < MAX_PROBES - 1 THEN "rp" ELSE "idle"]
        /\ req' = [req EXCEPT ![w] = [addr |-> a, extractor |-> x]]
        /\ UNCHANGED <<lastprobe, kprobes, armed, cpc, i>>
    BY <1>1 DEF D!add_probe, D!Goto, D!Room
  <2>2. DynTypes' /\ LastSlotFree'
    BY <2>1 DEF DynTypes, LastSlotFree, Adding
  <2>3. ArmedNoted'
    BY <2>1 DEF ArmedNoted, Kept, DynTypes, OneWriter
  <2> QED BY <2>2, <2>3
<1>2. ASSUME NEW w \in Writers, D!InstallReturn(w)
      PROVE  DynInv'
  BY <1>2, InstallStep DEF D!InstallReturn, D!Kinds
<1>3. ASSUME NEW w \in Writers, D!InstallExtractor(w)
      PROVE  DynInv'
  BY <1>3, InstallStep DEF D!InstallExtractor, D!Kinds
<1>4. ASSUME NEW w \in Writers, D!NextSlot(w)
      PROVE  DynInv'
  <2>1. /\ wpc[w] = "next" /\ wpc' = [wpc EXCEPT ![w] = "idle"] /\ lastprobe' = lastprobe + 1
        /\ UNCHANGED <<kprobes, armed, req, cpc, i>>
    BY <1>4 DEF D!NextSlot, D!Goto
  <2>2. lastprobe < MAX_PROBES - 1 /\ cpc = "up"
    BY <2>1 DEF LastSlotFree, Adding
  <2>3. DynTypes' /\ LastSlotFree'
    BY <2>1, <2>2, TableAssumption DEF DynTypes, LastSlotFree, Adding, OneWriter
  <2>4. ASSUME NEW a \in armed
        PROVE  Kept(a)'
    <3>1. Kept(a) /\ a[1] \in Int
      BY DEF ArmedNoted, Kept, D!Slots
    <3>2. a[1] < lastprobe'
      BY <2>1, <3>1 DEF Kept, DynTypes
    <3> QED BY <2>1, <3>1, <3>2 DEF Kept
  <2> QED BY <2>1, <2>3, <2>4 DEF ArmedNoted
<1>5. CASE D!RemoveEntry
  <2>1. /\ cpc = "up" /\ cpc' = "loop" /\ \A w \in Writers : wpc[w] = "idle"
        /\ UNCHANGED <<lastprobe, kprobes, armed, wpc, req, i>>
    BY <1>5 DEF D!RemoveEntry
  <2>2. ASSUME NEW a \in armed
        PROVE  Kept(a)'
    <3>1. Kept(a) /\ a[1] >= i
      BY <2>1 DEF ArmedNoted, Kept, D!Slots, DynTypes
    <3> QED BY <2>1, <3>1 DEF Kept
  <2> QED BY <2>1, <2>2 DEF ArmedNoted, DynTypes, LastSlotFree, Adding
<1>6. CASE D!Unregister
  <2>1. /\ cpc = "loop" /\ i \in D!Slots /\ armed' = armed \ D!Noted(i) /\ i' = i + 1
        /\ UNCHANGED <<lastprobe, kprobes, wpc, req, cpc>>
    BY <1>6 DEF D!Unregister
  <2>2. ASSUME NEW a \in armed'
        PROVE  Kept(a)'
    <3>1. Kept(a) /\ a \notin D!Noted(i) /\ a[1] \in Int
      BY <2>1 DEF ArmedNoted, Kept, D!Slots
    <3>2. a[1] # i
      BY <3>1 DEF Kept, D!Noted
    <3>3. a[1] >= i'
      BY <2>1, <3>1, <3>2 DEF Kept, DynTypes
    <3> QED BY <2>1, <3>1, <3>3 DEF Kept
  <2> QED BY <2>1, <2>2 DEF ArmedNoted, DynTypes, LastSlotFree, Adding
<1>7. CASE D!Done
  <2>1. /\ cpc = "loop" /\ i > lastprobe /\ cpc' = "done"
        /\ UNCHANGED <<lastprobe, kprobes, armed, wpc, req, i>>
    BY <1>7 DEF D!Done
  <2>2. armed = {}
    BY <2>1 DEF ArmedNoted, Kept, DynTypes, D!Slots
  <2> QED BY <2>1, <2>2 DEF ArmedNoted, DynTypes, LastSlotFree, Adding
<1>8. CASE UNCHANGED dynprobes
  BY <1>8 DEF dynprobes, DynTypes, LastSlotFree, Adding, ArmedNoted, Kept
<1> QED BY <1>1, <1>2, <1>3, <1>4, <1>5, <1>6, <1>7, <1>8 DEF D!Next

\* The cleanup loop, which runs one slot past those in use, stays in the
\* table for a table of any size: add_probe() never uses the last slot.
THEOREM LoopStaysInTable ==
  ASSUME OneWriter
  PROVE  UnloadSpec => []LoopInTable
<1>1. DynInv => LoopInTable
  BY TableAssumption DEF DynInv, DynTypes, LoopInTable, D!LoopInTable, D!Slots
<1>2. UnloadInit => DynInv
  BY DynInit DEF UnloadInit
<1>3. DynInv /\ [UnloadNext]_all_vars => DynInv'
  BY DynStep, Steps
<1> QED BY <1>1, <1>2, <1>3, PTL DEF UnloadSpec

\* After the cleanup the kernel knows no probe of the table, whichever
\* registrations it refused before: the address noted in a slot is that of
\* the probe the kernel has there.
THEOREM NothingStaysArmed ==
  ASSUME OneWriter
  PROVE  UnloadSpec => []NoneLeftArmed
<1>1. DynInv => NoneLeftArmed
  BY DEF DynInv, ArmedNoted, Kept, NoneLeftArmed, D!NoneLeftArmed
<1>2. UnloadInit => DynInv
  BY DynInit DEF UnloadInit
<1>3. DynInv /\ [UnloadNext]_all_vars => DynInv'
  BY DynStep, Steps
<1> QED BY <1>1, <1>2, <1>3, PTL DEF UnloadSpec
-----------------------------------------------------------------------------
(* Tasklets                                                                *)

Where == {"marked", "vec", "list"}

\* Tasklet t waits to be run in place n of a queue of CPU c: it is yet to be
\* put into tasklet_vec, is in it, or is in the list of tasklet_action(),
\* which keeps the one that runs at its head.
Queued(t, c, k, n) ==
  \/ k = "marked" /\ n = 1 /\ t \in marked[c]
  \/ k = "vec" /\ n \in 1 .. Len(tasklet_vec[c]) /\ tasklet_vec[c][n] = t
  \/ /\ k = "list" /\ n \in 1 .. Len(list[c]) /\ list[c][n] = t
     /\ pc[c] = "func" => n # 1

Locks(c) == pc[c] \in {"count", "clear", "func", "unlock"}

TaskTypes ==
  /\ SCHED \subseteq Tasklets /\ RUN \subseteq Tasklets
  /\ marked \in [CPUs -> SUBSET Tasklets]
  /\ tasklet_vec \in [CPUs -> Seq(Tasklets)]
  /\ list \in [CPUs -> Seq(Tasklets)]
  /\ pc \in [CPUs -> {"idle", "take", "loop", "requeue", "count", "clear", "func", "unlock"}]
  /\ kpc \in [Tasklets -> {"alive", "sched", "run", "killed"}]
  /\ \A c \in CPUs : list[c] = <<>> => pc[c] \in {"idle", "take", "loop"}

\* A tasklet waits in one place of one queue at most ...
OnePlace ==
  \A t \in Tasklets : \A c, d \in CPUs : \A k, l \in Where : \A m, n \in Nat :
    Queued(t, c, k, m) /\ Queued(t, d, l, n) => c = d /\ k = l /\ m = n

\* ... and only with its SCHED bit set, which tasklet_kill() takes last.
QueuedSched ==
  \A t \in Tasklets : \A c \in CPUs : \A k \in Where : \A n \in Nat :
    Queued(t, c, k, n) => t \in SCHED /\ kpc[t] \in {"alive", "sched"}

\* The RUN bit is a lock: the CPU that has it is the only one.
RunLocks ==
  /\ \A c \in CPUs : Locks(c) => Head(list[c]) \in RUN
  /\ \A c, d \in CPUs : Locks(c) /\ Locks(d) /\ Head(list[c]) = Head(list[d]) => c = d
  /\ \A t \in Tasklets : kpc[t] = "killed" => t \notin RUN

TaskInv == TaskTypes /\ OnePlace /\ QueuedSched /\ RunLocks /\ ~bug

LEMMA TaskInit == T!Init => TaskInv
<1> SUFFICES ASSUME T!Init
             PROVE  TaskInv
  OBVIOUS
<1>1. TaskTypes /\ RunLocks /\ ~bug
  BY DEF T!Init, TaskTypes, RunLocks, Locks
<1>2. \A t \in Tasklets : \A c \in CPUs : \A k \in Where : \A n \in Nat : ~Queued(t, c, k, n)
  BY DEF T!Init, Queued
<1> QED BY <1>1, <1>2 DEF TaskInv, OnePlace, QueuedSched

\* The head of a list that is being worked on, and what is behind it.
LEMMA Heads ==
  ASSUME TaskTypes, NEW c \in CPUs, list[c] # <<>>
  PROVE  /\ Head(list[c]) \in Tasklets /\ Head(list[c]) = list[c][1]
         /\ Len(list[c]) \in Nat \ {0}
         /\ Tail(list[c]) \in Seq(Tasklets) /\ Len(Tail(list[c])) = Len(list[c]) - 1
         /\ \A n \in 1 .. Len(list[c]) - 1 : Tail(list[c])[n] = list[c][n + 1]
BY DEF TaskTypes

\* Steps after which every tasklet that waits has waited in the same place.
LEMMA SameQueues ==
  ASSUME TaskInv, TaskTypes',
         \A t \in Tasklets : \A c \in CPUs : \A k \in Where : \A n \in Nat :
           Queued(t, c, k, n)' => /\ Queued(t, c, k, n)
                                  /\ t \in SCHED => t \in SCHED'
                                  /\ kpc[t] \in {"alive", "sched"} => kpc'[t] \in {"alive", "sched"}
  PROVE  OnePlace' /\ QueuedSched'
<1>1. OnePlace'
  BY DEF TaskInv, OnePlace
<1>2. QueuedSched'
  BY DEF TaskInv, QueuedSched
<1> QED BY <1>1, <1>2

\* tasklet_schedule() and the section of __tasklet_schedule().
LEMMA ScheduleStep ==
  ASSUME TaskInv, NEW c \in CPUs, NEW t \in Tasklets,
         T!tasklet_schedule(c, t) \/ T!__tasklet_schedule(c, t)
  PROVE  TaskInv'
<1> USE DEF TaskInv
<1>1. UNCHANGED <<RUN, kpc, pc, list, bug>>
  BY DEF T!tasklet_schedule, T!__tasklet_schedule, T!softirq
<1>2. RunLocks'
  BY <1>1 DEF RunLocks, Locks
<1>3. CASE T!tasklet_schedule(c, t)
  <2>1. /\ kpc[t] = "alive" /\ SCHED' = SCHED \cup {t} /\ tasklet_vec' = tasklet_vec
        /\ marked' = [marked EXCEPT ![c] = @ \cup ({t} \ SCHED)]
    BY <1>3 DEF T!tasklet_schedule, T!Alive, T!Marks
  <2>2. TaskTypes'
    BY <1>1, <2>1 DEF TaskTypes
  <2>3. \A s \in Tasklets : \A d \in CPUs : \A k \in Where : \A n \in Nat :
          Queued(s, d, k, n)' =>
            \/ Queued(s, d, k, n)
            \/ s = t /\ t \notin SCHED /\ d = c /\ k = "marked" /\ n = 1
    BY <1>1, <2>1 DEF Queued, TaskTypes
  <2>4. QueuedSched'
    BY <1>1, <2>1, <2>3 DEF QueuedSched
  <2>5. OnePlace'
    BY <2>3 DEF OnePlace, QueuedSched
  <2> QED BY <1>1, <1>2, <2>2, <2>4, <2>5
<1>4. CASE T!__tasklet_schedule(c, t)
  <2>1. /\ t \in marked[c] /\ SCHED' = SCHED
        /\ marked' = [marked EXCEPT ![c] = @ \ {t}]
        /\ tasklet_vec' = [tasklet_vec EXCEPT ![c] = Append(@, t)]
    BY <1>4 DEF T!__tasklet_schedule
  <2>2. TaskTypes'
    BY <1>1, <2>1 DEF TaskTypes
  <2>3. Queued(t, c, "marked", 1)
    BY <2>1 DEF Queued
  <2>4. \A s \in Tasklets : \A d \in CPUs : \A k \in Where : \A n \in Nat :
          Queued(s, d, k, n)' =>
            \/ Queued(s, d, k, n) /\ (s = t => ~(d = c /\ k = "marked" /\ n = 1))
            \/ s = t /\ d = c /\ k = "vec" /\ n = Len(tasklet_vec[c]) + 1
    BY <1>1, <2>1 DEF Queued, TaskTypes
  <2>5. QueuedSched'
    BY <1>1, <2>1, <2>3, <2>4 DEF QueuedSched, Where
  <2>6. OnePlace'
    BY <2>3, <2>4 DEF OnePlace, Where
  <2> QED BY <1>1, <1>2, <2>2, <2>5, <2>6
<1> QED BY <1>3, <1>4

\* What the softirq does before it looks at a tasklet.
LEMMA TakeStep ==
  ASSUME TaskInv, NEW c \in CPUs, T!__do_softirq(c) \/ T!tasklet_action(c) \/ T!LoopEnds(c)
  PROVE  TaskInv'
<1> USE DEF TaskInv
<1>1. /\ UNCHANGED <<SCHED, RUN, marked, kpc, bug>>
      /\ pc[c] \in {"idle", "take", "loop"}
      /\ \E l \in {"idle", "take", "loop"} : pc' = [pc EXCEPT ![c] = l]
      /\ \A d \in CPUs : d # c => list'[d] = list[d]
  BY DEF T!__do_softirq, T!tasklet_action, T!LoopEnds, T!queues, T!Goto, TaskTypes
<1>2. TaskTypes'
  <2>1. /\ tasklet_vec' \in [CPUs -> Seq(Tasklets)]
        /\ list' \in [CPUs -> Seq(Tasklets)]
    <3>1. CASE T!tasklet_action(c)
      <4>1. <<>> \in Seq(Tasklets) /\ tasklet_vec[c] \in Seq(Tasklets)
        BY DEF TaskTypes
      <4> QED BY <3>1, <4>1 DEF T!tasklet_action, TaskTypes
    <3>2. CASE T!__do_softirq(c) \/ T!LoopEnds(c)
      BY <3>2 DEF T!__do_softirq, T!LoopEnds, T!queues, TaskTypes
    <3> QED BY <3>1, <3>2
  <2>2. pc' \in [CPUs -> {"idle", "take", "loop", "requeue", "count", "clear", "func", "unlock"}]
    BY <1>1 DEF TaskTypes
  <2>3. \A d \in CPUs : list'[d] = <<>> => pc'[d] \in {"idle", "take", "loop"}
    BY <1>1 DEF TaskTypes
  <2> QED BY <1>1, <2>1, <2>2, <2>3 DEF TaskTypes
<1>3. RunLocks'
  <2>1. \A d \in CPUs : Locks(d)' => d # c /\ Locks(d) /\ list'[d] = list[d]
    BY <1>1 DEF Locks, TaskTypes
  <2> QED BY <1>1, <2>1 DEF RunLocks
<1>4. CASE T!__do_softirq(c) \/ T!LoopEnds(c)
  <2>1. UNCHANGED <<tasklet_vec, list>>
    BY <1>4 DEF T!__do_softirq, T!LoopEnds, T!queues
  <2>2. \A s \in Tasklets : \A d \in CPUs : \A k \in Where : \A n \in Nat :
          Queued(s, d, k, n)' => Queued(s, d, k, n)
    BY <1>1, <2>1 DEF Queued, TaskTypes
  <2> QED BY <1>1, <1>2, <1>3, <2>2, SameQueues
<1>5. CASE T!tasklet_action(c)
  <2>1. /\ list' = [list EXCEPT ![c] = tasklet_vec[c]]
        /\ tasklet_vec' = [tasklet_vec EXCEPT ![c] = <<>>]
    BY <1>5 DEF T!tasklet_action
  <2>2. \A s \in Tasklets : \A d \in CPUs : \A k \in Where : \A n \in Nat :
          Queued(s, d, k, n)' =>
            IF d = c /\ k = "list" THEN Queued(s, d, "vec", n)
            ELSE Queued(s, d, k, n) /\ ~(d = c /\ k = "vec")
    BY <1>1, <2>1 DEF Queued, TaskTypes
  <2>3. QueuedSched'
    BY <1>1, <2>2 DEF QueuedSched, Where
  <2>4. OnePlace'
    BY <2>2 DEF OnePlace, Where
  <2> QED BY <1>1, <1>2, <1>3, <2>3, <2>4
<1> QED BY <1>4, <1>5

\* tasklet_trylock(), and the test of t->count.
LEMMA LockStep ==
  ASSUME TaskInv, NEW c \in CPUs, T!tasklet_trylock(c) \/ T!CountRead(c)
  PROVE  TaskInv'
<1> USE DEF TaskInv
<1>1. /\ UNCHANGED <<SCHED, marked, tasklet_vec, list, kpc, bug>>
      /\ pc[c] \in {"loop", "count"} /\ list[c] # <<>>
      /\ \E l \in {"requeue", "count", "unlock", "clear"} : pc' = [pc EXCEPT ![c] = l]
  BY DEF T!tasklet_trylock, T!CountRead, T!queues, T!Goto, TaskTypes
<1>2. Queued(Head(list[c]), c, "list", 1) /\ Head(list[c]) \in Tasklets
  BY <1>1, Heads DEF Queued
<1>3. RUN' \subseteq Tasklets
  BY <1>2 DEF T!tasklet_trylock, T!CountRead, TaskTypes
<1>4. TaskTypes'
  BY <1>1, <1>3 DEF TaskTypes
<1>5. \A s \in Tasklets : \A d \in CPUs : \A k \in Where : \A n \in Nat :
        Queued(s, d, k, n)' => Queued(s, d, k, n)
  BY <1>1 DEF Queued, TaskTypes
<1>6. OnePlace' /\ QueuedSched'
  BY <1>1, <1>4, <1>5, SameQueues
<1>7. RunLocks'
  <2>1. CASE T!CountRead(c)
    <3>1. RUN' = RUN /\ Locks(c) /\ \A d \in CPUs : Locks(d)' => Locks(d)
      BY <1>1, <2>1 DEF T!CountRead, Locks, TaskTypes
    <3> QED BY <1>1, <3>1 DEF RunLocks
  <2>2. CASE T!tasklet_trylock(c)
    <3>1. /\ RUN' = RUN \cup {Head(list[c])}
          /\ pc' = [pc EXCEPT ![c] = IF Head(list[c]) \in RUN THEN "requeue" ELSE "count"]
      BY <2>2 DEF T!tasklet_trylock, T!Goto, T!Locked
    <3>2. \A d \in CPUs : Locks(d)' => Locks(d) \/ (d = c /\ Head(list[c]) \notin RUN)
      BY <3>1 DEF Locks, TaskTypes
    <3>3. kpc[Head(list[c])] # "killed"
      BY <1>2 DEF QueuedSched, Where
    <3> QED BY <1>1, <1>2, <3>1, <3>2, <3>3 DEF RunLocks
  <2> QED BY <2>1, <2>2
<1> QED BY <1>1, <1>4, <1>6, <1>7

\* test_and_clear_bit(): the bit is set, and nobody else counts on it.
LEMMA ClearStep ==
  ASSUME TaskInv, NEW c \in CPUs, T!ClearSched(c)
  PROVE  TaskInv'
<1> USE DEF TaskInv
<1>1. /\ UNCHANGED <<RUN, marked, tasklet_vec, list, kpc>>
      /\ pc[c] = "clear" /\ pc' = [pc EXCEPT ![c] = "func"] /\ list[c] # <<>>
      /\ SCHED' = SCHED \ {Head(list[c])}
      /\ bug' = (bug \/ Head(list[c]) \notin SCHED)
  BY DEF T!ClearSched, T!queues, T!Goto, TaskTypes
<1>2. Queued(Head(list[c]), c, "list", 1) /\ Head(list[c]) \in Tasklets
  BY <1>1, Heads DEF Queued
<1>3. Head(list[c]) \in SCHED /\ ~bug'
  BY <1>1, <1>2 DEF QueuedSched, Where
<1>4. TaskTypes'
  BY <1>1 DEF TaskTypes
<1>5. \A s \in Tasklets : \A d \in CPUs : \A k \in Where : \A n \in Nat :
        Queued(s, d, k, n)' => Queued(s, d, k, n) /\ ~(d = c /\ k = "list" /\ n = 1)
  BY <1>1 DEF Queued, TaskTypes
<1>6. \A s \in Tasklets : \A d \in CPUs : \A k \in Where : \A n \in Nat :
        Queued(s, d, k, n)' => s # Head(list[c])
  BY <1>2, <1>5 DEF OnePlace, Where
<1>7. OnePlace' /\ QueuedSched'
  BY <1>1, <1>4, <1>5, <1>6, SameQueues
<1>8. RunLocks'
  <2>1. \A d \in CPUs : Locks(d)' => Locks(d)
    BY <1>1 DEF Locks, TaskTypes
  <2> QED BY <1>1, <2>1 DEF RunLocks
<1> QED BY <1>3, <1>4, <1>7, <1>8

\* The tasklet is unlocked, after it ran or because it is disabled; or it is
\* put back into the queue.
LEMMA ReleaseStep ==
  ASSUME TaskInv, NEW c \in CPUs, T!tasklet_unlock(c) \/ T!Requeue(c)
  PROVE  TaskInv'
<1> USE DEF TaskInv
<1>1. /\ UNCHANGED <<SCHED, marked, kpc, bug>>
      /\ list[c] # <<>>
  BY DEF T!tasklet_unlock, T!Requeue, T!queues, TaskTypes
<1>2. CASE T!tasklet_unlock(c)
  <2>1. /\ Locks(c) /\ RUN' = RUN \ {Head(list[c])} /\ tasklet_vec' = tasklet_vec
        /\ list' = IF pc[c] = "func" THEN [list EXCEPT ![c] = Tail(list[c])] ELSE list
        /\ pc' = [pc EXCEPT ![c] = IF pc[c] = "func" THEN "loop" ELSE "requeue"]
    BY <1>2 DEF T!tasklet_unlock, T!Goto, T!queues, Locks
  <2>2. TaskTypes'
    BY <1>1, <2>1, Heads DEF TaskTypes
  <2>3. RunLocks'
    <3>1. \A d \in CPUs : Locks(d)' => d # c /\ Locks(d) /\ list'[d] = list[d]
      BY <2>1 DEF Locks, TaskTypes
    <3> QED BY <1>1, <2>1, <3>1 DEF RunLocks
  <2>4. CASE pc[c] = "func"
    <3>1. \A s \in Tasklets : \A d \in CPUs : \A k \in Where : \A n \in Nat :
            Queued(s, d, k, n)' => Queued(s, d, k, IF d = c /\ k = "list" THEN n + 1 ELSE n)
      BY <1>1, <2>1, <2>4, Heads DEF Queued, TaskTypes
    <3>2. OnePlace'
      BY <3>1 DEF OnePlace
    <3>3. QueuedSched'
      BY <1>1, <3>1 DEF QueuedSched
    <3> QED BY <1>1, <2>2, <2>3, <3>2, <3>3
  <2>5. CASE pc[c] # "func"
    <3>1. \A s \in Tasklets : \A d \in CPUs : \A k \in Where : \A n \in Nat :
            Queued(s, d, k, n)' => Queued(s, d, k, n)
      BY <1>1, <2>1, <2>5 DEF Queued, TaskTypes
    <3> QED BY <1>1, <2>2, <2>3, <3>1, SameQueues
  <2> QED BY <2>4, <2>5
<1>3. CASE T!Requeue(c)
  <2>1. /\ pc[c] = "requeue" /\ RUN' = RUN
        /\ list' = [list EXCEPT ![c] = Tail(list[c])]
        /\ tasklet_vec' = [tasklet_vec EXCEPT ![c] = Append(@, Head(list[c]))]
        /\ pc' = [pc EXCEPT ![c] = "loop"]
    BY <1>3 DEF T!Requeue, T!Goto
  <2>2. TaskTypes'
    BY <1>1, <2>1, Heads DEF TaskTypes
  <2>3. RunLocks'
    <3>1. \A d \in CPUs : Locks(d)' => d # c /\ Locks(d) /\ list'[d] = list[d]
      BY <2>1 DEF Locks, TaskTypes
    <3> QED BY <1>1, <2>1, <3>1 DEF RunLocks
  <2>4. Queued(Head(list[c]), c, "list", 1)
    BY <1>1, <2>1, Heads DEF Queued
  <2>5. \A s \in Tasklets : \A d \in CPUs : \A k \in Where : \A n \in Nat :
          Queued(s, d, k, n)' =>
            \/ Queued(s, d, k, IF d = c /\ k = "list" THEN n + 1 ELSE n) /\ n > 0
            \/ s = Head(list[c]) /\ d = c /\ k = "vec" /\ n = Len(tasklet_vec[c]) + 1
    BY <1>1, <2>1, Heads DEF Queued, TaskTypes
  <2>6. QueuedSched'
    BY <1>1, <2>4, <2>5 DEF QueuedSched, Where
  <2>7. OnePlace'
    BY <2>4, <2>5 DEF OnePlace, Where
  <2> QED BY <1>1, <2>2, <2>3, <2>6, <2>7
<1> QED BY <1>2, <1>3

\* tasklet_disable_nosync(), tasklet_enable() and tasklet_kill().
LEMMA KillStep ==
  ASSUME TaskInv, NEW t \in Tasklets,
         \/ T!tasklet_disable_nosync(t) \/ T!tasklet_enable(t)
         \/ T!tasklet_kill(t) \/ T!KillSched(t) \/ T!KillRun(t)
  PROVE  TaskInv'
<1> USE DEF TaskInv
<1>1. UNCHANGED <<RUN, marked, tasklet_vec, pc, list, bug>>
  BY DEF T!tasklet_disable_nosync, T!tasklet_enable, T!tasklet_kill, T!KillSched, T!KillRun,
     T!queues, T!softirq
<1>2. \A s \in Tasklets : \A d \in CPUs : \A k \in Where : \A n \in Nat :
        Queued(s, d, k, n)' = Queued(s, d, k, n)
  BY <1>1 DEF Queued
<1>3. CASE T!tasklet_disable_nosync(t) \/ T!tasklet_enable(t) \/ T!tasklet_kill(t)
  <2>1. /\ SCHED' = SCHED
        /\ \/ kpc' = kpc
           \/ kpc[t] = "alive" /\ kpc' = [kpc EXCEPT ![t] = "sched"]
    BY <1>3 DEF T!tasklet_disable_nosync, T!tasklet_enable, T!tasklet_kill, T!Alive
  <2>2. TaskTypes' /\ RunLocks'
    BY <1>1, <2>1 DEF TaskTypes, RunLocks, Locks
  <2>3. OnePlace' /\ QueuedSched'
    BY <1>2, <2>1, <2>2, SameQueues DEF TaskTypes
  <2> QED BY <1>1, <2>2, <2>3
<1>4. CASE T!KillSched(t) \/ T!KillRun(t)
  <2>1. \/ /\ kpc[t] = "sched" /\ t \notin SCHED /\ SCHED' = SCHED \cup {t}
           /\ kpc' = [kpc EXCEPT ![t] = "run"]
        \/ /\ kpc[t] = "run" /\ t \notin RUN /\ SCHED' = SCHED \ {t}
           /\ kpc' = [kpc EXCEPT ![t] = "killed"]
    BY <1>4 DEF T!KillSched, T!KillRun, T!Quiet
  <2>2. \A d \in CPUs : \A k \in Where : \A n \in Nat : ~Queued(t, d, k, n)
    BY <2>1 DEF QueuedSched
  <2>3. TaskTypes'
    BY <1>1, <2>1 DEF TaskTypes
  <2>4. RunLocks'
    BY <1>1, <2>1 DEF RunLocks, Locks, TaskTypes
  <2>5. OnePlace' /\ QueuedSched'
    BY <1>2, <2>1, <2>2, <2>3, SameQueues DEF TaskTypes
  <2> QED BY <1>1, <2>3, <2>4, <2>5
<1> QED BY <1>3, <1>4

LEMMA TaskStep == TaskInv /\ [T!Next]_tasklets => TaskInv'
<1> SUFFICES ASSUME TaskInv, [T!Next]_tasklets
             PROVE  TaskInv'
  OBVIOUS
<1>1. ASSUME NEW c \in CPUs, T!Softirq(c)
      PROVE  TaskInv'
  BY <1>1, TakeStep, LockStep, ClearStep, ReleaseStep DEF T!Softirq
<1>2. CASE UNCHANGED tasklets
  <2>1. UNCHANGED <<SCHED, RUN, marked, tasklet_vec, pc, list, kpc, bug>>
    BY <1>2 DEF tasklets
  <2>2. TaskTypes' /\ RunLocks' /\ ~bug'
    BY <2>1 DEF TaskInv, TaskTypes, RunLocks, Locks
  <2>3. \A s \in Tasklets : \A d \in CPUs : \A k \in Where : \A n \in Nat :
          Queued(s, d, k, n)' => Queued(s, d, k, n)
    BY <2>1 DEF Queued
  <2> QED BY <2>1, <2>2, <2>3, SameQueues DEF TaskInv
<1> QED BY <1>1, <1>2, ScheduleStep, KillStep DEF T!Next

\* On any number of CPUs and with any interrupts between two of its steps,
\* tasklet_action() does not reach its BUG() and no tasklet runs on two CPUs
\* at once: a tasklet waits in one place at most, only with its SCHED bit set,
\* and its RUN bit is a lock.
THEOREM TaskletsExclusive == UnloadSpec => []Exclusive
<1>1. TaskInv => Exclusive
  <2> SUFFICES ASSUME TaskInv
               PROVE  Exclusive
    OBVIOUS
  <2>1. ASSUME NEW t \in Tasklets
        PROVE  Cardinality(T!InFunc(t)) <= 1
    <3>1. \A c, d \in T!InFunc(t) : c = d
      BY DEF T!InFunc, TaskInv, RunLocks, Locks
    <3>2. CASE T!InFunc(t) = {}
      BY <3>2, FS_EmptySet
    <3>3. CASE T!InFunc(t) # {}
      <4>1. PICK c : T!InFunc(t) = {c}
        BY <3>1, <3>3
      <4>2. Cardinality({c}) = 1
        BY FS_Singleton
      <4> QED BY <4>1, <4>2
    <3> QED BY <3>2, <3>3
  <2>2. ~bug
    BY DEF TaskInv
  <2>3. \A t \in Tasklets : T!Cardinality(T!InFunc(t)) = Cardinality(T!InFunc(t))
    BY DEF T!Cardinality, Cardinality
  <2> QED BY <2>1, <2>2, <2>3 DEF Exclusive, T!Exclusive
<1>2. UnloadInit => TaskInv
  BY TaskInit DEF UnloadInit
<1>3. TaskInv /\ [UnloadNext]_all_vars => TaskInv'
  BY TaskStep, Steps
<1> QED BY <1>1, <1>2, <1>3, PTL DEF UnloadSpec

\* Once tasklet_kill() has returned its tasklet runs nowhere and waits
\* nowhere: taking the SCHED bit keeps it from every queue, and only then
\* does tasklet_kill() wait for the RUN bit.
THEOREM KilledStaysGone == UnloadSpec => []KilledGone
<1>1. TaskInv => KilledGone
  <2> SUFFICES ASSUME TaskInv, NEW t \in Tasklets, kpc[t] = "killed"
               PROVE  /\ T!InFunc(t) = {}
                      /\ \A c \in CPUs :
                           /\ t \notin marked[c]
                           /\ \A n \in 1 .. Len(tasklet_vec[c]) : tasklet_vec[c][n] # t
                           /\ \A n \in 1 .. Len(list[c]) : list[c][n] # t
    BY DEF KilledGone, T!KilledGone
  <2> USE DEF TaskInv
  <2>1. \A c \in CPUs : \A k \in Where : \A n \in Nat : ~Queued(t, c, k, n)
    BY DEF QueuedSched
  <2>2. \A d \in CPUs : Locks(d) => Head(list[d]) # t
    BY DEF RunLocks
  <2>3. T!InFunc(t) = {}
    BY <2>2 DEF T!InFunc, Locks
  <2>4. ASSUME NEW c \in CPUs
        PROVE  t \notin marked[c] /\ \A n \in 1 .. Len(tasklet_vec[c]) : tasklet_vec[c][n] # t
    BY <2>1 DEF Queued, Where, TaskTypes
  <2>5. ASSUME NEW c \in CPUs, NEW n \in 1 .. Len(list[c])
        PROVE  list[c][n] # t
    <3>1. CASE pc[c] = "func" /\ n = 1
      BY <2>2, <3>1, Heads DEF Locks, TaskTypes
    <3>2. CASE ~(pc[c] = "func" /\ n = 1)
      BY <2>1, <3>2 DEF Queued, Where, TaskTypes
    <3> QED BY <3>1, <3>2
  <2> QED BY <2>3, <2>4, <2>5
<1>2. UnloadInit => TaskInv
  BY TaskInit DEF UnloadInit
<1>3. TaskInv /\ [UnloadNext]_all_vars => TaskInv'
  BY TaskStep, Steps
<1> QED BY <1>1, <1>2, <1>3, PTL DEF UnloadSpec
=============================================================================
