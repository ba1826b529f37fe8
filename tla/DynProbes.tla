------------------------------ MODULE DynProbes ------------------------------
(***************************************************************************)
(* The table of dynamic probes: dynamic.c.  A write to /proc/dynprobes     *)
(* names a function and possibly a packet extractor; add_probe() installs  *)
(* a kretprobe on it, and a jprobe for the extractor, in the next slot.    *)
(* cleanup_dynamic_probing() unregisters what the table says.              *)
(*                                                                         *)
(* The kernel knows a probe by its structure (slot and kind) and finds it  *)
(* by the address noted there (kernel/kprobes.c).                          *)
(***************************************************************************)
EXTENDS Integers, FiniteSets

CONSTANTS
  MAX_PROBES,  \* slots of the table
  Addrs,       \* addresses of functions, not 0
  Writers,     \* processes that write to /proc/dynprobes
  MaxRequests  \* bound: writes

VARIABLES
  lastprobe, \* the next slot
  kprobes,   \* slot -> kind -> address noted; 0: none
  armed,     \* <<slot, kind, address>> known to the kernel
  wpc, req,  \* per writer: where in add_probe(), and what was asked for
  requests,  \* writes so far
  cpc, i     \* where in cleanup_dynamic_probing()

vars == <<lastprobe, kprobes, armed, wpc, req, requests, cpc, i>>

Slots == 0 .. MAX_PROBES - 1
Kinds == {"rp", "jp"}
Goto(w, l) == wpc' = [wpc EXCEPT ![w] = l]

\* Fault: the last slot is used too.
Room_OffByOne == lastprobe < MAX_PROBES
Room == lastprobe < MAX_PROBES - 1

\* add_probe(), up to the test for a free slot.
add_probe(w, a, extractor) ==
  /\ cpc = "up"
  /\ wpc[w] = "idle"
  /\ requests < MaxRequests
  /\ requests' = requests + 1
  /\ Goto(w, IF Room THEN "rp" ELSE "idle")
  /\ req' = [req EXCEPT ![w] = [addr |-> a, extractor |-> extractor]]
  /\ UNCHANGED <<lastprobe, kprobes, armed, cpc, i>>

\* register_kretprobe(), register_jprobe(): refused for a structure that is
\* registered at that address, for a bad address, or for lack of memory.
register(s, k, a) ==
  \/ armed' = armed
  \/ <<s, k, a>> \notin armed /\ armed' = armed \cup {<<s, k, a>>}

Note(w, k) == kprobes' = [kprobes EXCEPT ![lastprobe][k] = req[w].addr]

\* Fault: the result is compared as a signed number, so that a refusal ends
\* add_probe() with lastprobe unchanged.
Install_Signed(w, k, l) ==
  \/ /\ <<lastprobe, k, req[w].addr>> \notin armed
     /\ armed' = armed \cup {<<lastprobe, k, req[w].addr>>}
     /\ Note(w, k)
     /\ Goto(w, l)
  \/ /\ armed' = armed
     /\ kprobes' = [kprobes EXCEPT ![lastprobe][k] = 0]
     /\ Goto(w, "idle")

\* ret is unsigned, so ret < 0 never holds and a refusal goes unnoticed.
Install(w, k, l) ==
  /\ register(lastprobe, k, req[w].addr)
  /\ Note(w, k)
  /\ Goto(w, l)

InstallReturn(w) ==
  /\ wpc[w] = "rp"
  /\ Install(w, "rp", IF req[w].extractor THEN "jp" ELSE "next")
  /\ UNCHANGED <<lastprobe, req, requests, cpc, i>>

InstallExtractor(w) ==
  /\ wpc[w] = "jp"
  /\ Install(w, "jp", "next")
  /\ UNCHANGED <<lastprobe, req, requests, cpc, i>>

NextSlot(w) ==
  /\ wpc[w] = "next"
  /\ lastprobe' = lastprobe + 1
  /\ Goto(w, "idle")
  /\ UNCHANGED <<kprobes, armed, req, requests, cpc, i>>
-----------------------------------------------------------------------------
\* cleanup_dynamic_probing(): remove_proc_entry() waits for the writers.
RemoveEntry ==
  /\ cpc = "up"
  /\ \A w \in Writers : wpc[w] = "idle"
  /\ cpc' = "loop"
  /\ UNCHANGED <<lastprobe, kprobes, armed, wpc, req, requests, i>>

Noted(s) == {<<s, k, kprobes[s][k]>> : k \in Kinds}

Unregister ==
  /\ cpc = "loop"
  /\ i <= lastprobe
  /\ i \in Slots
  /\ armed' = armed \ Noted(i)
  /\ i' = i + 1
  /\ UNCHANGED <<lastprobe, kprobes, wpc, req, requests, cpc>>

Done ==
  /\ cpc = "loop"
  /\ i > lastprobe
  /\ cpc' = "done"
  /\ UNCHANGED <<lastprobe, kprobes, armed, wpc, req, requests, i>>

Init ==
  /\ lastprobe = 0
  /\ kprobes = [s \in Slots |-> [k \in Kinds |-> 0]]
  /\ armed = {}
  /\ wpc = [w \in Writers |-> "idle"]
  /\ req = [w \in Writers |-> [addr |-> 0, extractor |-> FALSE]]
  /\ requests = 0
  /\ cpc = "up"
  /\ i = 0

Next ==
  \/ \E w \in Writers : \/ \E a \in Addrs, x \in BOOLEAN : add_probe(w, a, x)
                        \/ InstallReturn(w) \/ InstallExtractor(w) \/ NextSlot(w)
  \/ RemoveEntry \/ Unregister \/ Done

Spec == Init /\ [][Next]_vars
-----------------------------------------------------------------------------
\* The cleanup loop runs to lastprobe inclusive, one past the slots in use,
\* and still never leaves the table, however many probes were asked for.
LoopInTable == cpc = "loop" /\ i <= lastprobe => i \in Slots

\* After cleanup the kernel knows no probe of the table any more, whichever
\* registrations it refused before (one writer at a time).
NoneLeftArmed == cpc = "done" => armed = {}
=============================================================================
