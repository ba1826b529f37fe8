----------------------------- MODULE Experiment -----------------------------
(***************************************************************************)
(* The experiment driver experiment.sh: one kernel, a series of runs.  For *)
(* each run the script starts usnl on the phone through adb, sends the     *)
(* traffic, stops the tracing, waits for the adb shells with a timeout,    *)
(* and pulls the trace file.                                               *)
(*                                                                         *)
(* The phone goes its own way: usnl may start late or not at all, may not  *)
(* stop ("for any unknown reason"), and what runs there survives the adb   *)
(* client that started it, until the phone reboots.                        *)
(***************************************************************************)
EXTENDS Integers, FiniteSets

CONSTANTS
  Runs,     \* number of experiments: RATES x PHONE_RATES x DELAYS
  Polls,    \* 60: the seconds to wait for adb
  PhoneRate \* the phone generates traffic too: PHONE_RATES

VARIABLES
  pc, n, t,  \* the script: where it is, experiment_counter, t
  jobs,      \* adb shells in the background: "usnl", "pktgen"
  starting,  \* experiments whose usnl was asked for and has not come up yet
  usnl,      \* experiments whose usnl runs on the phone
  stopping,  \* stop_tracing_requested: "no", "own" (sent to a usnl that runs),
             \* "kept" (sent while none ran)
  file,      \* /sdcard/trace.out: [of (experiment, 0 none), whole]
  pulled,    \* experiment -> the trace that was pulled for it
  spoiled,   \* experiments whose usnl did not come up or had to be killed
  misled     \* experiments whose usnl came up to a stop that was there before

vars == <<pc, n, t, jobs, starting, usnl, stopping, file, pulled, spoiled, misled>>
phone == <<starting, usnl, stopping, file>>
NoFile == [of |-> 0, whole |-> FALSE]
-----------------------------------------------------------------------------
(* The script                                                              *)

\* boot_kernel(), wait_for_root(), phone_post_boot(): what ran is gone, the
\* file stays.  The loops in them wait for as long as it takes.
boot_kernel ==
  /\ starting' = {} /\ usnl' = {} /\ stopping' = "no"
  /\ UNCHANGED file

\* check_kernel(), test_network(): the script gives up.
Abort ==
  /\ pc \in {"boot", "start", "reboot"}
  /\ pc' = "aborted"
  /\ UNCHANGED <<n, t, jobs, pulled, spoiled, misled, phone>>

Boot ==
  /\ pc = "boot"
  /\ boot_kernel
  /\ pc' = "start"
  /\ UNCHANGED <<n, t, jobs, pulled, spoiled, misled>>

\* experiment_start() and the shells that are forked.
experiment_start ==
  /\ pc = "start"
  /\ n' = n + 1
  /\ jobs' = {"usnl"} \cup IF PhoneRate THEN {"pktgen"} ELSE {}
  /\ starting' = starting \cup {n + 1}
  /\ pc' = "traffic"
  /\ UNCHANGED <<t, usnl, stopping, file, pulled, spoiled, misled>>

\* pktgen_experiment() has ended; the stop command is sent whether usnl is up
\* or not, stop_tracing() notes it in either case and terminate_after_timeout()
\* begins.
experiment_end ==
  /\ pc = "traffic"
  /\ stopping' = IF usnl # {} THEN "own" ELSE "kept"
  /\ t' = Polls
  /\ pc' = "poll"
  /\ UNCHANGED <<n, jobs, starting, usnl, file, pulled, spoiled, misled>>

\* Fault: t is not counted down.
Waited_Forever == t
Waited == t - 1

Poll ==
  /\ pc = "poll"
  /\ t > 0 /\ jobs # {}
  /\ t' = Waited
  /\ UNCHANGED <<pc, n, jobs, pulled, spoiled, misled, phone>>

AdbExited ==
  /\ pc = "poll"
  /\ t > 0 /\ jobs = {}
  /\ pc' = "pull"
  /\ UNCHANGED <<n, t, jobs, pulled, spoiled, misled, phone>>

\* killall adb: the clients, not what they started.
KillAdb ==
  /\ pc = "poll"
  /\ t = 0
  /\ jobs' = {}
  /\ spoiled' = spoiled \cup {n}
  /\ pc' = "reboot"
  /\ UNCHANGED <<n, t, pulled, misled, phone>>

\* Fault: the experiment goes on without a reboot.
Restart_Not == UNCHANGED phone
Restart == boot_kernel

Reboot ==
  /\ pc = "reboot"
  /\ Restart
  /\ pc' = "pull"
  /\ UNCHANGED <<n, t, jobs, pulled, spoiled, misled>>

\* wait, and adb pull: the forked shells have ended.
Pull ==
  /\ pc = "pull"
  /\ jobs = {}
  /\ pulled' = [pulled EXCEPT ![n] = file]
  /\ pc' = IF n < Runs THEN "start" ELSE "done"
  /\ UNCHANGED <<n, t, jobs, spoiled, misled, phone>>
-----------------------------------------------------------------------------
(* The phone                                                               *)

\* usnl comes up: START_TRACING, and trace.out is truncated.  START_TRACING
\* does not clear stop_tracing_requested.
UsnlStarts(e) ==
  /\ e \in starting
  /\ starting' = starting \ {e}
  /\ usnl' = usnl \cup {e}
  /\ file' = [of |-> e, whole |-> FALSE]
  /\ misled' = IF stopping = "no" THEN misled ELSE misled \cup {e}
  /\ UNCHANGED <<pc, n, t, jobs, stopping, pulled, spoiled>>

UsnlFails(e) ==
  /\ e \in starting
  /\ starting' = starting \ {e}
  /\ jobs' = jobs \ {"usnl"}
  /\ spoiled' = spoiled \cup {e}
  /\ UNCHANGED <<pc, n, t, usnl, stopping, file, pulled, misled>>

\* Told to stop, usnl drains the buffer and ends.  A stop that was kept from
\* before usnl came up ends it at any time, also amid its traffic.
UsnlStops(e) ==
  /\ e \in usnl
  /\ stopping # "no"
  /\ usnl' = usnl \ {e}
  /\ stopping' = "no"
  /\ file' = [file EXCEPT !.whole = (stopping = "own")]
  /\ jobs' = jobs \ {"usnl"}
  /\ UNCHANGED <<pc, n, t, starting, pulled, spoiled, misled>>

PktgenEnds ==
  /\ "pktgen" \in jobs
  /\ jobs' = jobs \ {"pktgen"}
  /\ UNCHANGED <<pc, n, t, pulled, spoiled, misled, phone>>
-----------------------------------------------------------------------------
Init ==
  /\ pc = "boot" /\ n = 0 /\ t = 0
  /\ jobs = {} /\ starting = {} /\ usnl = {}
  /\ stopping = "no"
  /\ file = NoFile
  /\ pulled = [e \in 1..Runs |-> NoFile]
  /\ spoiled = {} /\ misled = {}

Script == \/ Boot \/ experiment_start \/ experiment_end
          \/ Poll \/ AdbExited \/ KillAdb \/ Reboot \/ Pull
Phone == \/ \E e \in 1..Runs : UsnlStarts(e) \/ UsnlFails(e) \/ UsnlStops(e)
         \/ PktgenEnds

Next == Script \/ Abort \/ Phone

\* The script goes on; the phone boots when asked to, and owes nothing else.
Spec == Init /\ [][Next]_vars /\ WF_vars(Script)
-----------------------------------------------------------------------------
Over(e) == n > e \/ (n = e /\ pc \in {"start", "done"})

\* There is never more than one usnl on the phone, running or about to: two
\* would truncate one file and the kernel answers one pid.  The timeout leaves
\* one behind; it is the reboot that ends it.
OneUsnl == Cardinality(usnl \cup starting) <= 1

\* The trace kept for an experiment is its own, if its usnl came up and ended
\* by itself: nothing is pulled while usnl still writes.  It is complete, from
\* before the traffic to the stop that followed it, if no stop was pending when
\* usnl came up; a stop sent to a usnl that had failed or was late is kept by
\* the kernel and may cut the next session short.
PulledWhole ==
  \A e \in 1..Runs :
    Over(e) /\ e \notin spoiled =>
      /\ pulled[e].of = e
      /\ e \notin misled => pulled[e].whole

\* The series ends, also when usnl hangs or never starts: an experiment whose
\* tracing does not stop is given up after the timeout.
SeriesEnds == <>(pc \in {"done", "aborted"})
=============================================================================
