---------------------------- MODULE ToolsProofs ----------------------------
(***************************************************************************)
(* Proofs about the tools around a trace: experiment.sh has one usnl at a  *)
(* time and pulls whole traces, and resolve.go prints its file.            *)
(***************************************************************************)
EXTENDS MCTools, FiniteSets, FiniteSetTheorems, SequenceTheorems,
        WellFoundedInduction, TLAPS

\* A step of the two tools is a step of each, or leaves its state alone.
LEMMA Steps ==
  ASSUME [ToolsNext]_all_vars
  PROVE  /\ [Next]_vars
         /\ [E!Next]_experiment
<1> SUFFICES ASSUME ToolsNext \/ UNCHANGED all_vars
             PROVE  /\ Next \/ UNCHANGED vars
                    /\ E!Next \/ UNCHANGED experiment
  OBVIOUS
<1>1. CASE OfResolve(Next)
  BY <1>1 DEF OfResolve
<1>2. CASE OfExperiment(E!Next)
  BY <1>2 DEF OfExperiment
<1>3. CASE UNCHANGED all_vars
  BY <1>3 DEF all_vars
<1> QED
  BY <1>1, <1>2, <1>3 DEF ToolsNext
-----------------------------------------------------------------------------
(* experiment.sh                                                           *)

Where == {"boot", "start", "traffic", "poll", "reboot", "pull", "done", "aborted"}

\* A trace file of an experiment; its completeness is owed if no stop was
\* pending when usnl came up.
TraceOf(f, e) ==
  /\ f = [of |-> f.of, whole |-> f.whole]
  /\ f.of = e
OwnTrace(f, e) == TraceOf(f, e) /\ (e \notin misled => f.whole)

\* Where the script is, and which experiment it has counted up to.
ScriptInv ==
  /\ pc \in Where
  /\ n \in 0 .. Runs
  /\ pc = "boot" => n = 0
  /\ pc = "start" => n < Runs
  /\ pc \in {"traffic", "poll", "reboot", "pull", "done"} => n > 0

\* A usnl on the phone is the current experiment's.  While the script waits,
\* an adb shell stands for it, so that the script does not go on before it has
\* ended; after a timeout the script goes on only by way of a reboot.
PhoneInv ==
  /\ usnl \cup starting \subseteq {n}
  /\ usnl \cap starting = {}
  /\ pc \in {"boot", "start", "pull", "done"} => usnl \cup starting = {}
  /\ pc \in {"traffic", "poll"} /\ usnl \cup starting # {} => "usnl" \in jobs

\* The file on the phone is the current experiment's from when its usnl is
\* up, and complete when that has ended by itself; a stop that meets a usnl
\* which is not misled is the one sent after its traffic.
FileInv ==
  /\ usnl # {} => TraceOf(file, n)
  /\ usnl # {} /\ n \notin misled => stopping \in {"no", "own"}
  /\ /\ pc \in {"traffic", "poll", "pull"} /\ n \notin spoiled
     /\ usnl \cup starting = {}
     => OwnTrace(file, n)
  /\ pc = "reboot" => n \in spoiled

\* What was pulled stays.
PulledInv ==
  /\ pulled = [e \in 1 .. Runs |-> pulled[e]]
  /\ \A e \in 1 .. Runs : E!Over(e) /\ e \notin spoiled => OwnTrace(pulled[e], e)

ExperimentInv == ScriptInv /\ PhoneInv /\ FileInv /\ PulledInv

LEMMA ExperimentInit == E!Init => ExperimentInv
BY RunsAssumption DEF E!Init, ExperimentInv, ScriptInv, PhoneInv, FileInv,
   PulledInv, Where, E!Over

LEMMA ScriptNext == ScriptInv /\ [E!Next]_experiment => ScriptInv'
<1> SUFFICES ASSUME ScriptInv, E!Next \/ UNCHANGED experiment
             PROVE  ScriptInv'
  OBVIOUS
<1> USE RunsAssumption DEF ScriptInv, Where
<1>1. CASE UNCHANGED experiment
  BY <1>1 DEF experiment
<1>2. CASE E!Script
  <2>1. CASE E!experiment_start
    BY <2>1 DEF E!experiment_start
  <2>2. CASE E!Pull
    BY <2>2 DEF E!Pull
  <2>3. CASE E!Boot \/ E!Reboot
    BY <2>3 DEF E!Boot, E!Reboot
  <2>4. CASE E!experiment_end \/ E!Poll
    BY <2>4 DEF E!experiment_end, E!Poll
  <2>5. CASE E!AdbExited \/ E!KillAdb
    BY <2>5 DEF E!AdbExited, E!KillAdb
  <2> QED
    BY <1>2, <2>1, <2>2, <2>3, <2>4, <2>5 DEF E!Script
<1>3. CASE E!Abort
  BY <1>3 DEF E!Abort
<1>4. CASE E!Phone
  BY <1>4 DEF E!Phone, E!UsnlStarts, E!UsnlFails, E!UsnlStops, E!PktgenEnds
<1> QED
  BY <1>1, <1>2, <1>3, <1>4 DEF E!Next

LEMMA PhoneNext == ScriptInv /\ PhoneInv /\ [E!Next]_experiment => PhoneInv'
<1> SUFFICES ASSUME ScriptInv, PhoneInv, E!Next \/ UNCHANGED experiment
             PROVE  PhoneInv'
  OBVIOUS
<1> USE RunsAssumption DEF ScriptInv, PhoneInv, Where
<1>1. CASE UNCHANGED experiment
  BY <1>1 DEF experiment
<1>2. CASE E!Boot \/ E!Reboot
  BY <1>2 DEF E!Boot, E!Reboot, E!Restart, E!boot_kernel
<1>3. CASE E!experiment_start
  BY <1>3 DEF E!experiment_start
<1>4. CASE E!experiment_end \/ E!Poll \/ E!AdbExited \/ E!KillAdb \/ E!Pull \/ E!Abort
  BY <1>4 DEF E!experiment_end, E!Poll, E!AdbExited, E!KillAdb, E!Pull, E!Abort, E!phone
<1>5. CASE E!Phone
  BY <1>5 DEF E!Phone, E!UsnlStarts, E!UsnlFails, E!UsnlStops, E!PktgenEnds, E!phone
<1> QED
  BY <1>1, <1>2, <1>3, <1>4, <1>5 DEF E!Next, E!Script

LEMMA FileNext ==
  ScriptInv /\ PhoneInv /\ FileInv /\ [E!Next]_experiment => FileInv'
<1> SUFFICES ASSUME ScriptInv, PhoneInv, FileInv, E!Next \/ UNCHANGED experiment
             PROVE  FileInv'
  OBVIOUS
<1> USE RunsAssumption DEF ScriptInv, PhoneInv, FileInv, Where, TraceOf, OwnTrace
<1>1. CASE UNCHANGED experiment
  BY <1>1 DEF experiment
<1>2. CASE E!Boot \/ E!Reboot
  BY <1>2 DEF E!Boot, E!Reboot, E!Restart, E!boot_kernel
<1>3. CASE E!experiment_start
  BY <1>3 DEF E!experiment_start
<1>4. CASE E!experiment_end \/ E!Poll \/ E!AdbExited \/ E!KillAdb \/ E!Pull \/ E!Abort
  BY <1>4 DEF E!experiment_end, E!Poll, E!AdbExited, E!KillAdb, E!Pull, E!Abort, E!phone
<1>5. ASSUME NEW e \in 1 .. Runs, E!UsnlStarts(e) \/ E!UsnlFails(e) \/ E!UsnlStops(e)
      PROVE  FileInv'
  <2>1. CASE E!UsnlStarts(e)
    BY <2>1 DEF E!UsnlStarts
  <2>2. CASE E!UsnlFails(e)
    BY <2>2 DEF E!UsnlFails
  <2>3. CASE E!UsnlStops(e)
    BY <2>3 DEF E!UsnlStops
  <2> QED
    BY <1>5, <2>1, <2>2, <2>3
<1>6. CASE E!PktgenEnds
  BY <1>6 DEF E!PktgenEnds, E!phone
<1> QED
  BY <1>1, <1>2, <1>3, <1>4, <1>5, <1>6 DEF E!Next, E!Script, E!Phone

LEMMA PulledNext ==
  ExperimentInv /\ [E!Next]_experiment => PulledInv'
<1> SUFFICES ASSUME ExperimentInv, E!Next \/ UNCHANGED experiment
             PROVE  PulledInv'
  OBVIOUS
<1> USE RunsAssumption DEF ExperimentInv, ScriptInv, PulledInv, E!Over, TraceOf, OwnTrace
<1>1. CASE UNCHANGED experiment
  BY <1>1 DEF experiment
<1>2. CASE E!Boot \/ E!Reboot \/ E!experiment_end \/ E!Poll \/ E!AdbExited
           \/ E!KillAdb \/ E!Abort
  <2>1. /\ pulled' = pulled /\ n' = n /\ spoiled \subseteq spoiled' /\ misled' = misled
        /\ pc' \in {"start", "done"} => pc = "boot"
    BY <1>2 DEF E!Boot, E!Reboot, E!experiment_end, E!Poll, E!AdbExited, E!KillAdb,
       E!Abort
  <2> QED
    BY <2>1
<1>3. CASE E!Pull
  <2>1. /\ pc = "pull" /\ n \in 1 .. Runs
        /\ pulled' = [pulled EXCEPT ![n] = file] /\ n' = n /\ spoiled' = spoiled
        /\ misled' = misled
    BY <1>3 DEF E!Pull
  <2>2. n \notin spoiled => OwnTrace(file, n)
    BY <2>1 DEF FileInv, PhoneInv
  <2>3. pulled' = [e \in 1 .. Runs |-> pulled'[e]]
    BY <2>1
  <2>4. ASSUME NEW e \in 1 .. Runs, E!Over(e)', e \notin spoiled'
        PROVE  OwnTrace(pulled[e], e)'
    <3>1. e <= n
      BY <2>1, <2>4
    <3>2. CASE e = n
      BY <2>1, <2>2, <2>4, <3>2
    <3>3. CASE e < n
      BY <2>1, <2>4, <3>3
    <3> QED
      BY <2>1, <3>1, <3>2, <3>3
  <2> QED
    BY <2>3, <2>4
<1>4. CASE E!Phone
  BY <1>4 DEF E!Phone, E!UsnlStarts, E!UsnlFails, E!UsnlStops, E!PktgenEnds, TraceOf, OwnTrace
<1>5. CASE E!experiment_start
  BY <1>5 DEF E!experiment_start
<1> QED
  BY <1>1, <1>2, <1>3, <1>4, <1>5 DEF E!Next, E!Script

LEMMA ExperimentInvariant == ToolsSpec => []ExperimentInv
<1>1. ToolsInit => ExperimentInv
  BY ExperimentInit DEF ToolsInit
<1>2. ExperimentInv /\ [ToolsNext]_all_vars => ExperimentInv'
  BY Steps, ScriptNext, PhoneNext, FileNext, PulledNext DEF ExperimentInv
<1> QED
  BY <1>1, <1>2, PTL DEF ToolsSpec

\* experiment.sh never has two usnl on the phone, running or about to run: the
\* script starts the next one only when the adb shell of the last has ended
\* or the phone has rebooted (for any number of experiments, any timeout).
THEOREM OneUsnlAtATime == ToolsSpec => []OneUsnl
<1>1. ExperimentInv => OneUsnl
  <2> SUFFICES ASSUME ExperimentInv
               PROVE  OneUsnl
    OBVIOUS
  <2>1. usnl \cup starting \subseteq {n}
    BY DEF ExperimentInv, PhoneInv
  <2>2. IsFiniteSet({n}) /\ Cardinality({n}) = 1
    BY FS_Singleton
  <2>3. Cardinality(usnl \cup starting) <= 1
    BY <2>1, <2>2, FS_Subset
  <2> QED
    BY <2>3 DEF OneUsnl, E!OneUsnl, E!Cardinality, Cardinality
<1> QED
  BY <1>1, ExperimentInvariant, PTL

\* A trace that experiment.sh keeps for an experiment is that experiment's
\* own, unless its usnl did not come up or was given up, and it is complete
\* unless a stop was pending in the kernel when that usnl came up.
THEOREM PulledTracesWhole == ToolsSpec => []PulledWhole
<1>1. ExperimentInv => PulledWhole
  BY DEF ExperimentInv, PulledInv, PulledWhole, E!PulledWhole, TraceOf, OwnTrace
<1> QED
  BY <1>1, ExperimentInvariant, PTL
-----------------------------------------------------------------------------
(* resolve.go                                                              *)

Output == [word : Words] \cup [symbol : Int, plus : Int]

\* Lines that are on their way: on the output, in the channel to the printer,
\* in the resolver, in the channel to it, and not yet read.
Held == IF l = <<>> THEN 0 ELSE 1
Handed == Len(printed) + Len(modifiedLines)

\* The file, and the channels' and goroutines' state.
PipeTypeOK ==
  /\ input \in Seq(Seq(Words))
  /\ \A k \in 1 .. Len(input) : input[k] # <<>>
  /\ read \in 0 .. Len(input)
  /\ inputLines \in Seq(Seq(Words))
  /\ l \in Seq(Output)
  /\ i \in Nat \ {0}
  /\ modifiedLines \in Seq(Seq(Output))
  /\ printed \in Seq(Seq(Output))

\* What is in the cache is what the lookup gives.
CacheInv ==
  /\ cache = [a \in DOMAIN cache |-> cache[a]]
  /\ \A a \in DOMAIN cache : a \in Words \ Text /\ cache[a] = Lookup(a)

\* The lines are in the order of the file, none is lost or there twice, and
\* each is resolved as far as the goroutines have come.
OrderInv ==
  /\ read = Handed + Held + Len(inputLines)
  /\ \A k \in 1 .. Len(printed) : printed[k] = ExpectedLine(input[k])
  /\ \A k \in 1 .. Len(modifiedLines) :
       modifiedLines[k] = ExpectedLine(input[Len(printed) + k])
  /\ l # <<>> =>
       /\ Len(l) = Len(input[Handed + 1])
       /\ \A k \in 1 .. Len(l) :
            l[k] = IF k < i THEN Expected(input[Handed + 1][k])
                            ELSE Plain(input[Handed + 1][k])
  /\ \A k \in 1 .. Len(inputLines) : inputLines[k] = input[Handed + Held + k]

\* A channel is closed after everything went through it, and main() returns
\* after both were.
ClosedInv ==
  /\ inputClosed => read = Len(input)
  /\ modifiedClosed => inputClosed /\ inputLines = <<>> /\ l = <<>>
  /\ done => modifiedClosed /\ modifiedLines = <<>>
  /\ exited => done

PipeInv == PipeTypeOK /\ CacheInv /\ OrderInv /\ ClosedInv

\* Every set of numbers has a least one.
LEMMA LeastNumber ==
  ASSUME NEW T, T \subseteq Nat, T # {}
  PROVE  \E x \in T : \A y \in T : x <= y
<1> DEFINE R == OpToRel(<, Nat)
<1>1. IsWellFoundedOn(R, Nat)
  BY NatLessThanWellFounded
<1>2. \A x, y \in Nat : y < x => <<y, x>> \in R
  BY DEF OpToRel
<1> HIDE DEF R
<1>3. PICK x \in T : \A y \in T : ~ (<<y, x>> \in R)
  BY <1>1, WFMin
<1>4. \A y \in T : x \in Nat /\ y \in Nat /\ ~ (y < x)
  BY <1>2, <1>3
<1>5. \A y \in T : x <= y
  BY <1>4
<1> QED
  BY <1>5

\* The loop over the offsets finds the symbol at the largest address not
\* above the word, as a search among the symbols would.
LEMMA LookupExpected ==
  ASSUME NEW a \in Words \ Text
  PROVE  Lookup(a) = Expected(a) /\ Expected(a) \in Output
<1> DEFINE below == {s \in symbolTable : s <= a /\ a - s < MAX_DIST}
<1> USE TableAssumption
<1>1. a \in Nat
  OBVIOUS
<1>2. /\ \A o \in Offsets(a) : a - o \in below
      /\ \A s \in below : a - s \in Offsets(a)
  BY <1>1 DEF Offsets
<1>3. CASE Offsets(a) = {}
  BY <1>2, <1>3 DEF Lookup, Expected, Output, Plain
<1>4. CASE Offsets(a) # {}
  <2>1. Offsets(a) \subseteq Nat
    BY DEF Offsets
  <2>2. First(a) \in Offsets(a) /\ \A p \in Offsets(a) : First(a) <= p
    BY <1>4, <2>1, LeastNumber DEF First
  <2> DEFINE top == a - First(a)
  <2>3. top \in below /\ \A y \in below : y <= top
    <3>1. top \in below
      BY <1>2, <2>2
    <3>2. ASSUME NEW y \in below
          PROVE  y <= top
      <4>1. a - y \in Offsets(a)
        BY <1>2
      <4> QED
        BY <1>1, <2>1, <2>2, <4>1
    <3> QED
      BY <3>1, <3>2
  <2> DEFINE s == CHOOSE x \in below : \A y \in below : y <= x
  <2>4. s \in below /\ \A y \in below : y <= s
    BY <2>3
  <2>5. Expected(a) = Symbol(s, a - s)
    BY <2>4 DEF Expected
  <2>6. Lookup(a) = Symbol(top, First(a))
    BY <1>4 DEF Lookup
  <2>7. below \subseteq Nat /\ First(a) \in Nat
    BY <2>1, <2>2
  <2> HIDE DEF below, s
  <2>8. s \in Nat /\ s = a - First(a)
    BY <1>1, <2>3, <2>4, <2>7
  <2>9. a - s = First(a) /\ s \in Int
    BY <1>1, <2>7, <2>8
  <2>10. Symbol(s, First(a)) \in Output
    BY <2>7, <2>9 DEF Symbol, Output
  <2> QED
    BY <2>5, <2>6, <2>8, <2>9, <2>10
<1> QED
  BY <1>3, <1>4

LEMMA ExpectedOutput ==
  ASSUME NEW w \in Words
  PROVE  Expected(w) \in Output /\ Plain(w) \in Output
<1>1. Plain(w) \in Output
  BY DEF Plain, Output
<1>2. CASE w \in Text
  BY <1>1, <1>2 DEF Expected
<1>3. CASE w \notin Text
  <2>1. w \in Words \ Text
    BY <1>3
  <2> QED
    BY <1>1, <2>1, LookupExpected
<1> QED
  BY <1>1, <1>2, <1>3

\* Expected output of a line of the file.
LEMMA ExpectedLines ==
  ASSUME NEW line \in Seq(Words)
  PROVE  /\ ExpectedLine(line) \in Seq(Output)
         /\ Len(ExpectedLine(line)) = Len(line)
         /\ \A k \in 1 .. Len(line) : ExpectedLine(line)[k] = Expected(line[k])
<1>1. Len(line) \in Nat /\ DOMAIN line = 1 .. Len(line)
      /\ \A k \in 1 .. Len(line) : line[k] \in Words
  OBVIOUS
<1>2. ExpectedLine(line) \in [1 .. Len(line) -> Output]
  BY <1>1, ExpectedOutput DEF ExpectedLine
<1>3. ExpectedLine(line) \in Seq(Output)
  BY <1>1, <1>2, SeqDef
<1> QED
  BY <1>1, <1>2, <1>3 DEF ExpectedLine

\* Appending, and taking the first.
LEMMA Appending ==
  ASSUME NEW S, NEW s \in Seq(S), NEW x \in S
  PROVE  /\ Append(s, x) \in Seq(S)
         /\ Len(Append(s, x)) = Len(s) + 1
         /\ \A k \in 1 .. Len(s) + 1 :
              Append(s, x)[k] = IF k = Len(s) + 1 THEN x ELSE s[k]
OBVIOUS

LEMMA Taking ==
  ASSUME NEW S, NEW s \in Seq(S), s # <<>>
  PROVE  /\ Len(s) \in Nat \ {0}
         /\ Head(s) = s[1] /\ Head(s) \in S
         /\ Tail(s) \in Seq(S)
         /\ Len(Tail(s)) = Len(s) - 1
         /\ \A k \in 1 .. Len(s) - 1 : Tail(s)[k] = s[k + 1]
OBVIOUS

LEMMA PipeInit == Init => PipeInv
<1> SUFFICES ASSUME Init
             PROVE  PipeInv
  OBVIOUS
<1>1. input \in Seq(Seq(Words)) /\ \A k \in 1 .. Len(input) : input[k] # <<>>
  <2>1. \A line \in Lines : line \in Seq(Words) /\ line # <<>>
    <3> SUFFICES ASSUME NEW line \in Lines
                 PROVE  line \in Seq(Words) /\ line # <<>>
      OBVIOUS
    <3>1. PICK m \in 1 .. MaxWords : line \in [1 .. m -> Words]
      BY DEF Lines
    <3>2. m \in Nat /\ 1 \in DOMAIN line
      BY <3>1, LimitsAssumption
    <3>3. line \in Seq(Words)
      BY <3>1, <3>2, SeqDef
    <3> QED
      BY <3>2, <3>3
  <2>2. PICK m \in 0 .. MaxLines : input \in [1 .. m -> Lines]
    BY DEF Init
  <2>3. m \in Nat
    BY LimitsAssumption
  <2>4. input \in Seq(Lines)
    BY <2>2, <2>3, SeqDef
  <2> QED
    BY <2>1, <2>4
<1>2. PipeTypeOK
  BY <1>1 DEF Init, PipeTypeOK
<1>3. CacheInv
  BY DEF Init, CacheInv
<1>4. OrderInv
  BY <1>1 DEF Init, OrderInv, Handed, Held
<1>5. ClosedInv
  BY DEF Init, ClosedInv
<1> QED
  BY <1>2, <1>3, <1>4, <1>5 DEF PipeInv

LEMMA ReadLineInv == PipeInv /\ ReadLine => PipeInv'
<1> SUFFICES ASSUME PipeInv, ReadLine
             PROVE  PipeInv'
  OBVIOUS
<1> USE DEF PipeInv
<1>1. /\ read < Len(input) /\ read' = read + 1
      /\ inputLines' = Append(inputLines, input[read + 1])
      /\ UNCHANGED <<input, inputClosed, l, i, cache, modifiedLines, modifiedClosed,
                     printed, done, exited>>
  BY DEF ReadLine, resolver, printer
<1>2. read + 1 \in 1 .. Len(input) /\ input[read + 1] \in Seq(Words)
  BY <1>1 DEF PipeTypeOK
<1>3. /\ inputLines' \in Seq(Seq(Words))
      /\ Len(inputLines') = Len(inputLines) + 1
      /\ \A k \in 1 .. Len(inputLines) + 1 :
           inputLines'[k] = IF k = Len(inputLines) + 1 THEN input[read + 1] ELSE inputLines[k]
  <2>1. inputLines \in Seq(Seq(Words))
    BY DEF PipeTypeOK
  <2> QED
    BY <1>1, <1>2, <2>1, Appending
<1>4. PipeTypeOK'
  BY <1>1, <1>3 DEF PipeTypeOK
<1>5. CacheInv'
  BY <1>1 DEF CacheInv
<1>6. OrderInv'
  <2>1. Handed' = Handed /\ Held' = Held /\ Handed \in Nat /\ Held \in Nat
    BY <1>1 DEF Handed, Held, PipeTypeOK
  <2>2. Len(inputLines) \in Nat
    BY DEF PipeTypeOK
  <2>3. read' = Handed' + Held' + Len(inputLines')
    BY <1>1, <1>3, <2>1, <2>2 DEF OrderInv
  <2>4. \A k \in 1 .. Len(inputLines') : inputLines'[k] = input'[Handed' + Held' + k]
    BY <1>1, <1>3, <2>1, <2>2 DEF OrderInv
  <2> QED
    BY <1>1, <2>1, <2>3, <2>4 DEF OrderInv
<1>7. ClosedInv'
  BY <1>1 DEF ClosedInv, PipeTypeOK
<1> QED
  BY <1>4, <1>5, <1>6, <1>7

LEMMA TakeLineInv == PipeInv /\ TakeLine => PipeInv'
<1> SUFFICES ASSUME PipeInv, TakeLine
             PROVE  PipeInv'
  OBVIOUS
<1> USE DEF PipeInv
<1> DEFINE line == Head(inputLines)
<1>1. /\ l = <<>> /\ inputLines # <<>> /\ i' = 1
      /\ l' = [k \in DOMAIN line |-> Plain(line[k])]
      /\ inputLines' = Tail(inputLines)
      /\ UNCHANGED <<input, read, inputClosed, cache, modifiedLines, modifiedClosed,
                     printed, done, exited>>
  BY DEF TakeLine, printer
<1>2. /\ Len(inputLines) \in Nat \ {0}
      /\ line = inputLines[1] /\ line \in Seq(Words)
      /\ inputLines' \in Seq(Seq(Words))
      /\ Len(inputLines') = Len(inputLines) - 1
      /\ \A k \in 1 .. Len(inputLines) - 1 : inputLines'[k] = inputLines[k + 1]
  <2>1. inputLines \in Seq(Seq(Words))
    BY DEF PipeTypeOK
  <2> QED
    BY <1>1, <2>1, Taking
<1>3. /\ Handed' = Handed /\ Handed \in Nat /\ Held = 0
      /\ read \in 0 .. Len(input) /\ Len(input) \in Nat
  BY <1>1 DEF Handed, Held, PipeTypeOK
<1>4. line = input[Handed + 1] /\ Handed + 1 \in 1 .. Len(input)
  BY <1>2, <1>3 DEF OrderInv
<1> HIDE DEF line
<1>5. /\ l' \in Seq(Output) /\ Len(l') = Len(line) /\ l' # <<>>
      /\ \A k \in 1 .. Len(line) : l'[k] = Plain(line[k])
  <2>1. /\ DOMAIN line = 1 .. Len(line) /\ Len(line) \in Nat
        /\ \A k \in 1 .. Len(line) : line[k] \in Words
    BY <1>2
  <2>2. l' \in [1 .. Len(line) -> Output]
    BY <1>1, <2>1, ExpectedOutput
  <2>3. l' \in Seq(Output)
    BY <2>1, <2>2, SeqDef
  <2>4. line # <<>>
    BY <1>4 DEF PipeTypeOK
  <2>5. Len(line) # 0
    BY <1>2, <2>4
  <2> QED
    BY <1>1, <2>1, <2>2, <2>3, <2>5
<1>6. PipeTypeOK'
  BY <1>1, <1>2, <1>5 DEF PipeTypeOK
<1>7. CacheInv'
  BY <1>1 DEF CacheInv
<1>8. OrderInv'
  <2>1. Held' = 1
    BY <1>5 DEF Held
  <2>2. read' = Handed' + Held' + Len(inputLines')
    BY <1>1, <1>2, <1>3, <2>1 DEF OrderInv
  <2>3. \A k \in 1 .. Len(inputLines') : inputLines'[k] = input'[Handed' + Held' + k]
    BY <1>1, <1>2, <1>3, <2>1 DEF OrderInv
  <2>4. /\ Len(l') = Len(input'[Handed' + 1])
        /\ \A k \in 1 .. Len(l') :
             l'[k] = IF k < i' THEN Expected(input'[Handed' + 1][k])
                               ELSE Plain(input'[Handed' + 1][k])
    BY <1>1, <1>2, <1>3, <1>4, <1>5
  <2> QED
    BY <1>1, <2>2, <2>3, <2>4 DEF OrderInv
<1>9. ClosedInv'
  BY <1>1 DEF ClosedInv
<1> QED
  BY <1>6, <1>7, <1>8, <1>9

LEMMA ResolveWordInv == PipeInv /\ ResolveWord => PipeInv'
<1> SUFFICES ASSUME PipeInv, ResolveWord
             PROVE  PipeInv'
  OBVIOUS
<1> USE DEF PipeInv
<1> DEFINE line == input[Handed + 1]
           w == line[i]
<1>1. /\ l # <<>> /\ i <= Len(l) /\ i' = i + 1
      /\ UNCHANGED <<input, read, inputLines, inputClosed, modifiedLines,
                     modifiedClosed, printed, done, exited>>
  BY DEF ResolveWord, reader, printer
<1>2. /\ i \in 1 .. Len(l) /\ l \in Seq(Output) /\ Len(l) \in Nat
      /\ Handed \in Nat /\ Handed' = Handed /\ Held = 1
  BY <1>1 DEF PipeTypeOK, Handed, Held
<1>3. Len(line) = Len(l) /\ line \in Seq(Words) /\ w \in Words
  <2>1. Handed + 1 <= Len(input)
    BY <1>2 DEF OrderInv, PipeTypeOK
  <2>2. line \in Seq(Words)
    BY <1>2, <2>1 DEF PipeTypeOK
  <2>3. Len(line) = Len(l)
    BY <1>1 DEF OrderInv
  <2> QED
    BY <1>2, <2>2, <2>3
<1>4. l[i] = Plain(w) /\ l[i].word = w
  <2>1. l[i] = Plain(w)
    BY <1>1, <1>2 DEF OrderInv, PipeTypeOK
  <2> QED
    BY <2>1 DEF Plain
<1>5. /\ l' \in Seq(Output) /\ Len(l') = Len(l)
      /\ \A k \in 1 .. Len(l) : l'[k] = IF k = i THEN Expected(w) ELSE l[k]
      /\ CacheInv'
  <2>1. CASE w \in Text
    <3>1. l' = l /\ cache' = cache
      BY <1>4, <2>1 DEF ResolveWord
    <3>2. l[i] = Expected(w)
      BY <1>4, <2>1 DEF Expected
    <3>3. CacheInv'
      BY <3>1 DEF CacheInv
    <3> QED
      BY <1>2, <3>1, <3>2, <3>3
  <2>2. CASE w \notin Text
    <3>1. w \in Words \ Text /\ Lookup(w) = Expected(w) /\ Expected(w) \in Output
      BY <1>3, <2>2, LookupExpected
    <3>2. CASE w \in DOMAIN cache
      <4>1. l' = [l EXCEPT ![i] = cache[w]] /\ cache' = cache
        BY <1>4, <2>2, <3>2 DEF ResolveWord
      <4>2. cache[w] = Expected(w)
        BY <3>1, <3>2 DEF CacheInv
      <4>3. CacheInv'
        BY <4>1 DEF CacheInv
      <4> QED
        BY <1>2, <3>1, <4>1, <4>2, <4>3, ExceptSeq
    <3>3. CASE w \notin DOMAIN cache
      <4>1. /\ l' = [l EXCEPT ![i] = Lookup(w)]
            /\ cache' = [a \in DOMAIN cache \cup {w} |->
                            IF a = w THEN Cached(w) ELSE cache[a]]
        BY <1>4, <2>2, <3>3 DEF ResolveWord
      <4>2. CacheInv'
        BY <3>1, <4>1 DEF CacheInv, Cached
      <4> QED
        BY <1>2, <3>1, <4>1, <4>2, ExceptSeq
    <3> QED
      BY <3>2, <3>3
  <2> QED
    BY <2>1, <2>2
<1>6. l' # <<>>
  BY <1>2, <1>5
<1>7. PipeTypeOK'
  BY <1>1, <1>2, <1>5 DEF PipeTypeOK
<1>8. OrderInv'
  <2>1. Held' = Held
    BY <1>2, <1>6 DEF Held
  <2>2. \A k \in 1 .. Len(l') :
          l'[k] = IF k < i' THEN Expected(line[k]) ELSE Plain(line[k])
    BY <1>1, <1>2, <1>5 DEF OrderInv
  <2>3. Len(l') = Len(line)
    BY <1>3, <1>5
  <2> QED
    BY <1>1, <1>2, <2>1, <2>2, <2>3 DEF OrderInv
<1>9. ClosedInv'
  BY <1>1 DEF ClosedInv
<1> QED
  BY <1>5, <1>7, <1>8, <1>9

LEMMA SendLineInv == PipeInv /\ SendLine => PipeInv'
<1> SUFFICES ASSUME PipeInv, SendLine
             PROVE  PipeInv'
  OBVIOUS
<1> USE DEF PipeInv
<1> DEFINE line == input[Handed + 1]
<1>1. /\ l # <<>> /\ i > Len(l) /\ l' = <<>> /\ i' = 1
      /\ modifiedLines' = Append(modifiedLines, l)
      /\ UNCHANGED <<input, read, inputLines, inputClosed, cache, modifiedClosed,
                     printed, done, exited>>
  BY DEF SendLine, reader
<1>2. /\ i \in Nat /\ l \in Seq(Output) /\ Len(l) \in Nat
      /\ Len(printed) \in Nat /\ Len(modifiedLines) \in Nat
      /\ Handed = Len(printed) + Len(modifiedLines) /\ Held = 1 /\ Held' = 0
  BY <1>1 DEF PipeTypeOK, Handed, Held
<1>3. l = ExpectedLine(line)
  <2>1. Handed + 1 <= Len(input)
    BY <1>2 DEF OrderInv, PipeTypeOK
  <2>2. line \in Seq(Words)
    BY <1>2, <2>1 DEF PipeTypeOK
  <2>3. Len(l) = Len(line) /\ \A k \in 1 .. Len(l) : l[k] = Expected(line[k])
    BY <1>1, <1>2 DEF OrderInv
  <2>4. /\ ExpectedLine(line) \in Seq(Output) /\ Len(ExpectedLine(line)) = Len(l)
        /\ \A k \in 1 .. Len(l) : ExpectedLine(line)[k] = l[k]
    BY <2>2, <2>3, ExpectedLines
  <2> QED
    BY <1>2, <2>4, SeqEqual
<1>4. /\ modifiedLines' \in Seq(Seq(Output))
      /\ Len(modifiedLines') = Len(modifiedLines) + 1
      /\ \A k \in 1 .. Len(modifiedLines) + 1 :
           modifiedLines'[k] = IF k = Len(modifiedLines) + 1 THEN l ELSE modifiedLines[k]
  <2>1. modifiedLines \in Seq(Seq(Output))
    BY DEF PipeTypeOK
  <2> QED
    BY <1>1, <1>2, <2>1, Appending
<1>5. Handed' = Handed + 1
  BY <1>1, <1>2, <1>4 DEF Handed
<1>6. PipeTypeOK'
  BY <1>1, <1>4 DEF PipeTypeOK
<1>7. CacheInv'
  BY <1>1 DEF CacheInv
<1>8. OrderInv'
  <2>1. read' = Handed' + Held' + Len(inputLines')
    BY <1>1, <1>2, <1>5 DEF OrderInv, PipeTypeOK
  <2>2. \A k \in 1 .. Len(inputLines') : inputLines'[k] = input'[Handed' + Held' + k]
    <3>1. Handed' + Held' = Handed + Held
      BY <1>2, <1>5
    <3> QED
      BY <1>1, <3>1 DEF OrderInv
  <2>3. ASSUME NEW k \in 1 .. Len(modifiedLines')
        PROVE  modifiedLines'[k] = ExpectedLine(input'[Len(printed') + k])
    <3>1. CASE k = Len(modifiedLines) + 1
      <4>1. Len(printed) + k = Handed + 1
        BY <1>2, <3>1
      <4> QED
        BY <1>1, <1>3, <1>4, <3>1, <4>1
    <3>2. CASE k # Len(modifiedLines) + 1
      <4>1. k \in 1 .. Len(modifiedLines)
        BY <1>2, <1>4, <3>2
      <4> QED
        BY <1>1, <1>4, <3>2, <4>1 DEF OrderInv
    <3> QED
      BY <3>1, <3>2
  <2> QED
    BY <1>1, <2>1, <2>2, <2>3 DEF OrderInv
<1>9. ClosedInv'
  BY <1>1 DEF ClosedInv
<1> QED
  BY <1>6, <1>7, <1>8, <1>9

LEMMA PrintLineInv == PipeInv /\ PrintLine => PipeInv'
<1> SUFFICES ASSUME PipeInv, PrintLine
             PROVE  PipeInv'
  OBVIOUS
<1> USE DEF PipeInv
<1>1. /\ ~done /\ modifiedLines # <<>>
      /\ printed' = Append(printed, Head(modifiedLines))
      /\ modifiedLines' = Tail(modifiedLines)
      /\ UNCHANGED <<input, read, inputLines, inputClosed, l, i, cache,
                     modifiedClosed, done, exited>>
  BY DEF PrintLine, reader, resolver
<1>2. modifiedLines \in Seq(Seq(Output)) /\ printed \in Seq(Seq(Output))
  BY DEF PipeTypeOK
<1>3. /\ Len(modifiedLines) \in Nat \ {0}
      /\ Head(modifiedLines) = modifiedLines[1] /\ Head(modifiedLines) \in Seq(Output)
      /\ modifiedLines' \in Seq(Seq(Output))
      /\ Len(modifiedLines') = Len(modifiedLines) - 1
      /\ \A k \in 1 .. Len(modifiedLines) - 1 : modifiedLines'[k] = modifiedLines[k + 1]
  BY <1>1, <1>2, Taking
<1>4. /\ printed' \in Seq(Seq(Output))
      /\ Len(printed') = Len(printed) + 1 /\ Len(printed) \in Nat
      /\ \A k \in 1 .. Len(printed) + 1 :
           printed'[k] = IF k = Len(printed) + 1 THEN Head(modifiedLines) ELSE printed[k]
  BY <1>1, <1>2, <1>3, Appending
<1>5. Handed' = Handed /\ Held' = Held
  BY <1>1, <1>3, <1>4 DEF Handed, Held
<1>6. PipeTypeOK'
  BY <1>1, <1>3, <1>4 DEF PipeTypeOK
<1>7. CacheInv'
  BY <1>1 DEF CacheInv
<1>8. OrderInv'
  <2>1. Head(modifiedLines) = ExpectedLine(input[Len(printed) + 1])
    BY <1>3 DEF OrderInv
  <2>2. \A k \in 1 .. Len(printed') : printed'[k] = ExpectedLine(input'[k])
    BY <1>1, <1>4, <2>1 DEF OrderInv
  <2>3. ASSUME NEW k \in 1 .. Len(modifiedLines')
        PROVE  modifiedLines'[k] = ExpectedLine(input'[Len(printed') + k])
    <3>1. /\ k + 1 \in 1 .. Len(modifiedLines)
          /\ modifiedLines'[k] = modifiedLines[k + 1]
          /\ Len(printed) + (k + 1) = Len(printed') + k
      BY <1>3, <1>4
    <3> QED
      BY <1>1, <3>1 DEF OrderInv
  <2> QED
    BY <1>1, <1>5, <2>2, <2>3 DEF OrderInv
<1>9. ClosedInv'
  BY <1>1 DEF ClosedInv
<1> QED
  BY <1>6, <1>7, <1>8, <1>9

\* The steps that close a channel or end a goroutine move no line.
LEMMA EndInv ==
  PipeInv /\ (CloseInput \/ CloseModified \/ SendDone \/ Exit) => PipeInv'
<1> SUFFICES ASSUME PipeInv, CloseInput \/ CloseModified \/ SendDone \/ Exit
             PROVE  PipeInv'
  OBVIOUS
<1> USE DEF PipeInv
<1>1. UNCHANGED <<input, read, inputLines, l, i, cache, modifiedLines, printed>>
  BY DEF CloseInput, CloseModified, SendDone, Exit, reader, resolver, printer
<1>2. PipeTypeOK' /\ CacheInv'
  BY <1>1 DEF PipeTypeOK, CacheInv
<1>3. OrderInv'
  BY <1>1 DEF OrderInv, Handed, Held
<1>4. ClosedInv'
  <2>1. CASE CloseInput
    BY <2>1 DEF CloseInput, ClosedInv, resolver, printer
  <2>2. CASE CloseModified
    BY <2>2 DEF CloseModified, NoMoreInput, close, ClosedInv, reader, resolver
  <2>3. CASE SendDone
    BY <2>3 DEF SendDone, ClosedInv, reader, resolver
  <2>4. CASE Exit
    BY <2>4 DEF Exit, ClosedInv, reader, resolver, printer
  <2> QED
    BY <2>1, <2>2, <2>3, <2>4
<1> QED
  BY <1>2, <1>3, <1>4

LEMMA PipeStutter == PipeInv /\ UNCHANGED vars => PipeInv'
BY DEF PipeInv, PipeTypeOK, CacheInv, OrderInv, ClosedInv, Handed, Held, vars,
   reader, resolver, printer

\* What resolve.go prints is the file, line by line and in its order, every
\* address replaced by the nearest symbol below it whether it was cached or
\* not, and main() returns only when all of it is printed (for every file,
\* symbol table, MAX_DIST and channel capacity).
THEOREM OutputFaithful == ToolsSpec => []PrintedFaithful
<1>1. ToolsInit => PipeInv
  BY PipeInit DEF ToolsInit
<1>2. PipeInv /\ [ToolsNext]_all_vars => PipeInv'
  BY Steps, PipeStutter, ReadLineInv, TakeLineInv, ResolveWordInv, SendLineInv,
     PrintLineInv, EndInv
     DEF Next, Reader, Resolver, Printer
<1>3. PipeInv => PrintedFaithful
  <2> SUFFICES ASSUME PipeInv
               PROVE  PrintedFaithful
    OBVIOUS
  <2>1. /\ Len(printed) \in Nat /\ DOMAIN printed = 1 .. Len(printed)
        /\ Len(modifiedLines) \in Nat /\ Len(inputLines) \in Nat
        /\ Held \in {0, 1} /\ read \in 0 .. Len(input)
        /\ read = Len(printed) + Len(modifiedLines) + Held + Len(inputLines)
    BY DEF PipeInv, PipeTypeOK, OrderInv, Handed, Held
  <2>2. exited => Len(modifiedLines) = 0 /\ Len(inputLines) = 0 /\ Held = 0
                  /\ read = Len(input)
    BY DEF PipeInv, ClosedInv, Held
  <2> QED
    BY <2>1, <2>2 DEF PrintedFaithful, PipeInv, OrderInv
<1> QED
  BY <1>1, <1>2, <1>3, PTL DEF ToolsSpec

=============================================================================
