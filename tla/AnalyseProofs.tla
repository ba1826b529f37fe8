--------------------------- MODULE AnalyseProofs ---------------------------
(***************************************************************************)
(* What is proved about the replay of a trace: the analyser follows every  *)
(* CPU of a machine whose interrupt handlers all run on one CPU and whose  *)
(* threads leave no stack behind, for any number of threads, interrupts    *)
(* and services and any depth of calls, until a MIGRATE line names a CPU   *)
(* it has no stacks of.                                                    *)
(***************************************************************************)
EXTENDS Analyse, SequenceTheorems, FiniteSetTheorems, TLAPS

\* Interrupted is one stack: handlers run on one CPU only.  A thread the
\* analyser has inside of services does not move unseen.
Followed ==
  /\ \A c, d \in IrqCPUs : c = d
  /\ MaxAstray = 0
-----------------------------------------------------------------------------
(* The invariant of the machine                                            *)
Loops == {"loop", "irq_exit"}
Activation ==
  {Frame("srv", n) : n \in Services} \cup {Frame("loop", n) : n \in Loops}
    \cup {Frame("irq", "irq_enter"), Frame("handler", "handler"),
          Frame("handled", "handler"), Frame("hirq", "HIRQ")}

MachineType ==
  /\ running \in [CPUs -> Threads]
  /\ hirq \in [CPUs -> IRQs \cup {NoIRQ}]
  /\ home \in [Threads -> CPUs]
  /\ frames \in [LEU -> Seq(Activation)]

Homes == \A c \in CPUs : home[running[c]] = c

\* A handler is entered once, as the outermost activation of its LEU; an
\* interrupt that is not served is inside of nothing.
Served ==
  /\ \A c \in CPUs : hirq[c] # NoIRQ =>
       /\ c \in IrqCPUs
       /\ frames[HIRQ(hirq[c])] # <<>>
       /\ frames[HIRQ(hirq[c])][1].kind = "hirq"
  /\ \A i \in IRQs : (\A c \in CPUs : hirq[c] # i) => frames[HIRQ(i)] = <<>>

\* Handlers are not interrupted.
InHandler ==
  \A i \in IRQs : \A k \in DOMAIN frames[HIRQ(i)] :
    /\ frames[HIRQ(i)][k].kind \notin InIrq
    /\ frames[HIRQ(i)][k].kind = "hirq" => k = 1

\* An interrupted thread stays where it is until irq_exit(), and a handler is
\* called between irq_enter() and irq_exit().
InThread ==
  \A t \in Threads : \A k \in DOMAIN frames[Thread(t)] :
    LET f == frames[Thread(t)] IN
    /\ f[k].kind # "hirq"
    /\ f[k].kind = "irq" => running[home[t]] = t
    /\ f[k].kind \in {"handler", "handled"} =>
         home[t] \in IrqCPUs /\ \E j \in DOMAIN f : j < k /\ f[j].kind = "irq"

MachineInv == MachineType /\ Homes /\ Served /\ InHandler /\ InThread
-----------------------------------------------------------------------------
(* The invariant of the analyser                                           *)
Entry == [ev : {"CTXSW", "SRVENTRY", "SRVEXIT", "HIRQENTRY", "HIRQEXIT", "LOOPSTART",
                "LOOPRSTART", "LOOPSTOP", "SRVQUEUE"},
          srv : Services \cup {"", "0", "irq_enter", "handler"},
          loc : Loops \cup {""}]
Names == Services \cup Loops \cup {"irq_enter", "handler", "HIRQ"}

\* The line a stack element begins with.
Opens(e, n) ==
  IF n \in Loops THEN e.ev \in {"LOOPSTART", "LOOPRSTART"} /\ e.loc = n ELSE Begins(e, n)
Element ==
  {x \in [Name : Names, Entries : Seq(Entry)] : x.Entries # <<>> /\ Opens(x.Entries[1], x.Name)}

\* The fields of State.
IsState(s) ==
  s = [CurrentLEU |-> s.CurrentLEU, ServiceStack |-> s.ServiceStack,
       Interrupted |-> s.Interrupted, LEUs |-> s.LEUs, stored |-> s.stored, panic |-> s.panic]

Cur(s, c) == Get(s.CurrentLEU, c, NoLEU)
Mapped(s, c) == c \in DOMAIN s.ServiceStack
Has(s, c, l) == Mapped(s, c) /\ l \in DOMAIN s.ServiceStack[c]
StackOf(s, c, l) == Get(Get(s.ServiceStack, c, NoMap), l, <<>>)

\* The elements of a stack are the innermost activations.
Innermost(stack, f) ==
  /\ Len(stack) <= Len(f)
  /\ \A k \in 1..Len(stack) : stack[k].Name = f[Len(f) - Len(stack) + k].name

AnalyserType ==
  /\ IsState(state)
  /\ recording \in BOOLEAN
  /\ limbo \in [CPUs -> BOOLEAN]
  /\ state.Interrupted \in Seq(LEU)

\* Nothing is known of a CPU in limbo.
Limbo ==
  /\ ~recording => \A c \in CPUs : limbo[c]
  /\ \A c \in CPUs : limbo[c] => ~Mapped(state, c) /\ c \notin DOMAIN state.CurrentLEU

\* A CPU that is followed: the LEU on it, and the one it will go back to.
Follows ==
  \A c \in CPUs : ~limbo[c] =>
    /\ Mapped(state, c)
    /\ Cur(state, c) = Current(c)
    /\ Thread(running[c]) \in state.LEUs
    /\ Current(c) \in state.LEUs
    /\ hirq[c] # NoIRQ =>
         /\ state.Interrupted # <<>>
         /\ LastOf(state.Interrupted) = Thread(running[c])
         /\ Len(StackOf(state, c, HIRQ(hirq[c]))) = Len(frames[HIRQ(hirq[c])])

\* The stacks, and whose they are.
Stacks ==
  \A c \in CPUs, l \in LEU :
    /\ StackOf(state, c, l) \in Seq(Element)
    /\ Innermost(StackOf(state, c, l), frames[l])
Owners ==
  /\ \A c \in DOMAIN state.ServiceStack, t \in Threads :
       Has(state, c, Thread(t)) => c = home[t]
  /\ \A c \in DOMAIN state.ServiceStack, i \in IRQs :
       Has(state, c, HIRQ(i)) => c \in IrqCPUs

\* What is stored for the signatures is whole.
Whole(stored) ==
  \A i \in DOMAIN stored :
    Begins(stored[i].entries[1], stored[i].service)
      /\ Ends(LastOf(stored[i].entries), stored[i].service)
StoredWhole == Whole(state.stored)
Alive == state.panic = "none"

AnalyserInv ==
  AnalyserType /\ Limbo /\ Follows /\ Stacks /\ Owners /\ StoredWhole /\ Alive

Inv == MachineInv /\ AnalyserInv
-----------------------------------------------------------------------------
(* Entries and stacks                                                      *)

LEMMA DropLastFacts ==
  ASSUME NEW S, NEW seq \in Seq(S), seq # <<>>
  PROVE  /\ DropLast(seq) \in Seq(S)
         /\ Len(DropLast(seq)) = Len(seq) - 1
         /\ LastOf(seq) \in S
         /\ LastOf(seq) = seq[Len(seq)]
         /\ Len(seq) \in Nat \ {0}
         /\ \A k \in 1..(Len(seq) - 1) : DropLast(seq)[k] = seq[k]
<1>1. Len(seq) \in Nat /\ Len(seq) # 0
  BY EmptySeq
<1>2. \A k \in 1..Len(seq) : seq[k] \in S
  BY ElementOfSeq
<1>3. LastOf(seq) \in S /\ LastOf(seq) = seq[Len(seq)]
  BY <1>1, <1>2 DEF LastOf
<1>4. \A k \in 1..(Len(seq) - 1) : seq[k] \in S
  BY <1>1, <1>2
<1>5. /\ SubSeq(seq, 1, Len(seq) - 1) \in Seq(S)
      /\ Len(SubSeq(seq, 1, Len(seq) - 1)) = Len(seq) - 1
      /\ \A k \in 1..(Len(seq) - 1) : SubSeq(seq, 1, Len(seq) - 1)[k] = seq[k]
  <2> DEFINE n == Len(seq) - 1
  <2>1. n \in Int /\ n >= 0 /\ \A k \in 1..n : seq[k] \in S
    BY <1>1, <1>4
  <2> HIDE DEF n
  <2>2. /\ SubSeq(seq, 1, n) \in Seq(S)
        /\ Len(SubSeq(seq, 1, n)) = IF 1 <= n THEN n - 1 + 1 ELSE 0
        /\ \A k \in 1..(n - 1 + 1) : SubSeq(seq, 1, n)[k] = seq[1 + k - 1]
    BY <2>1, SubSeqProperties
  <2>3. n - 1 + 1 = n /\ (IF 1 <= n THEN n - 1 + 1 ELSE 0) = n
    BY <2>1
  <2>4. \A k \in 1..n : 1 + k - 1 = k
    BY <2>1
  <2>5. \A k \in 1..n : SubSeq(seq, 1, n)[k] = seq[k]
    BY <2>2, <2>3, <2>4
  <2> QED BY <2>2, <2>3, <2>5 DEF n
<1> QED BY <1>1, <1>3, <1>5 DEF DropLast

LEMMA AppendFacts ==
  ASSUME NEW S, NEW seq \in Seq(S), NEW x \in S
  PROVE  /\ Append(seq, x) \in Seq(S)
         /\ Append(seq, x) # <<>>
         /\ Len(Append(seq, x)) = Len(seq) + 1
         /\ Append(seq, x)[Len(seq) + 1] = x
         /\ LastOf(Append(seq, x)) = x
         /\ DropLast(Append(seq, x)) = seq
         /\ \A k \in 1..Len(seq) : Append(seq, x)[k] = seq[k]
<1>1. /\ Append(seq, x) \in Seq(S)
      /\ Append(seq, x) # <<>>
      /\ Len(Append(seq, x)) = Len(seq) + 1
      /\ Append(seq, x)[Len(seq) + 1] = x
      /\ \A k \in 1..Len(seq) : Append(seq, x)[k] = seq[k]
      /\ Len(seq) \in Nat
  OBVIOUS
<1>2. LastOf(Append(seq, x)) = x
  BY <1>1 DEF LastOf
<1>3. DropLast(Append(seq, x)) = seq
  BY <1>1 DEF DropLast
<1> QED BY <1>1, <1>2, <1>3

\* A line added to a list of entries is its last; the first stays.
LEMMA AddFacts ==
  ASSUME NEW entries \in Seq(Entry), NEW e \in Entry
  PROVE  /\ Add(entries, e) \in Seq(Entry)
         /\ entries # <<>> => /\ Len(Add(entries, e)) = 2
                              /\ Add(entries, e)[1] = entries[1]
                              /\ Add(entries, e)[2] = e
         /\ entries = <<>> => Add(entries, e) = <<e>>
<1>1. CASE entries = <<>>
  <2>1. Add(entries, e) = <<e>>
    BY <1>1 DEF Add
  <2>2. <<e>> \in Seq(Entry)
    OBVIOUS
  <2> QED BY <1>1, <2>1, <2>2, Zenon
<1>2. CASE entries # <<>> /\ Len(entries) < 2
  <2>1. Len(entries) = 1
    <3> DEFINE n == Len(entries)
    <3>1. n \in Nat /\ n # 0 /\ n < 2
      BY <1>2, EmptySeq
    <3> HIDE DEF n
    <3>2. n = 1
      BY <3>1
    <3> QED BY <3>2 DEF n
  <2>2. Add(entries, e) = Append(entries, e)
    BY <1>2 DEF Add
  <2>3. /\ Append(entries, e) \in Seq(Entry)
        /\ Len(Append(entries, e)) = 2
        /\ Append(entries, e)[1] = entries[1]
        /\ Append(entries, e)[2] = e
    <3>1. 1 \in 1..Len(entries)
      BY <2>1
    <3>2. /\ Append(entries, e) \in Seq(Entry)
          /\ Len(Append(entries, e)) = Len(entries) + 1
          /\ Append(entries, e)[Len(entries) + 1] = e
          /\ \A k \in 1..Len(entries) : Append(entries, e)[k] = entries[k]
      BY AppendFacts, Zenon
    <3>3. Len(entries) + 1 = 2
      BY <2>1
    <3>4. Append(entries, e)[1] = entries[1]
      BY <3>1, <3>2
    <3> QED BY <3>2, <3>3, <3>4
  <2> QED BY <1>2, <2>2, <2>3, Zenon
<1>3. CASE entries # <<>> /\ ~(Len(entries) < 2)
  <2>1. Add(entries, e) = <<entries[1], e>>
    BY <1>3 DEF Add
  <2>2. entries[1] \in Entry
    BY <1>3
  <2>3. /\ <<entries[1], e>> \in Seq(Entry)
        /\ Len(<<entries[1], e>>) = 2
        /\ <<entries[1], e>>[1] = entries[1]
        /\ <<entries[1], e>>[2] = e
    BY <2>2
  <2> QED BY <1>3, <2>1, <2>3, Zenon
<1> QED BY <1>1, <1>2, <1>3, Zenon

\* An element keeps its name and its first line.
WithEntries(x, entries) == [x EXCEPT !.Entries = entries]
LEMMA WithEntriesFacts ==
  ASSUME NEW x \in Element, NEW entries \in Seq(Entry), entries # <<>>,
         Opens(entries[1], x.Name)
  PROVE  /\ WithEntries(x, entries) \in Element
         /\ WithEntries(x, entries).Name = x.Name
         /\ WithEntries(x, entries).Entries = entries
<1>1. x \in [Name : Names, Entries : Seq(Entry)]
  BY DEF Element
<1>2. /\ WithEntries(x, entries) \in [Name : Names, Entries : Seq(Entry)]
      /\ WithEntries(x, entries).Name = x.Name
      /\ WithEntries(x, entries).Entries = entries
  BY <1>1 DEF WithEntries
<1> QED BY <1>2 DEF Element

LEMMA ElementFacts ==
  ASSUME NEW x \in Element
  PROVE  /\ x.Name \in Names
         /\ x.Entries \in Seq(Entry)
         /\ x.Entries # <<>>
         /\ x.Entries[1] \in Entry
         /\ Opens(x.Entries[1], x.Name)
BY DEF Element

\* A new element.
LEMMA NewElement ==
  ASSUME NEW n \in Names, NEW e \in Entry, Opens(e, n)
  PROVE  [Name |-> n, Entries |-> <<e>>] \in Element
<1>1. <<e>> \in Seq(Entry) /\ <<e>> # <<>> /\ <<e>>[1] = e
  OBVIOUS
<1>2. [Name |-> n, Entries |-> <<e>>] \in [Name : Names, Entries : Seq(Entry)]
  BY <1>1
<1> QED BY <1>1, <1>2 DEF Element

\* The top of a stack replaced.
Replaced(stack, x) == [stack EXCEPT ![Len(stack)] = x]
LEMMA ReplacedFacts ==
  ASSUME NEW S, NEW stack \in Seq(S), stack # <<>>, NEW x \in S
  PROVE  /\ Replaced(stack, x) \in Seq(S)
         /\ Replaced(stack, x) # <<>>
         /\ Len(Replaced(stack, x)) = Len(stack)
         /\ LastOf(Replaced(stack, x)) = x
         /\ DropLast(Replaced(stack, x)) = DropLast(stack)
         /\ Append(DropLast(stack), x) = Replaced(stack, x)
         /\ \A k \in 1..Len(stack) : k # Len(stack) => Replaced(stack, x)[k] = stack[k]
<1> DEFINE r == Replaced(stack, x)
<1>1. Len(stack) \in Nat /\ Len(stack) \in 1..Len(stack) /\ stack \in [1..Len(stack) -> S]
  OBVIOUS
<1>2. r \in [1..Len(stack) -> S]
  BY <1>1 DEF Replaced
<1>3. r \in Seq(S) /\ Len(r) = Len(stack)
  BY <1>1, <1>2
<1>4. r[Len(stack)] = x /\ \A k \in 1..Len(stack) : k # Len(stack) => r[k] = stack[k]
  BY <1>1 DEF Replaced
<1> HIDE DEF r
<1> DEFINE p == DropLast(stack)
<1>5. /\ p \in Seq(S)
      /\ Len(p) = Len(stack) - 1
      /\ \A k \in 1..(Len(stack) - 1) : p[k] = stack[k]
  BY DropLastFacts
<1> HIDE DEF p
<1>n. Len(stack) \in Nat /\ Len(stack) # 0
  BY <1>1
<1>r. r # <<>>
  BY <1>1, <1>3
<1>d. /\ DropLast(r) \in Seq(S)
      /\ Len(DropLast(r)) = Len(stack) - 1
      /\ \A k \in 1..(Len(stack) - 1) : DropLast(r)[k] = r[k]
  BY <1>3, <1>r, DropLastFacts
<1>6. DropLast(r) = p
  <2>1. ASSUME NEW k \in 1..Len(p)
        PROVE  DropLast(r)[k] = p[k]
    <3>1. k \in 1..(Len(stack) - 1) /\ k \in 1..Len(stack) /\ k # Len(stack)
      BY <1>n, <1>5
    <3> QED BY <3>1, <1>4, <1>5, <1>d
  <2>2. Len(DropLast(r)) = Len(p)
    BY <1>5, <1>d
  <2> QED BY <1>5, <1>d, <2>1, <2>2, SeqEqual
<1>e. Append(p, x) = r
  <2>1. /\ Append(p, x) \in Seq(S)
        /\ Len(Append(p, x)) = Len(p) + 1
        /\ Append(p, x)[Len(p) + 1] = x
        /\ \A k \in 1..Len(p) : Append(p, x)[k] = p[k]
    <3>1. p \in Seq(S)
      BY <1>5
    <3> QED BY <3>1, AppendFacts
  <2>2. Len(p) + 1 = Len(stack)
    BY <1>1, <1>5
  <2>3. ASSUME NEW k \in 1..Len(stack)
        PROVE  Append(p, x)[k] = r[k]
    <3>1. CASE k = Len(stack)
      BY <3>1, <2>1, <2>2, <1>4
    <3>2. CASE k # Len(stack)
      <4>1. k \in 1..(Len(stack) - 1)
        BY <3>2, <1>n
      <4> QED BY <4>1, <3>2, <2>1, <1>4, <1>5
    <3> QED BY <3>1, <3>2
  <2>4. Len(Append(p, x)) = Len(r)
    BY <2>1, <2>2, <1>3
  <2> QED BY <2>1, <2>2, <2>3, <2>4, <1>3, SeqEqual
<1>7. r # <<>> /\ LastOf(r) = x
  BY <1>r, <1>3, <1>4 DEF LastOf
<1> QED BY <1>3, <1>4, <1>6, <1>e, <1>7 DEF r, p

\* Innermost activations: the names of a stack decide, nothing is innermost
\* anywhere, and a call and its return keep them.
LEMMA InnermostEmpty ==
  ASSUME NEW f \in Seq(Activation)
  PROVE  Innermost(<<>>, f)
BY DEF Innermost

LEMMA InnermostAppend ==
  ASSUME NEW stack \in Seq(Element), NEW f \in Seq(Activation), Innermost(stack, f),
         NEW x \in Element, NEW a \in Activation, x.Name = a.name
  PROVE  Innermost(Append(stack, x), Append(f, a))
<1>1. /\ Len(Append(stack, x)) = Len(stack) + 1
      /\ Append(stack, x)[Len(stack) + 1] = x
      /\ \A k \in 1..Len(stack) : Append(stack, x)[k] = stack[k]
  BY AppendFacts, Zenon
<1>2. /\ Len(Append(f, a)) = Len(f) + 1
      /\ Append(f, a)[Len(f) + 1] = a
      /\ \A k \in 1..Len(f) : Append(f, a)[k] = f[k]
  BY AppendFacts, Zenon
<1>3. Len(stack) \in Nat /\ Len(f) \in Nat
  OBVIOUS
<1> DEFINE n == Len(stack)
           m == Len(f)
           s2 == Append(stack, x)
           f2 == Append(f, a)
<1>4. n <= m /\ \A k \in 1..n : stack[k].Name = f[m - n + k].name
  BY DEF Innermost
<1>5. ASSUME NEW k \in 1..(n + 1)
      PROVE  s2[k].Name = f2[(m + 1) - (n + 1) + k].name
  <2>1. (m + 1) - (n + 1) + k = m - n + k
    BY <1>3
  <2>2. CASE k = n + 1
    <3>1. m - n + k = m + 1
      BY <2>2, <1>3
    <3> QED BY <2>1, <2>2, <3>1, <1>1, <1>2
  <2>3. CASE k # n + 1
    <3>1. k \in 1..n /\ m - n + k \in 1..m
      BY <2>3, <1>3, <1>4
    <3> QED BY <2>1, <3>1, <1>1, <1>2, <1>4
  <2> QED BY <2>2, <2>3
<1>6. Len(s2) = n + 1 /\ Len(f2) = m + 1 /\ n + 1 <= m + 1
  BY <1>1, <1>2, <1>3, <1>4
<1> HIDE DEF s2, f2, n, m
<1>7. Innermost(s2, f2)
  BY <1>5, <1>6 DEF Innermost
<1> QED BY <1>7 DEF s2, f2

LEMMA InnermostDrop ==
  ASSUME NEW stack \in Seq(Element), stack # <<>>, NEW f \in Seq(Activation), Innermost(stack, f)
  PROVE  /\ f # <<>>
         /\ Innermost(DropLast(stack), DropLast(f))
         /\ LastOf(stack).Name = LastOf(f).name
<1> DEFINE n == Len(stack)
           m == Len(f)
<1>1. n \in Nat /\ m \in Nat /\ n >= 1 /\ n <= m
  BY DEF Innermost
<1>2. f # <<>>
  BY <1>1
<1>3. Len(DropLast(stack)) = n - 1 /\ \A k \in 1..(n - 1) : DropLast(stack)[k] = stack[k]
  BY DropLastFacts
<1>4. Len(DropLast(f)) = m - 1 /\ \A k \in 1..(m - 1) : DropLast(f)[k] = f[k]
  BY <1>2, DropLastFacts
<1>5. \A k \in 1..n : stack[k].Name = f[m - n + k].name
  BY DEF Innermost
<1>6. LastOf(stack).Name = LastOf(f).name
  <2>1. n \in 1..n /\ m - n + n = m
    BY <1>1
  <2>2. stack[n].Name = f[m - n + n].name
    BY <2>1, <1>5
  <2> QED BY <2>1, <2>2 DEF LastOf
<1> DEFINE s2 == DropLast(stack)
           f2 == DropLast(f)
<1>7. ASSUME NEW k \in 1..(n - 1)
      PROVE  s2[k].Name = f2[(m - 1) - (n - 1) + k].name
  <2>1. (m - 1) - (n - 1) + k = m - n + k /\ m - n + k \in 1..(m - 1) /\ k \in 1..n
    BY <1>1
  <2> QED BY <2>1, <1>3, <1>4, <1>5
<1>8. Len(s2) = n - 1 /\ Len(f2) = m - 1 /\ n - 1 <= m - 1
  BY <1>1, <1>3, <1>4
<1> HIDE DEF s2, f2, n, m
<1>9. Innermost(s2, f2)
  BY <1>7, <1>8 DEF Innermost
<1> QED BY <1>2, <1>6, <1>9 DEF s2, f2

LEMMA InnermostReplaced ==
  ASSUME NEW stack \in Seq(Element), NEW other \in Seq(Element), NEW f \in Seq(Activation),
         Innermost(stack, f), Len(other) = Len(stack),
         \A k \in 1..Len(stack) : other[k].Name = stack[k].Name
  PROVE  Innermost(other, f)
BY DEF Innermost
-----------------------------------------------------------------------------
(* The operations on State                                                 *)

\* t is s with another stack for l on c; Same: and nothing stored.
Only(s, t, c, l, stack) ==
  /\ IsState(t)
  /\ t.CurrentLEU = s.CurrentLEU
  /\ t.Interrupted = s.Interrupted
  /\ Mapped(t, c)
  /\ \A d : d # c => (Mapped(t, d) <=> Mapped(s, d))
  /\ \A d, m : Has(t, d, m) => Has(s, d, m) \/ (d = c /\ m = l)
  /\ StackOf(t, c, l) = stack
  /\ \A d, m : d # c \/ m # l => StackOf(t, d, m) = StackOf(s, d, m)
Same(s, t) == t.LEUs = s.LEUs /\ t.stored = s.stored /\ t.panic = s.panic

LEMMA WithStacks ==
  ASSUME NEW s, IsState(s), NEW maps
  PROVE  LET t == [s EXCEPT !.ServiceStack = maps]
         IN  /\ IsState(t)
             /\ t.ServiceStack = maps
             /\ t.CurrentLEU = s.CurrentLEU
             /\ t.Interrupted = s.Interrupted
             /\ Same(s, t)
BY DEF IsState, Same

LEMMA SetStackFacts ==
  ASSUME NEW s, IsState(s), NEW e, NEW stack
  PROVE  /\ Only(s, SetStack(s, e, stack), e.CPU, Cur(s, e.CPU), stack)
         /\ Same(s, SetStack(s, e, stack))
<1> DEFINE c == e.CPU
           l == Cur(s, c)
           old == Get(s.ServiceStack, c, NoMap)
           new == Put(old, l, stack)
           maps == Put(s.ServiceStack, c, new)
           t == SetStack(s, e, stack)
<1>1. t = [s EXCEPT !.ServiceStack = maps]
  BY DEF SetStack, GetCurrentLEU, Cur, IsState
<1> HIDE DEF t, maps
<1>2. /\ IsState(t)
      /\ t.ServiceStack = maps
      /\ t.CurrentLEU = s.CurrentLEU
      /\ t.Interrupted = s.Interrupted
      /\ Same(s, t)
  BY <1>1, WithStacks
<1> HIDE DEF new
<1>3. /\ DOMAIN maps = DOMAIN s.ServiceStack \cup {c}
      /\ maps[c] = new
      /\ \A z : Get(maps, c, z) = new
      /\ \A x, z : x # c => Get(maps, x, z) = Get(s.ServiceStack, x, z)
      /\ \A x \in DOMAIN s.ServiceStack : x # c => maps[x] = s.ServiceStack[x]
  BY DEF maps, Put, Get
<1> HIDE DEF old, l
<1>4. /\ DOMAIN new = DOMAIN old \cup {l}
      /\ \A z : Get(new, l, z) = stack
      /\ \A x, z : x # l => Get(new, x, z) = Get(old, x, z)
  BY DEF new, Put, Get
<1> HIDE DEF c
<1>5. Mapped(t, c) /\ \A d : d # c => (Mapped(t, d) <=> Mapped(s, d))
  BY <1>2, <1>3 DEF Mapped
<1>6. ASSUME NEW d, NEW m, Has(t, d, m)
      PROVE  Has(s, d, m) \/ (d = c /\ m = l)
  <2>1. CASE d = c
    <3>1. m \in DOMAIN old \cup {l}
      BY <1>6, <1>2, <1>3, <1>4, <2>1 DEF Has
    <3>2. CASE m # l
      <4>1. DOMAIN NoMap = {}
        BY DEF NoMap
      <4>2. c \in DOMAIN s.ServiceStack /\ m \in DOMAIN s.ServiceStack[c]
        BY <3>1, <3>2, <4>1 DEF old, Get
      <4> QED BY <4>2, <2>1 DEF Has, Mapped
    <3> QED BY <3>2, <2>1
  <2>2. CASE d # c
    BY <1>6, <1>2, <1>3, <2>2 DEF Has, Mapped
  <2> QED BY <2>1, <2>2
<1>7. StackOf(t, c, l) = stack
  BY <1>2, <1>3, <1>4 DEF StackOf
<1>8. ASSUME NEW d, NEW m, d # c \/ m # l
      PROVE  StackOf(t, d, m) = StackOf(s, d, m)
  <2>1. CASE d = c
    BY <1>8, <1>2, <1>3, <1>4, <2>1 DEF StackOf, old
  <2>2. CASE d # c
    BY <1>2, <1>3, <2>2 DEF StackOf
  <2> QED BY <2>1, <2>2
<1>9. Only(s, t, c, l, stack)
  BY <1>2, <1>5, <1>6, <1>7, <1>8 DEF Only
<1> QED BY <1>2, <1>9 DEF t, c, l

\* Reading the stack of a LEU that has none.
LEMMA MakeMapFacts ==
  ASSUME NEW s, IsState(s), NEW e, Stack(s, e) = <<>>
  PROVE  /\ Only(s, MakeMap(s, e), e.CPU, Cur(s, e.CPU), <<>>)
         /\ Same(s, MakeMap(s, e))
<1> DEFINE c == e.CPU
           maps == IF c \in DOMAIN s.ServiceStack THEN s.ServiceStack
                   ELSE Put(s.ServiceStack, c, NoMap)
           t == MakeMap(s, e)
<1>1. t = [s EXCEPT !.ServiceStack = maps]
  BY DEF MakeMap, IsState
<1> HIDE DEF t, maps
<1>2. /\ IsState(t)
      /\ t.ServiceStack = maps
      /\ t.CurrentLEU = s.CurrentLEU
      /\ t.Interrupted = s.Interrupted
      /\ Same(s, t)
  BY <1>1, WithStacks
<1>3. /\ DOMAIN maps = DOMAIN s.ServiceStack \cup {c}
      /\ c \notin DOMAIN s.ServiceStack => maps[c] = NoMap
      /\ \A x \in DOMAIN s.ServiceStack : maps[x] = s.ServiceStack[x]
  BY DEF maps, Put
<1>4. \A x : Get(maps, x, NoMap) = Get(s.ServiceStack, x, NoMap)
  BY <1>3 DEF Get
<1>5. \A d, m : StackOf(t, d, m) = StackOf(s, d, m)
  BY <1>2, <1>4 DEF StackOf
<1>6. StackOf(t, c, Cur(s, c)) = <<>>
  BY <1>5 DEF Stack, StackOf, Cur, GetCurrentLEU
<1>7. Mapped(t, c) /\ \A d : d # c => (Mapped(t, d) <=> Mapped(s, d))
  BY <1>2, <1>3 DEF Mapped
<1>8. DOMAIN NoMap = {}
  BY DEF NoMap
<1>9. \A d, m : Has(t, d, m) => Has(s, d, m)
  BY <1>2, <1>3, <1>8 DEF Has, Mapped
<1>10. Only(s, t, c, Cur(s, c), <<>>)
  BY <1>2, <1>5, <1>6, <1>7, <1>9 DEF Only
<1> QED BY <1>2, <1>10 DEF t, c

LEMMA OnlyTransitive ==
  ASSUME NEW s, NEW t, NEW u, NEW c, NEW l, NEW a, NEW b,
         Only(s, t, c, l, a), Only(t, u, c, l, b)
  PROVE  Only(s, u, c, l, b)
BY DEF Only

LEMMA SameTransitive ==
  ASSUME NEW s, NEW t, NEW u, Same(s, t), Same(t, u)
  PROVE  Same(s, u)
BY DEF Same

\* PushService() adds a line to the innermost element, if there is one.
Pushed(stack, k) ==
  IF stack = <<>> THEN <<>>
  ELSE Replaced(stack, WithEntries(LastOf(stack), Add(LastOf(stack).Entries, k)))

LEMMA PushedFacts ==
  ASSUME NEW stack \in Seq(Element), NEW k \in Entry
  PROVE  /\ Pushed(stack, k) \in Seq(Element)
         /\ Len(Pushed(stack, k)) = Len(stack)
         /\ \A i \in 1..Len(stack) : Pushed(stack, k)[i].Name = stack[i].Name
         /\ stack # <<>> =>
              /\ Pushed(stack, k) # <<>>
              /\ DropLast(Pushed(stack, k)) = DropLast(stack)
              /\ LastOf(Pushed(stack, k)).Name = LastOf(stack).Name
              /\ LastOf(Pushed(stack, k)).Entries = Add(LastOf(stack).Entries, k)
<1>1. CASE stack = <<>>
  BY <1>1, EmptySeq DEF Pushed
<1>2. CASE stack # <<>>
  <2> DEFINE top == LastOf(stack)
             entries == Add(top.Entries, k)
             x == WithEntries(top, entries)
             r == Replaced(stack, x)
  <2>1. top \in Element /\ top = stack[Len(stack)]
    BY <1>2, DropLastFacts
  <2> HIDE DEF top
  <2>2. /\ top.Entries \in Seq(Entry)
        /\ top.Entries # <<>>
        /\ Opens(top.Entries[1], top.Name)
    BY <2>1, ElementFacts
  <2>3. entries \in Seq(Entry) /\ Len(entries) = 2 /\ entries[1] = top.Entries[1]
    BY <2>2, AddFacts
  <2> HIDE DEF entries
  <2>4. entries # <<>>
    BY <2>3, EmptySeq
  <2>5. x \in Element /\ x.Name = top.Name /\ x.Entries = entries
    BY <2>1, <2>2, <2>3, <2>4, WithEntriesFacts
  <2> HIDE DEF x
  <2>6. /\ r \in Seq(Element)
        /\ r # <<>>
        /\ Len(r) = Len(stack)
        /\ LastOf(r) = x
        /\ DropLast(r) = DropLast(stack)
        /\ \A i \in 1..Len(stack) : i # Len(stack) => r[i] = stack[i]
    BY <1>2, <2>5, ReplacedFacts
  <2>7. r[Len(stack)] = x
    BY <2>6 DEF LastOf
  <2> HIDE DEF r
  <2>8. \A i \in 1..Len(stack) : r[i].Name = stack[i].Name
    BY <2>1, <2>5, <2>6, <2>7
  <2>9. Pushed(stack, k) = r
    BY <1>2 DEF Pushed, r, x, entries, top
  <2> QED BY <2>5, <2>6, <2>8, <2>9 DEF top, entries
<1> QED BY <1>1, <1>2

LEMMA PushServiceFacts ==
  ASSUME NEW s, IsState(s), NEW e
  PROVE  /\ Only(s, PushService(s, e), e.CPU, Cur(s, e.CPU),
                 Pushed(StackOf(s, e.CPU, Cur(s, e.CPU)), Kept(e)))
         /\ Same(s, PushService(s, e))
<1> DEFINE stack == Stack(s, e)
<1>1. StackOf(s, e.CPU, Cur(s, e.CPU)) = stack
  BY DEF StackOf, Stack, Cur, GetCurrentLEU
<1>2. CASE stack = <<>>
  <2>1. PushService(s, e) = MakeMap(s, e) /\ Pushed(stack, Kept(e)) = <<>>
    BY <1>2 DEF PushService, Pushed
  <2> QED BY <1>1, <1>2, <2>1, MakeMapFacts
<1>3. CASE stack # <<>>
  <2>1. PushService(s, e) = SetStack(s, e, Pushed(stack, Kept(e)))
    BY <1>3 DEF PushService, Pushed, Replaced, WithEntries, LastOf
  <2> QED BY <1>1, <2>1, SetStackFacts
<1> QED BY <1>2, <1>3

\* PushNewService(): the call is added to the caller, and a new element to the
\* stack; LOOPSTART of softirqs is not added to the caller.
Caller(stack, e) == IF e.Location = "irq_exit" THEN stack ELSE Pushed(stack, Kept(e))
LEMMA PushNewServiceFacts ==
  ASSUME NEW s, IsState(s), NEW e, Kept(e) \in Entry, NEW n,
         StackOf(s, e.CPU, Cur(s, e.CPU)) \in Seq(Element)
  PROVE  /\ Only(s, PushNewService(s, e, n), e.CPU, Cur(s, e.CPU),
                 Append(Caller(StackOf(s, e.CPU, Cur(s, e.CPU)), e),
                        [Name |-> n, Entries |-> <<Kept(e)>>]))
         /\ Same(s, PushNewService(s, e, n))
<1> DEFINE c == e.CPU
           l == Cur(s, c)
           k == Kept(e)
           stack == StackOf(s, c, l)
           base == Caller(stack, e)
           x == [Name |-> n, Entries |-> <<>>]
           y == [Name |-> n, Entries |-> <<k>>]
           s1 == IF e.Location = "irq_exit" THEN s ELSE PushService(s, e)
           s2 == SetStack(s1, e, Append(base, x))
           s3 == PushService(s2, e)
<1>1. base \in Seq(Element)
  BY PushedFacts DEF Caller
<1>2. IsState(s1) /\ Cur(s1, c) = l /\ StackOf(s1, c, l) = base /\ Same(s, s1)
  <2>1. CASE e.Location = "irq_exit"
    BY <2>1 DEF Caller, Same
  <2>2. CASE e.Location # "irq_exit"
    <3>1. Only(s, PushService(s, e), c, l, Pushed(stack, k)) /\ Same(s, PushService(s, e))
      BY PushServiceFacts
    <3> QED BY <2>2, <3>1 DEF Only, Caller, Cur
  <2> QED BY <2>1, <2>2
<1>3. ASSUME NEW t, Only(s1, t, c, l, Append(base, y))
      PROVE  Only(s, t, c, l, Append(base, y))
  <2>1. CASE e.Location = "irq_exit"
    BY <1>3, <2>1
  <2>2. CASE e.Location # "irq_exit"
    <3>1. Only(s, PushService(s, e), c, l, Pushed(stack, k))
      BY PushServiceFacts
    <3>2. Only(s, s1, c, l, Pushed(stack, k))
      BY <2>2, <3>1
    <3> HIDE DEF s1
    <3> QED BY <1>3, <3>2, OnlyTransitive
  <2> QED BY <2>1, <2>2
<1>4. PushNewService(s, e, n) = s3
  <2>1. Stack(s1, e) = base
    BY <1>2 DEF Stack, StackOf, Cur, GetCurrentLEU
  <2> QED BY <2>1 DEF PushNewService
<1> HIDE DEF s1
<1>5. Only(s1, s2, c, l, Append(base, x)) /\ Same(s1, s2)
  BY <1>2, SetStackFacts
<1> HIDE DEF s2
<1>6. IsState(s2) /\ Cur(s2, c) = l /\ StackOf(s2, c, l) = Append(base, x)
  BY <1>2, <1>5 DEF Only, Cur
<1>7. Only(s2, s3, c, l, Pushed(Append(base, x), k)) /\ Same(s2, s3)
  BY <1>6, PushServiceFacts
<1>8. Pushed(Append(base, x), k) = Append(base, y)
  <2> DEFINE S == Element \cup {x, y}
             r == Append(base, x)
  <2>1. base \in Seq(S) /\ x \in S /\ y \in S
    BY <1>1, SeqMonotonic
  <2> HIDE DEF S, base
  <2>2. r \in Seq(S) /\ r # <<>> /\ LastOf(r) = x /\ DropLast(r) = base
    BY <2>1, AppendFacts
  <2> HIDE DEF r
  <2>3. Append(DropLast(r), y) = Replaced(r, y)
    BY <2>1, <2>2, ReplacedFacts
  <2>4. Add(x.Entries, k) = <<k>>
    <3>1. x.Entries = <<>> /\ x.Entries \in Seq(Entry)
      BY EmptySeq
    <3> QED BY <3>1, AddFacts
  <2>5. WithEntries(x, <<k>>) = y
    BY DEF WithEntries
  <2>6. Pushed(r, k) = Replaced(r, y)
    BY <2>2, <2>4, <2>5 DEF Pushed
  <2> QED BY <2>2, <2>3, <2>6 DEF r
<1> HIDE DEF s3, base, x, y
<1>9. Only(s1, s3, c, l, Append(base, y)) /\ Same(s, s3)
  BY <1>2, <1>5, <1>7, <1>8, OnlyTransitive, SameTransitive
<1> QED BY <1>3, <1>4, <1>9 DEF base, y

\* t is s with another stack for l on c, after a line that stored nothing or a
\* whole instance.
Handled(s, t, c, l, stack) ==
  Only(s, t, c, l, stack) /\ s.LEUs \subseteq t.LEUs /\ t.panic = "none" /\ Whole(t.stored)

LEMMA WholeNone == Whole(<<>>)
BY DEF Whole

LEMMA WholeOne ==
  ASSUME NEW l, NEW n, NEW entries, Begins(entries[1], n), Ends(LastOf(entries), n)
  PROVE  Whole(<<[leu |-> l, service |-> n, entries |-> entries]>>)
<1> DEFINE x == [leu |-> l, service |-> n, entries |-> entries]
<1>1. x.service = n /\ x.entries = entries
  OBVIOUS
<1> HIDE DEF x
<1>2. DOMAIN <<x>> = {1} /\ <<x>>[1] = x
  OBVIOUS
<1>3. Whole(<<x>>)
  BY <1>1, <1>2 DEF Whole
<1> QED BY <1>3 DEF x

LEMMA SameHandled ==
  ASSUME NEW s, NEW t, NEW c, NEW l, NEW stack, s.panic = "none", s.stored = <<>>,
         Only(s, t, c, l, stack), Same(s, t)
  PROVE  Handled(s, t, c, l, stack)
BY WholeNone DEF Handled, Same

\* Nothing but LEUs, stored and panic differ.
Quiet(s, t) ==
  /\ IsState(t)
  /\ t.CurrentLEU = s.CurrentLEU
  /\ t.Interrupted = s.Interrupted
  /\ t.ServiceStack = s.ServiceStack

LEMMA QuietStacks ==
  ASSUME NEW s, NEW t, Quiet(s, t)
  PROVE  /\ \A c : Cur(t, c) = Cur(s, c)
         /\ \A c : Mapped(t, c) <=> Mapped(s, c)
         /\ \A c, l : Has(t, c, l) <=> Has(s, c, l)
         /\ \A c, l : StackOf(t, c, l) = StackOf(s, c, l)
BY DEF Quiet, Cur, Mapped, Has, StackOf

LEMMA OnlyQuiet ==
  ASSUME NEW s, NEW t, NEW u, NEW c, NEW l, NEW stack, Only(s, t, c, l, stack), Quiet(t, u)
  PROVE  Only(s, u, c, l, stack)
<1>1. /\ \A d : Mapped(u, d) <=> Mapped(t, d)
      /\ \A d, m : Has(u, d, m) <=> Has(t, d, m)
      /\ \A d, m : StackOf(u, d, m) = StackOf(t, d, m)
  BY QuietStacks
<1>2. /\ IsState(u)
      /\ u.CurrentLEU = s.CurrentLEU
      /\ u.Interrupted = s.Interrupted
  BY DEF Quiet, Only
<1> QED BY <1>1, <1>2 DEF Only

LEMMA MakeLEUFacts ==
  ASSUME NEW s, IsState(s), NEW e
  PROVE  /\ Quiet(s, MakeLEU(s, e))
         /\ MakeLEU(s, e).LEUs = s.LEUs \cup {Cur(s, e.CPU)}
         /\ MakeLEU(s, e).stored = s.stored
         /\ MakeLEU(s, e).panic = s.panic
BY DEF MakeLEU, Quiet, IsState, Cur, GetCurrentLEU

LEMMA PushServiceToLEUFacts ==
  ASSUME NEW s, IsState(s), NEW e, NEW x, s.panic = "none", Cur(s, e.CPU) \in s.LEUs
  PROVE  /\ Quiet(s, PushServiceToLEU(s, e, x))
         /\ PushServiceToLEU(s, e, x).LEUs = s.LEUs
         /\ PushServiceToLEU(s, e, x).stored =
              <<[leu |-> Cur(s, e.CPU), service |-> x.Name, entries |-> x.Entries]>>
         /\ PushServiceToLEU(s, e, x).panic = "none"
<1>1. GetCurrentLEU(s, e) = Cur(s, e.CPU)
  BY DEF GetCurrentLEU, Cur
<1> DEFINE l == Cur(s, e.CPU)
           st == <<[leu |-> l, service |-> x.Name, entries |-> x.Entries]>>
           p == IF l \in s.LEUs THEN s.panic ELSE e.EventType
<1>2. p = "none"
  OBVIOUS
<1>3. PushServiceToLEU(s, e, x) = [s EXCEPT !.stored = st, !.panic = p]
  BY <1>1 DEF PushServiceToLEU, IsState
<1> HIDE DEF st, p, l
<1>4. PushServiceToLEU(s, e, x) = [s EXCEPT !.stored = st, !.panic = "none"]
  BY <1>2, <1>3
<1>5. /\ Quiet(s, PushServiceToLEU(s, e, x))
      /\ PushServiceToLEU(s, e, x).LEUs = s.LEUs
      /\ PushServiceToLEU(s, e, x).stored = st
      /\ PushServiceToLEU(s, e, x).panic = "none"
  BY <1>4 DEF Quiet, IsState
<1> QED BY <1>5 DEF st, l

\* The type of a line that was kept is changed.
LEMMA RetypeFacts ==
  ASSUME NEW entries \in Seq(Entry), NEW i \in 1..Len(entries),
         NEW ev \in {"LOOPSTART", "LOOPRSTART"}
  PROVE  /\ Retype(entries, i, ev) \in Seq(Entry)
         /\ Len(Retype(entries, i, ev)) = Len(entries)
         /\ Retype(entries, i, ev)[i].ev = ev
         /\ Retype(entries, i, ev)[i].loc = entries[i].loc
         /\ \A j \in 1..Len(entries) : j # i => Retype(entries, i, ev)[j] = entries[j]
<1> DEFINE x == [entries[i] EXCEPT !.ev = ev]
<1>1. entries[i] \in Entry
  OBVIOUS
<1>2. x \in Entry /\ x.ev = ev /\ x.loc = entries[i].loc
  BY <1>1 DEF Entry
<1> HIDE DEF x
<1>3. Retype(entries, i, ev) = [entries EXCEPT ![i] = x]
  BY DEF Retype, x
<1>4. /\ [entries EXCEPT ![i] = x] \in Seq(Entry)
      /\ Len([entries EXCEPT ![i] = x]) = Len(entries)
      /\ \A j \in 1..Len(entries) : [entries EXCEPT ![i] = x][j] = IF j = i THEN x ELSE entries[j]
  BY <1>2, ExceptSeq
<1> QED BY <1>2, <1>3, <1>4

\* An element taken off the stack.
LEMMA PopFacts ==
  ASSUME NEW s, IsState(s), NEW e
  PROVE  /\ Only(s, Pop(s, e), e.CPU, Cur(s, e.CPU), DropLast(StackOf(s, e.CPU, Cur(s, e.CPU))))
         /\ Same(s, Pop(s, e))
<1>1. Stack(s, e) = StackOf(s, e.CPU, Cur(s, e.CPU))
  BY DEF Stack, StackOf, Cur, GetCurrentLEU
<1> QED BY <1>1, SetStackFacts DEF Pop

\* SRVEXIT: the innermost service is stored and left.
LEMMA ExitFacts ==
  ASSUME NEW s, IsState(s), s.panic = "none", NEW e, Kept(e) \in Entry,
         NEW stack \in Seq(Element), stack = StackOf(s, e.CPU, Cur(s, e.CPU)), stack # <<>>,
         LastOf(stack).Name \notin Loops, Ends(Kept(e), LastOf(stack).Name)
  PROVE  Handled(s, handleSRVEXIT(s, e), e.CPU, Cur(s, e.CPU), Pushed(DropLast(stack), Kept(e)))
<1> DEFINE c == e.CPU
           l == Cur(s, c)
           k == Kept(e)
           top == LastOf(stack)
           s1 == PushService(s, e)
           s2a == Pop(s1, e)
           s2 == MakeLEU(s2a, e)
           x == LastOf(Pushed(stack, k))
           s3 == PushServiceToLEU(s2, e, x)
           s4 == PushService(s3, e)
<1>1. Only(s, s1, c, l, Pushed(stack, k)) /\ Same(s, s1)
  BY PushServiceFacts
<1>2. IsState(s1) /\ Cur(s1, c) = l /\ StackOf(s1, c, l) = Pushed(stack, k)
  BY <1>1 DEF Only, Cur
<1>3. handleSRVEXIT(s, e) = s4
  <2>1. Stack(s, e) = stack /\ Stack(s1, e) = Pushed(stack, k)
    BY <1>2 DEF Stack, StackOf, Cur, GetCurrentLEU
  <2> QED BY <2>1 DEF handleSRVEXIT
<1> HIDE DEF s1
<1>4. Only(s1, s2a, c, l, DropLast(Pushed(stack, k))) /\ Same(s1, s2a)
  BY <1>2, PopFacts
<1>5. DropLast(Pushed(stack, k)) = DropLast(stack) /\ x.Name = top.Name /\ x.Entries = Add(top.Entries, k)
  BY PushedFacts
<1> HIDE DEF s2a, x
<1>6. Only(s, s2a, c, l, DropLast(stack)) /\ Same(s, s2a)
  BY <1>1, <1>4, <1>5, OnlyTransitive, SameTransitive
<1>7. IsState(s2a) /\ Cur(s2a, c) = l
  BY <1>6 DEF Only, Cur
<1>8. Quiet(s2a, s2) /\ s2.LEUs = s2a.LEUs \cup {l} /\ s2.panic = s2a.panic
  <2>1. /\ Quiet(s2a, s2)
        /\ s2.LEUs = s2a.LEUs \cup {Cur(s2a, c)}
        /\ s2.panic = s2a.panic
    BY <1>7, MakeLEUFacts, Zenon
  <2> HIDE DEF s2
  <2> QED BY <1>7, <2>1
<1> HIDE DEF s2
<1>9. Only(s, s2, c, l, DropLast(stack)) /\ s2.panic = "none" /\ s2.LEUs = s.LEUs \cup {l}
  BY <1>6, <1>8, OnlyQuiet DEF Same
<1>10. IsState(s2) /\ Cur(s2, c) = l /\ l \in s2.LEUs
  BY <1>9 DEF Only, Cur
<1>11. /\ Quiet(s2, s3)
       /\ s3.LEUs = s2.LEUs
       /\ s3.stored = <<[leu |-> l, service |-> x.Name, entries |-> x.Entries]>>
       /\ s3.panic = "none"
  <2>1. Cur(s2, c) \in s2.LEUs
    BY <1>10
  <2>2. /\ Quiet(s2, s3)
        /\ s3.LEUs = s2.LEUs
        /\ s3.stored = <<[leu |-> Cur(s2, c), service |-> x.Name, entries |-> x.Entries]>>
        /\ s3.panic = "none"
    BY <1>9, <1>10, <2>1, PushServiceToLEUFacts, Zenon
  <2> HIDE DEF s3
  <2> QED BY <1>10, <2>2
<1> HIDE DEF s3
<1>12. Only(s, s3, c, l, DropLast(stack))
  BY <1>9, <1>11, OnlyQuiet
<1>13. IsState(s3) /\ Cur(s3, c) = l /\ StackOf(s3, c, l) = DropLast(stack)
  BY <1>12 DEF Only, Cur
<1>14. Only(s3, s4, c, l, Pushed(DropLast(stack), k)) /\ Same(s3, s4)
  BY <1>13, PushServiceFacts
<1> HIDE DEF s4
<1>15. Only(s, s4, c, l, Pushed(DropLast(stack), k))
  BY <1>12, <1>14, OnlyTransitive
<1>16. Whole(s4.stored)
  <2>1. top \in Element
    BY DropLastFacts
  <2>2. /\ top.Entries \in Seq(Entry)
        /\ top.Entries # <<>>
        /\ Opens(top.Entries[1], top.Name)
    BY <2>1, ElementFacts
  <2> HIDE DEF top, k
  <2>3. /\ Len(x.Entries) = 2
        /\ x.Entries[1] = top.Entries[1]
        /\ x.Entries[2] = k
    <3>1. k \in Entry
      BY DEF k
    <3>2. /\ Len(Add(top.Entries, k)) = 2
          /\ Add(top.Entries, k)[1] = top.Entries[1]
          /\ Add(top.Entries, k)[2] = k
      BY <2>2, <3>1, AddFacts, Zenon
    <3> QED BY <1>5, <3>2 DEF top, k
  <2>4. Begins(x.Entries[1], x.Name)
    BY <1>5, <2>2, <2>3 DEF Opens, top
  <2>5. Ends(LastOf(x.Entries), x.Name)
    BY <1>5, <2>3 DEF LastOf, k, top
  <2>6. Whole(s3.stored)
    BY <1>11, <2>4, <2>5, WholeOne
  <2> QED BY <1>14, <2>6 DEF Same
<1> QED BY <1>3, <1>9, <1>11, <1>14, <1>15, <1>16 DEF Handled, Same

\* LOOPRSTART: the innermost loop begins another pass, and the pass before it
\* is stored.
LEMMA RestartFacts ==
  ASSUME NEW s, IsState(s), s.panic = "none", s.stored = <<>>, NEW e,
         Kept(e) \in Entry, Kept(e).ev = "LOOPRSTART",
         NEW stack \in Seq(Element), stack = StackOf(s, e.CPU, Cur(s, e.CPU)), stack # <<>>,
         LastOf(stack).Name \in Loops, Cur(s, e.CPU) \in s.LEUs
  PROVE  \E y \in Element :
           /\ y.Name = LastOf(stack).Name
           /\ Handled(s, handleLOOPRSTART(s, e), e.CPU, Cur(s, e.CPU), Replaced(stack, y))
<1> DEFINE c == e.CPU
           l == Cur(s, c)
           k == Kept(e)
           top == LastOf(stack)
           entries == top.Entries
           n == Len(entries)
           t == handleLOOPRSTART(s, e)
<1>1. top \in Element /\ top = stack[Len(stack)]
  BY DropLastFacts
<1>2. /\ entries \in Seq(Entry)
      /\ entries # <<>>
      /\ entries[1] \in Entry
      /\ entries[1].ev \in {"LOOPSTART", "LOOPRSTART"}
      /\ entries[1].loc = top.Name
  BY <1>1, ElementFacts DEF Opens
<1>3. n \in Nat /\ n # 0
  BY <1>2, EmptySeq
<1>4. Stack(s, e) = stack
  BY DEF Stack, StackOf, Cur, GetCurrentLEU
<1>5. CASE LastOf(entries).ev = "LOOPSTART"
  <2> DEFINE first == Retype(entries, n, "LOOPRSTART")
             y == WithEntries(top, first)
  <2>1. n \in 1..n
    BY <1>3
  <2>2. /\ first \in Seq(Entry)
        /\ Len(first) = n
        /\ first[n].ev = "LOOPRSTART"
        /\ first[n].loc = entries[n].loc
        /\ \A j \in 1..n : j # n => first[j] = entries[j]
    BY <1>2, <2>1, RetypeFacts
  <2>3. t = SetStack(s, e, [stack EXCEPT ![Len(stack)].Entries = first])
    BY <1>2, <1>4, <1>5 DEF handleLOOPRSTART
  <2>4. [stack EXCEPT ![Len(stack)].Entries = first] = Replaced(stack, y)
    BY <1>1 DEF Replaced, WithEntries
  <2> HIDE DEF first, n
  <2>5. Opens(first[1], top.Name)
    <3>1. CASE n = 1
      BY <3>1, <1>2, <2>2 DEF Opens
    <3>2. CASE n # 1
      <4>1. 1 \in 1..n
        BY <1>3
      <4> QED BY <3>2, <4>1, <1>2, <2>2 DEF Opens
    <3> QED BY <3>1, <3>2
  <2>6. first # <<>>
    BY <1>3, <2>2, EmptySeq
  <2>7. y \in Element /\ y.Name = top.Name
    BY <1>1, <2>2, <2>5, <2>6, WithEntriesFacts
  <2> HIDE DEF y
  <2>8. Only(s, t, c, l, Replaced(stack, y)) /\ Same(s, t)
    BY <2>3, <2>4, SetStackFacts
  <2>9. Handled(s, t, c, l, Replaced(stack, y))
    BY <2>8, SameHandled
  <2> QED BY <2>7, <2>9
<1>6. CASE LastOf(entries).ev # "LOOPSTART"
  <2> DEFINE s1 == Pop(s, e)
             added == Add(entries, k)
             passes == Retype(added, 1, "LOOPSTART")
             done == [top EXCEPT !.Entries = Retype(Add(@, Kept(e)), 1, "LOOPSTART")]
             s2 == PushServiceToLEU(s1, e, done)
             begin == [entries[1] EXCEPT !.ev = "LOOPRSTART"]
             y == [Name |-> top.Name, Entries |-> <<begin>>]
  <2>1. t = SetStack(s2, e, Append(Stack(s2, e), y))
    BY <1>2, <1>4, <1>6 DEF handleLOOPRSTART
  <2>2. Only(s, s1, c, l, DropLast(stack)) /\ Same(s, s1)
    BY PopFacts
  <2>3. done = WithEntries(top, passes)
    BY <1>1 DEF WithEntries, Element
  <2> HIDE DEF s1, done
  <2>4. IsState(s1) /\ Cur(s1, c) = l /\ l \in s1.LEUs /\ s1.panic = "none"
    BY <2>2 DEF Only, Same, Cur
  <2>5. /\ Quiet(s1, s2)
        /\ s2.LEUs = s1.LEUs
        /\ s2.stored = <<[leu |-> l, service |-> done.Name, entries |-> done.Entries]>>
        /\ s2.panic = "none"
    <3>1. Cur(s1, c) \in s1.LEUs
      BY <2>4
    <3>2. /\ Quiet(s1, s2)
          /\ s2.LEUs = s1.LEUs
          /\ s2.stored =
               <<[leu |-> Cur(s1, c), service |-> done.Name, entries |-> done.Entries]>>
          /\ s2.panic = "none"
      BY <2>4, <3>1, PushServiceToLEUFacts, Zenon
    <3> HIDE DEF s2
    <3> QED BY <2>4, <3>2
  <2> HIDE DEF s2
  <2>6. Only(s, s2, c, l, DropLast(stack))
    BY <2>2, <2>5, OnlyQuiet
  <2>7. IsState(s2) /\ Cur(s2, c) = l /\ Stack(s2, e) = DropLast(stack)
    BY <2>6 DEF Only, Cur, Stack, StackOf, GetCurrentLEU
  <2>8. begin \in Entry /\ begin.ev = "LOOPRSTART" /\ begin.loc = top.Name
    BY <1>2 DEF Entry
  <2> HIDE DEF begin
  <2>9. top.Name \in Names
    BY <1>1, ElementFacts
  <2>10. y \in Element /\ y.Name = top.Name
    BY <2>8, <2>9, NewElement DEF Opens
  <2> HIDE DEF y
  <2>11. Append(DropLast(stack), y) = Replaced(stack, y)
    BY <2>10, ReplacedFacts
  <2>12. Only(s2, t, c, l, Replaced(stack, y)) /\ Same(s2, t)
    BY <2>1, <2>7, <2>11, SetStackFacts
  <2>13. Only(s, t, c, l, Replaced(stack, y))
    BY <2>6, <2>12, OnlyTransitive
  <2>14. /\ added \in Seq(Entry) /\ Len(added) = 2
         /\ added[1] = entries[1] /\ added[2] = k
    BY <1>2, AddFacts
  <2> HIDE DEF added
  <2>15. 1 \in 1..Len(added) /\ 2 \in 1..Len(added)
    BY <2>14
  <2>16. /\ passes \in Seq(Entry) /\ Len(passes) = 2
         /\ passes[1].ev = "LOOPSTART" /\ passes[1].loc = top.Name
         /\ passes[2] = k
    <3>1. /\ passes \in Seq(Entry)
          /\ Len(passes) = Len(added)
          /\ passes[1].ev = "LOOPSTART"
          /\ passes[1].loc = added[1].loc
          /\ \A j \in 1..Len(added) : j # 1 => passes[j] = added[j]
      BY <2>14, <2>15, RetypeFacts
    <3> HIDE DEF passes
    <3>2. passes[2] = added[2]
      BY <2>14, <2>15, <3>1
    <3> QED BY <1>2, <2>14, <2>15, <3>1, <3>2
  <2> HIDE DEF passes
  <2>17. done.Name = top.Name /\ done.Entries = passes
    BY <1>1, <2>3 DEF WithEntries, Element
  <2>18. Begins(passes[1], top.Name) /\ Ends(LastOf(passes), top.Name)
    BY <2>16 DEF Begins, Ends, LastOf, Loops
  <2>19. Whole(s2.stored)
    BY <2>5, <2>17, <2>18, WholeOne
  <2>20. Handled(s, t, c, l, Replaced(stack, y))
    BY <2>2, <2>5, <2>12, <2>13, <2>19 DEF Handled, Same
  <2> QED BY <2>10, <2>20
<1> QED BY <1>5, <1>6

\* LOOPSTOP: the loop is left, its last pass stored if there was one.
LEMMA StopFacts ==
  ASSUME NEW s, IsState(s), s.panic = "none", s.stored = <<>>, NEW e, Kept(e) \in Entry,
         NEW stack \in Seq(Element), stack = StackOf(s, e.CPU, Cur(s, e.CPU)), stack # <<>>,
         LastOf(stack).Name \in Loops, Cur(s, e.CPU) \in s.LEUs
  PROVE  Handled(s, handleLOOPSTOP(s, e), e.CPU, Cur(s, e.CPU), Pushed(DropLast(stack), Kept(e)))
<1> DEFINE c == e.CPU
           l == Cur(s, c)
           k == Kept(e)
           top == LastOf(stack)
           entries == top.Entries
           t == handleLOOPSTOP(s, e)
           s1 == Pop(s, e)
           again == [entries[1] EXCEPT !.ev = "LOOPRSTART"]
           added == Add(entries, again)
           passes == Retype(added, 1, "LOOPSTART")
           done == [top EXCEPT !.Entries =
                      Retype(Add(@, [@[1] EXCEPT !.ev = "LOOPRSTART"]), 1, "LOOPSTART")]
           s2 == IF entries[1].ev = "LOOPRSTART" THEN PushServiceToLEU(s1, e, done) ELSE s1
<1>1. top \in Element /\ top = stack[Len(stack)]
  BY DropLastFacts
<1>2. /\ entries \in Seq(Entry)
      /\ entries # <<>>
      /\ entries[1] \in Entry
      /\ entries[1].loc = top.Name
  BY <1>1, ElementFacts DEF Opens
<1>3. Stack(s, e) = stack
  BY DEF Stack, StackOf, Cur, GetCurrentLEU
<1>4. t = PushService(s2, e)
  BY <1>2, <1>3 DEF handleLOOPSTOP
<1>5. Only(s, s1, c, l, DropLast(stack)) /\ Same(s, s1)
  BY PopFacts
<1>6. done = WithEntries(top, passes)
  BY <1>1 DEF WithEntries, Element
<1> HIDE DEF s1, done
<1>7. Whole(s1.stored)
  BY <1>5, WholeNone DEF Same
<1>8. /\ Only(s, s2, c, l, DropLast(stack))
      /\ s2.LEUs = s.LEUs
      /\ s2.panic = "none"
      /\ Whole(s2.stored)
  <2>1. CASE entries[1].ev = "LOOPRSTART"
    <3>1. IsState(s1) /\ Cur(s1, c) = l /\ l \in s1.LEUs /\ s1.panic = "none"
      BY <1>5 DEF Only, Same, Cur
    <3> DEFINE p == PushServiceToLEU(s1, e, done)
    <3>2. /\ Quiet(s1, p)
          /\ p.LEUs = s1.LEUs
          /\ p.stored = <<[leu |-> l, service |-> done.Name, entries |-> done.Entries]>>
          /\ p.panic = "none"
      <4>1. Cur(s1, c) \in s1.LEUs
        BY <3>1
      <4>2. /\ Quiet(s1, p)
            /\ p.LEUs = s1.LEUs
            /\ p.stored =
                 <<[leu |-> Cur(s1, c), service |-> done.Name, entries |-> done.Entries]>>
            /\ p.panic = "none"
        BY <3>1, <4>1, PushServiceToLEUFacts, Zenon
      <4> HIDE DEF p
      <4> QED BY <3>1, <4>2
    <3>3. s2 = p
      BY <2>1
    <3> HIDE DEF p
    <3>4. Only(s, p, c, l, DropLast(stack))
      BY <1>5, <3>2, OnlyQuiet
    <3>5. again \in Entry /\ again.ev = "LOOPRSTART"
      BY <1>2 DEF Entry
    <3> HIDE DEF again
    <3>6. /\ added \in Seq(Entry) /\ Len(added) = 2
          /\ added[1] = entries[1] /\ added[2] = again
      BY <1>2, <3>5, AddFacts
    <3> HIDE DEF added
    <3>7. 1 \in 1..Len(added) /\ 2 \in 1..Len(added)
      BY <3>6
    <3>8. /\ passes \in Seq(Entry) /\ Len(passes) = 2
          /\ passes[1].ev = "LOOPSTART" /\ passes[1].loc = top.Name
          /\ passes[2] = again
      <4>1. /\ passes \in Seq(Entry)
            /\ Len(passes) = Len(added)
            /\ passes[1].ev = "LOOPSTART"
            /\ passes[1].loc = added[1].loc
            /\ \A j \in 1..Len(added) : j # 1 => passes[j] = added[j]
        BY <3>6, <3>7, RetypeFacts
      <4> HIDE DEF passes
      <4>2. passes[2] = added[2]
        BY <3>6, <3>7, <4>1
      <4> QED BY <1>2, <3>6, <3>7, <4>1, <4>2
    <3> HIDE DEF passes
    <3>9. done.Name = top.Name /\ done.Entries = passes
      BY <1>1, <1>6 DEF WithEntries, Element
    <3>10. Begins(passes[1], top.Name) /\ Ends(LastOf(passes), top.Name)
      BY <3>5, <3>8 DEF Begins, Ends, LastOf, Loops
    <3>11. Whole(p.stored)
      BY <3>2, <3>9, <3>10, WholeOne
    <3> QED BY <1>5, <3>2, <3>3, <3>4, <3>11 DEF Same
  <2>2. CASE entries[1].ev # "LOOPRSTART"
    BY <2>2, <1>5, <1>7 DEF Same
  <2> QED BY <2>1, <2>2
<1> HIDE DEF s2
<1>9. IsState(s2) /\ Cur(s2, c) = l /\ StackOf(s2, c, l) = DropLast(stack)
  BY <1>8 DEF Only, Cur
<1>10. Only(s2, t, c, l, Pushed(DropLast(stack), k)) /\ Same(s2, t)
  BY <1>4, <1>9, PushServiceFacts
<1> HIDE DEF t
<1>11. Only(s, t, c, l, Pushed(DropLast(stack), k))
  BY <1>8, <1>10, OnlyTransitive
<1>12. Handled(s, t, c, l, Pushed(DropLast(stack), k))
  BY <1>8, <1>10, <1>11 DEF Handled, Same
<1> QED BY <1>12 DEF t
-----------------------------------------------------------------------------
(* The machine keeps its invariant                                         *)

LEMMA LEUFacts ==
  /\ \A t \in Threads : Thread(t) \in LEU
  /\ \A i \in IRQs : HIRQ(i) \in LEU
  /\ \A l \in LEU : (\E t \in Threads : l = Thread(t)) \/ (\E i \in IRQs : l = HIRQ(i))
  /\ \A t, i : Thread(t) # HIRQ(i)
  /\ \A t, u : Thread(t) = Thread(u) => t = u
  /\ \A i, j : HIRQ(i) = HIRQ(j) => i = j
  /\ NoIRQ \notin IRQs
<1>1. (\A t \in Threads : Thread(t) \in LEU) /\ (\A i \in IRQs : HIRQ(i) \in LEU)
  BY DEF LEU, Thread, HIRQ
<1>2. ASSUME NEW l \in LEU
      PROVE  (\E t \in Threads : l = Thread(t)) \/ (\E i \in IRQs : l = HIRQ(i))
  BY DEF LEU, Thread, HIRQ
<1>3. \A t, i : Thread(t).Name = "Thread" /\ HIRQ(i).Name = "HIRQ"
  BY DEF Thread, HIRQ
<1>4. \A t, i : Thread(t).Pid = t /\ HIRQ(i).Pid = i
  BY DEF Thread, HIRQ
<1>5. \A t, i : Thread(t) # HIRQ(i)
  BY <1>3
<1>6. NoIRQ \notin IRQs
  BY IrqAssumption DEF NoIRQ
<1> QED BY <1>1, <1>2, <1>4, <1>5, <1>6

LEMMA CurrentFacts ==
  ASSUME MachineType, NEW c \in CPUs
  PROVE  /\ Current(c) \in LEU
         /\ running[c] \in Threads
         /\ hirq[c] = NoIRQ => Current(c) = Thread(running[c])
         /\ hirq[c] # NoIRQ => hirq[c] \in IRQs /\ Current(c) = HIRQ(hirq[c])
         /\ Inside(c) = frames[Current(c)]
         /\ Inside(c) \in Seq(Activation)
         /\ Inside(c) = <<>> => Top(c) = "none"
         /\ Inside(c) # <<>> => /\ Top(c) = Inside(c)[Len(Inside(c))].kind
                                /\ Top(c) = LastOf(Inside(c)).kind
                                /\ LastOf(Inside(c)) \in Activation
<1>1. running[c] \in Threads /\ hirq[c] \in IRQs \cup {NoIRQ}
  BY DEF MachineType
<1>2. Current(c) \in LEU
  BY <1>1, LEUFacts DEF Current
<1>3. Inside(c) = frames[Current(c)] /\ Inside(c) \in Seq(Activation)
  BY <1>2 DEF MachineType, Inside
<1>4. Inside(c) # <<>> => LastOf(Inside(c)) \in Activation
  BY <1>3, DropLastFacts
<1> QED BY <1>1, <1>2, <1>3, <1>4 DEF Current, Top, LastOf

\* The kinds of activations, and their names.
LEMMA ActivationFacts ==
  /\ \A n \in Services : Frame("srv", n) \in Activation
  /\ \A n \in Loops : Frame("loop", n) \in Activation
  /\ Frame("irq", "irq_enter") \in Activation
  /\ Frame("handler", "handler") \in Activation
  /\ Frame("handled", "handler") \in Activation
  /\ Frame("hirq", "HIRQ") \in Activation
  /\ \A k, n : Frame(k, n).kind = k /\ Frame(k, n).name = n
  /\ \A a \in Activation :
       /\ a.kind \in {"srv", "loop", "irq", "handler", "handled", "hirq"}
       /\ a.kind = "srv" => a.name \in Services
       /\ a.kind = "loop" => a.name \in Loops
       /\ a.kind = "irq" => a.name = "irq_enter"
       /\ a.kind \in {"handler", "handled"} => a.name = "handler"
       /\ a.kind = "hirq" => a.name = "HIRQ"
<1>1. \A k, n : Frame(k, n).kind = k /\ Frame(k, n).name = n
  BY DEF Frame
<1>2. ASSUME NEW a \in Activation
      PROVE  /\ a.kind \in {"srv", "loop", "irq", "handler", "handled", "hirq"}
             /\ a.kind = "srv" => a.name \in Services
             /\ a.kind = "loop" => a.name \in Loops
             /\ a.kind = "irq" => a.name = "irq_enter"
             /\ a.kind \in {"handler", "handled"} => a.name = "handler"
             /\ a.kind = "hirq" => a.name = "HIRQ"
  BY <1>1 DEF Activation
<1>3. (\A n \in Services : Frame("srv", n) \in Activation)
        /\ (\A n \in Loops : Frame("loop", n) \in Activation)
  BY DEF Activation
<1>4. /\ Frame("irq", "irq_enter") \in Activation
      /\ Frame("handler", "handler") \in Activation
      /\ Frame("handled", "handler") \in Activation
      /\ Frame("hirq", "HIRQ") \in Activation
  BY DEF Activation
<1> QED BY <1>1, <1>2, <1>3, <1>4

LEMMA TopFacts ==
  ASSUME MachineType, NEW c \in CPUs, Top(c) # "none"
  PROVE  /\ Inside(c) # <<>>
         /\ LastOf(Inside(c)) \in Activation
         /\ LastOf(Inside(c)).kind = Top(c)
         /\ Inside(c)[Len(Inside(c))].kind = Top(c)
         /\ Len(Inside(c)) \in Nat \ {0}
         /\ Len(Inside(c)) \in DOMAIN Inside(c)
<1>1. /\ Inside(c) # <<>>
      /\ LastOf(Inside(c)) \in Activation
      /\ LastOf(Inside(c)).kind = Top(c)
      /\ Inside(c)[Len(Inside(c))].kind = Top(c)
      /\ Inside(c) \in Seq(Activation)
  BY CurrentFacts
<1>2. Len(Inside(c)) \in Nat \ {0}
  BY <1>1, EmptySeq
<1>3. DOMAIN Inside(c) = 1..Len(Inside(c))
  BY <1>1, LenProperties
<1>4. Len(Inside(c)) \in 1..Len(Inside(c))
  BY <1>2
<1> QED BY <1>1, <1>2, <1>3, <1>4

\* One LEU's activations change to f, which is how most steps go.
Instead(c, f) ==
  frames' = [frames EXCEPT ![Current(c)] = f] /\ UNCHANGED <<running, hirq, home>>

\* What f must be: the activations inside of it stay valid.
LEMMA InsteadMachine ==
  ASSUME MachineInv, NEW c \in CPUs, NEW f \in Seq(Activation), Instead(c, f),
         hirq[c] # NoIRQ =>
           /\ f # <<>>
           /\ f[1].kind = "hirq"
           /\ \A k \in DOMAIN f : f[k].kind \notin InIrq /\ (f[k].kind = "hirq" => k = 1),
         hirq[c] = NoIRQ =>
           \A k \in DOMAIN f :
             /\ f[k].kind # "hirq"
             /\ f[k].kind \in {"handler", "handled"} =>
                  c \in IrqCPUs /\ \E j \in DOMAIN f : j < k /\ f[j].kind = "irq"
  PROVE  MachineInv'
<1> DEFINE l == Current(c)
<1>1. /\ l \in LEU
      /\ running[c] \in Threads
      /\ hirq[c] = NoIRQ => l = Thread(running[c])
      /\ hirq[c] # NoIRQ => hirq[c] \in IRQs /\ l = HIRQ(hirq[c])
  BY CurrentFacts DEF MachineInv
<1> HIDE DEF l
<1>2. frames' = [frames EXCEPT ![l] = f] /\ running' = running /\ hirq' = hirq /\ home' = home
  BY DEF Instead, l
<1>3. frames \in [LEU -> Seq(Activation)]
  BY DEF MachineInv, MachineType
<1>4. frames'[l] = f /\ \A m \in LEU : m # l => frames'[m] = frames[m]
  BY <1>1, <1>2, <1>3
<1>5. MachineType'
  BY <1>1, <1>2, <1>3 DEF MachineInv, MachineType
<1>6. Homes'
  BY <1>2 DEF MachineInv, Homes
<1>7. Served'
  <2>1. ASSUME NEW d \in CPUs, hirq[d] # NoIRQ
        PROVE  /\ d \in IrqCPUs
               /\ frames'[HIRQ(hirq[d])] # <<>>
               /\ frames'[HIRQ(hirq[d])][1].kind = "hirq"
    <3>1. /\ d \in IrqCPUs
          /\ frames[HIRQ(hirq[d])] # <<>>
          /\ frames[HIRQ(hirq[d])][1].kind = "hirq"
      BY <2>1 DEF MachineInv, Served
    <3>2. HIRQ(hirq[d]) \in LEU
      BY <2>1, LEUFacts DEF MachineInv, MachineType
    <3>3. CASE HIRQ(hirq[d]) = l
      <4>1. hirq[c] # NoIRQ
        BY <1>1, <3>3, LEUFacts
      <4> QED BY <3>1, <3>3, <4>1, <1>4
    <3>4. CASE HIRQ(hirq[d]) # l
      BY <3>1, <3>2, <3>4, <1>4
    <3> QED BY <3>3, <3>4
  <2>2. ASSUME NEW i \in IRQs, \A d \in CPUs : hirq[d] # i
        PROVE  frames'[HIRQ(i)] = <<>>
    <3>1. frames[HIRQ(i)] = <<>>
      BY <2>2 DEF MachineInv, Served
    <3>2. HIRQ(i) \in LEU /\ HIRQ(i) # l
      BY <1>1, <2>2, LEUFacts
    <3> QED BY <3>1, <3>2, <1>4
  <2> QED BY <2>1, <2>2, <1>2 DEF Served
<1>8. InHandler'
  <2> SUFFICES ASSUME NEW i \in IRQs, NEW k \in DOMAIN frames'[HIRQ(i)]
               PROVE  /\ frames'[HIRQ(i)][k].kind \notin InIrq
                      /\ frames'[HIRQ(i)][k].kind = "hirq" => k = 1
    BY DEF InHandler
  <2>1. CASE HIRQ(i) = l
    <3>1. hirq[c] # NoIRQ
      BY <1>1, <2>1, LEUFacts
    <3> QED BY <2>1, <3>1, <1>4
  <2>2. CASE HIRQ(i) # l
    <3>1. frames'[HIRQ(i)] = frames[HIRQ(i)]
      BY <2>2, <1>4, LEUFacts
    <3> QED BY <3>1 DEF MachineInv, InHandler
  <2> QED BY <2>1, <2>2
<1>9. InThread'
  <2> SUFFICES ASSUME NEW t \in Threads, NEW k \in DOMAIN frames'[Thread(t)]
               PROVE  LET g == frames'[Thread(t)] IN
                      /\ g[k].kind # "hirq"
                      /\ g[k].kind = "irq" => running[home[t]] = t
                      /\ g[k].kind \in {"handler", "handled"} =>
                           home[t] \in IrqCPUs /\ \E j \in DOMAIN g : j < k /\ g[j].kind = "irq"
    BY <1>2 DEF InThread
  <2>1. CASE Thread(t) = l
    <3>1. hirq[c] = NoIRQ /\ t = running[c]
      BY <1>1, <2>1, LEUFacts
    <3>2. home[t] = c /\ running[home[t]] = t
      BY <3>1 DEF MachineInv, Homes
    <3> QED BY <2>1, <3>1, <3>2, <1>4
  <2>2. CASE Thread(t) # l
    <3>1. frames'[Thread(t)] = frames[Thread(t)]
      BY <2>2, <1>4, LEUFacts
    <3> QED BY <3>1 DEF MachineInv, InThread
  <2> QED BY <2>1, <2>2
<1> QED BY <1>5, <1>6, <1>7, <1>8, <1>9 DEF MachineInv

LEMMA MachineSame ==
  ASSUME MachineInv, UNCHANGED machine
  PROVE  MachineInv'
<1>1. running' = running /\ hirq' = hirq /\ home' = home /\ frames' = frames
  BY DEF machine
<1>2. MachineType'
  BY <1>1 DEF MachineInv, MachineType
<1>3. Homes'
  BY <1>1 DEF MachineInv, Homes
<1>4. Served'
  BY <1>1 DEF MachineInv, Served
<1>5. InHandler'
  BY <1>1 DEF MachineInv, InHandler
<1>6. InThread'
  BY <1>1 DEF MachineInv, InThread
<1> QED BY <1>2, <1>3, <1>4, <1>5, <1>6 DEF MachineInv

\* Valid activations of the LEU on c, as InsteadMachine asks for them.
Valid(c, f) ==
  /\ hirq[c] # NoIRQ =>
       /\ f # <<>>
       /\ f[1].kind = "hirq"
       /\ \A k \in DOMAIN f : f[k].kind \notin InIrq /\ (f[k].kind = "hirq" => k = 1)
  /\ hirq[c] = NoIRQ =>
       \A k \in DOMAIN f :
         /\ f[k].kind # "hirq"
         /\ f[k].kind \in {"handler", "handled"} =>
              c \in IrqCPUs /\ \E j \in DOMAIN f : j < k /\ f[j].kind = "irq"

LEMMA InsideValid ==
  ASSUME MachineInv, NEW c \in CPUs
  PROVE  Valid(c, Inside(c))
<1>1. /\ running[c] \in Threads
      /\ hirq[c] = NoIRQ => Inside(c) = frames[Thread(running[c])]
      /\ hirq[c] # NoIRQ => hirq[c] \in IRQs /\ Inside(c) = frames[HIRQ(hirq[c])]
  BY CurrentFacts DEF MachineInv
<1>2. CASE hirq[c] # NoIRQ
  BY <1>1, <1>2 DEF MachineInv, Served, InHandler, Valid
<1>3. CASE hirq[c] = NoIRQ
  <2>1. home[running[c]] = c
    BY DEF MachineInv, Homes
  <2> QED BY <1>1, <1>3, <2>1 DEF MachineInv, InThread, Valid
<1> QED BY <1>2, <1>3

LEMMA EnterMachine ==
  ASSUME MachineInv, NEW c \in CPUs, NEW a \in Activation, Instead(c, Append(Inside(c), a)),
         a.kind # "hirq", hirq[c] # NoIRQ => a.kind \notin InIrq,
         a.kind \in {"handler", "handled"} => c \in IrqCPUs /\ Top(c) = "irq"
  PROVE  MachineInv' /\ Append(Inside(c), a) \in Seq(Activation)
<1> DEFINE g == Inside(c)
           f == Append(g, a)
           n == Len(g)
<1>1. g \in Seq(Activation) /\ Valid(c, g)
  BY CurrentFacts, InsideValid DEF MachineInv
<1>2. Top(c) = "irq" => n \in 1..n /\ g[n].kind = "irq"
  <2>1. CASE Top(c) = "irq"
    <3>1. n \in Nat \ {0} /\ g[n].kind = "irq"
      BY <2>1, TopFacts DEF MachineInv
    <3> HIDE DEF g, n
    <3> QED BY <3>1
  <2> QED BY <2>1
<1> HIDE DEF g
<1>3. n \in Nat /\ DOMAIN g = 1..n
  BY <1>1, LenProperties
<1>4. /\ f \in Seq(Activation)
      /\ f # <<>>
      /\ Len(f) = n + 1
      /\ f[n + 1] = a
      /\ \A k \in 1..n : f[k] = g[k]
  BY <1>1, AppendFacts
<1>5. DOMAIN f = 1..(n + 1)
  BY <1>4, LenProperties
<1> HIDE DEF f, n
<1>6. CASE hirq[c] # NoIRQ
  <2>1. /\ g # <<>>
        /\ g[1].kind = "hirq"
        /\ \A k \in 1..n : g[k].kind \notin InIrq /\ (g[k].kind = "hirq" => k = 1)
    BY <1>1, <1>3, <1>6 DEF Valid
  <2>2. n # 0
    BY <1>1, <2>1, EmptySeq DEF n
  <2>3. 1 \in 1..n
    BY <1>3, <2>2
  <2>4. ASSUME NEW k \in 1..(n + 1)
        PROVE  f[k].kind \notin InIrq /\ (f[k].kind = "hirq" => k = 1)
    <3>1. CASE k = n + 1
      BY <3>1, <1>4, <1>6
    <3>2. CASE k # n + 1
      <4>1. k \in 1..n
        BY <3>2, <1>3
      <4> QED BY <4>1, <2>1, <1>4
    <3> QED BY <3>1, <3>2
  <2> QED BY <1>4, <1>5, <1>6, <2>1, <2>3, <2>4, InsteadMachine DEF f, g
<1>7. CASE hirq[c] = NoIRQ
  <2>1. ASSUME NEW k \in 1..(n + 1)
        PROVE  /\ f[k].kind # "hirq"
               /\ f[k].kind \in {"handler", "handled"} =>
                    c \in IrqCPUs /\ \E j \in 1..(n + 1) : j < k /\ f[j].kind = "irq"
    <3>1. CASE k = n + 1
      <4>1. f[k] = a
        BY <3>1, <1>4
      <4>2. CASE a.kind \in {"handler", "handled"}
        <5>1. n \in 1..n /\ g[n].kind = "irq" /\ c \in IrqCPUs
          BY <4>2, <1>2 DEF n, g
        <5>2. f[n].kind = "irq"
          BY <5>1, <1>4
        <5>3. n \in 1..(n + 1) /\ n < k
          BY <3>1, <5>1, <1>3
        <5> QED BY <4>1, <5>1, <5>2, <5>3
      <4> QED BY <4>1, <4>2
    <3>2. CASE k # n + 1
      <4>1. k \in 1..n
        BY <3>2, <1>3
      <4>2. /\ g[k].kind # "hirq"
            /\ g[k].kind \in {"handler", "handled"} =>
                 c \in IrqCPUs /\ \E j \in 1..n : j < k /\ g[j].kind = "irq"
        BY <4>1, <1>1, <1>3, <1>7 DEF Valid
      <4>3. ASSUME NEW j \in 1..n
            PROVE  j \in 1..(n + 1) /\ f[j] = g[j]
        BY <1>3, <1>4
      <4> QED BY <4>1, <4>2, <4>3
    <3> QED BY <3>1, <3>2
  <2> QED BY <1>4, <1>5, <1>7, <2>1, InsteadMachine DEF f, g
<1> QED BY <1>6, <1>7

LEMMA LeaveMachine ==
  ASSUME MachineInv, NEW c \in CPUs, Instead(c, DropLast(Inside(c))),
         Top(c) # "none", Top(c) # "hirq"
  PROVE  MachineInv' /\ DropLast(Inside(c)) \in Seq(Activation)
<1> DEFINE g == Inside(c)
           f == DropLast(g)
           n == Len(g)
<1>1. g \in Seq(Activation) /\ Valid(c, g)
  BY CurrentFacts, InsideValid DEF MachineInv
<1>2. g # <<>> /\ n \in Nat /\ n # 0 /\ g[n].kind # "hirq"
  BY TopFacts DEF MachineInv
<1> HIDE DEF g
<1>3. DOMAIN g = 1..n
  BY <1>1, LenProperties
<1>4. /\ f \in Seq(Activation)
      /\ Len(f) = n - 1
      /\ \A k \in 1..(n - 1) : f[k] = g[k]
  BY <1>1, <1>2, DropLastFacts
<1>5. DOMAIN f = 1..(n - 1)
  BY <1>4, LenProperties
<1> HIDE DEF f, n
<1>6. CASE hirq[c] # NoIRQ
  <2>1. /\ g[1].kind = "hirq"
        /\ \A k \in 1..n : g[k].kind \notin InIrq /\ (g[k].kind = "hirq" => k = 1)
    BY <1>1, <1>3, <1>6 DEF Valid
  <2>2. n # 1
    BY <1>2, <2>1
  <2>3. 1 \in 1..(n - 1) /\ n - 1 # 0
    BY <1>2, <2>2
  <2>4. f[1].kind = "hirq"
    BY <2>1, <2>3, <1>4
  <2>5. f # <<>>
    BY <2>3, <1>4, EmptySeq
  <2>6. ASSUME NEW k \in 1..(n - 1)
        PROVE  f[k].kind \notin InIrq /\ (f[k].kind = "hirq" => k = 1)
    <3>1. k \in 1..n
      BY <1>2
    <3> QED BY <3>1, <2>1, <1>4
  <2> QED BY <1>4, <1>5, <1>6, <2>4, <2>5, <2>6, InsteadMachine DEF f, g
<1>7. CASE hirq[c] = NoIRQ
  <2>1. ASSUME NEW k \in 1..(n - 1)
        PROVE  /\ f[k].kind # "hirq"
               /\ f[k].kind \in {"handler", "handled"} =>
                    c \in IrqCPUs /\ \E j \in 1..(n - 1) : j < k /\ f[j].kind = "irq"
    <3>1. k \in 1..n
      BY <1>2
    <3>2. /\ g[k].kind # "hirq"
          /\ g[k].kind \in {"handler", "handled"} =>
               c \in IrqCPUs /\ \E j \in 1..n : j < k /\ g[j].kind = "irq"
      BY <3>1, <1>1, <1>3, <1>7 DEF Valid
    <3>3. ASSUME NEW j \in 1..n, j < k
          PROVE  j \in 1..(n - 1) /\ f[j] = g[j]
      <4>1. j \in 1..(n - 1)
        BY <3>3, <1>2
      <4> QED BY <4>1, <1>4
    <3>4. f[k] = g[k]
      BY <1>4
    <3> QED BY <3>2, <3>3, <3>4
  <2> QED BY <1>4, <1>5, <1>7, <2>1, InsteadMachine DEF f, g
<1> QED BY <1>6, <1>7

LEMMA SwitchMachine ==
  ASSUME MachineInv, NEW c \in CPUs, hirq[c] = NoIRQ,
         \A i \in DOMAIN Inside(c) : Inside(c)[i].kind # "irq",
         NEW t \in Threads, home[t] = c, running' = [running EXCEPT ![c] = t],
         UNCHANGED <<hirq, home, frames>>
  PROVE  MachineInv'
<1>1. running \in [CPUs -> Threads] /\ home \in [Threads -> CPUs]
  BY DEF MachineInv, MachineType
<1>2. running'[c] = t /\ \A d \in CPUs : d # c => running'[d] = running[d]
  BY <1>1
<1>3. MachineType'
  BY <1>1 DEF MachineInv, MachineType
<1>4. Homes'
  BY <1>2 DEF MachineInv, Homes
<1>5. Served' /\ InHandler'
  BY DEF MachineInv, Served, InHandler
<1>6. InThread'
  <2>1. Inside(c) = frames[Thread(running[c])]
    BY CurrentFacts DEF MachineInv
  <2>2. ASSUME NEW u \in Threads, NEW k \in DOMAIN frames[Thread(u)],
               frames[Thread(u)][k].kind = "irq"
        PROVE  running'[home[u]] = u
    <3>1. running[home[u]] = u
      BY <2>2 DEF MachineInv, InThread
    <3>2. home[u] # c
      BY <2>1, <2>2, <3>1
    <3> QED BY <1>1, <1>2, <3>1, <3>2
  <2> QED BY <2>2 DEF MachineInv, InThread
<1> QED BY <1>3, <1>4, <1>5, <1>6 DEF MachineInv

LEMMA MigrateMachine ==
  ASSUME MachineInv, NEW t \in Threads, NEW new \in CPUs, \A d \in CPUs : running[d] # t,
         home' = [home EXCEPT ![t] = new], UNCHANGED <<running, hirq, frames>>
  PROVE  MachineInv'
<1>1. running \in [CPUs -> Threads] /\ home \in [Threads -> CPUs]
  BY DEF MachineInv, MachineType
<1>2. home'[t] = new /\ \A u \in Threads : u # t => home'[u] = home[u]
  BY <1>1
<1>3. MachineType'
  BY <1>1 DEF MachineInv, MachineType
<1>4. Homes'
  BY <1>1, <1>2 DEF MachineInv, Homes
<1>5. Served' /\ InHandler'
  BY DEF MachineInv, Served, InHandler
<1>6. InThread'
  <2>1. ASSUME NEW k \in DOMAIN frames[Thread(t)]
        PROVE  frames[Thread(t)][k].kind \notin {"irq", "handler", "handled"}
    BY <1>1 DEF MachineInv, InThread
  <2> SUFFICES ASSUME NEW u \in Threads, NEW k \in DOMAIN frames[Thread(u)]
               PROVE  LET g == frames[Thread(u)] IN
                      /\ g[k].kind # "hirq"
                      /\ g[k].kind = "irq" => running[home'[u]] = u
                      /\ g[k].kind \in {"handler", "handled"} =>
                           home'[u] \in IrqCPUs /\ \E j \in DOMAIN g : j < k /\ g[j].kind = "irq"
    BY DEF InThread
  <2>2. CASE u = t
    BY <2>1, <2>2 DEF MachineInv, InThread
  <2>3. CASE u # t
    BY <2>3, <1>2 DEF MachineInv, InThread
  <2> QED BY <2>2, <2>3
<1> QED BY <1>3, <1>4, <1>5, <1>6 DEF MachineInv

\* A handler starts in an interrupted thread, on the CPU that runs handlers.
LEMMA HandlerTop ==
  ASSUME MachineInv, NEW c \in CPUs, Top(c) \in {"handler", "handled"}
  PROVE  hirq[c] = NoIRQ /\ c \in IrqCPUs /\ Current(c) = Thread(running[c])
<1>1. Valid(c, Inside(c)) /\ Inside(c)[Len(Inside(c))].kind = Top(c)
        /\ Len(Inside(c)) \in DOMAIN Inside(c)
  BY InsideValid, TopFacts DEF MachineInv
<1>2. hirq[c] = NoIRQ
  BY <1>1 DEF Valid, InIrq
<1> QED BY <1>1, <1>2, CurrentFacts DEF Valid, MachineInv

\* The machine's part of HandlerStart().
Start(c, i) ==
  /\ hirq' = [hirq EXCEPT ![c] = i]
  /\ frames' = [frames EXCEPT ![Current(c)] = Append(DropLast(@), Frame("handled", "handler")),
                              ![HIRQ(i)] = <<Frame("hirq", "HIRQ")>>]
  /\ UNCHANGED <<running, home>>

LEMMA StartFrames ==
  ASSUME MachineInv, NEW c \in CPUs, Top(c) = "handler", NEW i \in IRQs,
         \A d \in CPUs : hirq[d] # i, Start(c, i)
  PROVE  /\ hirq'[c] = i /\ \A d \in CPUs : d # c => hirq'[d] = hirq[d]
         /\ hirq' \in [CPUs -> IRQs \cup {NoIRQ}]
         /\ frames' \in [LEU -> Seq(Activation)]
         /\ Inside(c) # <<>>
         /\ frames'[Thread(running[c])] = Replaced(Inside(c), Frame("handled", "handler"))
         /\ frames'[HIRQ(i)] = <<Frame("hirq", "HIRQ")>>
         /\ \A l \in LEU : l # Thread(running[c]) /\ l # HIRQ(i) => frames'[l] = frames[l]
<1> DEFINE l0 == Current(c)
           g == Inside(c)
           r == Replaced(g, Frame("handled", "handler"))
           h == <<Frame("hirq", "HIRQ")>>
<1>1. l0 = Thread(running[c]) /\ l0 \in LEU /\ g = frames[l0] /\ g \in Seq(Activation) /\ g # <<>>
  BY HandlerTop, CurrentFacts, TopFacts DEF MachineInv
<1>2. Append(DropLast(g), Frame("handled", "handler")) = r /\ r \in Seq(Activation)
  <2>1. Frame("handled", "handler") \in Activation
    BY ActivationFacts
  <2> HIDE DEF g
  <2> QED BY <1>1, <2>1, ReplacedFacts, Zenon
<1>3. h \in Seq(Activation)
  BY ActivationFacts
<1>4. frames \in [LEU -> Seq(Activation)] /\ hirq \in [CPUs -> IRQs \cup {NoIRQ}]
  BY DEF MachineInv, MachineType
<1>5. HIRQ(i) \in LEU /\ HIRQ(i) # l0
  BY <1>1, LEUFacts
<1>6. frames' = [frames EXCEPT ![l0] = Append(DropLast(g), Frame("handled", "handler")), ![HIRQ(i)] = h]
  BY <1>1 DEF Start
<1> HIDE DEF l0, r, h, g
<1>7. frames' = [frames EXCEPT ![l0] = r, ![HIRQ(i)] = h]
  BY <1>2, <1>6
<1>8. /\ frames' \in [LEU -> Seq(Activation)]
      /\ frames'[l0] = r
      /\ frames'[HIRQ(i)] = h
      /\ \A l \in LEU : l # l0 /\ l # HIRQ(i) => frames'[l] = frames[l]
  BY <1>1, <1>2, <1>3, <1>4, <1>5, <1>7
<1>9. /\ hirq'[c] = i /\ \A d \in CPUs : d # c => hirq'[d] = hirq[d]
      /\ hirq' \in [CPUs -> IRQs \cup {NoIRQ}]
  BY <1>4 DEF Start
<1> QED BY <1>1, <1>8, <1>9 DEF h, r, g

LEMMA StartMachine ==
  ASSUME MachineInv, NEW c \in CPUs, Top(c) = "handler", NEW i \in IRQs,
         \A d \in CPUs : hirq[d] # i, Start(c, i)
  PROVE  MachineInv'
<1> DEFINE g == Inside(c)
           n == Len(g)
           f == Replaced(g, Frame("handled", "handler"))
           t0 == running[c]
<1>1. /\ hirq'[c] = i /\ \A d \in CPUs : d # c => hirq'[d] = hirq[d]
      /\ hirq' \in [CPUs -> IRQs \cup {NoIRQ}]
      /\ frames' \in [LEU -> Seq(Activation)]
      /\ g # <<>>
      /\ frames'[Thread(t0)] = f
      /\ frames'[HIRQ(i)] = <<Frame("hirq", "HIRQ")>>
      /\ \A l \in LEU : l # Thread(t0) /\ l # HIRQ(i) => frames'[l] = frames[l]
  BY StartFrames
<1>2. running' = running /\ home' = home
  BY DEF Start
<1>3. hirq[c] = NoIRQ /\ c \in IrqCPUs
  BY HandlerTop
<1>4. t0 \in Threads /\ home[t0] = c /\ g = frames[Thread(t0)] /\ g \in Seq(Activation)
  BY <1>3, CurrentFacts DEF MachineInv, Homes
<1>5. MachineType'
  BY <1>1, <1>2 DEF MachineInv, MachineType
<1>6. Homes'
  BY <1>2 DEF MachineInv, Homes
<1>7. Served'
  <2>1. ASSUME NEW d \in CPUs, hirq'[d] # NoIRQ
        PROVE  /\ d \in IrqCPUs
               /\ frames'[HIRQ(hirq'[d])] # <<>>
               /\ frames'[HIRQ(hirq'[d])][1].kind = "hirq"
    <3>1. CASE d = c
      BY <3>1, <1>1, <1>3, ActivationFacts
    <3>2. CASE d # c
      <4>1. hirq'[d] = hirq[d] /\ hirq[d] \in IRQs /\ hirq[d] # i
        BY <2>1, <3>2, <1>1 DEF MachineInv, MachineType
      <4>2. HIRQ(hirq[d]) \in LEU /\ HIRQ(hirq[d]) # HIRQ(i) /\ HIRQ(hirq[d]) # Thread(t0)
        BY <4>1, LEUFacts
      <4>3. frames'[HIRQ(hirq[d])] = frames[HIRQ(hirq[d])]
        BY <4>2, <1>1
      <4> QED BY <2>1, <4>1, <4>3 DEF MachineInv, Served
    <3> QED BY <3>1, <3>2
  <2>2. ASSUME NEW j \in IRQs, \A d \in CPUs : hirq'[d] # j
        PROVE  frames'[HIRQ(j)] = <<>>
    <3>1. j # i /\ j # NoIRQ
      BY <2>2, <1>1, LEUFacts
    <3>2. \A d \in CPUs : hirq[d] # j
      BY <2>2, <3>1, <1>1, <1>3
    <3>3. frames[HIRQ(j)] = <<>>
      BY <3>2 DEF MachineInv, Served
    <3>4. HIRQ(j) \in LEU /\ HIRQ(j) # HIRQ(i) /\ HIRQ(j) # Thread(t0)
      BY <3>1, LEUFacts
    <3> QED BY <3>3, <3>4, <1>1
  <2> QED BY <2>1, <2>2 DEF Served
<1>8. InHandler'
  <2> SUFFICES ASSUME NEW j \in IRQs, NEW k \in DOMAIN frames'[HIRQ(j)]
               PROVE  /\ frames'[HIRQ(j)][k].kind \notin InIrq
                      /\ frames'[HIRQ(j)][k].kind = "hirq" => k = 1
    BY DEF InHandler
  <2>1. CASE j = i
    <3>1. k = 1 /\ frames'[HIRQ(j)][k].kind = "hirq"
      BY <2>1, <1>1, ActivationFacts
    <3> QED BY <3>1 DEF InIrq
  <2>2. CASE j # i
    <3>1. frames'[HIRQ(j)] = frames[HIRQ(j)]
      BY <2>2, <1>1, LEUFacts
    <3> QED BY <3>1 DEF MachineInv, InHandler
  <2> QED BY <2>1, <2>2
<1>9. InThread'
  <2> SUFFICES ASSUME NEW t \in Threads, NEW k \in DOMAIN frames'[Thread(t)]
               PROVE  LET h == frames'[Thread(t)] IN
                      /\ h[k].kind # "hirq"
                      /\ h[k].kind = "irq" => running[home[t]] = t
                      /\ h[k].kind \in {"handler", "handled"} =>
                           home[t] \in IrqCPUs /\ \E j \in DOMAIN h : j < k /\ h[j].kind = "irq"
    BY <1>2 DEF InThread
  <2>1. CASE t = t0
    <3>1. /\ f \in Seq(Activation)
          /\ Len(f) = n
          /\ LastOf(f) = Frame("handled", "handler")
          /\ \A j \in 1..n : j # n => f[j] = g[j]
      <4>1. Frame("handled", "handler") \in Activation
        BY ActivationFacts
      <4>2. g # <<>> /\ g \in Seq(Activation)
        BY <1>1, <1>4
      <4> HIDE DEF g
      <4> QED BY <4>1, <4>2, ReplacedFacts
    <3>2. n \in DOMAIN g /\ g[n].kind = "handler"
      BY TopFacts DEF MachineInv
    <3> HIDE DEF g, f
    <3>3. DOMAIN g = 1..n /\ DOMAIN f = 1..n /\ n \in Nat
      BY <3>1, <1>4, LenProperties
    <3>4. f[n].kind = "handled"
      BY <3>1, ActivationFacts DEF LastOf
    <3>5. \A j \in DOMAIN g :
            /\ g[j].kind # "hirq"
            /\ g[j].kind \in {"handler", "handled"} =>
                 c \in IrqCPUs /\ \E m \in DOMAIN g : m < j /\ g[m].kind = "irq"
      BY <1>4 DEF MachineInv, InThread
    <3>6. ASSUME NEW m \in DOMAIN g, g[m].kind = "irq"
          PROVE  m \in DOMAIN f /\ f[m].kind = "irq"
      BY <3>1, <3>2, <3>3, <3>6
    <3>7. running[home[t]] = t
      BY <2>1, <1>4
    <3>8. k \in DOMAIN f
      BY <2>1, <1>1
    <3>9. CASE k = n
      BY <3>9, <3>2, <3>4, <3>5, <3>6, <3>7, <2>1, <1>1, <1>4
    <3>10. CASE k # n
      <4>1. f[k] = g[k] /\ k \in DOMAIN g
        BY <3>1, <3>3, <3>8, <3>10
      <4> QED BY <4>1, <3>5, <3>6, <3>7, <2>1, <1>1, <1>4
    <3> QED BY <3>9, <3>10
  <2>2. CASE t # t0
    <3>1. frames'[Thread(t)] = frames[Thread(t)]
      BY <2>2, <1>1, LEUFacts
    <3> QED BY <3>1 DEF MachineInv, InThread
  <2> QED BY <2>1, <2>2
<1> QED BY <1>5, <1>6, <1>7, <1>8, <1>9 DEF MachineInv

\* The machine's part of HandlerStop().
Stop(c) ==
  /\ hirq' = [hirq EXCEPT ![c] = NoIRQ]
  /\ frames' = [frames EXCEPT ![Current(c)] = <<>>]
  /\ UNCHANGED <<running, home>>

LEMMA HirqTop ==
  ASSUME MachineInv, NEW c \in CPUs, Top(c) = "hirq"
  PROVE  /\ hirq[c] \in IRQs
         /\ hirq[c] # NoIRQ
         /\ c \in IrqCPUs
         /\ Current(c) = HIRQ(hirq[c])
         /\ Len(Inside(c)) = 1
<1>1. /\ Valid(c, Inside(c))
      /\ Inside(c)[Len(Inside(c))].kind = "hirq"
      /\ Len(Inside(c)) \in DOMAIN Inside(c)
  BY InsideValid, TopFacts DEF MachineInv
<1>2. hirq[c] # NoIRQ /\ Len(Inside(c)) = 1
  BY <1>1 DEF Valid
<1> QED BY <1>2, CurrentFacts DEF MachineInv, Served

LEMMA StopMachine ==
  ASSUME Followed, MachineInv, NEW c \in CPUs, Top(c) = "hirq", Stop(c)
  PROVE  /\ MachineInv'
         /\ hirq'[c] = NoIRQ /\ \A d \in CPUs : d # c => hirq'[d] = hirq[d]
         /\ frames'[HIRQ(hirq[c])] = <<>>
         /\ \A l \in LEU : l # HIRQ(hirq[c]) => frames'[l] = frames[l]
<1> DEFINE i == hirq[c]
<1>1. i \in IRQs /\ i # NoIRQ /\ c \in IrqCPUs /\ Current(c) = HIRQ(i) /\ HIRQ(i) \in LEU
  BY HirqTop, LEUFacts
<1> HIDE DEF i
<1>2. frames \in [LEU -> Seq(Activation)] /\ hirq \in [CPUs -> IRQs \cup {NoIRQ}]
  BY DEF MachineInv, MachineType
<1>3. <<>> \in Seq(Activation)
  BY EmptySeq
<1>4. /\ frames' \in [LEU -> Seq(Activation)]
      /\ frames'[HIRQ(i)] = <<>>
      /\ \A l \in LEU : l # HIRQ(i) => frames'[l] = frames[l]
  BY <1>1, <1>2, <1>3 DEF Stop
<1>5. /\ hirq' \in [CPUs -> IRQs \cup {NoIRQ}]
      /\ hirq'[c] = NoIRQ
      /\ \A d \in CPUs : d # c => hirq'[d] = hirq[d]
  BY <1>2 DEF Stop
<1>6. running' = running /\ home' = home
  BY DEF Stop
<1>7. MachineType' /\ Homes'
  BY <1>4, <1>5, <1>6 DEF MachineInv, MachineType, Homes
<1>8. Served'
  <2>1. ASSUME NEW d \in CPUs, hirq'[d] # NoIRQ
        PROVE  /\ d \in IrqCPUs
               /\ frames'[HIRQ(hirq'[d])] # <<>>
               /\ frames'[HIRQ(hirq'[d])][1].kind = "hirq"
    <3>1. d # c /\ hirq'[d] = hirq[d] /\ hirq[d] # NoIRQ
      BY <2>1, <1>5
    <3>2. d \in IrqCPUs
      BY <3>1 DEF MachineInv, Served
    <3> QED BY <3>1, <3>2, <1>1 DEF Followed
  <2>2. ASSUME NEW j \in IRQs, \A d \in CPUs : hirq'[d] # j
        PROVE  frames'[HIRQ(j)] = <<>>
    <3>1. CASE j = i
      BY <3>1, <1>4
    <3>2. CASE j # i
      <4>1. \A d \in CPUs : hirq[d] # j
        BY <2>2, <3>2, <1>5 DEF i
      <4>2. frames[HIRQ(j)] = <<>>
        BY <4>1 DEF MachineInv, Served
      <4> QED BY <3>2, <4>2, <1>4, LEUFacts
    <3> QED BY <3>1, <3>2
  <2> QED BY <2>1, <2>2 DEF Served
<1>9. InHandler'
  <2> SUFFICES ASSUME NEW j \in IRQs, NEW k \in DOMAIN frames'[HIRQ(j)]
               PROVE  /\ frames'[HIRQ(j)][k].kind \notin InIrq
                      /\ frames'[HIRQ(j)][k].kind = "hirq" => k = 1
    BY DEF InHandler
  <2>1. j # i
    <3>1. DOMAIN <<>> = {}
      OBVIOUS
    <3> QED BY <3>1, <1>4
  <2>2. frames'[HIRQ(j)] = frames[HIRQ(j)]
    BY <2>1, <1>4, LEUFacts
  <2> QED BY <2>2 DEF MachineInv, InHandler
<1>10. InThread'
  <2>1. \A t \in Threads : frames'[Thread(t)] = frames[Thread(t)]
    BY <1>4, LEUFacts
  <2> QED BY <2>1, <1>6 DEF MachineInv, InThread
<1> QED BY <1>4, <1>5, <1>7, <1>8, <1>9, <1>10 DEF MachineInv, i
-----------------------------------------------------------------------------
(* The analyser keeps its invariant: steps that change the activations of  *)
(* the LEU that runs                                                       *)

Clear(s) == [s EXCEPT !.stored = <<>>]
LEMMA ClearFacts ==
  ASSUME NEW s, IsState(s)
  PROVE  /\ Quiet(s, Clear(s))
         /\ Clear(s).stored = <<>>
         /\ Clear(s).panic = s.panic
         /\ Clear(s).LEUs = s.LEUs
BY DEF Clear, Quiet, IsState

LEMMA NoStack ==
  ASSUME NEW s, NEW c, NEW l, ~Has(s, c, l)
  PROVE  StackOf(s, c, l) = <<>>
<1>1. DOMAIN NoMap = {}
  BY DEF NoMap
<1>2. CASE c \in DOMAIN s.ServiceStack
  <2>1. l \notin DOMAIN s.ServiceStack[c]
    BY <1>2 DEF Has, Mapped
  <2> QED BY <1>2, <2>1 DEF StackOf, Get
<1>3. CASE c \notin DOMAIN s.ServiceStack
  BY <1>1, <1>3 DEF StackOf, Get
<1> QED BY <1>2, <1>3

\* What runs on one CPU has no stack on another, and does not run there.
LEMMA Elsewhere ==
  ASSUME Followed, Inv, NEW c \in CPUs, NEW d \in CPUs, d # c
  PROVE  /\ ~Has(state, d, Current(c))
         /\ StackOf(state, d, Current(c)) = <<>>
         /\ hirq[d] # NoIRQ => HIRQ(hirq[d]) # Current(c)
<1>1. MachineInv /\ Owners /\ MachineType
  BY DEF Inv, AnalyserInv, MachineInv
<1>2. CASE hirq[c] = NoIRQ
  <2>1. Current(c) = Thread(running[c]) /\ running[c] \in Threads
    BY <1>1, <1>2, CurrentFacts
  <2>2. home[running[c]] = c
    BY <1>1 DEF MachineInv, Homes
  <2>3. ~Has(state, d, Current(c))
    BY <1>1, <2>1, <2>2 DEF Owners, Has, Mapped
  <2>4. HIRQ(hirq[d]) # Current(c)
    BY <2>1, LEUFacts
  <2> QED BY <2>3, <2>4, NoStack
<1>3. CASE hirq[c] # NoIRQ
  <2>1. Current(c) = HIRQ(hirq[c]) /\ hirq[c] \in IRQs /\ c \in IrqCPUs
    BY <1>1, <1>3, CurrentFacts DEF MachineInv, Served
  <2>2. d \notin IrqCPUs
    BY <2>1 DEF Followed
  <2>3. ~Has(state, d, Current(c))
    BY <1>1, <2>1, <2>2 DEF Owners, Has, Mapped
  <2>4. hirq[d] = NoIRQ
    BY <1>1, <2>2 DEF MachineInv, Served
  <2> QED BY <2>3, <2>4, NoStack
<1> QED BY <1>2, <1>3

\* A step the analyser does not see.
LEMMA Unseen ==
  ASSUME Followed, Inv, NEW c \in CPUs, limbo[c], NEW f \in Seq(Activation), Instead(c, f),
         UNCHANGED <<recording, limbo, state>>
  PROVE  AnalyserInv'
<1> DEFINE l == Current(c)
<1>1. MachineInv /\ MachineType /\ AnalyserInv
  BY DEF Inv, MachineInv
<1>2. l \in LEU /\ frames \in [LEU -> Seq(Activation)]
  BY <1>1, CurrentFacts DEF MachineType
<1>3. /\ frames'[l] = f /\ \A m \in LEU : m # l => frames'[m] = frames[m]
      /\ running' = running /\ hirq' = hirq /\ home' = home
      /\ recording' = recording /\ limbo' = limbo /\ state' = state
  BY <1>2 DEF Instead
<1>4. AnalyserType' /\ Limbo' /\ Owners' /\ StoredWhole' /\ Alive'
  BY <1>1, <1>3 DEF AnalyserInv, AnalyserType, Limbo, Owners, StoredWhole, Whole, Alive
<1>5. Follows'
  <2> SUFFICES ASSUME NEW d \in CPUs, ~limbo[d]
               PROVE  /\ Mapped(state, d)
                      /\ Cur(state, d) = Current(d)'
                      /\ Thread(running[d]) \in state.LEUs
                      /\ Current(d)' \in state.LEUs
                      /\ hirq[d] # NoIRQ =>
                           /\ state.Interrupted # <<>>
                           /\ LastOf(state.Interrupted) = Thread(running[d])
                           /\ Len(StackOf(state, d, HIRQ(hirq[d]))) = Len(frames'[HIRQ(hirq[d])])
    BY <1>3 DEF Follows
  <2>1. Current(d)' = Current(d)
    BY <1>3 DEF Current
  <2>2. hirq[d] # NoIRQ => frames'[HIRQ(hirq[d])] = frames[HIRQ(hirq[d])]
    <3>1. hirq[d] # NoIRQ => HIRQ(hirq[d]) \in LEU
      BY <1>1, LEUFacts DEF MachineType
    <3> QED BY <3>1, <1>3, Elsewhere
  <2> QED BY <1>1, <2>1, <2>2 DEF AnalyserInv, Follows
<1>6. Stacks'
  <2> SUFFICES ASSUME NEW d \in CPUs, NEW m \in LEU
               PROVE  /\ StackOf(state, d, m) \in Seq(Element)
                      /\ Innermost(StackOf(state, d, m), frames'[m])
    BY <1>3 DEF Stacks
  <2>1. CASE m # l
    BY <2>1, <1>1, <1>3 DEF AnalyserInv, Stacks
  <2>2. CASE m = l
    <3>1. StackOf(state, d, m) = <<>>
      <4>1. CASE d = c
        <5>1. ~Has(state, c, m)
          BY <1>1 DEF AnalyserInv, Limbo, Has
        <5> QED BY <4>1, <5>1, NoStack
      <4>2. CASE d # c
        BY <4>2, <2>2, Elsewhere
      <4> QED BY <4>1, <4>2
    <3>2. Innermost(<<>>, f)
      BY InnermostEmpty
    <3> QED BY <3>1, <3>2, <2>2, <1>3, EmptySeq
  <2> QED BY <2>1, <2>2
<1> QED BY <1>4, <1>5, <1>6 DEF AnalyserInv

\* A line that changes the stack of the LEU that wrote it.
LEMMA Seen ==
  ASSUME Followed, Inv, NEW c \in CPUs, ~limbo[c], NEW f \in Seq(Activation), Instead(c, f),
         recording' = recording, limbo' = limbo,
         NEW stack \in Seq(Element), Handled(Clear(state), state', c, Current(c), stack),
         Innermost(stack, f), hirq[c] # NoIRQ => Len(stack) = Len(f)
  PROVE  AnalyserInv'
<1> DEFINE l == Current(c)
<1>1. MachineInv /\ MachineType /\ AnalyserInv /\ IsState(state)
  BY DEF Inv, MachineInv, AnalyserInv, AnalyserType
<1>2. l \in LEU /\ frames \in [LEU -> Seq(Activation)]
  BY <1>1, CurrentFacts DEF MachineType
<1>3. /\ frames'[l] = f /\ \A m \in LEU : m # l => frames'[m] = frames[m]
      /\ running' = running /\ hirq' = hirq /\ home' = home
  BY <1>2 DEF Instead
<1>4. Quiet(state, Clear(state)) /\ Clear(state).LEUs = state.LEUs
  BY <1>1, ClearFacts
<1>5. /\ \A d : Mapped(Clear(state), d) <=> Mapped(state, d)
      /\ \A d, m : Has(Clear(state), d, m) <=> Has(state, d, m)
      /\ \A d, m : StackOf(Clear(state), d, m) = StackOf(state, d, m)
  BY <1>4, QuietStacks
<1>6. /\ IsState(state')
      /\ state'.CurrentLEU = state.CurrentLEU
      /\ state'.Interrupted = state.Interrupted
      /\ Mapped(state', c)
      /\ \A d : d # c => (Mapped(state', d) <=> Mapped(state, d))
      /\ \A d, m : Has(state', d, m) => Has(state, d, m) \/ (d = c /\ m = l)
      /\ StackOf(state', c, l) = stack
      /\ \A d, m : d # c \/ m # l => StackOf(state', d, m) = StackOf(state, d, m)
  BY <1>4, <1>5 DEF Handled, Only, Quiet
<1>7. state.LEUs \subseteq state'.LEUs /\ state'.panic = "none" /\ Whole(state'.stored)
  BY <1>4 DEF Handled
<1> HIDE DEF l
<1>8. AnalyserType'
  BY <1>1, <1>6, <1>7 DEF AnalyserInv, AnalyserType
<1>9. Limbo'
  BY <1>1, <1>6 DEF AnalyserInv, Limbo
<1>10. Follows'
  <2> SUFFICES ASSUME NEW d \in CPUs, ~limbo[d]
               PROVE  /\ Mapped(state', d)
                      /\ Cur(state', d) = Current(d)'
                      /\ Thread(running[d]) \in state'.LEUs
                      /\ Current(d)' \in state'.LEUs
                      /\ hirq[d] # NoIRQ =>
                           /\ state'.Interrupted # <<>>
                           /\ LastOf(state'.Interrupted) = Thread(running[d])
                           /\ Len(StackOf(state', d, HIRQ(hirq[d]))) = Len(frames'[HIRQ(hirq[d])])
    BY <1>3 DEF Follows
  <2>1. Current(d)' = Current(d)
    BY <1>3 DEF Current
  <2>2. /\ Mapped(state, d)
        /\ Cur(state, d) = Current(d)
        /\ Thread(running[d]) \in state.LEUs
        /\ Current(d) \in state.LEUs
        /\ hirq[d] # NoIRQ =>
             /\ state.Interrupted # <<>>
             /\ LastOf(state.Interrupted) = Thread(running[d])
             /\ Len(StackOf(state, d, HIRQ(hirq[d]))) = Len(frames[HIRQ(hirq[d])])
    BY <1>1 DEF AnalyserInv, Follows
  <2>3. Cur(state', d) = Cur(state, d)
    BY <1>6 DEF Cur
  <2>4. Mapped(state', d)
    BY <1>6, <2>2
  <2>5. ASSUME hirq[d] # NoIRQ
        PROVE  Len(StackOf(state', d, HIRQ(hirq[d]))) = Len(frames'[HIRQ(hirq[d])])
    <3>1. HIRQ(hirq[d]) \in LEU
      BY <1>1, <2>5, LEUFacts DEF MachineType
    <3>2. CASE d = c
      <4>1. HIRQ(hirq[d]) = l
        BY <2>5, <3>2, <1>1, CurrentFacts DEF l
      <4> QED BY <4>1, <3>2, <2>5, <1>3, <1>6
    <3>3. CASE d # c
      <4>1. HIRQ(hirq[d]) # l
        BY <3>3, <2>5, Elsewhere DEF l
      <4> QED BY <4>1, <3>1, <3>3, <2>2, <2>5, <1>3, <1>6
    <3> QED BY <3>2, <3>3
  <2> QED BY <1>6, <1>7, <2>1, <2>2, <2>3, <2>4, <2>5
<1>11. Stacks'
  <2> SUFFICES ASSUME NEW d \in CPUs, NEW m \in LEU
               PROVE  /\ StackOf(state', d, m) \in Seq(Element)
                      /\ Innermost(StackOf(state', d, m), frames'[m])
    BY DEF Stacks
  <2>1. CASE d = c /\ m = l
    BY <2>1, <1>3, <1>6
  <2>2. CASE d # c /\ m = l
    <3>1. StackOf(state', d, m) = <<>>
      BY <2>2, <1>6, Elsewhere DEF l
    <3>2. Innermost(<<>>, f)
      BY InnermostEmpty
    <3> QED BY <3>1, <3>2, <2>2, <1>3, EmptySeq
  <2>3. CASE m # l
    BY <2>3, <1>1, <1>3, <1>6 DEF AnalyserInv, Stacks
  <2> QED BY <2>1, <2>2, <2>3
<1>12. Owners'
  <2>1. Owners /\ home[running[c]] = c
    BY <1>1 DEF AnalyserInv, MachineInv, Homes
  <2>2. ASSUME NEW d, NEW t \in Threads, Has(state', d, Thread(t))
        PROVE  d = home[t]
    <3>1. CASE Has(state, d, Thread(t))
      BY <3>1, <2>1 DEF Owners, Has, Mapped
    <3>2. CASE d = c /\ Thread(t) = l
      <4>1. t = running[c]
        BY <3>2, <1>1, CurrentFacts, LEUFacts DEF l
      <4> QED BY <4>1, <3>2, <2>1
    <3> QED BY <2>2, <3>1, <3>2, <1>6
  <2>3. ASSUME NEW d, NEW i \in IRQs, Has(state', d, HIRQ(i))
        PROVE  d \in IrqCPUs
    <3>1. CASE Has(state, d, HIRQ(i))
      BY <3>1, <2>1 DEF Owners, Has, Mapped
    <3>2. CASE d = c /\ HIRQ(i) = l
      <4>1. hirq[c] # NoIRQ
        BY <3>2, <1>1, CurrentFacts, LEUFacts DEF l
      <4> QED BY <4>1, <3>2, <1>1 DEF MachineInv, Served
    <3> QED BY <2>3, <3>1, <3>2, <1>6
  <2> QED BY <2>2, <2>3, <1>3 DEF Owners
<1>13. StoredWhole' /\ Alive'
  BY <1>7 DEF StoredWhole, Whole, Alive
<1> QED BY <1>8, <1>9, <1>10, <1>11, <1>12, <1>13 DEF AnalyserInv

\* What is kept of a line.
LEMMA KeptFacts ==
  ASSUME NEW e, NEW ev \in {"CTXSW", "SRVENTRY", "SRVEXIT", "HIRQENTRY", "HIRQEXIT", "LOOPSTART",
                            "LOOPRSTART", "LOOPSTOP", "SRVQUEUE"},
         NEW srv \in Services \cup {"", "0", "irq_enter", "handler"}, NEW loc \in Loops \cup {""},
         e.EventType = ev, e.Service = srv, e.Location = loc
  PROVE  /\ Kept(e) \in Entry
         /\ Kept(e).ev = ev /\ Kept(e).srv = srv /\ Kept(e).loc = loc
<1>1. Kept(e) = [ev |-> ev, srv |-> srv, loc |-> loc]
  BY DEF Kept
<1>2. [ev |-> ev, srv |-> srv, loc |-> loc] \in Entry
  BY DEF Entry
<1>3. Kept(e).ev = ev /\ Kept(e).srv = srv /\ Kept(e).loc = loc
  BY DEF Kept
<1> QED BY <1>1, <1>2, <1>3

\* A line that is no CTXSW is skipped in limbo, and replayed otherwise.
LEMMA TraceCases ==
  ASSUME Inv, NEW c \in CPUs, NEW e, e.CPU = c, e.EventType # "CTXSW", Trace(e)
  PROVE  /\ recording' = recording
         /\ limbo' = limbo
         /\ limbo[c] => state' = state
         /\ ~limbo[c] => state' = handleEvent(Clear(state), e)
<1>1. limbo \in [CPUs -> BOOLEAN] /\ (~recording => limbo[c])
  BY DEF Inv, AnalyserInv, AnalyserType, Limbo
<1>2. recording' = recording
  BY DEF Trace
<1>3. CASE limbo[c]
  <2>1. limbo' = limbo /\ state' = state
    BY <1>3 DEF Trace, ReadLine
  <2> QED BY <1>2, <1>3, <2>1
<1>4. CASE ~limbo[c]
  <2>1. limbo' = [limbo EXCEPT ![c] = FALSE] /\ state' = handleEvent([state EXCEPT !.stored = <<>>], e)
    BY <1>1, <1>4 DEF Trace, ReadLine
  <2>2. limbo' = limbo
    BY <1>1, <1>4, <2>1
  <2> QED BY <1>2, <1>4, <2>1, <2>2 DEF Clear
<1> QED BY <1>3, <1>4

LEMMA EventFacts ==
  ASSUME NEW s, NEW e
  PROVE  /\ e.EventType = "CTXSW" => handleEvent(s, e) = handleCTXSW(s, e)
         /\ e.EventType = "MIGRATE" => handleEvent(s, e) = handleMIGRATE(s, e)
         /\ e.EventType = "SRVENTRY" => handleEvent(s, e) = handleSRVENTRY(s, e)
         /\ e.EventType = "SRVEXIT" => handleEvent(s, e) = handleSRVEXIT(s, e)
         /\ e.EventType = "HIRQENTRY" => handleEvent(s, e) = handleHIRQEntry(s, e)
         /\ e.EventType = "HIRQEXIT" => handleEvent(s, e) = handleHIRQExit(s, e)
         /\ e.EventType = "LOOPSTART" => handleEvent(s, e) = handleLOOPSTART(s, e)
         /\ e.EventType = "LOOPRSTART" => handleEvent(s, e) = handleLOOPRSTART(s, e)
         /\ e.EventType = "LOOPSTOP" => handleEvent(s, e) = handleLOOPSTOP(s, e)
         /\ e.EventType = "SRVQUEUE" => handleEvent(s, e) = handleSRVQUEUE(s, e)
BY DEF handleEvent

\* What is known of the LEU on a CPU that is followed.
LEMMA LiveFacts ==
  ASSUME Inv, NEW c \in CPUs, ~limbo[c]
  PROVE  LET s == Clear(state)
             stack == StackOf(s, c, Current(c))
         IN  /\ IsState(s)
             /\ s.panic = "none"
             /\ s.stored = <<>>
             /\ Cur(s, c) = Current(c)
             /\ Current(c) \in s.LEUs
             /\ stack \in Seq(Element)
             /\ Inside(c) \in Seq(Activation)
             /\ Innermost(stack, Inside(c))
             /\ hirq[c] # NoIRQ => Len(stack) = Len(Inside(c)) /\ Inside(c) # <<>> /\ stack # <<>>
<1>1. AnalyserInv /\ MachineInv /\ MachineType
  BY DEF Inv, MachineInv
<1>2. /\ IsState(state) /\ state.panic = "none"
      /\ Cur(state, c) = Current(c) /\ Current(c) \in state.LEUs
  BY <1>1 DEF AnalyserInv, AnalyserType, Alive, Follows
<1> DEFINE s == Clear(state)
           l == Current(c)
           stack == StackOf(s, c, l)
           g == Inside(c)
<1>3. Quiet(state, s) /\ s.stored = <<>> /\ s.panic = "none" /\ s.LEUs = state.LEUs
  BY <1>2, ClearFacts
<1>4. IsState(s) /\ Cur(s, c) = l /\ stack = StackOf(state, c, l)
  BY <1>2, <1>3, QuietStacks DEF Quiet
<1>5. l \in LEU /\ g = frames[l] /\ g \in Seq(Activation)
  BY <1>1, CurrentFacts
<1>6. stack \in Seq(Element) /\ Innermost(stack, g)
  BY <1>1, <1>4, <1>5 DEF AnalyserInv, Stacks
<1>7. ASSUME hirq[c] # NoIRQ
      PROVE  Len(stack) = Len(g) /\ g # <<>> /\ stack # <<>>
  <2>1. l = HIRQ(hirq[c])
    BY <1>1, <1>7, CurrentFacts
  <2>2. Len(stack) = Len(g) /\ g # <<>>
    BY <1>1, <1>4, <1>5, <1>7, <2>1 DEF AnalyserInv, Follows, MachineInv, Served
  <2>3. Len(g) # 0
    BY <1>5, <2>2, EmptySeq
  <2> HIDE DEF stack, g
  <2>4. stack # <<>>
    BY <2>2, <2>3, EmptySeq
  <2> QED BY <2>2, <2>4
<1> QED BY <1>2, <1>3, <1>4, <1>5, <1>6, <1>7

\* Nothing is known of the thread: the line is ignored.
LEMMA SeenNothing ==
  ASSUME Followed, Inv, NEW c \in CPUs, ~limbo[c], NEW f \in Seq(Activation), Instead(c, f),
         recording' = recording, limbo' = limbo, NEW e, e.CPU = c,
         StackOf(Clear(state), c, Current(c)) = <<>>,
         state' = MakeMap(Clear(state), e)
  PROVE  AnalyserInv'
<1> DEFINE s == Clear(state)
           l == Current(c)
<1>1. /\ IsState(s) /\ s.panic = "none" /\ s.stored = <<>> /\ Cur(s, c) = l
      /\ hirq[c] = NoIRQ
  BY LiveFacts
<1> HIDE DEF s, l
<1>2. Stack(s, e) = <<>>
  BY <1>1 DEF Stack, StackOf, Cur, GetCurrentLEU, s, l
<1>3. Only(s, state', c, l, <<>>) /\ Same(s, state')
  BY <1>1, <1>2, MakeMapFacts DEF s
<1>4. Handled(s, state', c, l, <<>>)
  BY <1>1, <1>3, SameHandled
<1>5. Innermost(<<>>, f) /\ <<>> \in Seq(Element)
  BY InnermostEmpty, EmptySeq
<1> QED BY <1>1, <1>4, <1>5, Seen DEF s, l

\* A line that is only added to the innermost service.
LEMMA SeenPush ==
  ASSUME Followed, Inv, NEW c \in CPUs, ~limbo[c], Instead(c, Inside(c)),
         recording' = recording, limbo' = limbo, NEW e, e.CPU = c, Kept(e) \in Entry,
         state' = PushService(Clear(state), e)
  PROVE  AnalyserInv'
<1> DEFINE s == Clear(state)
           l == Current(c)
           g == Inside(c)
           stack == StackOf(s, c, l)
           new == Pushed(stack, Kept(e))
<1>1. /\ IsState(s) /\ s.panic = "none" /\ s.stored = <<>> /\ Cur(s, c) = l
      /\ stack \in Seq(Element) /\ g \in Seq(Activation) /\ Innermost(stack, g)
      /\ hirq[c] # NoIRQ => Len(stack) = Len(g)
  BY LiveFacts
<1> HIDE DEF s, l, g
<1>2. Only(s, state', c, l, new) /\ Same(s, state')
  BY <1>1, PushServiceFacts DEF s
<1> HIDE DEF stack
<1>3. /\ new \in Seq(Element) /\ Len(new) = Len(stack)
      /\ \A i \in 1..Len(stack) : new[i].Name = stack[i].Name
  BY <1>1, PushedFacts
<1> HIDE DEF new
<1>4. Innermost(new, g)
  BY <1>1, <1>3, InnermostReplaced
<1>5. Handled(s, state', c, l, new)
  BY <1>1, <1>2, SameHandled
<1> QED BY <1>1, <1>3, <1>4, <1>5, Seen DEF s, l, g

\* A line that enters an activation.
LEMMA SeenNew ==
  ASSUME Followed, Inv, NEW c \in CPUs, ~limbo[c], NEW a \in Activation,
         Instead(c, Append(Inside(c), a)), recording' = recording, limbo' = limbo,
         NEW e, e.CPU = c, Kept(e) \in Entry, a.name \in Names, Opens(Kept(e), a.name),
         state' = PushNewService(Clear(state), e, a.name)
  PROVE  AnalyserInv'
<1> DEFINE s == Clear(state)
           l == Current(c)
           g == Inside(c)
           stack == StackOf(s, c, l)
           base == Caller(stack, e)
           x == [Name |-> a.name, Entries |-> <<Kept(e)>>]
           new == Append(base, x)
<1>1. /\ IsState(s) /\ s.panic = "none" /\ s.stored = <<>> /\ Cur(s, c) = l
      /\ stack \in Seq(Element) /\ g \in Seq(Activation) /\ Innermost(stack, g)
      /\ hirq[c] # NoIRQ => Len(stack) = Len(g)
  BY LiveFacts
<1> HIDE DEF s, l, g
<1>2. Only(s, state', c, l, new) /\ Same(s, state')
  BY <1>1, PushNewServiceFacts DEF s
<1> HIDE DEF stack
<1>3. /\ base \in Seq(Element) /\ Len(base) = Len(stack)
      /\ \A i \in 1..Len(stack) : base[i].Name = stack[i].Name
  <2>1. CASE e.Location = "irq_exit"
    BY <1>1, <2>1 DEF Caller
  <2>2. CASE e.Location # "irq_exit"
    <3>1. base = Pushed(stack, Kept(e))
      BY <2>2 DEF Caller
    <3> QED BY <1>1, <3>1, PushedFacts
  <2> QED BY <2>1, <2>2
<1> HIDE DEF base
<1>4. Innermost(base, g)
  BY <1>1, <1>3, InnermostReplaced
<1>5. x \in Element /\ x.Name = a.name
  BY NewElement
<1> HIDE DEF x
<1>6. Innermost(new, Append(g, a))
  BY <1>1, <1>3, <1>4, <1>5, InnermostAppend
<1>7. new \in Seq(Element) /\ Len(new) = Len(base) + 1
  BY <1>3, <1>5, AppendFacts
<1>8. Append(g, a) \in Seq(Activation) /\ Len(Append(g, a)) = Len(g) + 1
  BY <1>1, AppendFacts
<1>9. Handled(s, state', c, l, new)
  BY <1>1, <1>2, SameHandled
<1> HIDE DEF new
<1>10. hirq[c] # NoIRQ => Len(new) = Len(Append(g, a))
  BY <1>1, <1>3, <1>7, <1>8
<1> QED BY <1>6, <1>7, <1>8, <1>9, <1>10, Seen DEF s, l, g

\* A line that leaves the innermost activation and replays as leave(state).
LEMMA SeenLeave ==
  ASSUME Followed, Inv, NEW c \in CPUs, ~limbo[c], Top(c) # "none",
         Instead(c, DropLast(Inside(c))), recording' = recording, limbo' = limbo,
         NEW k \in Entry, StackOf(Clear(state), c, Current(c)) # <<>>,
         Handled(Clear(state), state', c, Current(c),
                 Pushed(DropLast(StackOf(Clear(state), c, Current(c))), k))
  PROVE  AnalyserInv'
<1> DEFINE s == Clear(state)
           l == Current(c)
           g == Inside(c)
           stack == StackOf(s, c, l)
           rest == DropLast(stack)
           new == Pushed(rest, k)
<1>1. /\ stack \in Seq(Element) /\ g \in Seq(Activation) /\ Innermost(stack, g)
      /\ hirq[c] # NoIRQ => Len(stack) = Len(g)
  BY LiveFacts
<1> HIDE DEF s, l, g
<1>2. stack # <<>> /\ Handled(s, state', c, l, new)
  BY DEF s, l
<1> HIDE DEF stack
<1>3. rest \in Seq(Element) /\ Len(rest) = Len(stack) - 1
  BY <1>1, <1>2, DropLastFacts
<1>4. g # <<>> /\ Innermost(rest, DropLast(g))
  BY <1>1, <1>2, InnermostDrop
<1> HIDE DEF rest
<1>5. DropLast(g) \in Seq(Activation) /\ Len(DropLast(g)) = Len(g) - 1
  BY <1>1, <1>4, DropLastFacts
<1>6. /\ new \in Seq(Element) /\ Len(new) = Len(rest)
      /\ \A i \in 1..Len(rest) : new[i].Name = rest[i].Name
  BY <1>3, PushedFacts
<1> HIDE DEF new
<1>7. Innermost(new, DropLast(g))
  BY <1>3, <1>4, <1>5, <1>6, InnermostReplaced
<1>8. hirq[c] # NoIRQ => Len(new) = Len(DropLast(g))
  BY <1>1, <1>3, <1>5, <1>6
<1> QED BY <1>2, <1>5, <1>6, <1>7, <1>8, Seen DEF s, l, g

LEMMA SeenExit ==
  ASSUME Followed, Inv, NEW c \in CPUs, ~limbo[c], Top(c) # "none",
         Instead(c, DropLast(Inside(c))), recording' = recording, limbo' = limbo,
         NEW e, e.CPU = c, Kept(e) \in Entry,
         LastOf(Inside(c)).name \notin Loops, Ends(Kept(e), LastOf(Inside(c)).name),
         state' = handleSRVEXIT(Clear(state), e)
  PROVE  AnalyserInv'
<1> DEFINE s == Clear(state)
           l == Current(c)
           g == Inside(c)
           stack == StackOf(s, c, l)
<1>1. /\ IsState(s) /\ s.panic = "none" /\ Cur(s, c) = l
      /\ stack \in Seq(Element) /\ g \in Seq(Activation) /\ Innermost(stack, g)
  BY LiveFacts
<1>2. Stack(s, e) = stack
  BY <1>1 DEF Stack, StackOf, Cur, GetCurrentLEU
<1>3. CASE stack = <<>>
  <2>1. state' = MakeMap(s, e)
    BY <1>2, <1>3 DEF handleSRVEXIT
  <2>2. g # <<>>
    BY TopFacts DEF Inv, MachineInv
  <2>3. DropLast(g) \in Seq(Activation)
    BY <1>1, <2>2, DropLastFacts
  <2> QED BY <1>3, <2>1, <2>3, SeenNothing
<1>4. CASE stack # <<>>
  <2>1. LastOf(stack).Name = LastOf(g).name
    BY <1>1, <1>4, InnermostDrop
  <2>2. Handled(s, state', c, l, Pushed(DropLast(stack), Kept(e)))
    <3>1. LastOf(stack).Name \notin Loops /\ Ends(Kept(e), LastOf(stack).Name)
      BY <2>1
    <3>2. stack = StackOf(s, e.CPU, Cur(s, e.CPU))
      BY <1>1
    <3>3. Handled(s, handleSRVEXIT(s, e), e.CPU, Cur(s, e.CPU), Pushed(DropLast(stack), Kept(e)))
      <4> HIDE DEF s, stack
      <4> QED BY <1>1, <1>4, <3>1, <3>2, ExitFacts
    <3> QED BY <1>1, <3>3
  <2> QED BY <1>4, <2>2, SeenLeave
<1> QED BY <1>3, <1>4

LEMMA InsteadEnter ==
  ASSUME MachineType, NEW c \in CPUs, NEW a, Enter(c, a)
  PROVE  Instead(c, Append(Inside(c), a))
BY DEF Enter, Instead, Inside

LEMMA InsteadLeave ==
  ASSUME MachineType, NEW c \in CPUs, Leave(c)
  PROVE  Instead(c, DropLast(Inside(c)))
BY DEF Leave, Instead, Inside

LEMMA InsteadSame ==
  ASSUME MachineType, NEW c \in CPUs, UNCHANGED machine
  PROVE  Instead(c, Inside(c))
<1>1. Current(c) \in LEU /\ frames \in [LEU -> Seq(Activation)] /\ Inside(c) = frames[Current(c)]
  BY CurrentFacts DEF MachineType
<1>2. [frames EXCEPT ![Current(c)] = Inside(c)] = frames
  BY <1>1
<1> QED BY <1>2 DEF Instead, machine

LEMMA ServiceNames ==
  ASSUME NEW n \in Services
  PROVE  n \notin Loops /\ n \in Names /\ n # "handler" /\ n # "HIRQ"
BY NameAssumption DEF Loops, Names

\* A service, an interrupt or a handler is entered.
LEMMA EnterStep ==
  ASSUME Followed, Inv, NEW c \in CPUs, NEW a \in Activation, Enter(c, a),
         a.kind \notin {"hirq", "loop"}, hirq[c] # NoIRQ => a.kind \notin InIrq,
         a.kind \in {"handler", "handled"} => c \in IrqCPUs /\ Top(c) = "irq",
         NEW e, Trace(e), e.CPU = c, NEW ev \in {"SRVQUEUE", "SRVENTRY"}, e.EventType = ev,
         e.Service = a.name, e.Location = "", ev = "SRVQUEUE" => e.Pid1 # 0
  PROVE  Inv'
<1>1. MachineInv /\ MachineType
  BY DEF Inv, MachineInv
<1>2. Instead(c, Append(Inside(c), a))
  BY <1>1, InsteadEnter
<1>3. MachineInv' /\ Append(Inside(c), a) \in Seq(Activation)
  BY <1>1, <1>2, EnterMachine
<1>4. /\ recording' = recording
      /\ limbo' = limbo
      /\ limbo[c] => state' = state
      /\ ~limbo[c] => state' = handleEvent(Clear(state), e)
  BY TraceCases
<1>5. CASE limbo[c]
  BY <1>2, <1>3, <1>4, <1>5, Unseen DEF Inv
<1>6. CASE ~limbo[c]
  <2> DEFINE n == a.name
  <2>1. handleEvent(Clear(state), e) = PushNewService(Clear(state), e, n)
    <3>1. CASE ev = "SRVENTRY"
      BY <3>1, EventFacts DEF handleSRVENTRY
    <3>2. CASE ev = "SRVQUEUE"
      <4>1. handleEvent(Clear(state), e) = handleSRVQUEUE(Clear(state), e)
        BY <3>2, EventFacts
      <4>2. e.Pid1 # 0
        BY <3>2
      <4> QED BY <4>1, <4>2, Zenon DEF handleSRVQUEUE
    <3> QED BY <3>1, <3>2
  <2>2. n \in Services \/ n = "irq_enter" \/ n = "handler"
    BY ActivationFacts
  <2>3. n \notin Loops /\ n \in Names
    BY <2>2, ServiceNames DEF Loops, Names
  <2>4. Kept(e) \in Entry /\ Opens(Kept(e), n)
    <3>1. n \in Services \cup {"", "0", "irq_enter", "handler"}
      BY <2>2
    <3>2. Kept(e) \in Entry /\ Kept(e).ev = ev /\ Kept(e).srv = n
      BY <3>1, KeptFacts
    <3> QED BY <2>3, <3>2 DEF Opens, Begins
  <2>5. AnalyserInv'
    BY <1>2, <1>4, <1>6, <2>1, <2>3, <2>4, SeenNew
  <2> QED BY <1>3, <2>5 DEF Inv
<1> QED BY <1>5, <1>6

LEMMA EnterSteps ==
  ASSUME Followed, Inv, NEW c \in CPUs, Call(c) \/ irq_enter(c) \/ HandlerDequeue(c)
  PROVE  Inv'
<1>1. CASE Call(c)
  <2>1. PICK n \in Services :
          /\ Enter(c, Frame("srv", n))
          /\ Trace(Line(c, IF Top(c) = "loop" THEN "SRVQUEUE" ELSE "SRVENTRY", n, "", 1, 0))
    BY <1>1 DEF Call
  <2> DEFINE a == Frame("srv", n)
             ev == IF Top(c) = "loop" THEN "SRVQUEUE" ELSE "SRVENTRY"
             e == Line(c, ev, n, "", 1, 0)
  <2>2. a \in Activation /\ a.kind = "srv" /\ a.name = n
    BY ActivationFacts
  <2>3. ev \in {"SRVQUEUE", "SRVENTRY"}
    OBVIOUS
  <2>4. Enter(c, a) /\ Trace(e)
    BY <2>1
  <2> HIDE DEF a, ev
  <2>5. e.CPU = c /\ e.EventType = ev /\ e.Service = n /\ e.Location = "" /\ e.Pid1 # 0
    BY DEF Line
  <2> HIDE DEF e
  <2> QED BY <2>2, <2>3, <2>4, <2>5, EnterStep DEF InIrq
<1>2. CASE irq_enter(c)
  <2> DEFINE a == Frame("irq", "irq_enter")
             e == Line(c, "SRVENTRY", "irq_enter", "", 0, 0)
  <2>1. a \in Activation /\ a.kind = "irq" /\ a.name = "irq_enter"
    BY ActivationFacts
  <2>2. Enter(c, a) /\ Trace(e) /\ hirq[c] = NoIRQ
    BY <1>2 DEF irq_enter
  <2>3. e.CPU = c /\ e.EventType = "SRVENTRY" /\ e.Service = "irq_enter" /\ e.Location = ""
    BY DEF Line
  <2> HIDE DEF a, e
  <2> QED BY <2>1, <2>2, <2>3, EnterStep
<1>3. CASE HandlerDequeue(c)
  <2> DEFINE a == Frame("handler", "handler")
             e == Line(c, "SRVQUEUE", "handler", "", 1, 0)
  <2>1. a \in Activation /\ a.kind = "handler" /\ a.name = "handler"
    BY ActivationFacts
  <2>2. Enter(c, a) /\ Trace(e) /\ Top(c) = "irq" /\ c \in IrqCPUs
    BY <1>3 DEF HandlerDequeue
  <2>3. /\ e.CPU = c /\ e.EventType = "SRVQUEUE" /\ e.Service = "handler" /\ e.Location = ""
        /\ e.Pid1 # 0
    BY DEF Line
  <2>4. hirq[c] = NoIRQ
    <3>1. Valid(c, Inside(c)) /\ Inside(c)[Len(Inside(c))].kind = "irq"
            /\ Len(Inside(c)) \in DOMAIN Inside(c)
      BY <2>2, InsideValid, TopFacts DEF Inv, MachineInv
    <3> QED BY <3>1 DEF Valid, InIrq
  <2> HIDE DEF a, e
  <2> QED BY <2>1, <2>2, <2>3, <2>4, EnterStep
<1> QED BY <1>1, <1>2, <1>3

\* Return(), irq_exit() and HandlerExit() differ in what is left and in the
\* name the line gives.
LEMMA ExitStep ==
  ASSUME Followed, Inv, NEW c \in CPUs, Top(c) \notin {"none", "hirq", "loop"}, Leave(c),
         NEW srv \in Services \cup {"", "0", "irq_enter", "handler"},
         srv = IF LastOf(Inside(c)).name = "handler" THEN "0" ELSE LastOf(Inside(c)).name,
         Trace(Line(c, "SRVEXIT", srv, "", 0, 0))
  PROVE  Inv'
<1>1. MachineInv /\ MachineType
  BY DEF Inv, MachineInv
<1>2. Instead(c, DropLast(Inside(c)))
  BY <1>1, InsteadLeave
<1>3. MachineInv' /\ DropLast(Inside(c)) \in Seq(Activation)
  BY <1>1, <1>2, LeaveMachine
<1> DEFINE e == Line(c, "SRVEXIT", srv, "", 0, 0)
           n == LastOf(Inside(c)).name
<1>4. e.CPU = c /\ e.EventType = "SRVEXIT" /\ e.Service = srv /\ e.Location = ""
  BY DEF Line
<1> HIDE DEF e
<1>5. /\ recording' = recording
      /\ limbo' = limbo
      /\ limbo[c] => state' = state
      /\ ~limbo[c] => state' = handleEvent(Clear(state), e)
  BY <1>4, TraceCases DEF e
<1>6. CASE limbo[c]
  BY <1>2, <1>3, <1>5, <1>6, Unseen DEF Inv
<1>7. CASE ~limbo[c]
  <2>1. state' = handleSRVEXIT(Clear(state), e)
    BY <1>4, <1>5, <1>7, EventFacts
  <2>2. Kept(e) \in Entry /\ Ends(Kept(e), n)
    <3>1. Kept(e) \in Entry /\ Kept(e).ev = "SRVEXIT" /\ Kept(e).srv = srv
      BY <1>4, KeptFacts
    <3> QED BY <3>1 DEF Ends
  <2>3. n \notin Loops
    <3>1. LastOf(Inside(c)) \in Activation /\ LastOf(Inside(c)).kind = Top(c)
      BY <1>1, TopFacts
    <3>2. n \in Services \/ n = "irq_enter" \/ n = "handler"
      <4>1. Top(c) \in {"srv", "irq", "handler", "handled"}
        BY <3>1, ActivationFacts
      <4> QED BY <3>1, <4>1, ActivationFacts
    <3> QED BY <3>2, ServiceNames DEF Loops
  <2>4. AnalyserInv'
    BY <1>2, <1>4, <1>5, <1>7, <2>1, <2>2, <2>3, SeenExit
  <2> QED BY <1>3, <2>4 DEF Inv
<1> QED BY <1>6, <1>7

LEMMA ExitSteps ==
  ASSUME Followed, Inv, NEW c \in CPUs, Return(c) \/ irq_exit(c) \/ HandlerExit(c)
  PROVE  Inv'
<1> DEFINE x == LastOf(Inside(c))
<1>1. MachineType /\ Top(c) \in {"srv", "irq", "handled"}
  BY DEF Inv, MachineInv, Return, irq_exit, HandlerExit
<1>2. x \in Activation /\ x.kind = Top(c)
  BY <1>1, TopFacts
<1>3. /\ Top(c) = "srv" => x.name \in Services /\ x.name # "handler"
      /\ Top(c) = "irq" => x.name = "irq_enter"
      /\ Top(c) = "handled" => x.name = "handler"
  BY <1>2, ActivationFacts, ServiceNames
<1>4. CASE Return(c)
  BY <1>1, <1>3, <1>4, ExitStep DEF Return
<1>5. CASE irq_exit(c)
  BY <1>1, <1>3, <1>5, ExitStep DEF irq_exit
<1>6. CASE HandlerExit(c)
  BY <1>1, <1>3, <1>6, ExitStep DEF HandlerExit
<1> QED BY <1>4, <1>5, <1>6

LEMMA EventStep ==
  ASSUME Followed, Inv, NEW c \in CPUs, Event(c)
  PROVE  Inv'
<1> DEFINE e == Line(c, "SRVQUEUE", "", "", 0, 0)
<1>1. MachineInv /\ MachineType
  BY DEF Inv, MachineInv
<1>2. Instead(c, Inside(c)) /\ Inside(c) \in Seq(Activation)
  BY <1>1, InsteadSame, CurrentFacts DEF Event
<1>3. MachineInv'
  BY <1>1, MachineSame DEF Event
<1>4. /\ e.CPU = c /\ e.EventType = "SRVQUEUE" /\ e.Service = "" /\ e.Location = "" /\ e.Pid1 = 0
  BY DEF Line
<1>5. Trace(e)
  BY DEF Event
<1> HIDE DEF e
<1>6. /\ recording' = recording
      /\ limbo' = limbo
      /\ limbo[c] => state' = state
      /\ ~limbo[c] => state' = handleEvent(Clear(state), e)
  BY <1>4, <1>5, TraceCases
<1>7. CASE limbo[c]
  BY <1>2, <1>3, <1>6, <1>7, Unseen DEF Inv
<1>8. CASE ~limbo[c]
  <2>1. handleEvent(Clear(state), e) = PushService(Clear(state), e)
    BY <1>4, EventFacts DEF handleSRVQUEUE
  <2>2. Kept(e) \in Entry
    BY <1>4, KeptFacts
  <2>3. AnalyserInv'
    BY <1>2, <1>4, <1>6, <1>8, <2>1, <2>2, SeenPush
  <2> QED BY <1>3, <2>3 DEF Inv
<1> QED BY <1>7, <1>8

LEMMA LoopStartStep ==
  ASSUME Followed, Inv, NEW c \in CPUs, LoopStart(c)
  PROVE  Inv'
<1> DEFINE at == IF Top(c) = "irq" THEN "irq_exit" ELSE "loop"
           a == Frame("loop", at)
           e == Line(c, "LOOPSTART", "", at, 0, 0)
           s == Clear(state)
<1>1. MachineInv /\ MachineType
  BY DEF Inv, MachineInv
<1>2. at \in Loops
  BY DEF Loops
<1>3. Enter(c, a) /\ Trace(e)
  BY DEF LoopStart
<1> HIDE DEF at
<1>4. a \in Activation /\ a.kind = "loop" /\ a.name = at
  BY <1>2, ActivationFacts
<1>5. e.CPU = c /\ e.EventType = "LOOPSTART" /\ e.Service = "" /\ e.Location = at
  BY DEF Line
<1> HIDE DEF a, e
<1>6. Instead(c, Append(Inside(c), a))
  BY <1>1, <1>3, InsteadEnter
<1>7. MachineInv' /\ Append(Inside(c), a) \in Seq(Activation)
  BY <1>1, <1>4, <1>6, EnterMachine DEF InIrq
<1>8. /\ recording' = recording
      /\ limbo' = limbo
      /\ limbo[c] => state' = state
      /\ ~limbo[c] => state' = handleEvent(s, e)
  BY <1>3, <1>5, TraceCases
<1>9. CASE limbo[c]
  BY <1>6, <1>7, <1>8, <1>9, Unseen DEF Inv
<1>10. CASE ~limbo[c]
  <2>1. state' = handleLOOPSTART(s, e)
    BY <1>5, <1>8, <1>10, EventFacts
  <2>2. Cur(s, c) = Current(c)
    BY <1>10, LiveFacts
  <2>3. Stack(s, e) = StackOf(s, c, Current(c))
    BY <1>5, <2>2 DEF Stack, StackOf, Cur, GetCurrentLEU
  <2>4. CASE Stack(s, e) = <<>>
    <3>1. state' = MakeMap(s, e)
      BY <2>1, <2>4 DEF handleLOOPSTART
    <3>2. AnalyserInv'
      BY <1>5, <1>6, <1>7, <1>8, <1>10, <2>3, <2>4, <3>1, SeenNothing
    <3> QED BY <1>7, <3>2 DEF Inv
  <2>5. CASE Stack(s, e) # <<>>
    <3>1. state' = PushNewService(s, e, at)
      BY <1>5, <2>1, <2>5 DEF handleLOOPSTART
    <3>2. Kept(e) \in Entry /\ Kept(e).ev = "LOOPSTART" /\ Kept(e).loc = at
      BY <1>2, <1>5, KeptFacts
    <3>3. Opens(Kept(e), at) /\ at \in Names
      BY <1>2, <3>2 DEF Opens, Names
    <3>4. AnalyserInv'
      BY <1>4, <1>5, <1>6, <1>8, <1>10, <3>1, <3>2, <3>3, SeenNew
    <3> QED BY <1>7, <3>4 DEF Inv
  <2> QED BY <2>4, <2>5
<1> QED BY <1>9, <1>10

\* The innermost activation is a loop, and so is the innermost element.
LEMMA LoopTop ==
  ASSUME Inv, NEW c \in CPUs, ~limbo[c], Top(c) = "loop",
         StackOf(Clear(state), c, Current(c)) # <<>>
  PROVE  LastOf(StackOf(Clear(state), c, Current(c))).Name \in Loops
<1> DEFINE stack == StackOf(Clear(state), c, Current(c))
           g == Inside(c)
<1>1. stack \in Seq(Element) /\ g \in Seq(Activation) /\ Innermost(stack, g)
  BY LiveFacts
<1>2. LastOf(g) \in Activation /\ LastOf(g).kind = "loop"
  BY TopFacts DEF Inv, MachineInv
<1>3. LastOf(g).name \in Loops
  BY <1>2, ActivationFacts
<1>4. LastOf(stack).Name = LastOf(g).name
  BY <1>1, InnermostDrop
<1> QED BY <1>3, <1>4

LEMMA LoopRestartStep ==
  ASSUME Followed, Inv, NEW c \in CPUs, LoopRestart(c)
  PROVE  Inv'
<1> DEFINE e == Line(c, "LOOPRSTART", "", "", 0, 0)
           s == Clear(state)
           l == Current(c)
           g == Inside(c)
           stack == StackOf(s, c, l)
<1>1. MachineInv /\ MachineType
  BY DEF Inv, MachineInv
<1>2. Instead(c, g) /\ g \in Seq(Activation)
  BY <1>1, InsteadSame, CurrentFacts DEF LoopRestart
<1>3. MachineInv'
  BY <1>1, MachineSame DEF LoopRestart
<1>4. e.CPU = c /\ e.EventType = "LOOPRSTART" /\ e.Service = "" /\ e.Location = ""
  BY DEF Line
<1>5. Trace(e) /\ Top(c) = "loop"
  BY DEF LoopRestart
<1> HIDE DEF e
<1>6. /\ recording' = recording
      /\ limbo' = limbo
      /\ limbo[c] => state' = state
      /\ ~limbo[c] => state' = handleEvent(s, e)
  BY <1>4, <1>5, TraceCases
<1>7. CASE limbo[c]
  BY <1>2, <1>3, <1>6, <1>7, Unseen DEF Inv
<1>8. CASE ~limbo[c]
  <2>1. state' = handleLOOPRSTART(s, e)
    BY <1>4, <1>6, <1>8, EventFacts
  <2>2. /\ IsState(s) /\ s.panic = "none" /\ s.stored = <<>> /\ Cur(s, c) = l /\ l \in s.LEUs
        /\ stack \in Seq(Element) /\ Innermost(stack, g)
        /\ hirq[c] # NoIRQ => Len(stack) = Len(g)
    BY <1>8, LiveFacts
  <2>3. Stack(s, e) = stack
    BY <1>4, <2>2 DEF Stack, StackOf, Cur, GetCurrentLEU
  <2>4. CASE stack = <<>>
    <3>1. state' = MakeMap(s, e)
      BY <2>1, <2>3, <2>4 DEF handleLOOPRSTART
    <3>2. AnalyserInv'
      BY <1>2, <1>4, <1>6, <1>8, <2>4, <3>1, SeenNothing
    <3> QED BY <1>3, <3>2 DEF Inv
  <2>5. CASE stack # <<>>
    <3>1. LastOf(stack).Name \in Loops
      BY <1>5, <1>8, <2>5, LoopTop
    <3>2. Kept(e) \in Entry /\ Kept(e).ev = "LOOPRSTART"
      BY <1>4, KeptFacts
    <3> HIDE DEF s, l, g, stack
    <3>3. stack = StackOf(s, e.CPU, Cur(s, e.CPU)) /\ Cur(s, e.CPU) \in s.LEUs
      BY <1>4, <2>2 DEF stack
    <3>4. PICK y \in Element :
            /\ y.Name = LastOf(stack).Name
            /\ Handled(s, handleLOOPRSTART(s, e), e.CPU, Cur(s, e.CPU), Replaced(stack, y))
      BY <2>2, <2>5, <3>1, <3>2, <3>3, RestartFacts
    <3> DEFINE new == Replaced(stack, y)
    <3>5. Handled(s, state', c, l, new)
      BY <1>4, <2>1, <2>2, <3>4
    <3>6. /\ new \in Seq(Element) /\ Len(new) = Len(stack) /\ LastOf(new) = y
          /\ \A k \in 1..Len(stack) : k # Len(stack) => new[k] = stack[k]
      BY <2>2, <2>5, ReplacedFacts
    <3> HIDE DEF new
    <3>7. \A k \in 1..Len(stack) : new[k].Name = stack[k].Name
      BY <3>4, <3>6 DEF LastOf
    <3>8. Innermost(new, g)
      BY <1>2, <2>2, <3>6, <3>7, InnermostReplaced
    <3>9. AnalyserInv'
      BY <1>2, <1>6, <1>8, <2>2, <3>5, <3>6, <3>8, Seen DEF s, l, g
    <3> QED BY <1>3, <3>9 DEF Inv
  <2> QED BY <2>4, <2>5
<1> QED BY <1>7, <1>8

LEMMA LoopStopStep ==
  ASSUME Followed, Inv, NEW c \in CPUs, LoopStop(c)
  PROVE  Inv'
<1> DEFINE e == Line(c, "LOOPSTOP", "", "", 0, 0)
           s == Clear(state)
           l == Current(c)
           g == Inside(c)
           stack == StackOf(s, c, l)
<1>1. MachineInv /\ MachineType
  BY DEF Inv, MachineInv
<1>2. Trace(e) /\ Top(c) = "loop" /\ Leave(c)
  BY DEF LoopStop
<1>3. Instead(c, DropLast(g))
  BY <1>1, <1>2, InsteadLeave
<1>4. MachineInv' /\ DropLast(g) \in Seq(Activation)
  BY <1>1, <1>2, <1>3, LeaveMachine
<1>5. e.CPU = c /\ e.EventType = "LOOPSTOP" /\ e.Service = "" /\ e.Location = ""
  BY DEF Line
<1> HIDE DEF e
<1>6. /\ recording' = recording
      /\ limbo' = limbo
      /\ limbo[c] => state' = state
      /\ ~limbo[c] => state' = handleEvent(s, e)
  BY <1>2, <1>5, TraceCases
<1>7. CASE limbo[c]
  BY <1>3, <1>4, <1>6, <1>7, Unseen DEF Inv
<1>8. CASE ~limbo[c]
  <2>1. state' = handleLOOPSTOP(s, e)
    BY <1>5, <1>6, <1>8, EventFacts
  <2>2. /\ IsState(s) /\ s.panic = "none" /\ s.stored = <<>> /\ Cur(s, c) = l /\ l \in s.LEUs
        /\ stack \in Seq(Element)
    BY <1>8, LiveFacts
  <2>3. Stack(s, e) = stack
    BY <1>5, <2>2 DEF Stack, StackOf, Cur, GetCurrentLEU
  <2>4. CASE stack = <<>>
    <3>1. state' = MakeMap(s, e)
      BY <2>1, <2>3, <2>4 DEF handleLOOPSTOP
    <3>2. AnalyserInv'
      BY <1>3, <1>4, <1>5, <1>6, <1>8, <2>4, <3>1, SeenNothing
    <3> QED BY <1>4, <3>2 DEF Inv
  <2>5. CASE stack # <<>>
    <3>1. LastOf(stack).Name \in Loops
      BY <1>2, <1>8, <2>5, LoopTop
    <3>2. Kept(e) \in Entry
      BY <1>5, KeptFacts
    <3>3. stack = StackOf(s, e.CPU, Cur(s, e.CPU)) /\ Cur(s, e.CPU) \in s.LEUs
      BY <1>5, <2>2
    <3>4. Handled(s, handleLOOPSTOP(s, e), e.CPU, Cur(s, e.CPU), Pushed(DropLast(stack), Kept(e)))
      <4> HIDE DEF s, stack
      <4> QED BY <2>2, <2>5, <3>1, <3>2, <3>3, StopFacts
    <3>5. Handled(s, state', c, l, Pushed(DropLast(stack), Kept(e)))
      BY <1>5, <2>1, <2>2, <3>4
    <3>6. AnalyserInv'
      BY <1>2, <1>3, <1>6, <1>8, <2>5, <3>2, <3>5, SeenLeave
    <3> QED BY <1>4, <3>6 DEF Inv
  <2> QED BY <2>4, <2>5
<1> QED BY <1>7, <1>8
-----------------------------------------------------------------------------
(* The analyser keeps its invariant: steps after which another LEU runs    *)

LEMMA InnermostNone ==
  ASSUME NEW stack \in Seq(Element), Innermost(stack, <<>>)
  PROVE  stack = <<>>
<1>1. Len(stack) <= 0 /\ Len(stack) \in Nat
  BY DEF Innermost
<1>2. Len(stack) = 0
  BY <1>1
<1> QED BY <1>2, EmptySeq

LEMMA InnermostNames ==
  ASSUME NEW stack \in Seq(Element), NEW f \in Seq(Activation), NEW g \in Seq(Activation),
         Innermost(stack, f), Len(g) = Len(f), \A k \in 1..Len(f) : g[k].name = f[k].name
  PROVE  Innermost(stack, g)
<1> DEFINE n == Len(stack)
           m == Len(f)
<1>1. n \in Nat /\ m \in Nat /\ n <= m
  BY DEF Innermost
<1> HIDE DEF n, m
<1>2. ASSUME NEW k \in 1..n
      PROVE  stack[k].Name = g[m - n + k].name
  <2>1. m - n + k \in 1..m
    BY <1>1
  <2>2. stack[k].Name = f[m - n + k].name
    BY DEF Innermost, n, m
  <2>3. g[m - n + k].name = f[m - n + k].name
    BY <2>1 DEF m
  <2> QED BY <2>2, <2>3
<1>3. Len(g) = m
  BY DEF m
<1> QED BY <1>1, <1>2, <1>3 DEF Innermost, n

\* A step on a CPU in limbo that the analyser does not see; L are the LEUs
\* whose activations change.
LEMMA Hidden ==
  ASSUME Followed, Inv, NEW c \in CPUs, limbo[c], UNCHANGED <<recording, limbo, state, home>>,
         \A d \in CPUs : d # c => running'[d] = running[d] /\ hirq'[d] = hirq[d],
         NEW L, \A m \in LEU : m \notin L => frames'[m] = frames[m],
         \A d \in CPUs, m \in L : StackOf(state, d, m) = <<>>,
         \A d \in CPUs : d # c /\ hirq[d] # NoIRQ => HIRQ(hirq[d]) \notin L,
         MachineType'
  PROVE  AnalyserInv'
<1>1. MachineInv /\ MachineType /\ AnalyserInv
  BY DEF Inv, MachineInv
<1>2. recording' = recording /\ limbo' = limbo /\ state' = state /\ home' = home
  OBVIOUS
<1>3. AnalyserType' /\ Limbo' /\ Owners' /\ StoredWhole' /\ Alive'
  BY <1>1, <1>2 DEF AnalyserInv, AnalyserType, Limbo, Owners, StoredWhole, Whole, Alive
<1>4. Follows'
  <2> SUFFICES ASSUME NEW d \in CPUs, ~limbo[d]
               PROVE  /\ Mapped(state, d)
                      /\ Cur(state, d) = Current(d)'
                      /\ Thread(running'[d]) \in state.LEUs
                      /\ Current(d)' \in state.LEUs
                      /\ hirq'[d] # NoIRQ =>
                           /\ state.Interrupted # <<>>
                           /\ LastOf(state.Interrupted) = Thread(running'[d])
                           /\ Len(StackOf(state, d, HIRQ(hirq'[d]))) = Len(frames'[HIRQ(hirq'[d])])
    BY <1>2 DEF Follows
  <2>1. running'[d] = running[d] /\ hirq'[d] = hirq[d]
    OBVIOUS
  <2>2. Current(d)' = Current(d)
    BY <2>1 DEF Current
  <2>3. hirq[d] # NoIRQ => frames'[HIRQ(hirq[d])] = frames[HIRQ(hirq[d])]
    <3>1. hirq[d] # NoIRQ => HIRQ(hirq[d]) \in LEU
      BY <1>1, LEUFacts DEF MachineType
    <3> QED BY <3>1
  <2> QED BY <1>1, <2>1, <2>2, <2>3 DEF AnalyserInv, Follows
<1>5. Stacks'
  <2> SUFFICES ASSUME NEW d \in CPUs, NEW m \in LEU
               PROVE  /\ StackOf(state, d, m) \in Seq(Element)
                      /\ Innermost(StackOf(state, d, m), frames'[m])
    BY <1>2 DEF Stacks
  <2>1. CASE m \notin L
    BY <2>1, <1>1 DEF AnalyserInv, Stacks
  <2>2. CASE m \in L
    <3>1. StackOf(state, d, m) = <<>>
      BY <2>2
    <3>2. frames'[m] \in Seq(Activation)
      BY DEF MachineType
    <3>3. Innermost(<<>>, frames'[m])
      BY <3>2, InnermostEmpty
    <3> QED BY <3>1, <3>3, EmptySeq
  <2> QED BY <2>1, <2>2
<1> QED BY <1>3, <1>4, <1>5 DEF AnalyserInv

\* A line after which another LEU runs on c, which keeps the analyser's
\* invariant if c is followed and the stacks are right.
LEMMA SeenMove ==
  ASSUME Followed, Inv, MachineInv', NEW c \in CPUs, recording,
         recording' = recording, limbo' = [limbo EXCEPT ![c] = FALSE], home' = home,
         \A d \in CPUs : d # c => running'[d] = running[d] /\ hirq'[d] = hirq[d],
         \A d \in CPUs : d # c /\ hirq[d] # NoIRQ =>
           /\ state'.Interrupted = state.Interrupted
           /\ frames'[HIRQ(hirq[d])] = frames[HIRQ(hirq[d])],
         IsState(state'), state'.Interrupted \in Seq(LEU), state'.panic = "none",
         Whole(state'.stored), state.LEUs \subseteq state'.LEUs,
         state'.CurrentLEU = Put(state.CurrentLEU, c, Current(c)'),
         Mapped(state', c), \A d : d # c => (Mapped(state', d) <=> Mapped(state, d)),
         Thread(running'[c]) \in state'.LEUs, Current(c)' \in state'.LEUs,
         hirq'[c] # NoIRQ =>
           /\ state'.Interrupted # <<>>
           /\ LastOf(state'.Interrupted) = Thread(running'[c])
           /\ Len(StackOf(state', c, HIRQ(hirq'[c]))) = Len(frames'[HIRQ(hirq'[c])]),
         \A d, m : d # c => StackOf(state', d, m) = StackOf(state, d, m),
         Stacks',
         \A d, m : Has(state', d, m) =>
           \/ Has(state, d, m)
           \/ d = c /\ m \in {NoLEU, Thread(running[c]), Thread(running'[c])}
           \/ d = c /\ c \in IrqCPUs /\ m \in {HIRQ(i) : i \in IRQs}
  PROVE  AnalyserInv'
<1>1. MachineInv /\ MachineType /\ AnalyserInv
  BY DEF Inv, MachineInv
<1>2. limbo \in [CPUs -> BOOLEAN]
  BY <1>1 DEF AnalyserInv, AnalyserType
<1>3. limbo' \in [CPUs -> BOOLEAN] /\ ~limbo'[c] /\ \A d \in CPUs : d # c => limbo'[d] = limbo[d]
  BY <1>2
<1>4. AnalyserType'
  BY <1>1, <1>3 DEF AnalyserInv, AnalyserType
<1>5. /\ \A d : d # c => (d \in DOMAIN state'.CurrentLEU <=> d \in DOMAIN state.CurrentLEU)
      /\ \A d : d # c => Cur(state', d) = Cur(state, d)
      /\ Cur(state', c) = Current(c)'
  BY DEF Cur, Put, Get
<1>6. Limbo'
  BY <1>1, <1>3, <1>5 DEF AnalyserInv, Limbo
<1>7. Follows'
  <2> SUFFICES ASSUME NEW d \in CPUs, ~limbo'[d]
               PROVE  /\ Mapped(state', d)
                      /\ Cur(state', d) = Current(d)'
                      /\ Thread(running'[d]) \in state'.LEUs
                      /\ Current(d)' \in state'.LEUs
                      /\ hirq'[d] # NoIRQ =>
                           /\ state'.Interrupted # <<>>
                           /\ LastOf(state'.Interrupted) = Thread(running'[d])
                           /\ Len(StackOf(state', d, HIRQ(hirq'[d]))) = Len(frames'[HIRQ(hirq'[d])])
    BY DEF Follows
  <2>1. CASE d = c
    BY <2>1, <1>5
  <2>2. CASE d # c
    <3>1. running'[d] = running[d] /\ hirq'[d] = hirq[d] /\ ~limbo[d]
      BY <2>2, <1>3
    <3>2. Current(d)' = Current(d)
      BY <3>1 DEF Current
    <3>3. /\ Mapped(state, d)
          /\ Cur(state, d) = Current(d)
          /\ Thread(running[d]) \in state.LEUs
          /\ Current(d) \in state.LEUs
          /\ hirq[d] # NoIRQ =>
               /\ state.Interrupted # <<>>
               /\ LastOf(state.Interrupted) = Thread(running[d])
               /\ Len(StackOf(state, d, HIRQ(hirq[d]))) = Len(frames[HIRQ(hirq[d])])
      BY <1>1, <3>1 DEF AnalyserInv, Follows
    <3>4. Mapped(state', d) /\ Cur(state', d) = Current(d)'
      BY <2>2, <1>5, <3>2, <3>3
    <3>5. Thread(running'[d]) \in state'.LEUs /\ Current(d)' \in state'.LEUs
      BY <3>1, <3>2, <3>3
    <3>6. ASSUME hirq'[d] # NoIRQ
          PROVE  /\ state'.Interrupted # <<>>
                 /\ LastOf(state'.Interrupted) = Thread(running'[d])
                 /\ Len(StackOf(state', d, HIRQ(hirq'[d]))) = Len(frames'[HIRQ(hirq'[d])])
      BY <2>2, <3>1, <3>3, <3>6
    <3> QED BY <3>4, <3>5, <3>6
  <2> QED BY <2>1, <2>2
<1>8. Owners'
  <2>1. Owners /\ home[running[c]] = c /\ home[running'[c]] = c
    BY <1>1 DEF AnalyserInv, MachineInv, Homes
  <2>2. \A t : Thread(t) # NoLEU
    <3>1. \A t : Thread(t).Name = "Thread" /\ NoLEU.Name = ""
      BY DEF Thread, NoLEU
    <3> QED BY <3>1
  <2>3. ASSUME NEW d, NEW t \in Threads, Has(state', d, Thread(t))
        PROVE  d = home[t]
    <3>1. CASE Has(state, d, Thread(t))
      BY <3>1, <2>1 DEF Owners, Has, Mapped
    <3>2. CASE d = c /\ Thread(t) \in {Thread(running[c]), Thread(running'[c])}
      BY <3>2, <2>1, LEUFacts
    <3> QED BY <2>2, <2>3, <3>1, <3>2, LEUFacts
  <2>4. ASSUME NEW d, NEW i \in IRQs, Has(state', d, HIRQ(i))
        PROVE  d \in IrqCPUs
    <3>1. CASE Has(state, d, HIRQ(i))
      BY <3>1, <2>1 DEF Owners, Has, Mapped
    <3>2. HIRQ(i) # NoLEU
      <4>1. HIRQ(i).Name = "HIRQ" /\ NoLEU.Name = ""
        BY DEF HIRQ, NoLEU
      <4> QED BY <4>1
    <3>3. HIRQ(i) \notin {NoLEU, Thread(running[c]), Thread(running'[c])}
      BY <3>2, LEUFacts
    <3> QED BY <2>4, <3>1, <3>3
  <2> QED BY <2>3, <2>4 DEF Owners
<1>9. StoredWhole' /\ Alive'
  BY DEF StoredWhole, Whole, Alive
<1> QED BY <1>4, <1>6, <1>7, <1>8, <1>9 DEF AnalyserInv
\* Another LEU runs on c from here.
Moves(s, t, c, l, q) ==
  /\ IsState(t)
  /\ t.CurrentLEU = Put(s.CurrentLEU, c, l)
  /\ t.Interrupted = q
  /\ t.ServiceStack = s.ServiceStack
  /\ Same(s, t)

LEMMA MovesFacts ==
  ASSUME NEW s, NEW t, NEW c, NEW l, NEW q, Moves(s, t, c, l, q)
  PROVE  /\ Cur(t, c) = l
         /\ \A d : Mapped(t, d) <=> Mapped(s, d)
         /\ \A d, m : Has(t, d, m) <=> Has(s, d, m)
         /\ \A d, m : StackOf(t, d, m) = StackOf(s, d, m)
<1>1. Cur(t, c) = l
  BY DEF Moves, Cur, Put, Get
<1>2. t.ServiceStack = s.ServiceStack
  BY DEF Moves
<1> QED BY <1>1, <1>2 DEF Mapped, Has, StackOf

LEMMA WithLEU ==
  ASSUME NEW s, IsState(s), NEW c, NEW l, NEW q, NEW t,
         \/ t = [s EXCEPT !.CurrentLEU = Put(s.CurrentLEU, c, l), !.Interrupted = q]
         \/ t = [[s EXCEPT !.Interrupted = q] EXCEPT !.CurrentLEU = Put(s.CurrentLEU, c, l)]
  PROVE  Moves(s, t, c, l, q)
<1> DEFINE leus == Put(s.CurrentLEU, c, l)
<1> HIDE DEF leus
<1>1. /\ t.CurrentLEU = leus
      /\ t.Interrupted = q
      /\ t.ServiceStack = s.ServiceStack
      /\ t.LEUs = s.LEUs /\ t.stored = s.stored /\ t.panic = s.panic
  BY DEF IsState, leus
<1>2. IsState(t)
  BY DEF IsState
<1> QED BY <1>1, <1>2 DEF Moves, Same, leus

LEMMA AppendOne ==
  ASSUME NEW x
  PROVE  Append(<<>>, x) = <<x>>
OBVIOUS

\* t is s after a line of which k is kept, with which c goes from one LEU to
\* another: nothing but the stacks of these, l and h, on c changes.
Turned(s, t, c, l, h, k) ==
  /\ IsState(t)
  /\ Mapped(t, c)
  /\ \A d : d # c => (Mapped(t, d) <=> Mapped(s, d))
  /\ \A d, m : Has(t, d, m) => Has(s, d, m) \/ (d = c /\ m \in {l, h})
  /\ StackOf(t, c, l) = Pushed(StackOf(s, c, l), k)
  /\ \A d, m : d # c \/ m \notin {l, h} => StackOf(t, d, m) = StackOf(s, d, m)

\* HIRQENTRY: the interrupted LEU is noted, and the stack of the interrupt
\* begins.
EntryOf(s, t, c, l, h, k) ==
  /\ Turned(s, t, c, l, h, k)
  /\ t.CurrentLEU = Put(s.CurrentLEU, c, h)
  /\ t.Interrupted = Append(s.Interrupted, l)
  /\ t.LEUs = s.LEUs \cup {h}
  /\ t.stored = s.stored
  /\ t.panic = s.panic
  /\ StackOf(t, c, h) = <<[Name |-> "HIRQ", Entries |-> <<k>>]>>

LEMMA EntryFacts ==
  ASSUME NEW s, IsState(s), NEW e, Kept(e) \in Entry, e.Location = "",
         NEW l, l = Cur(s, e.CPU), NEW h, h = HIRQ(e.Pid1), h # l, StackOf(s, e.CPU, h) = <<>>
  PROVE  EntryOf(s, handleHIRQEntry(s, e), e.CPU, l, h, Kept(e))
<1> DEFINE c == e.CPU
           k == Kept(e)
           s1 == PushService(s, e)
           s2 == [s1 EXCEPT !.Interrupted = Append(@, GetCurrentLEU(s1, e))]
           s3 == [s2 EXCEPT !.CurrentLEU = Put(@, c, h)]
           s4 == MakeLEU(s3, e)
           t == PushNewService(s4, e, "HIRQ")
           x == [Name |-> "HIRQ", Entries |-> <<k>>]
<1>1. handleHIRQEntry(s, e) = t
  BY DEF handleHIRQEntry
<1>2. Only(s, s1, c, l, Pushed(StackOf(s, c, l), k)) /\ Same(s, s1)
  BY PushServiceFacts
<1>3. GetCurrentLEU(s1, e) = l
  BY <1>2 DEF Only, Cur, GetCurrentLEU
<1> HIDE DEF s1
<1>4. Moves(s1, s3, c, h, Append(s.Interrupted, l))
  <2>1. IsState(s1) /\ s1.Interrupted = s.Interrupted
    BY <1>2 DEF Only
  <2> DEFINE q == Append(s.Interrupted, l)
  <2>2. s2 = [s1 EXCEPT !.Interrupted = q]
    BY <1>3, <2>1 DEF IsState
  <2> HIDE DEF q, s2
  <2>3. s2.CurrentLEU = s1.CurrentLEU
    BY <2>1, <2>2 DEF IsState
  <2>4. s3 = [[s1 EXCEPT !.Interrupted = q] EXCEPT !.CurrentLEU = Put(s1.CurrentLEU, c, h)]
    BY <2>2, <2>3
  <2> QED BY <2>1, <2>4, WithLEU DEF q
<1> HIDE DEF s3
<1>5. /\ Cur(s3, c) = h
      /\ \A d : Mapped(s3, d) <=> Mapped(s1, d)
      /\ \A d, m : Has(s3, d, m) <=> Has(s1, d, m)
      /\ \A d, m : StackOf(s3, d, m) = StackOf(s1, d, m)
  BY <1>4, MovesFacts
<1>6. /\ Quiet(s3, s4) /\ s4.LEUs = s3.LEUs \cup {Cur(s3, c)}
      /\ s4.stored = s3.stored /\ s4.panic = s3.panic
  BY <1>4, MakeLEUFacts DEF Moves
<1> HIDE DEF s4
<1>7. /\ \A d : Cur(s4, d) = Cur(s3, d)
      /\ \A d : Mapped(s4, d) <=> Mapped(s3, d)
      /\ \A d, m : Has(s4, d, m) <=> Has(s3, d, m)
      /\ \A d, m : StackOf(s4, d, m) = StackOf(s3, d, m)
  BY <1>6, QuietStacks
<1>8. IsState(s4) /\ Cur(s4, c) = h /\ StackOf(s4, c, h) = <<>>
  <2>1. StackOf(s1, c, h) = <<>>
    BY <1>2 DEF Only
  <2>2. StackOf(s4, c, h) = StackOf(s1, c, h) /\ Cur(s4, c) = h
    BY <1>5, <1>7, Zenon
  <2> QED BY <1>6, <2>1, <2>2 DEF Quiet
<1>9. Only(s4, t, c, h, <<x>>) /\ Same(s4, t)
  <2>1. StackOf(s4, c, Cur(s4, c)) = <<>> /\ <<>> \in Seq(Element)
    BY <1>8, EmptySeq
  <2>2. /\ Only(s4, t, c, Cur(s4, c), Append(Caller(StackOf(s4, c, Cur(s4, c)), e), x))
        /\ Same(s4, t)
    BY <1>8, <2>1, PushNewServiceFacts
  <2>3. Caller(<<>>, e) = <<>>
    BY DEF Caller, Pushed
  <2> HIDE DEF t, x
  <2>4. Append(<<>>, x) = <<x>>
    BY AppendOne
  <2> QED BY <1>8, <2>1, <2>2, <2>3, <2>4
<1> HIDE DEF t, x
<1>10. /\ IsState(t)
       /\ t.CurrentLEU = Put(s.CurrentLEU, c, h)
       /\ t.Interrupted = Append(s.Interrupted, l)
       /\ t.LEUs = s.LEUs \cup {h}
       /\ t.stored = s.stored
       /\ t.panic = s.panic
  BY <1>2, <1>4, <1>5, <1>6, <1>9 DEF Only, Same, Moves, Quiet
<1>11. Mapped(t, c) /\ \A d : d # c => (Mapped(t, d) <=> Mapped(s, d))
  BY <1>2, <1>5, <1>7, <1>9 DEF Only
<1>12. \A d, m : Has(t, d, m) => Has(s, d, m) \/ (d = c /\ m \in {l, h})
  BY <1>2, <1>5, <1>7, <1>9 DEF Only
<1>s. \A d, m : StackOf(s4, d, m) = StackOf(s1, d, m)
  BY <1>5, <1>7
<1>13. StackOf(t, c, l) = Pushed(StackOf(s, c, l), k) /\ StackOf(t, c, h) = <<x>>
  <2>1. StackOf(t, c, h) = <<x>> /\ StackOf(t, c, l) = StackOf(s4, c, l)
    BY <1>9 DEF Only
  <2>2. StackOf(s1, c, l) = Pushed(StackOf(s, c, l), k)
    BY <1>2 DEF Only
  <2> QED BY <1>s, <2>1, <2>2
<1>14. ASSUME NEW d, NEW m, d # c \/ m \notin {l, h}
       PROVE  StackOf(t, d, m) = StackOf(s, d, m)
  <2>1. StackOf(t, d, m) = StackOf(s4, d, m)
    BY <1>9, <1>14 DEF Only
  <2>2. StackOf(s1, d, m) = StackOf(s, d, m)
    BY <1>2, <1>14 DEF Only
  <2> QED BY <1>s, <2>1, <2>2
<1> QED BY <1>1, <1>10, <1>11, <1>12, <1>13, <1>14 DEF EntryOf, Turned, x

\* HIRQEXIT: the interrupt's only element is stored and left, and the
\* interrupted LEU goes on.
ExitOf(s, t, c, l, h, k) ==
  /\ Turned(s, t, c, l, h, k)
  /\ t.CurrentLEU = Put(s.CurrentLEU, c, l)
  /\ t.Interrupted = DropLast(s.Interrupted)
  /\ s.LEUs \subseteq t.LEUs
  /\ Whole(t.stored)
  /\ t.panic = "none"
  /\ StackOf(t, c, h) = <<>>

LEMMA LeaveFacts ==
  ASSUME NEW s, IsState(s), s.panic = "none", NEW e, Kept(e) \in Entry, Kept(e).ev = "HIRQEXIT",
         NEW h, h = Cur(s, e.CPU), NEW stack \in Seq(Element), stack = StackOf(s, e.CPU, h),
         Len(stack) = 1, LastOf(stack).Name = "HIRQ",
         s.Interrupted # <<>>, NEW l, LastOf(s.Interrupted) = l, l # h
  PROVE  ExitOf(s, handleHIRQExit(s, e), e.CPU, l, h, Kept(e))
<1> DEFINE c == e.CPU
           k == Kept(e)
           s1 == handleSRVEXIT(s, e)
           s2 == [s1 EXCEPT !.CurrentLEU = Put(@, c, Resumed(s1, e)), !.Interrupted = DropLast(@)]
           t == PushService(s2, e)
<1>1. stack # <<>> /\ Stack(s, e) = stack
  <2>1. Len(stack) # 0
    OBVIOUS
  <2>2. stack # <<>>
    BY <2>1, EmptySeq
  <2>3. Stack(s, e) = StackOf(s, e.CPU, Cur(s, e.CPU))
    BY DEF Stack, StackOf, Cur, GetCurrentLEU
  <2> QED BY <2>2, <2>3
<1>2. LastOf(stack).Name \notin Loops /\ Ends(k, LastOf(stack).Name)
  BY DEF Loops, Ends
<1>3. Handled(s, s1, c, h, Pushed(DropLast(stack), k))
  BY <1>1, <1>2, ExitFacts
<1>4. DropLast(stack) = <<>>
  <2>1. DropLast(stack) \in Seq(Element) /\ Len(DropLast(stack)) = Len(stack) - 1
    BY <1>1, DropLastFacts
  <2>2. Len(DropLast(stack)) = 0
    BY <2>1
  <2> QED BY <2>1, <2>2, EmptySeq
<1> HIDE DEF s1
<1>5. /\ Only(s, s1, c, h, <<>>)
      /\ s.LEUs \subseteq s1.LEUs /\ s1.panic = "none" /\ Whole(s1.stored)
  BY <1>3, <1>4 DEF Handled, Pushed
<1>6. s1.Interrupted = s.Interrupted /\ Resumed(s1, e) = l
  BY <1>5 DEF Only, Resumed
<1>7. handleHIRQExit(s, e) = t
  BY <1>1, <1>6 DEF handleHIRQExit, s1
<1>8. Moves(s1, s2, c, l, DropLast(s.Interrupted))
  <2>1. IsState(s1) /\ s1.Interrupted = s.Interrupted
    BY <1>5 DEF Only
  <2>2. s2 = [s1 EXCEPT !.CurrentLEU = Put(s1.CurrentLEU, c, l),
                        !.Interrupted = DropLast(s.Interrupted)]
    BY <1>6, <2>1 DEF IsState
  <2> QED BY <2>1, <2>2, WithLEU
<1> HIDE DEF s2
<1>9. /\ Cur(s2, c) = l
      /\ \A d : Mapped(s2, d) <=> Mapped(s1, d)
      /\ \A d, m : Has(s2, d, m) <=> Has(s1, d, m)
      /\ \A d, m : StackOf(s2, d, m) = StackOf(s1, d, m)
  BY <1>8, MovesFacts
<1>10. Only(s2, t, c, l, Pushed(StackOf(s2, c, l), k)) /\ Same(s2, t)
  <2>1. IsState(s2)
    BY <1>8 DEF Moves
  <2>2. Only(s2, t, c, Cur(s2, c), Pushed(StackOf(s2, c, Cur(s2, c)), k)) /\ Same(s2, t)
    BY <2>1, PushServiceFacts
  <2> HIDE DEF t
  <2> QED BY <1>9, <2>2
<1> HIDE DEF t
<1>11. StackOf(s2, c, l) = StackOf(s, c, l)
  BY <1>5, <1>9 DEF Only
<1>12. /\ IsState(t)
       /\ t.CurrentLEU = Put(s.CurrentLEU, c, l)
       /\ t.Interrupted = DropLast(s.Interrupted)
       /\ s.LEUs \subseteq t.LEUs
       /\ Whole(t.stored)
       /\ t.panic = "none"
  BY <1>5, <1>8, <1>10 DEF Only, Same, Moves
<1>13. Mapped(t, c) /\ \A d : d # c => (Mapped(t, d) <=> Mapped(s, d))
  BY <1>5, <1>9, <1>10 DEF Only
<1>14. \A d, m : Has(t, d, m) => Has(s, d, m) \/ (d = c /\ m \in {l, h})
  BY <1>5, <1>9, <1>10 DEF Only
<1>15. StackOf(t, c, l) = Pushed(StackOf(s, c, l), k) /\ StackOf(t, c, h) = <<>>
  BY <1>5, <1>9, <1>10, <1>11 DEF Only
<1>16. \A d, m : d # c \/ m \notin {l, h} => StackOf(t, d, m) = StackOf(s, d, m)
  BY <1>5, <1>9, <1>10 DEF Only
<1> QED BY <1>7, <1>12, <1>13, <1>14, <1>15, <1>16 DEF ExitOf, Turned
\* Handlers run on one CPU: no other CPU serves an interrupt.
LEMMA Alone ==
  ASSUME Followed, MachineInv, NEW c \in IrqCPUs, NEW d \in CPUs, d # c
  PROVE  d \notin IrqCPUs /\ hirq[d] = NoIRQ
BY DEF Followed, MachineInv, Served

LEMMA HandlerStartStep ==
  ASSUME Followed, Inv, NEW c \in CPUs, HandlerStart(c)
  PROVE  Inv'
<1> USE DEF Inv
<1>1. MachineInv /\ MachineType /\ AnalyserInv /\ Top(c) = "handler"
  BY DEF MachineInv, HandlerStart
<1>2. PICK i \in IRQs :
        /\ \A d \in CPUs : hirq[d] # i
        /\ Start(c, i)
        /\ Trace(Line(c, "HIRQENTRY", "", "", i, 0))
  BY DEF HandlerStart, Start
<1> DEFINE e == Line(c, "HIRQENTRY", "", "", i, 0)
           t0 == running[c]
           l == Thread(t0)
           h == HIRQ(i)
           g == Inside(c)
           a == Frame("handled", "handler")
           b == Frame("hirq", "HIRQ")
<1>3. e.CPU = c /\ e.EventType = "HIRQENTRY" /\ e.Service = "" /\ e.Location = "" /\ e.Pid1 = i
  BY DEF Line
<1>4. Trace(e)
  BY <1>2
<1> HIDE DEF e
<1>5. MachineInv' /\ MachineType'
  BY <1>1, <1>2, StartMachine DEF MachineInv
<1>6. hirq[c] = NoIRQ /\ c \in IrqCPUs /\ Current(c) = l /\ t0 \in Threads /\ l \in LEU /\ h \in LEU /\ h # l
  BY <1>1, HandlerTop, CurrentFacts, LEUFacts
<1>7. /\ hirq'[c] = i /\ \A d \in CPUs : d # c => hirq'[d] = hirq[d]
      /\ g # <<>>
      /\ frames'[l] = Replaced(g, a)
      /\ frames'[h] = <<b>>
      /\ \A m \in LEU : m # l /\ m # h => frames'[m] = frames[m]
  BY <1>1, <1>2, StartFrames
<1>8. running' = running /\ home' = home
  BY <1>2 DEF Start
<1>9. /\ recording' = recording /\ limbo' = limbo
      /\ limbo[c] => state' = state
      /\ ~limbo[c] => state' = handleEvent(Clear(state), e)
  BY <1>3, <1>4, TraceCases
<1>10. \A d \in CPUs : d # c => hirq[d] = NoIRQ
  BY <1>1, <1>6, Alone
<1>11. \A d \in CPUs : StackOf(state, d, h) = <<>>
  <2> TAKE d \in CPUs
  <2>1. frames[h] = <<>>
    BY <1>1, <1>2 DEF MachineInv, Served
  <2>2. StackOf(state, d, h) \in Seq(Element) /\ Innermost(StackOf(state, d, h), <<>>)
    BY <1>1, <1>6, <2>1 DEF AnalyserInv, Stacks
  <2> QED BY <2>2, InnermostNone
<1>12. \A d \in CPUs : d # c => StackOf(state, d, l) = <<>>
  BY <1>6, Elsewhere
<1>13. CASE limbo[c]
  <2> DEFINE L == {l, h}
  <2>1. StackOf(state, c, l) = <<>>
    BY <1>1, <1>13, NoStack DEF AnalyserInv, Limbo, Has
  <2>2. \A d \in CPUs, m \in L : StackOf(state, d, m) = <<>>
    BY <1>11, <1>12, <2>1
  <2>3. \A m \in LEU : m \notin L => frames'[m] = frames[m]
    BY <1>7
  <2>4. \A d \in CPUs : d # c => running'[d] = running[d] /\ hirq'[d] = hirq[d]
    BY <1>7, <1>8
  <2> HIDE DEF L
  <2>5. AnalyserInv'
    BY <1>5, <1>8, <1>9, <1>10, <1>13, <2>2, <2>3, <2>4, Hidden
  <2> QED BY <1>5, <2>5
<1>14. CASE ~limbo[c]
  <2> DEFINE s == Clear(state)
             stack == StackOf(s, c, l)
             k == Kept(e)
             x == [Name |-> "HIRQ", Entries |-> <<k>>]
  <2>1. /\ IsState(s) /\ s.panic = "none" /\ s.stored = <<>> /\ Cur(s, c) = l
        /\ stack \in Seq(Element) /\ g \in Seq(Activation) /\ Innermost(stack, g)
    BY <1>6, <1>14, LiveFacts
  <2>2. Quiet(state, s) /\ s.LEUs = state.LEUs
    BY <1>1, ClearFacts DEF AnalyserInv, AnalyserType
  <2>3. /\ \A d : Mapped(s, d) <=> Mapped(state, d)
        /\ \A d, m : Has(s, d, m) <=> Has(state, d, m)
        /\ \A d, m : StackOf(s, d, m) = StackOf(state, d, m)
        /\ s.CurrentLEU = state.CurrentLEU /\ s.Interrupted = state.Interrupted
    BY <2>2, QuietStacks DEF Quiet
  <2>4. k \in Entry /\ k.ev = "HIRQENTRY"
    BY <1>3, KeptFacts
  <2>5. state' = handleHIRQEntry(s, e)
    BY <1>3, <1>9, <1>14, EventFacts
  <2> HIDE DEF s
  <2>6. /\ IsState(state')
        /\ state'.CurrentLEU = Put(s.CurrentLEU, c, h)
        /\ state'.Interrupted = Append(s.Interrupted, l)
        /\ state'.LEUs = s.LEUs \cup {h}
        /\ state'.stored = s.stored
        /\ state'.panic = s.panic
        /\ Mapped(state', c)
        /\ \A d : d # c => (Mapped(state', d) <=> Mapped(s, d))
        /\ \A d, m : Has(state', d, m) => Has(s, d, m) \/ (d = c /\ m \in {l, h})
        /\ StackOf(state', c, l) = Pushed(StackOf(s, c, l), k)
        /\ StackOf(state', c, h) = <<x>>
        /\ \A d, m : d # c \/ m \notin {l, h} => StackOf(state', d, m) = StackOf(s, d, m)
    <3>1. StackOf(s, e.CPU, h) = <<>> /\ l = Cur(s, e.CPU) /\ h = HIRQ(e.Pid1) /\ h # l
      BY <1>3, <1>6, <1>11, <2>1, <2>3
    <3>2. IsState(s) /\ Kept(e) \in Entry /\ e.Location = ""
      BY <1>3, <2>1, <2>4
    <3> HIDE DEF Inv, l, h
    <3>3. EntryOf(s, handleHIRQEntry(s, e), e.CPU, l, h, Kept(e))
      BY <3>1, <3>2, EntryFacts
    <3>4. EntryOf(s, state', c, l, h, k)
      BY <1>3, <2>5, <3>3
    <3> QED BY <3>4 DEF EntryOf, Turned
  <2>7. x \in Element /\ x.Name = "HIRQ"
    <3>1. "HIRQ" \in Names /\ "HIRQ" \notin Loops
      BY DEF Names, Loops
    <3>2. Opens(k, "HIRQ")
      BY <2>4, <3>1 DEF Opens, Begins
    <3> QED BY <2>4, <3>1, <3>2, NewElement
  <2>8. Current(c)' = h
    BY <1>2, <1>7, LEUFacts DEF Current
  <2>9. <<x>> \in Seq(Element) /\ Innermost(<<x>>, <<b>>)
    <3>1. b \in Activation /\ b.name = "HIRQ"
      BY ActivationFacts
    <3> HIDE DEF x, b
    <3>2. <<>> \in Seq(Element) /\ <<>> \in Seq(Activation) /\ Innermost(<<>>, <<>>)
      BY EmptySeq, InnermostEmpty
    <3>3. Innermost(Append(<<>>, x), Append(<<>>, b))
      BY <2>7, <3>1, <3>2, InnermostAppend
    <3>4. <<x>> \in Seq(Element)
      BY <2>7
    <3> QED BY <3>3, <3>4, AppendOne
  <2> HIDE DEF x, stack
  <2>10. Pushed(stack, k) \in Seq(Element) /\ Innermost(Pushed(stack, k), Replaced(g, a))
    <3> HIDE DEF g
    <3>1. a \in Activation /\ a.name = "handler" /\ LastOf(g).name = "handler"
      <4>1. LastOf(g) \in Activation /\ LastOf(g).kind = "handler"
        BY <1>1, TopFacts DEF g
      <4> QED BY <4>1, ActivationFacts
    <3>2. /\ Pushed(stack, k) \in Seq(Element) /\ Len(Pushed(stack, k)) = Len(stack)
          /\ \A j \in 1..Len(stack) : Pushed(stack, k)[j].Name = stack[j].Name
      BY <2>1, <2>4, PushedFacts
    <3>3. Innermost(Pushed(stack, k), g)
      BY <2>1, <3>2, InnermostReplaced
    <3> HIDE DEF a
    <3>4. /\ Replaced(g, a) \in Seq(Activation) /\ Len(Replaced(g, a)) = Len(g)
          /\ LastOf(Replaced(g, a)) = a
          /\ \A j \in 1..Len(g) : j # Len(g) => Replaced(g, a)[j] = g[j]
      BY <1>7, <2>1, <3>1, ReplacedFacts DEF g
    <3> DEFINE r == Replaced(g, a)
    <3> HIDE DEF r
    <3>5. \A j \in 1..Len(g) : r[j].name = g[j].name
      BY <3>1, <3>4 DEF LastOf, r
    <3> QED BY <2>1, <3>2, <3>3, <3>4, <3>5, InnermostNames DEF r
  <2>11. Stacks'
    <3> SUFFICES ASSUME NEW d \in CPUs, NEW m \in LEU
                 PROVE  /\ StackOf(state', d, m) \in Seq(Element)
                        /\ Innermost(StackOf(state', d, m), frames'[m])
      BY DEF Stacks
    <3>1. CASE d = c /\ m = l
      BY <3>1, <1>7, <2>6, <2>10 DEF stack
    <3>2. CASE d = c /\ m = h
      BY <3>2, <1>7, <2>6, <2>9
    <3>3. CASE d # c /\ m \in {l, h}
      <4>1. StackOf(state', d, m) = <<>>
        BY <3>3, <1>11, <1>12, <2>3, <2>6
      <4>2. frames'[m] \in Seq(Activation)
        BY <1>5 DEF MachineType
      <4> QED BY <4>1, <4>2, InnermostEmpty, EmptySeq
    <3>4. CASE m \notin {l, h}
      BY <3>4, <1>1, <1>7, <2>3, <2>6 DEF AnalyserInv, Stacks
    <3> QED BY <3>1, <3>2, <3>3, <3>4
  <2>12. /\ state'.Interrupted \in Seq(LEU) /\ state'.Interrupted # <<>>
         /\ LastOf(state'.Interrupted) = l
    <3>1. s.Interrupted \in Seq(LEU)
      BY <1>1, <2>3 DEF AnalyserInv, AnalyserType
    <3> HIDE DEF l
    <3> QED BY <1>6, <2>6, <3>1, AppendFacts
  <2>13. Len(StackOf(state', c, h)) = Len(frames'[h])
    <3>1. Len(<<x>>) = 1 /\ Len(<<b>>) = 1
      OBVIOUS
    <3> QED BY <1>7, <2>6, <3>1
  <2>14. recording /\ limbo' = [limbo EXCEPT ![c] = FALSE] /\ l \in state.LEUs
    BY <1>1, <1>9, <1>14 DEF AnalyserInv, AnalyserType, Limbo, Follows
  <2>15. Whole(state'.stored) /\ state'.panic = "none"
    BY <2>1, <2>6, WholeNone
  <2>16. \A d, m : Has(state', d, m) =>
           \/ Has(state, d, m)
           \/ d = c /\ m \in {NoLEU, Thread(running[c]), Thread(running'[c])}
           \/ d = c /\ c \in IrqCPUs /\ m \in {HIRQ(j) : j \in IRQs}
    BY <1>6, <2>3, <2>6
  <2>17. \A d, m : d # c => StackOf(state', d, m) = StackOf(state, d, m)
    BY <2>3, <2>6
  <2>18. /\ hirq'[c] = i /\ Thread(running'[c]) = l /\ HIRQ(hirq'[c]) = h
         /\ l \in state'.LEUs /\ h \in state'.LEUs
         /\ \A d : d # c => (Mapped(state', d) <=> Mapped(state, d))
         /\ state'.CurrentLEU = Put(state.CurrentLEU, c, Current(c)')
         /\ state.LEUs \subseteq state'.LEUs
    BY <1>7, <1>8, <2>2, <2>3, <2>6, <2>8, <2>14
  <2>19. AnalyserInv'
    <3> HIDE DEF Inv, h, l
    <3>1. Inv
      BY DEF Inv
    <3> QED BY <3>1, <1>5, <1>7, <1>8, <1>9, <1>10, <2>6, <2>8, <2>11, <2>12, <2>13, <2>14, <2>15,
            <2>16, <2>17, <2>18, SeenMove
  <2> QED BY <1>5, <2>19
<1> QED BY <1>13, <1>14
LEMMA HandlerStopStep ==
  ASSUME Followed, Inv, NEW c \in CPUs, HandlerStop(c)
  PROVE  Inv'
<1> DEFINE i == hirq[c]
           e == Line(c, "HIRQEXIT", "", "", i, 0)
           t0 == running[c]
           l == Thread(t0)
           h == HIRQ(i)
<1>1. MachineInv /\ MachineType /\ AnalyserInv /\ Top(c) = "hirq" /\ Stop(c) /\ Trace(e)
  BY DEF Inv, MachineInv, HandlerStop, Stop
<1>2. e.CPU = c /\ e.EventType = "HIRQEXIT" /\ e.Service = "" /\ e.Location = ""
  BY DEF Line
<1> HIDE DEF e
<1>3. /\ i \in IRQs /\ i # NoIRQ /\ c \in IrqCPUs /\ Current(c) = h /\ Len(Inside(c)) = 1
      /\ t0 \in Threads /\ l \in LEU /\ h \in LEU /\ h # l
  BY <1>1, HirqTop, CurrentFacts, LEUFacts
<1>4. /\ MachineInv' /\ MachineType'
      /\ hirq'[c] = NoIRQ /\ \A d \in CPUs : d # c => hirq'[d] = hirq[d]
      /\ frames'[h] = <<>>
      /\ \A m \in LEU : m # h => frames'[m] = frames[m]
  BY <1>1, StopMachine DEF MachineInv
<1>5. running' = running /\ home' = home
  BY <1>1 DEF Stop
<1>6. /\ recording' = recording /\ limbo' = limbo
      /\ limbo[c] => state' = state
      /\ ~limbo[c] => state' = handleEvent(Clear(state), e)
  BY <1>1, <1>2, TraceCases
<1>7. \A d \in CPUs : d # c => hirq[d] = NoIRQ
  BY <1>1, <1>3, Alone
<1>8. \A d \in CPUs : d # c => StackOf(state, d, h) = <<>>
  BY <1>3, Elsewhere
<1>9. CASE limbo[c]
  <2> DEFINE L == {h}
  <2>1. StackOf(state, c, h) = <<>>
    BY <1>1, <1>9, NoStack DEF AnalyserInv, Limbo, Has
  <2>2. \A d \in CPUs, m \in L : StackOf(state, d, m) = <<>>
    BY <1>8, <2>1
  <2>3. \A m \in LEU : m \notin L => frames'[m] = frames[m]
    BY <1>4
  <2>4. \A d \in CPUs : d # c => running'[d] = running[d] /\ hirq'[d] = hirq[d]
    BY <1>4, <1>5
  <2> HIDE DEF L
  <2>5. AnalyserInv'
    BY <1>4, <1>5, <1>6, <1>7, <1>9, <2>2, <2>3, <2>4, Hidden
  <2> QED BY <1>4, <2>5 DEF Inv
<1>10. CASE ~limbo[c]
  <2> DEFINE s == Clear(state)
             stack == StackOf(s, c, h)
             k == Kept(e)
  <2>1. /\ IsState(s) /\ s.panic = "none" /\ Cur(s, c) = h
        /\ stack \in Seq(Element) /\ Inside(c) \in Seq(Activation) /\ Innermost(stack, Inside(c))
        /\ Len(stack) = 1 /\ stack # <<>>
    BY <1>3, <1>10, LiveFacts
  <2>2. Quiet(state, s) /\ s.LEUs = state.LEUs
    BY <1>1, ClearFacts DEF AnalyserInv, AnalyserType
  <2>3. /\ \A d : Mapped(s, d) <=> Mapped(state, d)
        /\ \A d, m : Has(s, d, m) <=> Has(state, d, m)
        /\ \A d, m : StackOf(s, d, m) = StackOf(state, d, m)
        /\ s.CurrentLEU = state.CurrentLEU /\ s.Interrupted = state.Interrupted
    BY <2>2, QuietStacks DEF Quiet
  <2>4. k \in Entry /\ k.ev = "HIRQEXIT"
    BY <1>2, KeptFacts
  <2>5. state' = handleHIRQExit(s, e)
    BY <1>2, <1>6, <1>10, EventFacts
  <2>6. /\ s.Interrupted # <<>> /\ LastOf(s.Interrupted) = l /\ s.Interrupted \in Seq(LEU)
        /\ l \in s.LEUs
    BY <1>1, <1>3, <1>10, <2>2, <2>3 DEF AnalyserInv, AnalyserType, Follows
  <2>7. LastOf(stack).Name = "HIRQ"
    <3> DEFINE g == Inside(c)
    <3>1. LastOf(g) \in Activation /\ LastOf(g).kind = "hirq"
      BY <1>1, TopFacts
    <3>2. LastOf(g).name = "HIRQ"
      BY <3>1, ActivationFacts
    <3> HIDE DEF s, stack, g
    <3>3. LastOf(stack).Name = LastOf(g).name
      BY <2>1, InnermostDrop DEF g
    <3> QED BY <3>2, <3>3
  <2> HIDE DEF s
  <2>8. ExitOf(s, state', c, l, h, k)
    <3>1. h = Cur(s, e.CPU) /\ stack = StackOf(s, e.CPU, h)
      BY <1>2, <2>1
    <3> HIDE DEF l, h, stack
    <3>2. ExitOf(s, handleHIRQExit(s, e), e.CPU, l, h, Kept(e))
      BY <1>3, <2>1, <2>4, <2>6, <2>7, <3>1, LeaveFacts
    <3> QED BY <1>2, <2>5, <3>2
  <2>9. Turned(s, state', c, l, h, k) /\ StackOf(state', c, h) = <<>>
    BY <2>8 DEF ExitOf
  <2>10. Current(c)' = l
    BY <1>4, <1>5 DEF Current
  <2>11. StackOf(state', c, l) \in Seq(Element) /\ Innermost(StackOf(state', c, l), frames'[l])
    <3> DEFINE old == StackOf(s, c, l)
               f == frames[l]
    <3>1. old \in Seq(Element) /\ Innermost(old, f) /\ f \in Seq(Activation)
      BY <1>1, <1>3, <2>3 DEF AnalyserInv, Stacks, MachineType
    <3>2. frames'[l] = f /\ StackOf(state', c, l) = Pushed(old, k)
      BY <1>3, <1>4, <2>9 DEF Turned
    <3> HIDE DEF old, f
    <3>3. /\ Pushed(old, k) \in Seq(Element) /\ Len(Pushed(old, k)) = Len(old)
          /\ \A j \in 1..Len(old) : Pushed(old, k)[j].Name = old[j].Name
      BY <2>4, <3>1, PushedFacts
    <3>4. Innermost(Pushed(old, k), f)
      BY <3>1, <3>3, InnermostReplaced
    <3> QED BY <3>2, <3>3, <3>4
  <2>12. Stacks'
    <3> SUFFICES ASSUME NEW d \in CPUs, NEW m \in LEU
                 PROVE  /\ StackOf(state', d, m) \in Seq(Element)
                        /\ Innermost(StackOf(state', d, m), frames'[m])
      BY DEF Stacks
    <3>1. CASE d = c /\ m = l
      BY <3>1, <2>11
    <3>2. CASE m = h
      <4>1. StackOf(state', d, m) = <<>>
        BY <3>2, <1>8, <2>3, <2>9 DEF Turned
      <4>2. <<>> \in Seq(Activation)
        BY EmptySeq
      <4> QED BY <1>4, <3>2, <4>1, <4>2, InnermostEmpty, EmptySeq
    <3>3. CASE m # h /\ ~(d = c /\ m = l)
      <4>1. StackOf(state', d, m) = StackOf(state, d, m)
        BY <3>3, <2>3, <2>9 DEF Turned
      <4> QED BY <3>3, <4>1, <1>1, <1>4 DEF AnalyserInv, Stacks
    <3> QED BY <3>1, <3>2, <3>3
  <2>13. state'.Interrupted \in Seq(LEU)
    <3>1. state'.Interrupted = DropLast(s.Interrupted)
      BY <2>8 DEF ExitOf
    <3> QED BY <2>6, <3>1, DropLastFacts
  <2>14. recording /\ limbo' = [limbo EXCEPT ![c] = FALSE]
    BY <1>1, <1>6, <1>10 DEF AnalyserInv, AnalyserType, Limbo
  <2>15. \A d, m : Has(state', d, m) =>
           \/ Has(state, d, m)
           \/ d = c /\ m \in {NoLEU, Thread(running[c]), Thread(running'[c])}
           \/ d = c /\ c \in IrqCPUs /\ m \in {HIRQ(j) : j \in IRQs}
    BY <1>3, <2>3, <2>9 DEF Turned
  <2>16. \A d, m : d # c => StackOf(state', d, m) = StackOf(state, d, m)
    BY <2>3, <2>9 DEF Turned
  <2>17. /\ IsState(state') /\ Whole(state'.stored) /\ state'.panic = "none"
         /\ state'.CurrentLEU = Put(state.CurrentLEU, c, Current(c)')
         /\ state.LEUs \subseteq state'.LEUs
         /\ Thread(running'[c]) \in state'.LEUs /\ Current(c)' \in state'.LEUs
    BY <1>5, <2>2, <2>3, <2>6, <2>8, <2>9, <2>10 DEF ExitOf, Turned
  <2>18. Mapped(state', c) /\ \A d : d # c => (Mapped(state', d) <=> Mapped(state, d))
    BY <2>3, <2>9 DEF Turned
  <2>19. AnalyserInv'
    <3> HIDE DEF h, l
    <3> QED BY <1>4, <1>5, <1>6, <1>7, <2>12, <2>13, <2>14, <2>15, <2>16, <2>17, <2>18, SeenMove
  <2> QED BY <1>4, <2>19 DEF Inv
<1> QED BY <1>9, <1>10
\* CTXSW: the line is added to the thread that leaves and to the one that comes.
SwitchOf(s, t, c, l, h, k) ==
  /\ Turned(s, t, c, l, h, k)
  /\ t.CurrentLEU = Put(s.CurrentLEU, c, h)
  /\ t.Interrupted = s.Interrupted
  /\ t.LEUs = s.LEUs \cup {h}
  /\ t.stored = s.stored
  /\ t.panic = s.panic
  /\ StackOf(t, c, h) = Pushed(StackOf(s, c, h), k)

LEMMA SwitchFacts ==
  ASSUME NEW s, IsState(s), NEW e, NEW l, l = Cur(s, e.CPU), NEW h, h = Thread(e.Pid2), h # l
  PROVE  SwitchOf(s, handleCTXSW(s, e), e.CPU, l, h, Kept(e))
<1> DEFINE c == e.CPU
           k == Kept(e)
           s1 == PushService(s, e)
           s2 == [s1 EXCEPT !.CurrentLEU = Put(@, c, h)]
           s3 == PushService(s2, e)
           t == MakeLEU(s3, e)
<1>1. handleCTXSW(s, e) = t
  BY DEF handleCTXSW
<1>2. Only(s, s1, c, l, Pushed(StackOf(s, c, l), k)) /\ Same(s, s1)
  BY PushServiceFacts
<1> HIDE DEF s1
<1>3. Moves(s1, s2, c, h, s.Interrupted)
  <2>1. IsState(s1) /\ s1.Interrupted = s.Interrupted
    BY <1>2 DEF Only
  <2> DEFINE leus == Put(s1.CurrentLEU, c, h)
  <2> HIDE DEF leus
  <2>2. s2 = [s1 EXCEPT !.CurrentLEU = leus]
    BY <2>1 DEF IsState, leus
  <2> HIDE DEF s2
  <2>3. /\ s2.CurrentLEU = leus
        /\ s2.Interrupted = s1.Interrupted
        /\ s2.ServiceStack = s1.ServiceStack
        /\ s2.LEUs = s1.LEUs /\ s2.stored = s1.stored /\ s2.panic = s1.panic
    BY <2>1, <2>2 DEF IsState
  <2>4. IsState(s2)
    BY <2>1, <2>2 DEF IsState
  <2> QED BY <2>1, <2>3, <2>4 DEF Moves, Same, leus
<1> HIDE DEF s2
<1>4. /\ Cur(s2, c) = h
      /\ \A d : Mapped(s2, d) <=> Mapped(s1, d)
      /\ \A d, m : Has(s2, d, m) <=> Has(s1, d, m)
      /\ \A d, m : StackOf(s2, d, m) = StackOf(s1, d, m)
  BY <1>3, MovesFacts
<1>5. Only(s2, s3, c, h, Pushed(StackOf(s2, c, h), k)) /\ Same(s2, s3)
  <2>1. IsState(s2)
    BY <1>3 DEF Moves
  <2>2. Only(s2, s3, c, Cur(s2, c), Pushed(StackOf(s2, c, Cur(s2, c)), k)) /\ Same(s2, s3)
    BY <2>1, PushServiceFacts
  <2> HIDE DEF s3
  <2> QED BY <1>4, <2>2
<1> HIDE DEF s3
<1>6. IsState(s3) /\ Cur(s3, c) = h
  BY <1>4, <1>5 DEF Only, Cur
<1>7. /\ Quiet(s3, t) /\ t.LEUs = s3.LEUs \cup {h}
      /\ t.stored = s3.stored /\ t.panic = s3.panic
  <2>1. /\ Quiet(s3, t) /\ t.LEUs = s3.LEUs \cup {Cur(s3, c)}
        /\ t.stored = s3.stored /\ t.panic = s3.panic
    BY <1>6, MakeLEUFacts
  <2> HIDE DEF t
  <2> QED BY <1>6, <2>1
<1> HIDE DEF t
<1>8. /\ \A d : Mapped(t, d) <=> Mapped(s3, d)
      /\ \A d, m : Has(t, d, m) <=> Has(s3, d, m)
      /\ \A d, m : StackOf(t, d, m) = StackOf(s3, d, m)
  BY <1>7, QuietStacks
<1>9. /\ IsState(t)
      /\ t.CurrentLEU = Put(s.CurrentLEU, c, h)
      /\ t.Interrupted = s.Interrupted
      /\ t.LEUs = s.LEUs \cup {h}
      /\ t.stored = s.stored
      /\ t.panic = s.panic
  BY <1>2, <1>3, <1>5, <1>7 DEF Only, Same, Moves, Quiet
<1>10. Mapped(t, c) /\ \A d : d # c => (Mapped(t, d) <=> Mapped(s, d))
  BY <1>2, <1>4, <1>5, <1>8 DEF Only
<1>11. \A d, m : Has(t, d, m) => Has(s, d, m) \/ (d = c /\ m \in {l, h})
  BY <1>2, <1>4, <1>5, <1>8 DEF Only
<1>12. StackOf(t, c, h) = Pushed(StackOf(s, c, h), k)
  <2>1. StackOf(s2, c, h) = StackOf(s, c, h)
    BY <1>2, <1>4 DEF Only
  <2> QED BY <1>5, <1>8, <2>1 DEF Only
<1>13. StackOf(t, c, l) = Pushed(StackOf(s, c, l), k)
  <2>1. StackOf(s3, c, l) = StackOf(s2, c, l)
    BY <1>5 DEF Only
  <2>2. StackOf(s1, c, l) = Pushed(StackOf(s, c, l), k)
    BY <1>2 DEF Only
  <2> QED BY <1>4, <1>8, <2>1, <2>2
<1>14. ASSUME NEW d, NEW m, d # c \/ m \notin {l, h}
       PROVE  StackOf(t, d, m) = StackOf(s, d, m)
  <2>1. StackOf(s3, d, m) = StackOf(s2, d, m)
    BY <1>5, <1>14 DEF Only
  <2>2. StackOf(s1, d, m) = StackOf(s, d, m)
    BY <1>2, <1>14 DEF Only
  <2> QED BY <1>4, <1>8, <2>1, <2>2
<1> QED BY <1>1, <1>9, <1>10, <1>11, <1>12, <1>13, <1>14 DEF SwitchOf, Turned

LEMMA SwitchStep ==
  ASSUME Followed, Inv, NEW c \in CPUs, Switch(c)
  PROVE  Inv'
<1>1. MachineInv /\ MachineType /\ AnalyserInv
  BY DEF Inv, MachineInv
<1>2. PICK t \in Threads :
        /\ home[t] = c
        /\ t # running[c]
        /\ running' = [running EXCEPT ![c] = t]
        /\ Trace(Line(c, "CTXSW", "", "", running[c], t))
  BY DEF Switch
<1> DEFINE e == Line(c, "CTXSW", "", "", running[c], t)
           h == Thread(t)
           k == Kept(e)
<1>3. e.CPU = c /\ e.EventType = "CTXSW" /\ e.Service = "" /\ e.Location = "" /\ e.Pid2 = t
  BY DEF Line
<1>4. Trace(e)
  BY <1>2
<1> HIDE DEF e
<1>5. hirq[c] = NoIRQ /\ hirq' = hirq /\ home' = home /\ frames' = frames
  BY DEF Switch
<1>6. MachineInv' /\ MachineType'
  BY <1>1, <1>2, SwitchMachine DEF Switch, MachineInv
<1>7. running'[c] = t /\ \A d \in CPUs : d # c => running'[d] = running[d]
  BY <1>1, <1>2 DEF MachineType
<1>8. /\ limbo \in [CPUs -> BOOLEAN] /\ IsState(state) /\ state.panic = "none" /\ recording \in BOOLEAN
      /\ state.Interrupted \in Seq(LEU)
  BY <1>1 DEF AnalyserInv, AnalyserType, Alive
<1>9. CASE ~recording
  <2>1. recording' = recording /\ limbo' = limbo /\ state' = state
    BY <1>4, <1>9 DEF Trace
  <2>2. limbo[c]
    BY <1>1, <1>9 DEF AnalyserInv, Limbo
  <2>3. AnalyserInv'
    <3> DEFINE L == {}
    <3>1. /\ \A m \in LEU : m \notin L => frames'[m] = frames[m]
          /\ \A d \in CPUs, m \in L : StackOf(state, d, m) = <<>>
          /\ \A d \in CPUs : d # c /\ hirq[d] # NoIRQ => HIRQ(hirq[d]) \notin L
      BY <1>5
    <3> HIDE DEF L
    <3> QED BY <1>5, <1>6, <1>7, <2>1, <2>2, <3>1, Hidden
  <2> QED BY <1>6, <2>3 DEF Inv
<1>10. CASE recording
  <2> DEFINE s == Clear(state)
             l == Cur(s, c)
  <2>1. Quiet(state, s) /\ s.LEUs = state.LEUs /\ s.stored = <<>> /\ s.panic = state.panic
    BY <1>8, ClearFacts
  <2>2. /\ \A d : Cur(s, d) = Cur(state, d)
        /\ \A d : Mapped(s, d) <=> Mapped(state, d)
        /\ \A d, m : Has(s, d, m) <=> Has(state, d, m)
        /\ \A d, m : StackOf(s, d, m) = StackOf(state, d, m)
        /\ s.CurrentLEU = state.CurrentLEU /\ s.Interrupted = state.Interrupted /\ IsState(s)
    BY <2>1, QuietStacks DEF Quiet
  <2>3. recording' = recording /\ limbo' = [limbo EXCEPT ![c] = FALSE] /\ state' = handleCTXSW(s, e)
    <3>1. /\ recording' = recording /\ limbo' = [limbo EXCEPT ![c] = FALSE]
          /\ state' = handleEvent(s, e)
      BY <1>3, <1>4, <1>10 DEF Trace, ReadLine, Clear
    <3> QED BY <1>3, <3>1, EventFacts
  <2> HIDE DEF s
  <2>4. l \in {NoLEU, Thread(running[c])}
    <3>1. CASE limbo[c]
      <4>1. c \notin DOMAIN state.CurrentLEU
        BY <1>1, <3>1 DEF AnalyserInv, Limbo
      <4> QED BY <2>2, <4>1 DEF Cur, Get
    <3>2. CASE ~limbo[c]
      BY <1>1, <1>5, <2>2, <3>2, CurrentFacts DEF AnalyserInv, Follows
    <3> QED BY <3>1, <3>2
  <2>5. h # l /\ h \in LEU
    <3>1. h.Name = "Thread" /\ NoLEU.Name = ""
      BY DEF Thread, NoLEU
    <3>2. h # NoLEU
      BY <3>1
    <3> QED BY <1>2, <2>4, <3>2, LEUFacts
  <2>6. k \in Entry
    BY <1>3, KeptFacts
  <2> HIDE DEF l
  <2>7. SwitchOf(s, state', c, l, h, k)
    <3>1. l = Cur(s, e.CPU) /\ h = Thread(e.Pid2)
      BY <1>3 DEF l
    <3> HIDE DEF h
    <3>2. SwitchOf(s, handleCTXSW(s, e), e.CPU, l, h, Kept(e))
      BY <2>2, <2>5, <3>1, SwitchFacts
    <3> QED BY <1>3, <2>3, <3>2
  <2> HIDE DEF k
  <2>8. Turned(s, state', c, l, h, k)
    BY <2>7 DEF SwitchOf
  <2>9. Current(c)' = h
    BY <1>5, <1>7 DEF Current
  <2>10. Stacks'
    <3> SUFFICES ASSUME NEW d \in CPUs, NEW m \in LEU
                 PROVE  /\ StackOf(state', d, m) \in Seq(Element)
                        /\ Innermost(StackOf(state', d, m), frames[m])
      BY <1>5 DEF Stacks
    <3> DEFINE old == StackOf(s, d, m)
               f == frames[m]
    <3>1. old \in Seq(Element) /\ Innermost(old, f) /\ f \in Seq(Activation)
      BY <1>1, <2>2 DEF AnalyserInv, Stacks, MachineType
    <3>2. StackOf(state', d, m) \in {old, Pushed(old, k)}
      BY <2>7, <2>8 DEF SwitchOf, Turned
    <3> HIDE DEF old, f
    <3>3. /\ Pushed(old, k) \in Seq(Element) /\ Len(Pushed(old, k)) = Len(old)
          /\ \A j \in 1..Len(old) : Pushed(old, k)[j].Name = old[j].Name
      BY <2>6, <3>1, PushedFacts
    <3>4. Innermost(Pushed(old, k), f)
      BY <3>1, <3>3, InnermostReplaced
    <3> QED BY <3>1, <3>2, <3>3, <3>4 DEF f
  <2>11. \A d, m : Has(state', d, m) =>
           \/ Has(state, d, m)
           \/ d = c /\ m \in {NoLEU, Thread(running[c]), Thread(running'[c])}
           \/ d = c /\ c \in IrqCPUs /\ m \in {HIRQ(j) : j \in IRQs}
    BY <1>7, <2>2, <2>4, <2>8 DEF Turned
  <2>12. \A d, m : d # c => StackOf(state', d, m) = StackOf(state, d, m)
    BY <2>2, <2>8 DEF Turned
  <2>13. /\ IsState(state') /\ Whole(state'.stored) /\ state'.panic = "none"
         /\ state'.CurrentLEU = Put(state.CurrentLEU, c, Current(c)')
         /\ state.LEUs \subseteq state'.LEUs
         /\ Thread(running'[c]) \in state'.LEUs /\ Current(c)' \in state'.LEUs
         /\ state'.Interrupted = state.Interrupted
    BY <1>7, <1>8, <2>1, <2>2, <2>7, <2>8, <2>9, WholeNone DEF SwitchOf, Turned
  <2>14. Mapped(state', c) /\ \A d : d # c => (Mapped(state', d) <=> Mapped(state, d))
    BY <2>2, <2>8 DEF Turned
  <2>15. AnalyserInv'
    <3> HIDE DEF h
    <3> QED BY <1>5, <1>6, <1>7, <1>8, <1>10, <2>3, <2>10, <2>11, <2>12, <2>13, <2>14, SeenMove
  <2> QED BY <1>6, <2>15 DEF Inv
<1> QED BY <1>8, <1>9, <1>10
-----------------------------------------------------------------------------
(* The invariant implies what is checked                                   *)

LEMMA InvLEU ==
  ASSUME Inv
  PROVE  LEUTracked
BY DEF Inv, AnalyserInv, Follows, LEUTracked, Cur

LEMMA InvStack ==
  ASSUME Inv
  PROVE  StackTracked
<1> SUFFICES ASSUME NEW c \in CPUs, ~limbo[c]
             PROVE  LET stack == Stack(state, [CPU |-> c])
                    IN  IsSuffix([i \in DOMAIN stack |-> stack[i].Name],
                                 [i \in DOMAIN Inside(c) |-> Inside(c)[i].name])
  BY DEF StackTracked
<1> DEFINE stack == Stack(state, [CPU |-> c])
           g == Inside(c)
           l == Current(c)
           n == Len(stack)
           m == Len(g)
           a == [i \in DOMAIN stack |-> stack[i].Name]
           b == [i \in DOMAIN g |-> g[i].name]
<1>1. /\ stack = StackOf(state, c, l)
      /\ l \in LEU /\ g = frames[l] /\ g \in Seq(Activation)
  <2>1. Cur(state, c) = l
    BY DEF Inv, AnalyserInv, Follows
  <2>2. l \in LEU /\ g = frames[l] /\ g \in Seq(Activation)
    BY CurrentFacts DEF Inv, MachineInv
  <2> QED BY <2>1, <2>2 DEF Stack, StackOf, Cur, GetCurrentLEU
<1>2. stack \in Seq(Element) /\ Innermost(stack, g)
  BY <1>1 DEF Inv, AnalyserInv, Stacks
<1> HIDE DEF stack, g
<1>3. n \in Nat /\ m \in Nat /\ DOMAIN stack = 1..n /\ DOMAIN g = 1..m
  BY <1>1, <1>2, LenProperties
<1>4. n <= m /\ \A k \in 1..n : stack[k].Name = g[m - n + k].name
  BY <1>2 DEF Innermost
<1> HIDE DEF n, m
<1> DEFINE S == {stack[i].Name : i \in 1..n} \cup {g[i].name : i \in 1..m}
<1>5. a \in [1..n -> S] /\ b \in [1..m -> S]
  BY <1>3
<1> HIDE DEF S
<1>6. a \in Seq(S) /\ b \in Seq(S) /\ Len(a) = n /\ Len(b) = m
  <2> HIDE DEF a, b
  <2> QED BY <1>3, <1>5
<1>7. a = SubSeq(b, m - n + 1, m)
  <2> DEFINE lo == m - n + 1
             u == SubSeq(b, lo, m)
  <2>1. lo \in Int /\ lo >= 1 /\ lo <= m + 1 /\ m - lo + 1 = n
    BY <1>3, <1>4
  <2>2. \A k \in 1..m : b[k] \in S
    BY <1>5
  <2>3. \A k \in 1..n : lo + k - 1 \in 1..m /\ lo + k - 1 = m - n + k
    BY <1>3, <1>4
  <2>4. u \in Seq(S) /\ Len(u) = n /\ \A k \in 1..n : u[k] = b[lo + k - 1]
    <3> HIDE DEF lo, b
    <3>1. \A k \in lo..m : b[k] \in S
      BY <1>3, <2>1, <2>2
    <3>2. /\ SubSeq(b, lo, m) \in Seq(S)
          /\ Len(SubSeq(b, lo, m)) = IF lo <= m THEN m - lo + 1 ELSE 0
          /\ \A k \in 1..(m - lo + 1) : SubSeq(b, lo, m)[k] = b[lo + k - 1]
      BY <1>3, <2>1, <3>1, SubSeqProperties
    <3>3. (IF lo <= m THEN m - lo + 1 ELSE 0) = n
      BY <1>3, <2>1
    <3> QED BY <2>1, <3>2, <3>3
  <2>5. ASSUME NEW k \in 1..n
        PROVE  a[k] = u[k]
    <3>1. a[k] = stack[k].Name
      BY <1>3
    <3>2. b[lo + k - 1] = g[m - n + k].name
      BY <1>3, <2>3
    <3> QED BY <1>4, <2>4, <3>1, <3>2
  <2> HIDE DEF u, a, lo
  <2> QED BY <1>6, <2>4, <2>5, SeqEqual DEF u, lo
<1>8. IsSuffix(a, b)
  <2> HIDE DEF a, b
  <2> QED BY <1>4, <1>6, <1>7 DEF IsSuffix
<1> QED BY <1>8 DEF stack, g
-----------------------------------------------------------------------------
(* The analyser keeps its invariant: migrations and the gaps               *)

\* MIGRATE: no stack of leu is left but on the new CPU.
MigrateOf(s, t, new, leu) ==
  /\ IsState(t)
  /\ t.CurrentLEU = s.CurrentLEU
  /\ t.Interrupted = s.Interrupted
  /\ Same(s, t)
  /\ \A d : Mapped(t, d) <=> Mapped(s, d)
  /\ \A d, m : Has(t, d, m) => (Has(s, d, m) /\ m # leu) \/ (d = new /\ m = leu)
  /\ \A d, m : m # leu => StackOf(t, d, m) = StackOf(s, d, m)
  /\ \A d : \/ StackOf(t, d, leu) = <<>>
            \/ \E b : Mapped(s, b) /\ StackOf(t, d, leu) = StackOf(s, b, leu)

LEMMA MigrateFacts ==
  ASSUME NEW s, IsState(s), NEW e, NEW old, old # e.Pid2, Mapped(s, e.Pid2),
         \A d : Has(s, d, Thread(e.Pid1)) => d = old
  PROVE  MigrateOf(s, handleMIGRATE(s, e), e.Pid2, Thread(e.Pid1))
<1> DEFINE leu == Thread(e.Pid1)
           new == e.Pid2
           maps == s.ServiceStack
           from == {d \in DOMAIN maps \ {new} : leu \in DOMAIN maps[d]}
<1>1. from \subseteq {old}
  BY DEF Has, Mapped
<1>2. CASE from = {}
  <2>1. handleMIGRATE(s, e) = s
    BY <1>2 DEF handleMIGRATE
  <2>2. \A d : ~Has(s, d, leu)
    BY <1>2 DEF Has, Mapped
  <2> HIDE DEF leu
  <2>3. \A d : StackOf(s, d, leu) = <<>>
    BY <2>2, NoStack
  <2> QED BY <2>1, <2>2, <2>3 DEF MigrateOf, Same, leu
<1>3. CASE from # {}
  <2>1. from = {old}
    BY <1>1, <1>3
  <2> DEFINE at == CHOOSE d \in from : TRUE
             moved == maps[at]
             taken == Put(maps[new], leu, moved[leu])
             left == [x \in DOMAIN moved \ {leu} |-> moved[x]]
             maps2 == [maps EXCEPT ![new] = taken, ![at] = left]
             t == [s EXCEPT !.ServiceStack = maps2]
  <2>2. at = old /\ old \in DOMAIN maps /\ leu \in DOMAIN maps[old] /\ new \in DOMAIN maps
    <3>1. at \in from
      BY <1>3
    <3>2. at = old
      BY <2>1, <3>1
    <3> QED BY <2>1, <3>2 DEF Mapped
  <2>3. handleMIGRATE(s, e) = t
    BY <1>3, <2>2 DEF handleMIGRATE
  <2> HIDE DEF at, from
  <2>4. /\ DOMAIN maps2 = DOMAIN maps
        /\ maps2[new] = taken
        /\ maps2[old] = left
        /\ \A d \in DOMAIN maps : d # new /\ d # old => maps2[d] = maps[d]
    <3> HIDE DEF taken, left
    <3> QED BY <2>2
  <2>5. /\ DOMAIN taken = DOMAIN maps[new] \cup {leu}
        /\ taken[leu] = maps[old][leu]
        /\ \A x \in DOMAIN maps[new] : x # leu => taken[x] = maps[new][x]
    BY <2>2 DEF Put
  <2>6. /\ DOMAIN left = DOMAIN maps[old] \ {leu}
        /\ \A x \in DOMAIN maps[old] : x # leu => left[x] = maps[old][x]
    BY <2>2
  <2> HIDE DEF maps2, taken, left, moved, leu
  <2>7. /\ IsState(t) /\ t.ServiceStack = maps2 /\ t.CurrentLEU = s.CurrentLEU
        /\ t.Interrupted = s.Interrupted /\ Same(s, t)
    BY WithStacks
  <2> HIDE DEF t
  <2>8. \A d : Mapped(t, d) <=> Mapped(s, d)
    BY <2>4, <2>7 DEF Mapped
  <2>9. ASSUME NEW d, NEW m, Has(t, d, m)
        PROVE  (Has(s, d, m) /\ m # leu) \/ (d = new /\ m = leu)
    <3>1. d \in DOMAIN maps /\ m \in DOMAIN maps2[d]
      BY <2>4, <2>7, <2>9 DEF Has, Mapped
    <3>2. CASE d = new
      BY <2>4, <2>5, <3>1, <3>2 DEF Has, Mapped
    <3>3. CASE d = old
      BY <2>4, <2>6, <3>1, <3>3 DEF Has, Mapped
    <3>4. CASE d # new /\ d # old
      <4>1. Has(s, d, m)
        BY <2>4, <3>1, <3>4 DEF Has, Mapped
      <4>2. m # leu
        BY <3>4, <4>1 DEF leu
      <4> QED BY <4>1, <4>2
    <3> QED BY <3>2, <3>3, <3>4
  <2>10. ASSUME NEW d, NEW m, m # leu
         PROVE  StackOf(t, d, m) = StackOf(s, d, m)
    <3>1. CASE d \notin DOMAIN maps
      BY <2>4, <2>7, <3>1 DEF StackOf, Get
    <3>2. CASE d \in DOMAIN maps
      <4>1. m \in DOMAIN maps2[d] <=> m \in DOMAIN maps[d]
        BY <2>4, <2>5, <2>6, <2>10, <3>2
      <4>2. m \in DOMAIN maps[d] => maps2[d][m] = maps[d][m]
        BY <2>4, <2>5, <2>6, <2>10, <3>2
      <4> QED BY <2>4, <2>7, <3>2, <4>1, <4>2 DEF StackOf, Get
    <3> QED BY <3>1, <3>2
  <2>11. StackOf(t, new, leu) = StackOf(s, old, leu)
    <3>1. StackOf(t, new, leu) = maps[old][leu]
      BY <2>2, <2>4, <2>5, <2>7 DEF StackOf, Get
    <3>2. StackOf(s, old, leu) = maps[old][leu]
      BY <2>2 DEF StackOf, Get
    <3> QED BY <3>1, <3>2
  <2>12. \A d : d # new => StackOf(t, d, leu) = <<>>
    BY <2>9, NoStack
  <2>13. \A d : \/ StackOf(t, d, leu) = <<>>
                \/ \E b : Mapped(s, b) /\ StackOf(t, d, leu) = StackOf(s, b, leu)
    BY <2>2, <2>11, <2>12 DEF Mapped
  <2> QED BY <2>3, <2>7, <2>8, <2>9, <2>10, <2>13 DEF MigrateOf, leu
<1> QED BY <1>2, <1>3

\* A thread without a stack is queued on another CPU.
LEMMA HomeMoved ==
  ASSUME Inv, NEW t \in Threads, NEW new \in CPUs, Move(t, new), \A d : ~Has(state, d, Thread(t)),
         recording' = recording, limbo' = limbo,
         Quiet(state, state'), state'.LEUs = state.LEUs, state'.panic = "none", StoredWhole'
  PROVE  Inv'
<1>1. MachineInv /\ MachineType /\ AnalyserInv /\ Owners
  BY DEF Inv, MachineInv, AnalyserInv
<1>2. running' = running /\ hirq' = hirq /\ frames' = frames
  BY DEF Move
<1>3. MachineInv'
  BY <1>1, MigrateMachine DEF Move
<1>4. home'[t] = new /\ \A u \in Threads : u # t => home'[u] = home[u]
  BY <1>1 DEF Move, MachineType
<1>5. /\ \A d : Mapped(state', d) <=> Mapped(state, d)
      /\ \A d, m : Has(state', d, m) <=> Has(state, d, m)
      /\ \A d, m : StackOf(state', d, m) = StackOf(state, d, m)
      /\ \A d : Cur(state', d) = Cur(state, d)
      /\ state'.CurrentLEU = state.CurrentLEU /\ state'.Interrupted = state.Interrupted
      /\ IsState(state')
  BY QuietStacks DEF Quiet
<1>6. AnalyserType' /\ Limbo' /\ Alive'
  BY <1>1, <1>5 DEF AnalyserInv, AnalyserType, Limbo, Alive
<1>7. Follows'
  <2> SUFFICES ASSUME NEW d \in CPUs, ~limbo[d]
               PROVE  /\ Mapped(state', d)
                      /\ Cur(state', d) = Current(d)'
                      /\ Thread(running[d]) \in state'.LEUs
                      /\ Current(d)' \in state'.LEUs
                      /\ hirq[d] # NoIRQ =>
                           /\ state'.Interrupted # <<>>
                           /\ LastOf(state'.Interrupted) = Thread(running[d])
                           /\ Len(StackOf(state', d, HIRQ(hirq[d]))) = Len(frames[HIRQ(hirq[d])])
    BY <1>2 DEF Follows
  <2>1. Current(d)' = Current(d)
    BY <1>2 DEF Current
  <2> QED BY <1>1, <1>5, <2>1 DEF AnalyserInv, Follows
<1>8. Stacks'
  BY <1>1, <1>2, <1>5 DEF AnalyserInv, Stacks
<1>9. Owners'
  <2>1. ASSUME NEW d, NEW u \in Threads, Has(state', d, Thread(u))
        PROVE  d = home'[u]
    <3>1. Has(state, d, Thread(u)) /\ u # t
      BY <1>5, <2>1
    <3> QED BY <1>1, <1>4, <3>1 DEF Owners, Has, Mapped
  <2>2. ASSUME NEW d, NEW i \in IRQs, Has(state', d, HIRQ(i))
        PROVE  d \in IrqCPUs
    <3>1. Has(state, d, HIRQ(i))
      BY <1>5, <2>2
    <3> QED BY <1>1, <3>1 DEF Owners, Has, Mapped
  <2> QED BY <2>1, <2>2 DEF Owners
<1> QED BY <1>3, <1>6, <1>7, <1>8, <1>9 DEF Inv, AnalyserInv

\* No thread strays: what moves unseen has no stack.
LEMMA NoStray ==
  ASSUME Followed, astray = {}, NEW left, MayStray(left)
  PROVE  left = {}
<1>1. Cardinality(astray) = 0
  BY FS_EmptySet
<1>2. MaxAstray = 0
  BY DEF Followed
<1>3. ~(Cardinality(astray) < MaxAstray)
  BY <1>1, <1>2
<1> QED BY <1>3 DEF MayStray

LEMMA OffStack ==
  ASSUME NEW t, OnStack(t) = {}
  PROVE  \A d : ~Has(state, d, Thread(t))
BY DEF OnStack, Has, Mapped

\* The line of a migration that is read on a CPU that is followed, to a CPU
\* the analyser has a map for.
LEMMA MigrateSeen ==
  ASSUME Inv, NEW c \in CPUs, ~limbo[c], NEW t \in Threads, NEW new \in CPUs, Move(t, new),
         NEW e, e.Pid1 = t, e.Pid2 = new, Mapped(state, new),
         recording' = recording, limbo' = limbo, state' = handleMIGRATE(Clear(state), e)
  PROVE  Inv'
<1> DEFINE leu == Thread(t)
           s == Clear(state)
<1>1. MachineInv /\ MachineType /\ AnalyserInv /\ Owners
  BY DEF Inv, MachineInv, AnalyserInv
<1>2. /\ home[t] # new
      /\ \A d \in CPUs : running[d] # t
      /\ home' = [home EXCEPT ![t] = new]
      /\ running' = running /\ hirq' = hirq /\ frames' = frames
  BY DEF Move
<1>6. running' = running /\ hirq' = hirq /\ frames' = frames
  BY <1>2
<1>7. MachineInv'
  BY <1>1, <1>2, MigrateMachine
<1>8. home'[t] = new /\ \A u \in Threads : u # t => home'[u] = home[u]
  BY <1>1, <1>2 DEF MachineType
<1>10. IsState(state) /\ state.panic = "none"
  BY <1>1 DEF AnalyserInv, AnalyserType, Alive
<1>11. Quiet(state, s) /\ s.LEUs = state.LEUs /\ s.stored = <<>> /\ s.panic = "none"
  BY <1>10, ClearFacts
<1>12. /\ \A d : Mapped(s, d) <=> Mapped(state, d)
       /\ \A d, m : Has(s, d, m) <=> Has(state, d, m)
       /\ \A d, m : StackOf(s, d, m) = StackOf(state, d, m)
       /\ s.CurrentLEU = state.CurrentLEU /\ s.Interrupted = state.Interrupted /\ IsState(s)
  BY <1>11, QuietStacks DEF Quiet
<1> HIDE DEF s
<1>13. MigrateOf(s, state', new, leu)
  <2> DEFINE old == home[t]
  <2>1. old # e.Pid2 /\ Mapped(s, e.Pid2)
    BY <1>2, <1>12
  <2>2. \A d : Has(s, d, Thread(e.Pid1)) => d = old
    BY <1>1, <1>12 DEF Owners, Has, Mapped
  <2> HIDE DEF old
  <2>3. MigrateOf(s, handleMIGRATE(s, e), e.Pid2, Thread(e.Pid1))
    BY <1>12, <2>1, <2>2, MigrateFacts
  <2> QED BY <2>3 DEF s
<1>14. /\ IsState(state')
       /\ state'.CurrentLEU = state.CurrentLEU
       /\ state'.Interrupted = state.Interrupted
       /\ state'.LEUs = state.LEUs /\ state'.stored = <<>> /\ state'.panic = "none"
       /\ \A d : Mapped(state', d) <=> Mapped(state, d)
       /\ \A d, m : Has(state', d, m) => (Has(state, d, m) /\ m # leu) \/ (d = new /\ m = leu)
       /\ \A d, m : m # leu => StackOf(state', d, m) = StackOf(state, d, m)
  BY <1>11, <1>12, <1>13 DEF MigrateOf, Same
<1>15. \A d : \/ StackOf(state', d, leu) = <<>>
              \/ \E b : Mapped(state, b) /\ StackOf(state', d, leu) = StackOf(state, b, leu)
  BY <1>12, <1>13 DEF MigrateOf
<1>16. AnalyserType'
  BY <1>1, <1>14 DEF AnalyserInv, AnalyserType
<1>17. Limbo'
  BY <1>1, <1>14 DEF AnalyserInv, Limbo
<1>18. Follows'
  <2> SUFFICES ASSUME NEW d \in CPUs, ~limbo[d]
               PROVE  /\ Mapped(state', d)
                      /\ Cur(state', d) = Current(d)'
                      /\ Thread(running[d]) \in state'.LEUs
                      /\ Current(d)' \in state'.LEUs
                      /\ hirq[d] # NoIRQ =>
                           /\ state'.Interrupted # <<>>
                           /\ LastOf(state'.Interrupted) = Thread(running[d])
                           /\ Len(StackOf(state', d, HIRQ(hirq[d]))) = Len(frames[HIRQ(hirq[d])])
    BY <1>6 DEF Follows
  <2>1. Current(d)' = Current(d)
    BY <1>6 DEF Current
  <2>2. Cur(state', d) = Cur(state, d)
    BY <1>14 DEF Cur
  <2>3. StackOf(state', d, HIRQ(hirq[d])) = StackOf(state, d, HIRQ(hirq[d]))
    BY <1>14, LEUFacts
  <2> QED BY <1>1, <1>14, <2>1, <2>2, <2>3 DEF AnalyserInv, Follows
<1>19. Stacks'
  <2> SUFFICES ASSUME NEW d \in CPUs, NEW m \in LEU
               PROVE  /\ StackOf(state', d, m) \in Seq(Element)
                      /\ Innermost(StackOf(state', d, m), frames[m])
    BY <1>6 DEF Stacks
  <2>1. CASE m # leu
    BY <1>1, <1>14, <2>1 DEF AnalyserInv, Stacks
  <2>2. CASE m = leu /\ StackOf(state', d, leu) = <<>>
    <3>1. frames[m] \in Seq(Activation)
      BY <1>1 DEF MachineType
    <3> QED BY <2>2, <3>1, InnermostEmpty, EmptySeq
  <2>3. CASE m = leu /\ StackOf(state', d, leu) # <<>>
    <3>1. PICK b : Mapped(state, b) /\ StackOf(state', d, leu) = StackOf(state, b, leu)
      BY <1>15, <2>3
    <3>2. Has(state, b, leu)
      BY <2>3, <3>1, NoStack
    <3>3. b \in CPUs
      BY <1>1, <3>2 DEF Owners, Has, Mapped, MachineType
    <3> QED BY <1>1, <2>3, <3>1, <3>3 DEF AnalyserInv, Stacks
  <2> QED BY <2>1, <2>2, <2>3
<1>20. Owners'
  <2>1. ASSUME NEW d, NEW u \in Threads, Has(state', d, Thread(u))
        PROVE  d = home'[u]
    <3>1. CASE u = t
      BY <1>8, <1>14, <2>1, <3>1
    <3>2. CASE u # t
      <4>1. Thread(u) # leu
        BY <3>2, LEUFacts
      <4>2. Has(state, d, Thread(u))
        BY <1>14, <2>1, <4>1
      <4> QED BY <1>1, <1>8, <3>2, <4>2 DEF Owners, Has, Mapped
    <3> QED BY <3>1, <3>2
  <2>2. ASSUME NEW d, NEW i \in IRQs, Has(state', d, HIRQ(i))
        PROVE  d \in IrqCPUs
    <3>1. Has(state, d, HIRQ(i))
      BY <1>14, <2>2, LEUFacts
    <3> QED BY <1>1, <3>1 DEF Owners, Has, Mapped
  <2> QED BY <2>1, <2>2 DEF Owners
<1>21. StoredWhole' /\ Alive'
  BY <1>14 DEF StoredWhole, Whole, Alive
<1>22. AnalyserInv'
  BY <1>16, <1>17, <1>18, <1>19, <1>20, <1>21 DEF AnalyserInv
<1> QED BY <1>7, <1>22 DEF Inv

\* The analyser has ended at a MIGRATE line to a CPU without a map; nothing is
\* replayed any more.
Crashed ==
  /\ recording
  /\ state.panic = "MIGRATE" /\ \E c \in CPUs : limbo[c]
  /\ LEUTracked /\ StackTracked /\ InstancesWhole

\* The line of a migration to a CPU the analyser has no map for: the thread has
\* no stack, or the analyser ends.
LEMMA MigrateNoMap ==
  ASSUME Inv, NEW c \in CPUs, ~limbo[c], NEW t \in Threads, NEW new \in CPUs, Move(t, new),
         NEW e, e.EventType = "MIGRATE", e.Pid1 = t, e.Pid2 = new, ~Mapped(state, new),
         recording' = recording, limbo' = limbo, state' = handleMIGRATE(Clear(state), e),
         astray' = astray
  PROVE  Inv' \/ Crashed'
<1> DEFINE leu == Thread(t)
           s == Clear(state)
           from == {d \in DOMAIN s.ServiceStack \ {new} : leu \in DOMAIN s.ServiceStack[d]}
<1>1. AnalyserInv /\ AnalyserType /\ IsState(state) /\ state.panic = "none" /\ recording
  BY DEF Inv, AnalyserInv, AnalyserType, Limbo, Alive
<1>2. /\ Quiet(state, s) /\ s.LEUs = state.LEUs /\ s.stored = <<>> /\ s.panic = "none"
      /\ s.ServiceStack = state.ServiceStack
  BY <1>1, ClearFacts DEF Quiet
<1>3. limbo[new]
  BY <1>1 DEF AnalyserInv, Follows
<1> HIDE DEF s
<1>4. CASE from = {}
  <2>1. state' = s
    BY <1>4 DEF handleMIGRATE, s
  <2>2. \A d : ~Has(state, d, leu)
    BY <1>2, <1>4 DEF Has, Mapped
  <2>3. StoredWhole'
    BY <1>2, <2>1, WholeNone DEF StoredWhole
  <2> QED BY <1>2, <2>1, <2>2, <2>3, HomeMoved
<1>5. CASE from # {}
  <2>1. new \notin DOMAIN s.ServiceStack
    BY <1>2 DEF Mapped
  <2>2. state' = Panic(s, e)
    BY <1>5, <2>1 DEF handleMIGRATE, s
  <2>3. /\ state'.CurrentLEU = state.CurrentLEU
        /\ state'.ServiceStack = state.ServiceStack
        /\ state'.stored = <<>> /\ state'.panic = "MIGRATE"
    BY <1>2, <2>2 DEF Panic, Quiet, IsState
  <2>4. running' = running /\ hirq' = hirq /\ frames' = frames
    BY DEF Move
  <2>5. \A d : Current(d)' = Current(d) /\ Inside(d)' = Inside(d)
    BY <2>4 DEF Current, Inside
  <2>6. \A d : Stack(state', [CPU |-> d]) = Stack(state, [CPU |-> d])
    BY <2>3 DEF Stack, GetCurrentLEU
  <2>7. LEUTracked'
    BY <2>3, <2>5, InvLEU DEF LEUTracked
  <2>8. StackTracked'
    BY <2>5, <2>6, InvStack DEF StackTracked
  <2>9. InstancesWhole'
    BY <2>3 DEF InstancesWhole
  <2> QED BY <1>1, <1>3, <2>3, <2>7, <2>8, <2>9 DEF Crashed
<1> QED BY <1>4, <1>5

LEMMA MigrateStep ==
  ASSUME Followed, Inv, astray = {}, NEW c \in CPUs, Migrate(c)
  PROVE  astray' = {} /\ (Inv' \/ Crashed')
<1>1. PICK t \in Threads, new \in CPUs :
        LET e == Line(c, "MIGRATE", "", "", t, new) IN
        Move(t, new) /\ MayStray(LeftBehind(e)) /\ Trace(e)
  BY DEF Migrate
<1> DEFINE e == Line(c, "MIGRATE", "", "", t, new)
<1>2. /\ e.CPU = c /\ e.EventType = "MIGRATE" /\ e.Pid1 = t /\ e.Pid2 = new
      /\ Move(t, new) /\ MayStray(LeftBehind(e)) /\ Trace(e)
  BY <1>1 DEF Line
<1> HIDE DEF e
<1>3. LeftBehind(e) = {}
  BY <1>2, NoStray
<1>4. astray' = {} /\ astray' = astray
  BY <1>2, <1>3 DEF Trace
<1>5. /\ recording' = recording /\ limbo' = limbo
      /\ limbo[c] => state' = state
      /\ ~limbo[c] => state' = handleMIGRATE(Clear(state), e)
  BY <1>2, TraceCases, EventFacts
<1>6. CASE limbo[c]
  <2>1. \A d : ~Has(state, d, Thread(t))
    <3>1. CASE recording
      BY <1>2, <1>3, <1>6, <3>1, OffStack DEF LeftBehind
    <3>2. CASE ~recording
      <4>1. ASSUME NEW d, Has(state, d, Thread(t))
            PROVE  FALSE
        <5>1. Mapped(state, d) /\ d = home[t] /\ d \in CPUs
          BY <4>1 DEF Inv, AnalyserInv, Owners, Has, Mapped, MachineInv, MachineType
        <5> QED BY <3>2, <5>1 DEF Inv, AnalyserInv, Limbo
      <4> QED BY <4>1
    <3> QED BY <3>1, <3>2
  <2>2. /\ Quiet(state, state') /\ state'.LEUs = state.LEUs /\ state'.panic = "none" /\ StoredWhole'
    BY <1>5, <1>6 DEF Inv, AnalyserInv, AnalyserType, Alive, Quiet, StoredWhole
  <2> QED BY <1>2, <1>4, <1>5, <2>1, <2>2, HomeMoved
<1>7. CASE ~limbo[c] /\ Mapped(state, new)
  BY <1>2, <1>4, <1>5, <1>7, MigrateSeen
<1>8. CASE ~limbo[c] /\ ~Mapped(state, new)
  BY <1>2, <1>4, <1>5, <1>8, MigrateNoMap
<1> QED BY <1>6, <1>7, <1>8

LEMMA WakeStep ==
  ASSUME Followed, Inv, astray = {}, NEW t \in Threads, try_to_wake_up(t)
  PROVE  astray' = {} /\ Inv'
<1>1. OnStack(t) = {}
  BY NoStray DEF try_to_wake_up
<1>2. \A d : ~Has(state, d, Thread(t))
  BY <1>1, OffStack
<1>3. PICK new \in CPUs : Move(t, new)
  BY DEF try_to_wake_up
<1>4. astray' = {} /\ recording' = recording /\ limbo' = limbo /\ state' = state
  BY <1>1 DEF try_to_wake_up
<1>5. /\ Quiet(state, state') /\ state'.LEUs = state.LEUs /\ state'.panic = "none" /\ StoredWhole'
  BY <1>4 DEF Inv, AnalyserInv, AnalyserType, Alive, Quiet, StoredWhole
<1> QED BY <1>2, <1>3, <1>4, <1>5, HomeMoved

LEMMA NothingMapped ==
  ASSUME NEW s, s.ServiceStack = NoMap
  PROVE  /\ \A c : ~Mapped(s, c)
         /\ \A c, l : ~Has(s, c, l)
         /\ \A c, l : StackOf(s, c, l) = <<>>
<1>1. DOMAIN NoMap = {}
  BY DEF NoMap
<1>2. \A c : ~Mapped(s, c)
  BY <1>1 DEF Mapped
<1>3. \A c, l : ~Has(s, c, l)
  BY <1>2 DEF Has
<1> QED BY <1>2, <1>3, NoStack

LEMMA BufferFullStep ==
  ASSUME Inv, BufferFull
  PROVE  Inv'
<1>1. MachineInv' /\ MachineType'
  BY MachineSame DEF Inv, BufferFull, MachineInv
<1>2. AnalyserType /\ Alive /\ state.panic = "none" /\ IsState(state)
  BY DEF Inv, AnalyserInv, AnalyserType, Alive
<1>3. /\ state' = [state EXCEPT !.ServiceStack = NoMap, !.CurrentLEU = NoMap, !.stored = <<>>]
      /\ limbo' = [c \in CPUs |-> TRUE] /\ recording' = FALSE
  BY DEF BufferFull, ReadEOD, NoStacks, Skip
<1>4. /\ state'.ServiceStack = NoMap /\ state'.CurrentLEU = NoMap /\ state'.stored = <<>>
      /\ state'.Interrupted = state.Interrupted /\ state'.panic = "none"
  BY <1>2, <1>3 DEF IsState
<1>5. IsState(state')
  BY <1>2, <1>3 DEF IsState
<1>6. AnalyserType' /\ Alive'
  BY <1>2, <1>3, <1>4, <1>5 DEF AnalyserType, Alive
<1>7. AnalyserInv'
  <2>1. \A c \in CPUs : limbo'[c]
    BY <1>3
  <2>2. /\ \A c : ~Mapped(state', c)
        /\ \A c, l : ~Has(state', c, l)
        /\ \A c, l : StackOf(state', c, l) = <<>>
    BY <1>4, NothingMapped
  <2>3. DOMAIN NoMap = {}
    BY DEF NoMap
  <2>4. Limbo' /\ Follows' /\ Owners' /\ StoredWhole'
    BY <1>4, <2>1, <2>2, <2>3 DEF Limbo, Follows, Owners, StoredWhole, Whole
  <2>5. Stacks'
    <3> SUFFICES ASSUME NEW c \in CPUs, NEW l \in LEU
                 PROVE  /\ StackOf(state', c, l) \in Seq(Element)
                        /\ Innermost(StackOf(state', c, l), frames'[l])
      BY DEF Stacks
    <3>1. frames'[l] \in Seq(Activation)
      BY <1>1 DEF MachineType
    <3> QED BY <2>2, <3>1, InnermostEmpty, EmptySeq
  <2> QED BY <1>6, <2>4, <2>5 DEF AnalyserInv
<1> QED BY <1>1, <1>7 DEF Inv

\* The tracer is switched on again, or nothing happens.
LEMMA QuietStep ==
  ASSUME Inv, UNCHANGED <<machine, limbo, state>>, recording' \in {recording, TRUE}
  PROVE  Inv'
<1>1. MachineInv'
  BY MachineSame DEF Inv
<1>2. /\ limbo' = limbo /\ state' = state
      /\ running' = running /\ hirq' = hirq /\ home' = home /\ frames' = frames
  BY DEF machine
<1>3. AnalyserType'
  BY <1>2 DEF Inv, AnalyserInv, AnalyserType
<1>4. Limbo'
  BY <1>2 DEF Inv, AnalyserInv, Limbo
<1>5. Follows'
  <2>1. \A c : Current(c)' = Current(c)
    BY <1>2 DEF Current
  <2> QED BY <1>2, <2>1 DEF Inv, AnalyserInv, Follows
<1>6. Stacks' /\ Owners'
  BY <1>2 DEF Inv, AnalyserInv, Stacks, Owners
<1>7. StoredWhole' /\ Alive'
  BY <1>2 DEF Inv, AnalyserInv, StoredWhole, Whole, Alive
<1> QED BY <1>1, <1>3, <1>4, <1>5, <1>6, <1>7 DEF Inv, AnalyserInv

LEMMA InitInv == Init => Inv
<1> SUFFICES ASSUME Init PROVE Inv
  OBVIOUS
<1>1. frames \in [LEU -> Seq(Activation)] /\ \A l \in LEU : frames[l] = <<>>
  <2>1. <<>> \in Seq(Activation)
    BY EmptySeq
  <2> QED BY <2>1 DEF Init
<1>2. MachineType /\ \A c \in CPUs : hirq[c] = NoIRQ
  BY <1>1 DEF Init, MachineType
<1>3. Homes
  BY DEF Init, Homes
<1>4. /\ \A i \in IRQs : frames[HIRQ(i)] = <<>>
      /\ \A t \in Threads : frames[Thread(t)] = <<>>
  BY <1>1, LEUFacts
<1>5. Served
  BY <1>2, <1>4 DEF Served
<1>6. DOMAIN <<>> = {}
  OBVIOUS
<1>7. InHandler /\ InThread
  BY <1>4, <1>6 DEF InHandler, InThread
<1>8. /\ state = [CurrentLEU |-> NoMap, ServiceStack |-> NoMap, Interrupted |-> <<>>,
                  LEUs |-> {}, stored |-> <<>>, panic |-> "none"]
      /\ limbo = [c \in CPUs |-> TRUE] /\ recording = TRUE
  BY DEF Init
<1>9. /\ state.CurrentLEU = NoMap /\ state.ServiceStack = NoMap /\ state.Interrupted = <<>>
      /\ state.stored = <<>> /\ state.panic = "none"
  BY <1>8
<1>10. AnalyserType /\ Alive
  <2>1. IsState(state)
    BY <1>8 DEF IsState
  <2>2. <<>> \in Seq(LEU)
    BY EmptySeq
  <2> QED BY <1>8, <1>9, <2>1, <2>2 DEF AnalyserType, Alive
<1>11. AnalyserInv
  <2>1. /\ \A c : ~Mapped(state, c)
        /\ \A c, l : ~Has(state, c, l)
        /\ \A c, l : StackOf(state, c, l) = <<>>
    BY <1>9, NothingMapped
  <2>2. DOMAIN NoMap = {}
    BY DEF NoMap
  <2>3. Limbo /\ Follows /\ Owners /\ StoredWhole
    BY <1>8, <1>9, <2>1, <2>2 DEF Limbo, Follows, Owners, StoredWhole, Whole
  <2>4. Stacks
    BY <1>1, <2>1, InnermostEmpty, EmptySeq DEF Stacks
  <2> QED BY <1>10, <2>3, <2>4 DEF AnalyserInv
<1> QED BY <1>2, <1>3, <1>5, <1>7, <1>11 DEF Inv, MachineInv

LEMMA NextInv ==
  ASSUME Followed, Inv, astray = {}, [Next]_vars
  PROVE  astray' = {} /\ (Inv' \/ Crashed')
<1>0. ASSUME NEW e, e.EventType # "MIGRATE", Trace(e)
      PROVE  astray' = {}
  BY <1>0 DEF Trace, LeftBehind
<1>1. ASSUME NEW c \in CPUs,
             \/ Call(c) \/ Return(c) \/ Event(c)
             \/ LoopStart(c) \/ LoopRestart(c) \/ LoopStop(c)
             \/ irq_enter(c) \/ irq_exit(c)
             \/ HandlerDequeue(c) \/ HandlerStart(c) \/ HandlerStop(c) \/ HandlerExit(c)
             \/ Switch(c)
      PROVE  astray' = {} /\ Inv'
  <2>1. CASE Call(c) \/ irq_enter(c) \/ HandlerDequeue(c)
    <3>1. astray' = {}
      BY <2>1, <1>0 DEF Call, irq_enter, HandlerDequeue, Line
    <3> QED BY <2>1, <3>1, EnterSteps
  <2>2. CASE Return(c) \/ irq_exit(c) \/ HandlerExit(c)
    <3>1. astray' = {}
      BY <2>2, <1>0 DEF Return, irq_exit, HandlerExit, Line
    <3> QED BY <2>2, <3>1, ExitSteps
  <2>3. CASE Event(c)
    BY <2>3, <1>0, EventStep DEF Event, Line
  <2>4. CASE LoopStart(c)
    <3>1. astray' = {}
      BY <2>4, <1>0 DEF LoopStart, Line
    <3> QED BY <2>4, <3>1, LoopStartStep
  <2>5. CASE LoopRestart(c)
    BY <2>5, <1>0, LoopRestartStep DEF LoopRestart, Line
  <2>6. CASE LoopStop(c)
    BY <2>6, <1>0, LoopStopStep DEF LoopStop, Line
  <2>7. CASE HandlerStart(c)
    <3>1. astray' = {}
      BY <2>7, <1>0 DEF HandlerStart, Line
    <3> QED BY <2>7, <3>1, HandlerStartStep
  <2>8. CASE HandlerStop(c)
    <3>1. astray' = {}
      BY <2>8, <1>0 DEF HandlerStop, Line
    <3> QED BY <2>8, <3>1, HandlerStopStep
  <2>9. CASE Switch(c)
    <3>1. astray' = {}
      BY <2>9, <1>0 DEF Switch, Line
    <3> QED BY <2>9, <3>1, SwitchStep
  <2> QED BY <1>1, <2>1, <2>2, <2>3, <2>4, <2>5, <2>6, <2>7, <2>8, <2>9
<1>2. ASSUME NEW c \in CPUs, Migrate(c)
      PROVE  astray' = {} /\ (Inv' \/ Crashed')
  BY <1>2, MigrateStep
<1>3. ASSUME NEW t \in Threads, try_to_wake_up(t)
      PROVE  astray' = {} /\ Inv'
  BY <1>3, WakeStep
<1>4. CASE BufferFull
  BY <1>4, BufferFullStep DEF BufferFull
<1>5. CASE SyncComplete
  BY <1>5, QuietStep DEF SyncComplete
<1>6. CASE UNCHANGED vars
  BY <1>6, QuietStep DEF vars
<1> QED BY <1>1, <1>2, <1>3, <1>4, <1>5, <1>6 DEF Next

\* After a panic no line is replayed.
LEMMA CrashedStays ==
  ASSUME Crashed, [Next]_vars
  PROVE  Crashed' /\ astray' = astray
<1>1. state.panic # "none" /\ recording
  BY DEF Crashed
<1>2. ~Next
  BY <1>1 DEF Next, Call, Return, Event, LoopStart, LoopRestart, LoopStop, irq_enter, irq_exit,
              HandlerDequeue, HandlerStart, HandlerStop, HandlerExit, Switch, Migrate,
              try_to_wake_up, BufferFull, SyncComplete, Trace
<1>3. UNCHANGED vars
  BY <1>2
<1>4. /\ recording' = recording /\ limbo' = limbo /\ state' = state /\ astray' = astray
      /\ running' = running /\ hirq' = hirq /\ frames' = frames
  BY <1>3 DEF vars, machine
<1>5. \A d : Current(d)' = Current(d) /\ Inside(d)' = Inside(d)
  BY <1>4 DEF Current, Inside
<1>6. LEUTracked' /\ InstancesWhole'
  BY <1>4, <1>5 DEF Crashed, LEUTracked, InstancesWhole
<1>7. StackTracked'
  BY <1>4, <1>5 DEF Crashed, StackTracked
<1> QED BY <1>4, <1>6, <1>7 DEF Crashed
-----------------------------------------------------------------------------
(* The theorems                                                            *)

\* The invariant of the replay: whatever the threads call, wherever interrupts
\* come and whenever the buffer fills, the maps of run() agree with the
\* machine, if handlers run on one CPU and no thread leaves a stack behind,
\* until handleMIGRATE() panics for a CPU it has no map of.
Replay == astray = {} /\ (Inv \/ Crashed)

THEOREM ReplayInvariant ==
  ASSUME Followed
  PROVE  Spec => []Replay
<1>1. Init => Replay
  BY InitInv DEF Replay, Init
<1>2. Replay /\ [Next]_vars => Replay'
  BY NextInv, CrashedStays DEF Replay
<1> QED BY <1>1, <1>2, PTL DEF Spec

\* handleCTXSW(), handleHIRQEntry() and handleHIRQExit() keep CurrentLEU right:
\* a line is attributed to the thread or interrupt that wrote it.
THEOREM LEUsFollowed ==
  ASSUME Followed
  PROVE  Spec => []LEUTracked
<1>1. Replay => LEUTracked
  BY InvLEU DEF Replay, Crashed
<1> QED BY <1>1, ReplayInvariant, PTL

\* PushNewService(), Pop() and handleMIGRATE() keep ServiceStack right: the
\* services of a LEU in it are the innermost ones it is inside of.
THEOREM StacksFollowed ==
  ASSUME Followed
  PROVE  Spec => []StackTracked
<1>1. Replay => StackTracked
  BY InvStack DEF Replay, Crashed
<1> QED BY <1>1, ReplayInvariant, PTL

\* What handleSRVEXIT(), handleLOOPRSTART() and handleLOOPSTOP() store runs
\* from the entry of a service to its exit, or over one pass of a loop.
THEOREM StoredInstancesWhole ==
  ASSUME Followed
  PROVE  Spec => []InstancesWhole
<1>1. Replay => InstancesWhole
  BY DEF Replay, Crashed, Inv, AnalyserInv, StoredWhole, Whole, InstancesWhole
<1> QED BY <1>1, ReplayInvariant, PTL

\* No handler indexes an empty stack, an empty list of entries or a map that
\* was not made, but for handleMIGRATE() at a line that names a CPU whose first
\* CTXSW since EOD has not been read.
THEOREM ReplayNeverPanics ==
  ASSUME Followed
  PROVE  Spec => []NoPanic
<1>1. Replay => NoPanic
  BY DEF Replay, Crashed, Inv, AnalyserInv, Alive, NoPanic
<1> QED BY <1>1, ReplayInvariant, PTL
=============================================================================
