------------------------------ MODULE Resolve ------------------------------
(***************************************************************************)
(* resolve.go: replaces the addresses in a trace file by symbols.          *)
(*                                                                         *)
(* Three goroutines form a pipeline over two buffered channels: one reads  *)
(* lines, one resolves the words of each line that look like addresses,    *)
(* with a cache of the words it has resolved before, and one prints.       *)
(* main() waits for the printer and exits.                                 *)
(***************************************************************************)
EXTENDS Integers, Sequences

CONSTANTS
  Words,       \* addresses, as numbers, and words that are none
  Text,        \* the words that are none
  symbolTable, \* the addresses System.map has a symbol for
  MAX_DIST,    \* an address this far from the symbol below it has none
  Capacity,    \* capacity of the channels
  MaxLines,    \* bound: lines of the file
  MaxWords     \* bound: words of a line

ASSUME TableAssumption ==
  /\ Text \subseteq Words
  /\ Words \ Text \subseteq Nat
  /\ symbolTable \subseteq Nat
  /\ MAX_DIST \in Nat

ASSUME LimitsAssumption == {Capacity, MaxLines, MaxWords} \subseteq Nat \ {0}

VARIABLES
  input,         \* the file: a sequence of lines, each a sequence of words
  read,          \* lines read so far
  inputLines,    \* channel from the reader to the resolver
  inputClosed,
  l, i,          \* the line the resolver works on (<<>>: none), next word
  cache,         \* its cache: address -> what was put in its place
  modifiedLines, \* channel from the resolver to the printer
  modifiedClosed,
  printed,       \* standard output
  done,          \* the printer has sent on the channel done
  exited         \* main() has returned

reader == <<read, inputLines, inputClosed>>
resolver == <<l, i, cache>>
printer == <<modifiedLines, modifiedClosed, printed, done>>
vars == <<input, reader, resolver, printer, exited>>

\* A word of the output: as it was, or a symbol plus an offset.
Plain(w) == [word |-> w]
Symbol(a, offset) == [symbol |-> a, plus |-> offset]
-----------------------------------------------------------------------------
(* The first goroutine                                                     *)
ReadLine ==
  /\ read < Len(input)
  /\ Len(inputLines) < Capacity
  /\ inputLines' = Append(inputLines, input[read + 1])
  /\ read' = read + 1
  /\ UNCHANGED <<input, inputClosed, resolver, printer, exited>>

CloseInput ==
  /\ read = Len(input)
  /\ ~inputClosed
  /\ inputClosed' = TRUE
  /\ UNCHANGED <<input, read, inputLines, resolver, printer, exited>>
-----------------------------------------------------------------------------
(* The second goroutine                                                    *)
TakeLine ==
  /\ l = <<>>
  /\ inputLines # <<>>
  /\ l' = [k \in DOMAIN Head(inputLines) |-> Plain(Head(inputLines)[k])]
  /\ i' = 1
  /\ inputLines' = Tail(inputLines)
  /\ UNCHANGED <<input, read, inputClosed, cache, printer, exited>>

\* The loop over the offsets: the symbol found first is the nearest.
Offsets(a) == {o \in 0 .. MAX_DIST - 1 : a - o \in symbolTable}
First(a) == CHOOSE o \in Offsets(a) : \A p \in Offsets(a) : o <= p
Lookup(a) == IF Offsets(a) = {} THEN Plain(a) ELSE Symbol(a - First(a), First(a))

\* Fault: the symbol is cached without its offset.
Cached_NoOffset(a) == IF Offsets(a) = {} THEN Plain(a) ELSE Symbol(a - First(a), 0)
Cached(a) == Lookup(a)

\* An address not in the cache is looked up and cached, also when it has no
\* symbol; what is cached is put in the line as it is.
ResolveWord ==
  /\ l # <<>>
  /\ i <= Len(l)
  /\ i' = i + 1
  /\ LET w == l[i].word IN
       IF w \in Text
         THEN UNCHANGED <<l, cache>>
         ELSE IF w \in DOMAIN cache
                THEN l' = [l EXCEPT ![i] = cache[w]] /\ UNCHANGED cache
                ELSE /\ l' = [l EXCEPT ![i] = Lookup(w)]
                     /\ cache' = [a \in DOMAIN cache \cup {w} |->
                                    IF a = w THEN Cached(w) ELSE cache[a]]
  /\ UNCHANGED <<input, reader, printer, exited>>

SendLine ==
  /\ l # <<>>
  /\ i > Len(l)
  /\ Len(modifiedLines) < Capacity
  /\ modifiedLines' = Append(modifiedLines, l)
  /\ l' = <<>>
  /\ i' = 1
  /\ UNCHANGED <<input, reader, cache, modifiedClosed, printed, done, exited>>

\* Fault: the channel is closed when it happens to be empty.
NoMoreInput_Empty == inputLines = <<>>
NoMoreInput == inputLines = <<>> /\ inputClosed

\* Fault: the goroutine ends and leaves the channel open.
close_Forgotten == UNCHANGED modifiedClosed
close == modifiedClosed' = TRUE

CloseModified ==
  /\ l = <<>>
  /\ NoMoreInput
  /\ ~modifiedClosed
  /\ close
  /\ UNCHANGED <<input, reader, resolver, modifiedLines, printed, done, exited>>
-----------------------------------------------------------------------------
(* The third goroutine, and main()                                         *)
PrintLine ==
  /\ ~done
  /\ modifiedLines # <<>>
  /\ printed' = Append(printed, Head(modifiedLines))
  /\ modifiedLines' = Tail(modifiedLines)
  /\ UNCHANGED <<input, reader, resolver, modifiedClosed, done, exited>>

SendDone ==
  /\ ~done
  /\ modifiedLines = <<>>
  /\ modifiedClosed
  /\ done' = TRUE
  /\ UNCHANGED <<input, reader, resolver, modifiedLines, modifiedClosed, printed, exited>>

Exit ==
  /\ done
  /\ ~exited
  /\ exited' = TRUE
  /\ UNCHANGED <<input, reader, resolver, printer>>
-----------------------------------------------------------------------------
Lines == UNION {[1 .. n -> Words] : n \in 1 .. MaxWords}

Init ==
  /\ input \in UNION {[1 .. n -> Lines] : n \in 0 .. MaxLines}
  /\ read = 0
  /\ inputLines = <<>>
  /\ inputClosed = FALSE
  /\ l = <<>>
  /\ i = 1
  /\ cache = <<>>
  /\ modifiedLines = <<>>
  /\ modifiedClosed = FALSE
  /\ printed = <<>>
  /\ done = FALSE
  /\ exited = FALSE

Reader == ~exited /\ (ReadLine \/ CloseInput)
Resolver == ~exited /\ (TakeLine \/ ResolveWord \/ SendLine \/ CloseModified)
Printer == ~exited /\ (PrintLine \/ SendDone)
Next == Reader \/ Resolver \/ Printer \/ Exit

\* Every goroutine that can run does.
Spec ==
  /\ Init /\ [][Next]_vars
  /\ WF_vars(Reader) /\ WF_vars(Resolver) /\ WF_vars(Printer) /\ WF_vars(Exit)
-----------------------------------------------------------------------------
\* What a word becomes: the symbol at the largest address not above it, if
\* that is less than MAX_DIST away.
Expected(w) ==
  IF w \in Text THEN Plain(w)
  ELSE LET below == {s \in symbolTable : s <= w /\ w - s < MAX_DIST}
           s == CHOOSE x \in below : \A y \in below : y <= x
       IN  IF below = {} THEN Plain(w) ELSE Symbol(s, w - s)
ExpectedLine(line) == [k \in DOMAIN line |-> Expected(line[k])]

\* The lines come out in the order of the file, each address replaced by its
\* nearest symbol whether or not it was in the cache: the trace is read by
\* analyse.go, to which the order of the lines is time.  main() returns only
\* after the whole file went through both channels.
PrintedFaithful ==
  /\ Len(printed) <= Len(input)
  /\ \A k \in DOMAIN printed : printed[k] = ExpectedLine(input[k])
  /\ exited => Len(printed) = Len(input)

\* The pipeline drains and main() returns: no goroutine waits on a channel
\* that another has left.
Terminates == <>exited
=============================================================================
