----------------------------- MODULE MCAnalyse -----------------------------
(***************************************************************************)
(* Analyse for TLC.  The threads are told apart by nothing but their       *)
(* names, so states that differ by a permutation of them are equivalent.   *)
(***************************************************************************)
EXTENDS Analyse, TLC

ThreadSymmetry == Permutations(Threads)
=============================================================================
