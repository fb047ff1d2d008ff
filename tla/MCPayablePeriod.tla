-------------------------- MODULE MCPayablePeriod --------------------------
(* One period, at most one material line, three people; the dispatch calls are
   retries of each other, under one key. *)
EXTENDS PayablePeriod, TLC

CONSTANTS m1, k1

MCKeyOf == k1 :> m1
Symmetry == Permutations(People) \cup Permutations(Requests) \cup Permutations(Calls)
============================================================================
