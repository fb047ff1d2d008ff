--------------------------- MODULE MCRevocation ---------------------------
(* A PSU with two consents and one draft; two requests: a fraud revocation and
   a handoff of its draft, or either of them and a sweep, or two sweeps. *)
EXTENDS Revocation, TLC

Symmetry == Permutations(Requests) \cup Permutations(People) \cup Permutations(Consents)
===========================================================================
