------------------------- MODULE MCEvidenceDispatch -------------------------
(* An invoice run of two documents and a journal batch, each generated twice. *)
EXTENDS EvidenceDispatch, TLC

CONSTANTS e1, e2, j1

MCWorks == {<<e1, e2>>, <<j1>>}

Symmetry == Permutations(Calls) \cup Permutations(Versions)
=============================================================================
