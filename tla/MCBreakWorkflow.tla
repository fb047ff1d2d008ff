-------------------------- MODULE MCBreakWorkflow --------------------------
(* One break: nothing in the code relates two.  The resolutions differ in their
   outcome alone, and one of them is asked for. *)
EXTENDS BreakWorkflow, TLC

MCAsked == {"claim", "escalate", "resolved_matched"}
Symmetry == Permutations(Edits) \cup Permutations(People) \cup Permutations(Requests)
=============================================================================
