---------------------------- MODULE MCDisputes ----------------------------
(* One case, with two refunds of it that may differ in their amount,
   and two PATCH calls in flight. *)
EXTENDS Disputes, TLC

\* One consent of the case, and one of something else.
CONSTANTS theirs, other

MCConsentOf == [d \in Cases |-> theirs]

\* For refund_blocked: the refund is asked for through initiateRefund, and the case is
\* settled in the other scheme while the request waits for its second human.
SettledWhileAsked ==
    /\ \A r \in Requests : job[r].at = "none" => job'[r].at \in {"none", "unblocked"}
    /\ \A d \in Cases : row'[d].blocked # row[d].blocked =>
           \E r \in Requests : job[r].at = "asked" /\ job[r].case = d

Symmetry == Permutations(Requests) \cup Permutations(People)
                \cup Permutations(Calls) \cup Permutations(Amounts)
===========================================================================
