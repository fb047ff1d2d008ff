----------------------------- MODULE BreakLife -----------------------------
(***************************************************************************)
(* The life of a reconciliation break as those who wait for it see it: it  *)
(* is raised, worked to an end, and taken up again only from an end.       *)
(* BreakWorkflow implements it (services/bff/src/reconciliation/           *)
(* service.ts); PayablePeriod, whose close waits for breaks, is built on   *)
(* its actions.                                                            *)
(***************************************************************************)
CONSTANT Lines      \* what the breaks are about

VARIABLE brk        \* brk[b]: how far the break on line b has come

BreakStatus == {"absent", "flagged", "escalated", "resolved"}

TypeOK == brk \in [Lines -> BreakStatus]

Init == brk = [b \in Lines |-> "absent"]

RaiseBreak(b) == brk[b] = "absent" /\ brk' = [brk EXCEPT ![b] = "flagged"]

WorkBreak(b) ==
    /\ brk[b] = "flagged"
    /\ \E outcome \in {"resolved", "escalated"} : brk' = [brk EXCEPT ![b] = outcome]

ReopenBreak(b) ==
    /\ brk[b] \in {"resolved", "escalated"}
    /\ brk' = [brk EXCEPT ![b] = "flagged"]

Move(b) == RaiseBreak(b) \/ WorkBreak(b) \/ ReopenBreak(b)

Spec == Init /\ [][\E b \in Lines : Move(b)]_brk
=============================================================================
