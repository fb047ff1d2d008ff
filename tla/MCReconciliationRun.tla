------------------------ MODULE MCReconciliationRun ------------------------
(* One reference takes every course through the match, next to one that is a
   break of the other team. *)
EXTENDS ReconciliationRun, TLC

CONSTANTS daily, replay, memo, l1, l2

MCRunType ==
    [r \in Runs |-> CASE r = daily -> "daily" [] r = replay -> "replay"
                      [] r = memo -> "billing_collection_memo"]

\* 2 payments cost 5 fils.
Paid == [type |-> "payment_settlement", nebras |-> 5, calls |-> 2, success |-> TRUE,
         fintech |-> FALSE, disputed |-> FALSE]

OneLine == {[Paid EXCEPT !.nebras = fee] : fee \in {None, 3, 5}} \cup {[Paid EXCEPT !.calls = 1]}

Drifted == [type |-> "consent_record", nebras |-> 1, calls |-> None, success |-> FALSE,
            fintech |-> TRUE, disputed |-> FALSE]

MCBooks == {(l1 :> line) @@ (l2 :> Drifted) : line \in OneLine}

MCLimits ==
    {Engine!DefaultLimits,
     [Engine!DefaultLimits EXCEPT !["payment_settlement"] = 2, !["consent_record"] = 1]}

\* Two scenes in one run.  Three calls race on one day, under limits that are edited, and
\* nobody reports.  Or days pass and a report is drawn, while two calls execute the daily
\* run and the replay of a book that is all breaks, under limits nobody edits.
RacingCalls == day = 1 /\ \A s \in Reports : rep[s].at = "idle"

DrawingAReport ==
    /\ book[l1].nebras = None
    /\ \A l \in {limits} \cup UNION {since[r] : r \in Runs} : l = Engine!DefaultLimits
    /\ \A c \in Calls : call[c].run # memo
    /\ \E c \in Calls : call[c].at = "idle"

Scenes == RacingCalls \/ DrawingAReport

Symmetry == Permutations(Calls)
=============================================================================
