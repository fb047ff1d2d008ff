------------------------------ MODULE GateRow ------------------------------
(***************************************************************************)
(* The approval_request row as a gated operation meets it: opened by one   *)
(* human, granted at most once to another, and otherwise at the mercy of   *)
(* late writers, since store.update puts whatever a caller once read over  *)
(* whatever the row holds now.  Approvals implements it                    *)
(* (services/bff/src/approvals/service.ts); PayablePeriod, Disputes,       *)
(* Invoicing and Revocation are built on its actions and so rely on no     *)
(* more of the primitive than stands here.                                 *)
(***************************************************************************)
CONSTANTS
    Requests,       \* approval_request ids
    People,         \* humans, however their subjects are spelled
    None            \* SQL NULL

VARIABLES
    entry,          \* entry[r]: the row's state, initiator and approver
    winner          \* winner[r]: who won the claim on r, if anybody did

vars == <<entry, winner>>

Verdict == {"approved", "rejected", "timed_out"}

Entry == [state : {"none", "pending"} \cup Verdict,
          initiator : People \cup {None}, approver : People \cup {None}]

NoEntry == [state |-> "none", initiator |-> None, approver |-> None]

TypeOK ==
    /\ entry \in [Requests -> Entry]
    /\ winner \in [Requests -> People \cup {None}]

Init ==
    /\ entry = [r \in Requests |-> NoEntry]
    /\ winner = [r \in Requests |-> None]

\* requestApproval.
Create(r, p) ==
    /\ entry[r].state = "none"
    /\ entry' = [entry EXCEPT ![r] = [state |-> "pending", initiator |-> p, approver |-> None]]
    /\ UNCHANGED winner

\* reject, by whoever read the row while it was pending, however long ago.
Reject(r, p) ==
    /\ entry[r].state # "none"
    /\ entry' = [entry EXCEPT ![r].state = "rejected", ![r].approver = p]
    /\ UNCHANGED winner

\* settleExpiry, likewise; the copy it writes back names no approver.
TimeOut(r) ==
    /\ entry[r].state # "none"
    /\ entry' = [entry EXCEPT ![r].state = "timed_out", ![r].approver = None]
    /\ UNCHANGED winner

\* approve, up to the claim that wins.
Grant(r, p) ==
    /\ entry[r].state = "pending"
    /\ p # entry[r].initiator
    /\ entry' = [entry EXCEPT ![r].state = "approved", ![r].approver = p]
    /\ winner' = [winner EXCEPT ![r] = p]

\* approve's closing update, after op.execute returned.
Persist(r) ==
    /\ winner[r] # None
    /\ entry' = [entry EXCEPT ![r].state = "approved", ![r].approver = winner[r]]
    /\ UNCHANGED winner

Next ==
    \E r \in Requests :
        \/ TimeOut(r)
        \/ Persist(r)
        \/ \E p \in People : Create(r, p) \/ Reject(r, p) \/ Grant(r, p)

Spec == Init /\ [][Next]_vars

-----------------------------------------------------------------------------
(* What an operation behind the gate may count on, whatever it does itself. *)

\* A request is opened on a row that was not there.
LEMMA Creates ==
    ASSUME TypeOK, NEW r \in Requests, NEW p \in People, Create(r, p)
    PROVE  /\ TypeOK' /\ winner' = winner
           /\ entry[r].state = "none" /\ entry'[r].state = "pending"
           /\ \A q \in Requests \ {r} : entry'[q] = entry[q]
<1> DEFINE e == [state |-> "pending", initiator |-> p, approver |-> None]
<1>1. e \in Entry /\ e.state = "pending"
    BY DEF Entry
<1>2. entry' = [entry EXCEPT ![r] = e] /\ winner' = winner /\ entry[r].state = "none"
    BY DEF Create
<1> HIDE DEF e
<1> QED BY <1>1, <1>2 DEF TypeOK

\* What the late writers make of a row: never does it come back to pending.
LEMMA Writes ==
    ASSUME TypeOK, NEW r \in Requests,
           TimeOut(r) \/ Persist(r) \/ \E p \in People : Reject(r, p)
    PROVE  /\ TypeOK' /\ winner' = winner
           /\ entry'[r].state \in {"approved", "rejected", "timed_out"}
           /\ entry'[r].initiator = entry[r].initiator
           /\ \A q \in Requests \ {r} : entry'[q] = entry[q]
<1>1. PICK s \in {"approved", "rejected", "timed_out"}, p \in People \cup {None} :
          entry' = [entry EXCEPT ![r].state = s, ![r].approver = p] /\ winner' = winner
    BY DEF TimeOut, Persist, Reject, TypeOK
<1> DEFINE e == [entry[r] EXCEPT !.state = s, !.approver = p]
<1>2. e \in Entry /\ e.state = s /\ e.initiator = entry[r].initiator
    BY DEF TypeOK, Entry, Verdict
<1>3. entry' = [entry EXCEPT ![r] = e]
    BY <1>1
<1> HIDE DEF e
<1> QED BY <1>1, <1>2, <1>3 DEF TypeOK

\* A grant: of a pending row, to somebody else than its initiator.
LEMMA Grants ==
    ASSUME TypeOK, NEW r \in Requests, NEW p \in People, Grant(r, p)
    PROVE  /\ TypeOK' /\ winner'[r] = p /\ p # entry[r].initiator
           /\ entry[r].state = "pending" /\ entry'[r].state = "approved"
           /\ entry'[r].initiator = entry[r].initiator
           /\ \A q \in Requests \ {r} : entry'[q] = entry[q] /\ winner'[q] = winner[q]
<1> DEFINE e == [entry[r] EXCEPT !.state = "approved", !.approver = p]
<1>1. e \in Entry /\ e.state = "approved" /\ e.initiator = entry[r].initiator
    BY DEF TypeOK, Entry, Verdict
<1>2. /\ entry' = [entry EXCEPT ![r] = e] /\ winner' = [winner EXCEPT ![r] = p]
      /\ entry[r].state = "pending" /\ p # entry[r].initiator
    BY DEF Grant
<1> HIDE DEF e
<1> QED BY <1>1, <1>2 DEF TypeOK
=============================================================================
