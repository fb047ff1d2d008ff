------------------------------ MODULE FourEyes ------------------------------
(***************************************************************************)
(* What the four-eyes gate promises the operations registered behind it,   *)
(* with no calls, snapshots or database rows: a request is opened, and is  *)
(* then either closed for good or granted once, in time, to somebody else  *)
(* than its initiator; a grant lets its operation start once.              *)
(* Approvals implements it (services/bff/src/approvals/service.ts).        *)
(***************************************************************************)
EXTENDS Naturals

CONSTANTS
    Requests,       \* approval_request ids
    Calls,          \* the approve calls that may win a grant
    Principals,     \* subjects of the callers
    Human,          \* Human[p]: the person behind subject p
    Instants,       \* the times of the model, a set of numbers
    None            \* no principal

VARIABLES
    gate,           \* gate[r]: how far request r has come
    initiator,      \* initiator[r]: who opened it
    deadline,       \* deadline[r]: the last instant it may be granted
    grants,         \* the grants given so far
    acts            \* the grants whose operation has started

vars == <<gate, initiator, deadline, grants, acts>>

Grant == [req : Requests, call : Calls, by : Principals, at : Instants]

Init ==
    /\ gate = [r \in Requests |-> "none"]
    /\ initiator = [r \in Requests |-> None]
    /\ deadline = [r \in Requests |-> 0]
    /\ grants = {}
    /\ acts = {}

Open(r, p, d) ==
    /\ gate[r] = "none"
    /\ gate' = [gate EXCEPT ![r] = "open"]
    /\ initiator' = [initiator EXCEPT ![r] = p]
    /\ deadline' = [deadline EXCEPT ![r] = d]
    /\ UNCHANGED <<grants, acts>>

Shut(r) ==
    /\ gate[r] = "open"
    /\ gate' = [gate EXCEPT ![r] = "shut"]
    /\ UNCHANGED <<initiator, deadline, grants, acts>>

Give(g) ==
    /\ gate[g.req] = "open"
    /\ Human[g.by] # Human[initiator[g.req]]
    /\ g.at <= deadline[g.req]
    /\ gate' = [gate EXCEPT ![g.req] = "granted"]
    /\ grants' = grants \cup {g}
    /\ UNCHANGED <<initiator, deadline, acts>>

Act(g) ==
    /\ g \in grants
    /\ gate[g.req] = "granted"
    /\ gate' = [gate EXCEPT ![g.req] = "acted"]
    /\ acts' = acts \cup {g}
    /\ UNCHANGED <<initiator, deadline, grants>>

Next ==
    \/ \E r \in Requests, p \in Principals, d \in Instants : Open(r, p, d)
    \/ \E r \in Requests : Shut(r)
    \/ \E g \in Grant : Give(g)
    \/ \E g \in grants : Act(g)

Spec == Init /\ [][Next]_vars
=============================================================================
