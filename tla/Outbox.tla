------------------------------- MODULE Outbox -------------------------------
(***************************************************************************)
(* What the evidence of an outbound document promises: a document is filed *)
(* once and never changes, a partner only ever takes the very bytes on     *)
(* file, and the log of attempts grows by one entry at a time and says no  *)
(* acceptance that the partner did not give.                               *)
(***************************************************************************)
EXTENDS Naturals, Sequences, FiniteSets

CONSTANTS
    Documents,      \* document and batch ids
    Versions,       \* the bytes a document may be generated with
    None

VARIABLES
    filed,          \* filed[d]: the bytes of d on file
    taken,          \* taken[d]: the bytes the partner accepted, each time
    log             \* log[d]: the outcomes on file, attempt by attempt

vars == <<filed, taken, log>>

Outcome == {"accepted", "rejected", "transport_error"}

Acceptances(entries) == Cardinality({n \in DOMAIN entries : entries[n] = "accepted"})

Init ==
    /\ filed = [d \in Documents |-> None]
    /\ taken = [d \in Documents |-> <<>>]
    /\ log = [d \in Documents |-> <<>>]

File(d, v) ==
    /\ filed[d] = None
    /\ filed' = [filed EXCEPT ![d] = v]
    /\ UNCHANGED <<taken, log>>

Take(d) ==
    /\ filed[d] # None
    /\ taken' = [taken EXCEPT ![d] = Append(@, filed[d])]
    /\ UNCHANGED <<filed, log>>

Tell(d, outcome) ==
    /\ filed[d] # None
    /\ outcome = "accepted" => Acceptances(log[d]) < Len(taken[d])
    /\ log' = [log EXCEPT ![d] = Append(@, outcome)]
    /\ UNCHANGED <<filed, taken>>

Next ==
    \E d \in Documents :
        \/ \E v \in Versions : File(d, v)
        \/ Take(d)
        \/ \E outcome \in Outcome : Tell(d, outcome)

Spec == Init /\ [][Next]_vars
=============================================================================
