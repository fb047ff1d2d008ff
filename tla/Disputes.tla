------------------------------ MODULE Disputes ------------------------------
(***************************************************************************)
(* The dispute case and its refund: services/bff/src/disputes/service.ts   *)
(* over packages/db/src/dispute-store.ts, the refund behind the four-eyes  *)
(* row of GateRow, with Nebras (P6) on the other side.                     *)
(*                                                                         *)
(* Lifecycle calls read the case, decide, and write later; the refund is   *)
(* dispatched, marked and audited in three steps of which any may be the   *)
(* last.                                                                   *)
(***************************************************************************)
EXTENDS Naturals

CONSTANTS
    Requests,       \* approval requests for a refund
    People,         \* humans holding disputes:admin
    Cases,          \* dispute_case ids
    Consents,       \* consents a refund may be dispatched on
    ConsentOf,      \* ConsentOf[d]: the originating_consent_id of case d
    Calls,          \* PATCH calls that may be in flight at once
    Amounts,        \* refund amounts
    None            \* SQL NULL, and a field the caller left out

ASSUME DisputesAssumption ==
    /\ None \notin People \cup Cases \cup Amounts \cup Consents
    /\ ConsentOf \in [Cases -> Consents]

VARIABLES
    entry,          \* the approval_request rows, and
    winner,         \* who won the claim on each (GateRow)
    job,            \* job[r]: how far r's request or execution has come, and its payload
    row,            \* row[d]: the dispute_case row
    call,           \* call[c]: the PATCH in flight, and the state it asks for
    linked,         \* cases opened at Nebras (P6)
    paid,           \* paid[r]: refunds P6 dispatched for request r
    trail           \* requests with a refund_initiated event

approvalVars == <<entry, winner>>
refundVars == <<job, paid, trail>>
vars == <<approvalVars, refundVars, row, call, linked>>

Gate == INSTANCE GateRow

-----------------------------------------------------------------------------
DisputeStates == {"open", "in_progress", "escalated", "refund_initiated",
                  "resolved", "closed"}

AllowedTransitions ==
    [open |-> {"in_progress", "escalated", "closed"},
     in_progress |-> {"escalated", "resolved", "closed"},
     escalated |-> {"in_progress", "resolved", "closed"},
     refund_initiated |-> {"resolved", "closed"},
     resolved |-> {"closed", "in_progress"},
     closed |-> {}]

Row == [state : {"none"} \cup DisputeStates, blocked : BOOLEAN,
        refund : Amounts \cup {None}]

JobStep == {"none", "unblocked", "asked",
            "granted", "paid", "marked", "audited", "done", "failed"}
Job == [at : JobStep, by : People \cup {None}, case : Cases \cup {None},
        consent : Consents \cup {None}, amount : Amounts \cup {None}]

Call == [at : {"idle", "checked"}, case : Cases \cup {None},
         state : DisputeStates \cup {None}]
Idle == [at |-> "idle", case |-> None, state |-> None]

Init ==
    /\ Gate!Init
    /\ job = [r \in Requests |-> [at |-> "none", by |-> None, case |-> None,
                                 consent |-> None, amount |-> None]]
    /\ row = [d \in Cases |-> [state |-> "none", blocked |-> FALSE, refund |-> None]]
    /\ call = [c \in Calls |-> Idle]
    /\ linked = {}
    /\ paid = [r \in Requests |-> 0]
    /\ trail = {}

OnFile(d) == row[d].state # "none"

-----------------------------------------------------------------------------
(* Opening a case: at Nebras first. *)

\* Slip: the row goes in on a case nobody opened.
FileUnlinked(d) ==
    /\ ~OnFile(d)
    /\ row' = [row EXCEPT ![d].state = "open"]
    /\ UNCHANGED <<approvalVars, refundVars, call, linked>>

\* create, up to createDisputeCase; if the call dies here, Nebras keeps the case.
OpenAtNebras(d) ==
    /\ d \notin linked
    /\ linked' = linked \cup {d}
    /\ UNCHANGED <<approvalVars, refundVars, row, call>>

\* store.create: INSERT with the column defaults.  Its audit event follows.
File(d) ==
    /\ d \in linked
    /\ FileUnlinked(d)

-----------------------------------------------------------------------------
(* The lifecycle: PATCH /disputes and record-cross-scheme. *)

\* Slip: a case may always be asked for the state it has.
CheckMoveLoose(c, d, target) ==
    /\ call[c].at = "idle"
    /\ OnFile(d)
    /\ target \in {None, row[d].state} \cup AllowedTransitions[row[d].state]
    /\ call' = [call EXCEPT ![c] = [at |-> "checked", case |-> d, state |-> target]]
    /\ UNCHANGED <<approvalVars, refundVars, row, linked>>

\* updateState: the case is read and the move checked against what was read.  A
\* PATCH without a state only touches notes.
CheckMove(c, d, target) ==
    /\ target # "refund_initiated"
    /\ CheckMoveLoose(c, d, target)

\* store.updateState, by id alone: COALESCE($2, state) over a row that may have moved
\* since.  The audit event that follows names what was read; nothing depends on it.
WriteMove(c) ==
    LET d == call[c].case
    IN  /\ call[c].at = "checked"
        /\ row' = [row EXCEPT ![d].state = IF call[c].state = None THEN @ ELSE call[c].state]
        /\ call' = [call EXCEPT ![c] = Idle]
        /\ UNCHANGED <<approvalVars, refundVars, linked>>

\* The PATCH dies before its write.
CrashCall(c) ==
    /\ call[c].at = "checked"
    /\ call' = [call EXCEPT ![c] = Idle]
    /\ UNCHANGED <<approvalVars, refundVars, row, linked>>

\* recordCrossScheme with settled_in_other_scheme; the other fields are references.
\* It read the case before, and a case on file stays there.
Settle(d) ==
    /\ OnFile(d)
    /\ row' = [row EXCEPT ![d].blocked = TRUE]
    /\ UNCHANGED <<approvalVars, refundVars, call, linked>>

-----------------------------------------------------------------------------
(* The refund. *)

JobAt(r, step) == job' = [job EXCEPT ![r].at = step, ![r].by = None]
JobGoes(r, step) == job' = [job EXCEPT ![r].at = step]
Payload(step, p, d, k, m) ==
    [at |-> step, by |-> p, case |-> d, consent |-> k, amount |-> m]

\* initiateRefund: the case is there, and compensation is not blocked now.  The payload
\* names the case's consent.
CheckCompensation(r, p, d, m) ==
    /\ job[r].at = "none"
    /\ OnFile(d)
    /\ ~row[d].blocked
    /\ job' = [job EXCEPT ![r] = Payload("unblocked", p, d, ConsentOf[d], m)]
    /\ UNCHANGED <<approvalVars, paid, trail, row, call, linked>>

\* requestApproval.
AskRefund(r) ==
    /\ job[r].at = "unblocked"
    /\ Gate!Create(r, job[r].by)
    /\ JobAt(r, "asked")
    /\ UNCHANGED <<paid, trail, row, call, linked>>

\* POST /approvals opens the operation with a payload of the caller's, for a case
\* that need not exist and a consent that need not be the case's.
AskDirectly(r, p, d, k, m) ==
    /\ job[r].at = "none"
    /\ Gate!Create(r, p)
    /\ job' = [job EXCEPT ![r] = Payload("asked", None, d, k, m)]
    /\ UNCHANGED <<paid, trail, row, call, linked>>

\* Somebody rejects or expires the request, on a copy as old as may be.
Refuse(r) ==
    /\ Gate!TimeOut(r) \/ \E p \in People : Gate!Reject(r, p)
    /\ UNCHANGED <<refundVars, row, call, linked>>

\* approve's claim; it calls the refund operation.
Grant(r, p) ==
    /\ Gate!Grant(r, p)
    /\ JobGoes(r, "granted")
    /\ UNCHANGED <<paid, trail, row, call, linked>>

\* Slip: the money leaves when the refund is asked for.
DispatchInline(r) ==
    /\ job[r].at \in {"asked", "granted"}
    /\ paid' = [paid EXCEPT ![r] = 1]
    /\ JobGoes(r, "paid")
    /\ UNCHANGED <<approvalVars, trail, row, call, linked>>

\* dispatchRefund: P6 takes the refund, of job[r].amount on job[r].consent; its answer
\* may be lost.
Dispatch(r) ==
    /\ job[r].at = "granted"
    /\ paid' = [paid EXCEPT ![r] = @ + 1]
    /\ JobGoes(r, "paid") \/ JobAt(r, "failed")
    /\ UNCHANGED <<approvalVars, trail, row, call, linked>>

\* Slip: the case is marked although P6 never took the refund.
MarkFirst(r) ==
    /\ job[r].at \in {"granted", "paid"}
    /\ row' = [row EXCEPT ![job[r].case].state = "refund_initiated",
                          ![job[r].case].refund = job[r].amount]
    /\ JobGoes(r, "marked")
    /\ UNCHANGED <<approvalVars, paid, trail, call, linked>>

\* markRefundInitiated, whatever state the case is in by now; without a case the
\* operation throws.
Mark(r) ==
    LET d == job[r].case
    IN  /\ job[r].at = "paid"
        /\ IF OnFile(d)
           THEN /\ row' = [row EXCEPT ![d].state = "refund_initiated",
                                      ![d].refund = job[r].amount]
                /\ JobGoes(r, "marked")
           ELSE JobAt(r, "failed") /\ UNCHANGED row
        /\ UNCHANGED <<approvalVars, paid, trail, call, linked>>

AuditRefund(r) ==
    /\ job[r].at = "marked"
    /\ trail' = trail \cup {r}
    /\ JobGoes(r, "audited")
    /\ UNCHANGED <<approvalVars, paid, row, call, linked>>

\* Back in approve.
PersistApproval(r) ==
    /\ job[r].at = "audited"
    /\ Gate!Persist(r)
    /\ JobAt(r, "done")
    /\ UNCHANGED <<paid, trail, row, call, linked>>

\* The process dies under a request or an execution, or P6 refuses the refund.
CrashJob(r) ==
    /\ job[r].at \in {"unblocked", "granted", "paid", "marked", "audited"}
    /\ JobAt(r, "failed")
    /\ UNCHANGED <<approvalVars, paid, trail, row, call, linked>>

RefundStep(r) ==
    \/ AskRefund(r) \/ Refuse(r) \/ Dispatch(r) \/ Mark(r) \/ AuditRefund(r)
    \/ PersistApproval(r) \/ CrashJob(r)
    \/ \E p \in People : Grant(r, p)
    \/ \E p \in People, d \in Cases, m \in Amounts :
          \/ CheckCompensation(r, p, d, m)
          \/ \E k \in Consents : AskDirectly(r, p, d, k, m)

CallStepOf(c) ==
    \/ WriteMove(c) \/ CrashCall(c)
    \/ \E d \in Cases, target \in DisputeStates \cup {None} : CheckMove(c, d, target)

Next ==
    \/ \E d \in Cases : OpenAtNebras(d) \/ File(d) \/ Settle(d)
    \/ \E c \in Calls : CallStepOf(c)
    \/ \E r \in Requests : RefundStep(r)

Spec == Init /\ [][Next]_vars

-----------------------------------------------------------------------------
(* Properties *)

TypeOK ==
    /\ Gate!TypeOK
    /\ job \in [Requests -> Job]
    /\ row \in [Cases -> Row]
    /\ call \in [Calls -> Call]
    /\ linked \subseteq Cases
    /\ paid \in [Requests -> Nat]
    /\ trail \subseteq Requests

\* Money leaves at most once for an approval, and only for one that a second
\* human granted.
RefundsAreGranted ==
    \A r \in Requests :
        /\ paid[r] <= 1
        /\ paid[r] = 1 => winner[r] \notin {None, entry[r].initiator}

\* Whatever lifecycle calls and refunds overlap on a case, and whichever of them
\* die: the case was opened at Nebras, and a case that says it was refunded names
\* an amount that P6 dispatched under a request that names the case.
RowIsBackedByP6 ==
    \A d \in Cases :
        /\ OnFile(d) => d \in linked
        /\ row[d].state = "refund_initiated" => row[d].refund # None
        /\ row[d].refund # None =>
               \E r \in Requests : /\ paid[r] = 1
                                   /\ job[r].case = d
                                   /\ job[r].amount = row[d].refund

\* What updateState refuses by name: refund_initiated is entered by the mark of a
\* refund that was paid, never by a PATCH, however old the record it read.
OnlyTheGateRefunds ==
    [][\A d \in Cases :
           row'[d].state = "refund_initiated" /\ row[d].state # "refund_initiated" =>
               \E r \in Requests : /\ job[r].at = "paid" /\ job'[r].at = "marked"
                                   /\ job[r].case = d]_vars

\* The double-compensation guard: no refund leaves for a case whose loss was
\* settled in the other scheme.
NoDoubleCompensation ==
    [][\A r \in Requests : paid'[r] > paid[r] => ~row[job[r].case].blocked]_vars

-----------------------------------------------------------------------------
(* What the code does not keep, and no document promises. *)

\* A refund leaves on the consent its case arose from.
RefundsGoToTheCase ==
    \A r \in Requests : paid[r] > 0 => job[r].consent = ConsentOf[job[r].case]
=============================================================================
