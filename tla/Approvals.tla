----------------------------- MODULE Approvals -----------------------------
(***************************************************************************)
(* The shared approvals primitive: services/bff/src/approvals/service.ts   *)
(* over packages/db/src/approvals-store.ts (the Postgres store).           *)
(*                                                                         *)
(* A call is one HTTP request.  It reads a row once and then works on its  *)
(* own copy of it, across several awaits, while other calls write the same *)
(* row: every await is a step boundary here.  Calls that are refused       *)
(* before they write anything simply do not take the step.                 *)
(***************************************************************************)
EXTENDS Naturals

CONSTANTS
    Requests,       \* approval_request ids
    Calls,          \* HTTP calls, each used once
    Principals,     \* token subjects
    Human,          \* normalisePrincipal: the person behind a subject
    Initiators,     \* subjects holding the operation's initiator scope
    Approvers,      \* subjects holding its approver scope
    Window,         \* length of the approval window
    MaxNow,         \* bound on the clock
    None            \* SQL NULL

Subjects == Principals \cup {None}

ASSUME ApprovalsAssumption ==
    /\ None \notin Principals
    /\ None \notin Nat
    /\ \A p \in Principals : Human[p] # None
    /\ Initiators \subseteq Principals
    /\ Approvers \subseteq Principals
    /\ Window \in Nat
    /\ MaxNow \in Nat

VARIABLES
    row,        \* row[r]: the approval_request row
    call,       \* call[c]: where call c is, and its copy of the row
    now,        \* the clock
    claims,     \* history: the claims that won
    runs,       \* history: the claims whose operation was started
    trail       \* the audit events on file

vars == <<row, call, now, claims, runs, trail>>

-----------------------------------------------------------------------------
Resolved == {"approved", "rejected", "timed_out"}
RowState == {"none", "pending"} \cup Resolved

Row == [state : RowState, initiator : Subjects, approver : Subjects,
        expires_at : Nat, approved_at : Nat \cup {None}, result : BOOLEAN]

NoRow == [state |-> "none", initiator |-> None, approver |-> None,
          expires_at |-> 0, approved_at |-> None, result |-> FALSE]

Step == {"idle", "fetched", "expire", "decide", "claim", "execute", "running",
         "persist", "reject", "audit", "end"}

Call == [at : Step, op : {"none", "request", "approve", "reject", "read"},
         who : Subjects, req : Requests \cup {None}, snap : Row]

Claim == [req : Requests, call : Calls, by : Principals, at : Nat]

AuditEvent == [event : RowState, req : Requests, call : Calls]

IdleCall == [at |-> "idle", op |-> "none", who |-> None, req |-> None, snap |-> NoRow]

\* Slip: the later stamp wins.
Latest(x, y) == y

\* SQL's COALESCE(x, y).
Coalesce(x, y) == IF x # None THEN x ELSE y

Init ==
    /\ row = [r \in Requests |-> NoRow]
    /\ call = [c \in Calls |-> IdleCall]
    /\ now = 0
    /\ claims = {}
    /\ runs = {}
    /\ trail = {}

-----------------------------------------------------------------------------
GoTo(c, step) == call' = [call EXCEPT ![c].at = step]

\* The call is over, answered or not, and its copy of the row is gone.
Finish(c) == call' = [call EXCEPT ![c] = [IdleCall EXCEPT !.at = "end"]]

\* The claim a winning call holds: its own stamp, for its own request.
ClaimOf(c) == [req |-> call[c].req, call |-> c, by |-> call[c].who,
               at |-> call[c].snap.approved_at]

\* store.update: every mutable column from the caller's copy, whatever the row
\* holds by now; approved_at alone is write-once.
StoreUpdate(c, copy) ==
    LET r == call[c].req
    IN  row' = [row EXCEPT
                  ![r].state = copy.state,
                  ![r].approver = copy.approver,
                  ![r].result = copy.result,
                  ![r].approved_at = Coalesce(row[r].approved_at, copy.approved_at)]

PendingRow(p) == [state |-> "pending", initiator |-> p, approver |-> None,
                  expires_at |-> now + Window, approved_at |-> None, result |-> FALSE]

\* requestApproval: insert a pending row that expires Window later.
Create(c, p, r) ==
    /\ call[c].at = "idle"
    /\ p \in Initiators
    /\ row[r].state = "none"
    /\ row' = [row EXCEPT ![r] = PendingRow(p)]
    /\ call' = [call EXCEPT ![c] = [at |-> "audit", op |-> "request",
                                    who |-> p, req |-> r, snap |-> PendingRow(p)]]
    /\ UNCHANGED <<now, claims, runs, trail>>

\* getFor, up to store.get: the caller's copy of the row, for a party to it
\* (the initiator, spelled exactly, or a holder of the approver scope).
\* listPendingFor copies every pending row, and settles it, for anybody.
Fetch(c, op, p, r) ==
    /\ call[c].at = "idle"
    /\ row[r].state # "none"
    /\ \/ p = row[r].initiator \/ p \in Approvers
       \/ op = "read" /\ row[r].state = "pending"
    /\ call' = [call EXCEPT ![c] = [at |-> "fetched", op |-> op, who |-> p,
                                    req |-> r, snap |-> row[r]]]
    /\ UNCHANGED <<row, now, claims, runs, trail>>

\* settleExpiry's test on the copy, then approve's and reject's state checks.
CheckWindow(c) ==
    LET snap == call[c].snap
        live == snap.state = "pending"
        overdue == live /\ now > snap.expires_at
    IN  /\ call[c].at = "fetched"
        /\ CASE overdue -> GoTo(c, "expire")
             [] live /\ ~overdue /\ call[c].op = "approve" -> GoTo(c, "decide")
             [] live /\ ~overdue /\ call[c].op = "reject" -> GoTo(c, "reject")
             [] OTHER -> Finish(c)
        /\ UNCHANGED <<row, now, claims, runs, trail>>

\* settleExpiry's write: timed_out over whatever the row holds.
WriteTimeout(c) ==
    LET copy == [call[c].snap EXCEPT !.state = "timed_out"]
    IN  /\ call[c].at = "expire"
        /\ StoreUpdate(c, copy)
        /\ call' = [call EXCEPT ![c].at = "audit", ![c].snap = copy]
        /\ UNCHANGED <<now, claims, runs, trail>>

\* Slip: subjects compared as they are spelled.
MayApproveBySubject(c) ==
    /\ call[c].who # call[c].snap.initiator
    /\ call[c].who \in Approvers
    /\ now <= call[c].snap.expires_at

\* Slip: the window is trusted to be as open as when the row was read.
MayApproveAnytime(c) ==
    /\ Human[call[c].who] # Human[call[c].snap.initiator]
    /\ call[c].who \in Approvers

\* approve's refusals: not the initiator under any spelling, the approver
\* scope, and the window by the clock as it is now.
MayApprove(c) ==
    /\ Human[call[c].who] # Human[call[c].snap.initiator]
    /\ call[c].who \in Approvers
    /\ now <= call[c].snap.expires_at

\* ... and its stamp, put on the copy before anything is written.
Decide(c) ==
    /\ call[c].at = "decide"
    /\ IF MayApprove(c)
       THEN call' = [call EXCEPT
                       ![c].at = "claim",
                       ![c].snap = [call[c].snap EXCEPT !.state = "approved",
                                                        !.approver = call[c].who,
                                                        !.approved_at = now]]
       ELSE Finish(c)
    /\ UNCHANGED <<row, now, claims, runs, trail>>

\* Slip: any row that exists can be claimed.
ClaimableOnceCreated(r) == row[r].state # "none"

\* Slip: only an approved row is refused.
ClaimableUnlessApproved(r) == row[r].state \notin {"none", "approved"}

\* The WHERE clause of claimForApproval.
Claimable(r) == row[r].state = "pending"

\* claimForApproval: one conditional UPDATE, the compare-and-swap.
ClaimRow(c) ==
    LET r == call[c].req
    IN  /\ call[c].at = "claim"
        /\ IF Claimable(r)
           THEN /\ row' = [row EXCEPT
                             ![r].state = "approved",
                             ![r].approver = call[c].who,
                             ![r].approved_at = Coalesce(row[r].approved_at,
                                                         call[c].snap.approved_at)]
                /\ claims' = claims \cup {ClaimOf(c)}
                /\ GoTo(c, "execute")
           ELSE /\ Finish(c)
                /\ UNCHANGED <<row, claims>>
        /\ UNCHANGED <<now, runs, trail>>

\* Slip: the approval is audited before the operation runs.
AuditFirst(c) ==
    /\ call[c].at = "execute"
    /\ GoTo(c, "audit")
    /\ UNCHANGED <<row, now, claims, runs, trail>>

\* op.execute is called.
Execute(c) ==
    /\ call[c].at = "execute"
    /\ runs' = runs \cup {ClaimOf(c)}
    /\ GoTo(c, "running")
    /\ UNCHANGED <<row, now, claims, trail>>

\* op.execute returns: execution_result goes into the copy.
Returns(c) ==
    /\ call[c].at = "running"
    /\ call' = [call EXCEPT ![c].at = "persist", ![c].snap.result = TRUE]
    /\ UNCHANGED <<row, now, claims, runs, trail>>

\* op.execute throws: the exception leaves approve, nothing more is written.
Throws(c) ==
    /\ call[c].at = "running"
    /\ Finish(c)
    /\ UNCHANGED <<row, now, claims, runs, trail>>

\* approve's closing store.update, from the copy stamped before the claim.
Persist(c) ==
    /\ call[c].at = "persist"
    /\ StoreUpdate(c, call[c].snap)
    /\ GoTo(c, "audit")
    /\ UNCHANGED <<now, claims, runs, trail>>

\* reject's scope check and its store.update.  The table's CHECK refuses an
\* approver equal to the initiator, letter for letter.
Reject(c) ==
    LET copy == [call[c].snap EXCEPT !.state = "rejected", !.approver = call[c].who]
    IN  /\ call[c].at = "reject"
        /\ IF call[c].who \in Approvers /\ copy.approver # copy.initiator
           THEN /\ StoreUpdate(c, copy)
                /\ call' = [call EXCEPT ![c].at = "audit", ![c].snap = copy]
           ELSE /\ Finish(c)
                /\ UNCHANGED row
        /\ UNCHANGED <<now, claims, runs, trail>>

\* auditEvent, and the answer.
Audit(c) ==
    /\ call[c].at = "audit"
    /\ trail' = trail \cup {[event |-> call[c].snap.state, req |-> call[c].req, call |-> c]}
    /\ Finish(c)
    /\ UNCHANGED <<row, now, claims, runs>>

\* The process serving the call dies between two awaits.
Crash(c) ==
    /\ call[c].at \notin {"idle", "end"}
    /\ Finish(c)
    /\ UNCHANGED <<row, now, claims, runs, trail>>

Tick ==
    /\ now < MaxNow
    /\ now' = now + 1
    /\ UNCHANGED <<row, call, claims, runs, trail>>

Progress(c) ==
    \/ CheckWindow(c) \/ WriteTimeout(c) \/ Decide(c) \/ ClaimRow(c)
    \/ Execute(c) \/ Returns(c) \/ Throws(c) \/ Persist(c) \/ Reject(c) \/ Audit(c)

Next ==
    \/ \E c \in Calls, p \in Principals, r \in Requests :
          \/ Create(c, p, r)
          \/ \E op \in {"approve", "reject", "read"} : Fetch(c, op, p, r)
    \/ \E c \in Calls : Progress(c) \/ Crash(c)
    \/ Tick

Spec == Init /\ [][Next]_vars

-----------------------------------------------------------------------------
(* Properties *)

TypeOK ==
    /\ row \in [Requests -> Row]
    /\ call \in [Calls -> Call]
    /\ now \in 0 .. MaxNow
    /\ claims \subseteq Claim
    /\ runs \subseteq claims
    /\ trail \subseteq AuditEvent
    /\ \A c \in Calls :
          call[c].at \notin {"idle", "end"} => /\ call[c].req \in Requests
                                               /\ call[c].who \in Principals

\* However approvers, rejecters and readers interleave, the operation behind a
\* request is started at most once, by one call.
AtMostOneExecution ==
    \A x, y \in runs : x.req = y.req => x = y

\* An operation only ever starts for a second person holding the approver
\* scope, on a claim stamped inside the window, and that stamp is the one the
\* row carries as its evidence, for as long as the row exists.
ExecutionIsFourEyes ==
    \A x \in runs :
        /\ Human[x.by] # Human[row[x.req].initiator]
        /\ x.by \in Approvers
        /\ row[x.req].approved_at = x.at
        /\ x.at <= row[x.req].expires_at

\* A request that was rejected or timed out before anybody claimed it can never
\* be executed: not by a call that read it while it was still pending either.
ShutBeforeClaimIsFinal ==
    [][\A r \in Requests :
          row[r].state \in {"rejected", "timed_out"} /\ row[r].approved_at = None
          => /\ row'[r].approved_at = None
             /\ \A x \in runs' : x.req # r]_vars

\* approved_at, the timing evidence payable dispatch relies on, is never
\* restamped or erased by a later writer.
ApprovedAtIsWriteOnce ==
    [][\A r \in Requests :
          row[r].approved_at # None => row'[r].approved_at = row[r].approved_at]_vars

\* The audit trail says "approved" only of the call that won the claim, ran
\* the operation and saw it return.
AuditedApprovalsRan ==
    \A e \in trail : e.event = "approved" =>
        \E x \in runs : x.req = e.req /\ x.call = e.call

\* What the PRD says of approval_request: "Immutable on resolution".
ResolutionIsImmutable ==
    [][\A r \in Requests : row[r].state \in Resolved => row'[r].state = row[r].state]_vars

-----------------------------------------------------------------------------
\* The gate as its operations see it: what became of the request, not what the
\* state column says about it by now.
Gate ==
    [r \in Requests |->
        CASE \E x \in runs : x.req = r -> "acted"
          [] (\E x \in claims : x.req = r) /\ ~(\E x \in runs : x.req = r) -> "granted"
          [] ~(\E x \in claims : x.req = r) /\ row[r].state = "none" -> "none"
          [] ~(\E x \in claims : x.req = r) /\ row[r].state = "pending" -> "open"
          [] OTHER -> "shut"]

Abstract == INSTANCE FourEyes WITH
    gate <- Gate,
    initiator <- [r \in Requests |-> row[r].initiator],
    deadline <- [r \in Requests |-> row[r].expires_at],
    grants <- claims,
    acts <- runs,
    Instants <- 0 .. (MaxNow + Window)

\* Every behaviour of the service is one the gate's promise allows.
ImplementsFourEyes == Abstract!Spec

\* The row as gated operations meet it, with humans for subjects.
HumanOf(p) == IF p = None THEN None ELSE Human[p]

Behind == INSTANCE GateRow WITH
    entry <- [r \in Requests |-> [state |-> row[r].state,
                                  initiator |-> HumanOf(row[r].initiator),
                                  approver |-> HumanOf(row[r].approver)]],
    winner <- [r \in Requests |-> IF \E x \in claims : x.req = r
                                  THEN HumanOf((CHOOSE x \in claims : x.req = r).by)
                                  ELSE None],
    People <- {Human[p] : p \in Principals}

\* ... and one that PayablePeriod, which is built on that row, is ready for.
ImplementsGateRow == Behind!Spec
=============================================================================
