--------------------------- MODULE PayablePeriod ---------------------------
(***************************************************************************)
(* Closing one cost period and honouring the direct debits it authorises:  *)
(* services/bff/src/billing/payable-close.ts, payable-dispatch.ts and      *)
(* packages/db/src/billing-payable-store.ts, behind the four-eyes row of   *)
(* GateRow, with the financial system (P9) on the other side.              *)
(*                                                                         *)
(* Subjects are humans throughout: every comparison made here is between   *)
(* normalised subjects.  The approval is granted in time and stamped, or   *)
(* it is not granted (FourEyes), so the clock is left out.                 *)
(***************************************************************************)
EXTENDS Naturals, Sequences

CONSTANTS
    Requests,       \* approval requests to close the period
    People,         \* humans holding finance:reconciliation:write
    Payables,       \* reconciliations of the period, each one payable
    Keys,           \* Idempotency-Key values
    KeyOf,          \* KeyOf[k]: the payable a client uses key k for
    Calls,          \* dispatch calls
    Lines,          \* material diff lines of the period
    None            \* SQL NULL

VARIABLES
    entry,          \* the approval_request rows, and
    winner,         \* who won the claim on each (GateRow)
    job,            \* job[r]: how far r's request or execution has come, and who drives it
    brk,            \* brk[b]: status of the E1 break behind diff line b
    close,          \* the billing_tpp_cost_period_close row
    disp,           \* disp[c]: dispatch call c
    p9,             \* p9[k]: the instruction P9 holds under key k
    begun,          \* dispatch calls in the order their transactions began
    ledger          \* the billing_tpp_cost_ap_dispatch rows

approvalVars == <<entry, winner>>
closeVars == <<job, close>>
dispatchVars == <<disp, p9, begun, ledger>>
vars == <<approvalVars, closeVars, brk, dispatchVars>>

Gate == INSTANCE GateRow
Life == INSTANCE BreakLife

-----------------------------------------------------------------------------
JobStep == {"none", "unclosed", "asked",
            "granted", "checked", "saved", "done", "blocked", "failed"}
Job == [at : JobStep, by : People \cup {None}]

Close == [req : Requests, initiated_by : People, approved_by : People]

P9Status == {"dispatched", "collected", "rejected"}
Instruction == [payable : Payables, status : P9Status, by : People, req : Requests]

ASSUME PayableAssumption ==
    /\ None \notin People \cup Requests \cup Close \cup Instruction
    /\ KeyOf \in [Keys -> Payables]

LedgerState == {"dispatched", "accepted", "rejected"}
LedgerRow == [key : Keys, state : LedgerState, payable : Payables, req : Requests,
              initiated_by : People, approved_by : People, began : Nat]

DispatchStep == {"idle", "authorised", "answered", "recording", "inserting",
                 "ok", "failed"}
Dispatch == [at : DispatchStep, by : People \cup {None}, payable : Payables \cup {None},
             key : Keys \cup {None}, req : Requests \cup {None},
             status : P9Status \cup {None}, row : LedgerRow \cup {None}]

IdleDispatch == [at |-> "idle", by |-> None, payable |-> None, key |-> None,
                 req |-> None, status |-> None, row |-> None]

Init ==
    /\ Gate!Init
    /\ job = [r \in Requests |-> [at |-> "none", by |-> None]]
    /\ Life!Init
    /\ close = None
    /\ disp = [c \in Calls |-> IdleDispatch]
    /\ p9 = [k \in Keys |-> None]
    /\ begun = <<>>
    /\ ledger = {}

-----------------------------------------------------------------------------
(* The breaks of the period, worked elsewhere (BreakWorkflow). *)

\* OPEN_PAYABLE_BREAKS_SQL: raised, and not resolved.
OpenBreaks == {b \in Lines : brk[b] \in {"flagged", "escalated"}}

Break(b) ==
    /\ Life!Move(b)
    /\ UNCHANGED <<approvalVars, closeVars, dispatchVars>>

-----------------------------------------------------------------------------
(* Requesting and executing the close. *)

SetJob(r, step, p) == job' = [job EXCEPT ![r] = [at |-> step, by |-> p]]
JobAt(r, step) == SetJob(r, step, job[r].by)
EndJob(r, step) == SetJob(r, step, None)

\* requestClose: the period is not closed yet,
AskUnclosed(r, p) ==
    /\ job[r].at = "none"
    /\ close = None
    /\ SetJob(r, "unclosed", p)
    /\ UNCHANGED <<approvalVars, close, brk, dispatchVars>>

\* and no material break is open: the request goes to the gate.
Ask(r) ==
    /\ job[r].at = "unclosed"
    /\ IF OpenBreaks = {}
       THEN Gate!Create(r, job[r].by) /\ EndJob(r, "asked")
       ELSE EndJob(r, "blocked") /\ UNCHANGED approvalVars
    /\ UNCHANGED <<close, brk, dispatchVars>>

\* POST /approvals takes the operation's name from anybody who may initiate it,
\* and asks neither question.
AskDirectly(r, p) ==
    /\ job[r].at = "none"
    /\ Gate!Create(r, p)
    /\ EndJob(r, "asked")
    /\ UNCHANGED <<close, brk, dispatchVars>>

\* Somebody rejects or expires the request, on a copy as old as may be.
Refuse(r) ==
    /\ Gate!TimeOut(r) \/ \E p \in People : Gate!Reject(r, p)
    /\ UNCHANGED <<closeVars, brk, dispatchVars>>

\* approve's claim; it calls executeClose.
Grant(r, p) ==
    /\ Gate!Grant(r, p)
    /\ SetJob(r, "granted", p)
    /\ UNCHANGED <<close, brk, dispatchVars>>

\* executeClose: two people (or an exception, as if crashed), and no break open
\* by now.
ExecuteClose(r) ==
    /\ job[r].at = "granted"
    /\ job[r].by # entry[r].initiator
    /\ IF OpenBreaks = {} THEN JobAt(r, "checked") ELSE EndJob(r, "blocked")
    /\ UNCHANGED <<approvalVars, close, brk, dispatchVars>>

\* Slip: the evidence is read without asking whether the row is approved.
EvidenceOfAnyRow(r) == entry[r].approver \notin {None, entry[r].initiator}

\* fourEyesEvidence: the row is approved and names two people.
Evidence(r) ==
    /\ entry[r].state = "approved"
    /\ entry[r].approver \notin {None, entry[r].initiator}

\* Slip: any close on file counts as this one.
InsertIfAbsent(r) ==
    IF close = None
    THEN /\ close' = [req |-> r, initiated_by |-> entry[r].initiator,
                      approved_by |-> entry[r].approver]
         /\ JobAt(r, "saved")
    ELSE JobAt(r, "saved") /\ UNCHANGED close

\* The INSERT ... ON CONFLICT DO NOTHING of saveClose: a period closed under
\* another approval is refused.
InsertClose(r) ==
    IF close = None
    THEN /\ close' = [req |-> r, initiated_by |-> entry[r].initiator,
                      approved_by |-> entry[r].approver]
         /\ JobAt(r, "saved")
    ELSE /\ IF close.req = r THEN JobAt(r, "saved") ELSE EndJob(r, "failed")
         /\ UNCHANGED close

\* Slip: the names on the row are taken without a look.
MaySaveAnyway(r) == TRUE

\* Slip: any two names will do.
MaySaveAnyNames(r) == EvidenceOfAnyRow(r)

\* The row is approved, and names the caller as its approver.
MaySave(r) == Evidence(r) /\ entry[r].approver = job[r].by

\* saveClose: one transaction, which takes the names it writes from the row.
SaveClose(r) ==
    /\ job[r].at = "checked"
    /\ IF MaySave(r)
       THEN InsertClose(r)
       ELSE EndJob(r, "failed") /\ UNCHANGED close
    /\ UNCHANGED <<approvalVars, brk, dispatchVars>>

\* Back in approve.
PersistApproval(r) ==
    /\ job[r].at = "saved"
    /\ Gate!Persist(r)
    /\ EndJob(r, "done")
    /\ UNCHANGED <<close, brk, dispatchVars>>

\* The process dies under a request or an execution.
CrashJob(r) ==
    /\ job[r].at \in {"unclosed", "granted", "checked", "saved"}
    /\ EndJob(r, "failed")
    /\ UNCHANGED <<approvalVars, close, brk, dispatchVars>>

-----------------------------------------------------------------------------
(* Dispatching a payable. *)

SetDispatch(c, d) == disp' = [disp EXCEPT ![c] = d]
DispatchAt(c, step) == SetDispatch(c, [disp[c] EXCEPT !.at = step])
Answered(c) == SetDispatch(c, [disp[c] EXCEPT !.at = "ok", !.by = None, !.row = None])
Fails(c) == SetDispatch(c, [IdleDispatch EXCEPT !.at = "failed"])

\* Slip: the dispatcher is checked against the row, approved or not.
AuthorisesAnyVerdict(r, p) ==
    /\ EvidenceOfAnyRow(r)
    /\ p \in {entry[r].initiator, entry[r].approver}

\* assertApprovalAuthorises: the cited approval stands, and the dispatcher is
\* one of the two people who made it.
Authorises(r, p) ==
    /\ Evidence(r)
    /\ p \in {entry[r].initiator, entry[r].approver}

\* dispatch, up to the instruction: approvedPayable joins the period's close in,
\* and without one the payable has no approval to cite.
Authorise(c, p, k) ==
    /\ disp[c].at = "idle"
    /\ close # None
    /\ Authorises(close.req, p)
    /\ SetDispatch(c, [IdleDispatch EXCEPT !.at = "authorised", !.by = p, !.key = k,
                                           !.payable = KeyOf[k], !.req = close.req])
    /\ UNCHANGED <<approvalVars, closeVars, brk, p9, begun, ledger>>

\* P9's answer: the instruction it holds under the key, whatever became of it.
Answer(k) == IF p9[k] = None THEN "dispatched" ELSE p9[k].status

\* dispatchPayableInstruction: P9 takes the instruction once per key; the reply
\* may be lost on the way back.
Send(c) ==
    LET k == disp[c].key
        instruction == [payable |-> disp[c].payable, status |-> "dispatched",
                        by |-> disp[c].by, req |-> disp[c].req]
    IN  /\ disp[c].at = "authorised"
        /\ p9' = [p9 EXCEPT ![k] = IF p9[k] = None THEN instruction ELSE p9[k]]
        /\ \/ SetDispatch(c, [disp[c] EXCEPT !.at = "answered", !.status = Answer(k)])
           \/ Fails(c)
        /\ UNCHANGED <<approvalVars, closeVars, brk, begun, ledger>>

\* P9 collects the debit or rejects it.
P9Settles(k) ==
    /\ p9[k] # None
    /\ p9[k].status = "dispatched"
    /\ \E status \in {"collected", "rejected"} : p9' = [p9 EXCEPT ![k].status = status]
    /\ UNCHANGED <<approvalVars, closeVars, brk, disp, begun, ledger>>

\* Slip: a debit that was only sent off counts as accepted.
LedgerStateOfSent(status) == IF status = "rejected" THEN "rejected" ELSE "accepted"

\* payableLedgerDispatchState; the three statuses P9 has for a debit in flight
\* are one here as they are on the ledger.
LedgerStateOf(status) == IF status = "collected" THEN "accepted" ELSE status

\* recordDispatch: its transaction begins, which is what created_at says ...
BeginRecord(c) ==
    /\ disp[c].at = "answered"
    /\ begun' = Append(begun, c)
    /\ DispatchAt(c, "recording")
    /\ UNCHANGED <<approvalVars, closeVars, brk, p9, ledger>>

\* LEGAL_NEXT, between the states that are ever recorded.
LegalNext(state) == IF state = "dispatched" THEN {"accepted", "rejected"} ELSE {}

RowsUnder(k) == {x \in ledger : x.key = k}
Latest(rows) == CHOOSE x \in rows : \A y \in rows : y.began <= x.began

NewRow(c) ==
    LET r == disp[c].req
    IN  [key |-> disp[c].key, state |-> LedgerStateOf(disp[c].status),
         payable |-> disp[c].payable, req |-> r,
         initiated_by |-> entry[r].initiator, approved_by |-> entry[r].approver,
         began |-> CHOOSE n \in DOMAIN begun : begun[n] = c]

\* ... reads the approval once more and the states already under the key; the
\* state on file is answered as it stands, one that cannot follow is refused ...
ReadLedger(c) ==
    LET new == NewRow(c)
        rows == RowsUnder(new.key)
        again == rows # {} /\ Latest(rows).state = new.state
        legal == rows = {} \/ new.state \in LegalNext(Latest(rows).state)
    IN  /\ disp[c].at = "recording"
        /\ CASE ~Evidence(new.req) -> Fails(c)
             [] Evidence(new.req) /\ again -> Answered(c)
             [] Evidence(new.req) /\ ~again /\ legal ->
                    SetDispatch(c, [disp[c] EXCEPT !.at = "inserting", !.row = new])
             [] OTHER -> Fails(c)
        /\ UNCHANGED <<approvalVars, closeVars, brk, p9, begun, ledger>>

\* Slip: one row per instruction, whatever its state.
HeldUnderKey(new) == \E x \in ledger : x.key = new.key

\* UNIQUE (key, state).
Held(new) == \E x \in ledger : x.key = new.key /\ x.state = new.state

\* ... and inserts, ON CONFLICT DO NOTHING.
InsertRow(c) ==
    /\ disp[c].at = "inserting"
    /\ ledger' = IF Held(disp[c].row) THEN ledger ELSE ledger \cup {disp[c].row}
    /\ Answered(c)
    /\ UNCHANGED <<approvalVars, closeVars, brk, p9, begun>>

\* The process dies under a dispatch, or P9 is never reached.
CrashDispatch(c) ==
    /\ disp[c].at \notin {"idle", "ok", "failed"}
    /\ Fails(c)
    /\ UNCHANGED <<approvalVars, closeVars, brk, p9, begun, ledger>>

CloseStep(r) ==
    \/ Ask(r) \/ Refuse(r) \/ ExecuteClose(r) \/ SaveClose(r)
    \/ PersistApproval(r) \/ CrashJob(r)
    \/ \E p \in People : AskUnclosed(r, p) \/ AskDirectly(r, p) \/ Grant(r, p)

DispatchCall(c) ==
    \/ Send(c) \/ BeginRecord(c) \/ ReadLedger(c) \/ InsertRow(c)
    \/ CrashDispatch(c)
    \/ \E p \in People, k \in Keys : Authorise(c, p, k)

Next ==
    \/ \E b \in Lines : Break(b)
    \/ \E r \in Requests : CloseStep(r)
    \/ \E c \in Calls : DispatchCall(c)
    \/ \E k \in Keys : P9Settles(k)

Spec == Init /\ [][Next]_vars

-----------------------------------------------------------------------------
(* Properties *)

TypeOK ==
    /\ Gate!TypeOK
    /\ job \in [Requests -> Job]
    /\ Life!TypeOK
    /\ close \in Close \cup {None}
    /\ disp \in [Calls -> Dispatch]
    /\ p9 \in [Keys -> Instruction \cup {None}]
    /\ begun \in Seq(Calls)
    /\ ledger \subseteq LedgerRow

\* The close names the human who asked and the human whose claim won, two
\* people, and goes on naming them whatever becomes of the approval row.
CloseNamesItsGrant ==
    close # None =>
        /\ close.initiated_by = entry[close.req].initiator
        /\ close.approved_by = winner[close.req]
        /\ close.initiated_by # close.approved_by

\* Of two approvals granted for one period, only one execution is told that it
\* closed the period.
OneCloseSucceeds ==
    \A r, s \in Requests :
        job[r].at \in {"saved", "done"} /\ job[s].at \in {"saved", "done"} => r = s

\* Every instruction P9 holds was sent under the close of the period, by one of
\* the two people who made it.
DebitsAreAuthorised ==
    \A k \in Keys :
        p9[k] # None =>
            /\ close # None
            /\ p9[k].req = close.req
            /\ p9[k].by \in {close.initiated_by, close.approved_by}

\* The ledger's evidence is the close's: the same approval, the same two names.
LedgerCitesTheClose ==
    \A x \in ledger :
        /\ close # None
        /\ x.req = close.req
        /\ x.initiated_by = close.initiated_by
        /\ x.approved_by = close.approved_by

\* A ledger row is about an instruction P9 holds for that payable, and says
\* accepted or rejected only of one that was collected or rejected.
LedgerIsBackedByP9 ==
    \A x \in ledger :
        /\ p9[x.key] # None
        /\ p9[x.key].payable = x.payable
        /\ x.state = "accepted" => p9[x.key].status = "collected"
        /\ x.state = "rejected" => p9[x.key].status = "rejected"

\* A dispatch that was answered is on the ledger, with the state it reported.
AnsweredIsRecorded ==
    \A c \in Calls :
        disp[c].at = "ok" =>
            \E x \in ledger : /\ x.key = disp[c].key
                              /\ x.payable = disp[c].payable
                              /\ x.state = LedgerStateOf(disp[c].status)

\* What executeClose's second look is for: the close of a period with a material
\* break open is never written.
ClosesOnlyWhenClear == [][close = None /\ close' # None => OpenBreaks = {}]_vars

\* What LEGAL_NEXT is for: in the order of created_at, a terminal state has no
\* successor.
TerminalIsLast ==
    \A x, y \in ledger :
        x.key = y.key /\ x.began < y.began => y.state \in LegalNext(x.state)
=============================================================================
