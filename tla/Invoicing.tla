----------------------------- MODULE Invoicing -----------------------------
(***************************************************************************)
(* Monthly invoicing of the consuming TPPs, reconcile before invoice:      *)
(* services/bff/src/tpp-billing/invoicing.ts over packages/db/src/         *)
(* tpp-invoicing-store.ts.  A billing file is matched against the bank's   *)
(* own metering; a file without variances may be invoiced; the invoice run *)
(* goes to the financial system (P9) behind the four-eyes row of GateRow.  *)
(*                                                                         *)
(* No write of either store looks at what it overwrites, and any call may  *)
(* stop between two of them.                                               *)
(***************************************************************************)
EXTENDS Naturals, FiniteSets

CONSTANTS
    Requests,       \* approval requests for an invoice run
    People,         \* humans holding billing:write
    Files,          \* billing_record_set ids
    Matches,        \* reconcile calls
    InvoiceRuns,    \* invoice_run ids, one for each createInvoiceRun call
    MaxVariances,   \* bound on the variances of one file
    None            \* SQL NULL

ASSUME InvoicingAssumption ==
    /\ MaxVariances \in Nat
    /\ None \notin People \cup Files \cup InvoiceRuns
    /\ IsFiniteSet(Requests)

VARIABLES
    entry,          \* the approval_request rows, and
    winner,         \* who won the claim on each (GateRow)
    variances,      \* variances[f]: what the match of file f finds, each time
    file,           \* file[f]: the billing_record_set row
    breaks,         \* breaks[f]: reconciliation_break rows raised for f
    match,          \* match[c]: a reconcile call
    invoice,        \* invoice[i]: the invoice_run row and the call that makes it
    job,            \* job[r]: the invoice run request r names, and how far its execution is
    sent,           \* sent[i]: times the instructions of run i reached P9
    trail           \* requests with a tpp_invoice_run_dispatched event

gateVars == <<entry, winner>>
fileVars == <<variances, file, breaks, match>>
runVars == <<job, sent, trail>>
vars == <<gateVars, fileVars, invoice, runVars>>

Gate == INSTANCE GateRow

-----------------------------------------------------------------------------
FileStatus == {"none", "ingested", "reconciled_clean", "reconciled_with_breaks"}
File == [status : FileStatus, open : 0..MaxVariances]

MatchStep == {"none", "matched", "raised", "done", "failed"}
Match == [at : MatchStep, file : Files \cup {None}]

InvoiceStep == {"none", "allowed", "created", "asked", "done", "failed"}
Invoice == [at : InvoiceStep, status : {"none", "pending_approval", "dispatched_to_p9"},
            file : Files \cup {None}]

JobStep == {"none", "asked", "granted", "sent", "marked", "audited", "done", "failed"}
Job == [at : JobStep, run : InvoiceRuns \cup {None}]

Init ==
    /\ Gate!Init
    /\ variances \in [Files -> 0..MaxVariances]
    /\ file = [f \in Files |-> [status |-> "none", open |-> 0]]
    /\ breaks = [f \in Files |-> 0]
    /\ match = [c \in Matches |-> [at |-> "none", file |-> None]]
    /\ invoice = [i \in InvoiceRuns |-> [at |-> "none", status |-> "none", file |-> None]]
    /\ job = [r \in Requests |-> [at |-> "none", run |-> None]]
    /\ sent = [i \in InvoiceRuns |-> 0]
    /\ trail = {}

-----------------------------------------------------------------------------
(* Steps 1 to 3: ingest, and reconcile. *)

\* ingest: the row goes in; its audit event follows.
Ingest(f) ==
    /\ file[f].status = "none"
    /\ file' = [file EXCEPT ![f].status = "ingested"]
    /\ UNCHANGED <<gateVars, variances, breaks, match, invoice, runVars>>

MatchGoes(c, step) == match' = [match EXCEPT ![c].at = step]

\* reconcile, up to the three-way match: another call may have read the row too.
CheckIngested(c, f) ==
    /\ match[c].at = "none"
    /\ file[f].status = "ingested"
    /\ match' = [match EXCEPT ![c] = [at |-> "matched", file |-> f]]
    /\ UNCHANGED <<gateVars, variances, file, breaks, invoice, runVars>>

\* breakSink.createMany, one row for each variance and nothing that joins them to the
\* rows of an earlier call.
RaiseBreaks(c) ==
    LET f == match[c].file
    IN  /\ match[c].at = "matched"
        /\ breaks' = [breaks EXCEPT ![f] = @ + variances[f]]
        /\ MatchGoes(c, "raised")
        /\ UNCHANGED <<gateVars, variances, file, invoice, runVars>>

\* Slip: the file is marked before its breaks are raised.
MarkEarly(c) ==
    LET f == match[c].file
    IN  /\ match[c].at \in {"matched", "raised"}
        /\ file' = [file EXCEPT ![f] =
               [status |-> IF variances[f] > 0 THEN "reconciled_with_breaks"
                                               ELSE "reconciled_clean",
                open |-> variances[f]]]
        /\ MatchGoes(c, "done")
        /\ UNCHANGED <<gateVars, variances, breaks, invoice, runVars>>

\* markReconciled, by id alone; the audit event and the answer follow.
MarkReconciled(c) ==
    /\ match[c].at = "raised"
    /\ MarkEarly(c)

CrashMatch(c) ==
    /\ match[c].at \in {"matched", "raised"}
    /\ MatchGoes(c, "failed")
    /\ UNCHANGED <<gateVars, variances, file, breaks, invoice, runVars>>

-----------------------------------------------------------------------------
(* Step 4: the invoice run. *)

InvoiceGoes(i, step) == invoice' = [invoice EXCEPT ![i].at = step]

\* Slip: open breaks do not hold the run up, its lines are only withheld.
CheckReconciled(i, f) ==
    /\ invoice[i].at = "none"
    /\ file[f].status \notin {"none", "ingested"}
    /\ invoice' = [invoice EXCEPT ![i].at = "allowed", ![i].file = f]
    /\ UNCHANGED <<gateVars, fileVars, runVars>>

\* createInvoiceRun, up to its 409s.  The count it looks at is the one markReconciled
\* wrote: no break that is resolved takes anything off it.
CheckFile(i, f) ==
    /\ ~(file[f].status = "reconciled_with_breaks" /\ file[f].open > 0)
    /\ CheckReconciled(i, f)

\* invoiceStore.create.
CreateRun(i) ==
    /\ invoice[i].at = "allowed"
    /\ invoice' = [invoice EXCEPT ![i].at = "created", ![i].status = "pending_approval"]
    /\ UNCHANGED <<gateVars, fileVars, runVars>>

\* requestApproval.
AskRun(i, r, p) ==
    /\ invoice[i].at = "created"
    /\ job[r].at = "none"
    /\ Gate!Create(r, p)
    /\ InvoiceGoes(i, "asked")
    /\ job' = [job EXCEPT ![r] = [at |-> "asked", run |-> i]]
    /\ UNCHANGED <<fileVars, sent, trail>>

\* The closing markStatus, which puts pending_approval over whatever the approver
\* made of the row since; the audit event follows.
LinkRun(i) ==
    /\ invoice[i].at = "asked"
    /\ invoice' = [invoice EXCEPT ![i].at = "done", ![i].status = "pending_approval"]
    /\ UNCHANGED <<gateVars, fileVars, runVars>>

CrashInvoice(i) ==
    /\ invoice[i].at \in {"allowed", "created", "asked"}
    /\ InvoiceGoes(i, "failed")
    /\ UNCHANGED <<gateVars, fileVars, runVars>>

\* POST /approvals names a run of the caller's choice, on file or not.
AskDirectly(r, p, i) ==
    /\ job[r].at = "none"
    /\ Gate!Create(r, p)
    /\ job' = [job EXCEPT ![r] = [at |-> "asked", run |-> i]]
    /\ UNCHANGED <<fileVars, invoice, sent, trail>>

-----------------------------------------------------------------------------
(* The operation that runs when a second human approves. *)

JobGoes(r, step) == job' = [job EXCEPT ![r].at = step]

\* Somebody rejects or expires the request, on a copy as old as may be.
Refuse(r) ==
    /\ Gate!TimeOut(r) \/ \E p \in People : Gate!Reject(r, p)
    /\ UNCHANGED <<fileVars, invoice, runVars>>

Grant(r, p) ==
    /\ Gate!Grant(r, p)
    /\ JobGoes(r, "granted")
    /\ UNCHANGED <<fileVars, invoice, sent, trail>>

OnFile(i) == invoice[i].status # "none"

\* A run that is not on file: nothing to do, and the approval stands.
SkipUnknown(r) ==
    /\ job[r].at = "granted"
    /\ ~OnFile(job[r].run)
    /\ JobGoes(r, "audited")
    /\ UNCHANGED <<gateVars, fileVars, invoice, sent, trail>>

\* Slip: the instructions leave with the request.
DispatchInline(r) ==
    /\ job[r].at \in {"asked", "granted"}
    /\ OnFile(job[r].run)
    /\ sent' = [sent EXCEPT ![job[r].run] = @ + 1]
    /\ JobGoes(r, "sent") \/ JobGoes(r, "failed")
    /\ UNCHANGED <<gateVars, fileVars, invoice, trail>>

\* issueInvoiceInstructions, whatever the status of the run.  P9 may answer that it
\* does not accept them, and nobody looks; the answer may be lost as well.
Dispatch(r) ==
    /\ job[r].at = "granted"
    /\ DispatchInline(r)

\* markStatus.
MarkDispatched(r) ==
    /\ job[r].at = "sent"
    /\ invoice' = [invoice EXCEPT ![job[r].run].status = "dispatched_to_p9"]
    /\ JobGoes(r, "marked")
    /\ UNCHANGED <<gateVars, fileVars, sent, trail>>

AuditDispatch(r) ==
    /\ job[r].at = "marked"
    /\ trail' = trail \cup {r}
    /\ JobGoes(r, "audited")
    /\ UNCHANGED <<gateVars, fileVars, invoice, sent>>

\* Back in approve.
PersistApproval(r) ==
    /\ job[r].at = "audited"
    /\ Gate!Persist(r)
    /\ JobGoes(r, "done")
    /\ UNCHANGED <<fileVars, invoice, sent, trail>>

CrashJob(r) ==
    /\ job[r].at \in {"granted", "sent", "marked", "audited"}
    /\ JobGoes(r, "failed")
    /\ UNCHANGED <<gateVars, fileVars, invoice, sent, trail>>

-----------------------------------------------------------------------------
MatchStepOf(c) ==
    \/ RaiseBreaks(c) \/ MarkReconciled(c) \/ CrashMatch(c)
    \/ \E f \in Files : CheckIngested(c, f)

InvoiceStepOf(i) ==
    \/ CreateRun(i) \/ LinkRun(i) \/ CrashInvoice(i)
    \/ \E f \in Files : CheckFile(i, f)
    \/ \E r \in Requests, p \in People : AskRun(i, r, p) \/ AskDirectly(r, p, i)

JobStepOf(r) ==
    \/ Refuse(r) \/ SkipUnknown(r) \/ Dispatch(r) \/ MarkDispatched(r)
    \/ AuditDispatch(r) \/ PersistApproval(r) \/ CrashJob(r)
    \/ \E p \in People : Grant(r, p)

Next ==
    \/ \E f \in Files : Ingest(f)
    \/ \E c \in Matches : MatchStepOf(c)
    \/ \E i \in InvoiceRuns : InvoiceStepOf(i)
    \/ \E r \in Requests : JobStepOf(r)

Spec == Init /\ [][Next]_vars

-----------------------------------------------------------------------------
(* Properties *)

TypeOK ==
    /\ Gate!TypeOK
    /\ variances \in [Files -> 0..MaxVariances]
    /\ file \in [Files -> File]
    /\ breaks \in [Files -> Nat]
    /\ match \in [Matches -> Match]
    /\ invoice \in [InvoiceRuns -> Invoice]
    /\ job \in [Requests -> Job]
    /\ sent \in [InvoiceRuns -> Nat]
    /\ trail \subseteq Requests

\* Reconcile before invoice: whatever calls overlap and however often a run is
\* dispatched, P9 only ever got instructions for a file that was matched and is clean.
SentIsReconciled ==
    \A i \in InvoiceRuns :
        sent[i] > 0 =>
            /\ invoice[i].file # None
            /\ file[invoice[i].file] = [status |-> "reconciled_clean", open |-> 0]

\* A file that counts open breaks has them in the queue of the break workflow,
\* however many calls reconciled it and wherever they stopped.
CountedBreaksAreRaised == \A f \in Files : file[f].open <= breaks[f]

\* Every set of instructions P9 got was granted by a second human, one grant for each
\* time; a run that says it was dispatched was sent, and so was one in the trail.
SentIsGranted ==
    /\ \A i \in InvoiceRuns :
           /\ sent[i] <= Cardinality({r \in Requests :
                                          /\ job[r].run = i
                                          /\ winner[r] \notin {None, entry[r].initiator}})
           /\ invoice[i].status = "dispatched_to_p9" => sent[i] > 0
    /\ \A r \in trail : sent[job[r].run] > 0
=============================================================================
