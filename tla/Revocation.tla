----------------------------- MODULE Revocation -----------------------------
(***************************************************************************)
(* Consent revocation and the suspicion it leaves behind: the revocations  *)
(* of services/bff/src/consents (one consent, all of a PSU's, one under    *)
(* suspicion of fraud), the STR draft of services/bff/src/str over         *)
(* packages/db/src/str-draft-store.ts, and its handoff to the bank's STR   *)
(* workflow (P10).  All but the single revocation run behind the four-eyes *)
(* row of GateRow; Nebras' Consent Manager (P6) is on the other side.      *)
(***************************************************************************)
EXTENDS Naturals

CONSTANTS
    Requests,       \* approval requests
    People,         \* humans holding the scopes
    Consents,       \* the active consents of one PSU
    Drafts,         \* str_draft ids
    None            \* SQL NULL, and what a request has no use for

Operation == {"bulk_revoke", "fraud_revoke", "str_handoff"}

ASSUME RevocationAssumption ==
    None \notin Operation \cup Requests \cup People \cup Consents \cup Drafts

VARIABLES
    entry,          \* the approval_request rows, and
    winner,         \* who won the claim on each (GateRow)
    job,            \* job[r]: what r was opened for, and how far that has come
    due,            \* submits whose mark on the draft is still to be written
    revoked,        \* consents the Consent Manager has revoked
    marked,         \* consents the directory's overlay shows as revoked
    sent,           \* consents of single revocations whose answer is on its way
    draft,          \* draft[d]: the str_draft row
    told,           \* told[r]: handoffs P10 took for request r
    trail           \* requests whose execution left its event

approvalVars == <<entry, winner>>
consentVars == <<revoked, marked, sent>>
strVars == <<due, draft, told>>
vars == <<approvalVars, job, consentVars, strVars, trail>>

Gate == INSTANCE GateRow

-----------------------------------------------------------------------------
Step == {"none", "checked", "asked",
         "granted", "sent", "marked", "drafted", "audited", "done", "failed"}

Job == [op : Operation \cup {None}, at : Step, by : People \cup {None},
        consent : Consents \cup {None}, draft : Drafts \cup {None},
        active : SUBSET Consents, open : SUBSET Consents]

NoJob == [op |-> None, at |-> "none", by |-> None, consent |-> None, draft |-> None,
          active |-> {}, open |-> {}]

Draft == [status : {"none", "draft", "awaiting_handoff", "handed_off"},
          consent : Consents \cup {None}, approval : Requests \cup {None},
          ref : Requests \cup {None}, approver : People \cup {None}]

NoDraft == [status |-> "none", consent |-> None, approval |-> None, ref |-> None,
            approver |-> None]

Init ==
    /\ Gate!Init
    /\ job = [r \in Requests |-> NoJob]
    /\ due = {}
    /\ revoked = {}
    /\ marked = {}
    /\ sent = {}
    /\ draft = [d \in Drafts |-> NoDraft]
    /\ told = [r \in Requests |-> 0]
    /\ trail = {}

OnFile(d) == draft[d].status # "none"

\* A step of r's job, and one that is its last.
JobGoes(r, step) == job' = [job EXCEPT ![r].at = step]
MayFailAfter(r, step) == JobGoes(r, step) \/ JobGoes(r, "failed")
Doing(r, op, step) == job[r].op = op /\ job[r].at = step

\* The Consent Manager takes a revocation; a second one changes nothing.
Revoke(cs) == revoked' = revoked \cup cs

\* markRevoked, on the overlay of this instance of the application.
Overlay(cs) == marked' = marked \cup cs

\* The next request is served by an instance with an overlay of its own.
Recycle ==
    /\ marked' = {}
    /\ UNCHANGED <<approvalVars, job, revoked, sent, strVars, trail>>

-----------------------------------------------------------------------------
(* One consent, on one person's word: revoke. *)

SendOne(x) ==
    /\ Revoke({x})
    /\ sent' = sent \cup {x}
    /\ UNCHANGED <<approvalVars, job, marked, strVars, trail>>

\* The acknowledgement arrives.  The event that follows changes nothing here.
AckOne(x) ==
    /\ x \in sent
    /\ Overlay({x})
    /\ sent' = sent \ {x}
    /\ UNCHANGED <<approvalVars, job, revoked, strVars, trail>>

\* The answer is lost, and the call with it.
DropOne(x) ==
    /\ x \in sent
    /\ sent' = sent \ {x}
    /\ UNCHANGED <<approvalVars, job, revoked, marked, strVars, trail>>

-----------------------------------------------------------------------------
(* What the gated operations share. *)

\* requestApproval for a revocation.
AskRevocation(r, p, op, x) ==
    /\ job[r].at = "none"
    /\ Gate!Create(r, p)
    /\ job' = [job EXCEPT ![r] = [NoJob EXCEPT !.op = op, !.at = "asked", !.consent = x]]
    /\ UNCHANGED <<consentVars, strVars, trail>>

\* The bulk one is of whatever consents are active when it runs; it has looked its PSU
\* up, which changes nothing.
AskBulk(r, p) == AskRevocation(r, p, "bulk_revoke", None)

\* The fraud one names its consent.
AskFraud(r, p, x) == AskRevocation(r, p, "fraud_revoke", x)

\* Somebody rejects or expires the request, on a copy as old as may be.
Refuse(r) ==
    /\ Gate!TimeOut(r) \/ \E p \in People : Gate!Reject(r, p)
    /\ UNCHANGED <<job, consentVars, strVars, trail>>

\* approve's claim; it calls the operation.
Grant(r, p) ==
    /\ Gate!Grant(r, p)
    /\ JobGoes(r, "granted")
    /\ UNCHANGED <<consentVars, strVars, trail>>

\* The event of an execution: the grouped one of a sweep, consent_revoked with its
\* draft's id, str_draft_handed_off.
Audit(r) ==
    /\ job[r].at \in {"marked", "drafted"}
    /\ job[r].op = "fraud_revoke" => job[r].at = "drafted"
    /\ trail' = trail \cup {r}
    /\ JobGoes(r, "audited")
    /\ UNCHANGED <<approvalVars, consentVars, strVars>>

\* Back in approve.
PersistApproval(r) ==
    /\ job[r].at = "audited"
    /\ Gate!Persist(r)
    /\ JobGoes(r, "done")
    /\ UNCHANGED <<consentVars, strVars, trail>>

\* The execution dies between two steps: a sink, the database or the process.
CrashJob(r) ==
    /\ job[r].at \in {"checked", "granted", "sent", "marked", "drafted", "audited"}
    /\ JobGoes(r, "failed")
    /\ UNCHANGED <<approvalVars, consentVars, strVars, trail>>

-----------------------------------------------------------------------------
(* All of a PSU's consents: makeBulkRevokeOperation. *)

\* search, and one egress for each consent it shows as active.
BeginSweep(r) ==
    /\ Doing(r, "bulk_revoke", "granted")
    /\ job' = [job EXCEPT ![r].at = "sent", ![r].active = Consents \ marked,
                          ![r].open = Consents \ marked]
    /\ UNCHANGED <<approvalVars, consentVars, strVars, trail>>

\* One egress of the sweep arrives, also after another one failed the Promise.all.
SweepOne(r, x) ==
    /\ x \in job[r].open
    /\ Revoke({x})
    /\ job' = [job EXCEPT ![r].open = @ \ {x}]
    /\ UNCHANGED <<approvalVars, marked, sent, strVars, trail>>

\* One egress fails, whether or not Nebras took it, and so does the sweep.
SweepFails(r, x) ==
    /\ Doing(r, "bulk_revoke", "sent")
    /\ x \in job[r].open
    /\ Revoke({x}) \/ UNCHANGED revoked
    /\ job' = [job EXCEPT ![r].at = "failed", ![r].open = @ \ {x}]
    /\ UNCHANGED <<approvalVars, marked, sent, strVars, trail>>

\* Slip: the sweep goes on when its first answer is in.
EndSweepEarly(r) ==
    /\ Doing(r, "bulk_revoke", "sent")
    /\ Overlay(job[r].active)
    /\ JobGoes(r, "marked")
    /\ UNCHANGED <<approvalVars, revoked, sent, strVars, trail>>

\* Promise.all has every answer; the overlay takes them all.
EndSweep(r) ==
    /\ job[r].open = {}
    /\ EndSweepEarly(r)

-----------------------------------------------------------------------------
(* One consent under suspicion: makeFraudRevokeOperation. *)

RevokeSuspect(r) ==
    /\ Doing(r, "fraud_revoke", "granted")
    /\ Revoke({job[r].consent})
    /\ MayFailAfter(r, "sent")
    /\ UNCHANGED <<approvalVars, marked, sent, strVars, trail>>

MarkSuspect(r) ==
    /\ Doing(r, "fraud_revoke", "sent")
    /\ Overlay({job[r].consent})
    /\ JobGoes(r, "marked")
    /\ UNCHANGED <<approvalVars, revoked, sent, strVars, trail>>

\* strDrafts.record: INSERT with the column defaults; its answer may be lost (job.draft
\* keeps the id then, too, as history; a failed job reads it no more).
RecordDraft(r, d) ==
    /\ Doing(r, "fraud_revoke", "marked")
    /\ ~OnFile(d)
    /\ draft' = [draft EXCEPT ![d].status = "draft", ![d].consent = job[r].consent]
    /\ \E step \in {"drafted", "failed"} :
           job' = [job EXCEPT ![r].at = step, ![r].draft = d]
    /\ UNCHANGED <<approvalVars, consentVars, due, told, trail>>

-----------------------------------------------------------------------------
(* The draft's way to P10: submitToWorkflow and makeStrHandoffOperation. *)

\* submitToWorkflow reads a draft nobody has submitted.
CheckDraft(r, p, d) ==
    /\ job[r].at = "none"
    /\ draft[d].status = "draft"
    /\ job' = [job EXCEPT ![r] = [NoJob EXCEPT !.op = "str_handoff", !.at = "checked",
                                               !.by = p, !.draft = d]]
    /\ UNCHANGED <<approvalVars, consentVars, strVars, trail>>

\* requestApproval; the mark on the draft is still to come.
AskHandoff(r) ==
    /\ Doing(r, "str_handoff", "checked")
    /\ Gate!Create(r, job[r].by)
    /\ job' = [job EXCEPT ![r].at = "asked", ![r].by = None]
    /\ due' = due \cup {r}
    /\ UNCHANGED <<consentVars, draft, told, trail>>

\* POST /approvals opens the handoff of any id, with no mark to follow.
AskHandoffDirectly(r, p, d) ==
    /\ job[r].at = "none"
    /\ Gate!Create(r, p)
    /\ job' = [job EXCEPT ![r] = [NoJob EXCEPT !.op = "str_handoff", !.at = "asked",
                                               !.draft = d]]
    /\ UNCHANGED <<consentVars, strVars, trail>>

\* markStatus("awaiting_handoff"), by id alone: over whatever the draft is by now.
MarkAwaiting(r) ==
    /\ r \in due
    /\ draft' = [draft EXCEPT ![job[r].draft].status = "awaiting_handoff",
                              ![job[r].draft].approval = r]
    /\ due' = due \ {r}
    /\ UNCHANGED <<approvalVars, job, consentVars, told, trail>>

\* The submit dies before its mark.
DropMark(r) ==
    /\ r \in due
    /\ due' = due \ {r}
    /\ UNCHANGED <<approvalVars, job, consentVars, draft, told, trail>>

\* handoffStrDraft: P10 takes the draft; its answer may be lost.
Handoff(r) ==
    /\ Doing(r, "str_handoff", "granted")
    /\ told' = [told EXCEPT ![r] = @ + 1]
    /\ MayFailAfter(r, "sent")
    /\ UNCHANGED <<approvalVars, consentVars, due, draft, trail>>

\* markStatus("handed_off"), likewise by id alone; a draft that is not there is not
\* missed.
MarkHandedOffBy(r, p) ==
    LET d == job[r].draft
    IN  /\ Doing(r, "str_handoff", "sent")
        /\ draft' = IF OnFile(d)
                    THEN [draft EXCEPT ![d].status = "handed_off", ![d].ref = r,
                                       ![d].approver = p]
                    ELSE draft
        /\ JobGoes(r, "marked")
        /\ UNCHANGED <<approvalVars, consentVars, due, told, trail>>

\* Slip: the approver is read from the approval row.
MarkHandedOffByRow(r) == MarkHandedOffBy(r, entry[r].approver)

\* The approver is the one approve hands the operation, not the row's.
MarkHandedOff(r) == MarkHandedOffBy(r, winner[r])

-----------------------------------------------------------------------------
Asks(r, p) ==
    \/ AskBulk(r, p)
    \/ \E x \in Consents : AskFraud(r, p, x)
    \/ \E d \in Drafts : CheckDraft(r, p, d) \/ AskHandoffDirectly(r, p, d)

Executes(r) ==
    \/ BeginSweep(r) \/ EndSweep(r)
    \/ \E x \in Consents : SweepOne(r, x) \/ SweepFails(r, x)
    \/ RevokeSuspect(r) \/ MarkSuspect(r)
    \/ \E d \in Drafts : RecordDraft(r, d)
    \/ Handoff(r) \/ MarkHandedOff(r)
    \/ Audit(r) \/ PersistApproval(r) \/ CrashJob(r)

Next ==
    \/ Recycle
    \/ \E x \in Consents : SendOne(x) \/ AckOne(x) \/ DropOne(x)
    \/ \E r \in Requests :
           \/ Refuse(r) \/ AskHandoff(r) \/ MarkAwaiting(r) \/ DropMark(r) \/ Executes(r)
           \/ \E p \in People : Asks(r, p) \/ Grant(r, p)

Spec == Init /\ [][Next]_vars

-----------------------------------------------------------------------------
(* Properties *)

TypeOK ==
    /\ Gate!TypeOK
    /\ job \in [Requests -> Job]
    /\ due \subseteq Requests
    /\ revoked \subseteq Consents
    /\ marked \subseteq Consents
    /\ sent \subseteq Consents
    /\ draft \in [Drafts -> Draft]
    /\ told \in [Requests -> Nat]
    /\ trail \subseteq Requests

Granted(r) == winner[r] \notin {None, entry[r].initiator}

\* Wherever the back office says that a consent is revoked, the Consent Manager has
\* revoked it: in the directory, to the caller of a single revocation, in the grouped
\* event of a sweep (which names every consent that was active when it began, whatever
\* became of the egresses of other sweeps), in the event of a fraud revocation, which
\* also names a draft that is on file for that consent.
RevokedWhereSaid ==
    /\ marked \cup sent \subseteq revoked
    /\ \A r \in trail :
           /\ job[r].active \subseteq revoked
           /\ job[r].op = "fraud_revoke" =>
                  /\ job[r].consent \in revoked
                  /\ job[r].draft # None
                  /\ draft[job[r].draft].consent = job[r].consent

\* P10 hears of a request at most once, and only when a second human granted it;
\* and whatever submits, refusals and handoffs overlap on a draft: it is there because
\* a granted fraud revocation of its consent was carried out, and if it names a
\* workflow reference, that is of a handoff of this draft, and its approver is who
\* granted that very handoff.
DraftTellsItsStory ==
    /\ \A r \in Requests : told[r] <= 1 /\ (told[r] = 1 => Granted(r))
    /\ \A d \in Drafts : OnFile(d) =>
           /\ draft[d].consent \in revoked
           /\ \E r \in Requests : /\ job[r].op = "fraud_revoke" /\ job[r].draft = d
                                  /\ job[r].consent = draft[d].consent /\ Granted(r)
    /\ \A d \in Drafts :
           /\ draft[d].status = "handed_off" => draft[d].ref # None
           /\ draft[d].ref # None =>
                  LET r == draft[d].ref
                  IN  told[r] = 1 /\ job[r].draft = d /\ draft[d].approver = winner[r]

\* A draft progresses in place, draft to awaiting_handoff to handed_off.  The code does
\* not keep this: a quick approver's handed_off is overwritten by the mark of the submit.
Rank(status) == CASE status = "none" -> 0 [] status = "draft" -> 1
                  [] status = "awaiting_handoff" -> 2 [] status = "handed_off" -> 3
DraftProgresses == [][\A d \in Drafts : Rank(draft[d].status) <= Rank(draft'[d].status)]_vars
=============================================================================
