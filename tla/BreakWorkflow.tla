--------------------------- MODULE BreakWorkflow ---------------------------
(***************************************************************************)
(* Working a reconciliation break: claimBreak, resolveBreak,               *)
(* escalateToNebras and the four-eyes reopen of                            *)
(* services/bff/src/reconciliation/service.ts, over                        *)
(* packages/db/src/reconciliation-break-store.ts, each call behind the     *)
(* Idempotency-Key cache of its route (services/bff/src/idempotency.ts)    *)
(* and the reopen behind the approval row of GateRow.                      *)
(*                                                                         *)
(* A call looks into the cache, reads the break, may open a case at        *)
(* Nebras, and then updates the break if it is still in a status the       *)
(* UPDATE names.  Scopes are left out: everybody here holds them.          *)
(***************************************************************************)
EXTENDS Naturals, FiniteSets

CONSTANTS
    Breaks,         \* reconciliation_break ids
    Edits,          \* HTTP calls, each used once; also the id of the case a call opens
    Requests,       \* approval requests to reopen a break
    People,         \* humans
    Keys,           \* Idempotency-Key values
    Asked,          \* the operations callers ask for: Ops, or fewer for a small instance
    Null            \* SQL NULL

VARIABLES
    brk,            \* brk[b]: the reconciliation_break row
    edit,           \* edit[c]: where call c is
    cases,          \* the cases Nebras holds
    cache,          \* the responses kept for replay
    trail,          \* audit events on file
    done,           \* history: the updates that took place
    entry, winner,  \* the approval_request rows (GateRow)
    ask             \* ask[r]: the break r is to reopen, and how far that is

gateVars == <<entry, winner, ask>>
workVars == <<brk, edit, cases, cache, trail, done, gateVars>>

Gate == INSTANCE GateRow WITH None <- Null

-----------------------------------------------------------------------------
ResolveOutcomes == {"resolved_matched", "resolved_internal_correction",
                    "escalated_fintech_billing"}
Terminal == ResolveOutcomes \cup {"escalated_nebras_dispute"}
Open == {"flagged", "assigned"}
Ops == {"claim", "escalate"} \cup ResolveOutcomes

ASSUME BreakAssumption ==
    /\ Null \notin Breaks \cup Edits \cup People \cup Keys
    /\ Asked \subseteq Ops
    /\ IsFiniteSet(Requests)

BreakRow == [status : {"absent"} \cup Open \cup Terminal, assigned_to : People \cup {Null},
          clock : BOOLEAN, outcome : ResolveOutcomes \cup {Null},
          case : Edits \cup {Null}, reopened : Nat]

NoBreak == [status |-> "absent", assigned_to |-> Null, clock |-> FALSE,
            outcome |-> Null, case |-> Null, reopened |-> 0]

\* What a call asks for.
Work == [op : Ops, who : People, brk : Breaks, key : Keys]

\* What its response is cached under: the route, the break, the subject and the
\* key.  The resolutions share a route.
CacheKey(w) == [w EXCEPT !.op = IF w.op \in ResolveOutcomes THEN "resolve" ELSE w.op]

EditStep == {"idle", "missed", "opening", "writing", "audit", "caching",
         "ok", "refused", "crashed"}
Edit == [at : EditStep, work : Work \cup {Null}, case : Edits \cup {Null}]

Case == [brk : Breaks, id : Edits]
Update == [edit : Edits, op : Ops, brk : Breaks, opening : Nat]

Ask == [at : {"none", "pending", "granted", "done", "over"}, brk : Breaks \cup {Null}]

WorkInit ==
    /\ brk = [b \in Breaks |-> NoBreak]
    /\ edit = [c \in Edits |-> [at |-> "idle", work |-> Null, case |-> Null]]
    /\ cases = {}
    /\ cache = {}
    /\ trail = {}
    /\ done = {}
    /\ Gate!Init
    /\ ask = [r \in Requests |-> [at |-> "none", brk |-> Null]]

-----------------------------------------------------------------------------
EditAt(c, step) == edit' = [edit EXCEPT ![c].at = step]

\* The call ends without success: refused, keeping in mind the case it may have
\* opened, or crashed.
Refused(c) == edit' = [edit EXCEPT ![c].at = "refused", ![c].work = Null]
Crashed(c) == edit' = [edit EXCEPT ![c] = [at |-> "crashed", work |-> Null, case |-> Null]]

\* createMany, when a run detects the break: flagged, the clock running.
Raise(b) ==
    /\ brk[b].status = "absent"
    /\ brk' = [brk EXCEPT ![b] = [NoBreak EXCEPT !.status = "flagged", !.clock = TRUE]]
    /\ UNCHANGED <<edit, cases, cache, trail, done, gateVars>>

\* replayCached: a cached response is the answer; otherwise the handler runs.
Lookup(c, w) ==
    /\ edit[c].at = "idle"
    /\ w.op \in Asked
    /\ edit' = [edit EXCEPT ![c].work = w,
                            ![c].at = IF CacheKey(w) \in cache THEN "ok" ELSE "missed"]
    /\ UNCHANGED <<brk, cases, cache, trail, done, gateVars>>

\* Slip: claiming asks for an open break, not for a flagged one.
WorkableIfOpen(op) == Open

\* The statuses an operation starts from: read first, and named again in the
\* WHERE clause of its UPDATE.
Workable(op) == IF op = "claim" THEN {"flagged"} ELSE Open

\* store.get and the checks on what it returned.
Read(c) ==
    LET w == edit[c].work
    IN  /\ edit[c].at = "missed"
        /\ brk[w.brk].status # "absent"
        /\ IF brk[w.brk].status \in Workable(w.op)
           THEN EditAt(c, IF w.op = "escalate" THEN "opening" ELSE "writing")
           ELSE Refused(c)
        /\ UNCHANGED <<brk, cases, cache, trail, done, gateVars>>

\* egress.createDisputeCase: a new case for every call; the reply may be lost.
OpenCase(c) ==
    /\ edit[c].at = "opening"
    /\ cases' = cases \cup {[brk |-> edit[c].work.brk, id |-> c]}
    /\ \/ edit' = [edit EXCEPT ![c].at = "writing", ![c].case = c]
       \/ Crashed(c)
    /\ UNCHANGED <<brk, cache, trail, done, gateVars>>

\* What the UPDATE of each operation sets.
Updated(row, w, case) ==
    CASE w.op = "claim" -> [row EXCEPT !.status = "assigned", !.assigned_to = w.who,
                                       !.clock = TRUE]
      [] w.op = "escalate" -> [row EXCEPT !.status = "escalated_nebras_dispute",
                                          !.case = case]
      [] w.op \in ResolveOutcomes -> [row EXCEPT !.status = w.op, !.outcome = w.op]

\* Slip: the status that was read is trusted.
UpdateAnyway(c) ==
    LET w == edit[c].work
    IN  /\ edit[c].at = "writing"
        /\ brk' = [brk EXCEPT ![w.brk] = Updated(brk[w.brk], w, edit[c].case)]
        /\ done' = done \cup {[edit |-> c, op |-> w.op, brk |-> w.brk,
                               opening |-> brk[w.brk].reopened]}
        /\ EditAt(c, "audit")
        /\ UNCHANGED <<cases, cache, trail, gateVars>>

\* store.claim, store.resolve, store.escalateNebras: a guarded UPDATE, and a
\* 409 when it finds no row.
Write(c) ==
    LET w == edit[c].work
    IN  /\ edit[c].at = "writing"
        /\ IF brk[w.brk].status \in Workable(w.op)
           THEN /\ brk' = [brk EXCEPT ![w.brk] = Updated(brk[w.brk], w, edit[c].case)]
                /\ done' = done \cup {[edit |-> c, op |-> w.op, brk |-> w.brk,
                                       opening |-> brk[w.brk].reopened]}
                /\ EditAt(c, "audit")
           ELSE /\ Refused(c)
                /\ UNCHANGED <<brk, done>>
        /\ UNCHANGED <<cases, cache, trail, gateVars>>

\* Slip: the response is cached before the event is emitted.
CacheFirst(c) ==
    /\ edit[c].at = "audit"
    /\ cache' = cache \cup {CacheKey(edit[c].work)}
    /\ EditAt(c, "caching")
    /\ UNCHANGED <<brk, cases, trail, done, gateVars>>

\* audit.emit, before the answer.
Audit(c) ==
    /\ edit[c].at = "audit"
    /\ trail' = trail \cup {edit[c].work}
    /\ EditAt(c, "caching")
    /\ UNCHANGED <<brk, cases, cache, done, gateVars>>

\* replayCached keeps the 2xx and answers it.
Remember(c) ==
    /\ edit[c].at = "caching"
    /\ cache' = cache \cup {CacheKey(edit[c].work)}
    /\ EditAt(c, "ok")
    /\ UNCHANGED <<brk, cases, trail, done, gateVars>>

\* The 24 hours of a cached response are over.
Expire(kept) ==
    /\ cache' = cache \ {kept}
    /\ UNCHANGED <<brk, edit, cases, trail, done, gateVars>>

\* The process dies, or a store or port throws.
CrashEdit(c) ==
    /\ edit[c].at \in {"missed", "opening", "writing", "audit", "caching"}
    /\ Crashed(c)
    /\ UNCHANGED <<brk, cases, cache, trail, done, gateVars>>

-----------------------------------------------------------------------------
(* The reopen. *)

SetAsk(r, step, b) == ask' = [ask EXCEPT ![r] = [at |-> step, brk |-> b]]

\* initiateReopen asks for a break it found resolved; POST /approvals, which
\* names the same operation, for any break.
AskReopen(r, p, b) ==
    /\ ask[r].at = "none"
    /\ brk[b].status # "absent"
    /\ Gate!Create(r, p)
    /\ SetAsk(r, "pending", b)
    /\ UNCHANGED <<brk, edit, cases, cache, trail, done>>

\* Somebody rejects or expires the request, on a copy as old as may be.
Refuse(r) ==
    /\ Gate!TimeOut(r) \/ \E p \in People : Gate!Reject(r, p)
    /\ UNCHANGED <<brk, edit, cases, cache, trail, done, ask>>

\* approve's claim; it calls the break_reopen operation.
Grant(r, p) ==
    /\ Gate!Grant(r, p)
    /\ SetAsk(r, "granted", ask[r].brk)
    /\ UNCHANGED <<brk, edit, cases, cache, trail, done>>

\* Slip: the status alone is put back.
StatusReopened(row) == [row EXCEPT !.status = "flagged", !.reopened = row.reopened + 1]

\* What reopen's UPDATE sets: it clears the assignment and the resolution, and
\* leaves the case of an escalation where it is.
Reopened(row) ==
    [row EXCEPT !.status = "flagged", !.assigned_to = Null, !.outcome = Null,
                !.clock = FALSE, !.reopened = row.reopened + 1]

\* Slip: any break can be reopened, whatever its status.
ReopenAnything(r) ==
    /\ ask[r].at = "granted"
    /\ brk' = [brk EXCEPT ![ask[r].brk] = Reopened(brk[ask[r].brk])]
    /\ SetAsk(r, "done", ask[r].brk)
    /\ UNCHANGED <<edit, cases, cache, trail, done, entry, winner>>

\* Slip: the reopen runs when it is asked for.
ReopenInline(r) ==
    LET b == ask[r].brk
    IN  /\ ask[r].at \in {"pending", "granted"}
        /\ brk' = IF brk[b].status \in Terminal
                  THEN [brk EXCEPT ![b] = Reopened(brk[b])] ELSE brk
        /\ SetAsk(r, "done", b)
        /\ UNCHANGED <<edit, cases, cache, trail, done, entry, winner>>

\* The operation: a break that is not resolved (any more) is left unchanged.
Reopen(r) ==
    LET b == ask[r].brk
    IN  /\ ask[r].at = "granted"
        /\ brk' = IF brk[b].status \in Terminal
                  THEN [brk EXCEPT ![b] = Reopened(brk[b])] ELSE brk
        /\ SetAsk(r, "done", b)
        /\ UNCHANGED <<edit, cases, cache, trail, done, entry, winner>>

\* Back in approve; the process may also have died under the operation.
PersistApproval(r) ==
    /\ ask[r].at = "done"
    /\ Gate!Persist(r)
    /\ SetAsk(r, "over", ask[r].brk)
    /\ UNCHANGED <<brk, edit, cases, cache, trail, done>>

CrashReopen(r) ==
    /\ ask[r].at \in {"granted", "done"}
    /\ SetAsk(r, "over", ask[r].brk)
    /\ UNCHANGED <<brk, edit, cases, cache, trail, done, entry, winner>>

Handle(c) ==
    \/ \E w \in Work : Lookup(c, w)
    \/ Read(c) \/ OpenCase(c) \/ Write(c) \/ Audit(c) \/ Remember(c) \/ CrashEdit(c)

ReopenStep(r) ==
    \/ \E p \in People, b \in Breaks : AskReopen(r, p, b)
    \/ \E p \in People : Grant(r, p)
    \/ Refuse(r) \/ Reopen(r) \/ PersistApproval(r) \/ CrashReopen(r)

WorkNext ==
    \/ \E b \in Breaks : Raise(b)
    \/ \E c \in Edits : Handle(c)
    \/ \E kept \in cache : Expire(kept)
    \/ \E r \in Requests : ReopenStep(r)

WorkSpec == WorkInit /\ [][WorkNext]_workVars

-----------------------------------------------------------------------------
(* Properties *)

WorkTypeOK ==
    /\ brk \in [Breaks -> BreakRow]
    /\ edit \in [Edits -> Edit]
    /\ cases \subseteq Case
    /\ cache \subseteq {CacheKey(w) : w \in Work}
    /\ trail \subseteq Work
    /\ done \subseteq Update
    /\ Gate!TypeOK
    /\ ask \in [Requests -> Ask]

\* However claims, resolutions, escalations and reopens overlap, the columns of
\* a break tell one story: an assigned break has its claimant and a running
\* clock, the outcome is there exactly when a resolution is, and an escalated
\* break names a case opened for it.
RowTellsOneStory ==
    \A b \in Breaks :
        LET row == brk[b]
        IN  /\ row.status = "assigned" => row.assigned_to # Null /\ row.clock
            /\ row.status = "flagged" => row.assigned_to = Null
            /\ row.outcome = IF row.status \in ResolveOutcomes THEN row.status ELSE Null
            /\ row.status = "escalated_nebras_dispute" =>
                  [brk |-> b, id |-> row.case] \in cases

\* Between two reopens of a break one call claims it at most, and one call at
\* most brings it to an end; what the others are told is a refusal.
OneTakerPerOpening ==
    \A x, y \in done :
        /\ x.brk = y.brk /\ x.opening = y.opening
        /\ (x.op = "claim") <=> (y.op = "claim")
        => x = y

\* A break is taken up again at most once for each pair of people who agreed to
\* it, although a request may be granted long after it was made.
ReopensAreGranted ==
    \A b \in Breaks :
        brk[b].reopened <=
            Cardinality({r \in Requests : ask[r].brk = b /\ winner[r] # Null
                                          /\ winner[r] # entry[r].initiator})

\* A reopen that was asked for one resolution and is granted hours later, when
\* somebody works on the break again, does not take it from its claimant.
ClaimantKeepsBreak ==
    [][\A b \in Breaks :
          brk[b].status = "assigned" /\ brk'[b] # brk[b] =>
              brk'[b].status \in Terminal /\ brk'[b].assigned_to = brk[b].assigned_to]_workVars

\* A call that was answered with success, replayed or not, has its event on the
\* audit trail: that of the call whose response it was given.
AnsweredIsAudited ==
    \A c \in Edits :
        edit[c].at = "ok" => \E w \in trail : CacheKey(w) = CacheKey(edit[c].work)

\* What the break is to those who wait for it to be worked.
Seen(status) ==
    CASE status \in {"escalated_nebras_dispute", "escalated_fintech_billing"} -> "escalated"
      [] status \in {"resolved_matched", "resolved_internal_correction"} -> "resolved"
      [] status \in Open -> "flagged"
      [] OTHER -> "absent"

Life == INSTANCE BreakLife WITH
    Lines <- Breaks, brk <- [b \in Breaks |-> Seen(brk[b].status)]

\* A break leaves an end only by being reopened: what PayablePeriod is built on.
ImplementsBreakLife == Life!Spec

\* "Nebras case ID persisted": a case opened for a break by a call that has
\* come to its answer is the case on the break.
CasesArePersisted ==
    \A c \in Edits :
        edit[c].at \in {"ok", "refused"} /\ edit[c].case # Null =>
            \E b \in Breaks : brk[b].case = edit[c].case
=============================================================================
