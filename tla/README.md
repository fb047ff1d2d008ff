# TLA+ models of the Open Finance back office

This directory specifies the parts of the back office (OFBO) whose correctness depends on the order in which
things happen: several calls on one row, operations run behind a four-eyes approval, answers of outside systems
that are lost or repeated, processes that die half-way. Every definition is translated from the TypeScript and
SQL it names in `PROJECT.json` ("map"); the runs are checked with TLC and the theorems with TLAPS.

Paths below are relative to the repository root, with `bff/` for `services/bff/src/` and `db/` for
`packages/db/src/`.

## 1. The system

The BFF is a Hono application (`bff/app.ts`, `bff/worker.ts`) of some thirty services over Postgres stores
(`packages/db`), with outside systems behind numbered ports (`packages/ports`). It runs in one or many processes:
nothing is shared between calls but the database, and a service method is a series of `await`s, each store call a
transaction of its own. There is hardly a `SELECT ... FOR UPDATE` in it. What protects shared rows is a guard in a
`WHERE` clause, a `UNIQUE` constraint, a check made on a copy read earlier, or nothing.

| Component | State it keeps | Operations | Hard behaviour | Correct when |
|---|---|---|---|---|
| approvals primitive (`bff/approvals`, `db/approvals-store.ts`) | `approval_request` rows; audit events | requestApproval, getFor, listPendingFor, approve, reject; lazy expiry | racing approvers and rejecters with old copies, the window closing under them, a crash around `op.execute` | an operation starts at most once, for a second human holding the scope, in time; evidence is not restamped |
| payable close (`bff/billing/payable-close.ts`) | `billing_tpp_cost_period_close` | requestClose, executeClose, saveClose | two approvals for a period, breaks raised meanwhile, the approval row rewritten | one close, naming the two people of its grant, with no break open |
| payable dispatch (`bff/billing/payable-dispatch.ts`, `db/billing-payable-store.ts`) | `billing_tpp_cost_ap_dispatch` (append-only ledger); instructions held by P9 | dispatch, recordDispatch | lost replies, retries under one key, P9 settling the debit meanwhile | no debit without the close; the ledger says what P9 holds, in a legal order |
| reconciliation and breaks (`bff/reconciliation`) | `reconciliation_log`, `reconciliation_break`, thresholds, reports | runDaily, claim, resolve, reopen (gated), escalateToNebras, monthly sign-off (gated) | run stored before its breaks, Nebras case opened before the break is moved, sign-off over counts read earlier | every detected break is on file; one case per break; a terminal break is only reopened by two people |
| disputes and refunds (`bff/disputes`) | `dispute_case`, refund marks | open, transition, compensation check, refund (gated) | a check made at request and not at execution, PATCH calls on old copies, egress before the mark | a refund leaves once per grant, and the case says what left |
| STR drafts (`bff/str`) | `str_draft` | draft, submit (gated), hand off | approver faster than the mark, marks by id alone, requests opened directly; a refused request leaves the draft stuck | handed off under a grant; the draft names its own handoff and approver |
| consents (`bff/consents`) | consents at Nebras, the directory's overlay, one per application instance | revoke, bulk revoke (gated), fraud revoke (gated, drafts an STR) | parallel egress of which one fails, mark and audit after egress, the active set read again at execution | what is said to be revoked is |
| TPP billing and invoicing (`bff/tpp-billing`) | record sets, breaks, invoice runs | ingest, reconcile, createInvoiceRun (gated), dispatch | two runs for one record set, two reconciliations at once, writes that look at nothing | only matched and clean files are invoiced, once per grant |
| agents and spend (`bff/agents`, `services/mcp-gateway`) | registry, spend per session | register, suspend, check/commit budget | calls in flight between check and commit | the budget bounds what is spent |
| idempotent replay (`bff/idempotency.ts`) | response cache per key | get, run, set | concurrent duplicates, a crash before `set` | a retry does not act twice |
| metering (`bff/billing/metering-ingest.ts`, `packages/billing/src/metering.ts`) | gateway facts, meter runs | ingest | redelivery, late and conflicting facts, overlapping projections of one month | one run has all that was acknowledged; a discount is given once |
| rating, memos, collections (`packages/billing`, `bff/billing`) | rated lines, memo lines, dunning states | rate, reconcile, settle, progressDunning | evaluation out of order; tiers, caps and slots at their boundaries | each billable event is rated once; the ladder only goes up |
| e-invoicing and accounting (`bff/billing/einvoicing.ts`, `accounting.ts`) | artifacts, submission rows, events | generate, dispatch | lost answers, lost rows, documents generated again from other inputs | a partner takes the bytes on file; no acceptance is lost or invented |
| rate-card watch (`bff/billing/rate-card-watch.ts`) | source snapshots, reviews, ticket ids | weekly run | overlapping runs, failures at every call, retries of each other's tickets | a change is heard by Finance and Compliance |
| respondent disputes, scheme notifications, service desk | case rows with scheme clocks | act, acknowledge, respond | two actions on one state read | clocks and state belong together |
| profitability, revenue assurance, reports, risk, readiness, trust framework | batch results, locked once under a hash | generate, propose, activate | little: pure computation over stored facts | - |
| authentication, RBAC, audit, lineage, retention | - ; append-only events | verify, normalise, append | two spellings of one person | two eyes are not four |
| simulators, portal, contracts, redaction, tooling | - | - | - | - |

How they interact: a service calls `ApprovalsService.requestApproval`; an approver's call runs the registered
`GatedOperation.execute` **inside** `approve`, between the claim of the row and the closing update. The operation
then works on its own component's rows in transactions of its own and calls outside systems. Reconciliation
raises the breaks that block the payable close, and TPP invoicing and the memo raise breaks of their own; a cost
period must be closed before its payables are dispatched; a fraud revocation leaves the STR draft that is handed off.

## 2. The modules

| Module | Models | Role |
|---|---|---|
| `FourEyes` | - | abstract: what the gate promises. A request is open, then shut for good or granted once, in time, to somebody else than its initiator; a grant starts its operation at most once |
| `GateRow` | the `approval_request` row as a gated operation meets it | interface: one grant at most, but the row itself at the mercy of late writers. Actions only, no calls |
| `Approvals` | `bff/approvals/service.ts` over `db/approvals-store.ts` | the primitive, call by call and await by await; implements both |
| `ApprovalsProofs` | - | the theorems about `Approvals` |
| `BreakLife` | `bff/reconciliation/service.ts`, `db/reconciliation-break-store.ts` | interface: how the status of a break may move, for the modules that have breaks as their environment. Actions only |
| `BreakWorkflow` | claim, resolve, escalate, reopen of one break, behind the replay cache | call by call; implements `BreakLife`, its reopen is built on `GateRow` |
| `ReconciliationEngine` | `engine.ts`, `fee-schedule.ts`, `breaks.ts`, `thresholds.ts` of `bff/reconciliation` | pure operators, with a reference definition (`Due`) of what a break is |
| `ReconciliationRun` | runDaily, replay, recordPreparedResult, updateThresholds; the reads of the sign-off and the export | call by call over `ReconciliationEngine` (`Engine == INSTANCE ...`) |
| `ReconciliationProofs` | - | the theorems about the last three |
| `PayablePeriod` | payable close and dispatch of one cost period, P9 | a component built on `GateRow` (`Gate == INSTANCE GateRow`), not on `Approvals`' calls |
| `Disputes` | `bff/disputes/service.ts` over `db/dispute-store.ts`, P6 | built on `GateRow`: the refund against the life of the case |
| `Invoicing` | `bff/tpp-billing/invoicing.ts` over `db/tpp-invoicing-store.ts`, P9 | built on `GateRow`: match, invoice run, dispatch |
| `Revocation` | `bff/consents`, `bff/str/service.ts`, `db/str-draft-store.ts`, P6 and P10 | built on `GateRow`: two gated operations composed, one leaving the draft the other hands off |
| `RateCardWatch` | `bff/billing/rate-card-watch.ts` over `db/billing-rate-card-store.ts`, P3 | overlapping runs, with fairness |
| `Metering`, `MeteringIngest` | `packages/billing/src/metering.ts`; `bff/billing/metering-ingest.ts` over `db/billing-metering-store.ts` | the projection as pure operators, and the ingest calls over it |
| `Outbox` | - | abstract: filed once, the partner takes what is filed, a row claims no acceptance that was not given |
| `EvidenceDispatch` | `bff/billing/einvoicing.ts`, `accounting.ts` and their stores, P11 and P9 | call by call; implements `Outbox` |
| `PayableProofs`, `DisputesProofs`, `InvoicingProofs`, `RevocationProofs` | - | the theorems about `PayablePeriod`, `Disputes`, `Invoicing` and `Revocation` |
| `BillingJobsProofs` | - | the theorems about `EvidenceDispatch`, `RateCardWatch`, `Metering` and `MeteringIngest` |
| `MC...` | - | constants and symmetry for TLC, one for each checked module |

### Approvals

| Code | Model |
|---|---|
| one HTTP call, its local copy of the row | `call[c]`: where it is (`at`), what it is doing (`op`), for whom (`who`), on which row (`req`), the copy (`snap`) |
| `approval_request` | `row[r]`; `state = "none"` is no row |
| `requestApproval`: `store.create`, `auditEvent` | `Create`, `Audit` |
| `getFor`/`listPendingFor`: `store.get`; `settleExpiry`: test, `store.update`, `auditEvent` | `Fetch`; `CheckWindow`, `WriteTimeout`, `Audit` |
| `approve`: checks and stamp; `claimForApproval`; `op.execute`; `store.update`; `auditEvent` | `Decide`; `ClaimRow`; `Execute`, `Returns`, `Throws`; `Persist`; `Audit` |
| `reject` | `Reject`, `Audit` |
| `normalisePrincipal` | `Human` |
| a process dies | `Crash` |

Each step ends where the code awaits something another call can see. The 404s, scope refusals and the like that
write nothing are the absence of a step. Window and clock are small numbers; only whether the window is open
matters. `now` is read by the code at each use, and so it is in the model.

### PayablePeriod

| Code | Model |
|---|---|
| the approval row and who won its claim | `entry`, `winner` (of `GateRow`), moved by `Gate!Create/Grant/Reject/TimeOut/Persist` |
| `requestClose`: existing close? open breaks? `requestApproval` | `AskUnclosed`, `Ask`; `AskDirectly` for `POST /approvals`, which asks neither |
| `executeClose`; `saveClose` | `ExecuteClose` (second look at the breaks), `SaveClose` (evidence from the row, then `ON CONFLICT DO NOTHING`) |
| E1 breaks of the period | `brk`, `Break`: environment, moving as `BreakLife` says |
| `dispatch`: `approvedPayable`, `assertApprovalAuthorises`; P9; `recordDispatch` | `Authorise`; `Send` (reply lost or not); `BeginRecord`, `ReadLedger`, `InsertRow` |
| P9's instructions and their settlement | `p9`, `P9Settles` (external; as the simulator and the enterprise adapter treat it) |
| `created_at` of a ledger row (start of its transaction) | `began`, its place in `begun` |

Steps that are merged, and why that hides nothing:
- `Ask` looks at the breaks and creates the request in one step. The new row is visible to nobody before, and a
  break raised in between only makes the request one that was rightly made a moment earlier.
- `Authorise` reads the close and then the approval. The close is written once and never updated, so reading it
  earlier makes no difference.
- `SaveClose` and `ReadLedger` read the approval row and another table in one transaction without locks. In
  `SaveClose` the insert only depends on the period's close, which no approval writer touches; in `ReadLedger` the
  ledger is append-only and the insert, the step that conflicts, is separate.
- `entry` and `winner` change in one `Grant`: the read, checks and claim of `approve`. That every interleaving of
  the real calls does no more than this is what `ImplementsGateRow` checks.

Subjects are humans here, because every comparison the payable code makes is of normalised subjects, and there is
no clock, because a grant is in time by `FourEyes`.

### BreakWorkflow

| Code | Model |
|---|---|
| a `reconciliation_break` row: status, assignee, SLA clock, outcome, Nebras case | `brk[b]`; `reopened` and `done` are history |
| one HTTP call and what it was asked for | `edit[c]`, its `work`; several calls may carry one key |
| `replayCached` around the handler: get; set | `Lookup`; `Remember`; `Expire` (the replay window ends) |
| `claimBreak`, `resolveBreak`, `escalateToNebras`: the unguarded `get` and its checks | `Read` |
| `openDisputeCase` at Nebras | `OpenCase`: a case per call, whatever becomes of the break |
| `UPDATE ... WHERE status IN (...)` | `Write`, by `Workable`; no row updated is a 409 |
| the audit event | `Audit` |
| `initiateReopen`; the registered operation | `AskReopen`; `Grant`, `Reopen`, `PersistApproval`, `CrashReopen` |

The response is cached under key, route, break and subject; the three resolutions share a route, so
`CacheKey` makes them one operation. Scopes are left out: everybody holds them.

### ReconciliationEngine and ReconciliationRun

| Code | Model |
|---|---|
| what the three sources hold about one reference | a `Line`: fee in fils, call count, success, billed to the fintech, in dispute |
| `runThreeWayReconciliation` | `InUniverse`, `Missing`, `Variance`, `Unmatched`; `Corrupt` where the fee schedule throws |
| `detectBreaks`, `thresholdFor` | `Exceeds`, `Detected`; `Team` |
| `reconciliation_log`, `reconciliation_break` | `log`, `breaks` (which call stored a break is history) |
| `runDaily`: fetch and match; `store.create`; audit event | `Match`; `Create`; `AuditRun` |
| `detectAndRecordBreaks`: `countForRun`; `effectiveThresholds`; `createMany`; a ticket per team; audit event | `CountBreaks`; `Detect`; `StoreBreaks`; `Notify`; `Announce` |
| `replay`'s own audit event | `Answer` |
| a process dies, or a store, sink or port throws | `Crash` |
| `updateThresholds` | `UpdateThresholds`: the table is replaced in one transaction |
| `created_at` of a run and of a break, each that of its own transaction | `dated[r]`, a break's `on`; `NextDay` is midnight |
| `executeMonthlySignoff`: `listForPrefix`, `summarizeByStatus`; the locked report | `BeginReport`; `ReadRuns`, `ReadBreaks`; `FileReport`, `GiveUp` |
| `generateCbuaeExport`: two `listForRange` side by side, each by its own table's `created_at` | the same, with a range of `days` (`RunsInScope`, `BreaksInScope`) |
| `LIMIT 1000`, `LIMIT 5000` | `SignoffRuns`, `ExportRows`: `Capped` drops the rows beyond, any of them |

The reference is `Due`: what is charged against what is owed, in thousandths of a fil, without matching, rounding
or classification. Detection reads the thresholds once, at the end, which is why a run may be detected under limits
edited after it was stored; `since` keeps the limits each run has seen. A list that was cut is filed like any other,
and nothing in the report says so.

Simplifications: one line type per reference, the same in all sources (the code takes the platform's and matches by
reference alone); every run is over the same day's sources, which are fixed, as the synthetic and the buffered ones
are; the gate before the sign-off is `Approvals`' and here only its executions are; the margin, the spans, the
audit of thresholds and reports and the lineage events decide nothing. Two things of the match a `Line` cannot say: two
currencies under one reference (`engine.ts:167`, an exception of its own), and one reference twice in one source.

### Disputes, Invoicing, Revocation

The three have one shape: `job[r]` is what approval request `r` was opened for and how far its execution has come, one
step per awaited call of the registered operation; `entry` and `winner` are `GateRow`'s.

| Code | Model |
|---|---|
| `create`: the case at Nebras; the row | `OpenAtNebras`; `File` |
| `updateState`: `get` and its checks; `UPDATE` by id | `CheckMove`; `WriteMove`; `CrashCall` |
| `recordCrossScheme` | `Settle` |
| `initiateRefund`: the compensation check; `requestApproval` with the case's consent | `CheckCompensation`; `AskRefund` |
| `POST /approvals`: the same operation with a payload of the caller's (case, consent, amount), nothing checked | `AskDirectly` |
| `makeRefundOperation`: P6; `markRefundInitiated`; the event | `Dispatch` (answer lost or not); `Mark`; `AuditRefund` |
| invoicing `ingest`; `reconcile`: check, `createMany`, `markReconciled` | `Ingest`; `CheckIngested`, `RaiseBreaks`, `MarkReconciled`, `CrashMatch` |
| `createInvoiceRun`: checks, insert, `requestApproval`, link | `CheckFile`, `CreateRun`, `AskRun`, `LinkRun`, `CrashInvoice`; `AskDirectly` |
| `makeInvoiceRunOperation`: unknown run; P9; mark; event | `SkipUnknown`; `Dispatch`; `MarkDispatched`; `AuditDispatch` |
| `revoke`: P6; overlay (the event changes nothing) | `SendOne`; `AckOne`, `DropOne` |
| `initiate` of the bulk and of the fraud revocation | `AskBulk`, `AskFraud` |
| bulk: `search`; each egress of the `Promise.all`; overlay; event | `BeginSweep`; `SweepOne`, `SweepFails`; `EndSweep`; `Audit` |
| fraud: P6; overlay; `strDrafts.record`; event | `RevokeSuspect`; `MarkSuspect`; `RecordDraft`; `Audit` |
| `submitToWorkflow`: `get` and check; `requestApproval`; `markStatus` | `CheckDraft`; `AskHandoff`; `MarkAwaiting`, `DropMark`; `AskHandoffDirectly` |
| `makeStrHandoffOperation`: P10; `markStatus`; event | `Handoff`; `MarkHandedOff`; `Audit` |
| approve's closing update; a process dies | `PersistApproval`; `CrashJob` |
| `createApp` builds an overlay of its own | `Recycle` |

An egress of a sweep that failed goes on: `Promise.all` rejects at the first failure and cancels nothing, so
`SweepOne` has no guard on the job. What the match of a file finds is a number fixed for the file (`variances`),
because the metering it is matched with does not change; amounts matter in `Disputes` only so far as two refunds may
differ. A job of `Disputes` carries the consent it sends to P6, which is its case's (`ConsentOf`) unless `POST /approvals`
said otherwise. P6 keeps its port's word in `Revocation`: an acknowledged revocation is one.

### RateCardWatch

| Code | Model |
|---|---|
| one delivery of the cron trigger, with its locals | `run[w]`: where it is, `todo`, the source and the snapshots in hand |
| `billing_source_snapshot`, by insertion and by `captured_at` | `snapshots`, `latest` |
| `billing_rate_card_review`; the tickets P3 holds | `reviews[n]` (named by its current snapshot); `tickets` |
| the tenant's card (`configuredBillingProfiles`); `billing_rate_card_version` | `card`, changed by `Configure`; `cardOf[v]` |
| `run`: `ensureRateCardVersion`, then the reviews awaiting notification | `Start`, which is disabled while `CardRefused`: such a run throws before it has done anything |
| `notifyReview`: `createTicket`; `markReviewRecipientNotified`; the failure's event | `TakeTicket`, `LoseTicket`; `MarkNotified`, `MarkFails`; `AuditSourceFailure` |
| per source: fetch, compare, snapshot, review, event | `Fetch`, `Compare`, `Insert`, `FileReview`, `AuditChange`, `SourceFails` |
| a later throw nobody catches; a process dies | `Die` |
| the scheme edits its page | `Edit` |

A version may be on file with the hash of another card: the tenant's year anchor or overage was edited, or the scheme's
card was, and its version is the same. That is no failure that passes. Every run after it throws at
`ensureRateCardVersion` (`rate-card-watch.ts:297`), so that `Start` is not enabled until the card is what it was, or
names another version. Cards are two under one version in the run, edited and edited back; a card's version is a
constant function of the card (`VersionOf`), so that any number of them is covered by the theorems.

### Metering and MeteringIngest

`Metering` has what looks at more than one fact: pairing (`Pairing`, one payment after the other, nearest call
first), the free pages of a day (`FreePages`) and the lines that follow (`LinesOf`). The two have different keys. A
pair is of one direction, client and customer (`Candidates`; `client` stands for `tppId` and `clientId`), and its
payment is any call with payment metadata, whatever its endpoint. An allowance (`SameAllowance`) is a customer's,
for a day and a mode, attended or not, shared by all the clients that call for him and divided, for an outbound
call, by the serving LFI only if the card says `psu_per_serving_lfi_per_day` (`PerServingLfi`). Calls without a
`psuId` share the empty key, as one customer would; so they are one member of `Psus`. `hub` stands for each endpoint
that is charged and neither paid, read nor paired, `GET /accounts/{AccountId}/balances` among them (section 5). Each
transaction of an ingest is an action: `Deliver` (parsed, deduplicated), `Store`, `Read`, `SaveMeterRun` or
`Unmeterable`, `Crash`. A run is identified by its month and its facts, as the unique key does by the hash of its
inputs; its lines are a function of them.

### EvidenceDispatch

| Code | Model |
|---|---|
| artifact rows, submission rows, events | `filed`, `log`, `trail` |
| what the partner accepted | `taken` (external) |
| a call of `dispatchPintAeDocuments` or `generateAndDispatch` | `call[c]`: the documents left, the bytes it generated, the answer it holds |
| what the partner accepted for which call, with no row of it yet | `unwritten` (history) |
| generate; save (conflict refused); the generated event | `Generate`; `Save`, `Refuse`; `AuditGenerated` |
| the port's submit; the row; the event | `Submit`; `RecordOutcome`, `RecordOutcomeFails`; `AuditDispatched`, `AuditDispatchedFails` |
| the `catch`: a `transport_error` row, the failure's event | `RecordFailure`; `AuditFailure` |
| the append of the catch throws as well, and nothing catches that | `RecordFailureFails` |
| a save or an event outside the `try` throws | `Throw` |
| the process dies under a call | `DieUnder` |

The refinement mapping to `Outbox` is the identity on `filed`, `taken` and `log`.

## 3. What the runs check

| Run | Instance | Shows |
|---|---|---|
| `approvals` | 1 request, 4 calls, 3 subjects of 2 humans, clock 0..2 with window 1 | the operation runs at most once, for a second person, in time; its stamp stays; a request shut before a claim never runs; "approved" is audited only by the call that ran it; the service implements `FourEyes` and behaves, at the row, as `GateRow` |
| `payable_close` | 2 requests, 1 break, 1 dispatch call, 3 people | one close, naming its grant; every debit sent under it |
| `payable_dispatch` | 1 request, 3 calls under one key, 3 people | ledger cites the close, is backed by P9, misses no answered dispatch |
| `break_workflow` | 1 break, 3 calls under one key, 1 reopen request, 2 people | one taker per opening; a row that tells one story; no reopen without its pair, none of a break somebody works on; answered is audited; implements `BreakLife` |
| `recon_run` | a daily run, a replay and a memo, 3 calls, 4 books of 2 lines, 2 sets of limits; or a daily run and a replay with 2 breaks each, 2 calls, 2 days, 1 report, caps of 2 runs and 3 rows (913,092 states) | one break per line; the breaks are those due; what is announced is on file; audit before breaks; a report has what was settled before it and is in its scope, but for rows beyond a cap |
| `disputes` | 1 case, 2 requests, 2 amounts, 1 consent, 2 PATCH calls, 2 people (1,050,050 states) | money leaves once per grant; what the case says of it is what P6 dispatched; only the mark of a paid refund makes a case `refund_initiated` |
| `refund_blocked` | 1 case, 1 request; the request comes through the case's own route, and the case is settled elsewhere only while it waits (`SettledWhileAsked`, an action constraint) | **violated**: a refund leaves for a case whose loss was settled in the other scheme |
| `rate_card_watch` | 1 page of 2 texts, 2 cards of one version, 2 runs, 2 snapshots (170,388 states) | a review that is done was heard by both teams; if the card is not refused for ever, every change is heard in the end, unless a run died between its snapshot and its review |
| `invoicing` | 1 file with up to 1 variance, 2 matches, 2 invoice runs, 2 requests, 2 people | P9 gets instructions for a matched and clean file only, one grant for each time; counted breaks are in the queue |
| `metering` | 10 facts of 2 months, 2 clients of 1 customer, 2 LFIs with an allowance each, 3 ingest calls of 1 fact or one of 8 pairs (330,488 states) | one run of a month has all that was acknowledged; in every run a call is paired once and an allowance given once, whichever client calls |
| `evidence_dispatch` | an invoice run of 2 documents and 1 journal batch, 2 versions of the bytes, 3 calls (4,788,239 states) | every acceptance leaves a row of its own, unless the process died or the append of the catch failed too; implements `Outbox` |
| `revocation` | 2 consents, 1 draft, 2 requests, 2 people | what overlay, answers and events call revoked is; P10 hears once per grant; a draft comes from a granted fraud revocation and names its own handoff and approver |

The type invariant of every module of calls is a theorem (section 4); that of `PayablePeriod` is checked in a run too.

Why the bounds are enough. The hazards of the gate need one initiator's call and up to three others with copies of
one age or another (two approvers, and an approver against a rejecter or a reader whose copy is overdue): four
calls. Nothing in the code relates two requests, and the mappings of the two refinements are per request, so one is
enough (and for `FourEyes` the proof holds for any number). Two instants inside the window and one outside give
early, late and expired reads at every await. For the close, two approvals are the smallest race and a third is a
repetition; the break cycles through all of its states without bound (`break_workflow` counts its openings by
history; one reopen gives two). For dispatch, three calls give two overlapping answers and a later retry. For a run,
three calls are a race and a rerun after a crash. The line types and fees of the books are one of each verdict
(matched, overcharged or undercharged by more than one limit and less than the other, missing, corrupt) beside a
drifted consent, which goes to the other team; all amounts are the theorem's. A report looks at rows, not at how
they came to be breaks, and `recon_run` has it in a scene of its own (`Scenes`, a state constraint): one book of two
breaks, under limits nobody edits, two calls, and a midnight between a run and its breaks. A cap of three rows is
one less than there may be, a cap of two runs is met and not exceeded. For a refund or an invoice, two requests are
the race of two executions and one PATCH call too many is the second; files, cases and runs do not look at each
other. For the watch, the second of two snapshots is the first that is a change, and two runs are an overlap and,
since a run starts again from idle, any number of retries; a third snapshot (a second review) is left out because
each review is notified by itself; two cards under one version are a refusal and its end. The facts of `metering`
hold a balance call that a payment and a free call with payment metadata compete for, an attended allowance that two
clients' calls share, an unattended one beside it, two outbound calls served by two LFIs, an id told with two
stories in two months, and a payment without its metadata; three calls deliver any of them late, again and across
the months. For the evidence, a work of two documents has a first one that is done and a second that fails, and
three calls are a race and a retry. For revocation, two requests are a fraud revocation and the handoff of its
draft, two sweeps, or a sweep and a suspicion; an instance with a fraud revocation and two handoffs of its draft
(one consent, four million states) was checked besides. Properties proved (section 4) do not depend on any of these:
that is every property of the table but the liveness of the watch and the violated one.

Fairness is stated in `RateCardWatch` alone, where the code retries by itself. The cron trigger fires every week
(weak fairness of starting a run while one can be started); a run that has not ended or died goes on (weak fairness
of `Proceed`, for each run; a run may die at any step, any number of times); and neither P3 nor the database refuses
for ever (strong fairness of a ticket taken and of a mark written, by whichever run). Strong fairness is about failures
that pass. The one that does not, a card that is refused, is not put on its account: a refused run does not start, a
start that is disabled is owed nothing, and `ChangesAreHeard` has as its premise that from some time on the card is not
refused (`<>[]~CardRefused`). Without the premise TLC shows a review that nobody hears of. With it, the property holds
but for the exception it names. Nothing is assumed of the page: it may change for ever or never.

Elsewhere no fairness is assumed and no liveness is claimed, because the code retries nothing by itself. A request
times out only when somebody reads it, a reconciliation run that died is not resumed, an instruction without a ledger
row waits for a client that comes back with its key, an approved row whose process died is never picked up, and a
document without an accepted row is sent again when somebody dispatches again. "Eventually" would be about clients.

`CHECK_DEADLOCK FALSE` stands in every cfg but `rate_card_watch.cfg`, because those models really stop: each call and
each request is used once, and the clock is bounded. The watch never does: a run always may start, and it is checked
for deadlock.

## 4. What is proved

Every property of every passing run is a theorem, but one: `ChangesAreHeard` of `RateCardWatch` is liveness under
fairness, which is out of the proof system's reach, as `ENABLED` is. The theorems hold for every value of the constants
that meets the assumptions of the module, and none of them looks at an instance.

A proof module may be about several modules, which it extends side by side. That is why `BreakWorkflow`, `RateCardWatch`
and `MeteringIngest` have names of their own for what the others call `Init`, `Next`, `Spec`, `vars`, `TypeOK` or `Call`
(`WorkInit`, `WatchNext`, `IngestSpec`, `Edit`, ...).

Each proof has the same shape: an inductive invariant, checked by TLC on the instance of the run before it was proved;
one lemma for each action; a lemma that collects them (`NextIInv`, or `...IsInductive`); and theorems that say what
follows. Below is what the invariants add to the properties and why.

### Approvals (`ApprovalsProofs`)

For every set of requests, calls, subjects and humans and every window and clock bound, from `ApprovalsAssumption`
(`None` is neither a subject nor a number nor the human behind a subject; the scopes are sets of subjects):
`TypeCorrectness`, `ExecutionIsUnique`, `ExecutionIsGated`, `AuditIsTruthful`, `ShutIsFinal`, `StampIsWriteOnce`; and the
refinements `Refinement` (`Spec => ImplementsFourEyes`) and `RowRefinement` (`Spec => ImplementsGateRow`).

The properties are not inductive: `AtMostOneExecution` says nothing of the calls that are about to start the operation.
`IInv` adds what each call knows and each row keeps:

1. `RowInv`: a row that may still be claimed carries no stamp and has no claim. Nothing makes a row pending again:
   a late writer writes approved, rejected or timed_out, whatever it read.
2. `Permitted`, `CopyAgrees`, `CopyUnstamped`: a call on its way to the claim established, on columns that are
   never updated (initiator, deadline), that it is a second person with the scope, in time.
3. `ClaimInv`, `Holds`: hence one claim per request, stamped on the row, and `COALESCE` keeps it there; only the
   holder of the claim executes, and only it audits an approval.

`Refinement` maps a request to none/open/shut/granted/acted by claims and runs rather than by the state column,
because the column lies after a late write; a claim is `Give`, `Execute` is `Act`, a first write of `rejected` or
`timed_out` is `Shut`, and later overwrites stutter.

`RowRefinement` is what `PayablePeriod`, `BreakWorkflow`, `Disputes`, `Invoicing` and `Revocation` stand on: they
are built on `GateRow`, and here the calls of the service are shown to do no more to a row than its actions. It
needs one more invariant, `NamesInv`: a row that may still be claimed names no approver, a call about to time a row
out read it so, and a call from its claim to its closing update writes its own subject. Then `store.create` is
`Create` (`CreateIsCreate`), the claim is `Grant` (`ClaimIsGrant`), every `store.update` is a `TimeOut`, `Reject` or
`Persist` (`StoreIsLateWrite`), and all else leaves row and winner alone. The assumption that nobody's human is NULL
is used there: `normalisePrincipal` gives every subject a name.

### Reconciliation and the break workflow (`ReconciliationProofs`)

For every set of runs, calls, reports and books over any lines and all thresholds, from `RunAssumption` (the types of the
constants, and that a day has finitely many lines):

- `DetectionIsDue`: for every line that is not corrupt, match and detection say "break" exactly when the line is
  `Due`; integers of any size. The argument is by where the line is missing, and where it is nowhere missing by
  `OwedIsFee`: no rounding is lost, because the schedule refuses what is not whole fils.
- `TypeCorrectness`, `NoDoubleBreaks` (`OneBreakPerLine`), `BreaksAreThoseDue` (`BreaksAreDue`). `CallInv` adds that
  the run id's `UNIQUE` constraint tells one call at most that it created the run, and that all breaks of the run
  are that call's; `ResultInv` that such a call stands before an unsettled run with clean lines, and holds what
  detection finds under limits the run has seen.
- `AnnouncedWasOnFile` and `AuditPreceded`, from `TellInv`: every ticket and every event is backed by the tables,
  and a call that is about to tell holds what is on file. Breaks of a run are stored at once, so that a count once
  true stays so.
- `ReportsHadWhatSettled` (`ReportHasWhatSettled`), from `ReportInv`: at each of its steps a report has what was settled
  when it was begun and is in the scope of the list it comes from, if that list is shorter than its cap. The breaks of a
  settled run and the dates of both do not change, so that reading the tables apart loses none of them. That an
  exported run comes with its breaks does not follow, and is false (section 5).

For every set of breaks, calls, requests, people and keys, from `BreakAssumption` (NULL is none of them, requests
are finite): `WorkTypeCorrectness`, `RowsTellOneStory`, `OneTookEachOpening`, `ReopensWereGranted`,
`AnsweredWasAudited`, the action property `ClaimantKeptBreak` and the refinement `BreaksLiveSo` (`WorkSpec =>
ImplementsBreakLife`). `WorkIInv` adds:

- `Took`: what a call did to a break belongs to its current opening or to an earlier one; while it is the current one, a
  claim keeps the break from being claimed again, and an end keeps it from being worked on. Two takers of one opening
  would have met this guard, whatever copies they had read.
- `Works` and `Kept`: a call past its audit, and a response in the cache, have their event on the trail.
- `Asks`: a pending row belongs to a request nobody granted; after the grant it is that of two people. `Spent` counts the
  requests that are through: a reopen adds one to both sides of `ReopensAreGranted`.

### Payables (`PayableProofs`)

For every set of requests, people, payables, keys, calls and lines, from `PayableAssumption` (NULL is none of them, nor a
row; a key stands for one payable): `TypeCorrectness`, `CloseNamedItsGrant`, `OneCloseSucceeded`, `DebitsWereAuthorised`,
`LedgerCitedTheClose`, `LedgerWasBackedByP9`, `AnsweredWasRecorded`. The invariant has two halves:

- `Granted` and `Executed`, per request: a pending row has not been granted, "approved" names the human whose claim won,
  and an execution that was told it closed the period closed it under this very request. The evidence of the close is
  read from the row in the transaction that writes it (`SavedNames`), and no late writer can make the row say
  "approved" with another name.
- per instruction and per dispatch call (`Sent`, `Underway`, `Directed`, `Told`, `Begun`, `Holds`): whatever a call
  carries from its authorisation on is the close's, and the answer it holds is one P9 has given (`Became`: P9 leaves
  "dispatched" once). The ledger is what calls insert (`NewRowHolds`); when a call reads rows under its key and
  inserts none, the latest of them already says what it was answered (`LatestIsThere`).

### Disputes, invoicing, revocation (`DisputesProofs`, `InvoicingProofs`, `RevocationProofs`)

All properties their passing runs check, for every set of requests, humans, cases, files, consents, drafts and calls,
from the assumptions of the modules (`None` is none of them; in `Invoicing` the requests are finite, because they are
counted). All three rest on `GateRow`, of which they use three lemmas proved there and nothing else (`Creates`, `Writes`,
`Grants`: what an action of the gate makes of a row and of its winner). The invariants:

- *per request* (`Request`, in `Revocation` the conjunction of `Asked`, `Sweeps`, `Suspects` and `Submits`): a grant is
  a second human's; a row that is pending belongs to a request that has not been granted, so that a grant comes once;
  and what the execution has done outside is what its step says. This makes `paid[r] <= 1` and `told[r] <= 1` follow
  from the steps of one job, although late writers change the row at any time.
- `Disputes`: `Checked` adds that a PATCH in flight is about a case on file and asks for another state than
  `refund_initiated`, so that its late write cannot fake a refund, whatever the case has become.
- `Invoicing`: `FileInv` (a marked file is what its match says, whichever call marked it, and the same for each),
  `MatchInv`, `Allowed` (an invoice run that exists is for a clean file; clean is final, since every match finds the
  same), and `SentInv`, which counts instructions by executions past their dispatch, each of which holds a grant.
- `Revocation`: `Sweeps` (what a sweep has not revoked is still in flight; past its `Promise.all` nothing is),
  `Suspects` (what a fraud revocation has revoked, drafted and said), `Opened` and `HandedOff` (where a draft comes from
  and whose handoff it names), `ConsentInv`. That two handoffs of one draft may race is covered for any number here.

### Billing jobs (`BillingJobsProofs`)

*Evidence*, for any documents, works and versions and finitely many calls: `TypeCorrectness`, `AcceptancesLeaveRows`
(`EveryAcceptanceLeavesARow`) and `EvidenceKeepsItsPromise` (`Spec => ImplementsOutbox`). `Knows` says what each
call knows: from its save on, the bytes on file are its own, since a second version is refused. The counting is in
`TruthInv`: the accepted rows of a document, and the calls that hold an acceptance they have yet to write
(`Tellers`), are no more than what the partner took; `OneLess`, `NoMore` and `AtMostOneMore` move one call in or out
of such a set. The other side is `EveryAcceptanceLeavesARow`, by call and document: it does not compare lengths, in
which rows of rejected and repeated attempts would stand in for one that is missing. An acceptance without a row of
its own (`unwritten`) belongs to a call that is about to write it, or is in one of two ends: the process died
(`DieUnder`), or the append of the catch threw in its turn (`RecordFailureFails`), which leaves none in a process
that lives on. It is inductive with `TypeOK` (`RowsKept`).

*Watch*, for every number of runs, sources, texts and snapshots: `WatchTypeCorrectness` and `NotifiedWasHeard`, from
`MissingInv` (a ticket id on file is that of a ticket P3 holds) and `Carries` (so is the one a run is about to write).

*Ingest*, for all facts, calls and batches, from `MeteringAssumption` and `IngestAssumption` (the types of the constants):
`IngestTypeCorrectness`, `OneRunHadItAll`, `CallsWerePairedOnce` (`PairedOnce`) and `FreePagesWereGivenOnce`
(`FreePagesGivenOnce`).

- `OneRunHadItAll` is about overlapping projections. A *view* of a month is a run of it on file, or what a call has read
  of it and may still save. `ViewInv`: of two views of one month one holds the other, because each is what the growing
  table held at some time; hence the runs of a month have a greatest (`GreatestInv`), whichever call saves last. `Keeps`:
  the months a call is done with have a run with its facts. The mutant `ReadOwn`, which meters what the call was given,
  breaks the first.
- `CallsWerePairedOnce` and `FreePagesWereGivenOnce` follow from two theorems about `Metering` that know nothing of
  ingests: for every finite set of facts that do not contradict each other (`Consistent`), `PairingIsAMatching` and
  `AllowanceIsTheirs`; and `StoreInv`: the conflict check keeps the table such a set. The allowance is that of the code's
  key: of the customer, day and mode, whichever clients call, and of the serving LFI where each grants its own. The
  mutant `UsedByClient` gives it once for each client.

`PairingIsAMatching` and `AllowanceIsTheirs` are inductions over data. The induction and recursion theorems of the
library take an operator as a parameter, which the installed provers cannot instantiate, so the module proves what
it needs for sets instead: `Counting` (a set of numbers closed under successor has them all, from the
well-foundedness of the naturals), `BySize` (what passes from the sets with one element less to a finite set holds
of it; "what" is a set of sets), `SetRecursion` (a function may be defined by what it makes of a set without one
element), `LastOfThem` (a total order on a finite set has a last element) and `TotalAdds` (the sum `MapThenSumSet`
computes does not depend on its order). With these `PairingRecurs` shows that `Pairing` is what its recursion says,
and the two theorems go by the latest payment and the latest call of the day: the allowance that a call finds used
is what its predecessors paged (`UsedBefore`).

### Only model-checked

`ChangesAreHeard`, with its premise and its exception, for the reason given above, and the finding `refund_blocked`,
which is a counterexample. That the fairness the watch assumes is the code's is an argument of this README. What the
models leave out (section 6) is neither checked nor proved. No module declares a `RECURSIVE` operator: with one the
proof system loses its SMT backend.

## 5. Where the code and its documents disagree

With a run that TLC finds violated and an entry under "findings":

- *The double-compensation guard refuses to settle the same loss in both schemes* (`bff/disputes/service.ts:258-259`,
  PRD:314). `compensation_blocked` is read when the refund is requested and by nothing after it. In `refund_blocked` the
  refund is asked for through the case's own route, then the loss is settled in the other scheme, then a second human
  grants the request, and the refund leaves. `POST /approvals` does not read the mark at all, at any time; the run's
  action constraint keeps that shorter way out of it.

Stated as definitions that TLC violates at once, noted while modelling; no run is kept for them:

1. `ResolutionIsImmutable` (`Approvals`; PRD:173, "Immutable on resolution"). `store.update` writes by id alone what its
   caller once read: `approved` becomes `timed_out` or `rejected` after the operation ran, and its result is lost.
   `approved_at` survives. For a cost period the close then stands, its payables can no longer be dispatched, and the
   period cannot be closed again.
2. `TerminalIsLast` (`PayablePeriod`; `billing-payable-store.ts:43-46`). Two overlapping `recordDispatch` under one key
   both read the ledger before either inserts, and `created_at` is the start of the transaction: `dispatched` may be
   the latest row of a debit whose terminal state is on file.
3. `ClosesOnlyWhenClear` (`PayablePeriod`; `payable-close.ts:146-148`, "a break raised in between must stop the close").
   It does between request and execution, not between the check (194) and the insert.
4. `CasesArePersisted` (`BreakWorkflow`; PRD:217, "Nebras case ID persisted"). `escalateToNebras` opens the case after
   an unguarded read; when the guarded update then loses to another call, the case is on no break and in no event.
5. `RerunIsComplete` (`ReconciliationRun`; `reconciliation-log-store.ts:125-126`, ADR 0005:14, "resumable and
   idempotent"). A run is on file before its breaks (268), and only the call that put it there detects (307): a crash in
   between is final.
6. `SignoffCoversTheMonth` (`ReconciliationRun`; `reconciliation-break-store.ts:290-291`, "a month's runs share the
   prefix"). Replays do not.
7. `MemosAreLogged` (`ReconciliationRun`; `reconciliation/service.ts:315-319`). The table's CHECK refuses the memos' run
   type. Nothing calls `ingestCollectionMemo` yet.
8. `DraftProgresses` (`Revocation`; `0029_str_draft.sql:23-24`, `str-draft-store.ts:8-9`). A handoff granted before the
   submit has written its mark is put back to `awaiting_handoff`, its reference and approver kept.
9. `ExportedRunsHaveTheirBreaks` (`ReconciliationRun`; `reconciliation/service.ts:924`, "every run + break in the
   window"). The export takes runs by the run's `created_at` and breaks by the break's
   (`reconciliation/service.ts:937-941`): a run stored before midnight is exported without the breaks stored after
   it, which go with the next range, or with none. Either list ends at 5000 rows without a word (`listForRange`),
   the runs of a sign-off at 1000.
10. `RefundsGoToTheCase` (`Disputes`; no document promises it). `POST /approvals` may name any consent, and the operation
   sends the refund to P6 on it (`disputes/service.ts:108,116`) while it marks the case.

Noted without a definition:

- *Payables*: the refusal of a close tells the operator to resolve *or escalate* each break (`payable-close.ts:244`), but
  an escalated break counts as open (`billing-payable-store.ts:193`).
- *Invoicing*: `open_break_count` is never decremented, so that a file with breaks is never invoiced and
  `withheld_line_count` is always 0, against the comment at `invoicing.ts:208-209` and PRD:311; `LinkRun` may put a run
  back from `dispatched_to_p9`; two matches raise every break twice; two runs of one file can both be dispatched; P9's
  `accepted: false` is read by nobody (`invoicing.ts:85-86`).
- *Metering*: `PAIRABLE_ENDPOINTS` has `GET /accounts/{id}/balances` (`metering.ts:95`); a call reported as
  `GET /accounts/{AccountId}/balances`, which the rate card has too and calls `data_pairable` (`rate-card.ts:115`), never
  pairs; calls without a `psuId` share one allowance and pair with each other's
  payments; a pair is not found across the end of a month; `latestMeterRun` is the run created last, which may be an
  older projection than another on file (`memo-reconciliation.ts:136`, `tpp-cost.ts:87`); one stored fact without its
  metadata makes every later ingest of its month throw (`metering-ingest.ts:112`).
- *Evidence*: when the first event of a journal batch fails, no later dispatch emits it, because the batch is no longer
  new; a `transport_error` row may follow an accepted one for the same attempt; with the database away an acceptance has
  no row at all, since the append of the catch throws as the first one did (`einvoicing.ts:118-127`, `accounting.ts:117`).
- *Rating*: a batch cap is split by rounding each share half up and giving the last line the rest (`rating.ts:298`): 732
  payments at 25 fils under a cap of 250 fils leave the last line below zero.
- *Watch*: the window between snapshot and review (`rate-card-watch.ts:328`), an exception in `ChangesAreHeard`. Two
  captures within one millisecond conflict on the snapshot's key; the model has them apart. Once the tenant's card was
  edited under the version that is on file, every later run throws at `rate-card-watch.ts:297`
  (`billing-rate-card-store.ts:175`) before it has taken a ticket or looked at a page, and `Promise.allSettled`
  (`worker.ts:363`) drops the error. With several tenants, one active tenant without a configuration stops the watch of
  all (`worker.ts:160`); the model has one tenant, and it has a card.
- *Agents*: the BFF builds its spend ledger with the application, for every request (`worker.ts`), so that its cap never
  binds.
- *Consents and STR*: a sweep of which one egress fails, or whose event fails, leaves consents revoked without mark or
  record; two submits that read one draft make two requests that may both hand off, and `approval_id` may name another
  than the one that did; `POST /approvals` opens a handoff of any id with any consent text, and the handoff of a draft
  that does not exist is audited as handed off; a refused handoff request leaves the draft `awaiting_handoff`, from
  where it cannot be submitted; the P6 adapter does not look at the status of the revoke's answer
  (`sim.ts:262-268`).

## 6. Not modelled, and the plan

The components marked `not_modelled` in `PROJECT.json` say why. What is left, in the order of its weight:

1. **Agent spend at the gateway**: check and commit apart, in the memory of one process.
2. **Rating, TPP cost documents, collection memos, settlement decomposition**: pure functions of their inputs without an
   interleaving, amounts to the fils; worth having as operators against reference definitions. They would bring most of
   the lines that no module maps yet, but what can go wrong in them a unit test reaches.
3. **Collections, respondent disputes, scheme notifications, service desk**: read-check-update lifecycles in the shape of
   `Disputes` and `BreakWorkflow`, without a gate; the dunning ladder evaluated out of order is the one with something
   of its own.
4. **Payables added after the close, keys shared between payables**: two constants of `PayablePeriod` to open up.
5. **Read models, reports, views, portal, generated code, seeds and tooling**: computations over stored rows or no
   state at all; nothing another part relies on is written there.

Proofs planned: with the present models none is left but liveness. What is modelled next is to be proved with it, and the
lemmas on sums and recursion over finite sets (section 4) are what rating (tiers, caps) and settlement decomposition
will need.

Left out throughout: wording, paging, hashes, telemetry, tenancy (row-level security separates the rows of banks,
and every run is one bank), the in-memory stores of the demo profile, and superadmin, who is one more subject
holding every scope.
