-------------------------- MODULE EvidenceDispatch --------------------------
(***************************************************************************)
(* Outbound evidence: the PINT-AE documents of an invoice run on their way *)
(* to the accredited service provider (P11, services/bff/src/billing/      *)
(* einvoicing.ts) and the journal batch of a month on its way to the       *)
(* financial system (P9, accounting.ts).  Both file the exact bytes first, *)
(* submit them, and append the outcome of every attempt; the journals are  *)
(* audited as well.  Each transaction may fail, its answer may be lost,    *)
(* and the process may die between any two steps.                          *)
(***************************************************************************)
EXTENDS Naturals, Sequences, FiniteSets

CONSTANTS
    Documents,      \* e-invoice document ids and accounting batch ids
    Journals,       \* the batches among them
    Works,          \* the documents of one call, in the order it has them
    Versions,       \* the bytes a document may be generated with
    Calls,          \* calls of dispatchPintAeDocuments and generateAndDispatch
    None

ASSUME EvidenceAssumption ==
    /\ Journals \subseteq Documents
    /\ Works \subseteq Seq(Documents) \ {<<>>}
    /\ None \notin Versions
    /\ IsFiniteSet(Calls)

VARIABLES
    filed,          \* filed[d]: the artifact row of d, by its bytes
    taken,          \* taken[d]: what the partner accepted under d
    log,            \* log[d]: the submission rows of d, by attempt_no
    trail,          \* billing_accounting_batch_* and billing_journal_batch_* events
    call,           \* call[c]: a call
    unwritten       \* the <<call, document>> accepted with no row of it (history)

vars == <<filed, taken, log, trail, call, unwritten>>

-----------------------------------------------------------------------------
CallStep == {"idle", "ready", "created", "saved", "answered", "logged", "caught",
             "noted", "done", "failed", "unrecorded", "died"}

\* What the partner made of the document in hand, as far as the call is concerned.
\* "lost": it took the document and its answer never came.
Response == {"none", "accepted", "rejected", "unreachable", "lost"}

\* left: the documents still to be sent, the one in hand first.
Call == [at : CallStep, left : Seq(Documents), version : Versions \cup {None},
         response : Response]

Event == [call : Calls, kind : {"generated", "dispatched", "dispatch_failed"}]

Init ==
    /\ filed = [d \in Documents |-> None]
    /\ taken = [d \in Documents |-> <<>>]
    /\ log = [d \in Documents |-> <<>>]
    /\ trail = {}
    /\ call = [c \in Calls |->
                  [at |-> "idle", left |-> <<>>, version |-> None, response |-> "none"]]
    /\ unwritten = {}

InHand(c) == Head(call[c].left)
Audited(c) == InHand(c) \in Journals
Goes(c, step) == call' = [call EXCEPT ![c].at = step]

-----------------------------------------------------------------------------
\* buildPintAeDocuments, buildAccountingBatch: a function of inputs that may have
\* changed since the last call.
Generate(c, work, v) ==
    /\ call[c].at = "idle"
    /\ call' = [call EXCEPT ![c].at = "ready", ![c].left = work, ![c].version = v]
    /\ UNCHANGED <<filed, taken, log, trail, unwritten>>

\* Slip: an id on file is taken for the same document.
SaveById(c) ==
    LET d == InHand(c)
    IN  /\ call[c].at = "ready"
        /\ IF filed[d] = None
           THEN /\ filed' = [filed EXCEPT ![d] = call[c].version]
                /\ Goes(c, IF Audited(c) THEN "created" ELSE "saved")
           ELSE /\ Goes(c, "saved")
                /\ UNCHANGED filed
        /\ UNCHANGED <<taken, log, trail, unwritten>>

\* saveDocument, saveBatch: the row and its digest.
Save(c) ==
    /\ call[c].at = "ready"
    /\ filed[InHand(c)] \in {None, call[c].version}
    /\ SaveById(c)

\* Another digest on file: conflicting immutable document.
Refuse(c) ==
    /\ call[c].at = "ready"
    /\ filed[InHand(c)] \notin {None, call[c].version}
    /\ Goes(c, "failed")
    /\ UNCHANGED <<filed, taken, log, trail, unwritten>>

\* billing_accounting_batch_generated, by the call that created the row.
AuditGenerated(c) ==
    /\ call[c].at = "created"
    /\ trail' = trail \cup {[call |-> c, kind |-> "generated"]}
    /\ Goes(c, "saved")
    /\ UNCHANGED <<filed, taken, log, unwritten>>

\* submitDocument, postJournalInstructions.  A throw goes to the catch.
Submit(c) ==
    LET d == InHand(c)
    IN  /\ call[c].at = "saved"
        /\ \E response \in Response \ {"none"} :
               /\ call' = [call EXCEPT
                      ![c].at = IF response \in {"accepted", "rejected"}
                                THEN "answered" ELSE "caught",
                      ![c].response = response]
               /\ IF response \in {"accepted", "lost"}
                  THEN /\ taken' = [taken EXCEPT ![d] = Append(@, call[c].version)]
                       /\ unwritten' = unwritten \cup {<<c, d>>}
                  ELSE UNCHANGED <<taken, unwritten>>
        /\ UNCHANGED <<filed, log, trail>>

\* On to the next document, or back to the caller.
Finish(c) ==
    LET rest == Tail(call[c].left)
    IN  call' = [call EXCEPT ![c].at = IF rest = <<>> THEN "done" ELSE "ready",
                             ![c].left = rest, ![c].response = "none"]

\* appendSubmission, appendDispatch: the next attempt_no, under the advisory lock.
AppendOutcome(c, outcome) ==
    /\ log' = [log EXCEPT ![InHand(c)] = Append(@, outcome)]
    /\ unwritten' = unwritten \ {<<c, InHand(c)>>}

RecordOutcome(c) ==
    /\ call[c].at = "answered"
    /\ AppendOutcome(c, call[c].response)
    /\ IF Audited(c) THEN Goes(c, "logged") ELSE Finish(c)
    /\ UNCHANGED <<filed, taken, trail>>

\* It throws, and the row may have been committed all the same.
RecordOutcomeFails(c) ==
    /\ call[c].at = "answered"
    /\ AppendOutcome(c, call[c].response) \/ UNCHANGED <<log, unwritten>>
    /\ Goes(c, "caught")
    /\ UNCHANGED <<filed, taken, trail>>

\* billing_journal_batch_dispatched.
AuditDispatched(c) ==
    /\ call[c].at = "logged"
    /\ trail' = trail \cup {[call |-> c, kind |-> "dispatched"]}
    /\ Finish(c)
    /\ UNCHANGED <<filed, taken, log, unwritten>>

\* The audit sink throws inside the try, its event written or not: the outcome on
\* file is followed by another.
AuditDispatchedFails(c) ==
    /\ call[c].at = "logged"
    /\ trail' \in {trail, trail \cup {[call |-> c, kind |-> "dispatched"]}}
    /\ Goes(c, "caught")
    /\ UNCHANGED <<filed, taken, log, unwritten>>

\* Slip: the error goes up as it is.
Rethrow(c) ==
    /\ call[c].at = "caught"
    /\ Goes(c, "failed")
    /\ UNCHANGED <<filed, taken, log, trail, unwritten>>

\* The catch: whatever was thrown, the attempt is a transport_error.
RecordFailure(c) ==
    /\ call[c].at = "caught"
    /\ AppendOutcome(c, "transport_error")
    /\ Goes(c, IF Audited(c) THEN "noted" ELSE "failed")
    /\ UNCHANGED <<filed, taken, trail>>

\* The append of the catch throws in its turn, and nothing catches that: the row may be
\* there or not.
RecordFailureFails(c) ==
    /\ call[c].at = "caught"
    /\ AppendOutcome(c, "transport_error") \/ UNCHANGED <<log, unwritten>>
    /\ Goes(c, "unrecorded")
    /\ UNCHANGED <<filed, taken, trail>>

\* billing_journal_batch_dispatch_failed; the error goes up.
AuditFailure(c) ==
    /\ call[c].at = "noted"
    /\ trail' = trail \cup {[call |-> c, kind |-> "dispatch_failed"]}
    /\ Goes(c, "failed")
    /\ UNCHANGED <<filed, taken, log, unwritten>>

\* A save or an event outside the try throws, done or not: the error goes up.
Throw(c) ==
    /\ call[c].at \in {"ready", "created", "saved", "noted"}
    /\ Goes(c, "failed")
    /\ UNCHANGED <<filed, taken, log, trail, unwritten>>

\* The process dies under the call.
DieUnder(c) ==
    /\ call[c].at \notin {"idle", "done", "failed", "unrecorded", "died"}
    /\ Goes(c, "died")
    /\ UNCHANGED <<filed, taken, log, trail, unwritten>>

Next ==
    \E c \in Calls :
        \/ \E work \in Works, v \in Versions : Generate(c, work, v)
        \/ Save(c) \/ Refuse(c) \/ AuditGenerated(c) \/ Submit(c)
        \/ RecordOutcome(c) \/ RecordOutcomeFails(c)
        \/ AuditDispatched(c) \/ AuditDispatchedFails(c)
        \/ RecordFailure(c) \/ RecordFailureFails(c) \/ AuditFailure(c)
        \/ Throw(c) \/ DieUnder(c)

Spec == Init /\ [][Next]_vars

-----------------------------------------------------------------------------
(* Properties *)

TypeOK ==
    /\ filed \in [Documents -> Versions \cup {None}]
    /\ taken \in [Documents -> Seq(Versions)]
    /\ log \in [Documents -> Seq({"accepted", "rejected", "transport_error"})]
    /\ trail \subseteq Event
    /\ call \in [Calls -> Call]
    /\ unwritten \subseteq Calls \X Documents

\* The promise of the evidence: artifacts never change, a partner takes the bytes on
\* file and no other, no row claims an acceptance that was not given.
Outbox == INSTANCE Outbox

ImplementsOutbox == Outbox!Spec

\* Nothing a partner took goes unmentioned: each acceptance gets a row of its own, if
\* only one that calls it a transport error.  A call has the document still in hand and
\* is about to write that row, unless its process died before it could, or the row of
\* the catch, the last one it tries, failed as well: the two ways to leave none.
EveryAcceptanceLeavesARow ==
    \A c \in Calls, d \in Documents :
        <<c, d>> \in unwritten =>
            InHand(c) = d /\ call[c].at \in {"answered", "caught", "unrecorded", "died"}
=============================================================================
