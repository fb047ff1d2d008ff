--------------------------- MODULE RateCardWatch ---------------------------
(***************************************************************************)
(* The weekly watch of the scheme's pricing pages                          *)
(* (services/bff/src/billing/rate-card-watch.ts over packages/db/src/      *)
(* billing-rate-card-store.ts): a page that changed becomes a snapshot,    *)
(* the pair of snapshots a review, and the review a ticket for Finance and *)
(* one for Compliance at the ITSM (P3).                                    *)
(*                                                                         *)
(* A run is one delivery of the cron trigger.  It may meet another run,    *)
(* fail at any call and die at any point; what it left undone is the       *)
(* business of a later run.  A run first files the tenant's rate card      *)
(* under its version; when another card is on file there, it does nothing. *)
(***************************************************************************)
EXTENDS Naturals, Sequences

CONSTANTS
    Runs,           \* deliveries of the trigger that may overlap
    Sources,        \* the pages watched
    Contents,       \* what a page may say, after normalizeSourceText
    Cards,          \* rate cards the tenant's configuration may make of the scheme's
    VersionIds,     \* versions a card may name
    VersionOf,      \* VersionOf[k]: the version card k names
    MaxSnapshots,   \* bound on the snapshots on file
    Nothing         \* no value: no card, no snapshot, no review, no source in hand

ASSUME RateCardAssumption ==
    /\ MaxSnapshots \in Nat
    /\ VersionOf \in [Cards -> VersionIds]
    /\ Nothing \notin Nat \cup Sources \cup Contents \cup Cards

VARIABLES
    web,            \* web[s]: what source s says
    card,           \* the tenant's rate card, as its configuration makes it
    cardOf,         \* cardOf[v]: billing_rate_card_version, the card whose hash v has
    snapshots,      \* billing_source_snapshot in the order of insertion
    latest,         \* latest[s]: the snapshot of s with the highest captured_at
    reviews,        \* reviews[n]: the billing_rate_card_review whose current snapshot is n
    tickets,        \* the <<review, team>> for which P3 holds a ticket
    run             \* run[w]: how far w is, and its local variables

outside == <<web, card>>
tables == <<cardOf, snapshots, latest, reviews>>
watchVars == <<outside, tables, tickets, run>>

-----------------------------------------------------------------------------
Teams == {"Finance", "Compliance"}
Ids == 1..MaxSnapshots

\* A review as the store shows it: the teams whose ticket id is still NULL.
Review == [status : {"none", "notification_pending", "notified"}, missing : SUBSET Teams]
NoReview == [status |-> "none", missing |-> Teams]

Snapshot == [source : Sources, content : Contents, previous : Ids \cup {Nothing}]

Step == {"idle", "sweep", "next", "fetched", "compared", "inserted", "filed",
         "notify", "ticketed", "failing"}

\* todo: reviews to notify, with the teams that were missing when they were read.
\* review, team: the ticket in hand.  left: sources to go.  source .. current: the
\* locals of the loop over the sources.  base: what was latest when it captured.
Run == [at : Step, todo : [Ids -> SUBSET Teams],
        review : Ids \cup {Nothing}, team : Teams \cup {Nothing}, left : SUBSET Sources,
        source : Sources \cup {Nothing}, content : Contents \cup {Nothing},
        base : Ids \cup {Nothing}, previous : Ids \cup {Nothing}, current : Ids \cup {Nothing}]

NothingToDo == [n \in Ids |-> {}]
IdleRun == [at |-> "idle", todo |-> NothingToDo, review |-> Nothing, team |-> Nothing,
            left |-> {}, source |-> Nothing, content |-> Nothing,
            base |-> Nothing, previous |-> Nothing, current |-> Nothing]

WatchInit ==
    /\ web \in [Sources -> Contents]
    /\ card \in Cards
    /\ cardOf = [v \in VersionIds |-> Nothing]
    /\ snapshots = <<>>
    /\ latest = [s \in Sources |-> Nothing]
    /\ reviews = [n \in Ids |-> NoReview]
    /\ tickets = {}
    /\ run = [w \in Runs |-> IdleRun]

-----------------------------------------------------------------------------
(* A run. *)

SetRun(w, k) == run' = [run EXCEPT ![w] = k]
RunGoes(w, step) == SetRun(w, [run[w] EXCEPT !.at = step])

\* On to the next source, with nothing in hand.
NextSource(w) == SetRun(w, [IdleRun EXCEPT !.at = "next", !.left = run[w].left])

\* ensureRateCardVersion: ON CONFLICT (version) DO NOTHING, and what is on file must
\* have the hash of the card in hand.
CardRefused == cardOf[VersionOf[card]] \notin {Nothing, card}

EnsureVersion ==
    /\ ~CardRefused
    /\ cardOf' = [cardOf EXCEPT ![VersionOf[card]] = card]

\* Slip: the run goes straight to the sources.
StartAtSources(w) ==
    /\ run[w].at = "idle"
    /\ EnsureVersion
    /\ SetRun(w, [IdleRun EXCEPT !.at = "next", !.left = Sources])
    /\ UNCHANGED <<outside, snapshots, latest, reviews, tickets>>

\* reviewsAwaitingNotification, with the teams that have no ticket id.
AwaitingNotification ==
    [n \in Ids |-> IF reviews[n].status = "notification_pending" THEN reviews[n].missing
                                                                ELSE {}]

\* run: the version of the card goes on file, and the reviews awaiting notification are
\* read.  A run whose card is refused throws here and has done nothing: as long as the
\* tenant's card stays what it is, so does every run after it.
Start(w) ==
    /\ run[w].at = "idle"
    /\ EnsureVersion
    /\ SetRun(w, [IdleRun EXCEPT !.at = "sweep", !.left = Sources,
                                 !.todo = AwaitingNotification])
    /\ UNCHANGED <<outside, snapshots, latest, reviews, tickets>>

\* The process dies, or a call the run does not guard fails for once: reading the
\* reviews, or the audit event of a failure.
Die(w) ==
    /\ run[w].at # "idle"
    /\ SetRun(w, IdleRun)
    /\ UNCHANGED <<outside, tables, tickets>>

-----------------------------------------------------------------------------
(* notifyReview. *)

Notifying(w) == run[w].at \in {"sweep", "notify"}

\* Finance before Compliance.
Recipient(missing) == IF "Finance" \in missing THEN "Finance" ELSE "Compliance"

\* Both loops end: the sweep goes on to the sources, a source to the next one.
Notified(w) ==
    /\ Notifying(w)
    /\ run[w].todo = NothingToDo
    /\ NextSource(w)
    /\ UNCHANGED <<outside, tables, tickets>>

\* This review's turn at this team has come and is over, one way or the other.
TicketInHand(w, n, step) ==
    LET team == Recipient(run[w].todo[n])
    IN  SetRun(w, [run[w] EXCEPT !.at = step, !.review = n, !.team = team,
                                 !.todo[n] = @ \ {team}])

\* createTicket answers.
TakeTicket(w, n) ==
    /\ Notifying(w)
    /\ run[w].todo[n] # {}
    /\ tickets' = tickets \cup {<<n, Recipient(run[w].todo[n])>>}
    /\ TicketInHand(w, n, "ticketed")
    /\ UNCHANGED <<outside, tables>>

\* createTicket throws; P3 may hold the ticket all the same.
LoseTicket(w, n) ==
    /\ Notifying(w)
    /\ run[w].todo[n] # {}
    /\ tickets' \in {tickets, tickets \cup {<<n, Recipient(run[w].todo[n])>>}}
    /\ TicketInHand(w, n, "failing")
    /\ UNCHANGED <<outside, tables>>

\* Slip: the status is settled by what this run has left to do.
StatusByCopy(w, n, missing) ==
    IF run[w].todo[n] = {} THEN "notified" ELSE "notification_pending"

\* CASE WHEN both ids are there THEN 'notified', on the row as it is.
StatusOf(w, n, missing) == IF missing = {} THEN "notified" ELSE "notification_pending"

\* Back in the loop the ticket came from: only a review that this run has just filed
\* is notified with a source in hand.
Resume(w) ==
    SetRun(w, [run[w] EXCEPT !.at = IF run[w].source = Nothing THEN "sweep" ELSE "notify",
                             !.review = Nothing, !.team = Nothing])

\* markReviewRecipientNotified: COALESCE keeps the id that is there.
MarkNotified(w) ==
    LET n == run[w].review
        missing == reviews[n].missing \ {run[w].team}
    IN  /\ run[w].at = "ticketed"
        /\ reviews' = [reviews EXCEPT ![n] = [status |-> StatusOf(w, n, missing),
                                              missing |-> missing]]
        /\ Resume(w)
        /\ UNCHANGED <<outside, cardOf, snapshots, latest, tickets>>

\* The UPDATE fails.
MarkFails(w) ==
    /\ run[w].at = "ticketed"
    /\ RunGoes(w, "failing")
    /\ UNCHANGED <<outside, tables, tickets>>

\* The failure is audited and the loop goes on.
AuditSourceFailure(w) ==
    /\ run[w].at = "failing"
    /\ Resume(w)
    /\ UNCHANGED <<outside, tables, tickets>>

-----------------------------------------------------------------------------
(* The sources. *)

\* fetchSource, and the hour of the capture.
Fetch(w, s) ==
    /\ run[w].at = "next"
    /\ s \in run[w].left
    /\ SetRun(w, [run[w] EXCEPT !.at = "fetched", !.left = @ \ {s}, !.source = s,
                                !.content = web[s], !.base = latest[s]])
    /\ UNCHANGED <<outside, tables, tickets>>

ContentOf(n) == IF n = Nothing THEN Nothing ELSE snapshots[n].content

\* latestSnapshot: the same text is not a change.
Compare(w) ==
    LET n == latest[run[w].source]
    IN  /\ run[w].at = "fetched"
        /\ IF ContentOf(n) = run[w].content
           THEN NextSource(w)
           ELSE SetRun(w, [run[w] EXCEPT !.at = "compared", !.previous = n])
        /\ UNCHANGED <<outside, tables, tickets>>

\* createSnapshot.  One that another run inserted since this run captured may have
\* been captured later.  A first snapshot is a baseline.
Insert(w) ==
    LET s == run[w].source
        n == Len(snapshots) + 1
    IN  /\ run[w].at = "compared"
        /\ n \in Ids
        /\ snapshots' = Append(snapshots, [source |-> s, content |-> run[w].content,
                                           previous |-> run[w].previous])
        /\ \/ latest' = [latest EXCEPT ![s] = n]
           \/ latest[s] # run[w].base /\ UNCHANGED latest
        /\ IF run[w].previous = Nothing
           THEN NextSource(w)
           ELSE SetRun(w, [run[w] EXCEPT !.at = "inserted", !.current = n])
        /\ UNCHANGED <<outside, cardOf, reviews, tickets>>

\* createReview: no other run has this pair of snapshots.
FileReview(w) ==
    /\ run[w].at = "inserted"
    /\ reviews' = [reviews EXCEPT ![run[w].current].status = "notification_pending"]
    /\ RunGoes(w, "filed")
    /\ UNCHANGED <<outside, cardOf, snapshots, latest, tickets>>

\* The change is audited; then notifyReview on the row createReview returned.
AuditChange(w) ==
    /\ run[w].at = "filed"
    /\ SetRun(w, [run[w] EXCEPT !.at = "notify",
                                !.todo[run[w].current] = Teams])
    /\ UNCHANGED <<outside, tables, tickets>>

\* A call throws: the source is given up, and the next one has its turn.
SourceFails(w) ==
    /\ run[w].at \in {"fetched", "compared", "inserted", "filed"} \/
       (run[w].at = "failing" /\ run[w].source # Nothing)
    /\ NextSource(w)
    /\ UNCHANGED <<outside, tables, tickets>>

FinishRun(w) ==
    /\ run[w].at = "next"
    /\ run[w].left = {}
    /\ SetRun(w, IdleRun)
    /\ UNCHANGED <<outside, tables, tickets>>

\* The scheme edits a page.
Edit(s) ==
    /\ \E c \in Contents \ {web[s]} : web' = [web EXCEPT ![s] = c]
    /\ UNCHANGED <<card, tables, tickets, run>>

\* The tenant's configuration changes, or the scheme's card does with a release: a year
\* anchor or an overage is another card under the same version.
Configure(k) ==
    /\ k # card
    /\ card' = k
    /\ UNCHANGED <<web, tables, tickets, run>>

Proceed(w) ==
    \/ Notified(w) \/ MarkNotified(w) \/ MarkFails(w) \/ AuditSourceFailure(w)
    \/ Compare(w) \/ Insert(w) \/ FileReview(w) \/ AuditChange(w)
    \/ SourceFails(w) \/ FinishRun(w)
    \/ \E s \in Sources : Fetch(w, s)
    \/ \E n \in Ids : TakeTicket(w, n) \/ LoseTicket(w, n)

WatchNext ==
    \/ \E s \in Sources : Edit(s)
    \/ \E k \in Cards : Configure(k)
    \/ \E w \in Runs : Start(w) \/ Proceed(w) \/ Die(w)

-----------------------------------------------------------------------------
(* The trigger fires every week, a run that got past its card goes on      *)
(* until it ends or dies, and P3 and the database do not refuse a ticket   *)
(* or its mark for ever.  Nothing keeps runs from failing or dying any     *)
(* number of times in between.  A card that is refused is no such failure: *)
(* Start is disabled then, and fairness asks nothing of it.                *)

Fairness ==
    /\ WF_watchVars(\E w \in Runs : Start(w))
    /\ \A w \in Runs : WF_watchVars(Proceed(w))
    /\ SF_watchVars(\E w \in Runs, n \in Ids : TakeTicket(w, n))
    /\ SF_watchVars(\E w \in Runs : MarkNotified(w))

WatchSpec == WatchInit /\ [][WatchNext]_watchVars /\ Fairness

-----------------------------------------------------------------------------
(* Properties *)

WatchTypeOK ==
    /\ web \in [Sources -> Contents]
    /\ card \in Cards
    /\ cardOf \in [VersionIds -> Cards \cup {Nothing}]
    /\ snapshots \in Seq(Snapshot) /\ Len(snapshots) <= MaxSnapshots
    /\ latest \in [Sources -> Ids \cup {Nothing}]
    /\ reviews \in [Ids -> Review]
    /\ tickets \subseteq Ids \X Teams
    /\ run \in [Runs -> Run]

\* A review that left the queue was heard by both teams: whatever runs overlapped on
\* it with copies of whatever age, P3 holds a ticket for each.
NotifiedIsHeard ==
    \A n \in Ids :
        reviews[n].status = "notified" => \A team \in Teams : <<n, team>> \in tickets

\* A run found the page changed; or its changed snapshot is left without a review.
Changed(n) == n <= Len(snapshots) /\ snapshots[n].previous # Nothing
LeftBehind(n) ==
    /\ reviews[n].status = "none"
    /\ \A w \in Runs : run[w].current # n

\* Every change is brought to both teams in the end, whatever fails in between, with two
\* exceptions.  A run may have failed in the one window nobody comes back to, after the
\* snapshot went in and before its review did; and nobody is told of anything while the
\* tenant's card is refused, which the premise rules out from some time on.
ChangesAreHeard ==
    <>[]~CardRefused =>
        \A n \in Ids : Changed(n) ~> (reviews[n].status = "notified" \/ LeftBehind(n))

=============================================================================
