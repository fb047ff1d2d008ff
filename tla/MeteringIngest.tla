--------------------------- MODULE MeteringIngest ---------------------------
(***************************************************************************)
(* The durable boundary of metering: services/bff/src/billing/             *)
(* metering-ingest.ts over packages/db/src/billing-metering-store.ts.      *)
(* Facts are delivered at least once and in any order; a call stores those *)
(* it was given in one transaction, then, for each month they touch, reads *)
(* the whole month and keeps its projection.  Calls overlap, and one may   *)
(* stop between any two of its transactions.                               *)
(***************************************************************************)
EXTENDS Metering

CONSTANTS
    Facts,          \* what the gateway may deliver, two stories under one id included
    Ingests,        \* ingest calls
    Batches         \* what one call may be given; a call that is given nothing does nothing

ASSUME IngestAssumption ==
    /\ Facts \subseteq Fact
    /\ \A batch \in Batches : batch \subseteq Facts /\ IsFiniteSet(batch) /\ batch # {}

VARIABLES
    events,         \* the billing_event table
    runs,           \* billing_meter_run, by its unique key; the lines are Metered(facts)
    ingest          \* ingest[c]: the ingest call c

ingestVars == <<events, runs, ingest>>

-----------------------------------------------------------------------------
MonthsOf(F) == {Month(e) : e \in F}
OfMonth(F, m) == {e \in F : Month(e) = m}

IngestStep == {"idle", "given", "stored", "read", "answered", "failed"}

\* batch: its deliveries; left: the months still to be metered; seen: the events of
\* the month it read last.
Ingest == [at : IngestStep, batch : SUBSET Facts, left : SUBSET MonthsOf(Facts),
         seen : SUBSET Facts]

MeterRun == [month : MonthsOf(Facts), facts : SUBSET Facts]

IngestInit ==
    /\ events = {}
    /\ runs = {}
    /\ ingest = [c \in Ingests |-> [at |-> "idle", batch |-> {}, left |-> {}, seen |-> {}]]

IngestGoes(c, step) == ingest' = [ingest EXCEPT ![c].at = step]

\* The call is refused, throws or stops: what it held is gone.
Lose(c) ==
    ingest' = [ingest EXCEPT ![c] = [at |-> "failed", batch |-> {}, left |-> {}, seen |-> {}]]

-----------------------------------------------------------------------------
(* ingest. *)

\* The deliveries are parsed, and told apart by id.
Deliver(c, batch) ==
    /\ ingest[c].at = "idle"
    /\ IF Conflict(batch)
       THEN Lose(c)
       ELSE ingest' = [ingest EXCEPT ![c] = [at |-> "given", batch |-> batch,
                                         left |-> MonthsOf(batch), seen |-> {}]]
    /\ UNCHANGED <<events, runs>>

\* ingestEvents: the facts go in together; an id on file with another hash rolls the
\* transaction back, whatever else was delivered with it.
Store(c) ==
    /\ ingest[c].at = "given"
    /\ IF Conflict(events \cup ingest[c].batch)
       THEN Lose(c) /\ UNCHANGED events
       ELSE IngestGoes(c, "stored") /\ events' = events \cup ingest[c].batch
    /\ UNCHANGED runs

NextMonth(c) == Min(ingest[c].left)

\* Slip: the month is projected from what this call was given.
ReadOwn(c) ==
    /\ ingest[c].at = "stored"
    /\ ingest' = [ingest EXCEPT ![c].at = "read",
                            ![c].seen = OfMonth(ingest[c].batch, NextMonth(c))]
    /\ UNCHANGED <<events, runs>>

\* eventsForPeriod, in a transaction of its own.
Read(c) ==
    /\ ingest[c].at = "stored"
    /\ ingest' = [ingest EXCEPT ![c].at = "read",
                            ![c].seen = OfMonth(events, NextMonth(c))]
    /\ UNCHANGED <<events, runs>>

\* One fact of the month without its metadata: the projection throws, now and at every
\* later call for this month.
Unmeterable(c) ==
    /\ ingest[c].at = "read"
    /\ ~Meterable(ingest[c].seen)
    /\ Lose(c)
    /\ UNCHANGED <<events, runs>>

\* saveMeterRun: the run of these very inputs is created unless it is on file, and the
\* call goes on to its next month.
SaveMeterRun(c) ==
    LET m == NextMonth(c)
        rest == ingest[c].left \ {m}
    IN  /\ ingest[c].at = "read"
        /\ Meterable(ingest[c].seen)
        /\ runs' = runs \cup {[month |-> m, facts |-> ingest[c].seen]}
        /\ ingest' = [ingest EXCEPT ![c].at = IF rest = {} THEN "answered" ELSE "stored",
                                ![c].left = rest, ![c].seen = {}]
        /\ UNCHANGED events

Crash(c) ==
    /\ ingest[c].at \in {"given", "stored", "read"}
    /\ Lose(c)
    /\ UNCHANGED <<events, runs>>

IngestNext ==
    \E c \in Ingests :
        \/ \E batch \in Batches : Deliver(c, batch)
        \/ Store(c) \/ Read(c) \/ Unmeterable(c) \/ SaveMeterRun(c) \/ Crash(c)

IngestSpec == IngestInit /\ [][IngestNext]_ingestVars

-----------------------------------------------------------------------------
(* Properties *)

IngestTypeOK ==
    /\ events \subseteq Facts
    /\ runs \subseteq MeterRun
    /\ ingest \in [Ingests -> Ingest]

Answered == {c \in Ingests : ingest[c].at = "answered"}

\* What a caller was told is metered is, whatever overlaps, fails or is delivered
\* again: of the runs of a month one holds every fact that was acknowledged and all
\* that any other run holds, so there is one to bill by, and its event count tells it.
OneRunHasItAll ==
    LET told == UNION {ingest[c].batch : c \in Answered}
    IN  \A m \in MonthsOf(told) \cup {run.month : run \in runs} :
            \E all \in runs :
                /\ all.month = m
                /\ OfMonth(told, m) \subseteq all.facts
                /\ \A run \in runs : run.month = m => run.facts \subseteq all.facts

\* The two-hour window discounts one call of each endpoint for a payment and no call
\* twice, and gives the discount to the client and the customer that paid.
PairsAreAMatching(pairs) ==
    /\ \A a, b \in pairs :
           a # b => /\ a.call # b.call
                    /\ a.payment = b.payment => a.call.kind # b.call.kind
    /\ \A a \in pairs : /\ Gap(a.call, a.payment) <= Window
                        /\ a.call.client = a.payment.client /\ a.call.psu = a.payment.psu

\* Every run a month was ever billed by gives the discount of the window once.
PairedOnce == \A run \in runs : PairsAreAMatching(Metered(run.facts).pairs)

\* The free pages of a customer's day, in one mode, are the allowance, or all the pages
\* when they are fewer: no order of the calls, and no number of clients making them,
\* loses or doubles any.
AllowanceIsSpentOnce(F, lines) ==
    \A e \in F : Paged(e) =>
        LET ofDay == {d \in F : Paged(d) /\ SameAllowance(d, e)}
            pageLines == {l \in lines : /\ l.class = "data.retail_page"
                                        /\ l.id \in {d.id : d \in ofDay}}
        IN  MapThenSumSet(LAMBDA l : l.free, pageLines)
                = Min({Allowance[e.data], Pages(ofDay)})

\* Every run a month was ever billed by gives the free pages of a day once.
FreePagesGivenOnce ==
    \A run \in runs : AllowanceIsSpentOnce(run.facts, Metered(run.facts).lines)
=============================================================================
