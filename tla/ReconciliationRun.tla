------------------------- MODULE ReconciliationRun -------------------------
(***************************************************************************)
(* Reconciliation runs of one month: runDaily (the scheduler), replay and  *)
(* recordPreparedResult (collection memos) of                              *)
(* services/bff/src/reconciliation/service.ts over reconciliation_log and  *)
(* reconciliation_break, edits of the thresholds meanwhile, and the        *)
(* reports drawn from the two tables.                                      *)
(*                                                                         *)
(* A run is stored first; its breaks are detected and stored afterwards,   *)
(* by the call that stored it and by no other.  What becomes of a break is *)
(* BreakWorkflow's.                                                        *)
(***************************************************************************)
EXTENDS Integers, FiniteSets

CONSTANTS
    Runs,           \* run ids
    RunType,        \* RunType[r]: daily, replay or billing_collection_memo
    Refs,           \* line references
    Books,          \* what the sources may hold for the day: functions from Refs
    LimitSets,      \* the thresholds that may be in force
    Calls,          \* executions of runDaily, replay or recordPreparedResult
    Reports,        \* executions of a monthly sign-off or a CBUAE export
    LastDay,        \* bound on the days that pass
    SignoffRuns,    \* the runs a sign-off takes at most (1000)
    ExportRows,     \* the runs, and the breaks, an export takes at most (5000)
    None

Engine == INSTANCE ReconciliationEngine

VARIABLES
    book,           \* the day's sources: every run is over them
    limits,         \* the thresholds in force
    day,            \* today
    log,            \* the runs in reconciliation_log, and
    dated,          \* dated[r]: the day of r's created_at
    breaks,         \* reconciliation_break
    tickets,        \* teams told, through P3
    audit,          \* audit events of the runs
    call,           \* call[c]: where call c is
    rep,            \* rep[s]: where report s is, and what it says
    since,          \* history: thresholds in force since a run began
    settled         \* history: runs whose detection came to its end

runVars == <<log, dated, breaks, tickets, audit, call, since, settled>>
vars == <<book, limits, day, runVars, rep>>

ASSUME RunAssumption ==
    /\ IsFiniteSet(Refs)
    /\ RunType \in [Runs -> {"daily", "replay", "billing_collection_memo"}]
    /\ Books \subseteq [Refs -> Engine!Line]
    /\ LimitSets \subseteq Engine!Limits
    /\ Engine!DefaultLimits \in LimitSets
    /\ LastDay \in Nat \ {0} /\ SignoffRuns \in Nat /\ ExportRows \in Nat

-----------------------------------------------------------------------------
Step == {"idle", "create", "completed", "count", "limits", "store", "notify",
         "announce", "answer", "ok", "failed", "crashed"}
Call == [at : Step, run : Runs \cup {None}, found : SUBSET Refs, fresh : BOOLEAN]

Days == 1..LastDay

\* on: the day of its created_at, which need not be that of its run.
Break == [run : Runs, line : Refs, by : Calls, on : Days]
Ticket == [run : Runs, team : {"finance", "operations"}, by : Calls]
Event == [event : {"completed", "detected", "executed", "noop"}, run : Runs, by : Calls,
          n : Nat]

\* days: the range of an export.  known: history, the runs that were settled when
\* the report was begun.
Report == [at : {"idle", "reading", "filed", "refused", "crashed"},
           kind : {"monthly", "cbuae"}, days : SUBSET Days, runs : (SUBSET Runs) \cup {None},
           breaks : (SUBSET Break) \cup {None}, known : SUBSET Runs]

InProgress == Step \ {"idle", "ok", "failed", "crashed"}

Init ==
    /\ book \in Books
    /\ limits = Engine!DefaultLimits
    /\ day = 1
    /\ log = {}
    /\ dated = [r \in Runs |-> None]
    /\ breaks = {}
    /\ tickets = {}
    /\ audit = {}
    /\ call = [c \in Calls |-> [at |-> "idle", run |-> None, found |-> {}, fresh |-> FALSE]]
    /\ rep = [s \in Reports |-> [at |-> "idle", kind |-> "monthly", days |-> {},
                                 runs |-> None, breaks |-> None, known |-> {}]]
    /\ since = [r \in Runs |-> {}]
    /\ settled = {}

GoTo(c, step) == call' = [call EXCEPT ![c].at = step]

Emit(c, event, n) ==
    audit' = audit \cup {[event |-> event, run |-> call[c].run, by |-> c, n |-> n]}

BreaksOf(r) == {x \in breaks : x.run = r}

-----------------------------------------------------------------------------
(* A run. *)

\* The sources are fetched and matched, which a corrupt line makes impossible.
Match(c, r) ==
    /\ call[c].at = "idle"
    /\ call' = [call EXCEPT ![c].run = r,
            ![c].at = IF RunType[r] # "billing_collection_memo"
                         /\ \E l \in Refs : Engine!Corrupt(book[l])
                      THEN "failed" ELSE "create"]
    /\ UNCHANGED <<log, dated, breaks, tickets, audit, since, settled>>

\* CHECK (run_type IN ...) of reconciliation_log.
StorableTypes == {"daily", "monthly_close", "replay", "on_demand"}

\* Slip: ON CONFLICT DO UPDATE, so that every call is told it created the run.
CreateAlways(c) ==
    LET r == call[c].run
    IN  /\ call[c].at = "create"
        /\ log' = log \cup {r}
        /\ dated' = [dated EXCEPT ![r] = day]
        /\ since' = [since EXCEPT ![r] = {limits}]
        /\ call' = [call EXCEPT ![c].at = "completed", ![c].fresh = TRUE]
        /\ UNCHANGED <<breaks, tickets, audit, settled>>

\* store.create: ON CONFLICT (run_id) DO NOTHING tells whether this call
\* executes the run; a type the table does not take is an error.
Create(c) ==
    LET r == call[c].run
    IN  /\ call[c].at = "create"
        /\ CASE RunType[r] \notin StorableTypes ->
                  GoTo(c, "failed") /\ UNCHANGED <<log, dated, since>>
             [] RunType[r] \in StorableTypes /\ r \in log ->
                  GoTo(c, "answer") /\ UNCHANGED <<log, dated, since>>
             [] OTHER ->
                  /\ log' = log \cup {r}
                  /\ dated' = [dated EXCEPT ![r] = day]
                  /\ since' = [since EXCEPT ![r] = {limits}]
                  /\ call' = [call EXCEPT ![c].at = "completed", ![c].fresh = TRUE]
        /\ UNCHANGED <<breaks, tickets, audit, settled>>

\* Slip: the breaks first, the event of the run when they are on file.
DetectFirst(c) ==
    /\ call[c].at = "completed"
    /\ GoTo(c, "count")
    /\ UNCHANGED <<log, dated, breaks, tickets, audit, since, settled>>

AuditRun(c) ==
    /\ call[c].at = "completed"
    /\ Emit(c, "completed", 0)
    /\ GoTo(c, "count")
    /\ UNCHANGED <<log, dated, breaks, tickets, since, settled>>

\* countForRun: detected before?
CountBreaks(c) ==
    /\ call[c].at = "count"
    /\ GoTo(c, IF BreaksOf(call[c].run) # {} THEN "answer" ELSE "limits")
    /\ UNCHANGED <<log, dated, breaks, tickets, audit, since, settled>>

\* effectiveThresholds, and detectBreaks with what they are now.
Detect(c) ==
    LET found == Engine!Detected(book, limits)
    IN  /\ call[c].at = "limits"
        /\ call' = [call EXCEPT ![c].found = found,
                                ![c].at = IF found = {} THEN "answer" ELSE "store"]
        /\ settled' = IF found = {} THEN settled \cup {call[c].run} ELSE settled
        /\ UNCHANGED <<log, dated, breaks, tickets, audit, since>>

Found(c) ==
    {[run |-> call[c].run, line |-> l, by |-> c, on |-> day] : l \in call[c].found}

\* createMany, one transaction.
StoreBreaks(c) ==
    /\ call[c].at = "store"
    /\ breaks' = breaks \cup Found(c)
    /\ settled' = settled \cup {call[c].run}
    /\ GoTo(c, "notify")
    /\ UNCHANGED <<log, dated, tickets, audit, since>>

\* Slip: both teams are told of every run.
BothTeams(c) == {"finance", "operations"}

Teams(c) == {Engine!Team(book[l]) : l \in call[c].found}

Told(c) == {t.team : t \in {u \in tickets : u.by = c}}

\* createTicket, team after team.
Notify(c) ==
    /\ call[c].at = "notify"
    /\ \E team \in Teams(c) \ Told(c) :
          /\ tickets' = tickets \cup {[run |-> call[c].run, team |-> team, by |-> c]}
          /\ GoTo(c, IF Teams(c) = Told(c) \cup {team} THEN "announce" ELSE "notify")
    /\ UNCHANGED <<log, dated, breaks, audit, since, settled>>

Announce(c) ==
    /\ call[c].at = "announce"
    /\ Emit(c, "detected", Cardinality(call[c].found))
    /\ GoTo(c, "answer")
    /\ UNCHANGED <<log, dated, breaks, tickets, since, settled>>

\* replay audits who asked for it, and whether anything was executed.
Answer(c) ==
    /\ call[c].at = "answer"
    /\ IF RunType[call[c].run] = "replay"
       THEN Emit(c, IF call[c].fresh THEN "executed" ELSE "noop", 0)
       ELSE UNCHANGED audit
    /\ GoTo(c, "ok")
    /\ UNCHANGED <<log, dated, breaks, tickets, since, settled>>

\* The worker dies, or a store, the audit sink or P3 throws.
Crash(c) ==
    /\ call[c].at \in InProgress
    /\ call' = [call EXCEPT ![c].at = "crashed", ![c].found = {}]
    /\ UNCHANGED <<log, dated, breaks, tickets, audit, since, settled>>

Execute(c) ==
    /\ \/ \E r \in Runs : Match(c, r)
       \/ Create(c) \/ AuditRun(c) \/ CountBreaks(c) \/ Detect(c) \/ StoreBreaks(c)
       \/ Notify(c) \/ Announce(c) \/ Answer(c) \/ Crash(c)
    /\ UNCHANGED <<book, limits, day, rep>>

-----------------------------------------------------------------------------
(* Thresholds, days and reports. *)

\* updateThresholds: a limit per class is upserted, all of them at once.
UpdateThresholds(new) ==
    /\ new # limits
    /\ limits' = new
    /\ since' = [r \in Runs |-> IF r \in log \ settled THEN since[r] \cup {new}
                                ELSE since[r]]
    /\ UNCHANGED <<book, day, log, dated, breaks, tickets, audit, call, settled, rep>>

\* Midnight, by the clock of the database.
NextDay ==
    /\ day < LastDay
    /\ day' = day + 1
    /\ UNCHANGED <<book, limits, runVars, rep>>

\* The operation behind the four-eyes sign-off of the month, or the export of a range
\* of days.
BeginReport(s, kind, days) ==
    /\ rep[s].at = "idle"
    /\ rep' = [rep EXCEPT ![s].at = "reading", ![s].kind = kind, ![s].days = days,
                          ![s].known = settled]
    /\ UNCHANGED <<book, limits, day, runVars>>

\* The month's prefix, recon-YYYY-MM-, is that of its daily runs.  The export goes by
\* the day a row was written, a run's row for the runs
RunsInScope(s) ==
    {r \in log : IF rep[s].kind = "monthly" THEN RunType[r] = "daily"
                                            ELSE dated[r] \in rep[s].days}

\* Slip: the breaks of the runs that are in scope.
BreaksOfRunsInScope(s) == {x \in breaks : x.run \in RunsInScope(s)}

\* and a break's for the breaks.
BreaksInScope(s) ==
    {x \in breaks : IF rep[s].kind = "monthly" THEN RunType[x.run] = "daily"
                                               ELSE x.on \in rep[s].days}

\* LIMIT: rows beyond the cap are dropped without a word.  The order decides which;
\* here it may be any.
Capped(rows, cap) ==
    IF Cardinality(rows) <= cap THEN {rows}
                                ELSE {some \in SUBSET rows : Cardinality(some) = cap}

\* listForPrefix or listForRange, and
ReadRuns(s) ==
    /\ rep[s].at = "reading" /\ rep[s].runs = None
    /\ \E rows \in Capped(RunsInScope(s),
                          IF rep[s].kind = "monthly" THEN SignoffRuns ELSE ExportRows) :
          rep' = [rep EXCEPT ![s].runs = rows]
    /\ UNCHANGED <<book, limits, day, runVars>>

\* summarizeByStatus, which counts them all, or listForRange, at the same time.
ReadBreaks(s) ==
    /\ rep[s].at = "reading" /\ rep[s].breaks = None
    /\ \E rows \in IF rep[s].kind = "monthly" THEN {BreaksInScope(s)}
                                              ELSE Capped(BreaksInScope(s), ExportRows) :
          rep' = [rep EXCEPT ![s].breaks = rows]
    /\ UNCHANGED <<book, limits, day, runVars>>

FileReport(s) ==
    /\ rep[s].at = "reading" /\ rep[s].runs # None /\ rep[s].breaks # None
    /\ rep' = [rep EXCEPT ![s].at = "filed"]
    /\ UNCHANGED <<book, limits, day, runVars>>

\* No balanced accounting close pack, or the process dies.
GiveUp(s) ==
    /\ rep[s].at = "reading"
    /\ \/ rep[s].kind = "monthly" /\ rep' = [rep EXCEPT ![s].at = "refused"]
       \/ rep' = [rep EXCEPT ![s].at = "crashed"]
    /\ UNCHANGED <<book, limits, day, runVars>>

DrawUp(s) ==
    \/ BeginReport(s, "monthly", {})
    \/ \E from, to \in Days :
          from <= to /\ BeginReport(s, "cbuae", {d \in Days : from <= d /\ d <= to})
    \/ ReadRuns(s) \/ ReadBreaks(s) \/ FileReport(s) \/ GiveUp(s)

Next ==
    \/ \E c \in Calls : Execute(c)
    \/ \E new \in LimitSets : UpdateThresholds(new)
    \/ NextDay
    \/ \E s \in Reports : DrawUp(s)

Spec == Init /\ [][Next]_vars

-----------------------------------------------------------------------------
(* Properties *)

TypeOK ==
    /\ book \in Books
    /\ limits \in LimitSets
    /\ day \in Days
    /\ dated \in [Runs -> Days \cup {None}]
    /\ log \subseteq Runs
    /\ breaks \subseteq Break
    /\ tickets \subseteq Ticket
    /\ audit \subseteq Event
    /\ call \in [Calls -> Call]
    /\ rep \in [Reports -> Report]
    /\ since \in [Runs -> SUBSET LimitSets]
    /\ settled \subseteq log

\* Whoever races to run a day, however often and wherever it dies: a line is a
\* break of a run once at most.
OneBreakPerLine ==
    \A x, y \in breaks : x.run = y.run /\ x.line = y.line => x = y

\* The breaks of a run are those its sources owe under one set of thresholds
\* that was in force while it ran ("next run, never retroactive"), all of them
\* or, as long as detection has not come to its end, none.
BreaksAreDue ==
    \A r \in log :
        LET found == {x.line : x \in BreaksOf(r)}
        IN  IF r \in settled
            THEN \E l \in since[r] : found = {ref \in Refs : Engine!Due(book[ref], l)}
            ELSE found = {}

\* Nobody is told of breaks that are not there: a ticket names a team that has a
\* break in the run, and the number in the audit event is that of the table.
AnnouncedIsOnFile ==
    /\ \A t \in tickets :
          \E x \in BreaksOf(t.run) : Engine!Team(book[x.line]) = t.team
    /\ \A e \in audit : e.event = "detected" => Cardinality(BreaksOf(e.run)) = e.n

\* No break is on file for a run that is not on the audit trail, and a replay
\* is said to have executed a run by one call at most.
AuditPrecedes ==
    /\ \A x \in breaks : \E e \in audit : e.event = "completed" /\ e.run = x.run
    /\ \A e, f \in audit : e.event = "executed" /\ f.event = "executed" /\ e.run = f.run
                               => e = f

\* Runs and breaks of a report are read apart, each by its own rule, while runs go
\* on; nothing that had settled before is lost in between.  The sign-off counts every
\* break of the month's settled daily runs; the export has every settled run written
\* in its range, and every break of a settled run that was itself written in it.  Only
\* a list that is as long as its query ever gets may lack some.
ReportHasWhatSettled ==
    \A s \in Reports :
        LET report == rep[s]
        IN  report.at = "filed" =>
              IF report.kind = "monthly"
              THEN LET own == {r \in report.known : RunType[r] = "daily"}
                   IN  /\ \A r \in own : BreaksOf(r) \subseteq report.breaks
                       /\ Cardinality(report.runs) < SignoffRuns => own \subseteq report.runs
              ELSE /\ Cardinality(report.runs) < ExportRows =>
                         {r \in report.known : dated[r] \in report.days} \subseteq report.runs
                   /\ Cardinality(report.breaks) < ExportRows =>
                         {x \in breaks : x.run \in report.known /\ x.on \in report.days}
                            \subseteq report.breaks

-----------------------------------------------------------------------------
(* What comments and documents say and the code does not keep. *)

\* "Resumable": a rerun that is answered without doing anything had nothing left
\* to do.
RerunIsComplete ==
    \A c \in Calls :
        call[c].at = "ok" /\ ~call[c].fresh =>
            \/ call[c].run \in settled
            \/ \E d \in Calls : call[d].run = call[c].run /\ call[d].fresh
                                /\ call[d].at \in InProgress

\* "A month's runs share the prefix recon-YYYY-MM-": the signed summary counts
\* the breaks of every run of the month that had come to its end.
SignoffCoversTheMonth ==
    \A s \in Reports :
        rep[s].at = "filed" /\ rep[s].kind = "monthly" =>
            \A r \in rep[s].known : BreaksOf(r) \subseteq rep[s].breaks

\* "Those fee variances enter the same E1 run log": a memo that is ingested and
\* fails in no store or port ends as a run.
MemosAreLogged ==
    \A c \in Calls : call[c].at = "failed" => RunType[call[c].run] # "billing_collection_memo"

\* "Every run + break in the window": a run in the export that had come to its end
\* comes with its breaks.
ExportedRunsHaveTheirBreaks ==
    \A s \in Reports :
        rep[s].at = "filed" /\ rep[s].kind = "cbuae" =>
            \A r \in rep[s].known \cap rep[s].runs : BreaksOf(r) \subseteq rep[s].breaks
=============================================================================
