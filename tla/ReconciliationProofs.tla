------------------------ MODULE ReconciliationProofs ------------------------
(***************************************************************************)
(* Theorems about ReconciliationEngine and ReconciliationRun, for every    *)
(* set of runs, calls, lines and thresholds, and about BreakWorkflow, for  *)
(* every set of breaks, calls, requests, people and keys.                  *)
(***************************************************************************)
EXTENDS ReconciliationRun, BreakWorkflow, FiniteSetTheorems, TLAPS

-----------------------------------------------------------------------------
(* The engine. *)

\* A line of whole fils: what is owed is the fee, in thousandths.
LEMMA OwedIsFee ==
    ASSUME NEW s \in Engine!Line, s.type \in Engine!Priced, Engine!Metered(s),
           ~s.disputed, ~Engine!Corrupt(s)
    PROVE  Engine!Fee(s) \in Int /\ Engine!Owed(s) = 1000 * Engine!Fee(s)
<1>1. s.calls \in Nat /\ Engine!Owed(s) = Engine!Rate[s.type] * s.calls
    BY DEF Engine!Line, Engine!Metered, Engine!Owed
<1>2. Engine!Rate[s.type] \in Nat
    BY DEF Engine!Priced, Engine!Rate
<1> DEFINE owed == Engine!Rate[s.type] * s.calls
<1>3. owed \in Nat
    BY <1>1, <1>2
<1>4. owed % 1000 = 0
    BY DEF Engine!Corrupt
<1> HIDE DEF owed
<1>5. owed \div 1000 \in Int /\ owed = 1000 * (owed \div 1000)
    BY <1>3, <1>4
<1> QED BY <1>1, <1>5 DEF Engine!Fee, owed

\* BACKOFFICE-02 for every line and all thresholds: the match and the detection
\* of breaks find what is off by more than the limit, and nothing else.
THEOREM DetectionIsDue ==
    ASSUME NEW s \in Engine!Line, NEW l \in Engine!Limits, ~Engine!Corrupt(s)
    PROVE  (Engine!InUniverse(s) /\ Engine!Unmatched(s) /\ Engine!Exceeds(s, l))
              <=> Engine!Due(s, l)
<1>1. /\ s.type \in Engine!LineType /\ s.nebras \in Int \cup {None}
      /\ s.disputed \in BOOLEAN /\ s.success \in BOOLEAN /\ s.fintech \in BOOLEAN
      /\ l[s.type] \in Nat
    BY DEF Engine!Line, Engine!Limits
<1>2. CASE s.disputed
    BY <1>2 DEF Engine!Unmatched, Engine!Due
<1>3. CASE ~s.disputed /\ ~Engine!InUniverse(s)
    BY <1>1, <1>3 DEF Engine!InUniverse, Engine!Metered, Engine!Due, Engine!Unseen, Engine!Off,
        Engine!Charged, Engine!Owed, Engine!Abs
<1>4. CASE ~s.disputed /\ Engine!InUniverse(s) /\ Engine!Missing(s)
    <2>1. Engine!Unseen(s)
        BY <1>1, <1>4 DEF Engine!InUniverse, Engine!Missing, Engine!Metered, Engine!Unseen
    <2> QED BY <1>1, <1>4, <2>1 DEF Engine!Unmatched, Engine!Exceeds, Engine!Due
<1>5. CASE ~s.disputed /\ Engine!InUniverse(s) /\ ~Engine!Missing(s)
    <2>1. Engine!Metered(s) /\ s.nebras # None /\ ~Engine!Unseen(s)
        BY <1>1, <1>5 DEF Engine!Missing, Engine!Metered, Engine!Unseen
    <2>2. CASE s.type \notin Engine!Priced
        <3>1. s.type # "consent_record"
            BY <2>2 DEF Engine!Priced, Engine!Rate
        <3> QED BY <1>1, <1>5, <2>1, <2>2, <3>1
                DEF Engine!Unmatched, Engine!Variance, Engine!Due, Engine!Off
    <2>3. CASE s.type \in Engine!Priced
        <3>1. Engine!Fee(s) \in Int /\ Engine!Owed(s) = 1000 * Engine!Fee(s)
            BY <1>5, <2>1, <2>3, OwedIsFee
        <3>2. s.nebras \in Int /\ Engine!Charged(s) = 1000 * s.nebras
            BY <1>1, <2>1 DEF Engine!Charged
        <3> DEFINE v == s.nebras - Engine!Fee(s)
        <3>3. Engine!Variance(s) = v
            BY <1>5, <2>3 DEF Engine!Variance
        <3>4. v \in Int /\ Engine!Charged(s) - Engine!Owed(s) = 1000 * v
            BY <3>1, <3>2
        <3> HIDE DEF v
        <3>5. Engine!Off(s) = Engine!Abs(1000 * v)
            BY <2>3, <3>4 DEF Engine!Off
        <3>6. /\ (Engine!Off(s) # 0) <=> (v # 0)
              /\ (Engine!Off(s) > 1000 * l[s.type]) <=> (Engine!Abs(v) > l[s.type])
            BY <1>1, <3>4, <3>5 DEF Engine!Abs
        <3>7. Engine!Abs(v) > l[s.type] => v # 0
            BY <1>1, <3>4 DEF Engine!Abs
        <3> QED BY <1>1, <1>5, <2>1, <3>3, <3>6, <3>7
                DEF Engine!Unmatched, Engine!Exceeds, Engine!Due
    <2> QED BY <2>2, <2>3
<1> QED BY <1>2, <1>3, <1>4, <1>5

\* detectBreaks over a day's sources finds the lines that are due.
LEMMA DetectedIsDue ==
    ASSUME NEW b \in Books, NEW l \in LimitSets, \A ref \in Refs : ~Engine!Corrupt(b[ref])
    PROVE  Engine!Detected(b, l) = {ref \in Refs : Engine!Due(b[ref], l)}
<1>1. b \in [Refs -> Engine!Line] /\ l \in Engine!Limits
    BY RunAssumption
<1>2. ASSUME NEW ref \in Refs
      PROVE  (Engine!InUniverse(b[ref]) /\ Engine!Unmatched(b[ref]) /\ Engine!Exceeds(b[ref], l))
                <=> Engine!Due(b[ref], l)
    <2>1. b[ref] \in Engine!Line
        BY <1>1
    <2> QED BY <1>1, <2>1, DetectionIsDue
<1> QED BY <1>1, <1>2 DEF Engine!Detected

-----------------------------------------------------------------------------
(* What TypeOK, OneBreakPerLine and BreaksAreDue rest on. *)

Pending == {"completed", "count", "limits", "store"}
Fresh == Pending \cup {"notify", "announce"}

Clean == \A ref \in Refs : ~Engine!Corrupt(book[ref])

\* One call at most was told that it created the run; only such a call goes on
\* to detect, and the breaks of the run are its.
CallInv ==
    /\ \A c \in Calls : /\ call[c].at # "idle" => call[c].run \in Runs
                        /\ call[c].at \in Fresh => call[c].fresh
                        /\ call[c].fresh => call[c].at # "idle" /\ call[c].run \in log
    /\ \A c, d \in Calls :
          call[c].fresh /\ call[d].fresh /\ call[c].run = call[d].run => c = d
    /\ \A x \in breaks : call[x.by].fresh /\ call[x.by].run = x.run

\* Nobody detects over corrupt lines, or when the run is settled; what is found
\* was found under thresholds the run has seen,
Sound(c) ==
    /\ call[c].at = "create" => Clean \/ RunType[call[c].run] \notin StorableTypes
    /\ call[c].at \in Fresh => Clean
    /\ call[c].at \in Pending => call[c].run \notin settled
    /\ call[c].at = "store" =>
          \E l \in since[call[c].run] : call[c].found = Engine!Detected(book, l)

\* and so was what is on file.
Lines(r) == {x.line : x \in BreaksOf(r)}

Explained(r) == Clean /\ \E l \in since[r] : Lines(r) = Engine!Detected(book, l)

ResultInv ==
    /\ \A c \in Calls : Sound(c)
    /\ \A r \in log \ settled : limits \in since[r]
    /\ \A x \in breaks : x.run \in settled
    /\ \A x, y \in breaks : x.run = y.run => x.on = y.on
    /\ \A r \in settled : Explained(r)

IInv == TypeOK /\ CallInv /\ ResultInv

-----------------------------------------------------------------------------
LEMMA InitIInv == Init => IInv
<1> SUFFICES ASSUME Init PROVE IInv
    OBVIOUS
<1>1. limits \in LimitSets /\ book \in Books
    BY RunAssumption DEF Init
<1>2. call \in [Calls -> Call]
    BY DEF Init, Call, Step
<1>3. rep \in [Reports -> Report]
    BY DEF Init, Report
<1>4. since \in [Runs -> SUBSET LimitSets] /\ dated \in [Runs -> Days \cup {None}] /\ day \in Days
    BY RunAssumption DEF Init, Days
<1>5. TypeOK
    BY <1>1, <1>2, <1>3, <1>4 DEF Init, TypeOK
<1>6. CallInv
    BY DEF Init, CallInv, Fresh, Pending
<1>7. ResultInv
    BY DEF Init, ResultInv, Sound, Fresh, Pending
<1> QED BY <1>5, <1>6, <1>7 DEF IInv

-----------------------------------------------------------------------------
(* Every step keeps the types. *)

LEMMA FoundIsSome ==
    ASSUME IInv, NEW c \in Calls
    PROVE  /\ call[c].found \in SUBSET Refs
           /\ Cardinality(call[c].found) \in Nat
<1>1. call[c].found \in SUBSET Refs
    BY DEF IInv, TypeOK, Call
<1>2. IsFiniteSet(call[c].found)
    BY <1>1, RunAssumption, FS_Subset
<1> QED BY <1>1, <1>2, FS_CardinalityType

LEMMA EmitType ==
    ASSUME IInv, NEW c \in Calls, call[c].at # "idle",
           NEW event \in {"completed", "detected", "executed", "noop"}, NEW n \in Nat,
           Emit(c, event, n)
    PROVE  audit' \subseteq Event
BY DEF IInv, TypeOK, CallInv, Emit, Event

LEMMA GoToType ==
    ASSUME IInv, NEW c \in Calls, NEW step \in Step, GoTo(c, step)
    PROVE  call' \in [Calls -> Call]
BY DEF IInv, TypeOK, GoTo, Call

LEMMA CallTypes ==
    ASSUME IInv, NEW c \in Calls, Execute(c)
    PROVE  TypeOK'
<1> USE DEF Step
<1>0. TypeOK /\ CallInv /\ UNCHANGED <<book, limits, day, rep>>
    BY DEF IInv, Execute
<1>1. ASSUME NEW r \in Runs, Match(c, r) PROVE TypeOK'
    <2>1. PICK step \in {"failed", "create"} :
            call' = [call EXCEPT ![c].run = r, ![c].at = step]
        BY <1>1 DEF Match
    <2>2. call' \in [Calls -> Call]
        BY <1>0, <2>1 DEF TypeOK, Call
    <2> QED BY <1>0, <1>1, <2>2 DEF TypeOK, Match
<1>2. CASE Create(c)
    <2>1. call[c].run \in Runs
        BY <1>0, <1>2 DEF Create, CallInv
    <2>2. call' \in [Calls -> Call]
        BY <1>0, <1>2 DEF TypeOK, Call, Create, GoTo
    <2>3. log' \subseteq Runs /\ log \subseteq log'
        BY <1>0, <1>2, <2>1 DEF TypeOK, Create
    <2>4. since' \in [Runs -> SUBSET LimitSets] /\ dated' \in [Runs -> Days \cup {None}]
        BY <1>0, <1>2, <2>1 DEF TypeOK, Create
    <2> QED BY <1>0, <1>2, <2>2, <2>3, <2>4 DEF TypeOK, Create
<1>3. CASE AuditRun(c)
    <2>1. call' \in [Calls -> Call] /\ audit' \subseteq Event
        BY <1>3, GoToType, EmitType DEF AuditRun
    <2> QED BY <1>0, <1>3, <2>1 DEF TypeOK, AuditRun
<1>4. CASE CountBreaks(c)
    <2>1. call' \in [Calls -> Call]
        BY <1>4, GoToType DEF CountBreaks
    <2> QED BY <1>0, <1>4, <2>1 DEF TypeOK, CountBreaks
<1>5. CASE Detect(c)
    <2>1. Engine!Detected(book, limits) \subseteq Refs
        BY <1>0, RunAssumption DEF TypeOK, Engine!Detected
    <2>2. PICK step \in {"answer", "store"}, found \in SUBSET Refs :
            call' = [call EXCEPT ![c].found = found, ![c].at = step]
        BY <1>5, <2>1 DEF Detect
    <2>3. call' \in [Calls -> Call]
        <3>1. [call[c] EXCEPT !.found = found, !.at = step] \in Call
            BY <1>0, <2>2 DEF TypeOK, Call
        <3> QED BY <1>0, <2>2, <3>1 DEF TypeOK
    <2>4. settled' \subseteq log
        BY <1>0, <1>5 DEF TypeOK, CallInv, Fresh, Pending, Detect
    <2> QED BY <1>0, <1>5, <2>3, <2>4 DEF TypeOK, Detect
<1>6. CASE StoreBreaks(c)
    <2>1. call' \in [Calls -> Call]
        BY <1>6, GoToType DEF StoreBreaks
    <2>2. call[c].run \in log /\ call[c].run \in Runs
        BY <1>0, <1>6 DEF CallInv, Fresh, Pending, StoreBreaks
    <2>3. breaks' \subseteq Break
        BY <1>0, <1>6, <2>2, FoundIsSome DEF TypeOK, Break, Found, StoreBreaks
    <2> QED BY <1>0, <1>6, <2>1, <2>2, <2>3 DEF TypeOK, StoreBreaks
<1>7. CASE Notify(c)
    <2>1. call' \in [Calls -> Call]
        BY <1>7, GoToType DEF Notify
    <2>2. call[c].run \in Runs
        BY <1>0, <1>7 DEF CallInv, Notify
    <2>3. Teams(c) \subseteq {"finance", "operations"}
        BY DEF Teams, Engine!Team
    <2>4. tickets' \subseteq Ticket
        BY <1>0, <1>7, <2>2, <2>3 DEF TypeOK, Ticket, Notify
    <2> QED BY <1>0, <1>7, <2>1, <2>4 DEF TypeOK, Notify
<1>8. CASE Announce(c)
    <2>1. call' \in [Calls -> Call] /\ audit' \subseteq Event
        BY <1>8, GoToType, EmitType, FoundIsSome DEF Announce
    <2> QED BY <1>0, <1>8, <2>1 DEF TypeOK, Announce
<1>9. CASE Answer(c)
    <2>1. call' \in [Calls -> Call]
        BY <1>9, GoToType DEF Answer
    <2>2. audit' \subseteq Event
        BY <1>0, <1>9, EmitType DEF TypeOK, Answer
    <2> QED BY <1>0, <1>9, <2>1, <2>2 DEF TypeOK, Answer
<1>10. CASE Crash(c)
    <2>1. [call[c] EXCEPT !.at = "crashed", !.found = {}] \in Call
        BY <1>0 DEF TypeOK, Call
    <2>2. call' \in [Calls -> Call]
        BY <1>0, <1>10, <2>1 DEF TypeOK, Crash
    <2> QED BY <1>0, <1>10, <2>2 DEF TypeOK, Crash
<1> QED BY <1>1, <1>2, <1>3, <1>4, <1>5, <1>6, <1>7, <1>8, <1>9, <1>10 DEF Execute

\* A list that is shorter than its cap is whole.
LEMMA CappedCuts ==
    ASSUME NEW rows, NEW cap, NEW some \in Capped(rows, cap)
    PROVE  some \subseteq rows /\ (some = rows \/ Cardinality(some) = cap)
BY DEF Capped

LEMMA ReportTypes ==
    ASSUME IInv, NEW s \in Reports, DrawUp(s)
    PROVE  TypeOK'
<1>1. TypeOK /\ UNCHANGED <<book, limits, day, runVars>>
    BY DEF IInv, DrawUp, BeginReport, ReadRuns, ReadBreaks, FileReport, GiveUp
<1>2. settled \subseteq Runs
    BY <1>1 DEF TypeOK
<1>3. rep' \in [Reports -> Report]
    <2>1. ASSUME NEW kind \in {"monthly", "cbuae"}, NEW days \in SUBSET Days,
                 BeginReport(s, kind, days)
          PROVE  rep' \in [Reports -> Report]
        <3>1. [rep[s] EXCEPT !.at = "reading", !.kind = kind, !.days = days, !.known = settled]
                 \in Report
            BY <1>1, <1>2, <2>1 DEF TypeOK, Report
        <3> QED BY <1>1, <2>1, <3>1 DEF TypeOK, BeginReport
    <2>2. CASE ReadRuns(s)
        <3>1. PICK rows \in Capped(RunsInScope(s), IF rep[s].kind = "monthly" THEN SignoffRuns
                                                                        ELSE ExportRows) :
                  rep' = [rep EXCEPT ![s].runs = rows]
            BY <2>2 DEF ReadRuns
        <3>2. rows \subseteq Runs
            BY <1>1, <3>1, CappedCuts DEF TypeOK, RunsInScope
        <3> QED BY <1>1, <3>1, <3>2 DEF TypeOK, Report
    <2>3. CASE ReadBreaks(s)
        <3>1. PICK rows \in {BreaksInScope(s)} \cup Capped(BreaksInScope(s), ExportRows) :
                  rep' = [rep EXCEPT ![s].breaks = rows]
            BY <2>3 DEF ReadBreaks
        <3>2. rows \subseteq BreaksInScope(s)
            BY <3>1, CappedCuts
        <3>3. rows \subseteq Break
            BY <1>1, <3>2 DEF TypeOK, BreaksInScope
        <3> QED BY <1>1, <3>1, <3>3 DEF TypeOK, Report
    <2>4. CASE FileReport(s) \/ GiveUp(s)
        BY <1>1, <2>4 DEF TypeOK, Report, FileReport, GiveUp
    <2> QED
        <3>1. ASSUME NEW from \in Days, NEW to \in Days,
                     BeginReport(s, "cbuae", {d \in Days : from <= d /\ d <= to})
              PROVE  rep' \in [Reports -> Report]
            <4>1. {d \in Days : from <= d /\ d <= to} \in SUBSET Days
                OBVIOUS
            <4> QED BY <2>1, <3>1, <4>1
        <3>2. CASE BeginReport(s, "monthly", {})
            BY <2>1, <3>2
        <3> QED BY <2>2, <2>3, <2>4, <3>1, <3>2 DEF DrawUp
<1> QED BY <1>1, <1>3 DEF TypeOK, runVars

-----------------------------------------------------------------------------
(* Every step keeps the rest. *)

\* A call goes on, and has neither created, settled nor found anything.
LEMMA MoveStep ==
    ASSUME IInv, NEW c \in Calls,
           UNCHANGED <<book, limits, log, breaks, since, settled>>,
           \A d \in Calls : /\ call'[d].run = call[d].run
                            /\ call'[d].fresh = call[d].fresh
                            /\ d # c => call'[d] = call[d],
           call[c].at # "idle", call'[c].at \notin {"idle", "create", "store"},
           call'[c].at \in Fresh => call[c].at \in Fresh,
           call'[c].at \in Pending => call[c].at \in Pending
    PROVE  CallInv' /\ ResultInv'
<1>1. TypeOK /\ CallInv /\ ResultInv
    BY DEF IInv
<1>2. CallInv'
    <2>1. \A x \in breaks : x.by \in Calls
        BY <1>1 DEF TypeOK, Break
    <2> QED BY <1>1, <2>1 DEF CallInv
<1>3. ASSUME NEW d \in Calls PROVE Sound(d)'
    <2>1. CASE d = c
        BY <1>1, <2>1 DEF ResultInv, Sound, Clean
    <2>2. CASE d # c
        <3>1. call'[d] = call[d] /\ Sound(d)
            BY <1>1, <2>2 DEF ResultInv
        <3> QED BY <3>1 DEF Sound, Clean
    <2> QED BY <2>1, <2>2
<1>4. \A r \in settled : Explained(r)'
    BY <1>1 DEF ResultInv, Explained, Lines, BreaksOf, Clean
<1> QED BY <1>1, <1>2, <1>3, <1>4 DEF ResultInv

LEMMA GoToMoves ==
    ASSUME IInv, NEW c \in Calls, NEW step, GoTo(c, step)
    PROVE  /\ call'[c].at = step
           /\ \A d \in Calls : /\ call'[d].run = call[d].run
                               /\ call'[d].fresh = call[d].fresh
                               /\ d # c => call'[d] = call[d]
BY DEF IInv, TypeOK, Call, GoTo

\* The calls go on.
LEMMA OnwardStep ==
    ASSUME IInv, NEW c \in Calls, UNCHANGED <<book, limits>>,
           AuditRun(c) \/ CountBreaks(c) \/ Notify(c) \/ Announce(c) \/ Answer(c) \/ Crash(c)
    PROVE  CallInv' /\ ResultInv'
<1> USE DEF Fresh, Pending
<1>1. CASE AuditRun(c)
    BY <1>1, GoToMoves, MoveStep DEF AuditRun
<1>2. CASE CountBreaks(c)
    BY <1>2, GoToMoves, MoveStep DEF CountBreaks
<1>3. CASE Notify(c)
    BY <1>3, GoToMoves, MoveStep DEF Notify
<1>4. CASE Announce(c)
    BY <1>4, GoToMoves, MoveStep DEF Announce
<1>5. CASE Answer(c)
    BY <1>5, GoToMoves, MoveStep DEF Answer
<1>6. CASE Crash(c)
    <2>1. /\ call'[c].at = "crashed"
          /\ \A d \in Calls : /\ call'[d].run = call[d].run
                              /\ call'[d].fresh = call[d].fresh
                              /\ d # c => call'[d] = call[d]
        BY <1>6 DEF IInv, TypeOK, Call, Crash
    <2> QED BY <1>6, <2>1, MoveStep DEF Crash, InProgress
<1> QED BY <1>1, <1>2, <1>3, <1>4, <1>5, <1>6

\* A call begins: the sources were matched, so their lines are clean.
LEMMA MatchStep ==
    ASSUME IInv, NEW c \in Calls, NEW r \in Runs, UNCHANGED <<book, limits>>, Match(c, r)
    PROVE  CallInv' /\ ResultInv'
<1> USE DEF Fresh, Pending
<1>1. TypeOK /\ CallInv /\ ResultInv
    BY DEF IInv
<1>2. ~call[c].fresh
    BY <1>1 DEF CallInv, Match
<1>3. /\ call'[c].run = r /\ ~call'[c].fresh
      /\ \/ call'[c].at = "failed"
         \/ call'[c].at = "create" /\ (Clean \/ RunType[r] = "billing_collection_memo")
      /\ \A d \in Calls \ {c} : call'[d] = call[d]
    BY <1>1, <1>2 DEF TypeOK, Call, Match, Clean
<1>4. UNCHANGED <<log, breaks, since, settled>>
    BY DEF Match
<1>5. CallInv'
    <2>1. \A x \in breaks : x.by \in Calls \ {c}
        BY <1>1, <1>2 DEF TypeOK, Break, CallInv
    <2>2. \A x \in breaks : call'[x.by].fresh /\ call'[x.by].run = x.run
        BY <1>1, <1>3, <2>1 DEF CallInv
    <2>3. \A d \in Calls : /\ call'[d].at # "idle" => call'[d].run \in Runs
                           /\ call'[d].at \in Fresh => call'[d].fresh
                           /\ call'[d].fresh => call'[d].at # "idle" /\ call'[d].run \in log
        BY <1>1, <1>3 DEF CallInv
    <2>4. \A d, e \in Calls :
              call'[d].fresh /\ call'[e].fresh /\ call'[d].run = call'[e].run => d = e
        BY <1>1, <1>3 DEF CallInv
    <2> QED BY <1>4, <2>2, <2>3, <2>4 DEF CallInv
<1>6. ASSUME NEW d \in Calls PROVE Sound(d)'
    <2>1. CASE d = c
        BY <1>3, <2>1 DEF Sound, Clean, StorableTypes
    <2>2. CASE d # c
        BY <1>1, <1>3, <1>4, <2>2 DEF ResultInv, Sound, Clean
    <2> QED BY <2>1, <2>2
<1>7. \A s \in settled : Explained(s)'
    BY <1>1, <1>4 DEF ResultInv, Explained, Lines, BreaksOf, Clean
<1> QED BY <1>1, <1>4, <1>5, <1>6, <1>7 DEF ResultInv

\* A call creates its run, or hears that another did.
LEMMA CreateStep ==
    ASSUME IInv, NEW c \in Calls, UNCHANGED <<book, limits>>, Create(c)
    PROVE  CallInv' /\ ResultInv'
<1> USE DEF Fresh, Pending
<1> DEFINE r == call[c].run
<1>1. TypeOK /\ CallInv /\ ResultInv
    BY DEF IInv
<1>2. CASE log' = log
    <2>1. PICK step \in {"failed", "answer"} : GoTo(c, step) /\ UNCHANGED <<log, since>>
        BY <1>1, <1>2 DEF Create
    <2> QED BY <2>1, GoToMoves, MoveStep DEF Create
<1>3. CASE log' # log
    <2>1. /\ r \in Runs /\ r \notin log /\ RunType[r] \in StorableTypes
          /\ log' = log \cup {r}
          /\ since' = [since EXCEPT ![r] = {limits}]
          /\ call' = [call EXCEPT ![c].at = "completed", ![c].fresh = TRUE]
          /\ UNCHANGED <<breaks, settled>>
        BY <1>1, <1>3 DEF Create, GoTo, CallInv
    <2>2. /\ call'[c].at = "completed" /\ call'[c].fresh /\ call'[c].run = r
          /\ \A d \in Calls \ {c} : call'[d] = call[d]
        BY <1>1, <2>1 DEF TypeOK, Call
    <2>3. \A d \in Calls : call[d].fresh => d # c /\ call[d].run # r
        BY <1>1, <2>1 DEF CallInv, Create
    <2>4. settled \subseteq log /\ settled \subseteq Runs /\ log \subseteq Runs
        BY <1>1 DEF TypeOK
    <2>5. \A s \in Runs : since'[s] = IF s = r THEN {limits} ELSE since[s]
        BY <1>1, <2>1 DEF TypeOK
    <2>6. CallInv'
        <3>1. \A x \in breaks : x.by \in Calls
            BY <1>1 DEF TypeOK, Break
        <3>2. \A x \in breaks' : call'[x.by].fresh /\ call'[x.by].run = x.run
            BY <1>1, <2>1, <2>2, <2>3, <3>1 DEF CallInv
        <3>3. \A d \in Calls : /\ call'[d].at # "idle" => call'[d].run \in Runs
                               /\ call'[d].at \in Fresh => call'[d].fresh
                               /\ call'[d].fresh => call'[d].at # "idle" /\ call'[d].run \in log'
            <4>1. TAKE d \in Calls
            <4>2. CASE d = c
                BY <2>1, <2>2, <4>2
            <4>3. CASE d # c
                <5>1. call'[d] = call[d]
                    BY <2>2, <4>3
                <5> QED BY <1>1, <2>1, <5>1 DEF CallInv
            <4> QED BY <4>2, <4>3
        <3>4. \A d, e \in Calls :
                  call'[d].fresh /\ call'[e].fresh /\ call'[d].run = call'[e].run => d = e
            BY <1>1, <2>2, <2>3 DEF CallInv
        <3> QED BY <3>2, <3>3, <3>4 DEF CallInv
    <2>7. ASSUME NEW d \in Calls PROVE Sound(d)'
        <3>1. CASE d = c
            <4>1. Clean
                BY <1>1, <2>1 DEF ResultInv, Sound, Create
            <4> QED BY <2>1, <2>2, <2>4, <3>1, <4>1 DEF Sound, Clean
        <3>2. CASE d # c
            <4>1. call'[d] = call[d] /\ Sound(d)
                BY <1>1, <2>2, <3>2 DEF ResultInv
            <4>2. call[d].at = "store" => since'[call[d].run] = since[call[d].run]
                BY <1>1, <2>3, <2>5 DEF CallInv
            <4>3. UNCHANGED <<book, settled>>
                BY <2>1
            <4> QED BY <4>1, <4>2, <4>3 DEF Sound, Clean
        <3> QED BY <3>1, <3>2
    <2>8. \A s \in log' \ settled' : limits' \in since'[s]
        BY <1>1, <2>1, <2>4, <2>5 DEF ResultInv
    <2>9. ASSUME NEW s \in settled' PROVE Explained(s)'
        <3>1. since'[s] = since[s] /\ Explained(s)
            BY <1>1, <2>1, <2>4, <2>5 DEF ResultInv
        <3> QED BY <2>1, <3>1 DEF Explained, Lines, BreaksOf, Clean
    <2> QED BY <1>1, <2>1, <2>6, <2>7, <2>8, <2>9 DEF ResultInv
<1> QED BY <1>2, <1>3

\* A call reads the thresholds; if it finds nothing, its run is settled.
LEMMA DetectStep ==
    ASSUME IInv, NEW c \in Calls, UNCHANGED <<book, limits>>, Detect(c)
    PROVE  CallInv' /\ ResultInv'
<1> USE DEF Fresh, Pending
<1> DEFINE r == call[c].run
           found == Engine!Detected(book, limits)
<1>1. TypeOK /\ CallInv /\ ResultInv
    BY DEF IInv
<1>2. /\ r \in Runs /\ r \in log /\ r \notin settled /\ Clean /\ limits \in since[r]
      /\ call[c].fresh
    BY <1>1 DEF CallInv, ResultInv, Sound, Detect
<1>3. /\ call'[c].run = r /\ call'[c].fresh = call[c].fresh /\ call'[c].found = found
      /\ call'[c].at = IF found = {} THEN "answer" ELSE "store"
      /\ \A d \in Calls \ {c} : call'[d] = call[d]
    <2> HIDE DEF found
    <2> QED BY <1>1, <1>2 DEF TypeOK, Call, Detect, found
<1>4. /\ UNCHANGED <<log, breaks, since>>
      /\ settled' = IF found = {} THEN settled \cup {r} ELSE settled
    BY DEF Detect
<1> HIDE DEF found
<1>5. CallInv'
    <2>1. \A x \in breaks : x.by \in Calls
        BY <1>1 DEF TypeOK, Break
    <2>2. \A d \in Calls : call'[d].run = call[d].run /\ call'[d].fresh = call[d].fresh
        BY <1>2, <1>3
    <2>3. \A d \in Calls : /\ call'[d].at # "idle" => call'[d].run \in Runs
                           /\ call'[d].at \in Fresh => call'[d].fresh
                           /\ call'[d].fresh => call'[d].at # "idle" /\ call'[d].run \in log
        <3>1. TAKE d \in Calls
        <3>2. CASE d = c
            BY <1>2, <1>3, <3>2
        <3>3. CASE d # c
            BY <1>1, <1>3, <3>3 DEF CallInv
        <3> QED BY <3>2, <3>3
    <2> QED BY <1>1, <1>4, <2>1, <2>2, <2>3 DEF CallInv
<1>6. ASSUME NEW d \in Calls PROVE Sound(d)'
    <2>1. CASE d = c
        BY <1>2, <1>3, <1>4, <2>1 DEF Sound, Clean, found
    <2>2. CASE d # c
        <3>1. call'[d] = call[d] /\ Sound(d)
            BY <1>1, <1>3, <2>2 DEF ResultInv
        <3>2. call[d].at \in Pending => call[d].run # r
            BY <1>1, <1>2, <2>2 DEF CallInv
        <3> QED BY <1>4, <3>1, <3>2 DEF Sound, Clean
    <2> QED BY <2>1, <2>2
<1>7. ASSUME NEW s \in settled' PROVE Explained(s)'
    <2>1. CASE s \in settled
        BY <1>1, <1>4, <2>1 DEF ResultInv, Explained, Lines, BreaksOf, Clean
    <2>2. CASE s \notin settled
        <3>1. s = r /\ found = {}
            BY <1>4, <2>2
        <3>2. Lines(s)' = {}
            BY <1>1, <1>2, <1>4, <3>1 DEF ResultInv, Lines, BreaksOf
        <3> QED BY <1>2, <1>4, <3>1, <3>2 DEF Explained, Clean, found
    <2> QED BY <2>1, <2>2
<1> QED BY <1>1, <1>4, <1>5, <1>6, <1>7 DEF ResultInv

\* A call stores what it found, and its run is settled.
LEMMA StoreStep ==
    ASSUME IInv, NEW c \in Calls, UNCHANGED <<book, limits>>, StoreBreaks(c)
    PROVE  CallInv' /\ ResultInv'
<1> USE DEF Fresh, Pending
<1> DEFINE r == call[c].run
<1>1. TypeOK /\ CallInv /\ ResultInv
    BY DEF IInv
<1>2. /\ r \in Runs /\ r \in log /\ r \notin settled /\ Clean /\ call[c].fresh
      /\ \E l \in since[r] : call[c].found = Engine!Detected(book, l)
    BY <1>1 DEF CallInv, ResultInv, Sound, StoreBreaks
<1>3. /\ breaks' = breaks \cup Found(c) /\ settled' = settled \cup {r}
      /\ UNCHANGED <<log, since>> /\ GoTo(c, "notify")
    BY DEF StoreBreaks
<1>4. /\ call'[c].at = "notify"
      /\ \A d \in Calls : /\ call'[d].run = call[d].run
                          /\ call'[d].fresh = call[d].fresh
                          /\ d # c => call'[d] = call[d]
    BY <1>3, GoToMoves
<1>5. \A x \in Found(c) : x.run = r /\ x.by = c
    BY DEF Found
<1>6. CallInv'
    <2>1. \A x \in breaks : x.by \in Calls
        BY <1>1 DEF TypeOK, Break
    <2> QED BY <1>1, <1>2, <1>3, <1>4, <1>5, <2>1 DEF CallInv
<1>7. ASSUME NEW d \in Calls PROVE Sound(d)'
    <2>1. CASE d = c
        BY <1>2, <1>4, <2>1 DEF Sound, Clean
    <2>2. CASE d # c
        <3>1. call'[d] = call[d] /\ Sound(d)
            BY <1>1, <1>4, <2>2 DEF ResultInv
        <3>2. call[d].at \in Pending => call[d].run # r
            BY <1>1, <1>2, <2>2 DEF CallInv
        <3> QED BY <1>3, <3>1, <3>2 DEF Sound, Clean
    <2> QED BY <2>1, <2>2
<1>8. ASSUME NEW s \in settled' PROVE Explained(s)'
    <2>1. CASE s # r
        <3>1. BreaksOf(s)' = BreaksOf(s)
            BY <1>3, <1>5, <2>1 DEF BreaksOf
        <3>2. Explained(s)
            BY <1>1, <1>3, <2>1 DEF ResultInv
        <3> QED BY <1>3, <3>1, <3>2 DEF Explained, Lines, Clean
    <2>2. CASE s = r
        <3>1. BreaksOf(s)' = Found(c)
            BY <1>1, <1>2, <1>3, <1>5, <2>2 DEF ResultInv, BreaksOf
        <3>2. Lines(s)' = call[c].found
            <4>1. \A x \in Found(c) : x.line \in call[c].found
                BY DEF Found
            <4>2. ASSUME NEW l \in call[c].found PROVE \E x \in Found(c) : x.line = l
                <5> DEFINE x == [run |-> call[c].run, line |-> l, by |-> c, on |-> day]
                <5>1. x \in Found(c) /\ x.line = l
                    BY DEF Found
                <5> QED BY <5>1
            <4> QED BY <3>1, <4>1, <4>2 DEF Lines
        <3> QED BY <1>2, <1>3, <2>2, <3>2 DEF Explained, Clean
    <2> QED BY <2>1, <2>2
<1>9. \A x, y \in breaks' : x.run = y.run => x.on = y.on
    <2>1. \A x \in Found(c) : x.on = day
        BY DEF Found
    <2>2. \A x \in breaks : x.run # r
        BY <1>1, <1>2 DEF ResultInv
    <2> QED BY <1>1, <1>3, <1>5, <2>1, <2>2 DEF ResultInv
<1> QED BY <1>1, <1>3, <1>5, <1>6, <1>7, <1>8, <1>9 DEF ResultInv

\* Thresholds change under the runs that are not settled.
LEMMA ThresholdStep ==
    ASSUME IInv, NEW new \in LimitSets, UpdateThresholds(new)
    PROVE  IInv'
<1>1. TypeOK /\ CallInv /\ ResultInv
    BY DEF IInv
<1>2. /\ limits' = new
      /\ UNCHANGED <<book, day, log, dated, breaks, tickets, audit, call, settled, rep>>
      /\ \A r \in Runs : since'[r] = IF r \in log \ settled THEN since[r] \cup {new}
                                     ELSE since[r]
    BY DEF UpdateThresholds
<1>3. TypeOK'
    <2>1. since' \in [Runs -> SUBSET LimitSets]
        BY <1>1 DEF TypeOK, UpdateThresholds
    <2> QED BY <1>1, <1>2, <2>1 DEF TypeOK
<1>4. CallInv'
    BY <1>1, <1>2 DEF CallInv
<1>5. ASSUME NEW d \in Calls PROVE Sound(d)'
    <2>1. Sound(d)
        BY <1>1 DEF ResultInv
    <2>2. ASSUME call[d].at = "store"
          PROVE  since[call[d].run] \subseteq since'[call[d].run]
        <3>1. call[d].run \in Runs
            BY <1>1, <2>2 DEF CallInv
        <3> QED BY <1>2, <3>1
    <2> QED BY <1>2, <2>1, <2>2 DEF Sound, Clean
<1>6. \A r \in log' \ settled' : limits' \in since'[r]
    BY <1>1, <1>2 DEF TypeOK
<1>7. ASSUME NEW r \in settled' PROVE Explained(r)'
    <2>1. Explained(r) /\ since'[r] = since[r]
        BY <1>1, <1>2 DEF TypeOK, ResultInv
    <2> QED BY <1>2, <2>1 DEF Explained, Lines, BreaksOf, Clean
<1> QED BY <1>1, <1>2, <1>3, <1>4, <1>5, <1>6, <1>7 DEF IInv, ResultInv

\* Reports only read.
LEMMA IdleStep ==
    ASSUME IInv, UNCHANGED <<book, limits, runVars>>
    PROVE  CallInv' /\ ResultInv'
<1>1. CallInv' /\ (\A c \in Calls : Sound(c)')
    BY DEF IInv, CallInv, ResultInv, Sound, Clean, runVars
<1>2. \A r \in settled' : Explained(r)'
    BY DEF IInv, ResultInv, Explained, Lines, BreaksOf, Clean, runVars
<1> QED BY <1>1, <1>2 DEF IInv, ResultInv, runVars

LEMMA NextIInv == IInv /\ [Next]_vars => IInv'
<1> SUFFICES ASSUME IInv, [Next]_vars PROVE IInv'
    OBVIOUS
<1>1. ASSUME NEW c \in Calls, Execute(c) PROVE IInv'
    <2>1. TypeOK' /\ UNCHANGED <<book, limits>>
        BY <1>1, CallTypes DEF Execute
    <2>2. ASSUME NEW r \in Runs, Match(c, r) PROVE CallInv' /\ ResultInv'
        BY <2>1, <2>2, MatchStep
    <2>3. CASE Create(c)
        BY <2>1, <2>3, CreateStep DEF IInv
    <2>4. CASE Detect(c)
        BY <2>1, <2>4, DetectStep DEF IInv
    <2>5. CASE StoreBreaks(c)
        BY <2>1, <2>5, StoreStep DEF IInv
    <2>6. CASE AuditRun(c) \/ CountBreaks(c) \/ Notify(c) \/ Announce(c) \/ Answer(c) \/ Crash(c)
        BY <2>1, <2>6, OnwardStep DEF IInv
    <2> QED BY <1>1, <2>1, <2>2, <2>3, <2>4, <2>5, <2>6 DEF Execute, IInv
<1>2. ASSUME NEW new \in LimitSets, UpdateThresholds(new) PROVE IInv'
    BY <1>2, ThresholdStep
<1>3. ASSUME NEW s \in Reports, DrawUp(s) PROVE IInv'
    <2>1. UNCHANGED <<book, limits, runVars>>
        BY <1>3 DEF DrawUp, BeginReport, ReadRuns, ReadBreaks, FileReport, GiveUp
    <2> QED BY <1>3, <2>1, ReportTypes, IdleStep DEF IInv
<1>5. CASE NextDay
    <2>1. TypeOK'
        BY <1>5, RunAssumption DEF IInv, TypeOK, NextDay, Days, runVars
    <2> QED BY <1>5, <2>1, IdleStep DEF IInv, NextDay
<1>4. CASE UNCHANGED vars
    <2>1. TypeOK'
        BY <1>4 DEF IInv, TypeOK, vars, runVars
    <2> QED BY <1>4, <2>1, IdleStep DEF IInv, vars
<1> QED BY <1>1, <1>2, <1>3, <1>4, <1>5 DEF Next

THEOREM Invariance == Spec => []IInv
BY InitIInv, NextIInv, PTL DEF Spec

-----------------------------------------------------------------------------
(* The properties of the runs that follow. *)

\* The types, of which settled \subseteq log is the one that needs an argument.
THEOREM TypeCorrectness == Spec => []TypeOK
<1>1. IInv => TypeOK
    BY DEF IInv
<1> QED BY <1>1, Invariance, PTL

\* store.create lets one call detect, so that no line is a break of a run twice,
\* whoever races and wherever it dies.
THEOREM NoDoubleBreaks == Spec => []OneBreakPerLine
<1>1. IInv => OneBreakPerLine
    <2> SUFFICES ASSUME IInv, NEW x \in breaks, NEW y \in breaks,
                        x.run = y.run, x.line = y.line
                 PROVE  x = y
        BY DEF OneBreakPerLine
    <2>1. x \in Break /\ y \in Break
        BY DEF IInv, TypeOK
    <2>2. x.by = y.by /\ x.on = y.on
        BY <2>1 DEF IInv, CallInv, ResultInv, Break
    <2> QED BY <2>1, <2>2 DEF Break
<1> QED BY <1>1, Invariance, PTL

\* The breaks of a settled run are what BACKOFFICE-02 calls due under thresholds
\* that were in force during the run; an unsettled run has none.
THEOREM BreaksAreThoseDue == Spec => []BreaksAreDue
<1>1. IInv => BreaksAreDue
    <2> SUFFICES ASSUME IInv, NEW r \in log
                 PROVE  IF r \in settled
                        THEN \E l \in since[r] :
                                Lines(r) = {ref \in Refs : Engine!Due(book[ref], l)}
                        ELSE Lines(r) = {}
        BY DEF BreaksAreDue, Lines
    <2>1. CASE r \in settled
        <3>1. PICK l \in since[r] : Clean /\ Lines(r) = Engine!Detected(book, l)
            BY <2>1 DEF IInv, ResultInv, Explained
        <3>2. book \in Books /\ l \in LimitSets
            BY DEF IInv, TypeOK
        <3> QED BY <2>1, <3>1, <3>2, DetectedIsDue DEF Clean
    <2>2. CASE r \notin settled
        BY <2>2 DEF IInv, ResultInv, Lines, BreaksOf
    <2> QED BY <2>1, <2>2
<1> QED BY <1>1, Invariance, PTL

-----------------------------------------------------------------------------
(* What is said of a run: its tickets, its audit events, its reports. *)

\* What a call stored, some day.
Stored(c, on) ==
    {[run |-> call[c].run, line |-> l, by |-> c, on |-> on] : l \in call[c].found}

\* A call that goes on to tell has its findings on file; one that goes on to detect is on
\* the audit trail,
Telling(c) ==
    /\ call[c].at \in {"notify", "announce"} =>
          call[c].run \in settled /\ \E on \in Days : BreaksOf(call[c].run) = Stored(c, on)
    /\ call[c].at \in {"count", "limits", "store"} =>
          \E e \in audit : e.event = "completed" /\ e.run = call[c].run

\* and an event is about a run that was detected, or that its call created.
Truthful(e) ==
    /\ e.event = "detected" => e.run \in settled /\ Cardinality(BreaksOf(e.run)) = e.n
    /\ e.event = "executed" => call[e.by].fresh /\ call[e.by].run = e.run /\ e.n = 0

Ticketed(t) == \E x \in BreaksOf(t.run) : Engine!Team(book[x.line]) = t.team

OnTrail(x) == \E e \in audit : e.event = "completed" /\ e.run = x.run

TellInv ==
    /\ \A c \in Calls : Telling(c)
    /\ \A e \in audit : Truthful(e)
    /\ \A t \in tickets : Ticketed(t)
    /\ \A x \in breaks : OnTrail(x)

\* What a report owes: of the settled runs it knew, those in its scope, and of their
\* breaks those in its scope.
OwedRuns(s) ==
    {r \in rep[s].known : IF rep[s].kind = "monthly" THEN RunType[r] = "daily"
                                                     ELSE dated[r] \in rep[s].days}
OwedBreaks(s) ==
    {x \in breaks : /\ x.run \in rep[s].known
                    /\ IF rep[s].kind = "monthly" THEN RunType[x.run] = "daily"
                                                  ELSE x.on \in rep[s].days}

RunCap(kind) == IF kind = "monthly" THEN SignoffRuns ELSE ExportRows

\* A report knew of settled runs only, whose rows stay what they were, and either half of
\* it has all that it owes, unless it is as long as it may get.
HasRuns(s) ==
    rep[s].runs # None =>
        OwedRuns(s) \subseteq rep[s].runs \/ Cardinality(rep[s].runs) = RunCap(rep[s].kind)
HasBreaks(s) ==
    rep[s].breaks # None =>
        \/ OwedBreaks(s) \subseteq rep[s].breaks
        \/ rep[s].kind = "cbuae" /\ Cardinality(rep[s].breaks) = ExportRows

Fair(s) ==
    /\ rep[s].known \subseteq settled
    /\ rep[s].at = "idle" => rep[s].runs = None /\ rep[s].breaks = None
    /\ rep[s].at = "filed" => rep[s].runs # None /\ rep[s].breaks # None
    /\ HasRuns(s) /\ HasBreaks(s)

ReportInv == \A s \in Reports : Fair(s)

\* What is on file stays, and the breaks of a settled run are all there ever will be.
LEMMA OnFileStays ==
    ASSUME IInv, [Next]_vars
    PROVE  /\ book' = book /\ settled \subseteq settled'
           /\ breaks \subseteq breaks' /\ audit \subseteq audit' /\ tickets \subseteq tickets'
           /\ \A r \in settled : BreaksOf(r)' = BreaksOf(r) /\ dated'[r] = dated[r]
           /\ \A c \in Calls : call[c].fresh => call'[c].fresh /\ call'[c].run = call[c].run
<1>0. TypeOK /\ CallInv /\ ResultInv
    BY DEF IInv
<1>1. CASE \E c \in Calls : StoreBreaks(c) /\ UNCHANGED <<book, limits, day, rep>>
    <2>1. PICK c \in Calls : StoreBreaks(c) /\ UNCHANGED <<book, limits, day, rep>>
        BY <1>1
    <2>2. call[c].run \notin settled
        BY <1>0, <2>1 DEF ResultInv, Sound, Pending, StoreBreaks
    <2>3. \A x \in Found(c) : x.run = call[c].run
        BY DEF Found
    <2>4. \A r \in settled : BreaksOf(r)' = BreaksOf(r)
        BY <2>1, <2>2, <2>3 DEF BreaksOf, StoreBreaks
    <2>5. \A d \in Calls : call'[d].fresh = call[d].fresh /\ call'[d].run = call[d].run
        BY <2>1, GoToMoves DEF StoreBreaks
    <2> QED BY <2>1, <2>4, <2>5 DEF StoreBreaks
<1>2. ASSUME UNCHANGED <<book, breaks>>, settled \subseteq settled', audit \subseteq audit',
             \A r \in settled : dated'[r] = dated[r],
             tickets \subseteq tickets',
             \A c \in Calls : call[c].fresh => call'[c].fresh /\ call'[c].run = call[c].run
      PROVE  /\ book' = book /\ settled \subseteq settled'
             /\ breaks \subseteq breaks' /\ audit \subseteq audit' /\ tickets \subseteq tickets'
             /\ \A r \in settled : BreaksOf(r)' = BreaksOf(r) /\ dated'[r] = dated[r]
             /\ \A c \in Calls :
                    call[c].fresh => call'[c].fresh /\ call'[c].run = call[c].run
    BY <1>2 DEF BreaksOf
<1>3. ASSUME NEW c \in Calls, Execute(c), ~StoreBreaks(c)
      PROVE  /\ UNCHANGED <<book, breaks>> /\ settled \subseteq settled'
             /\ \A r \in settled : dated'[r] = dated[r]
             /\ audit \subseteq audit' /\ tickets \subseteq tickets'
             /\ \A d \in Calls :
                    call[d].fresh => call'[d].fresh /\ call'[d].run = call[d].run
    <2>0. UNCHANGED <<book, limits, day, rep>>
        BY <1>3 DEF Execute
    <2>1. ASSUME NEW r \in Runs, Match(c, r)
          PROVE  /\ UNCHANGED <<book, breaks>> /\ settled \subseteq settled'
                 /\ \A s \in settled : dated'[s] = dated[s]
                 /\ audit \subseteq audit' /\ tickets \subseteq tickets'
                 /\ \A d \in Calls :
                        call[d].fresh => call'[d].fresh /\ call'[d].run = call[d].run
        <3>1. ~call[c].fresh
            BY <1>0, <2>1 DEF Match, CallInv
        <3> QED BY <1>0, <2>0, <2>1, <3>1 DEF Match, TypeOK
    <2>2. CASE Create(c) \/ Detect(c) \/ Crash(c)
        <3>1. \A r \in settled : dated'[r] = dated[r]
            BY <1>0, <2>2 DEF Create, Detect, Crash, TypeOK
        <3> QED BY <1>0, <2>0, <2>2, <3>1 DEF Create, Detect, Crash, GoTo, TypeOK, Call
    <2>3. CASE AuditRun(c) \/ CountBreaks(c) \/ Notify(c) \/ Announce(c) \/ Answer(c)
        <3>1. \E step : GoTo(c, step)
            BY <2>3 DEF AuditRun, CountBreaks, Notify, Announce, Answer
        <3>2. \A d \in Calls : call'[d].fresh = call[d].fresh /\ call'[d].run = call[d].run
            BY <3>1, GoToMoves
        <3> QED BY <2>0, <2>3, <3>2
                DEF AuditRun, CountBreaks, Notify, Announce, Answer, Emit
    <2> QED BY <1>3, <2>1, <2>2, <2>3 DEF Execute
<1>4. CASE (\E new \in LimitSets : UpdateThresholds(new)) \/ (\E s \in Reports : DrawUp(s))
                 \/ NextDay \/ UNCHANGED vars
    BY <1>2, <1>4 DEF UpdateThresholds, NextDay, DrawUp, BeginReport, ReadRuns, ReadBreaks, FileReport,
        GiveUp, vars, runVars
<1> QED
    <2>1. ASSUME NEW c \in Calls, Execute(c)
          PROVE  (StoreBreaks(c) /\ UNCHANGED <<book, limits, day, rep>>) \/ ~StoreBreaks(c)
        BY <2>1 DEF Execute
    <2> QED BY <1>1, <1>2, <1>3, <1>4, <2>1 DEF Next

\* So what was told goes on being true.
LEMMA TruthStays ==
    ASSUME IInv, TellInv, [Next]_vars
    PROVE  /\ \A e \in audit : Truthful(e)'
           /\ \A t \in tickets : Ticketed(t)'
           /\ \A x \in breaks : OnTrail(x)'
           /\ \A c \in Calls : call'[c] = call[c] => Telling(c)'
<1>1. /\ book' = book /\ settled \subseteq settled' /\ breaks \subseteq breaks' /\ audit \subseteq audit'
      /\ \A r \in settled : BreaksOf(r)' = BreaksOf(r)
      /\ \A c \in Calls : call[c].fresh => call'[c].fresh /\ call'[c].run = call[c].run
    BY OnFileStays
<1>2. ASSUME NEW e \in audit PROVE Truthful(e)'
    <2>1. Truthful(e) /\ e.by \in Calls
        BY DEF IInv, TypeOK, Event, TellInv
    <2> QED BY <1>1, <2>1 DEF Truthful
<1>3. ASSUME NEW t \in tickets PROVE Ticketed(t)'
    BY <1>1 DEF TellInv, Ticketed, BreaksOf
<1>4. \A x \in breaks : OnTrail(x)'
    BY <1>1 DEF TellInv, OnTrail
<1>5. ASSUME NEW c \in Calls, call'[c] = call[c] PROVE Telling(c)'
    <2>1. Telling(c)
        BY DEF TellInv
    <2> QED BY <1>1, <1>5, <2>1 DEF Telling, Stored, Days
<1> QED BY <1>2, <1>3, <1>4, <1>5

\* As many breaks as lines were found.
LEMMA FoundCounts ==
    ASSUME IInv, NEW c \in Calls, NEW on \in Days
    PROVE  Cardinality(Stored(c, on)) = Cardinality(call[c].found)
<1> DEFINE S == call[c].found
           row(l) == [run |-> call[c].run, line |-> l, by |-> c, on |-> on]
           f == [l \in S |-> row(l)]
<1>1. IsFiniteSet(S)
    <2>1. S \in SUBSET Refs
        BY DEF IInv, TypeOK, Call
    <2> QED BY <2>1, RunAssumption, FS_Subset
<1>2. f \in Bijection(S, Stored(c, on))
    <2>1. f \in [S -> Stored(c, on)]
        BY DEF Stored
    <2>2. \A l, m \in S : f[l] = f[m] => l = m
        OBVIOUS
    <2>3. \A x \in Stored(c, on) : \E l \in S : f[l] = x
        BY DEF Stored
    <2> QED BY <2>1, <2>2, <2>3 DEF Bijection, Injection, Surjection, IsInjective
<1>3. ExistsBijection(S, Stored(c, on))
    BY <1>2 DEF ExistsBijection
<1> QED BY <1>1, <1>3, FS_Bijection

\* A step of a call tells the truth, if what it adds is true and so is what it knows now.
LEMMA TellStep ==
    ASSUME IInv, TellInv, [Next]_vars, NEW c \in Calls,
           \A d \in Calls \ {c} : call'[d] = call[d],
           Telling(c)',
           \A e \in audit' \ audit : Truthful(e)',
           \A t \in tickets' \ tickets : Ticketed(t)',
           \A x \in breaks' \ breaks : OnTrail(x)'
    PROVE  TellInv'
BY TruthStays DEF TellInv

LEMMA TellNext == IInv /\ TellInv /\ [Next]_vars => TellInv'
<1> SUFFICES ASSUME IInv, TellInv, [Next]_vars PROVE TellInv'
    OBVIOUS
<1> USE DEF Fresh, Pending
<1>0. TypeOK /\ CallInv /\ ResultInv
    BY DEF IInv
<1>1. ASSUME NEW c \in Calls, Execute(c) PROVE TellInv'
    <2>0. Telling(c)
        BY DEF TellInv
    <2>1. ASSUME NEW r \in Runs, Match(c, r) PROVE TellInv'
        <3>1. call'[c].at \in {"failed", "create"} /\ \A d \in Calls \ {c} : call'[d] = call[d]
            BY <1>0, <2>1 DEF TypeOK, Call, Match
        <3>2. Telling(c)'
            BY <3>1 DEF Telling
        <3> QED BY <2>1, <3>1, <3>2, TellStep DEF Match
    <2>2. CASE Create(c)
        <3>1. /\ call'[c].at \in {"failed", "answer", "completed"}
              /\ \A d \in Calls \ {c} : call'[d] = call[d]
            BY <1>0, <2>2 DEF TypeOK, Call, Create, GoTo
        <3>2. Telling(c)'
            BY <3>1 DEF Telling
        <3> QED BY <2>2, <3>1, <3>2, TellStep DEF Create
    <2>3. CASE AuditRun(c)
        <3> DEFINE e == [event |-> "completed", run |-> call[c].run, by |-> c, n |-> 0]
        <3>1. audit' = audit \cup {e}
            BY <2>3 DEF AuditRun, Emit
        <3>2. /\ call'[c].at = "count" /\ call'[c].run = call[c].run
              /\ \A d \in Calls \ {c} : call'[d] = call[d]
            BY <2>3, GoToMoves DEF AuditRun
        <3>0. e.event = "completed" /\ e.run = call[c].run
            OBVIOUS
        <3> HIDE DEF e
        <3>3. Telling(c)'
            <4>1. e \in audit'
                BY <3>1
            <4> QED BY <3>0, <3>2, <4>1 DEF Telling
        <3>4. \A x \in audit' \ audit : Truthful(x)'
            <4>1. \A x \in audit' \ audit : x = e
                BY <3>1
            <4> QED BY <3>0, <4>1 DEF Truthful
        <3> QED BY <2>3, <3>2, <3>3, <3>4, TellStep DEF AuditRun
    <2>4. CASE CountBreaks(c)
        <3>1. /\ call[c].at = "count" /\ call'[c].at \in {"answer", "limits"}
              /\ call'[c].run = call[c].run /\ \A d \in Calls \ {c} : call'[d] = call[d]
            BY <2>4, GoToMoves DEF CountBreaks
        <3>2. Telling(c)'
            BY <2>0, <2>4, <3>1 DEF Telling, CountBreaks
        <3> QED BY <2>4, <3>1, <3>2, TellStep DEF CountBreaks
    <2>5. CASE Detect(c)
        <3>1. /\ call[c].at = "limits" /\ call'[c].at \in {"answer", "store"}
              /\ call'[c].run = call[c].run /\ \A d \in Calls \ {c} : call'[d] = call[d]
            BY <1>0, <2>5 DEF TypeOK, Call, Detect
        <3>2. Telling(c)'
            BY <2>0, <2>5, <3>1 DEF Telling, Detect
        <3> QED BY <2>5, <3>1, <3>2, TellStep DEF Detect
    <2>6. CASE StoreBreaks(c)
        <3>1. /\ call'[c].at = "notify" /\ call[c].at = "store" /\ call'[c].run = call[c].run
              /\ call'[c].found = call[c].found /\ \A d \in Calls \ {c} : call'[d] = call[d]
            BY <1>0, <2>6 DEF TypeOK, Call, StoreBreaks, GoTo
        <3>2. breaks' = breaks \cup Found(c) /\ settled' = settled \cup {call[c].run}
            BY <2>6 DEF StoreBreaks
        <3>3. /\ call[c].run \notin settled
              /\ \A x \in breaks : x.run # call[c].run
              /\ \A x \in Found(c) : x.run = call[c].run
            BY <1>0, <3>1 DEF ResultInv, Sound, Found
        <3>4. BreaksOf(call[c].run)' = Stored(c, day) /\ Stored(c, day) = Found(c)
            BY <3>1, <3>2, <3>3 DEF BreaksOf, Stored, Found
        <3>5. Telling(c)'
            <4>1. BreaksOf(call[c].run)' = Stored(c, day)'
                BY <1>1, <3>1, <3>4 DEF Stored, Execute
            <4>2. day' \in Days
                BY <1>0, <1>1 DEF TypeOK, Execute
            <4> QED BY <1>1, <3>1, <3>2, <4>1, <4>2 DEF Telling, Days, Execute
        <3>6. \A x \in breaks' \ breaks : OnTrail(x)'
            BY <2>0, <2>6, <3>1, <3>2, <3>3 DEF Telling, OnTrail, StoreBreaks
        <3> QED BY <2>6, <3>1, <3>5, <3>6, TellStep DEF StoreBreaks
    <2>7. CASE Notify(c)
        <3>1. PICK team \in Teams(c) : 
                  /\ tickets' = tickets \cup {[run |-> call[c].run, team |-> team, by |-> c]}
                  /\ \E step \in {"announce", "notify"} : GoTo(c, step)
            BY <2>7 DEF Notify
        <3>2. /\ call[c].at = "notify" /\ call'[c].at \in {"announce", "notify"}
              /\ call'[c].run = call[c].run /\ call'[c].found = call[c].found
              /\ \A d \in Calls \ {c} : call'[d] = call[d]
            BY <1>0, <2>7, <3>1 DEF TypeOK, Call, Notify, GoTo
        <3>3. UNCHANGED <<breaks, settled, audit, book>>
            BY <1>1, <2>7 DEF Notify, Execute
        <3>4. Telling(c)'
            BY <2>0, <3>2, <3>3 DEF Telling, BreaksOf, Stored, Days
        <3>5. ASSUME NEW t \in tickets' \ tickets PROVE Ticketed(t)'
            <4>1. t.run = call[c].run /\ t.team = team
                BY <3>1, <3>5
            <4>2. PICK l \in call[c].found : Engine!Team(book[l]) = team
                BY DEF Teams
            <4>3. PICK on \in Days : BreaksOf(call[c].run) = Stored(c, on)
                BY <2>0, <3>2 DEF Telling
            <4> DEFINE x == [run |-> call[c].run, line |-> l, by |-> c, on |-> on]
            <4>4. x \in BreaksOf(call[c].run) /\ x.line = l
                BY <4>3 DEF Stored
            <4> HIDE DEF x
            <4> QED BY <3>3, <4>1, <4>2, <4>4 DEF Ticketed, BreaksOf
        <3> QED BY <3>2, <3>3, <3>4, <3>5, TellStep
    <2>8. CASE Announce(c)
        <3> DEFINE n == Cardinality(call[c].found)
                   e == [event |-> "detected", run |-> call[c].run, by |-> c, n |-> n]
        <3>1. audit' = audit \cup {e} /\ UNCHANGED <<breaks, tickets, settled>>
            BY <2>8 DEF Announce, Emit
        <3>2. call[c].at = "announce" /\ call'[c].at = "answer" /\ \A d \in Calls \ {c} : call'[d] = call[d]
            BY <2>8, GoToMoves DEF Announce
        <3>3. /\ e.event = "detected" /\ e.run \in settled
              /\ Cardinality(BreaksOf(e.run)) = e.n
            BY <2>0, <3>2, FoundCounts DEF Telling
        <3> HIDE DEF e
        <3>4. ASSUME NEW x \in audit' \ audit PROVE Truthful(x)'
            <4>1. x = e
                BY <3>1, <3>4
            <4> QED BY <3>1, <3>3, <4>1 DEF Truthful, BreaksOf
        <3>5. Telling(c)'
            BY <3>2 DEF Telling
        <3> QED BY <3>1, <3>2, <3>4, <3>5, TellStep
    <2>9. CASE Answer(c)
        <3>1. /\ call'[c].at = "ok" /\ call'[c].run = call[c].run /\ call'[c].fresh = call[c].fresh
              /\ \A d \in Calls \ {c} : call'[d] = call[d]
            BY <2>9, GoToMoves DEF Answer
        <3>2. ASSUME NEW e \in audit' \ audit PROVE Truthful(e)'
            <4>1. /\ e.event \in {"executed", "noop"} /\ e.by = c /\ e.run = call[c].run /\ e.n = 0
                  /\ e.event = "executed" => call[c].fresh
                BY <2>9, <3>2 DEF Answer, Emit
            <4> QED BY <3>1, <4>1 DEF Truthful
        <3>3. Telling(c)'
            BY <3>1 DEF Telling
        <3> QED BY <2>9, <3>1, <3>2, <3>3, TellStep DEF Answer
    <2>10. CASE Crash(c)
        <3>1. call'[c].at = "crashed" /\ \A d \in Calls \ {c} : call'[d] = call[d]
            BY <1>0, <2>10 DEF TypeOK, Call, Crash
        <3>2. Telling(c)'
            BY <3>1 DEF Telling
        <3> QED BY <2>10, <3>1, <3>2, TellStep DEF Crash
    <2> QED BY <1>1, <2>1, <2>2, <2>3, <2>4, <2>5, <2>6, <2>7, <2>8, <2>9, <2>10 DEF Execute
<1>2. CASE UNCHANGED <<call, audit, tickets, breaks>>
    BY <1>2, TruthStays DEF TellInv
<1>3. CASE \/ \E new \in LimitSets : UpdateThresholds(new)
           \/ NextDay
           \/ \E s \in Reports : DrawUp(s)
           \/ UNCHANGED vars
    <2>1. ASSUME NEW s \in Reports, DrawUp(s) PROVE UNCHANGED runVars
        BY <2>1 DEF DrawUp, BeginReport, ReadRuns, ReadBreaks, FileReport, GiveUp
    <2>2. ASSUME UNCHANGED runVars PROVE TellInv'
        BY <1>2, <2>2 DEF runVars
    <2>3. CASE NextDay \/ UNCHANGED vars
        BY <2>2, <2>3 DEF NextDay, vars
    <2>4. CASE \E new \in LimitSets : UpdateThresholds(new)
        BY <1>2, <2>4 DEF UpdateThresholds
    <2> QED BY <1>3, <2>1, <2>2, <2>3, <2>4
<1> QED BY <1>1, <1>3 DEF Next

LEMMA TellsTruth == Spec => []TellInv
<1>1. Init => TellInv
    BY DEF Init, TellInv, Telling
<1> QED BY <1>1, TellNext, Invariance, PTL DEF Spec

-----------------------------------------------------------------------------
\* What a report owes does not change any more.
LEMMA OwedStays ==
    ASSUME IInv, ReportInv, [Next]_vars, NEW s \in Reports,
           rep'[s].kind = rep[s].kind, rep'[s].days = rep[s].days, rep'[s].known = rep[s].known
    PROVE  OwedRuns(s)' = OwedRuns(s) /\ OwedBreaks(s)' = OwedBreaks(s)
<1>1. rep[s].known \subseteq settled
    BY DEF ReportInv, Fair
<1>2. \A r \in rep[s].known : BreaksOf(r)' = BreaksOf(r) /\ dated'[r] = dated[r]
    BY <1>1, OnFileStays
<1>3. OwedRuns(s)' = OwedRuns(s)
    BY <1>2 DEF OwedRuns
<1>4. \A x \in breaks \cup breaks' : x.run \in rep[s].known => (x \in breaks <=> x \in breaks')
    BY <1>2 DEF BreaksOf
<1> QED BY <1>3, <1>4 DEF OwedBreaks

LEMMA ReportNext == IInv /\ ReportInv /\ [Next]_vars => ReportInv'
<1> SUFFICES ASSUME IInv, ReportInv, [Next]_vars, NEW s \in Reports PROVE Fair(s)'
    BY DEF ReportInv
<1>1. Fair(s) /\ rep \in [Reports -> Report] /\ settled \subseteq log /\ TypeOK
    BY DEF ReportInv, IInv, TypeOK
<1>2. settled \subseteq settled'
    BY OnFileStays
<1>3. CASE rep'[s] = rep[s]
    <2>1. OwedRuns(s)' = OwedRuns(s) /\ OwedBreaks(s)' = OwedBreaks(s)
        BY <1>3, OwedStays
    <2> QED BY <1>1, <1>2, <1>3, <2>1 DEF Fair, HasRuns, HasBreaks, RunCap
<1>4. ASSUME NEW kind \in {"monthly", "cbuae"}, NEW days \in SUBSET Days,
             BeginReport(s, kind, days)
      PROVE  Fair(s)'
    <2>1. /\ rep'[s].at = "reading" /\ rep'[s].known = settled
          /\ rep'[s].runs = None /\ rep'[s].breaks = None /\ settled' = settled
        BY <1>1, <1>4 DEF BeginReport, Fair, Report, runVars
    <2> QED BY <2>1 DEF Fair, HasRuns, HasBreaks
<1>5. CASE ReadRuns(s)
    <2>1. PICK rows \in Capped(RunsInScope(s), RunCap(rep[s].kind)) :
              rep' = [rep EXCEPT ![s].runs = rows]
        BY <1>5 DEF ReadRuns, RunCap
    <2>2. /\ rep'[s].at = "reading" /\ rep'[s].kind = rep[s].kind /\ rep'[s].days = rep[s].days
          /\ rep'[s].known = rep[s].known /\ rep'[s].breaks = rep[s].breaks /\ rep'[s].runs = rows
        BY <1>1, <1>5, <2>1 DEF ReadRuns, Report
    <2>3. OwedRuns(s)' = OwedRuns(s) /\ OwedBreaks(s)' = OwedBreaks(s)
        BY <2>2, OwedStays
    <2>4. OwedRuns(s) \subseteq RunsInScope(s)
        BY <1>1 DEF Fair, OwedRuns, RunsInScope
    <2>5. rows = RunsInScope(s) \/ Cardinality(rows) = RunCap(rep[s].kind)
        BY <2>1, CappedCuts
    <2> QED BY <1>1, <1>2, <2>2, <2>3, <2>4, <2>5 DEF Fair, HasRuns, HasBreaks, RunCap
<1>6. CASE ReadBreaks(s)
    <2>1. PICK rows \in IF rep[s].kind = "monthly" THEN {BreaksInScope(s)}
                                                   ELSE Capped(BreaksInScope(s), ExportRows) :
              rep' = [rep EXCEPT ![s].breaks = rows]
        BY <1>6 DEF ReadBreaks
    <2>2. /\ rep'[s].at = "reading" /\ rep'[s].kind = rep[s].kind /\ rep'[s].days = rep[s].days
          /\ rep'[s].known = rep[s].known /\ rep'[s].runs = rep[s].runs /\ rep'[s].breaks = rows
        BY <1>1, <1>6, <2>1 DEF ReadBreaks, Report
    <2>3. OwedRuns(s)' = OwedRuns(s) /\ OwedBreaks(s)' = OwedBreaks(s)
        BY <2>2, OwedStays
    <2>4. OwedBreaks(s) \subseteq BreaksInScope(s)
        BY DEF OwedBreaks, BreaksInScope
    <2>5. rows = BreaksInScope(s) \/ (rep[s].kind = "cbuae" /\ Cardinality(rows) = ExportRows)
        <3>1. rep[s].kind \in {"monthly", "cbuae"}
            BY <1>1 DEF Report
        <3> QED BY <2>1, <3>1, CappedCuts
    <2> QED BY <1>1, <1>2, <2>2, <2>3, <2>4, <2>5 DEF Fair, HasRuns, HasBreaks, RunCap
<1>7. CASE FileReport(s) \/ GiveUp(s)
    <2>1. /\ rep'[s].at \in {"filed", "refused", "crashed"} /\ rep'[s].kind = rep[s].kind
          /\ rep'[s].days = rep[s].days
          /\ rep'[s].known = rep[s].known /\ rep'[s].runs = rep[s].runs
          /\ rep'[s].breaks = rep[s].breaks
          /\ rep'[s].at = "filed" => rep[s].runs # None /\ rep[s].breaks # None
        BY <1>1, <1>7 DEF FileReport, GiveUp, Report
    <2>2. OwedRuns(s)' = OwedRuns(s) /\ OwedBreaks(s)' = OwedBreaks(s)
        BY <2>1, OwedStays
    <2> QED BY <1>1, <1>2, <2>1, <2>2 DEF Fair, HasRuns, HasBreaks, RunCap
<1>8. ASSUME NEW o \in Reports, o # s, DrawUp(o) PROVE rep'[s] = rep[s]
    BY <1>1, <1>8 DEF DrawUp, BeginReport, ReadRuns, ReadBreaks, FileReport, GiveUp
<1>9. CASE UNCHANGED rep
    BY <1>3, <1>9
<1> QED
    <2>1. CASE DrawUp(s)
        <3>1. ASSUME NEW from \in Days, NEW to \in Days,
                     BeginReport(s, "cbuae", {d \in Days : from <= d /\ d <= to})
              PROVE  Fair(s)'
            <4>1. {d \in Days : from <= d /\ d <= to} \in SUBSET Days
                OBVIOUS
            <4> QED BY <1>4, <3>1, <4>1
        <3>2. CASE BeginReport(s, "monthly", {})
            BY <1>4, <3>2
        <3> QED BY <1>5, <1>6, <1>7, <2>1, <3>1, <3>2 DEF DrawUp
    <2> QED BY <1>3, <1>8, <1>9, <2>1 DEF Next, NextDay, Execute, UpdateThresholds, vars

LEMMA ReportsAreFair == Spec => []ReportInv
<1>1. Init => ReportInv
    BY DEF Init, ReportInv, Fair, HasRuns, HasBreaks
<1> QED BY <1>1, ReportNext, Invariance, PTL DEF Spec

-----------------------------------------------------------------------------
\* createMany comes before the tickets and the event: nobody is told of a break that is not
\* on file, and the number in the event is the number on file for good.
THEOREM AnnouncedWasOnFile == Spec => []AnnouncedIsOnFile
<1>1. TellInv => AnnouncedIsOnFile
    BY DEF TellInv, Truthful, Ticketed, AnnouncedIsOnFile
<1> QED BY <1>1, TellsTruth, PTL

\* A run is audited before it has breaks, and one call at most says it executed it.
THEOREM AuditPreceded == Spec => []AuditPrecedes
<1>1. IInv /\ TellInv => AuditPrecedes
    <2> SUFFICES ASSUME IInv, TellInv PROVE AuditPrecedes
        OBVIOUS
    <2>1. \A x \in breaks : \E e \in audit : e.event = "completed" /\ e.run = x.run
        BY DEF TellInv, OnTrail
    <2>2. ASSUME NEW e \in audit, NEW f \in audit, e.event = "executed", f.event = "executed",
                 e.run = f.run
          PROVE  e = f
        <3>1. e \in Event /\ f \in Event /\ Truthful(e) /\ Truthful(f)
            BY DEF IInv, TypeOK, TellInv
        <3>2. e.by = f.by /\ e.n = f.n
            BY <2>2, <3>1 DEF Truthful, Event, IInv, CallInv
        <3> QED BY <2>2, <3>1, <3>2 DEF Event
    <2> QED BY <2>1, <2>2 DEF AuditPrecedes
<1> QED BY <1>1, Invariance, TellsTruth, PTL

\* The sign-off and the export read two tables apart, each by its own rule, and lose no
\* row of a run that was settled when they began, unless a list is as long as its query
\* ever gets: neither the breaks of such a run nor the day of any row change any more.
THEOREM ReportsHadWhatSettled == Spec => []ReportHasWhatSettled
<1>1. IInv /\ ReportInv => ReportHasWhatSettled
    <2> SUFFICES ASSUME IInv, ReportInv, NEW s \in Reports, rep[s].at = "filed"
                 PROVE  IF rep[s].kind = "monthly"
                        THEN LET own == {r \in rep[s].known : RunType[r] = "daily"}
                             IN  /\ \A r \in own : BreaksOf(r) \subseteq rep[s].breaks
                                 /\ Cardinality(rep[s].runs) < SignoffRuns =>
                                        own \subseteq rep[s].runs
                        ELSE /\ Cardinality(rep[s].runs) < ExportRows =>
                                   {r \in rep[s].known : dated[r] \in rep[s].days}
                                      \subseteq rep[s].runs
                             /\ Cardinality(rep[s].breaks) < ExportRows =>
                                   {x \in breaks : x.run \in rep[s].known /\ x.on \in rep[s].days}
                                      \subseteq rep[s].breaks
        BY DEF ReportHasWhatSettled
    <2>1. /\ rep[s].runs # None /\ rep[s].breaks # None /\ HasRuns(s) /\ HasBreaks(s)
          /\ SignoffRuns \in Nat /\ ExportRows \in Nat
        BY RunAssumption DEF ReportInv, Fair
    <2>2. CASE rep[s].kind = "monthly"
        <3>1. OwedBreaks(s) \subseteq rep[s].breaks
            BY <2>1, <2>2 DEF HasBreaks
        <3>2. \A r \in rep[s].known :
                  RunType[r] = "daily" => BreaksOf(r) \subseteq OwedBreaks(s)
            BY <2>2 DEF OwedBreaks, BreaksOf
        <3>3. Cardinality(rep[s].runs) < SignoffRuns => OwedRuns(s) \subseteq rep[s].runs
            BY <2>1, <2>2 DEF HasRuns, RunCap
        <3> QED BY <2>2, <3>1, <3>2, <3>3 DEF OwedRuns
    <2>3. CASE rep[s].kind # "monthly"
        <3>1. Cardinality(rep[s].runs) < ExportRows => OwedRuns(s) \subseteq rep[s].runs
            BY <2>1, <2>3 DEF HasRuns, RunCap
        <3>2. Cardinality(rep[s].breaks) < ExportRows => OwedBreaks(s) \subseteq rep[s].breaks
            BY <2>1, <2>3 DEF HasBreaks
        <3> QED BY <2>3, <3>1, <3>2 DEF OwedRuns, OwedBreaks
    <2> QED BY <2>2, <2>3
<1> QED BY <1>1, Invariance, ReportsAreFair, PTL

-----------------------------------------------------------------------------
(* Working a break.  The inductive invariant. *)

\* A call at work was asked for something; one that is about to write an
\* escalation holds a case for it, and one that has emitted its event finds it
\* on the trail.
Works(c) ==
    LET w == edit[c].work
    IN  /\ edit[c].at \in {"missed", "opening", "writing", "audit", "caching", "ok"} =>
               w \in Work
        /\ edit[c].at = "writing" /\ w.op = "escalate" =>
               [brk |-> w.brk, id |-> edit[c].case] \in cases
        /\ edit[c].at = "caching" => w \in trail

\* A response is kept when its event is on the trail.
Kept(key) == \E w \in trail : CacheKey(w) = key

\* An update belongs to this opening of its break or to an earlier one; while it
\* is this one, a claim keeps the break from being claimed again, and an end from
\* being worked on.
Took(x) ==
    LET row == brk[x.brk]
    IN  /\ row.status # "absent" /\ x.opening <= row.reopened
        /\ x.opening = row.reopened =>
              IF x.op = "claim" THEN row.status # "flagged" ELSE row.status \in Terminal

\* A pending row belongs to a request nobody granted; from the grant on, it is
\* that of two people.
Agreed(r) == winner[r] # Null /\ winner[r] # entry[r].initiator
Asks(r) ==
    /\ entry[r].state = "none" <=> ask[r].at = "none"
    /\ entry[r].state = "pending" => ask[r].at = "pending"
    /\ ask[r].at # "none" => ask[r].brk \in Breaks
    /\ ask[r].at \in {"granted", "done", "over"} => Agreed(r)

\* A break was reopened by requests that are through.
Spent(b) == {r \in Requests : ask[r].brk = b /\ ask[r].at \in {"done", "over"}}
Reopens(b) == brk[b].reopened <= Cardinality(Spent(b))

RowInv == RowTellsOneStory
TakerInv == OneTakerPerOpening /\ \A x \in done : Took(x)
EditInv == AnsweredIsAudited /\ (\A c \in Edits : Works(c)) /\ \A key \in cache : Kept(key)
AskInv == \A r \in Requests : Asks(r)
SpentInv == \A b \in Breaks : Reopens(b)

WorkIInv == WorkTypeOK /\ RowInv /\ TakerInv /\ EditInv /\ AskInv /\ SpentInv

LEMMA WorkInitIInv == WorkInit => WorkIInv
<1> SUFFICES ASSUME WorkInit PROVE WorkIInv
    OBVIOUS
<1>1. NoBreak \in BreakRow
    BY DEF NoBreak, BreakRow
<1>2. WorkTypeOK
    BY <1>1 DEF WorkInit, WorkTypeOK, Gate!Init, Gate!TypeOK, Gate!NoEntry, Gate!Entry, Edit,
        EditStep, Ask
<1>3. RowInv
    BY DEF WorkInit, RowInv, RowTellsOneStory, NoBreak, ResolveOutcomes
<1>4. TakerInv
    BY DEF WorkInit, TakerInv, OneTakerPerOpening
<1>5. EditInv
    BY DEF WorkInit, EditInv, AnsweredIsAudited, Works
<1>6. AskInv
    BY DEF WorkInit, AskInv, Asks, Gate!Init, Gate!NoEntry
<1>7. SpentInv
    <2> SUFFICES ASSUME NEW b \in Breaks PROVE Reopens(b)
        BY DEF SpentInv
    <2>1. Spent(b) = {}
        BY DEF WorkInit, Spent
    <2>2. brk[b].reopened = 0
        BY DEF WorkInit, NoBreak
    <2> QED BY <2>1, <2>2, FS_EmptySet DEF Reopens
<1> QED BY <1>2, <1>3, <1>4, <1>5, <1>6, <1>7 DEF WorkIInv

\* What the three moves of a call do to it.
LEMMA EditMoves ==
    ASSUME WorkTypeOK, NEW c \in Edits
    PROVE  /\ \A step \in EditStep : EditAt(c, step) =>
                 /\ edit' \in [Edits -> Edit] /\ \A d \in Edits \ {c} : edit'[d] = edit[d]
                 /\ edit'[c].at = step /\ edit'[c].work = edit[c].work
                 /\ edit'[c].case = edit[c].case
           /\ Refused(c) =>
                 /\ edit' \in [Edits -> Edit] /\ \A d \in Edits \ {c} : edit'[d] = edit[d]
                 /\ edit'[c].at = "refused"
           /\ Crashed(c) =>
                 /\ edit' \in [Edits -> Edit] /\ \A d \in Edits \ {c} : edit'[d] = edit[d]
                 /\ edit'[c].at = "crashed"
<1>1. edit \in [Edits -> Edit] /\ edit[c] \in Edit
    BY DEF WorkTypeOK
<1>2. ASSUME NEW step \in EditStep, EditAt(c, step)
      PROVE  /\ edit' \in [Edits -> Edit] /\ \A d \in Edits \ {c} : edit'[d] = edit[d]
             /\ edit'[c].at = step /\ edit'[c].work = edit[c].work
             /\ edit'[c].case = edit[c].case
    <2> DEFINE e == [edit[c] EXCEPT !.at = step]
    <2>1. e \in Edit /\ e.at = step /\ e.work = edit[c].work /\ e.case = edit[c].case
        BY <1>1 DEF Edit
    <2>2. edit' = [edit EXCEPT ![c] = e]
        BY <1>2 DEF EditAt
    <2> HIDE DEF e
    <2> QED BY <1>1, <2>1, <2>2
<1>3. ASSUME Refused(c)
      PROVE  /\ edit' \in [Edits -> Edit] /\ \A d \in Edits \ {c} : edit'[d] = edit[d]
             /\ edit'[c].at = "refused"
    <2> DEFINE e == [edit[c] EXCEPT !.at = "refused", !.work = Null]
    <2>1. e \in Edit /\ e.at = "refused"
        BY <1>1 DEF Edit, EditStep
    <2>2. edit' = [edit EXCEPT ![c] = e]
        BY <1>3 DEF Refused
    <2> HIDE DEF e
    <2> QED BY <1>1, <2>1, <2>2
<1>4. ASSUME Crashed(c)
      PROVE  /\ edit' \in [Edits -> Edit] /\ \A d \in Edits \ {c} : edit'[d] = edit[d]
             /\ edit'[c].at = "crashed"
    BY <1>1, <1>4 DEF Crashed, Edit, EditStep
<1> QED BY <1>2, <1>3, <1>4

\* A step of a call that leaves the breaks and the requests alone.
LEMMA EditingStep ==
    ASSUME WorkIInv, NEW c \in Edits,
           edit' \in [Edits -> Edit], \A d \in Edits \ {c} : edit'[d] = edit[d],
           UNCHANGED <<brk, done, gateVars>>,
           cases \subseteq cases', cases' \subseteq Case,
           trail \subseteq trail', trail' \subseteq Work,
           cache' \subseteq {CacheKey(w) : w \in Work},
           Works(c)',
           edit'[c].at = "ok" => \E w \in trail' : CacheKey(w) = CacheKey(edit'[c].work),
           \A key \in cache' : key \in cache \/ Kept(key)'
    PROVE  WorkIInv'
<1>1. WorkTypeOK'
    BY DEF WorkIInv, WorkTypeOK, gateVars, Gate!TypeOK
<1>2. RowInv'
    BY DEF WorkIInv, RowInv, RowTellsOneStory
<1>3. TakerInv'
    BY DEF WorkIInv, TakerInv, OneTakerPerOpening, Took
<1>4. EditInv'
    <2>1. ASSUME NEW d \in Edits PROVE Works(d)'
        <3>1. CASE d = c
            BY <3>1
        <3>2. CASE d # c
            <4>1. Works(d) /\ edit'[d] = edit[d]
                BY <3>2 DEF WorkIInv, EditInv
            <4> QED BY <4>1 DEF Works
        <3> QED BY <3>1, <3>2
    <2>2. AnsweredIsAudited'
        <3> SUFFICES ASSUME NEW d \in Edits, edit'[d].at = "ok"
                     PROVE  \E w \in trail' : CacheKey(w) = CacheKey(edit'[d].work)
            BY DEF AnsweredIsAudited, CacheKey
        <3>1. CASE d = c
            BY <3>1
        <3>2. CASE d # c
            BY <3>2 DEF WorkIInv, EditInv, AnsweredIsAudited
        <3> QED BY <3>1, <3>2
    <2>3. \A key \in cache' : Kept(key)'
        BY DEF WorkIInv, EditInv, Kept
    <2> QED BY <2>1, <2>2, <2>3 DEF EditInv
<1>5. AskInv'
    BY DEF WorkIInv, AskInv, Asks, Agreed, gateVars
<1>6. SpentInv'
    BY DEF WorkIInv, SpentInv, Reopens, Spent, gateVars
<1> QED BY <1>1, <1>2, <1>3, <1>4, <1>5, <1>6 DEF WorkIInv

LEMMA LookupStep ==
    ASSUME WorkIInv, NEW c \in Edits, NEW w \in Work, Lookup(c, w)
    PROVE  WorkIInv'
<1> DEFINE to == IF CacheKey(w) \in cache THEN "ok" ELSE "missed"
           e == [edit[c] EXCEPT !.work = w, !.at = to]
<1>1. edit[c] \in Edit /\ edit \in [Edits -> Edit] /\ edit[c].at = "idle"
    BY DEF WorkIInv, WorkTypeOK, Lookup
<1>2. to \in EditStep /\ (to = "ok" => CacheKey(w) \in cache) /\ to \in {"ok", "missed"}
    BY DEF EditStep
<1> HIDE DEF to
<1>3. e \in Edit /\ e.at = to /\ e.work = w
    BY <1>1, <1>2 DEF Edit
<1>4. edit' = [edit EXCEPT ![c] = e]
    BY DEF Lookup, to
<1> HIDE DEF e
<1>5. edit' \in [Edits -> Edit] /\ edit'[c] = e /\ \A d \in Edits \ {c} : edit'[d] = edit[d]
    BY <1>1, <1>3, <1>4
<1>6. UNCHANGED <<brk, cases, cache, trail, done, gateVars>>
    BY DEF Lookup
<1>7. Works(c)'
    BY <1>2, <1>3, <1>5 DEF Works
<1>8. edit'[c].at = "ok" => \E v \in trail' : CacheKey(v) = CacheKey(edit'[c].work)
    BY <1>2, <1>3, <1>5, <1>6 DEF WorkIInv, EditInv, Kept
<1> QED BY <1>5, <1>6, <1>7, <1>8, EditingStep DEF WorkIInv, WorkTypeOK

\* The moves that only bring a call further, or to its end.
LEMMA ReadStep ==
    ASSUME WorkIInv, NEW c \in Edits, Read(c) \/ CrashEdit(c)
    PROVE  WorkIInv'
<1>1. UNCHANGED <<brk, cases, cache, trail, done, gateVars>>
    BY DEF Read, CrashEdit
<1>2. WorkTypeOK /\ Works(c)
    BY DEF WorkIInv, EditInv
<1>3. /\ edit' \in [Edits -> Edit] /\ \A d \in Edits \ {c} : edit'[d] = edit[d]
      /\ Works(c)' /\ edit'[c].at # "ok"
    <2>1. CASE EditAt(c, "opening") /\ edit[c].at = "missed"
        BY <1>2, <2>1, EditMoves DEF EditStep, Works
    <2>2. CASE EditAt(c, "writing") /\ edit[c].at = "missed" /\ edit[c].work.op # "escalate"
        BY <1>2, <2>2, EditMoves DEF EditStep, Works
    <2>3. CASE Refused(c) \/ Crashed(c)
        BY <1>2, <2>3, EditMoves DEF Works
    <2> QED BY <2>1, <2>2, <2>3 DEF Read, CrashEdit
<1> QED BY <1>1, <1>2, <1>3, EditingStep DEF WorkTypeOK

LEMMA OpenCaseStep ==
    ASSUME WorkIInv, NEW c \in Edits, OpenCase(c)
    PROVE  WorkIInv'
<1> DEFINE new == [brk |-> edit[c].work.brk, id |-> c]
<1>1. WorkTypeOK /\ edit[c].at = "opening" /\ edit[c].work \in Work
    BY DEF WorkIInv, EditInv, Works, OpenCase
<1>2. cases' = cases \cup {new} /\ UNCHANGED <<brk, cache, trail, done, gateVars>>
    BY DEF OpenCase
<1>3. new \in Case
    BY <1>1 DEF Case, Work
<1>4. /\ edit' \in [Edits -> Edit] /\ \A d \in Edits \ {c} : edit'[d] = edit[d]
      /\ Works(c)' /\ edit'[c].at # "ok"
    <2>1. CASE edit' = [edit EXCEPT ![c].at = "writing", ![c].case = c]
        <3> DEFINE e == [edit[c] EXCEPT !.at = "writing", !.case = c]
        <3>1. /\ e \in Edit /\ e.at = "writing" /\ e.work = edit[c].work /\ e.case = c
              /\ edit \in [Edits -> Edit]
            BY <1>1 DEF WorkTypeOK, Edit, EditStep
        <3>2. edit' = [edit EXCEPT ![c] = e]
            BY <2>1
        <3> HIDE DEF e
        <3>3. edit' \in [Edits -> Edit] /\ \A d \in Edits \ {c} : edit'[d] = edit[d]
            BY <3>1, <3>2
        <3>4. edit'[c].at = "writing" /\ edit'[c].work = edit[c].work /\ edit'[c].case = c
            BY <3>1, <3>2
        <3>5. Works(c)'
            BY <1>1, <1>2, <3>4 DEF Works
        <3> QED BY <3>3, <3>4, <3>5
    <2>2. CASE Crashed(c)
        BY <1>1, <2>2, EditMoves DEF Works
    <2> QED BY <2>1, <2>2 DEF OpenCase
<1> QED BY <1>1, <1>2, <1>3, <1>4, EditingStep DEF WorkTypeOK

LEMMA AuditStep ==
    ASSUME WorkIInv, NEW c \in Edits, Audit(c) \/ Remember(c)
    PROVE  WorkIInv'
<1>1. WorkTypeOK /\ edit[c].work \in Work
    BY DEF WorkIInv, EditInv, Works, Audit, Remember
<1>2. CASE Audit(c)
    <2>1. trail' = trail \cup {edit[c].work} /\ UNCHANGED <<brk, cases, cache, done, gateVars>>
        BY <1>2 DEF Audit
    <2>2. /\ edit' \in [Edits -> Edit] /\ \A d \in Edits \ {c} : edit'[d] = edit[d]
          /\ edit'[c].at = "caching" /\ edit'[c].work = edit[c].work
        BY <1>1, <1>2, EditMoves DEF Audit, EditStep
    <2>3. Works(c)'
        BY <1>1, <2>1, <2>2 DEF Works
    <2> QED BY <1>1, <2>1, <2>2, <2>3, EditingStep DEF WorkTypeOK
<1>3. CASE Remember(c)
    <2> DEFINE key == CacheKey(edit[c].work)
    <2>1. cache' = cache \cup {key} /\ UNCHANGED <<brk, cases, trail, done, gateVars>>
        BY <1>3 DEF Remember
    <2>2. /\ edit' \in [Edits -> Edit] /\ \A d \in Edits \ {c} : edit'[d] = edit[d]
          /\ edit'[c].at = "ok" /\ edit'[c].work = edit[c].work
        BY <1>1, <1>3, EditMoves DEF Remember, EditStep
    <2>3. Works(c)'
        BY <1>1, <2>2 DEF Works
    <2>4. edit[c].work \in trail'
        BY <1>3, <2>1 DEF WorkIInv, EditInv, Works, Remember
    <2>5. \A k \in cache' : k \in cache \/ Kept(k)'
        BY <2>1, <2>4 DEF Kept
    <2>6. \E w \in trail' : CacheKey(w) = CacheKey(edit'[c].work)
        BY <2>2, <2>4
    <2>7. cache' \subseteq {CacheKey(w) : w \in Work}
        BY <1>1, <2>1 DEF WorkTypeOK
    <2> QED BY <1>1, <2>1, <2>2, <2>3, <2>5, <2>6, <2>7, EditingStep DEF WorkTypeOK
<1> QED BY <1>2, <1>3

LEMMA ExpireStep ==
    ASSUME WorkIInv, NEW kept \in cache, Expire(kept)
    PROVE  WorkIInv'
<1>1. cache' \subseteq cache /\ UNCHANGED <<brk, edit, cases, trail, done, gateVars>>
    BY DEF Expire
<1>2. WorkTypeOK'
    BY <1>1 DEF WorkIInv, WorkTypeOK, gateVars, Gate!TypeOK
<1>3. RowInv' /\ TakerInv'
    BY <1>1 DEF WorkIInv, RowInv, RowTellsOneStory, TakerInv, OneTakerPerOpening, Took
<1>4. EditInv'
    BY <1>1 DEF WorkIInv, EditInv, Works, AnsweredIsAudited, Kept
<1>5. AskInv' /\ SpentInv'
    BY <1>1 DEF WorkIInv, AskInv, Asks, Agreed, SpentInv, Reopens, Spent, gateVars
<1> QED BY <1>2, <1>3, <1>4, <1>5 DEF WorkIInv

\* The requests that are through are finitely many.
LEMMA SpentFinite ==
    ASSUME NEW b \in Breaks
    PROVE  /\ IsFiniteSet(Spent(b)) /\ Cardinality(Spent(b)) \in Nat
           /\ IsFiniteSet(Spent(b)') /\ Cardinality(Spent(b)') \in Nat
           /\ \A S \in SUBSET Requests : IsFiniteSet(S) /\ Cardinality(S) \in Nat
<1>1. \A S \in SUBSET Requests : IsFiniteSet(S) /\ Cardinality(S) \in Nat
    BY BreakAssumption, FS_Subset, FS_CardinalityType
<1>2. Spent(b) \in SUBSET Requests /\ Spent(b)' \in SUBSET Requests
    BY DEF Spent
<1> QED BY <1>1, <1>2

LEMMA RaiseStep ==
    ASSUME WorkIInv, NEW b \in Breaks, Raise(b)
    PROVE  WorkIInv'
<1> DEFINE new == [NoBreak EXCEPT !.status = "flagged", !.clock = TRUE]
<1>1. /\ new \in BreakRow /\ new.status = "flagged" /\ new.assigned_to = Null
      /\ new.outcome = Null /\ new.reopened = 0
    BY DEF NoBreak, BreakRow, Open
<1>2. /\ brk[b].status = "absent" /\ brk' = [brk EXCEPT ![b] = new]
      /\ UNCHANGED <<edit, cases, cache, trail, done, entry, winner, ask>>
    BY DEF Raise, gateVars
<1> HIDE DEF new
<1>3. /\ brk \in [Breaks -> BreakRow] /\ brk' \in [Breaks -> BreakRow]
      /\ brk'[b] = new /\ \A d \in Breaks \ {b} : brk'[d] = brk[d]
    BY <1>1, <1>2 DEF WorkIInv, WorkTypeOK
<1>4. WorkTypeOK'
    BY <1>2, <1>3 DEF WorkIInv, WorkTypeOK, Gate!TypeOK
<1>5. RowInv'
    <2>1. ASSUME NEW d \in Breaks \ {b}
          PROVE  /\ brk'[d].status = "assigned" => brk'[d].assigned_to # Null /\ brk'[d].clock
                 /\ brk'[d].status = "flagged" => brk'[d].assigned_to = Null
                 /\ brk'[d].outcome = IF brk'[d].status \in ResolveOutcomes
                                      THEN brk'[d].status ELSE Null
                 /\ brk'[d].status = "escalated_nebras_dispute" =>
                       [brk |-> d, id |-> brk'[d].case] \in cases'
        BY <1>2, <1>3 DEF WorkIInv, RowInv, RowTellsOneStory
    <2>2. "flagged" \notin ResolveOutcomes
        BY DEF ResolveOutcomes
    <2> QED BY <1>1, <1>3, <2>1, <2>2 DEF RowInv, RowTellsOneStory
<1>6. TakerInv'
    <2>1. ASSUME NEW x \in done PROVE Took(x)'
        <3>1. Took(x) /\ x.brk \in Breaks
            BY DEF WorkIInv, TakerInv, WorkTypeOK, Update
        <3>2. x.brk # b
            BY <1>2, <3>1 DEF Took
        <3> QED BY <1>3, <3>1, <3>2 DEF Took
    <2> QED BY <1>2, <2>1 DEF WorkIInv, TakerInv, OneTakerPerOpening
<1>7. EditInv'
    BY <1>2 DEF WorkIInv, EditInv, Works, AnsweredIsAudited, Kept
<1>8. AskInv'
    BY <1>2 DEF WorkIInv, AskInv, Asks, Agreed
<1>9. SpentInv'
    <2> SUFFICES ASSUME NEW d \in Breaks PROVE Reopens(d)'
        BY DEF SpentInv
    <2>1. Spent(d)' = Spent(d)
        BY <1>2 DEF Spent
    <2>2. CASE d = b
        BY <1>1, <1>3, <2>2, SpentFinite DEF Reopens
    <2>3. CASE d # b
        BY <1>3, <2>1, <2>3 DEF WorkIInv, SpentInv, Reopens
    <2> QED BY <2>2, <2>3
<1> QED BY <1>4, <1>5, <1>6, <1>7, <1>8, <1>9 DEF WorkIInv

\* What a guarded UPDATE makes of a row: what it asked for, told as one story.
LEMMA UpdatedRow ==
    ASSUME NEW row \in BreakRow, NEW w \in Work, NEW case \in Edits \cup {Null},
           row.status \in Workable(w.op),
           row.outcome = IF row.status \in ResolveOutcomes THEN row.status ELSE Null
    PROVE  LET new == Updated(row, w, case)
           IN  /\ new \in BreakRow /\ new.reopened = row.reopened /\ new.status # "flagged"
               /\ IF w.op = "claim" THEN new.status = "assigned" ELSE new.status \in Terminal
               /\ new.status = "assigned" => new.assigned_to # Null /\ new.clock
               /\ new.outcome = IF new.status \in ResolveOutcomes THEN new.status ELSE Null
               /\ new.status = "escalated_nebras_dispute" =>
                      w.op = "escalate" /\ new.case = case
               /\ w.op # "claim" => new.assigned_to = row.assigned_to
<1>1. row.outcome = Null /\ w.who \in People /\ w.who # Null
    BY BreakAssumption DEF Workable, Open, ResolveOutcomes, Work
<1>2. CASE w.op = "claim"
    BY <1>1, <1>2 DEF Updated, BreakRow, Open, ResolveOutcomes, Terminal
<1>3. CASE w.op = "escalate"
    BY <1>1, <1>3 DEF Updated, BreakRow, Open, ResolveOutcomes, Terminal
<1>4. CASE w.op \in ResolveOutcomes
    <2> DEFINE new == [row EXCEPT !.status = w.op, !.outcome = w.op]
    <2>1. w.op # "claim" /\ w.op # "escalate" /\ w.op \in Terminal /\ w.op # "flagged"
              /\ w.op # "assigned" /\ w.op # "escalated_nebras_dispute"
        BY <1>4 DEF ResolveOutcomes, Terminal
    <2>2. Updated(row, w, case) = new
        BY <1>4, <2>1 DEF Updated
    <2>3. new \in BreakRow /\ new.status = w.op /\ new.outcome = w.op
              /\ new.reopened = row.reopened /\ new.assigned_to = row.assigned_to
        BY <1>4, <2>1 DEF BreakRow
    <2> HIDE DEF new
    <2> QED BY <1>4, <2>1, <2>2, <2>3
<1> QED BY <1>2, <1>3, <1>4 DEF Work, Ops

LEMMA WriteStep ==
    ASSUME WorkIInv, NEW c \in Edits, Write(c)
    PROVE  WorkIInv'
<1> DEFINE w == edit[c].work
           b == w.brk
           case == edit[c].case
           new == Updated(brk[b], w, case)
           x == [edit |-> c, op |-> w.op, brk |-> b, opening |-> brk[b].reopened]
<1>1. /\ WorkTypeOK /\ edit[c].at = "writing" /\ w \in Work /\ b \in Breaks
      /\ case \in Edits \cup {Null} /\ brk[b] \in BreakRow
      /\ w.op = "escalate" => [brk |-> b, id |-> case] \in cases
      /\ UNCHANGED <<cases, cache, trail, entry, winner, ask>>
    BY DEF WorkIInv, WorkTypeOK, EditInv, Works, Write, Work, Edit, gateVars
<1>2. CASE brk[b].status \notin Workable(w.op)
    <2>1. Refused(c) /\ UNCHANGED <<brk, done>>
        BY <1>2 DEF Write
    <2>2. /\ edit' \in [Edits -> Edit] /\ \A d \in Edits \ {c} : edit'[d] = edit[d]
          /\ edit'[c].at = "refused"
        BY <1>1, <2>1, EditMoves
    <2> QED BY <1>1, <2>1, <2>2, EditingStep DEF WorkTypeOK, Works, gateVars
<1>3. CASE brk[b].status \in Workable(w.op)
    <2>1. /\ brk' = [brk EXCEPT ![b] = new] /\ done' = done \cup {x} /\ EditAt(c, "audit")
        BY <1>3 DEF Write
    <2>2. brk[b].outcome = IF brk[b].status \in ResolveOutcomes THEN brk[b].status ELSE Null
        BY <1>1 DEF WorkIInv, RowInv, RowTellsOneStory
    <2>3. /\ new \in BreakRow /\ new.reopened = brk[b].reopened /\ new.status # "flagged"
          /\ IF w.op = "claim" THEN new.status = "assigned" ELSE new.status \in Terminal
          /\ new.status = "assigned" => new.assigned_to # Null /\ new.clock
          /\ new.outcome = IF new.status \in ResolveOutcomes THEN new.status ELSE Null
          /\ new.status = "escalated_nebras_dispute" => w.op = "escalate" /\ new.case = case
        BY <1>1, <1>3, <2>2, UpdatedRow
    <2>4. /\ x \in Update /\ x.brk = b /\ x.opening = brk[b].reopened /\ x.op = w.op
        BY <1>1 DEF Update, Work, BreakRow
    <2> HIDE DEF new, x
    <2>5. /\ brk' \in [Breaks -> BreakRow] /\ brk'[b] = new
          /\ \A d \in Breaks \ {b} : brk'[d] = brk[d]
        BY <1>1, <2>1, <2>3 DEF WorkTypeOK
    <2>6. /\ edit' \in [Edits -> Edit] /\ \A d \in Edits \ {c} : edit'[d] = edit[d]
          /\ edit'[c].at = "audit" /\ edit'[c].work = w
        BY <1>1, <2>1, EditMoves DEF EditStep
    <2>7. WorkTypeOK'
        BY <1>1, <2>1, <2>4, <2>5, <2>6 DEF WorkTypeOK, Gate!TypeOK
    <2>8. RowInv'
        <3>1. ASSUME NEW d \in Breaks \ {b}
              PROVE  /\ brk'[d].status = "assigned" => brk'[d].assigned_to # Null /\ brk'[d].clock
                     /\ brk'[d].status = "flagged" => brk'[d].assigned_to = Null
                     /\ brk'[d].outcome = IF brk'[d].status \in ResolveOutcomes
                                          THEN brk'[d].status ELSE Null
                     /\ brk'[d].status = "escalated_nebras_dispute" =>
                           [brk |-> d, id |-> brk'[d].case] \in cases'
            BY <1>1, <2>5 DEF WorkIInv, RowInv, RowTellsOneStory
        <3>2. new.status = "escalated_nebras_dispute" => [brk |-> b, id |-> new.case] \in cases'
            BY <1>1, <2>3
        <3> QED BY <1>1, <2>3, <2>5, <3>1, <3>2 DEF RowInv, RowTellsOneStory
    <2>9. TakerInv'
        <3>1. ASSUME NEW y \in done PROVE Took(y)'
            <4>1. Took(y) /\ y.brk \in Breaks
                BY <1>1 DEF WorkIInv, TakerInv, WorkTypeOK, Update
            <4>2. CASE y.brk = b
                <5>1. brk[b].status \in Open /\ brk[b].status \notin Terminal
                    BY <1>3 DEF Workable, Open, Terminal, ResolveOutcomes
                <5>2. brk'[y.brk].status # "absent" /\ brk'[y.brk].reopened = brk[y.brk].reopened
                          /\ brk'[y.brk].status # "flagged"
                    BY <2>3, <2>5, <4>2 DEF Terminal, ResolveOutcomes
                <5>3. y.opening = brk[b].reopened => y.op = "claim"
                    BY <4>1, <4>2, <5>1 DEF Took
                <5> QED BY <4>1, <4>2, <5>2, <5>3 DEF Took
            <4>3. CASE y.brk # b
                BY <2>5, <4>1, <4>3 DEF Took
            <4> QED BY <4>2, <4>3
        <3>2. ASSUME NEW y, y = x PROVE Took(y)'
            <4>1. /\ brk'[y.brk] = new /\ y.opening = new.reopened /\ new.reopened \in Nat
                  /\ y.op = w.op /\ new.status # "absent"
                BY <2>3, <2>4, <2>5, <3>2 DEF BreakRow, Terminal, ResolveOutcomes
            <4> QED BY <2>3, <4>1 DEF Took
        <3>3. ASSUME NEW y \in done, y.brk = b, y.opening = x.opening
              PROVE  ~((y.op = "claim") <=> (x.op = "claim"))
            <4>1. Took(y)
                BY DEF WorkIInv, TakerInv
            <4> QED BY <1>3, <2>4, <3>3, <4>1 DEF Took, Workable, Open, Terminal, ResolveOutcomes
        <3>4. OneTakerPerOpening'
            BY <2>1, <2>4, <3>3 DEF WorkIInv, TakerInv, OneTakerPerOpening
        <3>5. \A y \in done' : Took(y)'
            BY <2>1, <3>1, <3>2
        <3> QED BY <3>4, <3>5 DEF TakerInv
    <2>10. EditInv'
        <3>1. ASSUME NEW d \in Edits PROVE Works(d)'
            <4>1. CASE d = c
                BY <1>1, <2>6, <4>1 DEF Works
            <4>2. CASE d # c
                BY <1>1, <2>6, <4>2 DEF WorkIInv, EditInv, Works
            <4> QED BY <4>1, <4>2
        <3>2. AnsweredIsAudited'
            <4> SUFFICES ASSUME NEW d \in Edits, edit'[d].at = "ok"
                         PROVE  \E v \in trail' : CacheKey(v) = CacheKey(edit'[d].work)
                BY DEF AnsweredIsAudited, CacheKey
            <4>1. d # c /\ edit'[d] = edit[d]
                BY <2>6
            <4> QED BY <1>1, <4>1 DEF WorkIInv, EditInv, AnsweredIsAudited
        <3> QED BY <1>1, <3>1, <3>2 DEF WorkIInv, EditInv, Kept
    <2>11. AskInv'
        BY <1>1 DEF WorkIInv, AskInv, Asks, Agreed
    <2>12. SpentInv'
        <3> SUFFICES ASSUME NEW d \in Breaks PROVE Reopens(d)'
            BY DEF SpentInv
        <3>1. Spent(d)' = Spent(d) /\ brk'[d].reopened = brk[d].reopened
            BY <1>1, <2>3, <2>5 DEF Spent
        <3> QED BY <3>1 DEF WorkIInv, SpentInv, Reopens
    <2> QED BY <2>7, <2>8, <2>9, <2>10, <2>11, <2>12 DEF WorkIInv
<1> QED BY <1>2, <1>3

\* SetAsk moves one request.
LEMMA AskMoves ==
    ASSUME WorkTypeOK, NEW r \in Requests,
           NEW step \in {"none", "pending", "granted", "done", "over"},
           NEW b \in Breaks \cup {Null}, SetAsk(r, step, b)
    PROVE  /\ ask' \in [Requests -> Ask] /\ ask'[r].at = step /\ ask'[r].brk = b
           /\ \A q \in Requests \ {r} : ask'[q] = ask[q]
<1>1. ask' = [ask EXCEPT ![r] = [at |-> step, brk |-> b]] /\ ask \in [Requests -> Ask]
    BY DEF SetAsk, WorkTypeOK
<1>2. [at |-> step, brk |-> b] \in Ask
    BY DEF Ask
<1> QED BY <1>1, <1>2

\* A step of a request that leaves the breaks alone.
LEMMA AskingStep ==
    ASSUME WorkIInv, NEW r \in Requests,
           UNCHANGED <<brk, edit, cases, cache, trail, done>>,
           Gate!TypeOK', ask' \in [Requests -> Ask],
           \A q \in Requests \ {r} :
               entry'[q] = entry[q] /\ winner'[q] = winner[q] /\ ask'[q] = ask[q],
           Asks(r)',
           ask[r].at \in {"done", "over"} =>
               ask'[r].at \in {"done", "over"} /\ ask'[r].brk = ask[r].brk
    PROVE  WorkIInv'
<1>1. WorkTypeOK'
    BY DEF WorkIInv, WorkTypeOK
<1>2. RowInv' /\ TakerInv'
    BY DEF WorkIInv, RowInv, RowTellsOneStory, TakerInv, OneTakerPerOpening, Took
<1>3. EditInv'
    BY DEF WorkIInv, EditInv, Works, AnsweredIsAudited, Kept
<1>4. AskInv'
    <2> SUFFICES ASSUME NEW q \in Requests PROVE Asks(q)'
        BY DEF AskInv
    <2>1. CASE q = r
        BY <2>1
    <2>2. CASE q # r
        BY <2>2 DEF WorkIInv, AskInv, Asks, Agreed
    <2> QED BY <2>1, <2>2
<1>5. SpentInv'
    <2> SUFFICES ASSUME NEW b \in Breaks PROVE Reopens(b)'
        BY DEF SpentInv
    <2>1. Spent(b) \subseteq Spent(b)'
        BY DEF Spent
    <2>2. Cardinality(Spent(b)) <= Cardinality(Spent(b)')
        BY <2>1, SpentFinite, FS_Subset
    <2>3. Reopens(b) /\ brk'[b].reopened = brk[b].reopened /\ brk[b].reopened \in Nat
        BY DEF WorkIInv, SpentInv, WorkTypeOK, BreakRow
    <2> QED BY <2>2, <2>3, SpentFinite DEF Reopens
<1> QED BY <1>1, <1>2, <1>3, <1>4, <1>5 DEF WorkIInv

LEMMA AskReopenStep ==
    ASSUME WorkIInv, NEW r \in Requests, NEW p \in People, NEW b \in Breaks, AskReopen(r, p, b)
    PROVE  WorkIInv'
<1>1. WorkTypeOK /\ Gate!TypeOK /\ UNCHANGED <<brk, edit, cases, cache, trail, done>>
    BY DEF WorkIInv, WorkTypeOK, AskReopen
<1>2. /\ ask' \in [Requests -> Ask] /\ ask'[r].at = "pending" /\ ask'[r].brk = b
      /\ \A q \in Requests \ {r} : ask'[q] = ask[q]
    BY <1>1, AskMoves DEF AskReopen
<1>3. /\ Gate!TypeOK' /\ winner' = winner /\ entry'[r].state = "pending"
      /\ \A q \in Requests \ {r} : entry'[q] = entry[q]
    BY <1>1, Gate!Creates DEF AskReopen
<1>4. Asks(r)' /\ ask[r].at = "none"
    BY <1>2, <1>3 DEF Asks, AskReopen
<1> QED BY <1>1, <1>2, <1>3, <1>4, AskingStep

LEMMA GrantStep ==
    ASSUME WorkIInv, NEW r \in Requests, NEW p \in People, Grant(r, p)
    PROVE  WorkIInv'
<1>1. WorkTypeOK /\ Gate!TypeOK /\ UNCHANGED <<brk, edit, cases, cache, trail, done>> /\ Asks(r)
    BY DEF WorkIInv, WorkTypeOK, AskInv, Grant
<1>2. /\ Gate!TypeOK' /\ winner'[r] = p /\ p # entry[r].initiator
      /\ entry[r].state = "pending" /\ entry'[r].state = "approved"
      /\ entry'[r].initiator = entry[r].initiator
      /\ \A q \in Requests \ {r} : entry'[q] = entry[q] /\ winner'[q] = winner[q]
    BY <1>1, Gate!Grants DEF Grant
<1>3. ask[r].at = "pending" /\ ask[r].brk \in Breaks
    BY <1>1, <1>2 DEF Asks
<1>4. /\ ask' \in [Requests -> Ask] /\ ask'[r].at = "granted" /\ ask'[r].brk = ask[r].brk
      /\ \A q \in Requests \ {r} : ask'[q] = ask[q]
    BY <1>1, <1>3, AskMoves DEF Grant
<1>5. Asks(r)'
    BY <1>2, <1>3, <1>4, BreakAssumption DEF Asks, Agreed
<1> QED BY <1>1, <1>2, <1>3, <1>4, <1>5, AskingStep

\* The late writers of the row: they leave the winner, and no row pending.
LEMMA RefuseStep ==
    ASSUME WorkIInv, NEW r \in Requests, Refuse(r) \/ PersistApproval(r)
    PROVE  WorkIInv'
<1>1. WorkTypeOK /\ Gate!TypeOK /\ UNCHANGED <<brk, edit, cases, cache, trail, done>> /\ Asks(r)
    BY DEF WorkIInv, WorkTypeOK, AskInv, Refuse, PersistApproval
<1>2. Gate!TimeOut(r) \/ Gate!Persist(r) \/ \E p \in People : Gate!Reject(r, p)
    BY DEF Refuse, PersistApproval
<1>3. /\ Gate!TypeOK' /\ winner' = winner
      /\ entry'[r].state \in {"approved", "rejected", "timed_out"}
      /\ entry'[r].initiator = entry[r].initiator
      /\ \A q \in Requests \ {r} : entry'[q] = entry[q]
    BY <1>1, <1>2, Gate!Writes
<1>4. CASE Refuse(r)
    <2>1. ask' = ask /\ entry[r].state # "none"
        BY <1>4 DEF Refuse, Gate!TimeOut, Gate!Reject
    <2>2. Asks(r)'
        BY <1>1, <1>3, <2>1 DEF Asks, Agreed
    <2> QED BY <1>1, <1>3, <2>1, <2>2, AskingStep DEF WorkTypeOK
<1>5. CASE PersistApproval(r)
    <2>1. ask[r].at = "done" /\ ask[r].brk \in Breaks
        BY <1>1, <1>5 DEF PersistApproval, Asks
    <2>2. /\ ask' \in [Requests -> Ask] /\ ask'[r].at = "over" /\ ask'[r].brk = ask[r].brk
          /\ \A q \in Requests \ {r} : ask'[q] = ask[q]
        BY <1>1, <1>5, <2>1, AskMoves DEF PersistApproval
    <2>3. Asks(r)'
        BY <1>1, <1>3, <2>1, <2>2 DEF Asks, Agreed
    <2> QED BY <1>1, <1>3, <2>1, <2>2, <2>3, AskingStep
<1> QED BY <1>4, <1>5

LEMMA CrashReopenStep ==
    ASSUME WorkIInv, NEW r \in Requests, CrashReopen(r)
    PROVE  WorkIInv'
<1>1. /\ WorkTypeOK /\ Gate!TypeOK /\ Asks(r)
      /\ UNCHANGED <<brk, edit, cases, cache, trail, done, entry, winner>>
      /\ ask[r].at \in {"granted", "done"}
    BY DEF WorkIInv, WorkTypeOK, AskInv, CrashReopen
<1>2. ask[r].brk \in Breaks
    BY <1>1 DEF Asks
<1>3. /\ ask' \in [Requests -> Ask] /\ ask'[r].at = "over" /\ ask'[r].brk = ask[r].brk
      /\ \A q \in Requests \ {r} : ask'[q] = ask[q]
    BY <1>1, <1>2, AskMoves DEF CrashReopen
<1>4. Asks(r)' /\ Gate!TypeOK'
    BY <1>1, <1>2, <1>3 DEF Asks, Agreed, Gate!TypeOK
<1> QED BY <1>1, <1>3, <1>4, AskingStep

\* What reopen's UPDATE makes of a row.
LEMMA ReopenedRow ==
    ASSUME NEW row \in BreakRow
    PROVE  /\ Reopened(row) \in BreakRow /\ Reopened(row).status = "flagged"
           /\ Reopened(row).assigned_to = Null /\ Reopened(row).outcome = Null
           /\ Reopened(row).reopened = row.reopened + 1 /\ row.reopened \in Nat
<1>1. row.reopened \in Nat /\ row.reopened + 1 \in Nat
    BY DEF BreakRow
<1>2. /\ Reopened(row) \in BreakRow /\ Reopened(row).status = "flagged"
      /\ Reopened(row).assigned_to = Null /\ Reopened(row).outcome = Null
      /\ Reopened(row).reopened = row.reopened + 1
    BY <1>1 DEF Reopened, BreakRow, Open
<1> QED BY <1>1, <1>2

\* The operation: the break begins a new opening, for which this request is spent.
LEMMA ReopenOpStep ==
    ASSUME WorkIInv, NEW r \in Requests, Reopen(r)
    PROVE  WorkIInv'
<1> DEFINE b == ask[r].brk
           new == Reopened(brk[b])
<1>1. /\ WorkTypeOK /\ Gate!TypeOK /\ Asks(r) /\ ask[r].at = "granted"
      /\ UNCHANGED <<edit, cases, cache, trail, done, entry, winner>>
    BY DEF WorkIInv, WorkTypeOK, AskInv, Reopen
<1>2. b \in Breaks /\ brk[b] \in BreakRow
    BY <1>1 DEF Asks, WorkTypeOK
<1>3. /\ ask' \in [Requests -> Ask] /\ ask'[r].at = "done" /\ ask'[r].brk = b
      /\ \A q \in Requests \ {r} : ask'[q] = ask[q]
    BY <1>1, <1>2, AskMoves DEF Reopen
<1>4. Asks(r)' /\ Gate!TypeOK'
    BY <1>1, <1>2, <1>3 DEF Asks, Agreed, Gate!TypeOK
<1>5. CASE brk[b].status \notin Terminal
    <2>1. brk' = brk
        BY <1>5 DEF Reopen
    <2> QED BY <1>1, <1>3, <1>4, <2>1, AskingStep
<1>6. CASE brk[b].status \in Terminal
    <2>1. brk' = [brk EXCEPT ![b] = new]
        BY <1>6 DEF Reopen
    <2>2. /\ new \in BreakRow /\ new.status = "flagged" /\ new.assigned_to = Null
          /\ new.outcome = Null /\ new.reopened = brk[b].reopened + 1 /\ brk[b].reopened \in Nat
        BY <1>2, ReopenedRow
    <2> HIDE DEF new
    <2>3. /\ brk' \in [Breaks -> BreakRow] /\ brk'[b] = new
          /\ \A d \in Breaks \ {b} : brk'[d] = brk[d]
        BY <1>1, <1>2, <2>1, <2>2 DEF WorkTypeOK
    <2>4. WorkTypeOK'
        BY <1>1, <1>3, <1>4, <2>3 DEF WorkTypeOK
    <2>5. RowInv'
        <3>1. ASSUME NEW d \in Breaks \ {b}
              PROVE  /\ brk'[d].status = "assigned" => brk'[d].assigned_to # Null /\ brk'[d].clock
                     /\ brk'[d].status = "flagged" => brk'[d].assigned_to = Null
                     /\ brk'[d].outcome = IF brk'[d].status \in ResolveOutcomes
                                          THEN brk'[d].status ELSE Null
                     /\ brk'[d].status = "escalated_nebras_dispute" =>
                           [brk |-> d, id |-> brk'[d].case] \in cases'
            BY <1>1, <2>3 DEF WorkIInv, RowInv, RowTellsOneStory
        <3>2. "flagged" \notin ResolveOutcomes
            BY DEF ResolveOutcomes
        <3> QED BY <2>2, <2>3, <3>1, <3>2 DEF RowInv, RowTellsOneStory
    <2>6. TakerInv'
        <3>1. ASSUME NEW x \in done PROVE Took(x)'
            <4>1. Took(x) /\ x.brk \in Breaks /\ x.opening \in Nat
                BY <1>1 DEF WorkIInv, TakerInv, WorkTypeOK, Update
            <4>2. CASE x.brk = b
                <5>1. x.opening <= brk[b].reopened
                    BY <4>1, <4>2 DEF Took
                <5>2. brk'[x.brk].status = "flagged" /\ brk'[x.brk].reopened = brk[b].reopened + 1
                    BY <2>2, <2>3, <4>2
                <5> QED BY <2>2, <4>1, <5>1, <5>2 DEF Took
            <4>3. CASE x.brk # b
                BY <2>3, <4>1, <4>3 DEF Took
            <4> QED BY <4>2, <4>3
        <3> QED BY <1>1, <3>1 DEF WorkIInv, TakerInv, OneTakerPerOpening
    <2>7. EditInv'
        BY <1>1 DEF WorkIInv, EditInv, Works, AnsweredIsAudited, Kept
    <2>8. AskInv'
        <3> SUFFICES ASSUME NEW q \in Requests PROVE Asks(q)'
            BY DEF AskInv
        <3>1. CASE q = r
            BY <1>4, <3>1
        <3>2. CASE q # r
            BY <1>1, <1>3, <3>2 DEF WorkIInv, AskInv, Asks, Agreed
        <3> QED BY <3>1, <3>2
    <2>9. SpentInv'
        <3> SUFFICES ASSUME NEW d \in Breaks PROVE Reopens(d)'
            BY DEF SpentInv
        <3>1. Reopens(d) /\ brk[d].reopened \in Nat
            BY <1>1 DEF WorkIInv, SpentInv, WorkTypeOK, BreakRow
        <3>2. CASE d = b
            <4>1. r \notin Spent(d) /\ Spent(d) \cup {r} \subseteq Spent(d)'
                BY <1>1, <1>3, <3>2 DEF Spent
            <4>2. Cardinality(Spent(d) \cup {r}) = Cardinality(Spent(d)) + 1
                BY <4>1, SpentFinite, FS_AddElement
            <4>3. Cardinality(Spent(d) \cup {r}) <= Cardinality(Spent(d)')
                BY <4>1, SpentFinite, FS_Subset
            <4>4. brk'[d].reopened = brk[d].reopened + 1
                BY <2>2, <2>3, <3>2
            <4> QED BY <3>1, <4>2, <4>3, <4>4, SpentFinite DEF Reopens
        <3>3. CASE d # b
            <4>1. Spent(d)' = Spent(d) /\ brk'[d] = brk[d]
                BY <1>1, <1>3, <2>3, <3>3 DEF Spent
            <4> QED BY <3>1, <4>1 DEF Reopens
        <3> QED BY <3>2, <3>3
    <2> QED BY <2>4, <2>5, <2>6, <2>7, <2>8, <2>9 DEF WorkIInv
<1> QED BY <1>5, <1>6

-----------------------------------------------------------------------------
(* The theorems about working a break. *)

LEMMA WorkNextIInv == WorkIInv /\ [WorkNext]_workVars => WorkIInv'
<1> SUFFICES ASSUME WorkIInv, [WorkNext]_workVars PROVE WorkIInv'
    OBVIOUS
<1>1. CASE UNCHANGED workVars
    <2>1. WorkTypeOK'
        BY <1>1 DEF WorkIInv, WorkTypeOK, workVars, gateVars, Gate!TypeOK
    <2>2. RowInv' /\ TakerInv'
        BY <1>1 DEF WorkIInv, RowInv, RowTellsOneStory, TakerInv, OneTakerPerOpening, Took, workVars
    <2>3. EditInv'
        BY <1>1 DEF WorkIInv, EditInv, Works, AnsweredIsAudited, Kept, workVars
    <2>4. AskInv' /\ SpentInv'
        BY <1>1 DEF WorkIInv, AskInv, Asks, Agreed, SpentInv, Reopens, Spent, workVars, gateVars
    <2> QED BY <2>1, <2>2, <2>3, <2>4 DEF WorkIInv
<1>2. ASSUME NEW b \in Breaks, Raise(b) PROVE WorkIInv'
    BY <1>2, RaiseStep
<1>3. ASSUME NEW c \in Edits, Handle(c) PROVE WorkIInv'
    BY <1>3, LookupStep, ReadStep, OpenCaseStep, WriteStep, AuditStep DEF Handle
<1>4. ASSUME NEW kept \in cache, Expire(kept) PROVE WorkIInv'
    BY <1>4, ExpireStep
<1>5. ASSUME NEW r \in Requests, ReopenStep(r) PROVE WorkIInv'
    BY <1>5, AskReopenStep, GrantStep, RefuseStep, ReopenOpStep, CrashReopenStep DEF ReopenStep
<1> QED BY <1>1, <1>2, <1>3, <1>4, <1>5 DEF WorkNext

LEMMA WorkInvariance == WorkSpec => []WorkIInv
BY WorkInitIInv, WorkNextIInv, PTL DEF WorkSpec

\* Type correctness of the workflow of a break: BreakWorkflow, over
\* reconciliation-break-store.ts and service.ts.
THEOREM WorkTypeCorrectness == WorkSpec => []WorkTypeOK
<1>1. WorkIInv => WorkTypeOK
    BY DEF WorkIInv
<1> QED BY WorkInvariance, <1>1, PTL

\* However claims, resolutions, escalations and reopens overlap, the columns
\* that claimBreak, resolveBreak, escalateToNebras and reopen each write a part
\* of tell one story.
THEOREM RowsTellOneStory == WorkSpec => []RowTellsOneStory
<1>1. WorkIInv => RowTellsOneStory
    BY DEF WorkIInv, RowInv
<1> QED BY WorkInvariance, <1>1, PTL

\* Of any number of calls that work on a break between two of its reopens, one
\* claims it and one ends it at most: the guarded UPDATEs of the store suffice,
\* although each call reads the break long before.
THEOREM OneTookEachOpening == WorkSpec => []OneTakerPerOpening
<1>1. WorkIInv => OneTakerPerOpening
    BY DEF WorkIInv, TakerInv
<1> QED BY WorkInvariance, <1>1, PTL

\* A break is reopened at most as often as pairs of people agreed to it: the
\* operation behind POST /approvals runs once for a request.
THEOREM ReopensWereGranted == WorkSpec => []ReopensAreGranted
<1>1. ASSUME WorkIInv, NEW b \in Breaks
      PROVE  brk[b].reopened <=
                 Cardinality({r \in Requests : ask[r].brk = b /\ winner[r] # Null
                                               /\ winner[r] # entry[r].initiator})
    <2> DEFINE G == {r \in Requests : ask[r].brk = b /\ winner[r] # Null
                                      /\ winner[r] # entry[r].initiator}
    <2>1. Spent(b) \subseteq G
        BY <1>1 DEF WorkIInv, AskInv, Asks, Agreed, Spent
    <2>2. G \in SUBSET Requests
        OBVIOUS
    <2>3. brk[b].reopened <= Cardinality(Spent(b)) /\ brk[b].reopened \in Nat
        BY <1>1 DEF WorkIInv, SpentInv, Reopens, WorkTypeOK, BreakRow
    <2> HIDE DEF G
    <2>4. Cardinality(Spent(b)) <= Cardinality(G)
        BY <2>1, <2>2, SpentFinite, FS_Subset
    <2>5. brk[b].reopened <= Cardinality(G)
        BY <2>2, <2>3, <2>4, SpentFinite
    <2> QED BY <2>5 DEF G
<1>2. WorkIInv => ReopensAreGranted
    BY <1>1 DEF ReopensAreGranted
<1> QED BY WorkInvariance, <1>2, PTL

\* A call that is answered with success, by its own work or from the cache of
\* Idempotency-Keys, has an event on the audit trail.
THEOREM AnsweredWasAudited == WorkSpec => []AnsweredIsAudited
<1>1. WorkIInv => AnsweredIsAudited
    BY DEF WorkIInv, EditInv
<1> QED BY WorkInvariance, <1>1, PTL

\* What a step may do to a row: raise it, work it while it is open, or reopen
\* it from an end.
LEMMA RowMoves ==
    ASSUME WorkIInv, [WorkNext]_workVars, NEW b \in Breaks, brk'[b] # brk[b]
    PROVE  /\ \/ brk[b].status = "absent" /\ brk'[b].status = "flagged"
              \/ /\ brk[b].status = "flagged" /\ brk'[b].status = "assigned"
              \/ /\ brk[b].status \in Open /\ brk'[b].status \in Terminal
                 /\ brk'[b].assigned_to = brk[b].assigned_to
              \/ brk[b].status \in Terminal /\ brk'[b].status = "flagged"
           /\ \A d \in Breaks \ {b} : brk'[d] = brk[d]
           /\ brk' \in [Breaks -> BreakRow]
<1>1. WorkTypeOK /\ brk \in [Breaks -> BreakRow] /\ WorkIInv'
    BY WorkNextIInv DEF WorkIInv, WorkTypeOK
<1>2. brk' \in [Breaks -> BreakRow]
    BY <1>1 DEF WorkIInv, WorkTypeOK
<1>3. ASSUME NEW d \in Breaks, Raise(d)
      PROVE  /\ b = d /\ brk[b].status = "absent" /\ brk'[b].status = "flagged"
             /\ \A e \in Breaks \ {b} : brk'[e] = brk[e]
    BY <1>1, <1>3 DEF Raise, NoBreak
<1>4. ASSUME NEW c \in Edits, Handle(c)
      PROVE  /\ \/ brk[b].status = "flagged" /\ brk'[b].status = "assigned"
                \/ /\ brk[b].status \in Open /\ brk'[b].status \in Terminal
                   /\ brk'[b].assigned_to = brk[b].assigned_to
             /\ \A e \in Breaks \ {b} : brk'[e] = brk[e]
    <2> DEFINE w == edit[c].work
               new == Updated(brk[w.brk], w, edit[c].case)
    <2>1. Write(c) /\ brk[w.brk].status \in Workable(w.op)
        BY <1>4 DEF Handle, Lookup, Read, OpenCase, Write, Audit, Remember, CrashEdit
    <2>2. w \in Work /\ w.brk \in Breaks /\ edit[c].case \in Edits \cup {Null}
        BY <1>1, <2>1 DEF WorkIInv, WorkTypeOK, EditInv, Works, Write, Work, Edit
    <2>3. brk' = [brk EXCEPT ![w.brk] = new]
        BY <2>1 DEF Write
    <2>4. brk[w.brk].outcome =
              IF brk[w.brk].status \in ResolveOutcomes THEN brk[w.brk].status ELSE Null
        BY <2>2 DEF WorkIInv, RowInv, RowTellsOneStory
    <2>5. /\ IF w.op = "claim" THEN new.status = "assigned" ELSE new.status \in Terminal
          /\ w.op # "claim" => new.assigned_to = brk[w.brk].assigned_to
        BY <1>1, <2>1, <2>2, <2>4, UpdatedRow
    <2> HIDE DEF new
    <2>6. w.brk = b /\ brk'[b] = new /\ \A e \in Breaks \ {b} : brk'[e] = brk[e]
        BY <1>1, <2>2, <2>3
    <2> QED BY <2>1, <2>5, <2>6 DEF Workable
<1>5. ASSUME NEW r \in Requests, ReopenStep(r)
      PROVE  /\ brk[b].status \in Terminal /\ brk'[b].status = "flagged"
             /\ \A e \in Breaks \ {b} : brk'[e] = brk[e]
    <2>1. /\ brk[ask[r].brk].status \in Terminal
          /\ brk' = [brk EXCEPT ![ask[r].brk] = Reopened(brk[ask[r].brk])]
        BY <1>5 DEF ReopenStep, AskReopen, Grant, Refuse, Reopen, PersistApproval, CrashReopen
    <2>2. ask[r].brk = b
        BY <1>1, <2>1
    <2>3. brk'[b] = Reopened(brk[b]) /\ \A e \in Breaks \ {b} : brk'[e] = brk[e]
        BY <1>1, <2>1, <2>2
    <2> QED BY <1>1, <2>1, <2>2, <2>3, ReopenedRow
<1>6. ~UNCHANGED workVars /\ \A kept \in cache : ~Expire(kept)
    BY DEF workVars, Expire
<1>7. CASE \E d \in Breaks : Raise(d)
    BY <1>2, <1>3, <1>7
<1>8. CASE \E c \in Edits : Handle(c)
    BY <1>2, <1>4, <1>8
<1>9. CASE \E r \in Requests : ReopenStep(r)
    BY <1>2, <1>5, <1>9
<1> QED BY <1>6, <1>7, <1>8, <1>9 DEF WorkNext

\* Nothing takes a break from the person who claimed it but its end; a reopen
\* granted late does not.
THEOREM ClaimantKeptBreak == WorkSpec => ClaimantKeepsBreak
<1>1. ASSUME WorkIInv, [WorkNext]_workVars
      PROVE  [\A b \in Breaks :
                 brk[b].status = "assigned" /\ brk'[b] # brk[b] =>
                     brk'[b].status \in Terminal
                     /\ brk'[b].assigned_to = brk[b].assigned_to]_workVars
    <2>1. "assigned" \notin Terminal
        BY DEF Terminal, ResolveOutcomes
    <2> QED BY <1>1, <2>1, RowMoves
<1> QED BY <1>1, WorkInvariance, PTL DEF WorkSpec, ClaimantKeepsBreak

\* What the statuses of a row are to those who wait for the break.
LEMMA SeenStatus ==
    /\ Seen("absent") = "absent" /\ \A s \in Open : Seen(s) = "flagged"
    /\ \A s \in Terminal : Seen(s) \in {"resolved", "escalated"}
BY DEF Seen, Open, Terminal, ResolveOutcomes

\* A break is raised once, worked to an end, and leaves it only by being
\* reopened: the life that the close of a payable period relies on.
THEOREM BreaksLiveSo == WorkSpec => ImplementsBreakLife
<1> DEFINE seen == [b \in Breaks |-> Seen(brk[b].status)]
<1>1. WorkInit => Life!Init
    BY SeenStatus DEF WorkInit, NoBreak, Life!Init
<1>2. ASSUME WorkIInv, [WorkNext]_workVars
      PROVE  [\E b \in Breaks : Life!Move(b)]_seen
    <2>1. CASE brk' = brk
        BY <2>1
    <2>2. CASE brk' # brk
        <3>1. brk \in [Breaks -> BreakRow] /\ brk' \in [Breaks -> BreakRow]
            BY <1>2, WorkNextIInv DEF WorkIInv, WorkTypeOK
        <3>2. PICK b \in Breaks : brk'[b] # brk[b]
            BY <2>2, <3>1
        <3>3. /\ \/ brk[b].status = "absent" /\ brk'[b].status = "flagged"
                 \/ brk[b].status = "flagged" /\ brk'[b].status = "assigned"
                 \/ brk[b].status \in Open /\ brk'[b].status \in Terminal
                 \/ brk[b].status \in Terminal /\ brk'[b].status = "flagged"
              /\ \A d \in Breaks \ {b} : brk'[d] = brk[d]
            BY <1>2, <3>2, RowMoves
        <3>4. seen' = [seen EXCEPT ![b] = Seen(brk'[b].status)]
            BY <3>3
        <3>5. seen[b] = Seen(brk[b].status)
            OBVIOUS
        <3>6. CASE brk[b].status = "flagged" /\ brk'[b].status = "assigned"
            BY <3>4, <3>5, <3>6, SeenStatus DEF Open
        <3>7. CASE brk[b].status = "absent" /\ brk'[b].status = "flagged"
            BY <3>4, <3>5, <3>7, SeenStatus DEF Open, Life!Move, Life!RaiseBreak
        <3>8. CASE brk[b].status \in Open /\ brk'[b].status \in Terminal
            BY <3>4, <3>5, <3>8, SeenStatus DEF Life!Move, Life!WorkBreak
        <3>9. CASE brk[b].status \in Terminal /\ brk'[b].status = "flagged"
            BY <3>4, <3>5, <3>9, SeenStatus DEF Open, Life!Move, Life!ReopenBreak
        <3> QED BY <3>3, <3>6, <3>7, <3>8, <3>9
    <2> QED BY <2>1, <2>2
<1> QED BY <1>1, <1>2, WorkInvariance, PTL DEF WorkSpec, ImplementsBreakLife, Life!Spec
=============================================================================
