-------------------------- MODULE InvoicingProofs --------------------------
(***************************************************************************)
(* Theorems about Invoicing, for every set of requests, humans, files and  *)
(* calls and every number of variances: P9 gets instructions for matched,  *)
(* clean files only, and no more often than second humans granted it; the  *)
(* breaks a file counts are in the queue.                                  *)
(***************************************************************************)
EXTENDS Invoicing, FiniteSetTheorems, TLAPS

-----------------------------------------------------------------------------
(* The inductive invariant. *)

Marked(f) == file[f].status \notin {"none", "ingested"}

\* A file that was marked is what its match says, whichever call marked it.
FileInv ==
    \A f \in Files :
        /\ Marked(f) =>
               file[f] = [status |-> IF variances[f] > 0 THEN "reconciled_with_breaks"
                                                         ELSE "reconciled_clean",
                          open |-> variances[f]]
        /\ ~ Marked(f) => file[f].open = 0
        /\ file[f].open <= breaks[f]

MatchInv ==
    \A c \in Matches :
        /\ match[c].at \in {"matched", "raised"} => match[c].file \in Files
        /\ match[c].at = "raised" => variances[match[c].file] <= breaks[match[c].file]

\* A call that was let through has a clean file, and a row only after that.
Allowed(i) ==
    /\ invoice[i].at = "none" => invoice[i].status = "none" /\ sent[i] = 0
    /\ invoice[i].at # "none" =>
           /\ invoice[i].file \in Files
           /\ file[invoice[i].file] = [status |-> "reconciled_clean", open |-> 0]
    /\ invoice[i].status = "dispatched_to_p9" => sent[i] > 0

InvoiceInv == \A i \in InvoiceRuns : Allowed(i)

\* A request: past the claim it is granted to a second human, and once.
Request(r) ==
    /\ winner[r] # None => winner[r] # entry[r].initiator /\ entry[r].state # "none"
    /\ entry[r].state = "pending" => job[r].at = "asked"
    /\ job[r].at # "none" => job[r].run \in InvoiceRuns
    /\ job[r].at \notin {"none", "asked"} => winner[r] # None
    /\ job[r].at \in {"sent", "marked"} \/ r \in trail => job[r].at # "none" /\ sent[job[r].run] > 0

RequestInv == \A r \in Requests : Request(r)

\* The executions that may have sent something, and those a second human granted.
Sending == {"sent", "marked", "audited", "done", "failed"}
Executions(i) == {r \in Requests : job[r].run = i /\ job[r].at \in Sending}
Granted(i) == {r \in Requests : /\ job[r].run = i
                                /\ winner[r] \notin {None, entry[r].initiator}}

SentInv == \A i \in InvoiceRuns : sent[i] <= Cardinality(Executions(i))

IInv == TypeOK /\ FileInv /\ MatchInv /\ InvoiceInv /\ RequestInv /\ SentInv

LEMMA ExecutionsFinite ==
    ASSUME NEW i
    PROVE  /\ IsFiniteSet(Executions(i)) /\ Cardinality(Executions(i)) \in Nat
           /\ IsFiniteSet(Executions(i)') /\ Cardinality(Executions(i)') \in Nat
           /\ IsFiniteSet(Granted(i)) /\ Cardinality(Granted(i)) \in Nat
<1>1. /\ Executions(i) \in SUBSET Requests /\ Executions(i)' \in SUBSET Requests
      /\ Granted(i) \in SUBSET Requests
    BY DEF Executions, Granted
<1>2. \A S \in SUBSET Requests : IsFiniteSet(S) /\ Cardinality(S) \in Nat
    BY FS_Subset, FS_CardinalityType, InvoicingAssumption
<1> QED BY <1>1, <1>2

LEMMA InitIInv == Init => IInv
<1> SUFFICES ASSUME Init PROVE IInv
    OBVIOUS
<1>1. TypeOK
    BY InvoicingAssumption DEF Init, TypeOK, Gate!Init, Gate!TypeOK, Gate!NoEntry, Gate!Entry,
        Gate!Verdict, File, FileStatus, Match, MatchStep, Invoice, InvoiceStep, Job, JobStep
<1>2. FileInv
    BY DEF Init, FileInv, Marked
<1>3. MatchInv
    BY DEF Init, MatchInv
<1>4. InvoiceInv
    BY DEF Init, InvoiceInv, Allowed
<1>5. RequestInv
    <2> SUFFICES ASSUME NEW r \in Requests PROVE Request(r)
        BY DEF RequestInv
    <2>1. winner[r] = None /\ entry[r].state = "none" /\ job[r].at = "none" /\ r \notin trail
        BY DEF Init, Gate!Init, Gate!NoEntry
    <2> QED BY <2>1 DEF Request
<1>6. SentInv
    <2> SUFFICES ASSUME NEW i \in InvoiceRuns PROVE sent[i] <= Cardinality(Executions(i))
        BY DEF SentInv
    <2>1. sent[i] = 0
        BY DEF Init
    <2> QED BY <2>1, ExecutionsFinite
<1> QED BY <1>1, <1>2, <1>3, <1>4, <1>5, <1>6 DEF IInv

-----------------------------------------------------------------------------
(* The files. *)

\* A step of the matching: what was marked stays as it is.
LEMMA FileStep ==
    ASSUME IInv, UNCHANGED <<entry, winner, variances, invoice, job, sent, trail>>,
           file' \in [Files -> File], breaks' \in [Files -> Nat], match' \in [Matches -> Match],
           FileInv', MatchInv', \A f \in Files : Marked(f) => file'[f] = file[f]
    PROVE  IInv'
<1>1. TypeOK'
    BY DEF IInv, TypeOK, Gate!TypeOK
<1>2. InvoiceInv'
    BY DEF IInv, InvoiceInv, Allowed, Marked
<1>3. RequestInv'
    BY DEF IInv, RequestInv, Request
<1>4. SentInv'
    <2>1. \A i \in InvoiceRuns : Executions(i)' = Executions(i)
        BY DEF Executions
    <2> QED BY <2>1 DEF IInv, SentInv
<1> QED BY <1>1, <1>2, <1>3, <1>4 DEF IInv

LEMMA IngestStep ==
    ASSUME IInv, NEW f \in Files, Ingest(f)
    PROVE  IInv'
<1>1. /\ UNCHANGED <<entry, winner, variances, invoice, job, sent, trail, breaks, match>>
      /\ file[f].status = "none" /\ file' = [file EXCEPT ![f].status = "ingested"]
    BY DEF Ingest, gateVars, runVars
<1>2. /\ file' \in [Files -> File] /\ file'[f].status = "ingested" /\ file'[f].open = file[f].open
      /\ \A o \in Files \ {f} : file'[o] = file[o]
    BY <1>1 DEF IInv, TypeOK, File, FileStatus
<1>3. FileInv'
    BY <1>1, <1>2 DEF IInv, FileInv, Marked
<1>4. MatchInv'
    BY <1>1 DEF IInv, MatchInv
<1>5. \A o \in Files : Marked(o) => file'[o] = file[o]
    BY <1>1, <1>2 DEF Marked
<1> QED BY <1>1, <1>2, <1>3, <1>4, <1>5, FileStep DEF IInv, TypeOK

LEMMA MatchMoves ==
    ASSUME TypeOK, NEW c \in Matches, NEW step \in MatchStep, MatchGoes(c, step)
    PROVE  /\ match' \in [Matches -> Match]
           /\ match'[c].at = step /\ match'[c].file = match[c].file
           /\ \A o \in Matches \ {c} : match'[o] = match[o]
BY DEF MatchGoes, TypeOK, Match

LEMMA CheckIngestedStep ==
    ASSUME IInv, NEW c \in Matches, NEW f \in Files, CheckIngested(c, f)
    PROVE  IInv'
<1> DEFINE m == [at |-> "matched", file |-> f]
<1>1. /\ UNCHANGED <<entry, winner, variances, invoice, job, sent, trail, breaks, file>>
      /\ match' = [match EXCEPT ![c] = m]
    BY DEF CheckIngested, gateVars, runVars
<1>2. m \in Match /\ m.at = "matched" /\ m.file = f
    BY DEF Match, MatchStep
<1> HIDE DEF m
<1>3. match' \in [Matches -> Match] /\ match'[c] = m /\ \A o \in Matches \ {c} : match'[o] = match[o]
    BY <1>1, <1>2 DEF IInv, TypeOK
<1>4. FileInv'
    BY <1>1 DEF IInv, FileInv, Marked
<1>5. MatchInv'
    BY <1>1, <1>2, <1>3 DEF IInv, MatchInv
<1> QED BY <1>1, <1>3, <1>4, <1>5, FileStep DEF IInv, TypeOK

LEMMA RaiseBreaksStep ==
    ASSUME IInv, NEW c \in Matches, RaiseBreaks(c)
    PROVE  IInv'
<1> DEFINE f == match[c].file
<1>1. /\ UNCHANGED <<entry, winner, variances, invoice, job, sent, trail, file>>
      /\ f \in Files /\ breaks' = [breaks EXCEPT ![f] = @ + variances[f]]
      /\ MatchGoes(c, "raised")
    BY DEF RaiseBreaks, gateVars, runVars, IInv, MatchInv
<1>2. /\ match' \in [Matches -> Match]
      /\ match'[c].at = "raised" /\ match'[c].file = f
      /\ \A o \in Matches \ {c} : match'[o] = match[o]
    BY <1>1, MatchMoves DEF IInv, MatchStep
<1>3. \A o \in Files : variances[o] \in Nat /\ breaks[o] \in Nat /\ file[o].open \in Nat
    BY InvoicingAssumption DEF IInv, TypeOK, File
<1>4. /\ breaks' \in [Files -> Nat] /\ variances[f] <= breaks'[f]
      /\ \A o \in Files : breaks[o] <= breaks'[o]
    BY <1>1, <1>3 DEF IInv, TypeOK
<1>5. FileInv'
    <2>1. \A o \in Files : breaks'[o] \in Nat
        BY <1>4
    <2> QED BY <1>1, <1>3, <1>4, <2>1 DEF IInv, FileInv, Marked
<1>6. MatchInv'
    <2>1. \A o \in Files : breaks'[o] \in Nat
        BY <1>4
    <2> QED BY <1>1, <1>2, <1>3, <1>4, <2>1 DEF IInv, MatchInv
<1> QED BY <1>1, <1>2, <1>4, <1>5, <1>6, FileStep DEF IInv, TypeOK

LEMMA MarkReconciledStep ==
    ASSUME IInv, NEW c \in Matches, MarkReconciled(c)
    PROVE  IInv'
<1> DEFINE f == match[c].file
           v == [status |-> IF variances[f] > 0 THEN "reconciled_with_breaks"
                                                ELSE "reconciled_clean",
                 open |-> variances[f]]
<1>1. /\ UNCHANGED <<entry, winner, variances, invoice, job, sent, trail, breaks>>
      /\ match[c].at = "raised" /\ f \in Files /\ variances[f] <= breaks[f]
      /\ file' = [file EXCEPT ![f] = v] /\ MatchGoes(c, "done")
    BY DEF MarkReconciled, MarkEarly, gateVars, runVars, IInv, MatchInv
<1>2. v \in File /\ v.open = variances[f] /\ v.status \notin {"none", "ingested"}
    BY <1>1 DEF File, FileStatus, IInv, TypeOK
<1>3. Marked(f) => file[f] = v
    BY <1>1 DEF IInv, FileInv
<1>4. /\ match' \in [Matches -> Match]
      /\ match'[c].at = "done" /\ match'[c].file = f
      /\ \A o \in Matches \ {c} : match'[o] = match[o]
    BY <1>1, MatchMoves DEF IInv, MatchStep
<1>5. file' \in [Files -> File] /\ file'[f] = v /\ \A o \in Files \ {f} : file'[o] = file[o]
    <2> HIDE DEF v
    <2> QED BY <1>1, <1>2 DEF IInv, TypeOK
<1>6. FileInv'
    BY <1>1, <1>2, <1>5 DEF IInv, FileInv, Marked
<1>7. MatchInv'
    BY <1>1, <1>4 DEF IInv, MatchInv
<1>8. \A o \in Files : Marked(o) => file'[o] = file[o]
    BY <1>3, <1>5
<1> QED BY <1>1, <1>4, <1>5, <1>6, <1>7, <1>8, FileStep DEF IInv, TypeOK

LEMMA CrashMatchStep ==
    ASSUME IInv, NEW c \in Matches, CrashMatch(c)
    PROVE  IInv'
<1>1. /\ UNCHANGED <<entry, winner, variances, invoice, job, sent, trail, breaks, file>>
      /\ MatchGoes(c, "failed")
    BY DEF CrashMatch, gateVars, runVars
<1>2. /\ match' \in [Matches -> Match]
      /\ match'[c].at = "failed" /\ match'[c].file = match[c].file
      /\ \A o \in Matches \ {c} : match'[o] = match[o]
    BY <1>1, MatchMoves DEF IInv, MatchStep
<1>3. FileInv'
    BY <1>1 DEF IInv, FileInv, Marked
<1>4. MatchInv'
    BY <1>1, <1>2 DEF IInv, MatchInv
<1> QED BY <1>1, <1>2, <1>3, <1>4, FileStep DEF IInv, TypeOK

-----------------------------------------------------------------------------
(* The invoice runs. *)

LEMMA InvoiceMoves ==
    ASSUME TypeOK, NEW i \in InvoiceRuns, NEW step \in InvoiceStep, InvoiceGoes(i, step)
    PROVE  /\ invoice' \in [InvoiceRuns -> Invoice]
           /\ invoice'[i].at = step /\ invoice'[i].file = invoice[i].file
           /\ invoice'[i].status = invoice[i].status
           /\ \A o \in InvoiceRuns \ {i} : invoice'[o] = invoice[o]
BY DEF InvoiceGoes, TypeOK, Invoice

\* A step of one createInvoiceRun call.
LEMMA RunStep ==
    ASSUME IInv, NEW i \in InvoiceRuns,
           UNCHANGED <<entry, winner, variances, file, breaks, match, job, sent, trail>>,
           invoice' \in [InvoiceRuns -> Invoice],
           \A o \in InvoiceRuns \ {i} : invoice'[o] = invoice[o], Allowed(i)'
    PROVE  IInv'
<1>1. TypeOK'
    BY DEF IInv, TypeOK, Gate!TypeOK
<1>2. FileInv' /\ MatchInv'
    BY DEF IInv, FileInv, MatchInv, Marked
<1>3. InvoiceInv'
    BY DEF IInv, InvoiceInv, Allowed
<1>4. RequestInv'
    BY DEF IInv, RequestInv, Request
<1>5. SentInv'
    <2>1. \A o \in InvoiceRuns : Executions(o)' = Executions(o)
        BY DEF Executions
    <2> QED BY <2>1 DEF IInv, SentInv
<1> QED BY <1>1, <1>2, <1>3, <1>4, <1>5 DEF IInv

LEMMA CheckFileStep ==
    ASSUME IInv, NEW i \in InvoiceRuns, NEW f \in Files, CheckFile(i, f)
    PROVE  IInv'
<1>1. /\ UNCHANGED <<entry, winner, variances, file, breaks, match, job, sent, trail>>
      /\ invoice[i].at = "none" /\ Marked(f)
      /\ ~(file[f].status = "reconciled_with_breaks" /\ file[f].open > 0)
      /\ invoice' = [invoice EXCEPT ![i].at = "allowed", ![i].file = f]
    BY DEF CheckFile, CheckReconciled, gateVars, fileVars, runVars, Marked
<1>2. file[f] = [status |-> "reconciled_clean", open |-> 0]
    <2>1. variances[f] \in Nat
        BY InvoicingAssumption DEF IInv, TypeOK
    <2>2. file[f] = [status |-> IF variances[f] > 0 THEN "reconciled_with_breaks"
                                                    ELSE "reconciled_clean",
                     open |-> variances[f]]
        BY <1>1 DEF IInv, FileInv
    <2>3. variances[f] = 0
        BY <1>1, <2>1, <2>2
    <2> QED BY <2>2, <2>3
<1> DEFINE v == [invoice[i] EXCEPT !.at = "allowed", !.file = f]
<1>3. v \in Invoice /\ v.at = "allowed" /\ v.file = f /\ v.status = invoice[i].status
    BY DEF IInv, TypeOK, Invoice, InvoiceStep
<1>4. invoice' = [invoice EXCEPT ![i] = v]
    BY <1>1
<1> HIDE DEF v
<1>5. /\ invoice' \in [InvoiceRuns -> Invoice] /\ invoice'[i] = v
      /\ \A o \in InvoiceRuns \ {i} : invoice'[o] = invoice[o]
    BY <1>3, <1>4 DEF IInv, TypeOK
<1>6. Allowed(i)'
    BY <1>1, <1>2, <1>3, <1>5 DEF IInv, InvoiceInv, Allowed
<1> QED BY <1>1, <1>5, <1>6, RunStep

\* CreateRun and LinkRun: the row says pending_approval.
LEMMA PendingStep ==
    ASSUME IInv, NEW i \in InvoiceRuns, CreateRun(i) \/ LinkRun(i)
    PROVE  IInv'
<1>1. PICK step \in {"created", "done"} :
          invoice' = [invoice EXCEPT ![i].at = step, ![i].status = "pending_approval"]
    BY DEF CreateRun, LinkRun
<1>2. /\ UNCHANGED <<entry, winner, variances, file, breaks, match, job, sent, trail>>
      /\ invoice[i].at # "none"
    BY DEF CreateRun, LinkRun, gateVars, fileVars, runVars
<1> DEFINE v == [invoice[i] EXCEPT !.at = step, !.status = "pending_approval"]
<1>3. v \in Invoice /\ v.at = step /\ v.file = invoice[i].file /\ v.status = "pending_approval"
    BY DEF IInv, TypeOK, Invoice, InvoiceStep
<1>4. invoice' = [invoice EXCEPT ![i] = v]
    BY <1>1
<1> HIDE DEF v
<1>5. /\ invoice' \in [InvoiceRuns -> Invoice] /\ invoice'[i] = v
      /\ \A o \in InvoiceRuns \ {i} : invoice'[o] = invoice[o]
    BY <1>3, <1>4 DEF IInv, TypeOK
<1>6. Allowed(i)'
    BY <1>2, <1>3, <1>5 DEF IInv, InvoiceInv, Allowed
<1> QED BY <1>2, <1>5, <1>6, RunStep

LEMMA CrashInvoiceStep ==
    ASSUME IInv, NEW i \in InvoiceRuns, CrashInvoice(i)
    PROVE  IInv'
<1>1. /\ UNCHANGED <<entry, winner, variances, file, breaks, match, job, sent, trail>>
      /\ invoice[i].at # "none" /\ InvoiceGoes(i, "failed")
    BY DEF CrashInvoice, gateVars, fileVars, runVars
<1>2. /\ invoice' \in [InvoiceRuns -> Invoice]
      /\ invoice'[i].at = "failed" /\ invoice'[i].file = invoice[i].file
      /\ invoice'[i].status = invoice[i].status
      /\ \A o \in InvoiceRuns \ {i} : invoice'[o] = invoice[o]
    BY <1>1, InvoiceMoves DEF IInv, InvoiceStep
<1>3. Allowed(i)'
    BY <1>1, <1>2 DEF IInv, InvoiceInv, Allowed
<1> QED BY <1>1, <1>2, <1>3, RunStep

-----------------------------------------------------------------------------
(* The requests and their executions. *)

LEMMA JobMoves ==
    ASSUME TypeOK, NEW r \in Requests, NEW step \in JobStep, JobGoes(r, step)
    PROVE  /\ job' \in [Requests -> Job]
           /\ job'[r].at = step /\ job'[r].run = job[r].run
           /\ \A q \in Requests \ {r} : job'[q] = job[q]
BY DEF JobGoes, TypeOK, Job

LEMMA JobAsked ==
    ASSUME TypeOK, NEW r \in Requests, NEW i \in InvoiceRuns,
           job' = [job EXCEPT ![r] = [at |-> "asked", run |-> i]]
    PROVE  /\ job' \in [Requests -> Job]
           /\ job'[r].at = "asked" /\ job'[r].run = i
           /\ \A q \in Requests \ {r} : job'[q] = job[q]
BY DEF TypeOK, Job, JobStep

\* A step of one request.
LEMMA RequestStep ==
    ASSUME IInv, NEW r \in Requests,
           UNCHANGED <<variances, file, breaks, match>>, TypeOK', InvoiceInv', SentInv',
           \A q \in Requests \ {r} :
               entry'[q] = entry[q] /\ winner'[q] = winner[q] /\ job'[q] = job[q],
           trail' \subseteq trail \cup {r}, Request(r)',
           \A i \in InvoiceRuns : sent[i] <= sent'[i]
    PROVE  IInv'
<1>1. FileInv' /\ MatchInv'
    BY DEF IInv, FileInv, MatchInv, Marked
<1>2. RequestInv'
    <2> SUFFICES ASSUME NEW q \in Requests \ {r} PROVE Request(q)'
        BY DEF RequestInv
    <2>1. Request(q) /\ (q \in trail' => q \in trail)
        BY DEF IInv, RequestInv
    <2>2. job[q].run \in InvoiceRuns => sent[job[q].run] <= sent'[job[q].run]
              /\ sent[job[q].run] \in Nat /\ sent'[job[q].run] \in Nat
        BY DEF IInv, TypeOK
    <2> QED BY <2>1, <2>2 DEF Request
<1> QED BY <1>1, <1>2 DEF IInv

\* It sends nothing, and an execution that may have sent something goes on.
LEMMA NothingSent ==
    ASSUME IInv, NEW r \in Requests, sent' = sent,
           \A q \in Requests \ {r} : job'[q] = job[q],
           job[r].at \in Sending => job'[r].at \in Sending /\ job'[r].run = job[r].run
    PROVE  SentInv'
<1> SUFFICES ASSUME NEW i \in InvoiceRuns PROVE sent[i] <= Cardinality(Executions(i)')
    BY DEF SentInv
<1>1. Executions(i) \subseteq Executions(i)'
    BY DEF Executions
<1>2. Cardinality(Executions(i)) <= Cardinality(Executions(i)')
    BY <1>1, ExecutionsFinite, FS_Subset
<1> QED BY <1>2, ExecutionsFinite DEF IInv, SentInv, TypeOK

LEMMA AskRunStep ==
    ASSUME IInv, NEW i \in InvoiceRuns, NEW r \in Requests, NEW p \in People, AskRun(i, r, p)
    PROVE  IInv'
<1>1. /\ invoice[i].at = "created" /\ job[r].at = "none" /\ Request(r) /\ r \notin trail
      /\ UNCHANGED <<variances, file, breaks, match, sent, trail>>
    BY DEF AskRun, fileVars, IInv, RequestInv, Request
<1>2. /\ Gate!TypeOK' /\ winner' = winner
      /\ entry[r].state = "none" /\ entry'[r].state = "pending"
      /\ \A q \in Requests \ {r} : entry'[q] = entry[q]
    BY Gate!Creates DEF AskRun, IInv, TypeOK
<1>3. /\ job' \in [Requests -> Job] /\ job'[r].at = "asked" /\ job'[r].run = i
      /\ \A q \in Requests \ {r} : job'[q] = job[q]
    BY JobAsked DEF AskRun, IInv
<1>4. /\ invoice' \in [InvoiceRuns -> Invoice]
      /\ invoice'[i].at = "asked" /\ invoice'[i].file = invoice[i].file
      /\ invoice'[i].status = invoice[i].status
      /\ \A o \in InvoiceRuns \ {i} : invoice'[o] = invoice[o]
    BY InvoiceMoves DEF AskRun, IInv, InvoiceStep
<1>5. TypeOK'
    BY <1>1, <1>2, <1>3, <1>4 DEF IInv, TypeOK
<1>6. InvoiceInv'
    BY <1>1, <1>4 DEF IInv, InvoiceInv, Allowed
<1>7. SentInv'
    BY <1>1, <1>3, NothingSent DEF Sending
<1>8. Request(r)'
    BY <1>1, <1>2, <1>3 DEF Request
<1> QED BY <1>1, <1>2, <1>3, <1>5, <1>6, <1>7, <1>8, RequestStep DEF IInv, TypeOK

LEMMA AskDirectlyStep ==
    ASSUME IInv, NEW i \in InvoiceRuns, NEW r \in Requests, NEW p \in People,
           AskDirectly(r, p, i)
    PROVE  IInv'
<1>1. /\ job[r].at = "none" /\ Request(r) /\ r \notin trail
      /\ UNCHANGED <<variances, file, breaks, match, invoice, sent, trail>>
    BY DEF AskDirectly, fileVars, IInv, RequestInv, Request
<1>2. /\ Gate!TypeOK' /\ winner' = winner
      /\ entry[r].state = "none" /\ entry'[r].state = "pending"
      /\ \A q \in Requests \ {r} : entry'[q] = entry[q]
    BY Gate!Creates DEF AskDirectly, IInv, TypeOK
<1>3. /\ job' \in [Requests -> Job] /\ job'[r].at = "asked" /\ job'[r].run = i
      /\ \A q \in Requests \ {r} : job'[q] = job[q]
    BY JobAsked DEF AskDirectly, IInv
<1>4. TypeOK'
    BY <1>1, <1>2, <1>3 DEF IInv, TypeOK
<1>5. InvoiceInv'
    BY <1>1 DEF IInv, InvoiceInv, Allowed
<1>6. SentInv'
    BY <1>1, <1>3, NothingSent DEF Sending
<1>7. Request(r)'
    BY <1>1, <1>2, <1>3 DEF Request
<1> QED BY <1>1, <1>2, <1>3, <1>4, <1>5, <1>6, <1>7, RequestStep DEF IInv, TypeOK

LEMMA RefuseStep ==
    ASSUME IInv, NEW r \in Requests, Refuse(r)
    PROVE  IInv'
<1>1. Request(r) /\ UNCHANGED <<variances, file, breaks, match, invoice, job, sent, trail>>
    BY DEF Refuse, fileVars, runVars, IInv, RequestInv
<1>2. /\ Gate!TypeOK' /\ winner' = winner
      /\ entry'[r].state \in {"approved", "rejected", "timed_out"}
      /\ entry'[r].initiator = entry[r].initiator
      /\ \A q \in Requests \ {r} : entry'[q] = entry[q]
    BY Gate!Writes DEF Refuse, IInv, TypeOK
<1>3. TypeOK'
    BY <1>1, <1>2 DEF IInv, TypeOK
<1>4. InvoiceInv'
    BY <1>1 DEF IInv, InvoiceInv, Allowed
<1>5. SentInv'
    BY <1>1, NothingSent
<1>6. Request(r)'
    BY <1>1, <1>2 DEF Request
<1> QED BY <1>1, <1>2, <1>3, <1>4, <1>5, <1>6, RequestStep DEF IInv, TypeOK

LEMMA GrantStep ==
    ASSUME IInv, NEW r \in Requests, NEW p \in People, Grant(r, p)
    PROVE  IInv'
<1>1. Request(r) /\ p # None /\ UNCHANGED <<variances, file, breaks, match, invoice, sent, trail>>
    BY InvoicingAssumption DEF Grant, fileVars, IInv, RequestInv
<1>2. /\ Gate!TypeOK' /\ winner'[r] = p /\ p # entry[r].initiator
      /\ entry[r].state = "pending" /\ entry'[r].state = "approved"
      /\ entry'[r].initiator = entry[r].initiator
      /\ \A q \in Requests \ {r} : entry'[q] = entry[q] /\ winner'[q] = winner[q]
    BY Gate!Grants DEF Grant, IInv, TypeOK
<1>3. /\ job' \in [Requests -> Job] /\ job'[r].at = "granted" /\ job'[r].run = job[r].run
      /\ \A q \in Requests \ {r} : job'[q] = job[q]
    BY JobMoves DEF Grant, IInv, JobStep
<1>4. TypeOK'
    BY <1>1, <1>2, <1>3 DEF IInv, TypeOK
<1>5. InvoiceInv'
    BY <1>1 DEF IInv, InvoiceInv, Allowed
<1>6. SentInv'
    <2>1. job[r].at = "asked"
        BY <1>1, <1>2 DEF Request
    <2> QED BY <1>1, <1>3, <2>1, NothingSent DEF Sending
<1>7. Request(r)'
    BY <1>1, <1>2, <1>3 DEF Request
<1> QED BY <1>1, <1>2, <1>3, <1>4, <1>5, <1>6, <1>7, RequestStep DEF IInv, TypeOK

\* P9 takes the instructions, and the execution is one more that may have sent some.
LEMMA DispatchStep ==
    ASSUME IInv, NEW r \in Requests, Dispatch(r)
    PROVE  IInv'
<1> DEFINE i == job[r].run
<1>1. /\ job[r].at = "granted" /\ Request(r) /\ i \in InvoiceRuns /\ OnFile(i)
      /\ UNCHANGED <<entry, winner, variances, file, breaks, match, invoice, trail>>
      /\ sent' = [sent EXCEPT ![i] = @ + 1]
    BY DEF Dispatch, DispatchInline, gateVars, fileVars, IInv, RequestInv, Request
<1>2. PICK step \in {"sent", "failed"} : JobGoes(r, step)
    BY DEF Dispatch, DispatchInline
<1>3. /\ job' \in [Requests -> Job] /\ job'[r].at = step /\ job'[r].run = i
      /\ \A q \in Requests \ {r} : job'[q] = job[q]
    BY <1>2, JobMoves DEF IInv, JobStep
<1>4. /\ sent' \in [InvoiceRuns -> Nat] /\ sent'[i] = sent[i] + 1
      /\ \A o \in InvoiceRuns \ {i} : sent'[o] = sent[o]
      /\ \A o \in InvoiceRuns : sent[o] \in Nat /\ sent[o] <= sent'[o]
    BY <1>1 DEF IInv, TypeOK
<1>5. TypeOK'
    BY <1>1, <1>3, <1>4 DEF IInv, TypeOK, Gate!TypeOK
<1>6. InvoiceInv'
    BY <1>1, <1>4 DEF IInv, InvoiceInv, Allowed, OnFile
<1>7. SentInv'
    <2> SUFFICES ASSUME NEW o \in InvoiceRuns PROVE sent'[o] <= Cardinality(Executions(o)')
        BY DEF SentInv
    <2>1. sent[o] <= Cardinality(Executions(o)) /\ r \notin Executions(o)
              /\ Executions(o) \subseteq Executions(o)'
        BY <1>1, <1>3 DEF IInv, SentInv, Executions, Sending
    <2>2. CASE o = i
        <3>1. Executions(o) \cup {r} \subseteq Executions(o)'
            BY <1>3, <2>1, <2>2 DEF Executions, Sending
        <3>2. /\ IsFiniteSet(Executions(o) \cup {r})
              /\ Cardinality(Executions(o) \cup {r}) = Cardinality(Executions(o)) + 1
            BY <2>1, ExecutionsFinite, FS_AddElement
        <3>3. Cardinality(Executions(o) \cup {r}) <= Cardinality(Executions(o)')
            BY <3>1, ExecutionsFinite, FS_Subset
        <3> QED BY <1>4, <2>1, <2>2, <3>2, <3>3, ExecutionsFinite
    <2>3. CASE o # i
        <3>1. Cardinality(Executions(o)) <= Cardinality(Executions(o)')
            BY <2>1, ExecutionsFinite, FS_Subset
        <3> QED BY <1>4, <2>1, <2>3, <3>1, ExecutionsFinite
    <2> QED BY <2>2, <2>3
<1>8. Request(r)'
    BY <1>1, <1>3, <1>4 DEF Request
<1> QED BY <1>1, <1>3, <1>4, <1>5, <1>6, <1>7, <1>8, RequestStep DEF IInv, TypeOK

\* The mark on the row of a run that was sent.
LEMMA MarkDispatchedStep ==
    ASSUME IInv, NEW r \in Requests, MarkDispatched(r)
    PROVE  IInv'
<1> DEFINE i == job[r].run
<1>1. /\ job[r].at = "sent" /\ Request(r) /\ i \in InvoiceRuns /\ sent[i] > 0
      /\ UNCHANGED <<entry, winner, variances, file, breaks, match, sent, trail>>
      /\ invoice' = [invoice EXCEPT ![i].status = "dispatched_to_p9"]
      /\ JobGoes(r, "marked")
    BY DEF MarkDispatched, gateVars, fileVars, IInv, RequestInv, Request
<1>2. /\ job' \in [Requests -> Job] /\ job'[r].at = "marked" /\ job'[r].run = i
      /\ \A q \in Requests \ {r} : job'[q] = job[q]
    BY <1>1, JobMoves DEF IInv, JobStep
<1>3. /\ invoice' \in [InvoiceRuns -> Invoice]
      /\ invoice'[i].at = invoice[i].at /\ invoice'[i].file = invoice[i].file
      /\ invoice'[i].status = "dispatched_to_p9"
      /\ \A o \in InvoiceRuns \ {i} : invoice'[o] = invoice[o]
    BY <1>1 DEF IInv, TypeOK, Invoice
<1>4. TypeOK'
    BY <1>1, <1>2, <1>3 DEF IInv, TypeOK, Gate!TypeOK
<1>5. InvoiceInv'
    <2>1. sent[i] \in Nat /\ sent[i] # 0
        BY <1>1 DEF IInv, TypeOK
    <2> QED BY <1>1, <1>3, <2>1 DEF IInv, InvoiceInv, Allowed
<1>6. SentInv'
    BY <1>1, <1>2, NothingSent DEF Sending
<1>7. Request(r)'
    BY <1>1, <1>2 DEF Request
<1> QED BY <1>1, <1>2, <1>4, <1>5, <1>6, <1>7, RequestStep DEF IInv, TypeOK

\* SkipUnknown, AuditDispatch, CrashJob: an execution goes on, or dies.
LEMMA JobStepStep ==
    ASSUME IInv, NEW r \in Requests, SkipUnknown(r) \/ AuditDispatch(r) \/ CrashJob(r)
    PROVE  IInv'
<1>1. PICK step \in {"audited", "failed"} :
          /\ JobGoes(r, step)
          /\ r \in trail' => r \in trail \/ job[r].at = "marked"
    BY DEF SkipUnknown, AuditDispatch, CrashJob
<1>2. /\ Request(r) /\ job[r].at \in {"granted", "sent", "marked", "audited"}
      /\ UNCHANGED <<entry, winner, variances, file, breaks, match, invoice, sent>>
      /\ trail' \subseteq trail \cup {r}
    BY DEF SkipUnknown, AuditDispatch, CrashJob, gateVars, fileVars, IInv, RequestInv
<1>3. /\ job' \in [Requests -> Job] /\ job'[r].at = step /\ job'[r].run = job[r].run
      /\ \A q \in Requests \ {r} : job'[q] = job[q]
    BY <1>1, JobMoves DEF IInv, JobStep
<1>4. TypeOK'
    BY <1>2, <1>3 DEF IInv, TypeOK, Gate!TypeOK
<1>5. InvoiceInv'
    BY <1>2 DEF IInv, InvoiceInv, Allowed
<1>6. SentInv'
    BY <1>2, <1>3, NothingSent DEF Sending
<1>7. Request(r)'
    BY <1>1, <1>2, <1>3 DEF Request
<1> QED BY <1>2, <1>3, <1>4, <1>5, <1>6, <1>7, RequestStep DEF IInv, TypeOK

LEMMA PersistApprovalStep ==
    ASSUME IInv, NEW r \in Requests, PersistApproval(r)
    PROVE  IInv'
<1>1. /\ Request(r) /\ job[r].at = "audited"
      /\ UNCHANGED <<variances, file, breaks, match, invoice, sent, trail>>
    BY DEF PersistApproval, fileVars, IInv, RequestInv
<1>2. /\ Gate!TypeOK' /\ winner' = winner
      /\ entry'[r].state \in {"approved", "rejected", "timed_out"}
      /\ entry'[r].initiator = entry[r].initiator
      /\ \A q \in Requests \ {r} : entry'[q] = entry[q]
    BY Gate!Writes DEF PersistApproval, IInv, TypeOK
<1>3. /\ job' \in [Requests -> Job] /\ job'[r].at = "done" /\ job'[r].run = job[r].run
      /\ \A q \in Requests \ {r} : job'[q] = job[q]
    BY JobMoves DEF PersistApproval, IInv, JobStep
<1>4. TypeOK'
    BY <1>1, <1>2, <1>3 DEF IInv, TypeOK
<1>5. InvoiceInv'
    BY <1>1 DEF IInv, InvoiceInv, Allowed
<1>6. SentInv'
    BY <1>1, <1>3, NothingSent DEF Sending
<1>7. Request(r)'
    BY <1>1, <1>2, <1>3 DEF Request
<1> QED BY <1>1, <1>2, <1>3, <1>4, <1>5, <1>6, <1>7, RequestStep DEF IInv, TypeOK

-----------------------------------------------------------------------------
LEMMA NextIInv == IInv /\ [Next]_vars => IInv'
<1> SUFFICES ASSUME IInv, [Next]_vars PROVE IInv'
    OBVIOUS
<1>1. CASE UNCHANGED vars
    <2>1. UNCHANGED <<entry, winner, variances, file, breaks, match, invoice, job, sent, trail>>
        BY <1>1 DEF vars, gateVars, fileVars, runVars
    <2>2. FileInv' /\ MatchInv'
        BY <2>1 DEF IInv, FileInv, MatchInv, Marked
    <2> QED BY <2>1, <2>2, FileStep DEF IInv, TypeOK
<1>2. ASSUME NEW c \in Matches, MatchStepOf(c) PROVE IInv'
    BY <1>2, RaiseBreaksStep, MarkReconciledStep, CrashMatchStep, CheckIngestedStep
        DEF MatchStepOf
<1>3. ASSUME NEW i \in InvoiceRuns, InvoiceStepOf(i) PROVE IInv'
    BY <1>3, PendingStep, CrashInvoiceStep, CheckFileStep, AskRunStep, AskDirectlyStep
        DEF InvoiceStepOf
<1>4. ASSUME NEW r \in Requests, JobStepOf(r) PROVE IInv'
    BY <1>4, RefuseStep, JobStepStep, DispatchStep, MarkDispatchedStep, PersistApprovalStep,
        GrantStep DEF JobStepOf
<1> QED BY <1>1, <1>2, <1>3, <1>4, IngestStep DEF Next

LEMMA Invariance == Spec => []IInv
<1> QED BY InitIInv, NextIInv, PTL DEF Spec

\* Every variable keeps its type, whichever calls overlap or die.
THEOREM TypeCorrectness == Spec => []TypeOK
<1>1. IInv => TypeOK
    BY DEF IInv
<1> QED BY Invariance, <1>1, PTL

\* Reconcile before invoice: P9 gets instructions for a file that was matched and found
\* without variances, whatever calls overlap and however often a run is dispatched.
THEOREM SentWasReconciled == Spec => []SentIsReconciled
<1>1. IInv => SentIsReconciled
    <2> SUFFICES ASSUME IInv, NEW i \in InvoiceRuns, sent[i] > 0
                 PROVE  /\ invoice[i].file # None
                        /\ file[invoice[i].file] = [status |-> "reconciled_clean", open |-> 0]
        BY DEF SentIsReconciled
    <2>1. Allowed(i) /\ sent[i] # 0
        BY DEF IInv, InvoiceInv, TypeOK
    <2> QED BY <2>1, InvoicingAssumption DEF Allowed
<1> QED BY Invariance, <1>1, PTL

\* The breaks a file counts were raised, however many calls reconciled it.
THEOREM CountedWereRaised == Spec => []CountedBreaksAreRaised
<1>1. IInv => CountedBreaksAreRaised
    BY DEF IInv, FileInv, CountedBreaksAreRaised
<1> QED BY Invariance, <1>1, PTL

\* P9 gets a run's instructions no more often than second humans granted it; a run that says
\* it was dispatched was sent, and so was one in the audit trail.
THEOREM SentWasGranted == Spec => []SentIsGranted
<1>1. IInv => SentIsGranted
    <2> SUFFICES ASSUME IInv PROVE SentIsGranted
        OBVIOUS
    <2>1. ASSUME NEW i \in InvoiceRuns PROVE sent[i] <= Cardinality(Granted(i))
        <3>1. Executions(i) \subseteq Granted(i)
            BY DEF Executions, Granted, Sending, IInv, RequestInv, Request
        <3>2. Cardinality(Executions(i)) <= Cardinality(Granted(i))
            BY <3>1, ExecutionsFinite, FS_Subset
        <3>3. sent[i] <= Cardinality(Executions(i)) /\ sent[i] \in Nat
            BY DEF IInv, SentInv, TypeOK
        <3> QED BY <3>2, <3>3, ExecutionsFinite
    <2>2. \A i \in InvoiceRuns : invoice[i].status = "dispatched_to_p9" => sent[i] > 0
        BY DEF IInv, InvoiceInv, Allowed
    <2>3. \A r \in trail : sent[job[r].run] > 0
        BY DEF IInv, TypeOK, RequestInv, Request
    <2> QED BY <2>1, <2>2, <2>3 DEF SentIsGranted, Granted
<1> QED BY Invariance, <1>1, PTL
=============================================================================
