-------------------------- MODULE RevocationProofs --------------------------
(***************************************************************************)
(* Theorems about Revocation, for every set of requests, humans, consents  *)
(* and drafts: what is said to be revoked is, and a draft that names a     *)
(* handoff names the one it had, and who granted it.                       *)
(***************************************************************************)
EXTENDS Revocation, TLAPS

-----------------------------------------------------------------------------
(* The inductive invariant. *)

\* The request and its grant: as in GateRow, and nothing has run before the grant.
Asked(r) ==
    /\ winner[r] # None => winner[r] # entry[r].initiator /\ entry[r].state # "none"
    /\ entry[r].state = "pending" => job[r].at = "asked"
    /\ job[r].at \in {"none", "checked", "asked"} => winner[r] = None
    /\ job[r].at \notin {"none", "checked", "asked", "failed"} => winner[r] # None
    /\ told[r] \in {0, 1}
    /\ told[r] = 1 => winner[r] # None /\ job[r].op = "str_handoff"
    /\ job[r].at \in {"none", "checked", "asked", "granted"} => told[r] = 0
    /\ job[r].op = "str_handoff" /\ job[r].at = "sent" => told[r] = 1

\* A sweep: what was active is revoked, or its egress is still out.
Sweeps(r) ==
    /\ job[r].at \in {"sent", "marked"} => job[r].active \subseteq revoked \cup job[r].open
    /\ job[r].op # "bulk_revoke" => job[r].active = {}
    /\ job[r].at \in {"asked", "granted"} => job[r].active = {}
    /\ job[r].at = "marked" => job[r].open = {}
    /\ job[r].open # {} => job[r].op = "bulk_revoke" /\ winner[r] # None
    /\ r \in trail => job[r].active \subseteq revoked

\* A fraud revocation: its consent is revoked first, and its draft comes once.
Suspects(r) ==
    job[r].op = "fraud_revoke" =>
        /\ job[r].consent \in Consents
        /\ job[r].at \in {"sent", "marked", "drafted"} => job[r].consent \in revoked
        /\ job[r].at \in {"asked", "granted", "sent", "marked"} => job[r].draft = None
        /\ job[r].at = "drafted" => job[r].draft # None
        /\ job[r].draft # None => /\ winner[r] # None
                                  /\ OnFile(job[r].draft)
                                  /\ draft[job[r].draft].consent = job[r].consent
        /\ r \in trail => job[r].consent \in revoked /\ job[r].draft # None

\* A submit: its draft is on file when its mark is due.
Submits(r) ==
    /\ job[r].at = "none" => r \notin due
    /\ r \in trail => job[r].at \in {"audited", "done", "failed"}
    /\ job[r].at = "drafted" => job[r].op = "fraud_revoke"
    /\ job[r].op = "str_handoff" => job[r].draft \in Drafts
    /\ job[r].at = "checked" => /\ job[r].op = "str_handoff" /\ job[r].by \in People
                                /\ OnFile(job[r].draft) /\ r \notin due
    /\ r \in due => job[r].op = "str_handoff" /\ OnFile(job[r].draft)

Request(r) == Asked(r) /\ Sweeps(r) /\ Suspects(r) /\ Submits(r)
RequestInv == \A r \in Requests : Request(r)

\* The draft's row, as DraftTellsItsStory has it.
Opened(d) ==
    OnFile(d) => /\ draft[d].consent \in revoked
                 /\ \E r \in Requests : /\ job[r].op = "fraud_revoke" /\ job[r].draft = d
                                        /\ job[r].consent = draft[d].consent /\ Granted(r)

HandedOff(d) ==
    /\ ~OnFile(d) => draft[d].ref = None
    /\ draft[d].status = "handed_off" => draft[d].ref # None
    /\ draft[d].ref # None =>
           LET r == draft[d].ref
           IN  told[r] = 1 /\ job[r].draft = d /\ draft[d].approver = winner[r]

DraftInv == \A d \in Drafts : Opened(d) /\ HandedOff(d)

ConsentInv == marked \cup sent \subseteq revoked

IInv == TypeOK /\ RequestInv /\ DraftInv /\ ConsentInv

LEMMA InitIInv == Init => IInv
<1> SUFFICES ASSUME Init PROVE IInv
    OBVIOUS
<1>1. TypeOK
    BY DEF Init, TypeOK, Gate!Init, Gate!TypeOK, Gate!NoEntry, Gate!Entry, Gate!Verdict,
        Job, NoJob, Step, Draft, NoDraft
<1>2. ASSUME NEW r \in Requests PROVE Request(r)
    <2>1. /\ winner[r] = None /\ entry[r].state = "none" /\ told[r] = 0 /\ r \notin due
          /\ r \notin trail /\ job[r].at = "none" /\ job[r].op = None
          /\ job[r].active = {} /\ job[r].open = {}
        BY DEF Init, Gate!Init, Gate!NoEntry, NoJob
    <2>2. job[r].op # "str_handoff" /\ job[r].op # "fraud_revoke"
        BY RevocationAssumption DEF Init, NoJob, Operation
    <2> QED BY <2>1, <2>2 DEF Request, Asked, Sweeps, Suspects, Submits
<1>3. DraftInv /\ ConsentInv
    BY DEF Init, NoDraft, DraftInv, Opened, HandedOff, OnFile, ConsentInv
<1> QED BY <1>1, <1>2, <1>3 DEF IInv, RequestInv

-----------------------------------------------------------------------------
(* What a step of one request, or of the consents, does not disturb. *)

\* What holds of a request outlives the steps of others: revocations only grow, and a
\* draft on file keeps its consent.
LEMMA RequestKept ==
    ASSUME NEW q \in Requests, Request(q), job \in [Requests -> Job],
           entry'[q] = entry[q], winner'[q] = winner[q], job'[q] = job[q], told'[q] = told[q],
           q \in due' => q \in due, q \in trail' => q \in trail,
           revoked \subseteq revoked',
           \A d \in Drafts : OnFile(d) => OnFile(d)' /\ draft'[d].consent = draft[d].consent
    PROVE  Request(q)'
<1>1. job[q].draft \in Drafts \cup {None} /\ job[q].op \in Operation \cup {None}
    BY DEF Job
<1>2. Asked(q)' /\ Sweeps(q)'
    BY DEF Request, Asked, Sweeps
<1>3. Suspects(q)'
    BY <1>1 DEF Request, Suspects
<1>4. Submits(q)'
    BY <1>1 DEF Request, Submits
<1> QED BY <1>2, <1>3, <1>4 DEF Request

\* A step of r, on its approval row or its job, that leaves the drafts alone: what the
\* rows of the drafts say of r stays true of it.
LEMMA RequestStep ==
    ASSUME IInv, NEW r \in Requests, UNCHANGED draft,
           Gate!TypeOK', job' \in [Requests -> Job], told' \in [Requests -> Nat],
           due' \subseteq due \cup {r}, trail' \subseteq trail \cup {r},
           revoked \subseteq revoked', revoked' \subseteq Consents,
           sent' \cup marked' \subseteq revoked',
           \A q \in Requests \ {r} :
               entry'[q] = entry[q] /\ winner'[q] = winner[q] /\ job'[q] = job[q] /\ told'[q] = told[q],
           Request(r)',
           entry[r].state # "none" => entry'[r].initiator = entry[r].initiator,
           winner[r] # None /\ job[r].op # "bulk_revoke" =>
               /\ winner'[r] = winner[r] /\ job'[r].op = job[r].op
               /\ job'[r].consent = job[r].consent /\ job'[r].draft = job[r].draft,
           told[r] = 1 => told'[r] = 1
    PROVE  IInv'
<1>1. TypeOK'
    BY DEF IInv, TypeOK
<1>2. RequestInv'
    <2> SUFFICES ASSUME NEW q \in Requests \ {r} PROVE Request(q)'
        BY DEF RequestInv
    <2> QED BY RequestKept DEF IInv, TypeOK, RequestInv, OnFile
<1>3. ASSUME NEW q \in Requests, Granted(q), job[q].op # "bulk_revoke"
      PROVE  /\ Granted(q)' /\ winner'[q] = winner[q] /\ job'[q].op = job[q].op
             /\ job'[q].consent = job[q].consent /\ job'[q].draft = job[q].draft
    BY <1>3 DEF IInv, RequestInv, Request, Asked, Granted
<1>4. ASSUME NEW d \in Drafts PROVE Opened(d)'
    BY <1>3 DEF IInv, DraftInv, Opened, OnFile
<1>5. ASSUME NEW d \in Drafts PROVE HandedOff(d)'
    <2>1. CASE draft[d].ref = None
        BY <2>1 DEF IInv, DraftInv, HandedOff, OnFile
    <2>2. CASE draft[d].ref # None
        <3> DEFINE q == draft[d].ref
        <3>1. q \in Requests
            BY <2>2 DEF IInv, TypeOK, Draft
        <3>2. told[q] = 1 /\ job[q].draft = d /\ draft[d].approver = winner[q] /\ OnFile(d)
            BY <2>2 DEF IInv, DraftInv, HandedOff
        <3>3. winner[q] # None /\ job[q].op = "str_handoff"
            BY <3>1, <3>2 DEF IInv, RequestInv, Request, Asked
        <3>4. told'[q] = 1 /\ job'[q].draft = d /\ draft[d].approver = winner'[q]
            BY <3>1, <3>2, <3>3
        <3> QED BY <2>2, <3>2, <3>4 DEF HandedOff, OnFile
    <2> QED BY <2>1, <2>2
<1> QED BY <1>1, <1>2, <1>4, <1>5 DEF IInv, DraftInv, ConsentInv

\* A step of the consents alone.
LEMMA ConsentStep ==
    ASSUME IInv, UNCHANGED <<entry, winner, job, due, draft, told, trail>>,
           revoked \subseteq revoked', revoked' \subseteq Consents,
           sent' \cup marked' \subseteq revoked'
    PROVE  IInv'
<1>1. TypeOK'
    BY DEF IInv, TypeOK, Gate!TypeOK
<1>2. RequestInv'
    <2> SUFFICES ASSUME NEW q \in Requests PROVE Request(q)'
        BY DEF RequestInv
    <2> QED BY RequestKept DEF IInv, TypeOK, RequestInv, OnFile
<1>3. DraftInv'
    BY DEF IInv, DraftInv, Opened, HandedOff, OnFile, Granted
<1> QED BY <1>1, <1>2, <1>3 DEF IInv, ConsentInv

LEMMA SingleStep ==
    ASSUME IInv, Recycle \/ \E x \in Consents : SendOne(x) \/ AckOne(x) \/ DropOne(x)
    PROVE  IInv'
<1>1. /\ UNCHANGED <<entry, winner, job, due, draft, told, trail>>
      /\ revoked \subseteq revoked' /\ revoked' \subseteq Consents
      /\ sent' \cup marked' \subseteq revoked'
    BY DEF IInv, TypeOK, ConsentInv, Recycle, SendOne, AckOne, DropOne, Revoke, Overlay,
        approvalVars, consentVars, strVars
<1> QED BY <1>1, ConsentStep

-----------------------------------------------------------------------------
(* Jobs. *)

LEMMA JobMoves ==
    ASSUME TypeOK, NEW r \in Requests, NEW step \in Step, JobGoes(r, step)
    PROVE  /\ job' \in [Requests -> Job]
           /\ job'[r].at = step /\ job'[r].op = job[r].op /\ job'[r].by = job[r].by
           /\ job'[r].consent = job[r].consent /\ job'[r].draft = job[r].draft
           /\ job'[r].active = job[r].active /\ job'[r].open = job[r].open
           /\ \A q \in Requests \ {r} : job'[q] = job[q]
<1> DEFINE k == [job[r] EXCEPT !.at = step]
<1>1. /\ k \in Job /\ k.at = step /\ k.op = job[r].op /\ k.by = job[r].by
      /\ k.consent = job[r].consent /\ k.draft = job[r].draft
      /\ k.active = job[r].active /\ k.open = job[r].open
    BY DEF TypeOK, Job
<1>2. job' = [job EXCEPT ![r] = k]
    BY DEF JobGoes
<1> HIDE DEF k
<1> QED BY <1>1, <1>2 DEF TypeOK

LEMMA AskRevocationStep ==
    ASSUME IInv, NEW r \in Requests, NEW p \in People, NEW op, NEW x,
           \/ op = "bulk_revoke" /\ x = None
           \/ op = "fraud_revoke" /\ x \in Consents,
           AskRevocation(r, p, op, x)
    PROVE  IInv'
<1> DEFINE k == [NoJob EXCEPT !.op = op, !.at = "asked", !.consent = x]
<1>1. /\ k \in Job /\ k.at = "asked" /\ k.consent = x /\ k.draft = None
      /\ k.active = {} /\ k.open = {}
      /\ k.op \in {"bulk_revoke", "fraud_revoke"} /\ (k.op = "fraud_revoke" => x \in Consents)
    BY DEF NoJob, Job, Step, Operation
<1>2. /\ job[r].at = "none" /\ job' = [job EXCEPT ![r] = k] /\ Request(r)
      /\ UNCHANGED <<revoked, marked, sent, due, draft, told, trail>>
    BY DEF AskRevocation, consentVars, strVars, IInv, RequestInv
<1>3. /\ Gate!TypeOK' /\ winner' = winner
      /\ entry[r].state = "none" /\ entry'[r].state = "pending"
      /\ \A q \in Requests \ {r} : entry'[q] = entry[q]
    BY Gate!Creates DEF AskRevocation, IInv, TypeOK
<1> HIDE DEF k
<1>4. job' \in [Requests -> Job] /\ job'[r] = k /\ \A q \in Requests \ {r} : job'[q] = job[q]
    BY <1>1, <1>2 DEF IInv, TypeOK
<1>5. winner[r] = None /\ told[r] = 0 /\ r \notin due /\ r \notin trail
    BY <1>2 DEF Request, Asked, Submits
<1>6. Asked(r)' /\ Sweeps(r)' /\ Suspects(r)' /\ Submits(r)'
    BY <1>1, <1>2, <1>3, <1>4, <1>5 DEF Asked, Sweeps, Suspects, Submits
<1> QED BY <1>2, <1>3, <1>4, <1>5, <1>6, RequestStep DEF IInv, TypeOK, ConsentInv, Request

LEMMA RefuseStep ==
    ASSUME IInv, NEW r \in Requests, Refuse(r)
    PROVE  IInv'
<1>1. /\ Gate!TypeOK' /\ winner' = winner
      /\ entry'[r].state \in {"approved", "rejected", "timed_out"}
      /\ entry'[r].initiator = entry[r].initiator
      /\ \A q \in Requests \ {r} : entry'[q] = entry[q]
    BY Gate!Writes DEF Refuse, IInv, TypeOK
<1>2. UNCHANGED <<job, revoked, marked, sent, due, draft, told, trail>> /\ Request(r)
    BY DEF Refuse, consentVars, strVars, IInv, RequestInv
<1>3. Asked(r)' /\ Sweeps(r)' /\ Suspects(r)' /\ Submits(r)'
    BY <1>1, <1>2 DEF Request, Asked, Sweeps, Suspects, Submits, OnFile
<1> QED BY <1>1, <1>2, <1>3, RequestStep DEF IInv, TypeOK, ConsentInv, Request

LEMMA GrantStep ==
    ASSUME IInv, NEW r \in Requests, NEW p \in People, Grant(r, p)
    PROVE  IInv'
<1>1. /\ Gate!TypeOK' /\ winner'[r] = p /\ p # entry[r].initiator
      /\ entry[r].state = "pending" /\ entry'[r].state = "approved"
      /\ entry'[r].initiator = entry[r].initiator
      /\ \A q \in Requests \ {r} : entry'[q] = entry[q] /\ winner'[q] = winner[q]
    BY Gate!Grants DEF Grant, IInv, TypeOK
<1>2. /\ UNCHANGED <<revoked, marked, sent, due, draft, told, trail>> /\ Request(r)
      /\ JobGoes(r, "granted")
    BY DEF Grant, consentVars, strVars, IInv, RequestInv
<1>3. /\ job' \in [Requests -> Job]
      /\ job'[r].at = "granted" /\ job'[r].op = job[r].op
      /\ job'[r].consent = job[r].consent /\ job'[r].draft = job[r].draft
      /\ job'[r].active = job[r].active /\ job'[r].open = job[r].open
      /\ \A q \in Requests \ {r} : job'[q] = job[q]
    BY <1>2, JobMoves DEF IInv, Step
<1>4. job[r].at = "asked" /\ winner[r] = None /\ told[r] = 0 /\ p # None
    BY <1>1, <1>2, RevocationAssumption DEF Request, Asked
<1>5. Asked(r)' /\ Sweeps(r)' /\ Suspects(r)' /\ Submits(r)'
    BY <1>1, <1>2, <1>3, <1>4 DEF Request, Asked, Sweeps, Suspects, Submits, OnFile
<1> QED BY <1>1, <1>2, <1>3, <1>4, <1>5, RequestStep DEF IInv, TypeOK, ConsentInv, Request

-----------------------------------------------------------------------------
(* Executions.  A step of r's job under an unchanged approval row. *)

LEMMA JobStep ==
    ASSUME IInv, NEW r \in Requests, UNCHANGED <<entry, winner, draft>>,
           job' \in [Requests -> Job], told' \in [Requests -> Nat],
           \A q \in Requests \ {r} : job'[q] = job[q] /\ told'[q] = told[q],
           due' \subseteq due \cup {r}, trail' \subseteq trail \cup {r},
           revoked \subseteq revoked', revoked' \subseteq Consents,
           sent' \cup marked' \subseteq revoked',
           Request(r)',
           winner[r] # None /\ job[r].op # "bulk_revoke" =>
               /\ job'[r].op = job[r].op /\ job'[r].consent = job[r].consent
               /\ job'[r].draft = job[r].draft,
           told[r] = 1 => told'[r] = 1
    PROVE  IInv'
<1>1. Gate!TypeOK'
    BY DEF IInv, TypeOK, Gate!TypeOK
<1> QED BY <1>1, RequestStep

LEMMA AuditStep ==
    ASSUME IInv, NEW r \in Requests, Audit(r)
    PROVE  IInv'
<1>1. /\ UNCHANGED <<entry, winner, revoked, marked, sent, due, draft, told>> /\ Request(r)
      /\ job[r].at \in {"marked", "drafted"}
      /\ job[r].op = "fraud_revoke" => job[r].at = "drafted"
      /\ trail' = trail \cup {r} /\ JobGoes(r, "audited")
    BY DEF Audit, approvalVars, consentVars, strVars, IInv, RequestInv
<1>2. /\ job' \in [Requests -> Job]
      /\ job'[r].at = "audited" /\ job'[r].op = job[r].op
      /\ job'[r].consent = job[r].consent /\ job'[r].draft = job[r].draft
      /\ job'[r].active = job[r].active /\ job'[r].open = job[r].open
      /\ \A q \in Requests \ {r} : job'[q] = job[q]
    BY <1>1, JobMoves DEF IInv, Step
<1>3. job[r].active \subseteq revoked
    BY <1>1 DEF Request, Sweeps, Submits
<1>4. Asked(r)' /\ Sweeps(r)' /\ Suspects(r)' /\ Submits(r)'
    BY <1>1, <1>2, <1>3 DEF Request, Asked, Sweeps, Suspects, Submits, OnFile
<1> QED BY <1>1, <1>2, <1>4, JobStep DEF IInv, TypeOK, ConsentInv, Request

LEMMA PersistApprovalStep ==
    ASSUME IInv, NEW r \in Requests, PersistApproval(r)
    PROVE  IInv'
<1>1. /\ Gate!TypeOK' /\ winner' = winner
      /\ entry'[r].state \in {"approved", "rejected", "timed_out"}
      /\ entry'[r].initiator = entry[r].initiator
      /\ \A q \in Requests \ {r} : entry'[q] = entry[q]
    BY Gate!Writes DEF PersistApproval, IInv, TypeOK
<1>2. /\ UNCHANGED <<revoked, marked, sent, due, draft, told, trail>> /\ Request(r)
      /\ job[r].at = "audited" /\ JobGoes(r, "done")
    BY DEF PersistApproval, consentVars, strVars, IInv, RequestInv
<1>3. /\ job' \in [Requests -> Job]
      /\ job'[r].at = "done" /\ job'[r].op = job[r].op
      /\ job'[r].consent = job[r].consent /\ job'[r].draft = job[r].draft
      /\ job'[r].active = job[r].active /\ job'[r].open = job[r].open
      /\ \A q \in Requests \ {r} : job'[q] = job[q]
    BY <1>2, JobMoves DEF IInv, Step
<1>4. Asked(r)' /\ Sweeps(r)' /\ Suspects(r)' /\ Submits(r)'
    BY <1>1, <1>2, <1>3 DEF Request, Asked, Sweeps, Suspects, Submits, OnFile
<1> QED BY <1>1, <1>2, <1>3, <1>4, RequestStep DEF IInv, TypeOK, ConsentInv, Request

LEMMA CrashJobStep ==
    ASSUME IInv, NEW r \in Requests, CrashJob(r)
    PROVE  IInv'
<1>1. /\ UNCHANGED <<entry, winner, revoked, marked, sent, due, draft, told, trail>> /\ Request(r)
      /\ job[r].at \in {"checked", "granted", "sent", "marked", "drafted", "audited"}
      /\ JobGoes(r, "failed")
    BY DEF CrashJob, approvalVars, consentVars, strVars, IInv, RequestInv
<1>2. /\ job' \in [Requests -> Job]
      /\ job'[r].at = "failed" /\ job'[r].op = job[r].op
      /\ job'[r].consent = job[r].consent /\ job'[r].draft = job[r].draft
      /\ job'[r].active = job[r].active /\ job'[r].open = job[r].open
      /\ \A q \in Requests \ {r} : job'[q] = job[q]
    BY <1>1, JobMoves DEF IInv, Step
<1>3. Asked(r)' /\ Sweeps(r)' /\ Suspects(r)' /\ Submits(r)'
    BY <1>1, <1>2 DEF Request, Asked, Sweeps, Suspects, Submits, OnFile
<1> QED BY <1>1, <1>2, <1>3, JobStep DEF IInv, TypeOK, ConsentInv, Request

LEMMA BeginSweepStep ==
    ASSUME IInv, NEW r \in Requests, BeginSweep(r)
    PROVE  IInv'
<1> DEFINE k == [job[r] EXCEPT !.at = "sent", !.active = Consents \ marked,
                               !.open = Consents \ marked]
<1>1. /\ UNCHANGED <<entry, winner, revoked, marked, sent, due, draft, told, trail>> /\ Request(r)
      /\ job[r].op = "bulk_revoke" /\ job[r].at = "granted" /\ job' = [job EXCEPT ![r] = k]
    BY DEF BeginSweep, Doing, approvalVars, consentVars, strVars, IInv, RequestInv
<1>2. /\ k \in Job /\ k.at = "sent" /\ k.op = "bulk_revoke" /\ k.active = k.open
      /\ k.draft = job[r].draft
    BY <1>1 DEF IInv, TypeOK, Job, Step
<1> HIDE DEF k
<1>3. job' \in [Requests -> Job] /\ job'[r] = k /\ \A q \in Requests \ {r} : job'[q] = job[q]
    BY <1>1, <1>2 DEF IInv, TypeOK
<1>4. Asked(r)' /\ Sweeps(r)' /\ Suspects(r)' /\ Submits(r)'
    BY <1>1, <1>2, <1>3 DEF Request, Asked, Sweeps, Suspects, Submits, OnFile
<1> QED BY <1>1, <1>3, <1>4, JobStep DEF IInv, TypeOK, ConsentInv, Request

\* An egress of a sweep is answered, whatever of it arrived.
LEMMA EgressStep ==
    ASSUME IInv, NEW r \in Requests, NEW x \in job[r].open, NEW step \in Step,
           UNCHANGED <<entry, winner, marked, sent, due, draft, told, trail>>,
           job' = [job EXCEPT ![r].at = step, ![r].open = @ \ {x}],
           \/ step = job[r].at /\ revoked' = revoked \cup {x}
           \/ step = "failed" /\ revoked \subseteq revoked',
           revoked' \subseteq revoked \cup {x}
    PROVE  IInv'
<1> DEFINE k == [job[r] EXCEPT !.at = step, !.open = @ \ {x}]
<1>1. k \in Job /\ k.at = step /\ k.op = job[r].op /\ k.by = job[r].by /\ k.draft = job[r].draft
      /\ k.active = job[r].active /\ k.open = job[r].open \ {x} /\ x \in Consents
    BY DEF IInv, TypeOK, Job
<1>2. job' = [job EXCEPT ![r] = k]
    OBVIOUS
<1> HIDE DEF k
<1>3. job' \in [Requests -> Job] /\ job'[r] = k /\ \A q \in Requests \ {r} : job'[q] = job[q]
    BY <1>1, <1>2 DEF IInv, TypeOK
<1>4. Request(r) /\ job[r].op = "bulk_revoke" /\ winner[r] # None
    BY DEF IInv, RequestInv, Request, Sweeps
<1>5. Asked(r)' /\ Sweeps(r)' /\ Suspects(r)' /\ Submits(r)'
    BY <1>1, <1>3, <1>4 DEF Request, Asked, Sweeps, Suspects, Submits, OnFile
<1> QED BY <1>1, <1>3, <1>4, <1>5, JobStep DEF IInv, TypeOK, ConsentInv, Request

LEMMA SweepStep ==
    ASSUME IInv, NEW r \in Requests, NEW x \in Consents, SweepOne(r, x) \/ SweepFails(r, x)
    PROVE  IInv'
<1>1. UNCHANGED <<entry, winner, marked, sent, due, draft, told, trail>> /\ x \in job[r].open
    BY DEF SweepOne, SweepFails, approvalVars, strVars
<1>2. CASE SweepOne(r, x)
    <2>1. job[r].at \in Step
        BY DEF IInv, TypeOK, Job
    <2>2. job' = [job EXCEPT ![r].at = job[r].at, ![r].open = @ \ {x}]
        BY <1>2 DEF SweepOne, IInv, TypeOK, Job
    <2> QED BY <1>1, <1>2, <2>1, <2>2, EgressStep DEF SweepOne, Revoke
<1>3. CASE SweepFails(r, x)
    <2>1. "failed" \in Step /\ job' = [job EXCEPT ![r].at = "failed", ![r].open = @ \ {x}]
        BY <1>3 DEF SweepFails, Step
    <2>2. revoked \subseteq revoked' /\ revoked' \subseteq revoked \cup {x}
        BY <1>3 DEF SweepFails, Revoke
    <2> QED BY <1>1, <2>1, <2>2, EgressStep
<1> QED BY <1>2, <1>3

LEMMA EndSweepStep ==
    ASSUME IInv, NEW r \in Requests, EndSweep(r)
    PROVE  IInv'
<1>1. /\ UNCHANGED <<entry, winner, revoked, sent, due, draft, told, trail>> /\ Request(r)
      /\ job[r].op = "bulk_revoke" /\ job[r].at = "sent" /\ job[r].open = {}
      /\ marked' = marked \cup job[r].active /\ JobGoes(r, "marked")
    BY DEF EndSweep, EndSweepEarly, Doing, Overlay, approvalVars, strVars, IInv, RequestInv
<1>2. /\ job' \in [Requests -> Job]
      /\ job'[r].at = "marked" /\ job'[r].op = job[r].op
      /\ job'[r].consent = job[r].consent /\ job'[r].draft = job[r].draft
      /\ job'[r].active = job[r].active /\ job'[r].open = job[r].open
      /\ \A q \in Requests \ {r} : job'[q] = job[q]
    BY <1>1, JobMoves DEF IInv, Step
<1>3. job[r].active \subseteq revoked
    BY <1>1 DEF Request, Sweeps
<1>4. Asked(r)' /\ Sweeps(r)' /\ Suspects(r)' /\ Submits(r)'
    BY <1>1, <1>2 DEF Request, Asked, Sweeps, Suspects, Submits, OnFile
<1> QED BY <1>1, <1>2, <1>3, <1>4, JobStep DEF IInv, TypeOK, ConsentInv, Request

LEMMA RevokeSuspectStep ==
    ASSUME IInv, NEW r \in Requests, RevokeSuspect(r)
    PROVE  IInv'
<1>1. PICK step \in {"sent", "failed"} : JobGoes(r, step)
    BY DEF RevokeSuspect, MayFailAfter
<1>2. /\ UNCHANGED <<entry, winner, marked, sent, due, draft, told, trail>> /\ Request(r)
      /\ job[r].op = "fraud_revoke" /\ job[r].at = "granted"
      /\ revoked' = revoked \cup {job[r].consent}
    BY DEF RevokeSuspect, Doing, Revoke, approvalVars, strVars, IInv, RequestInv
<1>3. /\ job' \in [Requests -> Job]
      /\ job'[r].at = step /\ job'[r].op = job[r].op
      /\ job'[r].consent = job[r].consent /\ job'[r].draft = job[r].draft
      /\ job'[r].active = job[r].active /\ job'[r].open = job[r].open
      /\ \A q \in Requests \ {r} : job'[q] = job[q]
    BY <1>1, JobMoves DEF IInv, Step
<1>4. job[r].consent \in Consents
    BY <1>2 DEF Request, Suspects
<1>5. Asked(r)' /\ Sweeps(r)' /\ Suspects(r)' /\ Submits(r)'
    BY <1>2, <1>3 DEF Request, Asked, Sweeps, Suspects, Submits, OnFile
<1> QED BY <1>2, <1>3, <1>4, <1>5, JobStep DEF IInv, TypeOK, ConsentInv, Request

LEMMA MarkSuspectStep ==
    ASSUME IInv, NEW r \in Requests, MarkSuspect(r)
    PROVE  IInv'
<1>1. /\ UNCHANGED <<entry, winner, revoked, sent, due, draft, told, trail>> /\ Request(r)
      /\ job[r].op = "fraud_revoke" /\ job[r].at = "sent"
      /\ marked' = marked \cup {job[r].consent} /\ JobGoes(r, "marked")
    BY DEF MarkSuspect, Doing, Overlay, approvalVars, strVars, IInv, RequestInv
<1>2. /\ job' \in [Requests -> Job]
      /\ job'[r].at = "marked" /\ job'[r].op = job[r].op
      /\ job'[r].consent = job[r].consent /\ job'[r].draft = job[r].draft
      /\ job'[r].active = job[r].active /\ job'[r].open = job[r].open
      /\ \A q \in Requests \ {r} : job'[q] = job[q]
    BY <1>1, JobMoves DEF IInv, Step
<1>3. job[r].consent \in revoked
    BY <1>1 DEF Request, Suspects
<1>4. Sweeps(r)'
    BY <1>1, <1>2 DEF Request, Sweeps
<1>5. Asked(r)' /\ Suspects(r)' /\ Submits(r)'
    BY <1>1, <1>2 DEF Request, Asked, Suspects, Submits, OnFile
<1> QED BY <1>1, <1>2, <1>3, <1>4, <1>5, JobStep DEF IInv, TypeOK, ConsentInv, Request

-----------------------------------------------------------------------------
(* Submits and handoffs. *)

LEMMA CheckDraftStep ==
    ASSUME IInv, NEW r \in Requests, NEW p \in People, NEW d \in Drafts, CheckDraft(r, p, d)
    PROVE  IInv'
<1> DEFINE k == [NoJob EXCEPT !.op = "str_handoff", !.at = "checked", !.by = p, !.draft = d]
<1>1. /\ k \in Job /\ k.op = "str_handoff" /\ k.at = "checked" /\ k.by = p /\ k.draft = d
      /\ k.active = {} /\ k.open = {}
    BY DEF NoJob, Job, Step, Operation
<1>2. /\ UNCHANGED <<entry, winner, revoked, marked, sent, due, draft, told, trail>> /\ Request(r)
      /\ job[r].at = "none" /\ OnFile(d) /\ job' = [job EXCEPT ![r] = k]
    BY DEF CheckDraft, OnFile, approvalVars, consentVars, strVars, IInv, RequestInv
<1> HIDE DEF k
<1>3. job' \in [Requests -> Job] /\ job'[r] = k /\ \A q \in Requests \ {r} : job'[q] = job[q]
    BY <1>1, <1>2 DEF IInv, TypeOK
<1>4. winner[r] = None /\ told[r] = 0 /\ r \notin due /\ r \notin trail /\ entry[r].state # "pending"
    BY <1>2 DEF Request, Asked, Submits
<1>5. Asked(r)' /\ Sweeps(r)' /\ Suspects(r)' /\ Submits(r)'
    BY <1>1, <1>2, <1>3, <1>4 DEF Asked, Sweeps, Suspects, Submits, OnFile
<1> QED BY <1>2, <1>3, <1>4, <1>5, JobStep DEF IInv, TypeOK, ConsentInv, Request

LEMMA AskHandoffStep ==
    ASSUME IInv, NEW r \in Requests, AskHandoff(r)
    PROVE  IInv'
<1> DEFINE k == [job[r] EXCEPT !.at = "asked", !.by = None]
<1>1. /\ UNCHANGED <<revoked, marked, sent, draft, told, trail>> /\ Request(r)
      /\ due' = due \cup {r}
      /\ job[r].op = "str_handoff" /\ job[r].at = "checked" /\ job' = [job EXCEPT ![r] = k]
    BY DEF AskHandoff, Doing, consentVars, IInv, RequestInv
<1>2. /\ Gate!TypeOK' /\ winner' = winner
      /\ entry[r].state = "none" /\ entry'[r].state = "pending"
      /\ \A q \in Requests \ {r} : entry'[q] = entry[q]
    <2>1. job[r].by \in People
        BY <1>1 DEF Request, Submits
    <2> QED BY <2>1, Gate!Creates DEF AskHandoff, IInv, TypeOK
<1>3. /\ k \in Job /\ k.op = "str_handoff" /\ k.at = "asked" /\ k.draft = job[r].draft
      /\ k.active = job[r].active /\ k.open = job[r].open
    BY <1>1 DEF IInv, TypeOK, Job, Step
<1> HIDE DEF k
<1>4. job' \in [Requests -> Job] /\ job'[r] = k /\ \A q \in Requests \ {r} : job'[q] = job[q]
    BY <1>1, <1>3 DEF IInv, TypeOK
<1>5. winner[r] = None /\ told[r] = 0 /\ r \notin trail /\ OnFile(job[r].draft)
      /\ job[r].draft \in Drafts
    BY <1>1 DEF Request, Asked, Submits
<1>6. Asked(r)' /\ Sweeps(r)'
    BY <1>1, <1>2, <1>3, <1>4, <1>5 DEF Request, Asked, Sweeps
<1>7. Suspects(r)' /\ Submits(r)'
    BY <1>1, <1>3, <1>4, <1>5 DEF Suspects, Submits, OnFile
<1> QED BY <1>1, <1>2, <1>4, <1>5, <1>6, <1>7, RequestStep DEF IInv, TypeOK, ConsentInv, Request

LEMMA AskHandoffDirectlyStep ==
    ASSUME IInv, NEW r \in Requests, NEW p \in People, NEW d \in Drafts,
           AskHandoffDirectly(r, p, d)
    PROVE  IInv'
<1> DEFINE k == [NoJob EXCEPT !.op = "str_handoff", !.at = "asked", !.draft = d]
<1>1. /\ k \in Job /\ k.op = "str_handoff" /\ k.at = "asked" /\ k.draft = d
      /\ k.active = {} /\ k.open = {}
    BY DEF NoJob, Job, Step, Operation
<1>2. /\ UNCHANGED <<revoked, marked, sent, due, draft, told, trail>> /\ Request(r)
      /\ job[r].at = "none" /\ job' = [job EXCEPT ![r] = k]
    BY DEF AskHandoffDirectly, consentVars, strVars, IInv, RequestInv
<1>3. /\ Gate!TypeOK' /\ winner' = winner
      /\ entry[r].state = "none" /\ entry'[r].state = "pending"
      /\ \A q \in Requests \ {r} : entry'[q] = entry[q]
    BY Gate!Creates DEF AskHandoffDirectly, IInv, TypeOK
<1> HIDE DEF k
<1>4. job' \in [Requests -> Job] /\ job'[r] = k /\ \A q \in Requests \ {r} : job'[q] = job[q]
    BY <1>1, <1>2 DEF IInv, TypeOK
<1>5. winner[r] = None /\ told[r] = 0 /\ r \notin due /\ r \notin trail
    BY <1>2 DEF Request, Asked, Submits
<1>6. Asked(r)' /\ Sweeps(r)' /\ Suspects(r)' /\ Submits(r)'
    BY <1>1, <1>2, <1>3, <1>4, <1>5 DEF Asked, Sweeps, Suspects, Submits
<1> QED BY <1>2, <1>3, <1>4, <1>5, <1>6, RequestStep DEF IInv, TypeOK, ConsentInv, Request

LEMMA DropMarkStep ==
    ASSUME IInv, NEW r \in Requests, DropMark(r)
    PROVE  IInv'
<1>1. /\ UNCHANGED <<entry, winner, job, revoked, marked, sent, draft, told, trail>> /\ Request(r)
      /\ due' = due \ {r}
    BY DEF DropMark, approvalVars, consentVars, IInv, RequestInv
<1>2. Asked(r)' /\ Sweeps(r)' /\ Suspects(r)' /\ Submits(r)'
    BY <1>1 DEF Request, Asked, Sweeps, Suspects, Submits, OnFile
<1> QED BY <1>1, <1>2, JobStep DEF IInv, TypeOK, ConsentInv, Request

LEMMA HandoffStep ==
    ASSUME IInv, NEW r \in Requests, Handoff(r)
    PROVE  IInv'
<1>1. PICK step \in {"sent", "failed"} : JobGoes(r, step)
    BY DEF Handoff, MayFailAfter
<1>2. /\ UNCHANGED <<entry, winner, revoked, marked, sent, due, draft, trail>> /\ Request(r)
      /\ job[r].op = "str_handoff" /\ job[r].at = "granted"
      /\ told' = [told EXCEPT ![r] = @ + 1]
    BY DEF Handoff, Doing, approvalVars, consentVars, IInv, RequestInv
<1>3. /\ job' \in [Requests -> Job]
      /\ job'[r].at = step /\ job'[r].op = job[r].op
      /\ job'[r].consent = job[r].consent /\ job'[r].draft = job[r].draft
      /\ job'[r].active = job[r].active /\ job'[r].open = job[r].open
      /\ \A q \in Requests \ {r} : job'[q] = job[q]
    BY <1>1, JobMoves DEF IInv, Step
<1>4. told[r] = 0 /\ winner[r] # None
    BY <1>2 DEF Request, Asked
<1>5. /\ told' \in [Requests -> Nat] /\ told'[r] = 1
      /\ \A q \in Requests \ {r} : told'[q] = told[q]
    BY <1>2, <1>4 DEF IInv, TypeOK
<1>6. Asked(r)' /\ Sweeps(r)' /\ Suspects(r)' /\ Submits(r)'
    BY <1>2, <1>3, <1>4, <1>5 DEF Request, Asked, Sweeps, Suspects, Submits, OnFile
<1> QED BY <1>2, <1>3, <1>4, <1>5, <1>6, JobStep DEF IInv, TypeOK, ConsentInv, Request

-----------------------------------------------------------------------------
(* Steps that write the row of a draft. *)

LEMMA DraftStep ==
    ASSUME IInv, NEW r \in Requests, NEW d \in Drafts, NEW e \in Draft,
           draft' = [draft EXCEPT ![d] = e],
           e.status # "none", OnFile(d) => e.consent = draft[d].consent,
           UNCHANGED <<entry, winner, revoked, marked, sent, told, trail>>,
           due' \subseteq due, job' \in [Requests -> Job],
           \A q \in Requests \ {r} : job'[q] = job[q],
           job'[r].op = job[r].op, job'[r].consent = job[r].consent,
           job[r].draft # None => job'[r].draft = job[r].draft,
           Request(r)', Opened(d)', HandedOff(d)'
    PROVE  IInv'
<1>1. TypeOK'
    BY DEF IInv, TypeOK, Gate!TypeOK
<1>2. draft'[d] = e /\ \A b \in Drafts \ {d} : draft'[b] = draft[b]
    BY DEF IInv, TypeOK
<1>3. RequestInv'
    <2> SUFFICES ASSUME NEW q \in Requests \ {r} PROVE Request(q)'
        BY DEF RequestInv
    <2> QED BY <1>2, RequestKept DEF IInv, TypeOK, RequestInv, OnFile
<1>4. ASSUME NEW b \in Drafts \ {d} PROVE Opened(b)' /\ HandedOff(b)'
    <2>1. ASSUME NEW q \in Requests, job[q].draft = b
          PROVE  job'[q].draft = b /\ job'[q].op = job[q].op /\ job'[q].consent = job[q].consent
        BY <2>1, RevocationAssumption
    <2>2. Opened(b)'
        BY <1>2, <2>1 DEF IInv, DraftInv, Opened, OnFile, Granted
    <2>3. draft[b].ref \in Requests \cup {None}
        BY DEF IInv, TypeOK, Draft
    <2>4. HandedOff(b)'
        BY <1>2, <2>1, <2>3 DEF IInv, DraftInv, HandedOff, OnFile
    <2> QED BY <2>2, <2>4
<1> QED BY <1>1, <1>3, <1>4 DEF IInv, DraftInv, ConsentInv

LEMMA RecordDraftStep ==
    ASSUME IInv, NEW r \in Requests, NEW d \in Drafts, RecordDraft(r, d)
    PROVE  IInv'
<1>1. PICK step \in {"drafted", "failed"} : job' = [job EXCEPT ![r].at = step, ![r].draft = d]
    BY DEF RecordDraft
<1> DEFINE k == [job[r] EXCEPT !.at = step, !.draft = d]
           e == [draft[d] EXCEPT !.status = "draft", !.consent = job[r].consent]
<1>2. /\ UNCHANGED <<entry, winner, revoked, marked, sent, due, told, trail>> /\ Request(r)
      /\ job[r].op = "fraud_revoke" /\ job[r].at = "marked" /\ ~OnFile(d)
      /\ draft' = [draft EXCEPT ![d] = e] /\ job' = [job EXCEPT ![r] = k]
    BY <1>1 DEF RecordDraft, Doing, approvalVars, consentVars, IInv, RequestInv
<1>3. /\ k \in Job /\ k.at = step /\ k.op = "fraud_revoke" /\ k.draft = d
      /\ k.consent = job[r].consent /\ k.active = job[r].active /\ k.open = job[r].open
    BY <1>2 DEF IInv, TypeOK, Job, Step
<1>4. e \in Draft /\ e.status = "draft" /\ e.consent = job[r].consent /\ e.ref = draft[d].ref
    BY DEF IInv, TypeOK, Draft, Job
<1> HIDE DEF k, e
<1>5. /\ job' \in [Requests -> Job] /\ job'[r] = k /\ \A q \in Requests \ {r} : job'[q] = job[q]
      /\ draft'[d] = e
    BY <1>2, <1>3, <1>4 DEF IInv, TypeOK
<1>6. /\ winner[r] # None /\ winner[r] # entry[r].initiator /\ r \notin due /\ r \notin trail
      /\ job[r].draft = None /\ job[r].consent \in revoked /\ told[r] # 1
    BY <1>2 DEF Request, Asked, Suspects, Submits
<1>7. Asked(r)' /\ Sweeps(r)'
    BY <1>2, <1>3, <1>5 DEF Request, Asked, Sweeps
<1>8. Suspects(r)' /\ Submits(r)'
    BY <1>2, <1>3, <1>4, <1>5, <1>6, RevocationAssumption DEF Request, Suspects, Submits, OnFile
<1>9. Opened(d)'
    BY <1>2, <1>3, <1>4, <1>5, <1>6 DEF Opened, Granted
<1>10. HandedOff(d)'
    BY <1>2, <1>4, <1>5 DEF IInv, DraftInv, HandedOff, OnFile
<1> QED BY <1>2, <1>3, <1>4, <1>5, <1>6, <1>7, <1>8, <1>9, <1>10, DraftStep DEF Request

LEMMA MarkAwaitingStep ==
    ASSUME IInv, NEW r \in Requests, MarkAwaiting(r)
    PROVE  IInv'
<1>1. PICK d \in Drafts : d = job[r].draft /\ OnFile(d) /\ job[r].op = "str_handoff"
    BY DEF MarkAwaiting, IInv, RequestInv, Request, Submits
<1> DEFINE e == [draft[d] EXCEPT !.status = "awaiting_handoff", !.approval = r]
<1>2. /\ UNCHANGED <<entry, winner, job, revoked, marked, sent, told, trail>> /\ Request(r)
      /\ r \in due /\ due' = due \ {r} /\ draft' = [draft EXCEPT ![d] = e]
    BY <1>1 DEF MarkAwaiting, approvalVars, consentVars, IInv, RequestInv
<1>3. /\ e \in Draft /\ e.status = "awaiting_handoff" /\ e.consent = draft[d].consent
      /\ e.ref = draft[d].ref /\ e.approver = draft[d].approver
    <2>1. draft[d] \in Draft
        BY DEF IInv, TypeOK
    <2> QED BY <2>1 DEF Draft
<1> HIDE DEF e
<1>4. draft'[d] = e /\ \A b \in Drafts \ {d} : draft'[b] = draft[b]
    BY <1>2 DEF IInv, TypeOK
<1>5. Request(r)'
    BY <1>1, <1>2, <1>3, <1>4 DEF Request, Asked, Sweeps, Suspects, Submits, OnFile
<1>6. Opened(d) /\ HandedOff(d)
    BY DEF IInv, DraftInv
<1>7. Opened(d)'
    BY <1>1, <1>2, <1>3, <1>4, <1>6 DEF Opened, Granted
<1>8. HandedOff(d)'
    BY <1>1, <1>2, <1>3, <1>4, <1>6 DEF HandedOff, OnFile
<1>9. job' \in [Requests -> Job] /\ OnFile(d)'
    BY <1>2, <1>3, <1>4 DEF IInv, TypeOK, OnFile
<1> QED BY <1>2, <1>3, <1>5, <1>7, <1>8, <1>9, DraftStep

LEMMA MarkHandedOffStep ==
    ASSUME IInv, NEW r \in Requests, MarkHandedOff(r)
    PROVE  IInv'
<1>1. PICK d \in Drafts : d = job[r].draft /\ told[r] = 1 /\ winner[r] \in People
    BY DEF MarkHandedOff, MarkHandedOffBy, Doing, IInv, RequestInv, Request, Submits, Asked,
        TypeOK, Gate!TypeOK
<1> DEFINE e == [draft[d] EXCEPT !.status = "handed_off", !.ref = r, !.approver = winner[r]]
<1>2. /\ UNCHANGED <<entry, winner, revoked, marked, sent, due, told, trail>> /\ Request(r)
      /\ job[r].op = "str_handoff" /\ job[r].at = "sent" /\ JobGoes(r, "marked")
      /\ draft' = IF OnFile(d) THEN [draft EXCEPT ![d] = e] ELSE draft
    BY <1>1 DEF MarkHandedOff, MarkHandedOffBy, Doing, approvalVars, consentVars, IInv, RequestInv
<1>3. /\ job' \in [Requests -> Job]
      /\ job'[r].at = "marked" /\ job'[r].op = job[r].op
      /\ job'[r].consent = job[r].consent /\ job'[r].draft = d
      /\ job'[r].active = job[r].active /\ job'[r].open = job[r].open
      /\ \A q \in Requests \ {r} : job'[q] = job[q]
    BY <1>1, <1>2, JobMoves DEF IInv, Step
<1>4. /\ e \in Draft /\ e.status = "handed_off" /\ e.consent = draft[d].consent
      /\ e.ref = r /\ e.approver = winner[r]
    <2>1. draft[d] \in Draft
        BY DEF IInv, TypeOK
    <2> QED BY <1>1, <2>1 DEF Draft
<1>5. \A b \in Drafts : OnFile(b) => OnFile(b)'
    BY <1>1, <1>2, <1>4 DEF IInv, TypeOK, OnFile
<1>6. Sweeps(r)'
    BY <1>2, <1>3 DEF Request, Sweeps
<1>7. Asked(r)' /\ Suspects(r)' /\ Submits(r)'
    BY <1>1, <1>2, <1>3, <1>5 DEF Request, Asked, Suspects, Submits
<1> HIDE DEF e
<1>8. CASE OnFile(d)
    <2>1. draft' = [draft EXCEPT ![d] = e] /\ draft'[d] = e
        BY <1>1, <1>2, <1>8 DEF IInv, TypeOK
    <2>2. HandedOff(d)'
        BY <1>1, <1>2, <1>3, <1>4, <2>1, RevocationAssumption DEF HandedOff, OnFile
    <2>3. Opened(d)
        BY <1>1 DEF IInv, DraftInv
    <2>4. PICK q \in Requests : /\ job[q].op = "fraud_revoke" /\ job[q].draft = d
                                /\ job[q].consent = draft[d].consent /\ Granted(q)
        BY <1>8, <2>3 DEF Opened
    <2>5. Opened(d)'
        BY <1>2, <1>3, <1>4, <1>8, <2>1, <2>3, <2>4 DEF Opened, Granted
    <2> QED BY <1>1, <1>2, <1>3, <1>4, <1>6, <1>7, <2>1, <2>2, <2>5, DraftStep DEF Request
<1>9. CASE ~OnFile(d)
    BY <1>1, <1>2, <1>3, <1>6, <1>7, <1>9, JobStep DEF IInv, TypeOK, ConsentInv, Request
<1> QED BY <1>8, <1>9

-----------------------------------------------------------------------------
LEMMA NextIInv == IInv /\ [Next]_vars => IInv'
<1> SUFFICES ASSUME IInv, [Next]_vars PROVE IInv'
    OBVIOUS
<1>1. CASE UNCHANGED vars
    BY <1>1, ConsentStep DEF vars, approvalVars, consentVars, strVars, IInv, TypeOK, ConsentInv
<1>2. CASE Recycle \/ \E x \in Consents : SendOne(x) \/ AckOne(x) \/ DropOne(x)
    BY <1>2, SingleStep
<1>3. ASSUME NEW r \in Requests, Refuse(r) \/ AskHandoff(r) \/ MarkAwaiting(r) \/ DropMark(r)
      PROVE  IInv'
    BY <1>3, RefuseStep, AskHandoffStep, MarkAwaitingStep, DropMarkStep
<1>4. ASSUME NEW r \in Requests, Executes(r) PROVE IInv'
    BY <1>4, BeginSweepStep, EndSweepStep, SweepStep, RevokeSuspectStep, MarkSuspectStep,
        RecordDraftStep, HandoffStep, MarkHandedOffStep, AuditStep, PersistApprovalStep,
        CrashJobStep DEF Executes
<1>5. ASSUME NEW r \in Requests, NEW p \in People, Asks(r, p) \/ Grant(r, p) PROVE IInv'
    BY <1>5, AskRevocationStep, CheckDraftStep, AskHandoffDirectlyStep, GrantStep
       DEF Asks, AskBulk, AskFraud
<1> QED BY <1>1, <1>2, <1>3, <1>4, <1>5 DEF Next

\* Every variable of the model keeps to its type.
THEOREM TypeCorrectness == Spec => []TypeOK
<1>1. IInv => TypeOK
    BY DEF IInv
<1> QED BY InitIInv, NextIInv, <1>1, PTL DEF Spec

\* Whatever requests, sweeps and single revocations overlap, and whichever of them die:
\* a consent that the directory or an event calls revoked was revoked by the Consent
\* Manager, and the draft an event names is on file for its consent.
THEOREM SaidIsRevoked == Spec => []RevokedWhereSaid
<1>1. IInv => RevokedWhereSaid
    <2> SUFFICES ASSUME IInv, NEW r \in trail
                 PROVE  /\ marked \cup sent \subseteq revoked
                        /\ job[r].active \subseteq revoked
                        /\ job[r].op = "fraud_revoke" =>
                               /\ job[r].consent \in revoked
                               /\ job[r].draft # None
                               /\ draft[job[r].draft].consent = job[r].consent
        BY DEF RevokedWhereSaid, IInv, ConsentInv
    <2>1. Request(r)
        BY DEF IInv, TypeOK, RequestInv
    <2> QED BY <2>1 DEF IInv, ConsentInv, Request, Sweeps, Suspects
<1> QED BY InitIInv, NextIInv, <1>1, PTL DEF Spec

\* P10 is told once, under a second human's grant; a draft was opened by a granted fraud
\* revocation, and the reference and the approver on it are of one handoff of it, with
\* however many submits and handoffs of the same draft under way.
THEOREM DraftsTellTheTruth == Spec => []DraftTellsItsStory
<1>1. IInv => DraftTellsItsStory
    <2> SUFFICES ASSUME IInv PROVE DraftTellsItsStory
        OBVIOUS
    <2>1. \A r \in Requests : told[r] <= 1 /\ (told[r] = 1 => Granted(r))
        <3> SUFFICES ASSUME NEW r \in Requests PROVE told[r] <= 1 /\ (told[r] = 1 => Granted(r))
            OBVIOUS
        <3>1. Asked(r)
            BY DEF IInv, RequestInv, Request
        <3>2. told[r] = 0 \/ told[r] = 1
            BY <3>1 DEF Asked
        <3>3. told[r] = 1 => Granted(r)
            BY <3>1 DEF Asked, Granted
        <3> QED BY <3>2, <3>3
    <2>2. \A d \in Drafts : Opened(d) /\ HandedOff(d)
        BY DEF IInv, DraftInv
    <2> QED BY <2>1, <2>2 DEF DraftTellsItsStory, Opened, HandedOff
<1> QED BY InitIInv, NextIInv, <1>1, PTL DEF Spec
=============================================================================
