--------------------------- MODULE DisputesProofs ---------------------------
(***************************************************************************)
(* Theorems about Disputes, for every set of requests, humans, cases,      *)
(* calls, consents and amounts: a refund leaves once for a grant of a second human,  *)
(* and a case that says it was refunded was.                               *)
(***************************************************************************)
EXTENDS Disputes, TLAPS

-----------------------------------------------------------------------------
(* The inductive invariant. *)

\* A request and its execution: a grant is a second human's, it comes once, since what
\* it makes of the row is never pending again, and what was paid was paid under it.
Request(r) ==
    /\ winner[r] # None => winner[r] # entry[r].initiator /\ entry[r].state # "none"
    /\ entry[r].state = "pending" => job[r].at = "asked"
    /\ job[r].at = "unblocked" => job[r].by \in People
    /\ job[r].at # "none" => job[r].case \in Cases /\ job[r].amount \in Amounts
    /\ job[r].at \in {"none", "unblocked", "asked", "granted"} => paid[r] = 0
    /\ job[r].at \in {"paid", "marked", "audited"} => paid[r] = 1
    /\ paid[r] \in {0, 1}
    /\ paid[r] = 1 \/ job[r].at = "granted" => winner[r] # None

RequestInv == \A r \in Requests : Request(r)

\* A PATCH that was checked is about a case on file, and asks for no refund.
Checked(c) ==
    call[c].at = "checked" =>
        /\ call[c].case \in Cases
        /\ OnFile(call[c].case)
        /\ call[c].state # "refund_initiated"

CallInv == \A c \in Calls : Checked(c)

IInv == TypeOK /\ RequestInv /\ CallInv /\ RowIsBackedByP6

LEMMA InitIInv == Init => IInv
<1> SUFFICES ASSUME Init PROVE IInv
    OBVIOUS
<1>1. TypeOK
    BY DEF Init, TypeOK, Gate!Init, Gate!TypeOK, Gate!NoEntry, Gate!Entry, Gate!Verdict,
        Job, JobStep, Row, Call, Idle
<1>2. ASSUME NEW r \in Requests PROVE Request(r)
    <2>1. winner[r] = None /\ entry[r].state = "none" /\ job[r].at = "none" /\ paid[r] = 0
        BY DEF Init, Gate!Init, Gate!NoEntry
    <2> QED BY <2>1 DEF Request
<1>3. CallInv
    BY DEF Init, CallInv, Checked, Idle
<1>4. RowIsBackedByP6
    BY DEF Init, RowIsBackedByP6, OnFile
<1> QED BY <1>1, <1>2, <1>3, <1>4 DEF IInv, RequestInv

-----------------------------------------------------------------------------
(* The refund.  What a step of one request does to the others is nothing. *)

\* The steps of a request that leave the cases alone.
LEMMA RequestStep ==
    ASSUME IInv, NEW r \in Requests,
           Gate!TypeOK', job' \in [Requests -> Job], paid' \in [Requests -> Nat],
           trail' \subseteq Requests, UNCHANGED <<row, call, linked>>,
           \A q \in Requests \ {r} :
               entry'[q] = entry[q] /\ winner'[q] = winner[q] /\ job'[q] = job[q] /\ paid'[q] = paid[q],
           Request(r)',
           paid[r] = 1 => /\ paid'[r] = 1 /\ job'[r].case = job[r].case
                          /\ job'[r].amount = job[r].amount
    PROVE  IInv'
<1>1. TypeOK'
    BY DEF IInv, TypeOK
<1>2. RequestInv'
    BY DEF IInv, RequestInv, Request
<1>3. CallInv'
    BY DEF IInv, CallInv, Checked, OnFile
<1>4. RowIsBackedByP6'
    BY DEF IInv, RowIsBackedByP6, OnFile
<1> QED BY <1>1, <1>2, <1>3, <1>4 DEF IInv

\* The fields of a request's job and of its row after a step.
LEMMA JobMoves ==
    ASSUME TypeOK, NEW r \in Requests, NEW step \in JobStep, JobAt(r, step) \/ JobGoes(r, step)
    PROVE  /\ job' \in [Requests -> Job]
           /\ job'[r].at = step /\ job'[r].case = job[r].case /\ job'[r].amount = job[r].amount
           /\ \A q \in Requests \ {r} : job'[q] = job[q]
<1>1. CASE JobAt(r, step)
    <2> DEFINE k == [job[r] EXCEPT !.at = step, !.by = None]
    <2>1. k \in Job /\ k.at = step /\ k.case = job[r].case /\ k.amount = job[r].amount
        BY DEF TypeOK, Job
    <2>2. job' = [job EXCEPT ![r] = k]
        BY <1>1 DEF JobAt
    <2> HIDE DEF k
    <2> QED BY <2>1, <2>2 DEF TypeOK
<1>2. CASE JobGoes(r, step)
    BY <1>2 DEF JobGoes, TypeOK, Job
<1> QED BY <1>1, <1>2

LEMMA PayloadFiles ==
    ASSUME TypeOK, NEW r \in Requests, NEW p \in People \cup {None}, NEW d \in Cases, NEW k \in Consents,
           NEW m \in Amounts, NEW step \in JobStep,
           job' = [job EXCEPT ![r] = Payload(step, p, d, k, m)]
    PROVE  /\ job' \in [Requests -> Job]
           /\ job'[r].at = step /\ job'[r].by = p /\ job'[r].case = d /\ job'[r].amount = m
           /\ \A q \in Requests \ {r} : job'[q] = job[q]
BY DEF Payload, TypeOK, Job

LEMMA CheckCompensationStep ==
    ASSUME IInv, NEW r \in Requests, NEW p \in People, NEW d \in Cases, NEW m \in Amounts,
           CheckCompensation(r, p, d, m)
    PROVE  IInv'
<1>1. /\ job' \in [Requests -> Job]
      /\ job'[r].at = "unblocked" /\ job'[r].by = p /\ job'[r].case = d /\ job'[r].amount = m
      /\ \A q \in Requests \ {r} : job'[q] = job[q]
    BY PayloadFiles, DisputesAssumption DEF CheckCompensation, IInv, JobStep
<1>2. /\ job[r].at = "none" /\ Request(r)
      /\ UNCHANGED <<entry, winner, paid, trail, row, call, linked>>
    BY DEF CheckCompensation, approvalVars, IInv, RequestInv
<1>3. Request(r)' /\ paid[r] = 0
    BY <1>1, <1>2 DEF Request
<1> QED BY <1>1, <1>2, <1>3, RequestStep DEF IInv, TypeOK, Gate!TypeOK

LEMMA AskRefundStep ==
    ASSUME IInv, NEW r \in Requests, AskRefund(r)
    PROVE  IInv'
<1>1. /\ job[r].at = "unblocked" /\ Request(r) /\ job[r].by \in People
      /\ UNCHANGED <<paid, trail, row, call, linked>>
    BY DEF AskRefund, IInv, RequestInv, Request
<1>2. /\ Gate!TypeOK' /\ winner' = winner
      /\ entry[r].state = "none" /\ entry'[r].state = "pending"
      /\ \A q \in Requests \ {r} : entry'[q] = entry[q]
    BY <1>1, Gate!Creates DEF AskRefund, IInv, TypeOK
<1>3. /\ job' \in [Requests -> Job]
      /\ job'[r].at = "asked" /\ job'[r].case = job[r].case /\ job'[r].amount = job[r].amount
      /\ \A q \in Requests \ {r} : job'[q] = job[q]
    BY JobMoves DEF AskRefund, IInv, JobStep
<1>4. Request(r)' /\ paid[r] = 0
    BY <1>1, <1>2, <1>3 DEF Request
<1> QED BY <1>1, <1>2, <1>3, <1>4, RequestStep DEF IInv, TypeOK

LEMMA AskDirectlyStep ==
    ASSUME IInv, NEW r \in Requests, NEW p \in People, NEW d \in Cases, NEW k \in Consents,
           NEW m \in Amounts, AskDirectly(r, p, d, k, m)
    PROVE  IInv'
<1>1. /\ job' \in [Requests -> Job]
      /\ job'[r].at = "asked" /\ job'[r].by = None /\ job'[r].case = d /\ job'[r].amount = m
      /\ \A q \in Requests \ {r} : job'[q] = job[q]
    BY PayloadFiles DEF AskDirectly, IInv, JobStep
<1>2. /\ Gate!TypeOK' /\ winner' = winner
      /\ entry[r].state = "none" /\ entry'[r].state = "pending"
      /\ \A q \in Requests \ {r} : entry'[q] = entry[q]
    BY Gate!Creates DEF AskDirectly, IInv, TypeOK
<1>3. /\ job[r].at = "none" /\ Request(r)
      /\ UNCHANGED <<paid, trail, row, call, linked>>
    BY DEF AskDirectly, IInv, RequestInv
<1>4. Request(r)' /\ paid[r] = 0
    BY <1>1, <1>2, <1>3 DEF Request
<1> QED BY <1>1, <1>2, <1>3, <1>4, RequestStep DEF IInv, TypeOK

LEMMA RefuseStep ==
    ASSUME IInv, NEW r \in Requests, Refuse(r)
    PROVE  IInv'
<1>1. /\ Gate!TypeOK' /\ winner' = winner
      /\ entry'[r].state \in {"approved", "rejected", "timed_out"}
      /\ entry'[r].initiator = entry[r].initiator
      /\ \A q \in Requests \ {r} : entry'[q] = entry[q]
    BY Gate!Writes DEF Refuse, IInv, TypeOK
<1>2. Request(r) /\ UNCHANGED <<job, paid, trail, row, call, linked>>
    BY DEF Refuse, refundVars, IInv, RequestInv
<1>3. Request(r)'
    BY <1>1, <1>2 DEF Request
<1> QED BY <1>1, <1>2, <1>3, RequestStep DEF IInv, TypeOK

LEMMA GrantStep ==
    ASSUME IInv, NEW r \in Requests, NEW p \in People, Grant(r, p)
    PROVE  IInv'
<1>1. /\ Gate!TypeOK' /\ winner'[r] = p /\ p # entry[r].initiator
      /\ entry[r].state = "pending" /\ entry'[r].state = "approved"
      /\ entry'[r].initiator = entry[r].initiator
      /\ \A q \in Requests \ {r} : entry'[q] = entry[q] /\ winner'[q] = winner[q]
    BY Gate!Grants DEF Grant, IInv, TypeOK
<1>2. /\ job' \in [Requests -> Job]
      /\ job'[r].at = "granted" /\ job'[r].case = job[r].case /\ job'[r].amount = job[r].amount
      /\ \A q \in Requests \ {r} : job'[q] = job[q]
    BY JobMoves DEF Grant, IInv, JobStep
<1>3. Request(r) /\ UNCHANGED <<paid, trail, row, call, linked>> /\ p # None
    BY DisputesAssumption DEF Grant, IInv, RequestInv
<1>4. Request(r)' /\ paid[r] = 0
    BY <1>1, <1>2, <1>3 DEF Request
<1> QED BY <1>1, <1>2, <1>3, <1>4, RequestStep DEF IInv, TypeOK

LEMMA DispatchStep ==
    ASSUME IInv, NEW r \in Requests, Dispatch(r)
    PROVE  IInv'
<1>1. /\ job[r].at = "granted" /\ Request(r)
      /\ UNCHANGED <<entry, winner, trail, row, call, linked>>
    BY DEF Dispatch, approvalVars, IInv, RequestInv
<1>2. PICK step \in {"paid", "failed"} : JobAt(r, step) \/ JobGoes(r, step)
    BY DEF Dispatch
<1>3. /\ job' \in [Requests -> Job]
      /\ job'[r].at = step /\ job'[r].case = job[r].case /\ job'[r].amount = job[r].amount
      /\ \A q \in Requests \ {r} : job'[q] = job[q]
    BY <1>2, JobMoves DEF IInv, JobStep
<1>4. paid[r] = 0
    BY <1>1 DEF Request
<1>5. /\ paid' \in [Requests -> Nat] /\ paid'[r] = 1
      /\ \A q \in Requests \ {r} : paid'[q] = paid[q]
    BY <1>4 DEF Dispatch, IInv, TypeOK
<1>6. Request(r)'
    BY <1>1, <1>3, <1>5 DEF Request
<1> QED BY <1>1, <1>3, <1>4, <1>5, <1>6, RequestStep DEF IInv, TypeOK, Gate!TypeOK

\* After the payment: the audit, the return to approve, and whatever dies.
LEMMA AfterStep ==
    ASSUME IInv, NEW r \in Requests,
           AuditRefund(r) \/ PersistApproval(r) \/ CrashJob(r)
    PROVE  IInv'
<1>1. PICK step \in {"audited", "done", "failed"} :
          /\ JobAt(r, step) \/ JobGoes(r, step)
          /\ step = "audited" => job[r].at = "marked"
    BY DEF AuditRefund, PersistApproval, CrashJob
<1>2. /\ job' \in [Requests -> Job]
      /\ job'[r].at = step /\ job'[r].case = job[r].case /\ job'[r].amount = job[r].amount
      /\ \A q \in Requests \ {r} : job'[q] = job[q]
    BY <1>1, JobMoves DEF IInv, JobStep
<1>3. /\ Gate!TypeOK' /\ winner' = winner
      /\ entry'[r].state # "pending" \/ entry' = entry
      /\ entry[r].state # "none" => entry'[r].state # "none"
      /\ entry'[r].initiator = entry[r].initiator
      /\ \A q \in Requests \ {r} : entry'[q] = entry[q]
    <2>1. CASE PersistApproval(r)
        BY <2>1, Gate!Writes DEF PersistApproval, IInv, TypeOK
    <2>2. CASE AuditRefund(r) \/ CrashJob(r)
        BY <2>2 DEF AuditRefund, CrashJob, approvalVars, IInv, TypeOK, Gate!TypeOK
    <2> QED BY <2>1, <2>2
<1>4. /\ Request(r) /\ UNCHANGED <<paid, row, call, linked>>
      /\ job[r].at \in {"unblocked", "granted", "paid", "marked", "audited"}
    BY DEF AuditRefund, PersistApproval, CrashJob, approvalVars, IInv, RequestInv
<1>5. trail' \subseteq Requests
    BY DEF AuditRefund, PersistApproval, CrashJob, IInv, TypeOK
<1>6. Request(r)'
    BY <1>1, <1>2, <1>3, <1>4 DEF Request
<1> QED BY <1>2, <1>3, <1>4, <1>5, <1>6, RequestStep DEF IInv, TypeOK

-----------------------------------------------------------------------------
(* The case. *)

\* A step that leaves the requests alone and writes one row at most.
LEMMA CaseStep ==
    ASSUME IInv, NEW d \in Cases,
           UNCHANGED <<entry, winner, job, paid, trail>>,
           linked' \subseteq Cases, linked \subseteq linked',
           call' \in [Calls -> Call], CallInv',
           row' \in [Cases -> Row],
           \A o \in Cases \ {d} : row'[o] = row[o],
           row'[d].refund = row[d].refund,
           OnFile(d)' => d \in linked',
           row'[d].state = "refund_initiated" => row[d].state = "refund_initiated"
    PROVE  IInv'
<1>1. TypeOK'
    BY DEF IInv, TypeOK, Gate!TypeOK
<1>2. RequestInv'
    BY DEF IInv, RequestInv, Request
<1>3. RowIsBackedByP6'
    <2> SUFFICES ASSUME NEW o \in Cases
                 PROVE  /\ OnFile(o)' => o \in linked'
                        /\ row'[o].state = "refund_initiated" => row'[o].refund # None
                        /\ row'[o].refund # None =>
                               \E r \in Requests : /\ paid[r] = 1 /\ job[r].case = o
                                                   /\ job[r].amount = row'[o].refund
        BY DEF RowIsBackedByP6
    <2>1. /\ OnFile(o) => o \in linked
          /\ row[o].state = "refund_initiated" => row[o].refund # None
          /\ row[o].refund # None =>
                 \E r \in Requests : /\ paid[r] = 1 /\ job[r].case = o
                                     /\ job[r].amount = row[o].refund
        BY DEF IInv, RowIsBackedByP6
    <2>2. CASE o = d
        BY <2>1, <2>2
    <2>3. CASE o # d
        BY <2>1, <2>3 DEF OnFile
    <2> QED BY <2>2, <2>3
<1> QED BY <1>1, <1>2, <1>3 DEF IInv

LEMMA OpenStep ==
    ASSUME IInv, NEW d \in Cases, OpenAtNebras(d)
    PROVE  IInv'
<1>1. /\ UNCHANGED <<entry, winner, job, paid, trail, row, call>>
      /\ linked' = linked \cup {d}
    BY DEF OpenAtNebras, approvalVars, refundVars
<1>2. CallInv'
    BY <1>1 DEF IInv, CallInv, Checked, OnFile
<1> QED BY <1>1, <1>2, CaseStep DEF IInv, TypeOK

LEMMA FileStep ==
    ASSUME IInv, NEW d \in Cases, File(d)
    PROVE  IInv'
<1>1. /\ UNCHANGED <<entry, winner, job, paid, trail, linked, call>>
      /\ d \in linked /\ ~ OnFile(d)
      /\ row' = [row EXCEPT ![d].state = "open"]
    BY DEF File, FileUnlinked, approvalVars, refundVars
<1>2. /\ row' \in [Cases -> Row] /\ \A o \in Cases \ {d} : row'[o] = row[o]
      /\ row'[d].state = "open" /\ row'[d].refund = row[d].refund
    BY <1>1 DEF IInv, TypeOK, Row, DisputeStates
<1>3. CallInv'
    BY <1>1, <1>2 DEF IInv, CallInv, Checked, OnFile
<1> QED BY <1>1, <1>2, <1>3, CaseStep DEF IInv, TypeOK

LEMMA SettleStep ==
    ASSUME IInv, NEW d \in Cases, Settle(d)
    PROVE  IInv'
<1>1. /\ UNCHANGED <<entry, winner, job, paid, trail, linked, call>>
      /\ OnFile(d) /\ row' = [row EXCEPT ![d].blocked = TRUE]
    BY DEF Settle, approvalVars, refundVars
<1>2. /\ row' \in [Cases -> Row] /\ \A o \in Cases \ {d} : row'[o] = row[o]
      /\ row'[d].state = row[d].state /\ row'[d].refund = row[d].refund
    BY <1>1 DEF IInv, TypeOK, Row
<1>3. CallInv' /\ d \in linked
    BY <1>1, <1>2 DEF IInv, CallInv, Checked, OnFile, RowIsBackedByP6
<1> QED BY <1>1, <1>2, <1>3, CaseStep DEF IInv, TypeOK

LEMMA CheckMoveStep ==
    ASSUME IInv, NEW c \in Calls, NEW d \in Cases, NEW target \in DisputeStates \cup {None},
           CheckMove(c, d, target)
    PROVE  IInv'
<1> DEFINE k == [at |-> "checked", case |-> d, state |-> target]
<1>1. /\ UNCHANGED <<entry, winner, job, paid, trail, linked, row>>
      /\ OnFile(d) /\ target # "refund_initiated" /\ call' = [call EXCEPT ![c] = k]
    BY DEF CheckMove, CheckMoveLoose, approvalVars, refundVars
<1>2. k \in Call /\ k.at = "checked" /\ k.case = d /\ k.state = target
    BY DEF Call
<1> HIDE DEF k
<1>3. call' \in [Calls -> Call] /\ call'[c] = k /\ \A o \in Calls \ {c} : call'[o] = call[o]
    BY <1>1, <1>2 DEF IInv, TypeOK
<1>4. CallInv' /\ d \in linked
    BY <1>1, <1>2, <1>3 DEF IInv, CallInv, Checked, OnFile, RowIsBackedByP6
<1> QED BY <1>1, <1>3, <1>4, CaseStep DEF IInv, TypeOK

LEMMA WriteMoveStep ==
    ASSUME IInv, NEW c \in Calls, WriteMove(c)
    PROVE  IInv'
<1> DEFINE d == call[c].case
           s == IF call[c].state = None THEN row[d].state ELSE call[c].state
<1>1. /\ UNCHANGED <<entry, winner, job, paid, trail, linked>>
      /\ call' = [call EXCEPT ![c] = Idle]
      /\ row' = [row EXCEPT ![d].state = s]
      /\ call[c].at = "checked"
    BY DEF WriteMove, approvalVars, refundVars
<1>2. d \in Cases /\ OnFile(d) /\ call[c].state # "refund_initiated"
    BY <1>1 DEF IInv, CallInv, Checked
<1>3. s \in DisputeStates /\ (s = "refund_initiated" => row[d].state = "refund_initiated")
    BY <1>2 DEF IInv, TypeOK, Call, Row, OnFile
<1> HIDE DEF d, s
<1>4. /\ row' \in [Cases -> Row] /\ \A o \in Cases \ {d} : row'[o] = row[o]
      /\ row'[d].state = s /\ row'[d].refund = row[d].refund
    BY <1>1, <1>2, <1>3 DEF IInv, TypeOK, Row
<1>5. /\ call' \in [Calls -> Call] /\ call'[c].at = "idle"
      /\ \A o \in Calls \ {c} : call'[o] = call[o]
    <2>1. Idle \in Call /\ Idle.at = "idle"
        BY DEF Idle, Call
    <2> QED BY <1>1, <2>1 DEF IInv, TypeOK
<1>6. CallInv' /\ d \in linked
    <2>1. \A o \in Cases : OnFile(o) => OnFile(o)'
        BY <1>3, <1>4 DEF OnFile, DisputeStates
    <2> QED BY <1>2, <1>5, <2>1 DEF IInv, CallInv, Checked, RowIsBackedByP6
<1> QED BY <1>1, <1>2, <1>3, <1>4, <1>5, <1>6, CaseStep DEF IInv, TypeOK

LEMMA CrashCallStep ==
    ASSUME IInv, NEW c \in Calls, CrashCall(c)
    PROVE  IInv'
<1>1. /\ UNCHANGED <<entry, winner, job, paid, trail, linked, row>>
      /\ call' = [call EXCEPT ![c] = Idle] /\ call[c].at = "checked"
    BY DEF CrashCall, approvalVars, refundVars
<1>2. /\ call' \in [Calls -> Call] /\ call'[c].at = "idle"
      /\ \A o \in Calls \ {c} : call'[o] = call[o]
    <2>1. Idle \in Call /\ Idle.at = "idle"
        BY DEF Idle, Call
    <2> QED BY <1>1, <2>1 DEF IInv, TypeOK
<1>3. CallInv' /\ call[c].case \in Cases
    BY <1>1, <1>2 DEF IInv, CallInv, Checked, OnFile
<1>4. \A d \in Cases : OnFile(d)' => d \in linked'
    BY <1>1 DEF IInv, RowIsBackedByP6, OnFile
<1> QED BY <1>1, <1>2, <1>3, <1>4, CaseStep DEF IInv, TypeOK

-----------------------------------------------------------------------------
(* Where the two meet: the mark of a refund that was paid. *)

LEMMA MarkStep ==
    ASSUME IInv, NEW r \in Requests, Mark(r)
    PROVE  IInv'
<1> DEFINE d == job[r].case
<1>1. /\ job[r].at = "paid" /\ Request(r) /\ paid[r] = 1
      /\ d \in Cases /\ job[r].amount \in Amounts /\ job[r].amount # None
      /\ UNCHANGED <<entry, winner, paid, trail, call, linked>>
    BY DisputesAssumption DEF Mark, approvalVars, IInv, RequestInv, Request
<1>2. PICK step \in {"marked", "failed"} : JobAt(r, step) \/ JobGoes(r, step)
    BY DEF Mark
<1>3. /\ job' \in [Requests -> Job]
      /\ job'[r].at = step /\ job'[r].case = d /\ job'[r].amount = job[r].amount
      /\ \A q \in Requests \ {r} : job'[q] = job[q]
    BY <1>2, JobMoves DEF IInv, JobStep
<1>4. Request(r)'
    BY <1>1, <1>3 DEF Request
<1>5. RequestInv'
    BY <1>1, <1>3, <1>4 DEF IInv, RequestInv, Request
<1>6. CASE UNCHANGED row
    BY <1>1, <1>3, <1>4, <1>6, RequestStep DEF IInv, TypeOK, Gate!TypeOK
<1>7. CASE /\ OnFile(d)
           /\ row' = [row EXCEPT ![d].state = "refund_initiated", ![d].refund = job[r].amount]
    <2> DEFINE w == [row[d] EXCEPT !.state = "refund_initiated", !.refund = job[r].amount]
    <2>1. w \in Row /\ w.state = "refund_initiated" /\ w.refund = job[r].amount
        BY <1>1 DEF IInv, TypeOK, Row, DisputeStates
    <2>2. row' = [row EXCEPT ![d] = w]
        BY <1>7
    <2> HIDE DEF w
    <2>3. row' \in [Cases -> Row] /\ row'[d] = w /\ \A o \in Cases \ {d} : row'[o] = row[o]
        BY <1>1, <2>1, <2>2 DEF IInv, TypeOK
    <2>4. TypeOK'
        BY <1>1, <1>3, <2>3 DEF IInv, TypeOK, Gate!TypeOK
    <2>5. CallInv'
        BY <1>1, <2>1, <2>3 DEF IInv, CallInv, Checked, OnFile
    <2>6. RowIsBackedByP6'
        <3> SUFFICES ASSUME NEW o \in Cases
                     PROVE  /\ OnFile(o)' => o \in linked'
                            /\ row'[o].state = "refund_initiated" => row'[o].refund # None
                            /\ row'[o].refund # None =>
                                   \E q \in Requests : /\ paid'[q] = 1 /\ job'[q].case = o
                                                       /\ job'[q].amount = row'[o].refund
            BY DEF RowIsBackedByP6
        <3>1. CASE o = d
            BY <1>1, <1>3, <1>7, <2>1, <2>3, <3>1 DEF IInv, RowIsBackedByP6
        <3>2. CASE o # d
            BY <1>1, <1>3, <2>3, <3>2 DEF IInv, RowIsBackedByP6, OnFile
        <3> QED BY <3>1, <3>2
    <2> QED BY <1>5, <2>4, <2>5, <2>6 DEF IInv
<1> QED BY <1>6, <1>7 DEF Mark

-----------------------------------------------------------------------------
LEMMA NextIInv == IInv /\ [Next]_vars => IInv'
<1> SUFFICES ASSUME IInv, [Next]_vars PROVE IInv'
    OBVIOUS
<1>1. CASE UNCHANGED vars
    BY <1>1 DEF vars, approvalVars, refundVars, IInv, TypeOK, Gate!TypeOK, RequestInv, Request,
        CallInv, Checked, OnFile, RowIsBackedByP6
<1>2. ASSUME NEW d \in Cases, OpenAtNebras(d) \/ File(d) \/ Settle(d) PROVE IInv'
    BY <1>2, OpenStep, FileStep, SettleStep
<1>3. ASSUME NEW c \in Calls, CallStepOf(c) PROVE IInv'
    BY <1>3, CheckMoveStep, WriteMoveStep, CrashCallStep DEF CallStepOf
<1>4. ASSUME NEW r \in Requests, RefundStep(r) PROVE IInv'
    BY <1>4, CheckCompensationStep, AskRefundStep, AskDirectlyStep, RefuseStep, GrantStep,
        DispatchStep, MarkStep, AfterStep DEF RefundStep
<1> QED BY <1>1, <1>2, <1>3, <1>4 DEF Next

LEMMA Invariance == Spec => []IInv
<1> QED BY InitIInv, NextIInv, PTL DEF Spec

\* Every variable keeps its type, whichever calls overlap, fail or die.
THEOREM TypeCorrectness == Spec => []TypeOK
<1>1. IInv => TypeOK
    BY DEF IInv
<1> QED BY Invariance, <1>1, PTL

\* However many humans grant, reject and expire on copies however old, P6 gets a refund
\* once at most for a request, and only for one that a second human granted.
THEOREM MoneyIsGranted == Spec => []RefundsAreGranted
<1>1. IInv => RefundsAreGranted
    <2> SUFFICES ASSUME IInv, NEW r \in Requests
                 PROVE  /\ paid[r] <= 1
                        /\ paid[r] = 1 => winner[r] \notin {None, entry[r].initiator}
        BY DEF RefundsAreGranted
    <2>1. Request(r)
        BY DEF IInv, RequestInv
    <2>2. paid[r] \in {0, 1}
        BY <2>1 DEF Request
    <2>3. paid[r] = 1 => winner[r] \notin {None, entry[r].initiator}
        BY <2>1 DEF Request
    <2> QED BY <2>2, <2>3
<1> QED BY Invariance, <1>1, PTL

\* A case on file was opened at Nebras, and one that says it was refunded names an amount
\* that P6 dispatched for it, whatever lifecycle calls and refunds overlap on it.
THEOREM RowsAreBacked == Spec => []RowIsBackedByP6
<1>1. IInv => RowIsBackedByP6
    BY DEF IInv
<1> QED BY Invariance, <1>1, PTL

LEMMA GateStep ==
    ASSUME IInv, [Next]_vars, NEW d \in Cases,
           row'[d].state = "refund_initiated", row[d].state # "refund_initiated"
    PROVE  \E r \in Requests : /\ job[r].at = "paid" /\ job'[r].at = "marked"
                               /\ job[r].case = d
<1>1. row' # row
    OBVIOUS
<1>2. ASSUME NEW o \in Cases, OpenAtNebras(o) \/ File(o) \/ Settle(o) PROVE FALSE
    <2>1. CASE File(o)
        BY <1>1, <2>1 DEF File, FileUnlinked, IInv, TypeOK, Row
    <2>2. CASE Settle(o)
        BY <1>1, <2>2 DEF Settle, IInv, TypeOK, Row
    <2> QED BY <1>1, <1>2, <2>1, <2>2 DEF OpenAtNebras
<1>3. ASSUME NEW c \in Calls, CallStepOf(c) PROVE FALSE
    <2>1. CASE WriteMove(c)
        <3>1. call[c].state # "refund_initiated" /\ call[c].case \in Cases
            BY <2>1 DEF WriteMove, IInv, CallInv, Checked
        <3> QED BY <2>1, <3>1 DEF WriteMove, IInv, TypeOK, Row
    <2> QED BY <1>1, <1>3, <2>1 DEF CallStepOf, CrashCall, CheckMove, CheckMoveLoose
<1>4. ASSUME NEW r \in Requests, RefundStep(r)
      PROVE  job[r].at = "paid" /\ job'[r].at = "marked" /\ job[r].case = d
    <2>1. Mark(r)
        BY <1>1, <1>4 DEF RefundStep, AskRefund, Refuse, Dispatch, AuditRefund, PersistApproval,
            CrashJob, Grant, CheckCompensation, AskDirectly
    <2>2. /\ job[r].at = "paid" /\ JobGoes(r, "marked") /\ job[r].case \in Cases
          /\ row' = [row EXCEPT ![job[r].case].state = "refund_initiated",
                               ![job[r].case].refund = job[r].amount]
        BY <1>1, <2>1 DEF Mark, IInv, RequestInv, Request
    <2>3. job'[r].at = "marked"
        BY <2>2, JobMoves DEF IInv, JobStep
    <2>4. job[r].case = d
        BY <2>2 DEF IInv, TypeOK
    <2> QED BY <2>2, <2>3, <2>4
<1> QED BY <1>1, <1>2, <1>3, <1>4 DEF Next, vars

\* A case goes to refund_initiated with the mark of a refund that was paid for it and in
\* no other way: no PATCH gets it there, however old the record it checked.
THEOREM OnlyAMarkRefunds == Spec => OnlyTheGateRefunds
<1>1. IInv /\ [Next]_vars =>
          [\A d \in Cases :
              row'[d].state = "refund_initiated" /\ row[d].state # "refund_initiated" =>
                  \E r \in Requests : /\ job[r].at = "paid" /\ job'[r].at = "marked"
                                      /\ job[r].case = d]_vars
    BY GateStep
<1> QED BY <1>1, Invariance, PTL DEF Spec, OnlyTheGateRefunds
=============================================================================
