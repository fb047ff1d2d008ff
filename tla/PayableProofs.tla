--------------------------- MODULE PayableProofs ---------------------------
(***************************************************************************)
(* Theorems about PayablePeriod, for every set of requests, humans,        *)
(* payables, keys, calls and lines: a period is closed once, under a grant *)
(* of two humans; every debit and every ledger row cites that close; and   *)
(* the ledger says no more than P9 did, and no less than a call was told.  *)
(***************************************************************************)
EXTENDS PayablePeriod, WellFoundedInduction, TLAPS

-----------------------------------------------------------------------------
(* The inductive invariant. *)

\* The row: a grant is a second human's, comes once, and is what "approved" says.
Granted(r) ==
    /\ winner[r] # None =>
           winner[r] # entry[r].initiator /\ entry[r].state \notin {"none", "pending"}
    /\ entry[r].state # "none" => entry[r].initiator \in People
    /\ entry[r].state = "pending" => job[r].at = "asked"
    /\ entry[r].state = "approved" => winner[r] # None /\ entry[r].approver = winner[r]

\* The execution: driven by the human whose claim won, and told that the period is
\* closed only when it is closed under this very request.
Executed(r) ==
    /\ job[r].at = "unclosed" => job[r].by \in People
    /\ job[r].at \in {"granted", "checked", "saved", "done"} => winner[r] # None
    /\ job[r].at \in {"granted", "checked", "saved"} => job[r].by = winner[r]
    /\ job[r].at \in {"saved", "done"} => close # None /\ close.req = r

CloseInv ==
    /\ \A r \in Requests : Granted(r) /\ Executed(r)
    /\ CloseNamesItsGrant

\* What P9 says now, when it once answered this status.
Became(status, now) == status = "dispatched" \/ status = now

\* An instruction: of the one payable its key stands for, under the close.
Sent(k) ==
    p9[k] # None =>
        /\ close # None
        /\ p9[k].req = close.req
        /\ p9[k].payable = KeyOf[k]
        /\ p9[k].by \in {close.initiated_by, close.approved_by}

\* A dispatch call that is on its way,
Underway(c) ==
    disp[c].at \in {"authorised", "answered", "recording", "inserting"} =>
        /\ close # None
        /\ disp[c].req = close.req
        /\ disp[c].by \in {close.initiated_by, close.approved_by}

\* the payable it is for,
Directed(c) ==
    disp[c].at \in {"authorised", "answered", "recording", "inserting", "ok"} =>
        disp[c].key \in Keys /\ disp[c].payable = KeyOf[disp[c].key]

\* what it was answered,
Told(c) ==
    disp[c].at \in {"answered", "recording", "inserting", "ok"} =>
        /\ p9[disp[c].key] # None
        /\ disp[c].status \in P9Status
        /\ Became(disp[c].status, p9[disp[c].key].status)

\* its place among the transactions,
Begun(c) == disp[c].at \in {"recording", "inserting"} => \E n \in DOMAIN begun : begun[n] = c

\* and the row it is about to insert.
Holds(c) ==
    disp[c].at = "inserting" =>
        /\ disp[c].row \in LedgerRow
        /\ disp[c].row.key = disp[c].key
        /\ disp[c].row.payable = disp[c].payable
        /\ disp[c].row.state = LedgerStateOf(disp[c].status)
        /\ disp[c].row.req = close.req
        /\ disp[c].row.initiated_by = close.initiated_by
        /\ disp[c].row.approved_by = close.approved_by
        /\ disp[c].row.began \in DOMAIN begun

\* A call that was answered is on the ledger.
Noted(c) ==
    disp[c].at = "ok" =>
        \E x \in ledger : /\ x.key = disp[c].key
                          /\ x.payable = disp[c].payable
                          /\ x.state = LedgerStateOf(disp[c].status)

CallInv(c) == Underway(c) /\ Directed(c) /\ Told(c) /\ Begun(c) /\ Holds(c) /\ Noted(c)

\* A ledger row: the close's names, and no more than P9 did.
Recorded(x) ==
    /\ close # None
    /\ x.req = close.req
    /\ x.initiated_by = close.initiated_by
    /\ x.approved_by = close.approved_by
    /\ p9[x.key] # None
    /\ x.payable = KeyOf[x.key]
    /\ x.state = "accepted" => p9[x.key].status = "collected"
    /\ x.state = "rejected" => p9[x.key].status = "rejected"
    /\ x.began \in DOMAIN begun

DispatchInv ==
    /\ \A k \in Keys : Sent(k)
    /\ \A c \in Calls : CallInv(c)
    /\ \A x \in ledger : Recorded(x)

IInv == TypeOK /\ CloseInv /\ DispatchInv

LEMMA InitIInv == Init => IInv
<1> SUFFICES ASSUME Init PROVE IInv
    OBVIOUS
<1>1. TypeOK
    BY DEF Init, TypeOK, Gate!Init, Gate!TypeOK, Gate!NoEntry, Gate!Entry, Gate!Verdict,
        Job, JobStep, Life!Init, Life!TypeOK, Life!BreakStatus, Dispatch, DispatchStep,
        IdleDispatch
<1>2. CloseInv
    <2>1. ASSUME NEW r \in Requests PROVE Granted(r) /\ Executed(r)
        <3>1. winner[r] = None /\ entry[r].state = "none" /\ job[r].at = "none"
            BY DEF Init, Gate!Init, Gate!NoEntry
        <3> QED BY <3>1 DEF Granted, Executed
    <2>2. CloseNamesItsGrant
        BY DEF Init, CloseNamesItsGrant
    <2> QED BY <2>1, <2>2 DEF CloseInv
<1>3. DispatchInv
    <2>1. ASSUME NEW c \in Calls PROVE CallInv(c)
        <3>1. disp[c].at = "idle"
            BY DEF Init, IdleDispatch
        <3> QED BY <3>1 DEF CallInv, Underway, Directed, Told, Begun, Holds, Noted
    <2> QED BY <2>1 DEF Init, DispatchInv, Sent
<1> QED BY <1>1, <1>2, <1>3 DEF IInv

-----------------------------------------------------------------------------
(* The close.  What a step of one request does to the others is nothing. *)

\* A step of a request: it may close the period if nobody has, and leaves the
\* dispatches alone.
LEMMA RequestStep ==
    ASSUME IInv, NEW r \in Requests,
           Gate!TypeOK', job' \in [Requests -> Job], close' \in Close \cup {None},
           UNCHANGED <<brk, disp, p9, begun, ledger>>,
           \A q \in Requests \ {r} :
               entry'[q] = entry[q] /\ winner'[q] = winner[q] /\ job'[q] = job[q],
           entry[r].state # "none" => entry'[r].initiator = entry[r].initiator,
           winner[r] # None => winner'[r] = winner[r],
           close' = close \/ (close = None /\ CloseNamesItsGrant'),
           Granted(r)', Executed(r)'
    PROVE  IInv'
<1>1. TypeOK'
    BY DEF IInv, TypeOK, Life!TypeOK
<1>2. CloseNamesItsGrant'
    <2>1. CASE close' = close /\ close # None
        <3>1. /\ close.req \in Requests /\ winner[close.req] # None
              /\ entry[close.req].state # "none"
            BY <2>1, PayableAssumption DEF IInv, TypeOK, Close, CloseInv, CloseNamesItsGrant, Granted
        <3> QED BY <2>1, <3>1 DEF IInv, CloseInv, CloseNamesItsGrant
    <2>2. CASE close' = close /\ close = None
        BY <2>2 DEF CloseNamesItsGrant
    <2> QED BY <2>1, <2>2
<1>3. CloseInv'
    <2>1. ASSUME NEW q \in Requests \ {r} PROVE Granted(q)' /\ Executed(q)'
        BY DEF IInv, CloseInv, Granted, Executed
    <2> QED BY <1>2, <2>1 DEF CloseInv
<1>4. DispatchInv'
    <2>1. CASE close' = close
        BY <2>1 DEF IInv, DispatchInv, Sent, CallInv, Underway, Directed, Told, Begun, Holds,
            Noted, Recorded
    <2>2. CASE close = None
        BY <2>2 DEF IInv, DispatchInv, Sent, CallInv, Underway, Directed, Told, Begun, Holds,
            Noted, Recorded
    <2> QED BY <2>1, <2>2
<1> QED BY <1>1, <1>3, <1>4 DEF IInv

LEMMA JobMoves ==
    ASSUME TypeOK, NEW r \in Requests, NEW step \in JobStep, NEW p \in People \cup {None},
           SetJob(r, step, p)
    PROVE  /\ job' \in [Requests -> Job]
           /\ job'[r].at = step /\ job'[r].by = p
           /\ \A q \in Requests \ {r} : job'[q] = job[q]
BY DEF SetJob, TypeOK, Job

LEMMA AskUnclosedStep ==
    ASSUME IInv, NEW r \in Requests, NEW p \in People, AskUnclosed(r, p)
    PROVE  IInv'
<1>1. /\ job' \in [Requests -> Job]
      /\ job'[r].at = "unclosed" /\ job'[r].by = p
      /\ \A q \in Requests \ {r} : job'[q] = job[q]
    BY JobMoves DEF AskUnclosed, IInv, JobStep
<1>2. /\ job[r].at = "none" /\ Granted(r)
      /\ UNCHANGED <<entry, winner, close, brk, disp, p9, begun, ledger>>
    BY DEF AskUnclosed, approvalVars, dispatchVars, IInv, CloseInv
<1>3. Granted(r)' /\ Executed(r)'
    BY <1>1, <1>2 DEF Granted, Executed
<1> QED BY <1>1, <1>2, <1>3, RequestStep DEF IInv, TypeOK, Gate!TypeOK

\* The row is opened, by way of the operation or past it.
LEMMA CreateStep ==
    ASSUME IInv, NEW r \in Requests, NEW p \in People,
           Gate!Create(r, p), EndJob(r, "asked"), UNCHANGED <<close, brk, dispatchVars>>
    PROVE  IInv'
<1>1. /\ job' \in [Requests -> Job] /\ job'[r].at = "asked"
      /\ \A q \in Requests \ {r} : job'[q] = job[q]
    BY JobMoves DEF EndJob, IInv, JobStep
<1>2. /\ Gate!TypeOK' /\ winner' = winner
      /\ entry[r].state = "none" /\ entry'[r].state = "pending"
      /\ \A q \in Requests \ {r} : entry'[q] = entry[q]
    BY Gate!Creates DEF IInv, TypeOK
<1>3. entry'[r].initiator = p /\ Granted(r) /\ UNCHANGED <<close, brk, disp, p9, begun, ledger>>
    BY DEF Gate!Create, Gate!TypeOK, dispatchVars, IInv, TypeOK, CloseInv
<1>4. Granted(r)' /\ Executed(r)'
    BY <1>1, <1>2, <1>3 DEF Granted, Executed
<1> QED BY <1>1, <1>2, <1>3, <1>4, RequestStep DEF IInv, TypeOK

\* The job ends, and nothing else happens.
LEMMA EndStep ==
    ASSUME IInv, NEW r \in Requests, NEW step \in {"blocked", "failed"}, EndJob(r, step),
           job[r].at # "asked", UNCHANGED <<entry, winner, close, brk, dispatchVars>>
    PROVE  IInv'
<1>1. /\ job' \in [Requests -> Job] /\ job'[r].at = step
      /\ \A q \in Requests \ {r} : job'[q] = job[q]
    BY JobMoves DEF EndJob, IInv, JobStep
<1>2. Granted(r) /\ UNCHANGED <<disp, p9, begun, ledger>>
    BY DEF dispatchVars, IInv, CloseInv
<1>3. Granted(r)' /\ Executed(r)'
    BY <1>1, <1>2 DEF Granted, Executed
<1> QED BY <1>1, <1>2, <1>3, RequestStep DEF IInv, TypeOK, Gate!TypeOK

LEMMA AskStep ==
    ASSUME IInv, NEW r \in Requests, Ask(r)
    PROVE  IInv'
<1>1. job[r].at = "unclosed" /\ job[r].by \in People
    BY DEF Ask, IInv, CloseInv, Executed
<1>2. CASE OpenBreaks = {}
    BY <1>1, <1>2, CreateStep DEF Ask
<1>3. CASE OpenBreaks # {}
    BY <1>1, <1>3, EndStep DEF Ask, approvalVars
<1> QED BY <1>2, <1>3

LEMMA AskDirectlyStep ==
    ASSUME IInv, NEW r \in Requests, NEW p \in People, AskDirectly(r, p)
    PROVE  IInv'
BY CreateStep DEF AskDirectly

LEMMA RefuseStep ==
    ASSUME IInv, NEW r \in Requests, Refuse(r)
    PROVE  IInv'
<1>1. /\ Gate!TypeOK' /\ winner' = winner
      /\ entry'[r].initiator = entry[r].initiator
      /\ \A q \in Requests \ {r} : entry'[q] = entry[q]
    BY Gate!Writes DEF Refuse, IInv, TypeOK
<1>2. entry'[r].state \in {"rejected", "timed_out"} /\ entry[r].state # "none"
    BY DEF Refuse, Gate!TimeOut, Gate!Reject, Gate!TypeOK, Gate!Entry, IInv, TypeOK
<1>3. Granted(r) /\ Executed(r) /\ UNCHANGED <<job, close, brk, disp, p9, begun, ledger>>
    BY DEF Refuse, closeVars, dispatchVars, IInv, CloseInv
<1>4. Granted(r)' /\ Executed(r)'
    BY <1>1, <1>2, <1>3 DEF Granted, Executed
<1> QED BY <1>1, <1>3, <1>4, RequestStep DEF IInv, TypeOK

LEMMA GrantStep ==
    ASSUME IInv, NEW r \in Requests, NEW p \in People, Grant(r, p)
    PROVE  IInv'
<1>1. /\ Gate!TypeOK' /\ winner'[r] = p /\ p # entry[r].initiator
      /\ entry[r].state = "pending" /\ entry'[r].state = "approved"
      /\ entry'[r].initiator = entry[r].initiator
      /\ \A q \in Requests \ {r} : entry'[q] = entry[q] /\ winner'[q] = winner[q]
    BY Gate!Grants DEF Grant, IInv, TypeOK
<1>2. entry'[r].approver = p
    BY DEF Grant, Gate!Grant, Gate!TypeOK, IInv, TypeOK
<1>3. /\ job' \in [Requests -> Job] /\ job'[r].at = "granted" /\ job'[r].by = p
      /\ \A q \in Requests \ {r} : job'[q] = job[q]
    BY JobMoves DEF Grant, IInv, JobStep
<1>4. /\ Granted(r) /\ UNCHANGED <<close, brk, disp, p9, begun, ledger>>
      /\ p # None
    BY PayableAssumption DEF Grant, dispatchVars, IInv, CloseInv
<1>5. Granted(r)' /\ Executed(r)' /\ winner[r] = None
    BY <1>1, <1>2, <1>3, <1>4 DEF Granted, Executed
<1> QED BY <1>1, <1>3, <1>4, <1>5, RequestStep DEF IInv, TypeOK

LEMMA ExecuteCloseStep ==
    ASSUME IInv, NEW r \in Requests, ExecuteClose(r)
    PROVE  IInv'
<1>1. CASE OpenBreaks = {}
    <2>1. /\ job' \in [Requests -> Job] /\ job'[r].at = "checked" /\ job'[r].by = job[r].by
          /\ \A q \in Requests \ {r} : job'[q] = job[q]
        BY <1>1, JobMoves DEF ExecuteClose, JobAt, IInv, TypeOK, JobStep, Job
    <2>2. /\ job[r].at = "granted" /\ Granted(r) /\ Executed(r)
          /\ UNCHANGED <<entry, winner, close, brk, disp, p9, begun, ledger>>
        BY DEF ExecuteClose, approvalVars, dispatchVars, IInv, CloseInv
    <2>3. Granted(r)' /\ Executed(r)'
        BY <2>1, <2>2 DEF Granted, Executed
    <2> QED BY <2>1, <2>2, <2>3, RequestStep DEF IInv, TypeOK, Gate!TypeOK
<1>2. CASE OpenBreaks # {}
    BY <1>2, EndStep DEF ExecuteClose, approvalVars
<1> QED BY <1>1, <1>2

\* The names saveClose writes are those of the claim that won.
LEMMA SavedNames ==
    ASSUME IInv, NEW r \in Requests, MaySave(r)
    PROVE  /\ winner[r] # None /\ entry[r].approver = winner[r]
           /\ entry[r].initiator \in People /\ winner[r] \in People
           /\ winner[r] # entry[r].initiator
<1>1. Granted(r)
    BY DEF IInv, CloseInv
<1>2. winner[r] \in People \cup {None}
    BY DEF IInv, TypeOK, Gate!TypeOK
<1> QED BY <1>1, <1>2 DEF MaySave, Evidence, Granted

LEMMA SaveCloseStep ==
    ASSUME IInv, NEW r \in Requests, SaveClose(r)
    PROVE  IInv'
<1>1. /\ job[r].at = "checked" /\ Granted(r) /\ Executed(r)
      /\ UNCHANGED <<entry, winner, brk, disp, p9, begun, ledger>>
    BY DEF SaveClose, approvalVars, dispatchVars, IInv, CloseInv
<1>2. ASSUME MaySave(r), JobAt(r, "saved"), close' # None, close'.req = r,
             close' \in Close \cup {None}, close' = close \/ (close = None /\ CloseNamesItsGrant')
      PROVE  IInv'
    <2>1. /\ job' \in [Requests -> Job] /\ job'[r].at = "saved" /\ job'[r].by = job[r].by
          /\ \A q \in Requests \ {r} : job'[q] = job[q]
        BY <1>2, JobMoves DEF JobAt, IInv, TypeOK, JobStep, Job
    <2>2. Granted(r)' /\ Executed(r)'
        BY <1>1, <1>2, <2>1 DEF Granted, Executed
    <2> QED BY <1>1, <1>2, <2>1, <2>2, RequestStep DEF IInv, TypeOK, Gate!TypeOK
<1>3. CASE MaySave(r) /\ close = None
    <2> DEFINE new == [req |-> r, initiated_by |-> entry[r].initiator,
                       approved_by |-> entry[r].approver]
    <2>1. close' = new /\ JobAt(r, "saved")
        BY <1>3 DEF SaveClose, InsertClose
    <2>2. new \in Close /\ new.req = r
        BY <1>3, SavedNames DEF Close
    <2>3. new # None
        BY <2>2, PayableAssumption
    <2>4. CloseNamesItsGrant'
        BY <1>1, <1>3, <2>1, SavedNames DEF CloseNamesItsGrant
    <2> QED BY <1>2, <1>3, <2>1, <2>2, <2>3, <2>4
<1>4. CASE MaySave(r) /\ close # None /\ close.req = r
    BY <1>2, <1>4 DEF SaveClose, InsertClose, IInv, TypeOK
<1>5. CASE ~MaySave(r) \/ (close # None /\ close.req # r)
    BY <1>1, <1>5, EndStep DEF SaveClose, InsertClose, dispatchVars
<1> QED BY <1>3, <1>4, <1>5

LEMMA PersistApprovalStep ==
    ASSUME IInv, NEW r \in Requests, PersistApproval(r)
    PROVE  IInv'
<1>1. /\ Gate!TypeOK' /\ winner' = winner
      /\ entry'[r].initiator = entry[r].initiator
      /\ \A q \in Requests \ {r} : entry'[q] = entry[q]
    BY Gate!Writes DEF PersistApproval, IInv, TypeOK
<1>2. winner[r] # None /\ entry'[r].state = "approved" /\ entry'[r].approver = winner[r]
    BY DEF PersistApproval, Gate!Persist, Gate!TypeOK, IInv, TypeOK
<1>3. /\ job' \in [Requests -> Job] /\ job'[r].at = "done"
      /\ \A q \in Requests \ {r} : job'[q] = job[q]
    BY JobMoves DEF PersistApproval, EndJob, IInv, JobStep
<1>4. /\ job[r].at = "saved" /\ Granted(r) /\ Executed(r)
      /\ UNCHANGED <<close, brk, disp, p9, begun, ledger>>
    BY DEF PersistApproval, dispatchVars, IInv, CloseInv
<1>5. Granted(r)' /\ Executed(r)'
    BY <1>1, <1>2, <1>3, <1>4 DEF Granted, Executed
<1> QED BY <1>1, <1>3, <1>4, <1>5, RequestStep DEF IInv, TypeOK

LEMMA CrashJobStep ==
    ASSUME IInv, NEW r \in Requests, CrashJob(r)
    PROVE  IInv'
BY EndStep DEF CrashJob, approvalVars

-----------------------------------------------------------------------------
(* The dispatches. *)

\* What P9 holds under a key it goes on holding; only its status moves on.
Keeps(k) ==
    p9[k] # None =>
        /\ p9'[k] # None
        /\ p9'[k].payable = p9[k].payable
        /\ p9'[k].req = p9[k].req
        /\ p9'[k].by = p9[k].by
        /\ Became(p9[k].status, p9'[k].status)

\* A step of the dispatches leaves the close alone; P9 and the ledger only gain.
LEMMA DispatchStepOf ==
    ASSUME IInv, UNCHANGED <<entry, winner, job, close, brk>>,
           disp' \in [Calls -> Dispatch], p9' \in [Keys -> Instruction \cup {None}],
           begun' \in Seq(Calls), ledger' \subseteq LedgerRow,
           \A k \in Keys : Keeps(k),
           \A k \in Keys : p9[k] = None => Sent(k)',
           Len(begun) <= Len(begun'), \A n \in DOMAIN begun : begun'[n] = begun[n],
           ledger \subseteq ledger',
           \A x \in ledger' \ ledger : Recorded(x)',
           \A c \in Calls : disp'[c] = disp[c] \/ CallInv(c)'
    PROVE  IInv'
<1>1. TypeOK'
    BY DEF IInv, TypeOK, Gate!TypeOK, Life!TypeOK
<1>2. CloseInv'
    BY DEF IInv, CloseInv, Granted, Executed, CloseNamesItsGrant
<1>3. ASSUME NEW k \in Keys PROVE Sent(k)'
    BY DEF IInv, DispatchInv, Keeps, Sent
<1>4. DOMAIN begun \subseteq DOMAIN begun'
    BY DEF IInv, TypeOK
<1>5. ASSUME NEW c \in Calls PROVE CallInv(c)'
    <2>1. CASE CallInv(c)'
        BY <2>1
    <2>2. CASE disp'[c] = disp[c]
        <3>1. CallInv(c) /\ close' = close
            BY DEF IInv, DispatchInv
        <3>2. Underway(c)' /\ Directed(c)'
            BY <2>2, <3>1 DEF CallInv, Underway, Directed
        <3>3. Told(c)'
            <4> SUFFICES ASSUME disp[c].at \in {"answered", "recording", "inserting", "ok"}
                         PROVE  /\ p9'[disp[c].key] # None
                                /\ disp[c].status \in P9Status
                                /\ Became(disp[c].status, p9'[disp[c].key].status)
                BY <2>2 DEF Told
            <4>1. disp[c].key \in Keys /\ Keeps(disp[c].key)
                BY <3>1 DEF CallInv, Directed
            <4> QED BY <3>1, <4>1 DEF CallInv, Told, Keeps, Became
        <3>4. Begun(c)'
            BY <2>2, <3>1, <1>4 DEF CallInv, Begun
        <3>5. Holds(c)'
            BY <2>2, <3>1, <1>4 DEF CallInv, Holds
        <3>6. Noted(c)'
            BY <2>2, <3>1 DEF CallInv, Noted
        <3> QED BY <3>2, <3>3, <3>4, <3>5, <3>6 DEF CallInv
    <2> QED BY <2>1, <2>2
<1>6. ASSUME NEW x \in ledger' PROVE Recorded(x)'
    <2>1. CASE x \in ledger
        <3>1. Recorded(x) /\ x.key \in Keys /\ Keeps(x.key)
            BY <2>1 DEF IInv, DispatchInv, TypeOK, LedgerRow
        <3> QED BY <3>1, <1>4 DEF Recorded, Keeps, Became
    <2> QED BY <2>1
<1>7. DispatchInv'
    BY <1>3, <1>5, <1>6 DEF DispatchInv
<1> QED BY <1>1, <1>2, <1>7 DEF IInv

\* A step of one call, which moves its record to d and lets nothing but the calls move.
LEMMA CallStep ==
    ASSUME IInv, NEW c \in Calls, NEW d \in Dispatch, SetDispatch(c, d),
           UNCHANGED <<entry, winner, job, close, brk, p9, begun, ledger>>,
           CallInv(c)'
    PROVE  IInv'
<1>1. /\ disp' \in [Calls -> Dispatch]
      /\ \A o \in Calls : disp'[o] = disp[o] \/ CallInv(o)'
    BY DEF SetDispatch, IInv, TypeOK
<1>2. \A k \in Keys : Keeps(k) /\ (p9[k] = None => Sent(k)')
    BY DEF Keeps, Became, Sent
<1> QED BY <1>1, <1>2, DispatchStepOf DEF IInv, TypeOK

LEMMA FailStep ==
    ASSUME IInv, NEW c \in Calls, Fails(c),
           UNCHANGED <<entry, winner, job, close, brk, p9, begun, ledger>>
    PROVE  IInv'
<1> DEFINE d == [IdleDispatch EXCEPT !.at = "failed"]
<1>1. d \in Dispatch /\ d.at = "failed" /\ SetDispatch(c, d)
    BY DEF Fails, IdleDispatch, Dispatch, DispatchStep
<1>2. disp'[c].at = "failed"
    BY <1>1 DEF SetDispatch, IInv, TypeOK
<1>3. CallInv(c)'
    BY <1>2 DEF CallInv, Underway, Directed, Told, Begun, Holds, Noted
<1> HIDE DEF d
<1> QED BY <1>1, <1>3, CallStep

\* Whoever may dispatch is one of the two the close names.
LEMMA EvidenceOfClose ==
    ASSUME IInv, close # None, Evidence(close.req)
    PROVE  /\ close.req \in Requests
           /\ entry[close.req].initiator = close.initiated_by
           /\ entry[close.req].approver = close.approved_by
<1>1. close.req \in Requests
    BY DEF IInv, TypeOK, Close
<1>2. Granted(close.req)
    BY <1>1 DEF IInv, CloseInv
<1> QED BY <1>1, <1>2 DEF IInv, CloseInv, CloseNamesItsGrant, Granted, Evidence

LEMMA AuthoriseStep ==
    ASSUME IInv, NEW c \in Calls, NEW p \in People, NEW k \in Keys, Authorise(c, p, k)
    PROVE  IInv'
<1> DEFINE d == [IdleDispatch EXCEPT !.at = "authorised", !.by = p, !.key = k,
                                     !.payable = KeyOf[k], !.req = close.req]
<1>1. /\ close # None /\ Authorises(close.req, p) /\ SetDispatch(c, d)
      /\ UNCHANGED <<entry, winner, job, close, brk, p9, begun, ledger>>
    BY DEF Authorise, approvalVars, closeVars
<1>2. close.req \in Requests /\ p \in {close.initiated_by, close.approved_by}
    BY <1>1, EvidenceOfClose DEF Authorises
<1>3. /\ d \in Dispatch /\ d.at = "authorised" /\ d.by = p /\ d.key = k
      /\ d.payable = KeyOf[k] /\ d.req = close.req
    BY <1>2, PayableAssumption DEF IdleDispatch, Dispatch, DispatchStep
<1> HIDE DEF d
<1>4. disp'[c] = d
    BY <1>1 DEF SetDispatch, IInv, TypeOK
<1>5. CallInv(c)'
    BY <1>1, <1>2, <1>3, <1>4 DEF CallInv, Underway, Directed, Told, Begun, Holds, Noted
<1> QED BY <1>1, <1>3, <1>5, CallStep

LEMMA SendStep ==
    ASSUME IInv, NEW c \in Calls, Send(c)
    PROVE  IInv'
<1> DEFINE k == disp[c].key
           i == [payable |-> disp[c].payable, status |-> "dispatched",
                 by |-> disp[c].by, req |-> disp[c].req]
<1>1. /\ disp[c].at = "authorised" /\ CallInv(c)
      /\ UNCHANGED <<entry, winner, job, close, brk, begun, ledger>>
    BY DEF Send, approvalVars, closeVars, IInv, DispatchInv
<1>2. /\ k \in Keys /\ close # None /\ disp[c].req = close.req
      /\ disp[c].by \in {close.initiated_by, close.approved_by}
      /\ disp[c].payable = KeyOf[k]
    BY <1>1 DEF CallInv, Underway, Directed
<1>3. i \in Instruction /\ i # None
    BY <1>2, PayableAssumption DEF IInv, TypeOK, Close, Instruction, P9Status
<1>4. p9' = [p9 EXCEPT ![k] = IF p9[k] = None THEN i ELSE p9[k]]
    BY DEF Send
<1>5. p9' \in [Keys -> Instruction \cup {None}] /\ \A o \in Keys : Keeps(o)
    BY <1>2, <1>3, <1>4 DEF IInv, TypeOK, Keeps, Became
<1>6. ASSUME NEW o \in Keys, p9[o] = None PROVE Sent(o)'
    BY <1>1, <1>2, <1>3, <1>4, <1>6 DEF IInv, TypeOK, Sent
<1>7. p9'[k] # None /\ Answer(k) = p9'[k].status /\ Answer(k) \in P9Status
    BY <1>2, <1>3, <1>4 DEF IInv, TypeOK, Answer, Instruction, P9Status
<1>8. disp' \in [Calls -> Dispatch] /\ \A o \in Calls : disp'[o] = disp[o] \/ CallInv(o)'
    <2>1. CASE Fails(c)
        <3>1. disp' \in [Calls -> Dispatch] /\ disp'[c].at = "failed"
              /\ \A o \in Calls \ {c} : disp'[o] = disp[o]
            BY <2>1 DEF Fails, SetDispatch, IInv, TypeOK, IdleDispatch, Dispatch, DispatchStep
        <3> QED BY <3>1 DEF CallInv, Underway, Directed, Told, Begun, Holds, Noted
    <2>2. CASE SetDispatch(c, [disp[c] EXCEPT !.at = "answered", !.status = Answer(k)])
        <3>1. /\ disp' \in [Calls -> Dispatch]
              /\ \A o \in Calls \ {c} : disp'[o] = disp[o]
              /\ disp'[c].at = "answered" /\ disp'[c].status = Answer(k) /\ disp'[c].key = k
              /\ disp'[c].payable = disp[c].payable /\ disp'[c].req = disp[c].req
              /\ disp'[c].by = disp[c].by
            BY <2>2, <1>7 DEF SetDispatch, IInv, TypeOK, Dispatch, DispatchStep
        <3>2. CallInv(c)'
            BY <1>1, <1>2, <1>7, <3>1
                DEF CallInv, Underway, Directed, Told, Begun, Holds, Noted, Became
        <3> QED BY <3>1, <3>2
    <2> QED BY <2>1, <2>2 DEF Send
<1> HIDE DEF k, i
<1> QED BY <1>1, <1>5, <1>6, <1>8, DispatchStepOf DEF IInv, TypeOK

LEMMA P9SettlesStep ==
    ASSUME IInv, NEW k \in Keys, P9Settles(k)
    PROVE  IInv'
<1>1. PICK status \in {"collected", "rejected"} : p9' = [p9 EXCEPT ![k].status = status]
    BY DEF P9Settles
<1>2. /\ p9[k] \in Instruction /\ p9[k].status = "dispatched"
      /\ UNCHANGED <<entry, winner, job, close, brk, disp, begun, ledger>>
    BY DEF P9Settles, approvalVars, closeVars, IInv, TypeOK
<1> DEFINE i == [p9[k] EXCEPT !.status = status]
<1>3. /\ i \in Instruction /\ i.payable = p9[k].payable /\ i.req = p9[k].req
      /\ i.by = p9[k].by
    BY <1>2 DEF Instruction, P9Status
<1>4. p9' = [p9 EXCEPT ![k] = i] /\ i # None
    BY <1>1, <1>3, PayableAssumption
<1> HIDE DEF i
<1>5. p9' \in [Keys -> Instruction \cup {None}] /\ \A o \in Keys : Keeps(o)
    BY <1>2, <1>3, <1>4 DEF IInv, TypeOK, Keeps, Became
<1>6. \A o \in Keys : p9[o] = None => Sent(o)'
    BY <1>2, <1>4, PayableAssumption DEF IInv, TypeOK, Sent
<1> QED BY <1>2, <1>5, <1>6, DispatchStepOf DEF IInv, TypeOK

LEMMA BeginRecordStep ==
    ASSUME IInv, NEW c \in Calls, BeginRecord(c)
    PROVE  IInv'
<1>1. /\ disp[c].at = "answered" /\ CallInv(c) /\ begun' = Append(begun, c)
      /\ UNCHANGED <<entry, winner, job, close, brk, p9, ledger>>
    BY DEF BeginRecord, approvalVars, closeVars, IInv, DispatchInv
<1>2. /\ begun' \in Seq(Calls) /\ Len(begun) <= Len(begun')
      /\ \A n \in DOMAIN begun : begun'[n] = begun[n]
      /\ \E n \in DOMAIN begun' : begun'[n] = c
    <2>1. begun \in Seq(Calls)
        BY DEF IInv, TypeOK
    <2>2. Len(begun') = Len(begun) + 1 /\ begun'[Len(begun) + 1] = c /\ begun' \in Seq(Calls)
        BY <1>1, <2>1
    <2> QED BY <1>1, <2>1, <2>2
<1>3. /\ disp' \in [Calls -> Dispatch] /\ disp'[c].at = "recording"
      /\ \A o \in Calls \ {c} : disp'[o] = disp[o]
      /\ disp'[c].status = disp[c].status /\ disp'[c].key = disp[c].key
      /\ disp'[c].payable = disp[c].payable /\ disp'[c].req = disp[c].req
      /\ disp'[c].by = disp[c].by
    BY DEF BeginRecord, DispatchAt, SetDispatch, IInv, TypeOK, Dispatch, DispatchStep
<1>4. CallInv(c)'
    BY <1>1, <1>2, <1>3 DEF CallInv, Underway, Directed, Told, Begun, Holds, Noted, Became
<1>5. \A k \in Keys : Keeps(k) /\ (p9[k] = None => Sent(k)')
    BY <1>1 DEF Keeps, Became, Sent
<1> QED BY <1>1, <1>2, <1>3, <1>4, <1>5, DispatchStepOf DEF IInv, TypeOK

\* Rows whose transactions have begun have a latest one among them.
LEMMA LatestIsThere ==
    ASSUME NEW rows, rows # {}, NEW n \in Nat, \A x \in rows : x.began \in 1..n
    PROVE  Latest(rows) \in rows
<1> DEFINE ages == {n - x.began : x \in rows}
<1>1. ages \subseteq Nat /\ ages # {}
    OBVIOUS
<1>2. PICK a \in ages : \A b \in ages : ~ (<<b, a>> \in OpToRel(<, Nat))
    BY <1>1, WFMin, NatLessThanWellFounded
<1> HIDE DEF ages
<1>3. \A i, j \in Nat : i < j => <<i, j>> \in OpToRel(<, Nat)
    BY Zenon DEF OpToRel
<1>4. \A b \in ages : a <= b
    <2>1. \A b \in ages : ~ (b < a)
        BY <1>1, <1>2, <1>3, Zenon
    <2> QED BY <1>1, <2>1
<1>5. PICK x \in rows : a = n - x.began
    BY DEF ages
<1>6. ASSUME NEW y \in rows PROVE y.began <= x.began
    <2>1. n - y.began \in ages
        BY DEF ages
    <2> QED BY <1>4, <1>5, <2>1
<1> QED BY <1>6 DEF Latest

\* What a call is about to insert says what the close says, and what P9 answered.
LEMMA NewRowHolds ==
    ASSUME IInv, NEW c \in Calls, disp[c].at = "recording", Evidence(disp[c].req)
    PROVE  /\ NewRow(c) \in LedgerRow
           /\ NewRow(c).key = disp[c].key
           /\ NewRow(c).payable = disp[c].payable
           /\ NewRow(c).state = LedgerStateOf(disp[c].status)
           /\ NewRow(c).req = close.req
           /\ NewRow(c).initiated_by = close.initiated_by
           /\ NewRow(c).approved_by = close.approved_by
           /\ NewRow(c).began \in DOMAIN begun
<1>1. /\ close # None /\ disp[c].req = close.req /\ disp[c].key \in Keys
      /\ disp[c].payable = KeyOf[disp[c].key] /\ disp[c].status \in P9Status
      /\ \E n \in DOMAIN begun : begun[n] = c
    BY DEF IInv, DispatchInv, CallInv, Underway, Directed, Told, Begun
<1>2. /\ close \in Close /\ entry[close.req].initiator = close.initiated_by
      /\ entry[close.req].approver = close.approved_by
    BY <1>1, EvidenceOfClose DEF IInv, TypeOK
<1> DEFINE n == CHOOSE m \in DOMAIN begun : begun[m] = c
<1>3. n \in DOMAIN begun /\ n \in Nat
    BY <1>1 DEF IInv, TypeOK
<1>4. LedgerStateOf(disp[c].status) \in LedgerState
    BY <1>1 DEF LedgerStateOf, LedgerState, P9Status
<1>5. disp[c].payable \in Payables
    BY <1>1, PayableAssumption
<1>6. NewRow(c) = [key |-> disp[c].key, state |-> LedgerStateOf(disp[c].status),
                   payable |-> disp[c].payable, req |-> close.req,
                   initiated_by |-> close.initiated_by, approved_by |-> close.approved_by,
                   began |-> n]
    BY <1>1, <1>2 DEF NewRow
<1> HIDE DEF n
<1> QED BY <1>1, <1>2, <1>3, <1>4, <1>5, <1>6 DEF LedgerRow, Close

LEMMA ReadLedgerStep ==
    ASSUME IInv, NEW c \in Calls, ReadLedger(c)
    PROVE  IInv'
<1> DEFINE new == NewRow(c)
           rows == RowsUnder(new.key)
<1>1. /\ disp[c].at = "recording" /\ CallInv(c)
      /\ UNCHANGED <<entry, winner, job, close, brk, p9, begun, ledger>>
    BY DEF ReadLedger, approvalVars, closeVars, IInv, DispatchInv
<1>2. \/ Fails(c)
      \/ Evidence(new.req) /\ rows # {} /\ Latest(rows).state = new.state /\ Answered(c)
      \/ Evidence(new.req) /\ SetDispatch(c, [disp[c] EXCEPT !.at = "inserting", !.row = new])
    BY DEF ReadLedger
<1>3. new.req = disp[c].req
    BY DEF NewRow
<1>4. CASE Fails(c)
    BY <1>1, <1>4, FailStep
<1>5. CASE /\ Evidence(new.req) /\ rows # {} /\ Latest(rows).state = new.state
           /\ Answered(c)
    <2> DEFINE d == [disp[c] EXCEPT !.at = "ok", !.by = None, !.row = None]
    <2>1. /\ d \in Dispatch /\ d.at = "ok" /\ d.key = disp[c].key
          /\ d.payable = disp[c].payable /\ d.status = disp[c].status
        BY DEF IInv, TypeOK, Dispatch, DispatchStep
    <2>2. SetDispatch(c, d)
        BY <1>5 DEF Answered
    <2>3. \A x \in rows : x.began \in 1..Len(begun)
        BY DEF RowsUnder, IInv, TypeOK, DispatchInv, Recorded
    <2>4. Latest(rows) \in rows
        BY <1>5, <2>3, LatestIsThere DEF IInv, TypeOK
    <2>5. /\ new.key = disp[c].key /\ new.state = LedgerStateOf(disp[c].status)
        BY <1>1, <1>3, <1>5, NewRowHolds
    <2>6. PICK x \in ledger : x.key = disp[c].key /\ x.state = LedgerStateOf(disp[c].status)
        BY <1>5, <2>4, <2>5 DEF RowsUnder
    <2>7. x.payable = disp[c].payable
        BY <1>1, <2>6 DEF IInv, DispatchInv, Recorded, CallInv, Directed
    <2> HIDE DEF d, new, rows
    <2>8. disp'[c] = d
        BY <2>2 DEF SetDispatch, IInv, TypeOK
    <2>9. CallInv(c)'
        BY <1>1, <2>1, <2>6, <2>7, <2>8 DEF CallInv, Underway, Directed, Told, Begun, Holds, Noted
    <2> QED BY <1>1, <2>1, <2>2, <2>9, CallStep
<1>6. CASE /\ Evidence(new.req)
           /\ SetDispatch(c, [disp[c] EXCEPT !.at = "inserting", !.row = new])
    <2> DEFINE d == [disp[c] EXCEPT !.at = "inserting", !.row = new]
    <2>1. /\ new \in LedgerRow /\ new.key = disp[c].key /\ new.payable = disp[c].payable
          /\ new.state = LedgerStateOf(disp[c].status) /\ new.req = close.req
          /\ new.initiated_by = close.initiated_by /\ new.approved_by = close.approved_by
          /\ new.began \in DOMAIN begun
        BY <1>1, <1>3, <1>6, NewRowHolds
    <2> HIDE DEF new
    <2>2. /\ d \in Dispatch /\ d.at = "inserting" /\ d.row = new /\ d.key = disp[c].key
          /\ d.payable = disp[c].payable /\ d.status = disp[c].status /\ d.by = disp[c].by
          /\ d.req = disp[c].req
        BY <2>1 DEF IInv, TypeOK, Dispatch, DispatchStep
    <2>3. SetDispatch(c, d)
        BY <1>6
    <2> HIDE DEF d
    <2>4. disp'[c] = d
        BY <2>3 DEF SetDispatch, IInv, TypeOK
    <2>5. CallInv(c)'
        BY <1>1, <2>1, <2>2, <2>4 DEF CallInv, Underway, Directed, Told, Begun, Holds, Noted
    <2> QED BY <1>1, <2>2, <2>3, <2>5, CallStep
<1> QED BY <1>2, <1>4, <1>5, <1>6

LEMMA InsertRowStep ==
    ASSUME IInv, NEW c \in Calls, InsertRow(c)
    PROVE  IInv'
<1> DEFINE new == disp[c].row
           d == [disp[c] EXCEPT !.at = "ok", !.by = None, !.row = None]
<1>1. /\ disp[c].at = "inserting" /\ CallInv(c) /\ SetDispatch(c, d)
      /\ ledger' = IF Held(new) THEN ledger ELSE ledger \cup {new}
      /\ UNCHANGED <<entry, winner, job, close, brk, p9, begun>>
    BY DEF InsertRow, Answered, approvalVars, closeVars, IInv, DispatchInv
<1>2. /\ new \in LedgerRow /\ new.key = disp[c].key /\ new.payable = disp[c].payable
      /\ new.state = LedgerStateOf(disp[c].status) /\ new.req = close.req
      /\ new.initiated_by = close.initiated_by /\ new.approved_by = close.approved_by
      /\ new.began \in DOMAIN begun
    BY <1>1 DEF CallInv, Holds
<1>3. /\ close # None /\ disp[c].key \in Keys /\ disp[c].payable = KeyOf[disp[c].key]
      /\ p9[disp[c].key] # None /\ disp[c].status \in P9Status
      /\ Became(disp[c].status, p9[disp[c].key].status)
    BY <1>1 DEF CallInv, Underway, Directed, Told
<1>4. /\ d \in Dispatch /\ d.at = "ok" /\ d.key = disp[c].key
      /\ d.payable = disp[c].payable /\ d.status = disp[c].status
    BY DEF IInv, TypeOK, Dispatch, DispatchStep
<1> HIDE DEF new, d
<1>5. disp' \in [Calls -> Dispatch] /\ disp'[c] = d /\ \A o \in Calls \ {c} : disp'[o] = disp[o]
    BY <1>1, <1>4 DEF SetDispatch, IInv, TypeOK
<1>6. ledger \subseteq ledger' /\ ledger' \subseteq ledger \cup {new} /\ ledger' \subseteq LedgerRow
    BY <1>1, <1>2 DEF IInv, TypeOK
<1>7. ASSUME NEW x, x = new PROVE Recorded(x)'
    BY <1>1, <1>2, <1>3, <1>7 DEF Recorded, LedgerStateOf, Became, P9Status
<1>8. PICK x \in ledger' : x.key = new.key /\ x.state = new.state
    BY <1>1 DEF Held
<1>9. x.payable = new.payable
    BY <1>1, <1>2, <1>3, <1>6, <1>8 DEF IInv, DispatchInv, Recorded
<1>10. CallInv(c)'
    BY <1>1, <1>2, <1>3, <1>4, <1>5, <1>8, <1>9
        DEF CallInv, Underway, Directed, Told, Begun, Holds, Noted
<1>11. \A k \in Keys : Keeps(k) /\ (p9[k] = None => Sent(k)')
    BY <1>1 DEF Keeps, Became, Sent
<1> QED BY <1>1, <1>5, <1>6, <1>7, <1>10, <1>11, DispatchStepOf DEF IInv, TypeOK

-----------------------------------------------------------------------------
LEMMA BreakStep ==
    ASSUME IInv, NEW b \in Lines, Break(b)
    PROVE  IInv'
<1>1. UNCHANGED <<entry, winner, job, close, disp, p9, begun, ledger>>
    BY DEF Break, approvalVars, closeVars, dispatchVars
<1>2. brk' \in [Lines -> Life!BreakStatus]
    BY DEF Break, Life!Move, Life!RaiseBreak, Life!WorkBreak, Life!ReopenBreak,
        Life!BreakStatus, Life!TypeOK, IInv, TypeOK
<1>3. TypeOK'
    BY <1>1, <1>2 DEF IInv, TypeOK, Gate!TypeOK, Life!TypeOK
<1>4. CloseInv'
    BY <1>1 DEF IInv, CloseInv, Granted, Executed, CloseNamesItsGrant
<1>5. DispatchInv'
    BY <1>1 DEF IInv, DispatchInv, Sent, CallInv, Underway, Directed, Told, Begun, Holds, Noted,
        Recorded
<1> QED BY <1>3, <1>4, <1>5 DEF IInv

LEMMA IdleStep == IInv /\ UNCHANGED vars => IInv'
<1> SUFFICES ASSUME IInv, UNCHANGED vars PROVE IInv'
    OBVIOUS
<1>1. UNCHANGED <<entry, winner, job, close, brk, disp, p9, begun, ledger>>
    BY DEF vars, approvalVars, closeVars, dispatchVars
<1>2. TypeOK'
    BY <1>1 DEF IInv, TypeOK, Gate!TypeOK, Life!TypeOK
<1>3. CloseInv'
    BY <1>1 DEF IInv, CloseInv, Granted, Executed, CloseNamesItsGrant
<1>4. DispatchInv'
    BY <1>1 DEF IInv, DispatchInv, Sent, CallInv, Underway, Directed, Told, Begun, Holds, Noted,
        Recorded
<1> QED BY <1>2, <1>3, <1>4 DEF IInv

LEMMA NextIInv == IInv /\ [Next]_vars => IInv'
<1> SUFFICES ASSUME IInv, [Next]_vars PROVE IInv'
    OBVIOUS
<1>1. ASSUME NEW r \in Requests, CloseStep(r) PROVE IInv'
    BY <1>1, AskStep, RefuseStep, ExecuteCloseStep, SaveCloseStep, PersistApprovalStep,
        CrashJobStep, AskUnclosedStep, AskDirectlyStep, GrantStep DEF CloseStep
<1>2. ASSUME NEW c \in Calls, DispatchCall(c) PROVE IInv'
    <2>1. CASE CrashDispatch(c)
        BY <2>1, FailStep DEF CrashDispatch, approvalVars, closeVars
    <2> QED BY <1>2, <2>1, SendStep, BeginRecordStep, ReadLedgerStep, InsertRowStep, AuthoriseStep
        DEF DispatchCall
<1> QED BY <1>1, <1>2, BreakStep, P9SettlesStep, IdleStep DEF Next

LEMMA Invariance == Spec => []IInv
<1> QED BY InitIInv, NextIInv, PTL DEF Spec

-----------------------------------------------------------------------------
\* Every variable keeps its type, whichever requests and calls overlap or die.
THEOREM TypeCorrectness == Spec => []TypeOK
<1>1. IInv => TypeOK
    BY DEF IInv
<1> QED BY Invariance, <1>1, PTL

\* saveClose: the close names the two humans of the grant it was written under, for good.
THEOREM CloseNamedItsGrant == Spec => []CloseNamesItsGrant
<1>1. IInv => CloseNamesItsGrant
    BY DEF IInv, CloseInv
<1> QED BY Invariance, <1>1, PTL

\* saveClose: of all the executions of all the requests, one at most is told it closed the
\* period.
THEOREM OneCloseSucceeded == Spec => []OneCloseSucceeds
<1>1. IInv => OneCloseSucceeds
    BY DEF IInv, CloseInv, Executed, OneCloseSucceeds
<1> QED BY Invariance, <1>1, PTL

\* assertApprovalAuthorises: no debit reaches P9 but under the close, from one of the two who
\* made it.
THEOREM DebitsWereAuthorised == Spec => []DebitsAreAuthorised
<1>1. IInv => DebitsAreAuthorised
    BY DEF IInv, DispatchInv, Sent, DebitsAreAuthorised
<1> QED BY Invariance, <1>1, PTL

\* recordDispatch: a ledger row cites the approval and the names the close cites.
THEOREM LedgerCitedTheClose == Spec => []LedgerCitesTheClose
<1>1. IInv => LedgerCitesTheClose
    BY DEF IInv, DispatchInv, Recorded, LedgerCitesTheClose
<1> QED BY Invariance, <1>1, PTL

\* payableLedgerDispatchState: the ledger says no more than P9 did, however late a call
\* records what it was answered.
THEOREM LedgerWasBackedByP9 == Spec => []LedgerIsBackedByP9
<1>1. IInv => LedgerIsBackedByP9
    <2> SUFFICES ASSUME IInv, NEW x \in ledger
                 PROVE  /\ p9[x.key] # None
                        /\ p9[x.key].payable = x.payable
                        /\ x.state = "accepted" => p9[x.key].status = "collected"
                        /\ x.state = "rejected" => p9[x.key].status = "rejected"
        BY DEF LedgerIsBackedByP9
    <2>1. Recorded(x) /\ x.key \in Keys
        BY DEF IInv, TypeOK, LedgerRow, DispatchInv
    <2> QED BY <2>1 DEF IInv, DispatchInv, Sent, Recorded
<1> QED BY Invariance, <1>1, PTL

\* recordDispatch: nobody is told of a dispatch the ledger does not have, in the state it
\* was told.
THEOREM AnsweredWasRecorded == Spec => []AnsweredIsRecorded
<1>1. IInv => AnsweredIsRecorded
    BY DEF IInv, DispatchInv, CallInv, Noted, AnsweredIsRecorded
<1> QED BY Invariance, <1>1, PTL
=============================================================================
