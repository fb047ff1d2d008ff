-------------------------- MODULE ApprovalsProofs --------------------------
(***************************************************************************)
(* The safety properties of Approvals, for any number of requests, calls   *)
(* and principals.  The argument: only a pending row can be claimed, a     *)
(* pending row was never claimed, and nothing makes a row pending again;   *)
(* so a request has at most one claim, and only its claim is executed.     *)
(***************************************************************************)
EXTENDS Approvals, TLAPS

Live(c) == call[c].at \notin {"idle", "end"}

\* A call under way works on an existing row, and its copy agrees with the row
\* on the columns that are never updated.
CopyAgrees(c) ==
    LET r == call[c].req
        snap == call[c].snap
    IN  /\ row[r].state # "none"
        /\ snap.initiator = row[r].initiator
        /\ snap.expires_at = row[r].expires_at

\* The copy of a row that was pending when it was read carries no stamp.
CopyUnstamped(c) ==
    /\ call[c].at \in {"expire", "decide", "reject"} => call[c].snap.approved_at = None
    /\ call[c].at = "fetched" /\ call[c].snap.state = "pending" =>
          call[c].snap.approved_at = None

\* What approve established before its claim.
Permitted(c) ==
    LET snap == call[c].snap
    IN  call[c].at \in {"claim", "execute", "running", "persist"} =>
            /\ snap.state = "approved"
            /\ snap.approved_at \in Nat
            /\ snap.approved_at <= snap.expires_at
            /\ call[c].who \in Approvers
            /\ Human[call[c].who] # Human[snap.initiator]

\* A call past its claim holds it, past op.execute it has run it, and when it
\* is about to audit an approval it has run the operation it approves.
Holds(c) ==
    /\ call[c].at \in {"execute", "running", "persist"} => ClaimOf(c) \in claims
    /\ call[c].at \in {"running", "persist"} => ClaimOf(c) \in runs
    /\ call[c].at = "audit" /\ call[c].snap.state = "approved" =>
          \E x \in runs : x.req = call[c].req /\ x.call = c

CallInv(c) == Live(c) => CopyAgrees(c) /\ CopyUnstamped(c) /\ Permitted(c) /\ Holds(c)

\* An existing row has an initiator; one that can still be claimed carries no
\* stamp and was never claimed; a stamp was put there by a claim; the deadline
\* was computed from the clock.
RowInv(r) ==
    /\ row[r].expires_at \in 0 .. (MaxNow + Window)
    /\ row[r].state # "none" => row[r].initiator \in Principals
    /\ row[r].state \in {"none", "pending"} =>
          row[r].approved_at = None /\ \A x \in claims : x.req # r
    /\ row[r].approved_at # None => \E x \in claims : x.req = r

\* One claim per request, by a second person, in time, stamped on the row.
ClaimInv(x) ==
    /\ \A y \in claims : x.req = y.req => x = y
    /\ Human[x.by] # Human[row[x.req].initiator]
    /\ x.by \in Approvers
    /\ row[x.req].approved_at = x.at
    /\ x.at <= row[x.req].expires_at

\* The inductive invariant.
IInv ==
    /\ TypeOK
    /\ \A c \in Calls : CallInv(c)
    /\ \A r \in Requests : RowInv(r)
    /\ \A x \in claims : ClaimInv(x)
    /\ AuditedApprovalsRan

-----------------------------------------------------------------------------
\* A step that changes one call and nothing it shares with the others.
LEMMA LocalStep ==
  ASSUME IInv, NEW c \in Calls,
         call' \in [Calls -> Call],
         \A d \in Calls : d # c => call'[d] = call[d],
         UNCHANGED <<row, claims, runs, trail>>, now' = now,
         Live(c)' => call'[c].req \in Requests /\ call'[c].who \in Principals,
         CallInv(c)'
  PROVE  IInv'
  <1>1. TypeOK'
    <2>1. ASSUME NEW d \in Calls, Live(d)'
          PROVE  call'[d].req \in Requests /\ call'[d].who \in Principals
      BY <2>1 DEF IInv, TypeOK, Live
    <2> QED
      BY <2>1 DEF IInv, TypeOK, Live
  <1>2. ASSUME NEW d \in Calls PROVE CallInv(d)'
    <2>1. CASE d = c
      BY <2>1
    <2>2. CASE d # c
      BY <2>2 DEF IInv, CallInv, Live, CopyAgrees, CopyUnstamped, Permitted, Holds, ClaimOf
    <2> QED
      BY <2>1, <2>2
  <1>3. \A r \in Requests : RowInv(r)'
    BY DEF IInv, RowInv
  <1>4. \A x \in claims' : ClaimInv(x)'
    BY DEF IInv, ClaimInv
  <1>5. AuditedApprovalsRan'
    BY DEF IInv, AuditedApprovalsRan
  <1> QED
    BY <1>1, <1>2, <1>3, <1>4, <1>5 DEF IInv

\* store.update with a copy that does not bring a stamp of its own: whoever
\* wins, the row stays resolved and its stamp stays what it is.
LEMMA StoreStep ==
  ASSUME IInv, NEW c \in Calls, Live(c), NEW copy \in Row,
         copy.state \in Resolved,
         copy.approved_at \in {None, row[call[c].req].approved_at},
         StoreUpdate(c, copy),
         call' \in [Calls -> Call],
         \A d \in Calls : d # c => call'[d] = call[d],
         UNCHANGED <<claims, runs, trail>>, now' = now,
         call'[c].req = call[c].req, call'[c].who = call[c].who,
         call'[c].at = "audit",
         call'[c].snap.initiator = call[c].snap.initiator,
         call'[c].snap.expires_at = call[c].snap.expires_at,
         Holds(c)'
  PROVE  IInv'
  <1> DEFINE r == call[c].req
  <1>0. r \in Requests /\ row \in [Requests -> Row] /\ row[r] \in Row
    BY DEF IInv, TypeOK, Live
  <1>1. Coalesce(row[r].approved_at, copy.approved_at) = row[r].approved_at
    BY DEF Coalesce
  <1>2. row' \in [Requests -> Row]
    BY <1>0, <1>1 DEF StoreUpdate, Row
  <1>3. \A q \in Requests : /\ row'[q].initiator = row[q].initiator
                            /\ row'[q].expires_at = row[q].expires_at
                            /\ row'[q].approved_at = row[q].approved_at
                            /\ row'[q].state = IF q = r THEN copy.state ELSE row[q].state
    BY <1>0, <1>1 DEF StoreUpdate, Row
  <1>4. TypeOK'
    BY <1>2 DEF IInv, TypeOK, Live
  <1>5. ASSUME NEW d \in Calls PROVE CallInv(d)'
    <2>1. CASE d = c
      <3>1. CopyAgrees(c)'
        BY <1>0, <1>3, <2>1 DEF IInv, CallInv, Live, CopyAgrees, Resolved
      <3> QED
        BY <2>1, <3>1 DEF CallInv, CopyUnstamped, Permitted
    <2>2. CASE d # c
      <3>1. Live(d) => call[d].req \in Requests
        BY DEF IInv, TypeOK, Live
      <3>2. Live(d) => CopyAgrees(d)'
        BY <1>3, <2>2, <3>1 DEF IInv, CallInv, CopyAgrees, Resolved
      <3> QED
        BY <2>2, <3>2 DEF IInv, CallInv, Live, CopyUnstamped, Permitted, Holds, ClaimOf
    <2> QED
      BY <2>1, <2>2
  <1>6. ASSUME NEW q \in Requests PROVE RowInv(q)'
    <2>1. row[r].state # "none"
      BY DEF IInv, CallInv, CopyAgrees
    <2> QED
      BY <1>3, <2>1 DEF IInv, RowInv, Resolved
  <1>7. ASSUME NEW x \in claims' PROVE ClaimInv(x)'
    BY <1>3 DEF IInv, TypeOK, Claim, ClaimInv
  <1>8. AuditedApprovalsRan'
    BY DEF IInv, AuditedApprovalsRan
  <1> QED
    BY <1>4, <1>5, <1>6, <1>7, <1>8 DEF IInv

\* requestApproval: the row is new, so no claim and no other call is about it.
LEMMA CreateStep ==
  ASSUME IInv, NEW c \in Calls, NEW p \in Principals, NEW r \in Requests, Create(c, p, r)
  PROVE  IInv'
  <1> USE ApprovalsAssumption
  <1> DEFINE new == PendingRow(p)
  <1>1. new = [state |-> "pending", initiator |-> p, approver |-> None,
               expires_at |-> now + Window, approved_at |-> None, result |-> FALSE]
    BY DEF PendingRow
  <1>2. new \in Row
    BY <1>1 DEF Row, RowState, Subjects, IInv, TypeOK
  <1>3. row' \in [Requests -> Row] /\ row'[r] = new /\ \A q \in Requests : q # r => row'[q] = row[q]
    BY <1>2 DEF Create, IInv, TypeOK
  <1>4. /\ call' \in [Calls -> Call]
        /\ call'[c] = [at |-> "audit", op |-> "request", who |-> p, req |-> r, snap |-> new]
        /\ \A d \in Calls : d # c => call'[d] = call[d]
    BY <1>2 DEF Create, IInv, TypeOK, Call, Step, Subjects
  <1>5. row[r].state = "none" /\ \A x \in claims : x.req # r
    BY DEF Create, IInv, RowInv
  <1>6. TypeOK'
    <2>1. ASSUME NEW d \in Calls, Live(d)'
          PROVE  call'[d].req \in Requests /\ call'[d].who \in Principals
      BY <1>4, <2>1 DEF IInv, TypeOK, Live
    <2> QED
      BY <1>3, <1>4, <2>1 DEF Create, IInv, TypeOK, Live
  <1>7. ASSUME NEW d \in Calls PROVE CallInv(d)'
    <2>1. CASE d = c
      BY <1>1, <1>3, <1>4, <2>1 DEF CallInv, Live, CopyAgrees, CopyUnstamped, Permitted, Holds
    <2>2. CASE d # c
      <3>1. Live(d) => call[d].req \in Requests /\ call[d].req # r
        BY <1>5 DEF IInv, TypeOK, Live, CallInv, CopyAgrees
      <3> QED
        BY <1>3, <1>4, <2>2, <3>1
        DEF Create, IInv, CallInv, Live, CopyAgrees, CopyUnstamped, Permitted, Holds, ClaimOf
    <2> QED
      BY <2>1, <2>2
  <1>8. ASSUME NEW q \in Requests PROVE RowInv(q)'
    <2>1. now + Window \in 0 .. (MaxNow + Window)
      BY DEF IInv, TypeOK
    <2> QED
      BY <1>1, <1>3, <1>5, <2>1 DEF Create, IInv, RowInv
  <1>9. ASSUME NEW x \in claims' PROVE ClaimInv(x)'
    BY <1>3, <1>5 DEF Create, IInv, TypeOK, Claim, ClaimInv
  <1>10. AuditedApprovalsRan'
    BY DEF Create, IInv, AuditedApprovalsRan
  <1> QED
    BY <1>6, <1>7, <1>8, <1>9, <1>10 DEF IInv

\* Reading a row: the copy agrees with it, and a pending row has no stamp.
LEMMA FetchStep ==
  ASSUME IInv, NEW c \in Calls, NEW op \in {"approve", "reject", "read"},
         NEW p \in Principals, NEW r \in Requests, Fetch(c, op, p, r)
  PROVE  IInv'
  <1>1. row[r] \in Row
    BY DEF IInv, TypeOK
  <1>2. /\ call' \in [Calls -> Call]
        /\ call'[c] = [at |-> "fetched", op |-> op, who |-> p, req |-> r, snap |-> row[r]]
    BY <1>1 DEF Fetch, IInv, TypeOK, Call, Step, Subjects
  <1>3. CallInv(c)'
    BY <1>2 DEF Fetch, IInv, RowInv, CallInv, CopyAgrees, CopyUnstamped, Permitted, Holds
  <1> QED
    BY <1>2, <1>3, LocalStep DEF Fetch, IInv, TypeOK

\* Steps that end a call leave nothing behind.
LEMMA FinishStep ==
  ASSUME IInv, NEW c \in Calls, Finish(c), UNCHANGED <<row, now, claims, runs, trail>>
  PROVE  IInv'
  <1>1. [IdleCall EXCEPT !.at = "end"] =
           [at |-> "end", op |-> "none", who |-> None, req |-> None, snap |-> NoRow]
    BY DEF IdleCall
  <1>2. NoRow \in Row
    BY ApprovalsAssumption DEF NoRow, Row, RowState, Subjects
  <1>3. call' \in [Calls -> Call] /\ call'[c].at = "end"
    BY <1>1, <1>2 DEF Finish, IInv, TypeOK, Call, Step, Subjects
  <1>4. CallInv(c)' /\ ~Live(c)'
    BY <1>3 DEF CallInv, Live
  <1> QED
    BY <1>3, <1>4, LocalStep DEF Finish, IInv, TypeOK

\* settleExpiry's test and the state checks only move the call on.
LEMMA CheckWindowStep ==
  ASSUME IInv, NEW c \in Calls, CheckWindow(c)
  PROVE  IInv'
  <1>1. CASE Finish(c)
    BY <1>1, FinishStep DEF CheckWindow
  <1>2. CASE \E step \in {"expire", "decide", "reject"} :
                call[c].snap.state = "pending" /\ GoTo(c, step)
    <2>1. PICK step \in {"expire", "decide", "reject"} :
             call[c].snap.state = "pending" /\ GoTo(c, step)
      BY <1>2
    <2>2. /\ call' \in [Calls -> Call]
          /\ call'[c] = [call[c] EXCEPT !.at = step]
      BY <2>1 DEF GoTo, IInv, TypeOK, Call, Step
    <2>3. call[c].req \in Requests /\ call[c].who \in Principals /\ CallInv(c) /\ call[c] \in Call
      BY DEF CheckWindow, IInv, TypeOK
    <2>4. CallInv(c)'
      BY <2>1, <2>2, <2>3
      DEF CheckWindow, Call, CallInv, Live, CopyAgrees, CopyUnstamped, Permitted, Holds
    <2> QED
      BY <2>1, <2>2, <2>3, <2>4, LocalStep DEF CheckWindow, GoTo, Call, Live, IInv, TypeOK
  <1> QED
    BY <1>1, <1>2 DEF CheckWindow

\* approve's checks establish Permitted for the stamped copy.
LEMMA DecideStep ==
  ASSUME IInv, NEW c \in Calls, Decide(c)
  PROVE  IInv'
  <1> DEFINE p == call[c].who
             snap == call[c].snap
             stamped == [snap EXCEPT !.state = "approved", !.approver = p, !.approved_at = now]
  <1>1. CASE Finish(c)
    BY <1>1, FinishStep DEF Decide, MayApprove
  <1>2. CASE ~Finish(c)
    <2>1. /\ call' = [call EXCEPT ![c].at = "claim", ![c].snap = stamped]
          /\ Human[p] # Human[snap.initiator] /\ p \in Approvers /\ now <= snap.expires_at
      BY <1>2 DEF Decide, MayApprove
    <2>2. call[c].req \in Requests /\ p \in Principals /\ CallInv(c) /\ call[c] \in Call /\ now \in Nat
      BY DEF Decide, IInv, TypeOK
    <2>3. stamped \in Row
      BY <2>2 DEF Call, Row, RowState, Resolved, Subjects
    <2>4. /\ call' \in [Calls -> Call]
          /\ call'[c] = [call[c] EXCEPT !.at = "claim", !.snap = stamped]
      <3>1. [call[c] EXCEPT !.at = "claim", !.snap = stamped] \in Call
        BY <2>2, <2>3 DEF Call, Step
      <3> QED
        BY <2>1, <3>1 DEF IInv, TypeOK
    <2>5. CallInv(c)'
      BY <2>1, <2>2, <2>4
      DEF Decide, Call, Row, CallInv, Live, CopyAgrees, CopyUnstamped, Permitted, Holds
    <2> QED
      BY <2>1, <2>2, <2>4, <2>5, LocalStep DEF Decide, Call, Live, IInv, TypeOK
  <1> QED
    BY <1>1, <1>2

\* settleExpiry's write, by a call whose copy carries no stamp.
LEMMA WriteTimeoutStep ==
  ASSUME IInv, NEW c \in Calls, WriteTimeout(c)
  PROVE  IInv'
  <1> DEFINE snap == call[c].snap
             copy == [snap EXCEPT !.state = "timed_out"]
  <1>1. call[c] \in Call /\ CallInv(c) /\ Live(c)
    BY DEF WriteTimeout, IInv, TypeOK, Live
  <1>2. copy \in Row /\ copy.state = "timed_out" /\ copy.approved_at = None
    BY <1>1 DEF WriteTimeout, CallInv, CopyUnstamped, Call, Row, RowState, Resolved
  <1>3. [call[c] EXCEPT !.at = "audit", !.snap = copy] \in Call
    BY <1>1, <1>2 DEF Call, Step
  <1>4. /\ call' \in [Calls -> Call]
        /\ call'[c] = [call[c] EXCEPT !.at = "audit", !.snap = copy]
        /\ \A d \in Calls : d # c => call'[d] = call[d]
    BY <1>3 DEF WriteTimeout, IInv, TypeOK
  <1>5. Holds(c)'
    BY <1>1, <1>2, <1>4 DEF Holds, Call
  <1> QED
    BY <1>1, <1>2, <1>4, <1>5, StoreStep DEF WriteTimeout, Call, Row, Resolved

\* reject's write, by a call whose copy carries no stamp.
LEMMA RejectStep ==
  ASSUME IInv, NEW c \in Calls, Reject(c)
  PROVE  IInv'
  <1> DEFINE snap == call[c].snap
             copy == [snap EXCEPT !.state = "rejected", !.approver = call[c].who]
  <1>1. call[c] \in Call /\ CallInv(c) /\ Live(c)
    BY DEF Reject, IInv, TypeOK, Live
  <1>2. CASE Finish(c) /\ UNCHANGED row
    BY <1>2, FinishStep DEF Reject
  <1>3. CASE ~(Finish(c) /\ UNCHANGED row)
    <2>1. /\ StoreUpdate(c, copy)
          /\ call' = [call EXCEPT ![c].at = "audit", ![c].snap = copy]
      BY <1>3 DEF Reject
    <2>2. copy \in Row /\ copy.state = "rejected" /\ copy.approved_at = None
      BY <1>1 DEF Reject, CallInv, CopyUnstamped, Call, Row, RowState, Resolved, Subjects
    <2>3. [call[c] EXCEPT !.at = "audit", !.snap = copy] \in Call
      BY <1>1, <2>2 DEF Call, Step
    <2>4. /\ call' \in [Calls -> Call]
          /\ call'[c] = [call[c] EXCEPT !.at = "audit", !.snap = copy]
          /\ \A d \in Calls : d # c => call'[d] = call[d]
      BY <2>1, <2>3 DEF IInv, TypeOK
    <2>5. Holds(c)'
      BY <1>1, <2>2, <2>4 DEF Holds, Call
    <2> QED
      BY <1>1, <2>1, <2>2, <2>4, <2>5, StoreStep DEF Reject, Call, Row, Resolved
  <1> QED
    BY <1>2, <1>3

\* approve's closing write: the copy's stamp is the one its claim put there.
LEMMA PersistStep ==
  ASSUME IInv, NEW c \in Calls, Persist(c)
  PROVE  IInv'
  <1> DEFINE snap == call[c].snap
  <1>1. call[c] \in Call /\ CallInv(c) /\ Live(c) /\ call[c].at = "persist"
    BY DEF Persist, IInv, TypeOK, Live
  <1>2. snap.state = "approved" /\ ClaimOf(c) \in claims /\ ClaimOf(c) \in runs
    BY <1>1 DEF CallInv, Permitted, Holds
  <1>3. snap.approved_at = row[call[c].req].approved_at
    BY <1>2 DEF IInv, ClaimInv, ClaimOf
  <1>4. /\ call' \in [Calls -> Call]
        /\ call'[c] = [call[c] EXCEPT !.at = "audit"]
        /\ \A d \in Calls : d # c => call'[d] = call[d]
    BY <1>1 DEF Persist, GoTo, IInv, TypeOK, Call, Step
  <1>5. Holds(c)'
    BY <1>1, <1>2, <1>4 DEF Persist, Holds, Call, ClaimOf
  <1> QED
    BY <1>1, <1>2, <1>3, <1>4, <1>5, StoreStep DEF Persist, Call, Resolved

\* The compare-and-swap: the winner found the row pending, so the request had
\* no claim before, and its claim is now the only one.
LEMMA ClaimRowStep ==
  ASSUME IInv, NEW c \in Calls, ClaimRow(c)
  PROVE  IInv'
  <1> DEFINE r == call[c].req
             snap == call[c].snap
             won == ClaimOf(c)
  <1> USE ApprovalsAssumption
  <1>1. CASE row[r].state # "pending"
    BY <1>1, FinishStep DEF ClaimRow, Claimable
  <1>2. CASE row[r].state = "pending"
    <2>1. /\ call[c] \in Call /\ CallInv(c) /\ Live(c) /\ call[c].at = "claim"
          /\ r \in Requests /\ call[c].who \in Principals
          /\ row[r] \in Row /\ row[r].approved_at = None /\ \A x \in claims : x.req # r
      BY <1>2 DEF ClaimRow, Claimable, IInv, TypeOK, Live, RowInv
    <2>2. /\ snap.approved_at \in Nat /\ snap.approved_at <= row[r].expires_at
          /\ call[c].who \in Approvers /\ Human[call[c].who] # Human[row[r].initiator]
      BY <2>1 DEF CallInv, CopyAgrees, Permitted
    <2>3. won \in Claim /\ won.req = r /\ won.by = call[c].who /\ won.at = snap.approved_at
      BY <2>1, <2>2 DEF ClaimOf, Claim
    <2>4. claims' = claims \cup {won} /\ UNCHANGED <<now, runs, trail>>
      BY <1>2 DEF ClaimRow, Claimable
    <2>5. row' = [row EXCEPT ![r].state = "approved", ![r].approver = call[c].who,
                             ![r].approved_at = snap.approved_at]
      BY <1>2, <2>1 DEF ClaimRow, Claimable, Coalesce
    <2>6. row' \in [Requests -> Row]
      BY <2>1, <2>2, <2>5 DEF IInv, TypeOK, Row, RowState, Resolved, Subjects
    <2>7. \A q \in Requests :
            /\ row'[q].initiator = row[q].initiator
            /\ row'[q].expires_at = row[q].expires_at
            /\ row'[q].approved_at = IF q = r THEN snap.approved_at ELSE row[q].approved_at
            /\ row'[q].state = IF q = r THEN "approved" ELSE row[q].state
      BY <2>1, <2>5 DEF IInv, TypeOK, Row
    <2>8. /\ call' \in [Calls -> Call]
          /\ call'[c] = [call[c] EXCEPT !.at = "execute"]
          /\ \A d \in Calls : d # c => call'[d] = call[d]
      BY <1>2, <2>1 DEF ClaimRow, Claimable, GoTo, IInv, TypeOK, Call, Step
    <2>9. TypeOK'
      <3>1. ASSUME NEW d \in Calls, Live(d)'
            PROVE  call'[d].req \in Requests /\ call'[d].who \in Principals
        BY <2>1, <2>8, <3>1 DEF IInv, TypeOK, Live, Call
      <3>2. claims' \subseteq Claim /\ runs' \subseteq claims'
        BY <2>3, <2>4 DEF IInv, TypeOK
      <3> QED
        BY <2>4, <2>6, <2>8, <3>1, <3>2 DEF IInv, TypeOK, Live
    <2>10. ASSUME NEW d \in Calls PROVE CallInv(d)'
      <3>1. CASE d = c
        BY <2>1, <2>4, <2>7, <2>8, <3>1
        DEF Call, CallInv, Live, CopyAgrees, CopyUnstamped, Permitted, Holds, ClaimOf
      <3>2. CASE d # c
        <4>1. Live(d) => call[d].req \in Requests
          BY DEF IInv, TypeOK, Live
        <4>2. Live(d) => CopyAgrees(d)'
          BY <2>7, <2>8, <3>2, <4>1 DEF IInv, CallInv, CopyAgrees
        <4> QED
          BY <2>4, <2>8, <3>2, <4>2
          DEF IInv, CallInv, Live, CopyUnstamped, Permitted, Holds, ClaimOf
      <3> QED
        BY <3>1, <3>2
    <2>11. ASSUME NEW q \in Requests PROVE RowInv(q)'
      <3>1. CASE q = r
        <4>1. won \in claims' /\ won.req = q
          BY <2>3, <2>4, <3>1
        <4>2. /\ row'[q].state = "approved" /\ row'[q].initiator = row[q].initiator
              /\ row'[q].expires_at = row[q].expires_at
          BY <2>7, <3>1
        <4>3. row[q].initiator \in Principals /\ row[q].expires_at \in 0 .. (MaxNow + Window)
          BY <1>2, <2>1, <3>1 DEF IInv, RowInv
        <4> QED
          BY <4>1, <4>2, <4>3 DEF RowInv
      <3>2. CASE q # r
        BY <2>3, <2>4, <2>7, <3>2 DEF IInv, RowInv
      <3> QED
        BY <3>1, <3>2
    <2>12. ASSUME NEW x \in claims' PROVE ClaimInv(x)'
      <3>1. CASE x = won
        BY <2>1, <2>2, <2>3, <2>4, <2>7, <3>1 DEF ClaimInv
      <3>2. CASE x \in claims
        BY <2>1, <2>3, <2>4, <2>7, <3>2 DEF IInv, TypeOK, Claim, ClaimInv
      <3> QED
        BY <2>4, <3>1, <3>2
    <2>13. AuditedApprovalsRan'
      BY <2>4 DEF IInv, AuditedApprovalsRan
    <2> QED
      BY <2>9, <2>10, <2>11, <2>12, <2>13 DEF IInv
  <1> QED
    BY <1>1, <1>2

\* op.execute is started by the holder of the only claim on the request.
LEMMA ExecuteStep ==
  ASSUME IInv, NEW c \in Calls, Execute(c)
  PROVE  IInv'
  <1> DEFINE won == ClaimOf(c)
  <1>1. /\ call[c] \in Call /\ CallInv(c) /\ Live(c) /\ call[c].at = "execute"
        /\ call[c].req \in Requests /\ call[c].who \in Principals /\ won \in claims
    BY DEF Execute, IInv, TypeOK, Live, CallInv, Holds
  <1>2. /\ call' \in [Calls -> Call]
        /\ call'[c] = [call[c] EXCEPT !.at = "running"]
        /\ \A d \in Calls : d # c => call'[d] = call[d]
    BY <1>1 DEF Execute, GoTo, IInv, TypeOK, Call, Step
  <1>3. runs' = runs \cup {won} /\ UNCHANGED <<row, now, claims, trail>>
    BY DEF Execute
  <1>4. TypeOK'
    <2>1. ASSUME NEW d \in Calls, Live(d)'
          PROVE  call'[d].req \in Requests /\ call'[d].who \in Principals
      BY <1>1, <1>2, <2>1 DEF IInv, TypeOK, Live, Call
    <2> QED
      BY <1>1, <1>2, <1>3, <2>1 DEF IInv, TypeOK, Live
  <1>5. ASSUME NEW d \in Calls PROVE CallInv(d)'
    <2>1. CASE d = c
      BY <1>1, <1>2, <1>3, <2>1
      DEF Call, CallInv, Live, CopyAgrees, CopyUnstamped, Permitted, Holds, ClaimOf
    <2>2. CASE d # c
      BY <1>2, <1>3, <2>2
      DEF IInv, CallInv, Live, CopyAgrees, CopyUnstamped, Permitted, Holds, ClaimOf
    <2> QED
      BY <2>1, <2>2
  <1>6. \A r \in Requests : RowInv(r)'
    BY <1>3 DEF IInv, RowInv
  <1>7. \A x \in claims' : ClaimInv(x)'
    BY <1>3 DEF IInv, ClaimInv
  <1>8. AuditedApprovalsRan'
    BY <1>3 DEF IInv, AuditedApprovalsRan
  <1> QED
    BY <1>4, <1>5, <1>6, <1>7, <1>8 DEF IInv

\* op.execute returns: only the copy's result changes.
LEMMA ReturnsStep ==
  ASSUME IInv, NEW c \in Calls, Returns(c)
  PROVE  IInv'
  <1>1. /\ call[c] \in Call /\ CallInv(c) /\ Live(c) /\ call[c].at = "running"
        /\ call[c].req \in Requests /\ call[c].who \in Principals
    BY DEF Returns, IInv, TypeOK, Live
  <1>2. [call[c] EXCEPT !.at = "persist", !.snap.result = TRUE] \in Call
    BY <1>1 DEF Call, Row, Step
  <1>3. /\ call' \in [Calls -> Call]
        /\ call'[c] = [call[c] EXCEPT !.at = "persist", !.snap.result = TRUE]
    BY <1>2 DEF Returns, IInv, TypeOK
  <1>4. CallInv(c)'
    BY <1>1, <1>3
    DEF Returns, Call, Row, CallInv, Live, CopyAgrees, CopyUnstamped, Permitted, Holds, ClaimOf
  <1> QED
    BY <1>1, <1>3, <1>4, LocalStep DEF Returns, Call, Row, Live, IInv, TypeOK

\* auditEvent writes what the call did: an "approved" event has its run.
LEMMA AuditStep ==
  ASSUME IInv, NEW c \in Calls, Audit(c)
  PROVE  IInv'
  <1> DEFINE event == [event |-> call[c].snap.state, req |-> call[c].req, call |-> c]
  <1>1. /\ call[c] \in Call /\ CallInv(c) /\ Live(c) /\ call[c].at = "audit"
        /\ call[c].req \in Requests
    BY DEF Audit, IInv, TypeOK, Live
  <1>2. event \in AuditEvent
    BY <1>1 DEF AuditEvent, Call, Row
  <1>3. trail' = trail \cup {event} /\ UNCHANGED <<row, now, claims, runs>>
    BY DEF Audit
  <1>4. [IdleCall EXCEPT !.at = "end"] =
           [at |-> "end", op |-> "none", who |-> None, req |-> None, snap |-> NoRow]
    BY DEF IdleCall
  <1>5. NoRow \in Row
    BY ApprovalsAssumption DEF NoRow, Row, RowState, Subjects
  <1>6. /\ call' \in [Calls -> Call] /\ call'[c].at = "end"
        /\ \A d \in Calls : d # c => call'[d] = call[d]
    BY <1>4, <1>5 DEF Audit, Finish, IInv, TypeOK, Call, Step, Subjects
  <1>7. TypeOK'
    BY <1>2, <1>3, <1>6 DEF IInv, TypeOK, Live
  <1>8. ASSUME NEW d \in Calls PROVE CallInv(d)'
    BY <1>3, <1>6
    DEF IInv, CallInv, Live, CopyAgrees, CopyUnstamped, Permitted, Holds, ClaimOf
  <1>9. \A r \in Requests : RowInv(r)'
    BY <1>3 DEF IInv, RowInv
  <1>10. \A x \in claims' : ClaimInv(x)'
    BY <1>3 DEF IInv, ClaimInv
  <1>11. AuditedApprovalsRan'
    BY <1>1, <1>3 DEF IInv, AuditedApprovalsRan, CallInv, Holds
  <1> QED
    BY <1>7, <1>8, <1>9, <1>10, <1>11 DEF IInv

\* The clock and stuttering disturb nothing.
LEMMA IdleStep ==
  ASSUME IInv, Tick \/ UNCHANGED vars
  PROVE  IInv'
  <1>1. UNCHANGED <<row, call, claims, runs, trail>> /\ now' \in 0 .. MaxNow
    BY ApprovalsAssumption DEF Tick, vars, IInv, TypeOK
  <1>2. TypeOK' /\ AuditedApprovalsRan'
    BY <1>1 DEF IInv, TypeOK, AuditedApprovalsRan
  <1>3. \A c \in Calls : CallInv(c)'
    BY <1>1 DEF IInv, CallInv, Live, CopyAgrees, CopyUnstamped, Permitted, Holds, ClaimOf
  <1>4. (\A r \in Requests : RowInv(r)') /\ \A x \in claims' : ClaimInv(x)'
    BY <1>1 DEF IInv, RowInv, ClaimInv
  <1> QED
    BY <1>2, <1>3, <1>4 DEF IInv

\* Every step preserves the invariant: one case per action of the service.
LEMMA NextIInv == IInv /\ [Next]_vars => IInv'
  <1> SUFFICES ASSUME IInv, [Next]_vars PROVE IInv'
    OBVIOUS
  <1>1. CASE \E c \in Calls, p \in Principals, r \in Requests : Create(c, p, r)
    BY <1>1, CreateStep
  <1>2. CASE \E c \in Calls, p \in Principals, r \in Requests,
                op \in {"approve", "reject", "read"} : Fetch(c, op, p, r)
    BY <1>2, FetchStep
  <1>3. ASSUME NEW c \in Calls, Progress(c) PROVE IInv'
    BY <1>3, CheckWindowStep, WriteTimeoutStep, DecideStep, ClaimRowStep, ExecuteStep,
       ReturnsStep, FinishStep, PersistStep, RejectStep, AuditStep DEF Progress, Throws
  <1>4. ASSUME NEW c \in Calls, Crash(c) PROVE IInv'
    BY <1>4, FinishStep DEF Crash
  <1>5. CASE Tick \/ UNCHANGED vars
    BY <1>5, IdleStep
  <1> QED
    BY <1>1, <1>2, <1>3, <1>4, <1>5 DEF Next

\* The invariant holds in every reachable state.
THEOREM Invariance == Spec => []IInv
  <1>1. Init => IInv
    <2> SUFFICES ASSUME Init PROVE IInv
      OBVIOUS
    <2>1. TypeOK
      BY ApprovalsAssumption
      DEF Init, TypeOK, IdleCall, NoRow, Row, Call, Claim, AuditEvent, RowState, Resolved,
          Step, Subjects
    <2>2. 0 \in 0 .. (MaxNow + Window)
      BY ApprovalsAssumption
    <2> QED
      BY <2>1, <2>2 DEF Init, IInv, IdleCall, NoRow, CallInv, Live, RowInv, AuditedApprovalsRan
  <1> QED
    BY <1>1, NextIInv, PTL DEF Spec

-----------------------------------------------------------------------------
(* What follows from it. *)

\* Every variable keeps its type.
THEOREM TypeCorrectness == Spec => []TypeOK
  BY Invariance, PTL DEF IInv

\* The operation behind an approval is started at most once, whatever the
\* number of approvers, rejecters and readers that race for it.
THEOREM ExecutionIsUnique == Spec => []AtMostOneExecution
  <1>1. IInv => AtMostOneExecution
    BY DEF IInv, TypeOK, ClaimInv, AtMostOneExecution
  <1> QED
    BY <1>1, Invariance, PTL

\* It is started for a second person only, in time, with the stamp to prove it.
THEOREM ExecutionIsGated == Spec => []ExecutionIsFourEyes
  <1>1. IInv => ExecutionIsFourEyes
    BY DEF IInv, TypeOK, ClaimInv, ExecutionIsFourEyes
  <1> QED
    BY <1>1, Invariance, PTL

\* An audited approval is one whose operation ran.
THEOREM AuditIsTruthful == Spec => []AuditedApprovalsRan
  BY Invariance, PTL DEF IInv

\* A request shut before anybody claimed it is never executed.
THEOREM ShutIsFinal == Spec => ShutBeforeClaimIsFinal
  <1>1. IInv /\ IInv' /\ [Next]_vars =>
          [\A r \in Requests :
             row[r].state \in {"rejected", "timed_out"} /\ row[r].approved_at = None
             => /\ row'[r].approved_at = None
                /\ \A x \in runs' : x.req # r]_vars
    <2> SUFFICES ASSUME IInv, IInv', [Next]_vars, NEW r \in Requests,
                        row[r].state \in {"rejected", "timed_out"},
                        row[r].approved_at = None
                 PROVE  /\ row'[r].approved_at = None
                        /\ \A x \in runs' : x.req # r
      OBVIOUS
    <2>1. row'[r].approved_at = None
      <3>1. \A x \in claims' : x.req = r => x \in claims
        <4>1. ASSUME NEW c \in Calls, ClaimRow(c), row[call[c].req].state = "pending"
              PROVE  \A x \in claims' : x.req = r => x \in claims
          BY <4>1 DEF ClaimRow, Claimable, ClaimOf
        <4>2. ASSUME ~ \E c \in Calls : ClaimRow(c) /\ row[call[c].req].state = "pending"
              PROVE  claims' = claims
          BY <4>2 DEF Next, vars, Create, Fetch, Progress, CheckWindow, WriteTimeout, Decide,
             ClaimRow, Claimable, Execute, Returns, Throws, Persist, Reject, Audit, Crash, Tick
        <4> QED
          BY <4>1, <4>2
      <3>2. \A x \in claims : x.req # r
        BY ApprovalsAssumption DEF IInv, TypeOK, Claim, ClaimInv
      <3> QED
        BY <3>1, <3>2 DEF IInv, RowInv
    <2>2. \A x \in runs' : x.req # r
      BY <2>1, ApprovalsAssumption DEF IInv, TypeOK, Claim, ClaimInv
    <2> QED
      BY <2>1, <2>2
  <1> QED
    BY <1>1, Invariance, PTL DEF Spec, ShutBeforeClaimIsFinal

\* The stamp on a row is the stamp of its claim, so it can neither change nor
\* disappear while claims are only added.
THEOREM StampIsWriteOnce == Spec => ApprovedAtIsWriteOnce
  <1>1. IInv /\ IInv' /\ [Next]_vars =>
          [\A r \in Requests :
             row[r].approved_at # None => row'[r].approved_at = row[r].approved_at]_vars
    <2> SUFFICES ASSUME IInv, IInv', [Next]_vars, NEW r \in Requests,
                        row[r].approved_at # None
                 PROVE  row'[r].approved_at = row[r].approved_at
      OBVIOUS
    <2>1. claims \subseteq claims'
      BY DEF Next, vars, Create, Fetch, Progress, CheckWindow, WriteTimeout, Decide,
         ClaimRow, Execute, Returns, Throws, Persist, Reject, Audit, Crash, Tick
    <2>2. PICK x \in claims : x.req = r
      BY DEF IInv, RowInv
    <2> QED
      BY <2>1, <2>2 DEF IInv, ClaimInv
  <1> QED
    BY <1>1, Invariance, PTL DEF Spec, ApprovedAtIsWriteOnce

-----------------------------------------------------------------------------
(* Refinement: the service implements the gate FourEyes describes. *)

\* The gate of one request, read off the function.
LEMMA GateNow ==
  ASSUME IInv, NEW r \in Requests
  PROVE  /\ (\E x \in runs : x.req = r) => Gate[r] = "acted"
         /\ ~(\E x \in runs : x.req = r) /\ (\E x \in claims : x.req = r) => Gate[r] = "granted"
         /\ row[r].state = "none" => Gate[r] = "none"
         /\ row[r].state = "pending" => Gate[r] = "open"
         /\ ~(\E x \in claims : x.req = r) /\ row[r].state \in Resolved => Gate[r] = "shut"
  BY DEF Gate, IInv, TypeOK, RowInv, Resolved

\* Moving the gate of one request is a functional update.
LEMMA GateMoves ==
  ASSUME NEW r \in Requests, NEW v, Gate'[r] = v,
         \A q \in Requests : q # r => Gate'[q] = Gate[q]
  PROVE  Gate' = [Gate EXCEPT ![r] = v]
  <1>1. Gate = [q \in Requests |-> Gate[q]] /\ Gate' = [q \in Requests |-> Gate'[q]]
    BY DEF Gate
  <1> QED
    BY <1>1

\* No requests, no grants: the gate's initial state.
LEMMA InitRefines == Init => Abstract!Init
  BY DEF Init, Abstract!Init, Gate, NoRow

\* A step that grants and runs nothing, opens nothing and shuts nothing.
LEMMA StutterRefines ==
  ASSUME UNCHANGED <<claims, runs>>,
         \A r \in Requests :
           /\ \/ row'[r].state = row[r].state
              \/ /\ row[r].state \in Resolved
                 /\ row'[r].state \in Resolved
           /\ row'[r].initiator = row[r].initiator
           /\ row'[r].expires_at = row[r].expires_at
  PROVE  UNCHANGED Abstract!vars
  <1>1. Gate' = Gate
    <2>1. ASSUME NEW r \in Requests PROVE Gate'[r] = Gate[r]
      BY DEF Gate, Resolved
    <2> QED
      BY <2>1 DEF Gate
  <1> QED
    BY <1>1 DEF Abstract!vars

\* A stale or timely store.update shuts the request it finds open; on a
\* request somebody claimed, or shut before, it changes nothing at the gate.
LEMMA StoreRefines ==
  ASSUME IInv, IInv', NEW c \in Calls, Live(c), NEW copy, copy.state \in Resolved,
         StoreUpdate(c, copy), UNCHANGED <<claims, runs>>
  PROVE  [Abstract!Next]_(Abstract!vars)
  <1> DEFINE r == call[c].req
  <1>1. r \in Requests /\ row[r].state # "none" /\ row \in [Requests -> Row]
    BY DEF IInv, TypeOK, Live, CallInv, CopyAgrees
  <1>2. \A q \in Requests : /\ row'[q].initiator = row[q].initiator
                            /\ row'[q].expires_at = row[q].expires_at
                            /\ row'[q].state = IF q = r THEN copy.state ELSE row[q].state
    BY <1>1 DEF StoreUpdate, Row
  <1>3. CASE row[r].state = "pending"
    <2>1. Gate[r] = "open" /\ ~(\E x \in claims : x.req = r)
      BY <1>1, <1>3, GateNow DEF IInv, RowInv
    <2>2. Gate'[r] = "shut"
      BY <1>1, <1>2, <1>3, <2>1 DEF Gate, Resolved, IInv, TypeOK
    <2>3. ASSUME NEW q \in Requests, q # r PROVE Gate'[q] = Gate[q]
      BY <1>2, <2>3 DEF Gate
    <2>4. Gate' = [Gate EXCEPT ![r] = "shut"]
      BY <1>1, <2>2, <2>3, GateMoves
    <2>5. Abstract!Shut(r)
      BY <1>2, <2>1, <2>4 DEF Abstract!Shut
    <2> QED
      BY <1>1, <2>5 DEF Abstract!Next
  <1>4. CASE row[r].state # "pending"
    BY <1>1, <1>2, <1>4, StutterRefines DEF Row, RowState
  <1> QED
    BY <1>3, <1>4

\* requestApproval opens the gate.
LEMMA CreateRefines ==
  ASSUME IInv, IInv', NEW c \in Calls, NEW p \in Principals, NEW r \in Requests, Create(c, p, r)
  PROVE  Abstract!Next
  <1>1. PICK d \in 0 .. (MaxNow + Window) : d = now + Window
    BY ApprovalsAssumption DEF IInv, TypeOK
  <1>2. row' = [row EXCEPT ![r] = PendingRow(p)] /\ row[r].state = "none" /\ UNCHANGED <<claims, runs>>
    BY DEF Create
  <1>3. /\ row'[r].state = "pending" /\ row'[r].initiator = p /\ row'[r].expires_at = d
        /\ \A q \in Requests : q # r => row'[q] = row[q]
    BY <1>1, <1>2 DEF PendingRow, IInv, TypeOK
  <1>4. Gate[r] = "none" /\ Gate'[r] = "open"
    BY <1>2, <1>3, GateNow DEF Gate, IInv, RowInv, TypeOK
  <1>5. ASSUME NEW q \in Requests, q # r PROVE Gate'[q] = Gate[q]
    BY <1>2, <1>3, <1>5 DEF Gate
  <1>6. Gate' = [Gate EXCEPT ![r] = "open"]
    BY <1>4, <1>5, GateMoves
  <1>7. /\ [q \in Requests |-> row[q].initiator]'
              = [[q \in Requests |-> row[q].initiator] EXCEPT ![r] = p]
        /\ [q \in Requests |-> row[q].expires_at]'
              = [[q \in Requests |-> row[q].expires_at] EXCEPT ![r] = d]
    BY <1>3
  <1>8. Abstract!Open(r, p, d)
    BY <1>2, <1>4, <1>6, <1>7 DEF Abstract!Open
  <1> QED
    BY <1>1, <1>8 DEF Abstract!Next

\* Winning the claim is the grant; losing it is a stutter.
LEMMA ClaimRefines ==
  ASSUME IInv, IInv', NEW c \in Calls, ClaimRow(c)
  PROVE  [Abstract!Next]_(Abstract!vars)
  <1> DEFINE r == call[c].req
             won == ClaimOf(c)
  <1>1. CASE row[r].state # "pending"
    BY <1>1, StutterRefines DEF ClaimRow, Claimable
  <1>2. CASE row[r].state = "pending"
    <2>1. /\ r \in Requests /\ row \in [Requests -> Row] /\ won.req = r
          /\ ~(\E x \in claims : x.req = r) /\ ~(\E x \in runs : x.req = r) /\ Gate[r] = "open"
      BY <1>2, GateNow DEF ClaimRow, Claimable, IInv, TypeOK, RowInv, ClaimOf
    <2>2. claims' = claims \cup {won} /\ UNCHANGED runs
      BY <1>2 DEF ClaimRow, Claimable
    <2>3. \A q \in Requests : /\ row'[q].initiator = row[q].initiator
                              /\ row'[q].expires_at = row[q].expires_at
                              /\ q # r => row'[q] = row[q]
      BY <1>2, <2>1 DEF ClaimRow, Claimable, Row
    <2>4. Gate'[r] = "granted"
      BY <2>1, <2>2 DEF Gate
    <2>5. ASSUME NEW q \in Requests, q # r PROVE Gate'[q] = Gate[q]
      BY <2>1, <2>2, <2>3, <2>5 DEF Gate
    <2>6. Gate' = [Gate EXCEPT ![r] = "granted"]
      BY <2>1, <2>4, <2>5, GateMoves
    <2>7. /\ won \in Claim /\ Human[won.by] # Human[row[r].initiator]
          /\ won.at <= row[r].expires_at /\ row[r].expires_at \in 0 .. (MaxNow + Window)
      BY <2>1, <2>2, <2>3 DEF IInv, TypeOK, ClaimInv, RowInv
    <2>8. won \in Abstract!Grant
      BY <2>7, ApprovalsAssumption DEF Abstract!Grant, Claim
    <2>9. Abstract!Give(won)
      BY <2>1, <2>2, <2>3, <2>6, <2>7 DEF Abstract!Give
    <2> QED
      BY <2>8, <2>9 DEF Abstract!Next
  <1> QED
    BY <1>1, <1>2

\* Starting the operation is the act.
LEMMA ExecuteRefines ==
  ASSUME IInv, IInv', NEW c \in Calls, Execute(c)
  PROVE  [Abstract!Next]_(Abstract!vars)
  <1> DEFINE r == call[c].req
             won == ClaimOf(c)
  <1>1. won \in claims /\ won.req = r /\ r \in Requests
    BY DEF Execute, IInv, TypeOK, Live, CallInv, Holds, ClaimOf
  <1>2. UNCHANGED <<row, claims>> /\ runs' = runs \cup {won}
    BY DEF Execute
  <1>3. CASE \E x \in runs : x.req = r
    <2>1. won \in runs
      BY <1>1, <1>3 DEF IInv, TypeOK, ClaimInv
    <2> QED
      BY <1>2, <2>1, StutterRefines
  <1>4. CASE ~(\E x \in runs : x.req = r)
    <2>1. Gate[r] = "granted" /\ Gate'[r] = "acted"
      BY <1>1, <1>2, <1>4 DEF Gate
    <2>2. ASSUME NEW q \in Requests, q # r PROVE Gate'[q] = Gate[q]
      BY <1>1, <1>2, <2>2 DEF Gate
    <2>3. Gate' = [Gate EXCEPT ![r] = "acted"]
      BY <1>1, <2>1, <2>2, GateMoves
    <2>4. Abstract!Act(won)
      BY <1>1, <1>2, <2>1, <2>3 DEF Abstract!Act
    <2> QED
      BY <1>1, <2>4 DEF Abstract!Next
  <1> QED
    BY <1>3, <1>4

\* Every step of the service is a step of the gate, or leaves it alone.
LEMMA NextRefines ==
  ASSUME IInv, IInv', [Next]_vars
  PROVE  [Abstract!Next]_(Abstract!vars)
  <1>1. CASE \E c \in Calls, p \in Principals, r \in Requests : Create(c, p, r)
    BY <1>1, CreateRefines
  <1>2. ASSUME NEW c \in Calls, WriteTimeout(c) \/ Persist(c) \/ Reject(c)
        PROVE  [Abstract!Next]_(Abstract!vars)
    <2>1. Live(c) /\ call[c] \in Call /\ call[c].snap \in Row
      BY <1>2 DEF WriteTimeout, Persist, Reject, Live, IInv, TypeOK, Call
    <2>2. CASE UNCHANGED row
      BY <1>2, <2>2, StutterRefines DEF WriteTimeout, Persist, Reject
    <2>3. CASE WriteTimeout(c)
      BY <2>1, <2>3, StoreRefines DEF WriteTimeout, Resolved, Row
    <2>4. CASE Persist(c)
      BY <2>1, <2>4, StoreRefines DEF Persist, Resolved, CallInv, Permitted, IInv
    <2>5. CASE Reject(c) /\ ~UNCHANGED row
      <3> DEFINE copy == [call[c].snap EXCEPT !.state = "rejected", !.approver = call[c].who]
      <3>1. copy.state \in Resolved
        BY <2>1 DEF Row, Resolved
      <3>2. StoreUpdate(c, copy) /\ UNCHANGED <<claims, runs>>
        BY <2>5 DEF Reject
      <3> QED
        BY <2>1, <3>1, <3>2, StoreRefines
    <2> QED
      BY <1>2, <2>2, <2>3, <2>4, <2>5
  <1>3. ASSUME NEW c \in Calls, ClaimRow(c) \/ Execute(c)
        PROVE  [Abstract!Next]_(Abstract!vars)
    BY <1>3, ClaimRefines, ExecuteRefines
  <1>4. CASE UNCHANGED <<row, claims, runs>>
    BY <1>4, StutterRefines
  <1> QED
    BY <1>1, <1>2, <1>3, <1>4
    DEF Next, vars, Fetch, Progress, CheckWindow, Decide, Returns, Throws, Audit, Crash, Tick

\* Every behaviour of the approvals service, seen at the gate, is one FourEyes
\* allows: what holds of FourEyes holds behind this code.
THEOREM Refinement == Spec => ImplementsFourEyes
  <1>1. Init => Abstract!Init
    BY InitRefines
  <1>2. IInv /\ IInv' /\ [Next]_vars => [Abstract!Next]_(Abstract!vars)
    BY NextRefines
  <1> QED
    BY <1>1, <1>2, Invariance, PTL DEF Spec, ImplementsFourEyes, Abstract!Spec

-----------------------------------------------------------------------------
(* Refinement: the service implements the row GateRow describes.  For that *)
(* the approver columns have to be followed, which IInv does not.          *)

\* The copy of a pending row names no approver, and that of a call on its way
\* to its closing update names the caller.
Names(c) ==
  LET snap == call[c].snap
  IN  /\ call[c].at = "fetched" /\ snap.state = "pending" => snap.approver = None
      /\ call[c].at = "expire" => snap.approver = None
      /\ call[c].at \in {"claim", "execute", "running", "persist"} =>
            snap.approver = call[c].who

NamesInv ==
  /\ \A r \in Requests : row[r].state \in {"none", "pending"} => row[r].approver = None
  /\ \A c \in Calls : Names(c)

\* A step that changes one call and no row.
LEMMA NamesLocal ==
  ASSUME NamesInv, NEW c \in Calls, row' = row,
         \A d \in Calls : d # c => call'[d] = call[d],
         Names(c)'
  PROVE  NamesInv'
  <1>1. ASSUME NEW d \in Calls PROVE Names(d)'
    <2>1. CASE d = c
      BY <2>1
    <2>2. CASE d # c
      BY <2>2 DEF NamesInv, Names
    <2> QED
      BY <2>1, <2>2
  <1> QED
    BY <1>1 DEF NamesInv

\* store.update leaves no row pending, so its approver does not matter.
LEMMA NamesStore ==
  ASSUME IInv, NamesInv, NEW c \in Calls, Live(c), NEW copy, copy.state \in Resolved,
         StoreUpdate(c, copy), call'[c].at = "audit",
         \A d \in Calls : d # c => call'[d] = call[d]
  PROVE  NamesInv'
  <1> DEFINE r == call[c].req
  <1>1. r \in Requests /\ row \in [Requests -> Row]
    BY DEF IInv, TypeOK, Live
  <1>2. row'[r].state = copy.state /\ \A q \in Requests : q # r => row'[q] = row[q]
    BY <1>1 DEF StoreUpdate, Row
  <1>3. \A d \in Calls : Names(d)'
    BY DEF NamesInv, Names
  <1>4. ASSUME NEW q \in Requests, row'[q].state \in {"none", "pending"}
        PROVE  row'[q].approver = None
    <2>1. q # r
      BY <1>2, <1>4 DEF Resolved
    <2> QED
      BY <1>2, <1>4, <2>1 DEF NamesInv
  <1> QED
    BY <1>3, <1>4 DEF NamesInv

\* A call that moves on without touching its copy, or is over.
LEMMA NamesMove ==
  ASSUME IInv, NamesInv, NEW c \in Calls, row' = row,
         \/ Finish(c)
         \/ \E step \in {"decide", "reject", "audit"} : GoTo(c, step)
         \/ call[c].at = "fetched" /\ call[c].snap.state = "pending" /\ GoTo(c, "expire")
         \/ call[c].at = "execute" /\ GoTo(c, "running")
  PROVE  NamesInv'
  <1>1. call \in [Calls -> Call] /\ Names(c)
    BY DEF IInv, TypeOK, NamesInv
  <1>2. CASE Finish(c)
    <2>1. call'[c].at = "end" /\ \A d \in Calls : d # c => call'[d] = call[d]
      BY <1>1, <1>2 DEF Finish, IdleCall
    <2> QED
      BY <2>1, NamesLocal DEF Names
  <1>3. ASSUME NEW step \in Step, GoTo(c, step),
               \/ step \in {"decide", "reject", "audit"}
               \/ call[c].at = "fetched" /\ call[c].snap.state = "pending" /\ step = "expire"
               \/ call[c].at = "execute" /\ step = "running"
        PROVE  NamesInv'
    <2>1. /\ call'[c].at = step /\ call'[c].snap = call[c].snap /\ call'[c].who = call[c].who
          /\ \A d \in Calls : d # c => call'[d] = call[d]
      BY <1>1, <1>3 DEF GoTo, Call
    <2> QED
      BY <1>1, <1>3, <2>1, NamesLocal DEF Names
  <1> QED
    BY <1>2, <1>3 DEF Step

LEMMA NextNames == IInv /\ NamesInv /\ [Next]_vars => NamesInv'
  <1> SUFFICES ASSUME IInv, NamesInv, [Next]_vars PROVE NamesInv'
    OBVIOUS
  <1>0. call \in [Calls -> Call] /\ row \in [Requests -> Row]
    BY DEF IInv, TypeOK
  <1>1. ASSUME NEW c \in Calls, NEW p \in Principals, NEW r \in Requests, Create(c, p, r)
        PROVE  NamesInv'
    <2>1. /\ row'[r].approver = None /\ \A q \in Requests : q # r => row'[q] = row[q]
          /\ call'[c].at = "audit" /\ \A d \in Calls : d # c => call'[d] = call[d]
      BY <1>0, <1>1 DEF Create, PendingRow
    <2>2. \A d \in Calls : Names(d)'
      BY <2>1 DEF NamesInv, Names
    <2> QED
      BY <2>1, <2>2 DEF NamesInv
  <1>2. ASSUME NEW c \in Calls, NEW p \in Principals, NEW r \in Requests,
               NEW op \in {"approve", "reject", "read"}, Fetch(c, op, p, r)
        PROVE  NamesInv'
    <2>1. /\ row' = row /\ call'[c].at = "fetched" /\ call'[c].snap = row[r]
          /\ \A d \in Calls : d # c => call'[d] = call[d]
      BY <1>0, <1>2 DEF Fetch
    <2>2. row[r].state = "pending" => row[r].approver = None
      BY DEF NamesInv
    <2> QED
      BY <2>1, <2>2, NamesLocal DEF Names
  <1>3. ASSUME NEW c \in Calls, CheckWindow(c) PROVE NamesInv'
    BY <1>3, NamesMove DEF CheckWindow
  <1>4. ASSUME NEW c \in Calls, WriteTimeout(c) PROVE NamesInv'
    <2> DEFINE copy == [call[c].snap EXCEPT !.state = "timed_out"]
    <2>1. copy.state \in Resolved /\ Live(c)
      BY <1>0, <1>4 DEF WriteTimeout, Call, Row, Resolved, Live
    <2>2. StoreUpdate(c, copy) /\ call' = [call EXCEPT ![c].at = "audit", ![c].snap = copy]
      BY <1>4 DEF WriteTimeout
    <2> HIDE DEF copy
    <2>3. call'[c].at = "audit" /\ \A d \in Calls : d # c => call'[d] = call[d]
      BY <1>0, <2>2 DEF Call
    <2> QED
      BY <2>1, <2>2, <2>3, NamesStore
  <1>5. ASSUME NEW c \in Calls, Decide(c) PROVE NamesInv'
    <2>1. CASE Finish(c)
      BY <1>5, <2>1, NamesMove DEF Decide
    <2>2. CASE ~Finish(c)
      <3> DEFINE copy == [call[c].snap EXCEPT !.state = "approved", !.approver = call[c].who,
                                              !.approved_at = now]
      <3>1. copy.approver = call[c].who
        BY <1>0 DEF Call, Row
      <3>2. row' = row /\ call' = [call EXCEPT ![c].at = "claim", ![c].snap = copy]
        BY <1>5, <2>2 DEF Decide
      <3> HIDE DEF copy
      <3>3. /\ call'[c].at = "claim" /\ call'[c].snap = copy /\ call'[c].who = call[c].who
            /\ \A d \in Calls : d # c => call'[d] = call[d]
        BY <1>0, <3>2 DEF Call
      <3> QED
        BY <3>1, <3>2, <3>3, NamesLocal DEF Names
    <2> QED
      BY <2>1, <2>2
  <1>6. ASSUME NEW c \in Calls, ClaimRow(c) PROVE NamesInv'
    <2>1. CASE Finish(c) /\ UNCHANGED row
      BY <2>1, NamesMove
    <2>2. CASE ~(Finish(c) /\ UNCHANGED row)
      <3> DEFINE r == call[c].req
      <3>1. GoTo(c, "execute") /\ call[c].at = "claim" /\ r \in Requests
        BY <1>6, <2>2 DEF ClaimRow, IInv, TypeOK
      <3>2. row'[r].state = "approved" /\ \A q \in Requests : q # r => row'[q] = row[q]
        BY <1>0, <1>6, <2>2, <3>1 DEF ClaimRow, Row
      <3>3. /\ call'[c].at = "execute" /\ call'[c].snap = call[c].snap
            /\ call'[c].who = call[c].who /\ \A d \in Calls : d # c => call'[d] = call[d]
        BY <1>0, <3>1 DEF GoTo, Call
      <3>4. ASSUME NEW d \in Calls PROVE Names(d)'
        <4>1. Names(d)
          BY DEF NamesInv
        <4>2. CASE d = c
          BY <3>1, <3>3, <4>1, <4>2 DEF Names
        <4>3. CASE d # c
          BY <3>3, <4>1, <4>3 DEF Names
        <4> QED
          BY <4>2, <4>3
      <3>5. ASSUME NEW q \in Requests, row'[q].state \in {"none", "pending"}
            PROVE  row'[q].approver = None
        <4>1. q # r
          BY <3>2, <3>5
        <4> QED
          BY <3>2, <3>5, <4>1 DEF NamesInv
      <3> QED
        BY <3>4, <3>5 DEF NamesInv
    <2> QED
      BY <2>1, <2>2
  <1>7. ASSUME NEW c \in Calls, Execute(c) \/ Throws(c) \/ Audit(c) \/ Crash(c) PROVE NamesInv'
    BY <1>7, NamesMove DEF Execute, Throws, Audit, Crash
  <1>8. ASSUME NEW c \in Calls, Returns(c) PROVE NamesInv'
    <2>1. /\ row' = row /\ call[c].at = "running" /\ call'[c].at = "persist"
          /\ call'[c].snap.approver = call[c].snap.approver /\ call'[c].who = call[c].who
          /\ \A d \in Calls : d # c => call'[d] = call[d]
      BY <1>0, <1>8 DEF Returns, Call, Row
    <2>2. Names(c)
      BY DEF NamesInv
    <2> QED
      BY <2>1, <2>2, NamesLocal DEF Names
  <1>9. ASSUME NEW c \in Calls, Persist(c) PROVE NamesInv'
    <2>1. call[c].snap.state \in Resolved /\ Live(c)
      BY <1>9 DEF Persist, IInv, CallInv, Permitted, Live, Resolved
    <2>2. StoreUpdate(c, call[c].snap) /\ GoTo(c, "audit")
      BY <1>9 DEF Persist
    <2>3. call'[c].at = "audit" /\ \A d \in Calls : d # c => call'[d] = call[d]
      BY <1>0, <2>2 DEF GoTo, Call
    <2> QED
      BY <2>1, <2>2, <2>3, NamesStore
  <1>10. ASSUME NEW c \in Calls, Reject(c) PROVE NamesInv'
    <2>1. CASE Finish(c) /\ UNCHANGED row
      BY <2>1, NamesMove
    <2>2. CASE ~(Finish(c) /\ UNCHANGED row)
      <3> DEFINE copy == [call[c].snap EXCEPT !.state = "rejected", !.approver = call[c].who]
      <3>1. copy.state \in Resolved /\ Live(c)
        BY <1>0, <1>10 DEF Reject, Call, Row, Resolved, Live
      <3>2. StoreUpdate(c, copy) /\ call' = [call EXCEPT ![c].at = "audit", ![c].snap = copy]
        BY <1>10, <2>2 DEF Reject
      <3> HIDE DEF copy
      <3>3. call'[c].at = "audit" /\ \A d \in Calls : d # c => call'[d] = call[d]
        BY <1>0, <3>2 DEF Call
      <3> QED
        BY <3>1, <3>2, <3>3, NamesStore
    <2> QED
      BY <2>1, <2>2
  <1>11. CASE Tick \/ UNCHANGED vars
    BY <1>11 DEF Tick, vars, NamesInv, Names
  <1> QED
    BY <1>1, <1>2, <1>3, <1>4, <1>5, <1>6, <1>7, <1>8, <1>9, <1>10, <1>11 DEF Next, Progress

LEMMA NamesInvariance == Spec => []NamesInv
  <1>1. Init => NamesInv
    BY DEF Init, NamesInv, Names, NoRow, IdleCall
  <1> QED
    BY <1>1, NextNames, Invariance, PTL DEF Spec

\* The row and its winner, as the gated operations meet them.
EntryOf(r) == [state |-> row[r].state, initiator |-> HumanOf(row[r].initiator),
               approver |-> HumanOf(row[r].approver)]
WinnerOf(r) == IF \E x \in claims : x.req = r
               THEN HumanOf((CHOOSE x \in claims : x.req = r).by)
               ELSE None

LEMMA HumansOf == HumanOf(None) = None /\ \A p \in Principals : HumanOf(p) = Human[p]
  BY ApprovalsAssumption DEF HumanOf

\* The winner is whoever holds the one claim.
LEMMA WonBy ==
  ASSUME IInv, NEW x \in claims
  PROVE  WinnerOf(x.req) = Human[x.by] /\ Human[x.by] # None /\ x.by \in Principals
  <1>1. \A y \in claims : y.req = x.req => y = x
    BY DEF IInv, ClaimInv
  <1>2. (CHOOSE y \in claims : y.req = x.req) = x
    BY <1>1
  <1>3. x.by \in Principals
    BY DEF IInv, TypeOK, Claim
  <1> QED
    BY <1>2, <1>3, HumansOf, ApprovalsAssumption DEF WinnerOf

\* Changing one entry is a functional update.
LEMMA EntryMoves ==
  ASSUME NEW r \in Requests, NEW e, EntryOf(r)' = e,
         \A q \in Requests : q # r => row'[q] = row[q]
  PROVE  [q \in Requests |-> EntryOf(q)]' = [[q \in Requests |-> EntryOf(q)] EXCEPT ![r] = e]
  <1>1. \A q \in Requests : q # r => EntryOf(q)' = EntryOf(q)
    BY DEF EntryOf
  <1> QED
    BY <1>1

LEMMA SameWinners ==
  ASSUME claims' = claims
  PROVE  [q \in Requests |-> WinnerOf(q)]' = [q \in Requests |-> WinnerOf(q)]
  BY DEF WinnerOf

\* What the actions of GateRow ask for, in terms of one entry.
LEMMA LateWrites ==
  ASSUME NEW r \in Requests, row[r].state # "none",
         \A q \in Requests : q # r => row'[q] = row[q],
         row'[r].initiator = row[r].initiator, claims' = claims
  PROVE  /\ row'[r].state = "timed_out" /\ row'[r].approver = None => Behind!TimeOut(r)
         /\ \A p \in Principals :
              row'[r].state = "rejected" /\ row'[r].approver = p => Behind!Reject(r, Human[p])
         /\ WinnerOf(r) # None /\ row'[r].state = "approved"
            /\ HumanOf(row'[r].approver) = WinnerOf(r) => Behind!Persist(r)
  <1> DEFINE old == [q \in Requests |-> EntryOf(q)]
             s == row'[r].state
             h == HumanOf(row'[r].approver)
             e == [state |-> s, initiator |-> HumanOf(row[r].initiator), approver |-> h]
  <1>1. EntryOf(r)' = e
    BY DEF EntryOf
  <1>2. [q \in Requests |-> EntryOf(q)]' = [old EXCEPT ![r] = e]
    BY <1>1, EntryMoves
  <1>3. old[r] = [state |-> row[r].state, initiator |-> HumanOf(row[r].initiator),
                  approver |-> HumanOf(row[r].approver)]
    BY DEF EntryOf
  <1>4. e = [old[r] EXCEPT !.state = s, !.approver = h]
    <2>1. old[r] \in [state : {row[r].state}, initiator : {HumanOf(row[r].initiator)},
                       approver : {HumanOf(row[r].approver)}]
      BY <1>3
    <2> HIDE DEF s, h, old
    <2> DEFINE f == [old[r] EXCEPT !.state = s, !.approver = h]
    <2>2. f \in [state : {s}, initiator : {HumanOf(row[r].initiator)}, approver : {h}]
      BY <2>1
    <2> HIDE DEF f
    <2>3. f = e
      BY <2>2
    <2> QED
      BY <2>3 DEF f
  <1>5. [q \in Requests |-> EntryOf(q)]' = [old EXCEPT ![r].state = s, ![r].approver = h]
    <2> HIDE DEF s, h
    <2> QED
      BY <1>2, <1>4
  <1>6. ASSUME row'[r].state = "timed_out", row'[r].approver = None PROVE Behind!TimeOut(r)
    BY <1>3, <1>5, <1>6, SameWinners, HumansOf DEF Behind!TimeOut, EntryOf, WinnerOf
  <1>7. ASSUME NEW p \in Principals, row'[r].state = "rejected", row'[r].approver = p
        PROVE  Behind!Reject(r, Human[p])
    BY <1>3, <1>5, <1>7, SameWinners, HumansOf DEF Behind!Reject, EntryOf, WinnerOf
  <1>8. ASSUME WinnerOf(r) # None, row'[r].state = "approved",
               HumanOf(row'[r].approver) = WinnerOf(r)
        PROVE  Behind!Persist(r)
    BY <1>3, <1>5, <1>8, SameWinners DEF Behind!Persist, EntryOf, WinnerOf
  <1> QED
    BY <1>6, <1>7, <1>8

\* The writers of a row that was there: settleExpiry, reject, and approve's end.
LEMMA StoreIsLateWrite ==
  ASSUME IInv, NamesInv, NEW c \in Calls,
         WriteTimeout(c) \/ Persist(c) \/ Reject(c)
  PROVE  [Behind!Next]_(Behind!vars)
  <1>0. PICK r \in Requests : r = call[c].req
    BY DEF WriteTimeout, Persist, Reject, IInv, TypeOK, Live
  <1>01. PICK p \in Principals : p = call[c].who
    BY DEF WriteTimeout, Persist, Reject, IInv, TypeOK, Live
  <1>1. /\ r \in Requests /\ row \in [Requests -> Row] /\ row[r].state # "none"
        /\ call[c] \in Call /\ call[c].who \in Principals /\ CallInv(c) /\ Names(c) /\ Live(c)
        /\ claims' = claims
    BY <1>0 DEF WriteTimeout, Persist, Reject, IInv, TypeOK, Live, CallInv, CopyAgrees, NamesInv
  <1>2. ASSUME NEW copy \in Row, StoreUpdate(c, copy)
        PROVE  /\ row'[r].state = copy.state /\ row'[r].approver = copy.approver
               /\ row'[r].initiator = row[r].initiator
               /\ \A q \in Requests : q # r => row'[q] = row[q]
    BY <1>0, <1>1, <1>2 DEF StoreUpdate, Row
  <1>3. CASE WriteTimeout(c)
    <2> DEFINE copy == [call[c].snap EXCEPT !.state = "timed_out"]
    <2>1. copy \in Row /\ copy.state = "timed_out" /\ copy.approver = None
      BY <1>1, <1>3 DEF WriteTimeout, Names, Call, Row, RowState, Resolved
    <2>2. StoreUpdate(c, copy)
      BY <1>3 DEF WriteTimeout
    <2> HIDE DEF copy
    <2>3. Behind!TimeOut(r)
      BY <1>1, <1>2, <2>1, <2>2, LateWrites
    <2> QED
      BY <1>1, <2>3 DEF Behind!Next
  <1>4. CASE Persist(c)
    <2>1. /\ call[c].snap \in Row /\ call[c].snap.state = "approved"
          /\ call[c].snap.approver = call[c].who /\ StoreUpdate(c, call[c].snap)
          /\ ClaimOf(c) \in claims
      BY <1>1, <1>4 DEF Persist, CallInv, Permitted, Holds, Names, Call
    <2>2. WinnerOf(r) = Human[call[c].who] /\ WinnerOf(r) # None
      <3>1. ClaimOf(c).req = r /\ ClaimOf(c).by = call[c].who
        BY <1>0 DEF ClaimOf
      <3> QED
        BY <2>1, <3>1, WonBy
    <2>3. HumanOf(row'[r].approver) = WinnerOf(r) /\ row'[r].state = "approved"
      BY <1>1, <1>2, <2>1, <2>2, HumansOf
    <2>4. Behind!Persist(r)
      BY <1>1, <1>2, <2>1, <2>2, <2>3, LateWrites
    <2> QED
      BY <1>1, <2>4 DEF Behind!Next
  <1>5. CASE Reject(c) /\ UNCHANGED row
    BY <1>1, <1>5, SameWinners DEF Behind!vars, WinnerOf
  <1>6. CASE Reject(c) /\ ~UNCHANGED row
    <2> DEFINE copy == [call[c].snap EXCEPT !.state = "rejected", !.approver = call[c].who]
    <2>1. copy \in Row /\ copy.state = "rejected" /\ copy.approver = call[c].who
      BY <1>1 DEF Call, Row, RowState, Resolved, Subjects
    <2>2. StoreUpdate(c, copy)
      BY <1>6 DEF Reject
    <2> HIDE DEF copy
    <2>3. Behind!Reject(r, Human[p])
      BY <1>01, <1>1, <1>2, <2>1, <2>2, LateWrites
    <2> QED
      BY <1>1, <2>3 DEF Behind!Next
  <1> QED
    BY <1>3, <1>4, <1>5, <1>6

\* requestApproval.
LEMMA CreateIsCreate ==
  ASSUME IInv, NEW c \in Calls, NEW p \in Principals, NEW r \in Requests, Create(c, p, r)
  PROVE  Behind!Next
  <1> DEFINE e == [state |-> "pending", initiator |-> Human[p], approver |-> None]
  <1>1. /\ row \in [Requests -> Row] /\ row[r].state = "none" /\ claims' = claims
        /\ row' = [row EXCEPT ![r] = PendingRow(p)]
    BY DEF Create, IInv, TypeOK
  <1>2. /\ row'[r].state = "pending" /\ row'[r].initiator = p /\ row'[r].approver = None
        /\ \A q \in Requests : q # r => row'[q] = row[q]
    BY <1>1 DEF PendingRow
  <1>3. EntryOf(r)' = e
    BY <1>2, HumansOf DEF EntryOf
  <1>4. [q \in Requests |-> EntryOf(q)]' = [[q \in Requests |-> EntryOf(q)] EXCEPT ![r] = e]
    BY <1>2, <1>3, EntryMoves
  <1>5. Behind!Create(r, Human[p])
    BY <1>1, <1>4, SameWinners DEF Behind!Create, EntryOf, WinnerOf
  <1> QED
    BY <1>5 DEF Behind!Next

\* The claim that wins.
LEMMA ClaimIsGrant ==
  ASSUME IInv, IInv', NEW c \in Calls, ClaimRow(c)
  PROVE  [Behind!Next]_(Behind!vars)
  <1>01. PICK r \in Requests : r = call[c].req
    BY DEF ClaimRow, IInv, TypeOK, Live
  <1>02. PICK w \in Principals : w = call[c].who
    BY DEF ClaimRow, IInv, TypeOK, Live
  <1>03. PICK won : won = ClaimOf(c)
    OBVIOUS
  <1> DEFINE p == Human[w]
  <1>1. CASE row[r].state # "pending"
    BY <1>01, <1>1, SameWinners DEF ClaimRow, Claimable, Behind!vars, WinnerOf
  <1>2. CASE row[r].state = "pending"
    <2>1. /\ row \in [Requests -> Row]
          /\ row[r].initiator \in Principals
          /\ p # Human[row[r].initiator] /\ \A x \in claims : x.req # r
      BY <1>01, <1>02, <1>2 DEF ClaimRow, IInv, TypeOK, Live, CallInv, Permitted, CopyAgrees, RowInv
    <2>2. /\ claims' = claims \cup {won} /\ won.req = r /\ won.by = w
          /\ row' = [row EXCEPT ![r].state = "approved", ![r].approver = w,
                                ![r].approved_at = Coalesce(row[r].approved_at,
                                                            call[c].snap.approved_at)]
      BY <1>01, <1>02, <1>03, <1>2 DEF ClaimRow, Claimable, ClaimOf
    <2>3. /\ row'[r].state = "approved" /\ row'[r].approver = w
          /\ row'[r].initiator = row[r].initiator
          /\ \A q \in Requests : q # r => row'[q] = row[q]
      BY <2>1, <2>2 DEF Row
    <2> DEFINE old == [q \in Requests |-> EntryOf(q)]
               e == [state |-> "approved", initiator |-> HumanOf(row[r].initiator),
                     approver |-> p]
    <2>4. EntryOf(r)' = e
      BY <2>1, <2>3, HumansOf DEF EntryOf
    <2>5. [q \in Requests |-> EntryOf(q)]' = [old EXCEPT ![r] = e]
      BY <2>1, <2>3, <2>4, EntryMoves
    <2>6. e = [old[r] EXCEPT !.state = "approved", !.approver = p]
      <3>1. old[r] = [state |-> row[r].state, initiator |-> HumanOf(row[r].initiator),
                      approver |-> HumanOf(row[r].approver)]
        BY DEF EntryOf
      <3>2. old[r] \in [state : {row[r].state}, initiator : {HumanOf(row[r].initiator)},
                         approver : {HumanOf(row[r].approver)}]
        BY <3>1
      <3> HIDE DEF old, p
      <3> DEFINE f == [old[r] EXCEPT !.state = "approved", !.approver = p]
      <3>3. f \in [state : {"approved"}, initiator : {HumanOf(row[r].initiator)},
                    approver : {p}]
        BY <3>2
      <3> HIDE DEF f
      <3>4. f = e
        BY <3>3
      <3> QED
        BY <3>4 DEF f
    <2>7. [q \in Requests |-> EntryOf(q)]'
              = [old EXCEPT ![r].state = "approved", ![r].approver = p]
      <3> HIDE DEF p
      <3> QED
        BY <2>5, <2>6
    <2>8. WinnerOf(r)' = p
      <3>1. \A y \in claims' : y.req = r => y = won
        BY <2>1, <2>2
      <3>2. won \in claims'
        BY <2>2
      <3>3. (CHOOSE y \in claims' : y.req = r) = won
        BY <2>2, <3>1, <3>2
      <3>4. WinnerOf(r)' = HumanOf(won.by)
        BY <2>2, <3>2, <3>3 DEF WinnerOf, HumanOf
      <3> QED
        BY <2>2, <3>4, HumansOf
    <2>9. ASSUME NEW q \in Requests, q # r PROVE WinnerOf(q)' = WinnerOf(q)
      <3>1. \A x : x \in claims' /\ x.req = q <=> x \in claims /\ x.req = q
        BY <2>2, <2>9
      <3>2. (CHOOSE x : x \in claims' /\ x.req = q) = (CHOOSE x : x \in claims /\ x.req = q)
        BY <3>1
      <3>3. (CHOOSE x \in claims' : x.req = q) = (CHOOSE x \in claims : x.req = q)
        BY <3>2
      <3> QED
        BY <3>1, <3>3 DEF WinnerOf, HumanOf
    <2>10. [q \in Requests |-> WinnerOf(q)]' = [[q \in Requests |-> WinnerOf(q)] EXCEPT ![r] = p]
      BY <2>8, <2>9
    <2>11. Behind!Grant(r, p)
      BY <1>2, <2>1, <2>7, <2>10, HumansOf DEF Behind!Grant, EntryOf, WinnerOf
    <2> QED
      BY <2>11 DEF Behind!Next
  <1> QED
    BY <1>1, <1>2

\* Every step of the service is a step of that row, or leaves it alone.
LEMMA NextIsBehind ==
  ASSUME IInv, IInv', NamesInv, [Next]_vars
  PROVE  [Behind!Next]_(Behind!vars)
  <1>1. CASE \E c \in Calls, p \in Principals, r \in Requests : Create(c, p, r)
    BY <1>1, CreateIsCreate
  <1>2. ASSUME NEW c \in Calls, WriteTimeout(c) \/ Persist(c) \/ Reject(c)
        PROVE  [Behind!Next]_(Behind!vars)
    BY <1>2, StoreIsLateWrite
  <1>3. ASSUME NEW c \in Calls, ClaimRow(c) PROVE [Behind!Next]_(Behind!vars)
    BY <1>3, ClaimIsGrant
  <1>4. CASE UNCHANGED <<row, claims>>
    BY <1>4, SameWinners DEF Behind!vars, WinnerOf
  <1> QED
    BY <1>1, <1>2, <1>3, <1>4
    DEF Next, vars, Fetch, Progress, CheckWindow, Decide, Execute, Returns, Throws, Audit,
        Crash, Tick

\* Every behaviour of the approvals service, seen at its row, is one GateRow
\* allows: the row that PayablePeriod, Disputes, Invoicing, Revocation and
\* BreakWorkflow are built on is this service's, for every set of callers.
THEOREM RowRefinement == Spec => ImplementsGateRow
  <1>1. Init => Behind!Init
    <2>1. Init => [q \in Requests |-> EntryOf(q)] = [q \in Requests |-> Behind!NoEntry]
      BY HumansOf DEF Init, NoRow, EntryOf, Behind!NoEntry
    <2>2. Init => [q \in Requests |-> WinnerOf(q)] = [q \in Requests |-> None]
      BY DEF Init, WinnerOf
    <2> QED
      BY <2>1, <2>2 DEF Behind!Init, EntryOf, WinnerOf
  <1>2. IInv /\ IInv' /\ NamesInv /\ [Next]_vars => [Behind!Next]_(Behind!vars)
    BY NextIsBehind
  <1> QED
    BY <1>1, <1>2, Invariance, NamesInvariance, PTL DEF Spec, ImplementsGateRow, Behind!Spec
=============================================================================
