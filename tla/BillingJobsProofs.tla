------------------------- MODULE BillingJobsProofs -------------------------
(***************************************************************************)
(* Theorems about three billing jobs.                                      *)
(*   EvidenceDispatch, for every set of documents, versions and calls:     *)
(* every acceptance leaves a row, and the evidence implements Outbox.      *)
(*   RateCardWatch, for every number of runs, sources, texts and           *)
(* snapshots: a review that is marked notified was heard by both teams     *)
(* (liveness stays with TLC).                                              *)
(*   MeteringIngest and Metering, for all facts, calls and batches: a      *)
(* month has a run with all that was acknowledged, and every run pairs a   *)
(* call once and gives a day's free pages once, by induction over the      *)
(* facts.                                                                  *)
(***************************************************************************)
EXTENDS EvidenceDispatch, RateCardWatch, MeteringIngest, FiniteSetTheorems, TLAPS

-----------------------------------------------------------------------------
(* The submission evidence.  The inductive invariant. *)

Busy == {"ready", "created", "saved", "answered", "logged", "caught", "noted"}

\* A call at work has a document in hand; once it has filed it, or found it on file,
\* the bytes on file are the call's own; and it knows the partner's answer or has none.
Knows(c) ==
    /\ call[c].at \in Busy => call[c].left # <<>> /\ call[c].version \in Versions
    /\ call[c].at \in Busy \ {"ready"} => filed[InHand(c)] = call[c].version
    /\ call[c].at \in {"idle", "ready", "created", "saved"} => call[c].response = "none"
    /\ call[c].at = "answered" => call[c].response \in {"accepted", "rejected"}
CallInv == \A c \in Calls : Knows(c)

\* The calls that may still tell the log of an acceptance of d.
Telling(c, d) ==
    call[c].at = "answered" /\ call[c].response = "accepted" /\ InHand(c) = d
Tellers(d) == {c \in Calls : Telling(c, d)}

\* What the log says was accepted, and what is still to be said, was accepted.
TruthInv ==
    \A d \in Documents :
        Outbox!Acceptances(log[d]) + Cardinality(Tellers(d)) <= Len(taken[d])

IInv == TypeOK /\ CallInv /\ TruthInv /\ EveryAcceptanceLeavesARow

-----------------------------------------------------------------------------
(* Counting. *)

LEMMA TellersFinite ==
    ASSUME NEW d
    PROVE  /\ IsFiniteSet(Tellers(d)) /\ Cardinality(Tellers(d)) \in Nat
           /\ IsFiniteSet(Tellers(d)') /\ Cardinality(Tellers(d))' \in Nat
<1>1. Tellers(d) \in SUBSET Calls /\ Tellers(d)' \in SUBSET Calls
    BY DEF Tellers
<1>2. \A S \in SUBSET Calls : IsFiniteSet(S) /\ Cardinality(S) \in Nat
    BY FS_Subset, FS_CardinalityType, EvidenceAssumption
<1> QED BY <1>1, <1>2

\* A set that gained at most one member, and one that lost one for certain.
LEMMA AtMostOneMore ==
    ASSUME NEW S, IsFiniteSet(S), NEW T, NEW c, T \subseteq S \cup {c}
    PROVE  Cardinality(T) <= Cardinality(S) + 1
<1>1. IsFiniteSet(S \cup {c}) /\ Cardinality(S \cup {c}) <= Cardinality(S) + 1
    <2>1. Cardinality(S) \in Nat
        BY FS_CardinalityType
    <2> QED BY <2>1, FS_AddElement
<1>2. IsFiniteSet(T) /\ Cardinality(T) <= Cardinality(S \cup {c})
    BY <1>1, FS_Subset
<1> QED BY <1>1, <1>2, FS_CardinalityType

LEMMA OneLess ==
    ASSUME NEW S, IsFiniteSet(S), NEW T, NEW c \in S, T \subseteq S \ {c}
    PROVE  Cardinality(T) + 1 <= Cardinality(S)
<1>1. IsFiniteSet(S \ {c}) /\ Cardinality(S \ {c}) = Cardinality(S) - 1
    BY FS_RemoveElement
<1>2. IsFiniteSet(T) /\ Cardinality(T) <= Cardinality(S \ {c})
    BY <1>1, FS_Subset
<1> QED BY <1>1, <1>2, FS_CardinalityType

LEMMA NoMore ==
    ASSUME NEW S, IsFiniteSet(S), NEW T, T \subseteq S
    PROVE  Cardinality(T) <= Cardinality(S)
BY FS_Subset

\* One entry more in the log counts once, if it is an acceptance.
LEMMA AcceptancesGrow ==
    ASSUME NEW entries \in Seq({"accepted", "rejected", "transport_error"}), NEW outcome
    PROVE  /\ Outbox!Acceptances(entries) \in Nat
           /\ Outbox!Acceptances(Append(entries, outcome)) =
                  Outbox!Acceptances(entries) + (IF outcome = "accepted" THEN 1 ELSE 0)
<1> DEFINE n == Len(entries)
           A == {k \in DOMAIN entries : entries[k] = "accepted"}
           longer == Append(entries, outcome)
           B == {k \in DOMAIN longer : longer[k] = "accepted"}
<1>1. n \in Nat /\ DOMAIN entries = 1..n
    OBVIOUS
<1>2. DOMAIN longer = 1..(n + 1) /\ longer[n + 1] = outcome
    BY <1>1
<1>3. \A k \in 1..n : longer[k] = entries[k]
    BY <1>1
<1>4. IsFiniteSet(A) /\ Cardinality(A) \in Nat /\ n + 1 \notin A
    <2>1. IsFiniteSet(1..n) /\ A \in SUBSET (1..n)
        BY <1>1, FS_Interval
    <2>2. IsFiniteSet(A)
        BY <2>1, FS_Subset
    <2>3. Cardinality(A) \in Nat
        BY <2>2, FS_CardinalityType
    <2> QED BY <1>1, <2>1, <2>2, <2>3
<1>5. B = IF outcome = "accepted" THEN A \cup {n + 1} ELSE A
    BY <1>1, <1>2, <1>3
<1> HIDE DEF A, B
<1>6. Cardinality(B) = Cardinality(A) + (IF outcome = "accepted" THEN 1 ELSE 0)
    <2>1. Cardinality(A \cup {n + 1}) = Cardinality(A) + 1
        BY <1>4, FS_AddElement
    <2>2. CASE outcome = "accepted"
        BY <1>5, <2>1, <2>2
    <2>3. CASE outcome # "accepted"
        BY <1>4, <1>5, <2>3
    <2> QED BY <2>2, <2>3
<1>7. Outbox!Acceptances(entries) = Cardinality(A) /\ Outbox!Acceptances(longer) = Cardinality(B)
    BY DEF A, B, Outbox!Acceptances, Outbox!Cardinality, Cardinality, Outbox!IsFiniteSet, IsFiniteSet
<1> QED BY <1>4, <1>6, <1>7

-----------------------------------------------------------------------------
(* The types, and what a call at work knows. *)

LEMMA InitIInv == Init => IInv
<1> SUFFICES ASSUME Init PROVE IInv
    OBVIOUS
<1>1. TypeOK
    BY DEF Init, TypeOK, Call, CallStep, Response
<1>2. CallInv
    BY DEF Init, CallInv, Knows, Busy
<1>3. \A d \in Documents : Tellers(d) = {}
    BY DEF Init, Tellers, Telling
<1>4. Cardinality({}) = 0
    BY FS_EmptySet
<1>5. \A d \in Documents :
          /\ log[d] = <<>> /\ taken[d] = <<>> /\ Len(taken[d]) = 0
          /\ Cardinality(Tellers(d)) = 0
    BY <1>3, <1>4 DEF Init
<1>6. Outbox!Acceptances(<<>>) = 0
    <2>1. {n \in DOMAIN <<>> : <<>>[n] = "accepted"} = {}
        OBVIOUS
    <2>2. Outbox!Acceptances(<<>>) = Cardinality({n \in DOMAIN <<>> : <<>>[n] = "accepted"})
        BY DEF Outbox!Acceptances, Outbox!Cardinality, Cardinality, Outbox!IsFiniteSet,
            IsFiniteSet
    <2> QED BY <1>4, <2>1, <2>2
<1>7. TruthInv
    BY <1>5, <1>6 DEF TruthInv
<1>8. EveryAcceptanceLeavesARow
    BY DEF Init, EveryAcceptanceLeavesARow
<1> QED BY <1>1, <1>2, <1>7, <1>8 DEF IInv

LEMMA HandType ==
    ASSUME TypeOK, CallInv, NEW c \in Calls, call[c].at \in Busy
    PROVE  /\ InHand(c) \in Documents
           /\ Tail(call[c].left) \in Seq(Documents)
BY DEF TypeOK, CallInv, Knows, Call, InHand

\* Where a call may go from one that works.
LEMMA GoesTo ==
    ASSUME TypeOK, NEW c \in Calls, NEW step \in CallStep, Goes(c, step)
    PROVE  /\ call' \in [Calls -> Call]
           /\ call'[c] = [call[c] EXCEPT !.at = step]
           /\ \A o \in Calls \ {c} : call'[o] = call[o]
           /\ InHand(c)' = InHand(c)
BY DEF TypeOK, Goes, Call, InHand

LEMMA FinishTo ==
    ASSUME TypeOK, CallInv, NEW c \in Calls, call[c].at \in Busy, Finish(c)
    PROVE  /\ call' \in [Calls -> Call]
           /\ \A o \in Calls \ {c} : call'[o] = call[o]
           /\ call'[c].at \in {"done", "ready"} /\ call'[c].response = "none"
           /\ call'[c].at = "ready" => call'[c].left # <<>>
           /\ call'[c].version = call[c].version
<1> DEFINE rest == Tail(call[c].left)
           step == IF rest = <<>> THEN "done" ELSE "ready"
           r == [call[c] EXCEPT !.at = step, !.left = rest, !.response = "none"]
<1>1. rest \in Seq(Documents)
    BY HandType
<1>2. call[c] \in Call /\ call \in [Calls -> Call]
    BY DEF TypeOK
<1>3. step \in CallStep /\ step \in {"done", "ready"} /\ "none" \in Response
    BY DEF CallStep, Response
<1>4. r \in Call /\ r.at = step /\ r.left = rest /\ r.response = "none"
          /\ r.version = call[c].version
    <2> HIDE DEF rest, step
    <2> QED BY <1>1, <1>2, <1>3 DEF Call
<1>5. call' = [call EXCEPT ![c] = r]
    BY DEF Finish
<1> HIDE DEF r
<1>6. call'[c] = r /\ call' \in [Calls -> Call] /\ \A o \in Calls \ {c} : call'[o] = call[o]
    BY <1>2, <1>4, <1>5
<1> QED BY <1>3, <1>4, <1>6

LEMMA AppendType ==
    ASSUME TypeOK, NEW c \in Calls, InHand(c) \in Documents,
           NEW outcome \in {"accepted", "rejected", "transport_error"},
           AppendOutcome(c, outcome)
    PROVE  /\ log' \in [Documents -> Seq({"accepted", "rejected", "transport_error"})]
           /\ log'[InHand(c)] = Append(log[InHand(c)], outcome)
           /\ \A o \in Documents \ {InHand(c)} : log'[o] = log[o]
           /\ unwritten' = unwritten \ {<<c, InHand(c)>>}
BY DEF TypeOK, AppendOutcome

-----------------------------------------------------------------------------
(* What a step of one call leaves to the others. *)

LEMMA OthersKnow ==
    ASSUME TypeOK, CallInv, NEW c \in Calls, Knows(c)',
           \A o \in Calls \ {c} : call'[o] = call[o],
           \A d \in Documents : filed[d] # None => filed'[d] = filed[d]
    PROVE  CallInv'
<1> SUFFICES ASSUME NEW o \in Calls \ {c} PROVE Knows(o)'
    BY DEF CallInv
<1>1. Knows(o) /\ call'[o] = call[o] /\ InHand(o)' = InHand(o)
    BY DEF CallInv, InHand
<1>2. CASE call[o].at \in Busy
    <2>1. InHand(o) \in Documents
        BY <1>2, HandType
    <2>2. call[o].version \in Versions /\ call[o].version # None
        BY <1>1, <1>2, EvidenceAssumption DEF Knows
    <2> QED BY <1>1, <1>2, <2>1, <2>2 DEF Knows
<1>3. CASE call[o].at \notin Busy
    BY <1>1, <1>3 DEF Knows, Busy
<1> QED BY <1>2, <1>3

\* A step that lets no call know of an acceptance, and logs none.
LEMMA TruthKept ==
    ASSUME IInv, TypeOK', NEW c \in Calls,
           \A o \in Calls \ {c} : call'[o] = call[o], call'[c].at # "answered",
           \A d \in Documents : Outbox!Acceptances(log'[d]) = Outbox!Acceptances(log[d]),
           \A d \in Documents : Len(taken[d]) <= Len(taken'[d])
    PROVE  TruthInv'
<1> SUFFICES ASSUME NEW d \in Documents
             PROVE  Outbox!Acceptances(log'[d]) + Cardinality(Tellers(d)') <= Len(taken'[d])
    BY DEF TruthInv
<1>1. Tellers(d)' \subseteq Tellers(d)
    BY DEF Tellers, Telling, InHand
<1>2. Cardinality(Tellers(d)') <= Cardinality(Tellers(d))
    BY <1>1, TellersFinite, NoMore
<1>3. Outbox!Acceptances(log[d]) + Cardinality(Tellers(d)) <= Len(taken[d])
    BY DEF IInv, TruthInv
<1>4. Outbox!Acceptances(log[d]) \in Nat
    BY AcceptancesGrow DEF IInv, TypeOK
<1>5. Len(taken[d]) \in Nat /\ Len(taken'[d]) \in Nat
    BY DEF IInv, TypeOK
<1> QED BY <1>2, <1>3, <1>4, <1>5, TellersFinite

\* The calls that may leave an acceptance without a row, and the documents in their hands.
Excused == {"answered", "caught", "unrecorded", "died"}

\* A step of one call is no business of the others' documents; what it leaves unwritten
\* itself is the document it has in hand.
LEMMA RowsKept ==
    ASSUME IInv, NEW c \in Calls, \A o \in Calls \ {c} : call'[o] = call[o],
           \A o \in Calls \ {c}, d \in Documents :
               <<o, d>> \in unwritten' => <<o, d>> \in unwritten,
           \A d \in Documents : <<c, d>> \in unwritten' =>
               InHand(c)' = d /\ call'[c].at \in Excused
    PROVE  EveryAcceptanceLeavesARow'
<1> SUFFICES ASSUME NEW o \in Calls, NEW d \in Documents, <<o, d>> \in unwritten'
             PROVE  InHand(o)' = d /\ call'[o].at \in Excused
    BY DEF EveryAcceptanceLeavesARow, Excused
<1>1. CASE o = c
    BY <1>1
<1>2. CASE o # c
    <2>1. InHand(o) = d /\ call[o].at \in Excused
        BY <1>2 DEF IInv, EveryAcceptanceLeavesARow, Excused
    <2>2. call'[o] = call[o] /\ InHand(o)' = InHand(o)
        BY <1>2 DEF InHand
    <2> QED BY <2>1, <2>2
<1> QED BY <1>1, <1>2

\* Who is not excused has nothing unwritten; who is, the document in hand and no other.
LEMMA Unwritten ==
    ASSUME IInv, NEW c \in Calls, NEW d \in Documents, <<c, d>> \in unwritten
    PROVE  InHand(c) = d /\ call[c].at \in Excused
BY DEF IInv, EveryAcceptanceLeavesARow, Excused

\* The row of the document in hand leaves the call nothing unwritten.
LEMMA RowAdded ==
    ASSUME IInv, NEW c \in Calls, \A o \in Calls \ {c} : call'[o] = call[o],
           unwritten' = unwritten \ {<<c, InHand(c)>>}
    PROVE  EveryAcceptanceLeavesARow'
<1>1. \A d \in Documents : <<c, d>> \notin unwritten'
    BY Unwritten
<1> QED BY <1>1, RowsKept

-----------------------------------------------------------------------------
(* One step of one call. *)

LEMMA GenerateStep ==
    ASSUME IInv, NEW c \in Calls, NEW work \in Works, NEW v \in Versions, Generate(c, work, v)
    PROVE  IInv'
<1>1. work \in Seq(Documents) /\ work # <<>>
    BY EvidenceAssumption
<1>2. /\ call' \in [Calls -> Call]
      /\ \A o \in Calls \ {c} : call'[o] = call[o]
      /\ call'[c].at = "ready" /\ call'[c].left = work /\ call'[c].version = v
      /\ call'[c].response = call[c].response
    BY <1>1 DEF IInv, TypeOK, Generate, Call, CallStep
<1>3. TypeOK'
    BY <1>2 DEF IInv, TypeOK, Generate
<1>4. CallInv'
    <2>1. Knows(c)'
        BY <1>1, <1>2 DEF IInv, CallInv, Knows, Generate, Busy
    <2> QED BY <1>2, <2>1, OthersKnow DEF IInv, Generate
<1>5. TruthInv'
    BY <1>2, <1>3, TruthKept DEF Generate, IInv, TypeOK
<1>6. EveryAcceptanceLeavesARow'
    <2>1. unwritten' = unwritten
        BY DEF Generate
    <2>2. \A d \in Documents : <<c, d>> \notin unwritten
        BY Unwritten DEF Generate, Excused
    <2> QED BY <1>2, <2>1, <2>2, RowsKept
<1> QED BY <1>3, <1>4, <1>5, <1>6 DEF IInv

\* The steps that change neither what the partner has nor the log.
LEMMA QuietStep ==
    ASSUME IInv, TypeOK', NEW c \in Calls, Knows(c)',
           \A o \in Calls \ {c} : call'[o] = call[o], call'[c].at # "answered",
           call[c].at \in Excused => InHand(c)' = InHand(c) /\ call'[c].at \in Excused,
           \A d \in Documents : filed[d] # None => filed'[d] = filed[d],
           UNCHANGED <<taken, log, unwritten>>
    PROVE  IInv'
<1>1. CallInv'
    BY OthersKnow DEF IInv
<1>2. TruthInv'
    BY TruthKept DEF IInv, TypeOK
<1>3. EveryAcceptanceLeavesARow'
    BY Unwritten, RowsKept
<1> QED BY <1>1, <1>2, <1>3 DEF IInv

LEMMA SaveStep ==
    ASSUME IInv, NEW c \in Calls, Save(c)
    PROVE  IInv'
<1> DEFINE d == InHand(c)
<1>1. call[c].at = "ready" /\ d \in Documents /\ call[c].version \in Versions
      /\ call[c].left # <<>> /\ call[c].response = "none" /\ Knows(c)
    BY HandType DEF IInv, CallInv, Knows, Busy, Save
<1>2. PICK step \in {"created", "saved"} : Goes(c, step)
    BY DEF Save, SaveById
<1>3. /\ call' \in [Calls -> Call] /\ call'[c] = [call[c] EXCEPT !.at = step]
      /\ \A o \in Calls \ {c} : call'[o] = call[o]
      /\ InHand(c)' = d
    BY <1>2, GoesTo DEF IInv, CallStep
<1>4. /\ call'[c].at = step /\ call'[c].left = call[c].left
      /\ call'[c].version = call[c].version /\ call'[c].response = "none"
    BY <1>1, <1>3 DEF IInv, TypeOK, Call
<1>5. /\ filed' \in [Documents -> Versions \cup {None}] /\ filed'[d] = call[c].version
      /\ \A o \in Documents : filed[o] # None => filed'[o] = filed[o]
    BY <1>1, EvidenceAssumption DEF Save, SaveById, IInv, TypeOK
<1>6. UNCHANGED <<taken, log, trail, unwritten>>
    BY DEF Save, SaveById
<1>7. TypeOK'
    BY <1>3, <1>5, <1>6 DEF IInv, TypeOK
<1>8. Knows(c)'
    BY <1>1, <1>3, <1>4, <1>5 DEF Knows, Busy
<1>9. call[c].at \notin Excused
    BY <1>1 DEF Excused
<1> QED BY <1>3, <1>4, <1>5, <1>6, <1>7, <1>8, <1>9, QuietStep

\* Where only at changes, and no acceptance is forgotten.
LEMMA AtStep ==
    ASSUME IInv, NEW c \in Calls, NEW step \in CallStep, Goes(c, step),
           call[c].at \in Busy,
           step \in {"saved", "caught", "failed", "unrecorded", "died"},
           step = "saved" => call[c].at = "created",
           step = "caught" => call[c].at # "ready",
           step = "failed" => call[c].at \in {"ready", "created", "saved", "noted"},
           trail' \subseteq Event, UNCHANGED <<filed, taken, log, unwritten>>
    PROVE  IInv'
<1>1. /\ call' \in [Calls -> Call] /\ call'[c] = [call[c] EXCEPT !.at = step]
      /\ \A o \in Calls \ {c} : call'[o] = call[o]
      /\ InHand(c)' = InHand(c)
    BY GoesTo DEF IInv
<1>2. /\ call'[c].at = step /\ call'[c].left = call[c].left
      /\ call'[c].version = call[c].version /\ call'[c].response = call[c].response
    BY <1>1 DEF IInv, TypeOK, Call
<1>3. TypeOK'
    BY <1>1 DEF IInv, TypeOK
<1>4. Knows(c)'
    BY <1>1, <1>2 DEF IInv, CallInv, Knows, Busy
<1>5. call[c].at \in Excused => call'[c].at \in Excused
    BY <1>2 DEF Excused
<1> QED BY <1>1, <1>2, <1>3, <1>4, <1>5, QuietStep

LEMMA RefuseStep ==
    ASSUME IInv, NEW c \in Calls, Refuse(c)
    PROVE  IInv'
BY AtStep DEF Refuse, CallStep, Busy, IInv, TypeOK

LEMMA AuditGeneratedStep ==
    ASSUME IInv, NEW c \in Calls, AuditGenerated(c)
    PROVE  IInv'
BY AtStep DEF AuditGenerated, CallStep, Busy, IInv, TypeOK, Event

LEMMA AuditDispatchedFailsStep ==
    ASSUME IInv, NEW c \in Calls, AuditDispatchedFails(c)
    PROVE  IInv'
<1>1. trail' \subseteq Event
    BY DEF AuditDispatchedFails, IInv, TypeOK, Event
<1> QED BY <1>1, AtStep DEF AuditDispatchedFails, CallStep, Busy

LEMMA AuditFailureStep ==
    ASSUME IInv, NEW c \in Calls, AuditFailure(c)
    PROVE  IInv'
BY AtStep DEF AuditFailure, CallStep, Busy, IInv, TypeOK, Event

LEMMA ThrowStep ==
    ASSUME IInv, NEW c \in Calls, Throw(c)
    PROVE  IInv'
BY AtStep DEF Throw, CallStep, Busy, IInv, TypeOK

LEMMA DieUnderStep ==
    ASSUME IInv, NEW c \in Calls, DieUnder(c)
    PROVE  IInv'
<1>1. call[c].at \in Busy
    BY DEF DieUnder, IInv, TypeOK, Call, CallStep, Busy
<1> QED BY <1>1, AtStep DEF DieUnder, CallStep, IInv, TypeOK

LEMMA AuditDispatchedStep ==
    ASSUME IInv, NEW c \in Calls, AuditDispatched(c)
    PROVE  IInv'
<1>1. call[c].at = "logged" /\ call[c].at \in Busy /\ Finish(c)
      /\ call[c].version \in Versions /\ UNCHANGED <<filed, taken, log, unwritten>>
    BY DEF AuditDispatched, IInv, CallInv, Knows, Busy
<1>2. /\ call' \in [Calls -> Call]
      /\ \A o \in Calls \ {c} : call'[o] = call[o]
      /\ call'[c].at \in {"done", "ready"} /\ call'[c].response = "none"
      /\ call'[c].at = "ready" => call'[c].left # <<>>
      /\ call'[c].version = call[c].version
    BY <1>1, FinishTo DEF IInv
<1>3. TypeOK'
    BY <1>2 DEF AuditDispatched, IInv, TypeOK, Event
<1>4. Knows(c)'
    BY <1>1, <1>2 DEF Knows, Busy
<1>5. call[c].at \notin Excused
    BY <1>1 DEF Excused
<1> QED BY <1>1, <1>2, <1>3, <1>4, <1>5, QuietStep

\* The partner's answer, or none: what it took, the call has yet to write down.
LEMMA SubmitStep ==
    ASSUME IInv, NEW c \in Calls, Submit(c)
    PROVE  IInv'
<1> DEFINE e == InHand(c)
<1>1. call[c].at = "saved" /\ e \in Documents /\ call[c].left # <<>>
      /\ call[c].version \in Versions /\ filed[e] = call[c].version /\ call[c].response = "none"
    BY HandType DEF IInv, CallInv, Knows, Busy, Submit
<1>2. PICK response \in Response \ {"none"} :
          /\ call' = [call EXCEPT
                 ![c].at = IF response \in {"accepted", "rejected"} THEN "answered" ELSE "caught",
                 ![c].response = response]
          /\ IF response \in {"accepted", "lost"}
             THEN /\ taken' = [taken EXCEPT ![e] = Append(@, call[c].version)]
                  /\ unwritten' = unwritten \cup {<<c, e>>}
             ELSE UNCHANGED <<taken, unwritten>>
    BY DEF Submit
<1> DEFINE step == IF response \in {"accepted", "rejected"} THEN "answered" ELSE "caught"
           r == [call[c] EXCEPT !.at = step, !.response = response]
<1>3. r \in Call /\ r.at = step /\ r.left = call[c].left /\ r.version = call[c].version
          /\ r.response = response
    <2>1. call[c] \in Call /\ step \in CallStep /\ response \in Response
        BY DEF IInv, TypeOK, CallStep
    <2> HIDE DEF step
    <2> QED BY <2>1 DEF Call
<1>4. call' \in [Calls -> Call] /\ call'[c] = r /\ \A o \in Calls \ {c} : call'[o] = call[o]
    <2>1. call' = [call EXCEPT ![c] = r]
        BY <1>2
    <2> HIDE DEF r
    <2> QED BY <1>3, <2>1 DEF IInv, TypeOK
<1> HIDE DEF r
<1>5. /\ call'[c].at = step /\ call'[c].left = call[c].left
      /\ call'[c].version = call[c].version /\ call'[c].response = response
      /\ InHand(c)' = e
    BY <1>3, <1>4 DEF InHand
<1>6. UNCHANGED <<filed, log, trail>>
    BY DEF Submit
<1>7. /\ taken' \in [Documents -> Seq(Versions)]
      /\ \A d \in Documents : Len(taken[d]) \in Nat /\ Len(taken'[d]) \in Nat
      /\ response \in {"accepted", "lost"} => Len(taken'[e]) = Len(taken[e]) + 1
      /\ \A d \in Documents \ {e} : taken'[d] = taken[d]
      /\ response \notin {"accepted", "lost"} => taken' = taken
    <2>1. taken \in [Documents -> Seq(Versions)]
        BY DEF IInv, TypeOK
    <2>2. CASE response \in {"accepted", "lost"}
        <3>1. taken' = [taken EXCEPT ![e] = Append(@, call[c].version)]
            BY <1>2, <2>2
        <3> QED BY <1>1, <2>1, <2>2, <3>1
    <2>3. CASE response \notin {"accepted", "lost"}
        <3>1. taken' = taken
            BY <1>2, <2>3
        <3> QED BY <1>1, <2>1, <2>3, <3>1
    <2> QED BY <2>2, <2>3
<1>8. TypeOK'
    <2>1. unwritten' \subseteq Calls \X Documents
        BY <1>1, <1>2 DEF IInv, TypeOK
    <2> QED BY <1>4, <1>6, <1>7, <2>1 DEF IInv, TypeOK
<1>9. CallInv'
    <2>1. Knows(c)'
        BY <1>1, <1>2, <1>5, <1>6 DEF Knows, Busy, Response
    <2> QED BY <1>4, <1>6, <2>1, OthersKnow DEF IInv
<1>10. ASSUME NEW d \in Documents
       PROVE  Outbox!Acceptances(log'[d]) + Cardinality(Tellers(d)') <= Len(taken'[d])
    <2>1. Outbox!Acceptances(log[d]) + Cardinality(Tellers(d)) <= Len(taken[d])
        BY DEF IInv, TruthInv
    <2>2. Outbox!Acceptances(log[d]) \in Nat
        BY AcceptancesGrow DEF IInv, TypeOK
    <2>3. CASE d = e /\ response = "accepted"
        <3>1. Tellers(d)' \subseteq Tellers(d) \cup {c}
            BY <1>4 DEF Tellers, Telling, InHand
        <3>2. Cardinality(Tellers(d)') <= Cardinality(Tellers(d)) + 1
            BY <3>1, TellersFinite, AtMostOneMore
        <3> QED BY <1>6, <1>7, <2>1, <2>2, <2>3, <3>2, TellersFinite
    <2>4. CASE ~ (d = e /\ response = "accepted")
        <3>1. Tellers(d)' \subseteq Tellers(d)
            BY <1>4, <1>5, <2>4 DEF Tellers, Telling, InHand
        <3>2. Cardinality(Tellers(d)') <= Cardinality(Tellers(d))
            BY <3>1, TellersFinite, NoMore
        <3>3. Len(taken[d]) <= Len(taken'[d])
            BY <1>7
        <3> QED BY <1>6, <1>7, <2>1, <2>2, <3>2, <3>3, TellersFinite
    <2> QED BY <2>3, <2>4
<1>11. EveryAcceptanceLeavesARow'
    <2>1. unwritten' \subseteq unwritten \cup {<<c, e>>}
        BY <1>2
    <2>2. \A d \in Documents : <<c, d>> \notin unwritten
        BY <1>1, Unwritten DEF Excused
    <2>3. call'[c].at \in Excused
        BY <1>5 DEF Excused
    <2> QED BY <1>4, <1>5, <2>1, <2>2, <2>3, RowsKept
<1>12. TruthInv'
    BY <1>10 DEF TruthInv
<1> QED BY <1>8, <1>9, <1>11, <1>12 DEF IInv

\* An answer that gets its row: an acceptance is told once and no more.
LEMMA TruthTold ==
    ASSUME IInv, TypeOK', NEW c \in Calls, call[c].at = "answered",
           AppendOutcome(c, call[c].response), taken' = taken,
           \A o \in Calls \ {c} : call'[o] = call[o], call'[c].at # "answered"
    PROVE  TruthInv'
<1> DEFINE e == InHand(c)
<1>1. e \in Documents /\ call[c].response \in {"accepted", "rejected"}
    BY HandType DEF IInv, CallInv, Knows, Busy
<1>2. /\ log'[e] = Append(log[e], call[c].response)
      /\ \A d \in Documents \ {e} : log'[d] = log[d]
    BY <1>1, AppendType DEF IInv
<1> SUFFICES ASSUME NEW d \in Documents
             PROVE  Outbox!Acceptances(log'[d]) + Cardinality(Tellers(d)') <= Len(taken'[d])
    BY DEF TruthInv
<1>3. Outbox!Acceptances(log[d]) + Cardinality(Tellers(d)) <= Len(taken[d])
          /\ Len(taken[d]) \in Nat
    BY DEF IInv, TypeOK, TruthInv
<1>4. /\ Outbox!Acceptances(log[d]) \in Nat
      /\ Outbox!Acceptances(Append(log[d], call[c].response)) =
             Outbox!Acceptances(log[d]) + (IF call[c].response = "accepted" THEN 1 ELSE 0)
    BY AcceptancesGrow DEF IInv, TypeOK
<1>5. Tellers(d)' \subseteq Tellers(d) \ {c}
    BY DEF Tellers, Telling, InHand
<1>6. Cardinality(Tellers(d)') <= Cardinality(Tellers(d))
    BY <1>5, TellersFinite, NoMore
<1>7. CASE d = e /\ call[c].response = "accepted"
    <2>1. c \in Tellers(d)
        BY <1>7 DEF Tellers, Telling
    <2>2. Cardinality(Tellers(d)') + 1 <= Cardinality(Tellers(d))
        BY <1>5, <2>1, TellersFinite, OneLess
    <2>3. log'[d] = Append(log[d], call[c].response)
        BY <1>2, <1>7
    <2>4. Outbox!Acceptances(log'[d]) = Outbox!Acceptances(log[d]) + 1
        BY <1>4, <1>7, <2>3
    <2> QED BY <1>3, <1>4, <2>2, <2>4, TellersFinite
<1>8. CASE ~ (d = e /\ call[c].response = "accepted")
    <2>1. Outbox!Acceptances(log'[d]) = Outbox!Acceptances(log[d])
        <3>1. CASE d # e
            <4>1. log'[d] = log[d]
                BY <1>2, <3>1
            <4> QED BY <4>1
        <3>2. CASE d = e
            <4>1. log'[d] = Append(log[d], call[c].response)
                BY <1>2, <3>2
            <4>2. Outbox!Acceptances(Append(log[d], call[c].response))
                      = Outbox!Acceptances(log[d])
                BY <1>4, <1>8, <3>2
            <4> QED BY <4>1, <4>2
        <3> QED BY <3>1, <3>2
    <2> QED BY <1>3, <1>4, <1>6, <2>1, TellersFinite
<1> QED BY <1>7, <1>8

LEMMA RecordOutcomeStep ==
    ASSUME IInv, NEW c \in Calls, RecordOutcome(c)
    PROVE  IInv'
<1> DEFINE e == InHand(c)
<1>1. call[c].at = "answered" /\ e \in Documents /\ call[c].left # <<>>
      /\ call[c].version \in Versions /\ filed[e] = call[c].version
      /\ call[c].response \in {"accepted", "rejected"} /\ call[c].at \in Busy
    BY HandType DEF IInv, CallInv, Knows, Busy, RecordOutcome
<1>2. AppendOutcome(c, call[c].response) /\ UNCHANGED <<filed, taken, trail>>
    BY DEF RecordOutcome
<1>3. /\ log' \in [Documents -> Seq({"accepted", "rejected", "transport_error"})]
      /\ log'[e] = Append(log[e], call[c].response)
      /\ \A d \in Documents \ {e} : log'[d] = log[d]
      /\ unwritten' = unwritten \ {<<c, e>>}
    BY <1>1, <1>2, AppendType DEF IInv
<1>4. /\ call' \in [Calls -> Call] /\ \A o \in Calls \ {c} : call'[o] = call[o]
      /\ call'[c].at # "answered" /\ Knows(c)'
    <2>1. CASE Goes(c, "logged")
        <3>1. /\ call' \in [Calls -> Call] /\ call'[c] = [call[c] EXCEPT !.at = "logged"]
              /\ \A o \in Calls \ {c} : call'[o] = call[o] /\ InHand(c)' = e
            BY <2>1, GoesTo DEF IInv, CallStep
        <3>2. /\ call'[c].at = "logged" /\ call'[c].left = call[c].left
              /\ call'[c].version = call[c].version
            BY <3>1 DEF IInv, TypeOK, Call
        <3>3. InHand(c)' = e
            BY <3>2 DEF InHand
        <3> QED BY <1>1, <1>2, <3>1, <3>2, <3>3 DEF Knows, Busy
    <2>2. CASE Finish(c)
        <3>1. /\ call' \in [Calls -> Call]
              /\ \A o \in Calls \ {c} : call'[o] = call[o]
              /\ call'[c].at \in {"done", "ready"} /\ call'[c].response = "none"
              /\ call'[c].at = "ready" => call'[c].left # <<>>
              /\ call'[c].version = call[c].version
            BY <1>1, <2>2, FinishTo DEF IInv
        <3> QED BY <1>1, <3>1 DEF Knows, Busy
    <2> QED BY <2>1, <2>2 DEF RecordOutcome
<1>5. TypeOK'
    BY <1>2, <1>3, <1>4 DEF IInv, TypeOK
<1>6. CallInv'
    BY <1>2, <1>4, OthersKnow DEF IInv
<1>7. TruthInv'
    BY <1>1, <1>2, <1>4, <1>5, TruthTold
<1>8. EveryAcceptanceLeavesARow'
    BY <1>3, <1>4, RowAdded
<1> QED BY <1>5, <1>6, <1>7, <1>8 DEF IInv

LEMMA RecordOutcomeFailsStep ==
    ASSUME IInv, NEW c \in Calls, RecordOutcomeFails(c)
    PROVE  IInv'
<1> DEFINE e == InHand(c)
<1>1. call[c].at = "answered" /\ e \in Documents /\ call[c].at \in Busy
      /\ call[c].response \in {"accepted", "rejected"}
    BY HandType DEF IInv, CallInv, Knows, Busy, RecordOutcomeFails
<1>2. CASE UNCHANGED <<log, unwritten>>
    BY <1>1, <1>2, AtStep DEF RecordOutcomeFails, CallStep, Busy, IInv, TypeOK
<1>3. CASE AppendOutcome(c, call[c].response)
    <2>1. /\ log' \in [Documents -> Seq({"accepted", "rejected", "transport_error"})]
          /\ log'[e] = Append(log[e], call[c].response)
          /\ \A d \in Documents \ {e} : log'[d] = log[d]
          /\ unwritten' = unwritten \ {<<c, e>>}
        BY <1>1, <1>3, AppendType DEF IInv
    <2>2. /\ call' \in [Calls -> Call] /\ call'[c] = [call[c] EXCEPT !.at = "caught"]
          /\ \A o \in Calls \ {c} : call'[o] = call[o]
          /\ InHand(c)' = e
        BY GoesTo DEF IInv, CallStep, RecordOutcomeFails
    <2>3. /\ call'[c].at = "caught" /\ call'[c].left = call[c].left
          /\ call'[c].version = call[c].version /\ call'[c].response = call[c].response
        BY <2>2 DEF IInv, TypeOK, Call
    <2>4. TypeOK' /\ UNCHANGED <<filed, taken, trail>>
        BY <2>1, <2>2 DEF IInv, TypeOK, RecordOutcomeFails
    <2>5. CallInv'
        <3>1. Knows(c)'
            BY <1>1, <2>2, <2>3, <2>4 DEF IInv, CallInv, Knows, Busy
        <3> QED BY <2>2, <2>4, <3>1, OthersKnow DEF IInv
    <2>6. TruthInv'
        BY <1>1, <1>3, <2>2, <2>3, <2>4, TruthTold
    <2>7. EveryAcceptanceLeavesARow'
        BY <2>1, <2>2, RowAdded
    <2> QED BY <2>4, <2>5, <2>6, <2>7 DEF IInv
<1> QED BY <1>2, <1>3 DEF RecordOutcomeFails

\* The row of the catch, whatever becomes of the call.
LEMMA FailureRowStep ==
    ASSUME IInv, NEW c \in Calls, call[c].at = "caught",
           AppendOutcome(c, "transport_error"),
           NEW step \in {"noted", "failed", "unrecorded"}, Goes(c, step),
           UNCHANGED <<filed, taken, trail>>
    PROVE  IInv'
<1> DEFINE e == InHand(c)
<1>1. call[c].at = "caught" /\ e \in Documents /\ call[c].at \in Busy
    BY HandType DEF IInv, Busy
<1>3. /\ log' \in [Documents -> Seq({"accepted", "rejected", "transport_error"})]
      /\ log'[e] = Append(log[e], "transport_error")
      /\ \A d \in Documents \ {e} : log'[d] = log[d]
      /\ unwritten' = unwritten \ {<<c, e>>}
    BY <1>1, AppendType DEF IInv
<1>4. /\ call' \in [Calls -> Call] /\ call'[c] = [call[c] EXCEPT !.at = step]
      /\ \A o \in Calls \ {c} : call'[o] = call[o]
      /\ InHand(c)' = e
    BY GoesTo DEF IInv, CallStep
<1>5. /\ call'[c].at = step /\ call'[c].left = call[c].left
      /\ call'[c].version = call[c].version
    BY <1>4 DEF IInv, TypeOK, Call
<1>6. TypeOK' /\ UNCHANGED <<filed, taken, trail>>
    BY <1>3, <1>4 DEF IInv, TypeOK
<1>7. CallInv'
    <2>1. Knows(c)'
        BY <1>1, <1>4, <1>5, <1>6 DEF IInv, CallInv, Knows, Busy
    <2> QED BY <1>4, <1>6, <2>1, OthersKnow DEF IInv
<1>8. TruthInv'
    <2>1. \A d \in Documents : Outbox!Acceptances(log'[d]) = Outbox!Acceptances(log[d])
        <3>1. Outbox!Acceptances(Append(log[e], "transport_error")) = Outbox!Acceptances(log[e])
            BY <1>1, AcceptancesGrow DEF IInv, TypeOK
        <3> QED BY <1>3, <3>1
    <2>2. \A d \in Documents : Len(taken[d]) <= Len(taken'[d])
        BY <1>6 DEF IInv, TypeOK
    <2>3. call'[c].at # "answered"
        BY <1>5
    <2> QED BY <1>4, <1>6, <2>1, <2>2, <2>3, TruthKept
<1>9. EveryAcceptanceLeavesARow'
    BY <1>3, <1>4, RowAdded
<1> QED BY <1>6, <1>7, <1>8, <1>9 DEF IInv

LEMMA RecordFailureStep ==
    ASSUME IInv, NEW c \in Calls, RecordFailure(c)
    PROVE  IInv'
<1>1. PICK step \in {"noted", "failed"} : Goes(c, step)
    BY DEF RecordFailure
<1> QED BY <1>1, FailureRowStep DEF RecordFailure

LEMMA RecordFailureFailsStep ==
    ASSUME IInv, NEW c \in Calls, RecordFailureFails(c)
    PROVE  IInv'
<1>1. CASE AppendOutcome(c, "transport_error")
    BY <1>1, FailureRowStep DEF RecordFailureFails
<1>2. CASE UNCHANGED <<log, unwritten>>
    BY <1>2, AtStep DEF RecordFailureFails, CallStep, Busy, IInv, TypeOK
<1> QED BY <1>1, <1>2 DEF RecordFailureFails

-----------------------------------------------------------------------------
LEMMA NextIInv == IInv /\ [Next]_vars => IInv'
<1> SUFFICES ASSUME IInv, [Next]_vars PROVE IInv'
    OBVIOUS
<1>1. CASE UNCHANGED vars
    <2>1. TypeOK' /\ CallInv'
        BY <1>1 DEF vars, IInv, TypeOK, CallInv, Knows, InHand
    <2>2. TruthInv'
        BY <1>1 DEF vars, IInv, TruthInv, Tellers, Telling, InHand
    <2>3. EveryAcceptanceLeavesARow'
        BY <1>1 DEF vars, IInv, EveryAcceptanceLeavesARow, InHand
    <2> QED BY <2>1, <2>2, <2>3 DEF IInv
<1>2. CASE Next
    BY <1>2, GenerateStep, SaveStep, RefuseStep, AuditGeneratedStep, SubmitStep,
        RecordOutcomeStep, RecordOutcomeFailsStep, AuditDispatchedStep,
        AuditDispatchedFailsStep, RecordFailureStep, RecordFailureFailsStep,
        AuditFailureStep, ThrowStep, DieUnderStep DEF Next
<1> QED BY <1>1, <1>2

LEMMA Invariance == Spec => []IInv
<1> QED BY InitIInv, NextIInv, PTL DEF Spec

\* Every variable keeps its type, whatever fails or stops.
THEOREM TypeCorrectness == Spec => []TypeOK
<1>1. IInv => TypeOK
    BY DEF IInv
<1> QED BY Invariance, <1>1, PTL

\* However calls interleave, fail and stop, every acceptance of a document gets a row of
\* its own: the call that has it in hand is about to write one, or its process died, or
\* the append of its catch failed too.
THEOREM AcceptancesLeaveRows == Spec => []EveryAcceptanceLeavesARow
<1>1. IInv => EveryAcceptanceLeavesARow
    BY DEF IInv
<1> QED BY Invariance, <1>1, PTL

-----------------------------------------------------------------------------
(* The steps of a call as steps of the outbox. *)

LEMMA SaveFiles ==
    ASSUME IInv, NEW c \in Calls, Save(c)
    PROVE  [Outbox!Next]_Outbox!vars
<1>1. call[c].at \in Busy /\ InHand(c) \in Documents /\ call[c].version \in Versions
    BY HandType DEF Save, IInv, CallInv, Knows, Busy
<1>2. CASE filed[InHand(c)] = None
    <2>1. Outbox!File(InHand(c), call[c].version)
        BY <1>2 DEF Save, SaveById, Outbox!File
    <2> QED BY <1>1, <2>1 DEF Outbox!Next
<1>3. CASE filed[InHand(c)] # None
    BY <1>3 DEF Save, SaveById, Outbox!vars
<1> QED BY <1>2, <1>3

LEMMA SubmitTakes ==
    ASSUME IInv, NEW c \in Calls, Submit(c)
    PROVE  [Outbox!Next]_Outbox!vars
<1>1. /\ InHand(c) \in Documents /\ filed[InHand(c)] = call[c].version
      /\ call[c].version # None
    BY HandType, EvidenceAssumption DEF Submit, IInv, CallInv, Knows, Busy
<1>2. CASE taken' = [taken EXCEPT ![InHand(c)] = Append(@, call[c].version)]
    <2>1. Outbox!Take(InHand(c))
        BY <1>1, <1>2 DEF Submit, Outbox!Take
    <2> QED BY <1>1, <2>1 DEF Outbox!Next
<1>3. CASE taken' = taken
    BY <1>3 DEF Submit, Outbox!vars
<1> QED BY <1>2, <1>3 DEF Submit

\* What a row says was accepted, was: the call that writes it counts among the tellers.
LEMMA RowTells ==
    ASSUME IInv, NEW c \in Calls, call[c].at \in Busy \ {"ready"},
           NEW outcome \in {"accepted", "rejected", "transport_error"},
           outcome = "accepted" => call[c].at = "answered" /\ call[c].response = "accepted",
           AppendOutcome(c, outcome), UNCHANGED <<filed, taken>>
    PROVE  Outbox!Next
<1> DEFINE d == InHand(c)
<1>1. d \in Documents /\ filed[d] # None
    BY HandType, EvidenceAssumption DEF IInv, CallInv, Knows
<1>2. ASSUME outcome = "accepted" PROVE Outbox!Acceptances(log[d]) < Len(taken[d])
    <2>1. c \in Tellers(d)
        BY <1>2 DEF Tellers, Telling
    <2>2. Cardinality({}) + 1 <= Cardinality(Tellers(d))
        BY <2>1, TellersFinite, OneLess, FS_EmptySet
    <2>3. Outbox!Acceptances(log[d]) + Cardinality(Tellers(d)) <= Len(taken[d])
        BY <1>1 DEF IInv, TruthInv
    <2>4. Outbox!Acceptances(log[d]) \in Nat /\ Len(taken[d]) \in Nat
        <3>1. log[d] \in Seq({"accepted", "rejected", "transport_error"})
            BY <1>1 DEF IInv, TypeOK
        <3>2. Outbox!Acceptances(log[d]) \in Nat
            BY <3>1, AcceptancesGrow
        <3>3. Len(taken[d]) \in Nat
            BY <1>1 DEF IInv, TypeOK
        <3> QED BY <3>2, <3>3
    <2> QED BY <2>2, <2>3, <2>4, TellersFinite, FS_EmptySet
<1>3. Outbox!Tell(d, outcome)
    BY <1>1, <1>2 DEF AppendOutcome, Outbox!Tell
<1> QED BY <1>1, <1>3 DEF Outbox!Next, Outbox!Outcome

LEMMA StepRefines ==
    ASSUME IInv, [Next]_vars
    PROVE  [Outbox!Next]_Outbox!vars
<1>1. CASE UNCHANGED vars
    BY <1>1 DEF vars, Outbox!vars
<1> SUFFICES ASSUME NEW c \in Calls,
                    \/ \E work \in Works, v \in Versions : Generate(c, work, v)
                    \/ Save(c) \/ Refuse(c) \/ AuditGenerated(c) \/ Submit(c)
                    \/ RecordOutcome(c) \/ RecordOutcomeFails(c)
                    \/ AuditDispatched(c) \/ AuditDispatchedFails(c)
                    \/ RecordFailure(c) \/ RecordFailureFails(c) \/ AuditFailure(c)
                    \/ Throw(c) \/ DieUnder(c)
             PROVE  [Outbox!Next]_Outbox!vars
    BY <1>1 DEF Next
<1>2. CASE Save(c)
    BY <1>2, SaveFiles
<1>3. CASE Submit(c)
    BY <1>3, SubmitTakes
<1>4. CASE RecordOutcome(c) \/ RecordOutcomeFails(c)
    <2>1. call[c].at = "answered" /\ call[c].response \in {"accepted", "rejected"}
              /\ UNCHANGED <<filed, taken>>
        BY <1>4 DEF RecordOutcome, RecordOutcomeFails, IInv, CallInv, Knows
    <2>2. CASE AppendOutcome(c, call[c].response)
        BY <2>1, <2>2, RowTells DEF Busy
    <2>3. CASE UNCHANGED log
        BY <2>1, <2>3 DEF Outbox!vars
    <2> QED BY <1>4, <2>2, <2>3 DEF RecordOutcome, RecordOutcomeFails
<1>5. CASE RecordFailure(c) \/ RecordFailureFails(c)
    <2>1. call[c].at = "caught" /\ UNCHANGED <<filed, taken>>
        BY <1>5 DEF RecordFailure, RecordFailureFails
    <2>2. CASE AppendOutcome(c, "transport_error")
        BY <2>1, <2>2, RowTells DEF Busy
    <2>3. CASE UNCHANGED log
        BY <2>1, <2>3 DEF Outbox!vars
    <2> QED BY <1>5, <2>2, <2>3 DEF RecordFailure, RecordFailureFails
<1>6. CASE \/ \E work \in Works, v \in Versions : Generate(c, work, v)
           \/ Refuse(c) \/ AuditGenerated(c) \/ AuditDispatched(c)
           \/ AuditDispatchedFails(c) \/ AuditFailure(c) \/ Throw(c) \/ DieUnder(c)
    BY <1>6 DEF Generate, Refuse, AuditGenerated, AuditDispatched, AuditDispatchedFails,
        AuditFailure, Throw, DieUnder, Outbox!vars
<1> QED BY <1>2, <1>3, <1>4, <1>5, <1>6

\* The evidence keeps the promise of the outbox: a document's bytes are filed once, the
\* partner gets those and no others, and no row tells of an acceptance there was not.
THEOREM EvidenceKeepsItsPromise == Spec => ImplementsOutbox
<1>1. Init => Outbox!Init
    BY DEF Init, Outbox!Init
<1> QED BY <1>1, Invariance, StepRefines, PTL DEF Spec, ImplementsOutbox, Outbox!Spec

-----------------------------------------------------------------------------
(* The rate-card watch.  The inductive invariant: an id that is on file,   *)
(* or about to be, is that of a ticket P3 holds, and a review is notified  *)
(* when both are on file.                                                  *)

MissingInv ==
    \A n \in Ids :
        /\ \A team \in Teams \ reviews[n].missing : <<n, team>> \in tickets
        /\ reviews[n].status = "notified" => reviews[n].missing = {}

\* What a run has in hand.
Carries(w) ==
    /\ run[w].at = "ticketed" =>
           /\ run[w].review \in Ids /\ run[w].team \in Teams
           /\ <<run[w].review, run[w].team>> \in tickets
    /\ run[w].at \in {"fetched", "compared"} =>
           run[w].source \in Sources /\ run[w].content \in Contents
    /\ run[w].at \in {"inserted", "filed"} => run[w].current \in Ids

RunInv == \A w \in Runs : Carries(w)

WatchIInv == WatchTypeOK /\ MissingInv /\ RunInv

LEMMA WatchInitIInv == WatchInit => WatchIInv
<1> SUFFICES ASSUME WatchInit PROVE WatchIInv
    OBVIOUS
<1>1. IdleRun \in Run /\ IdleRun.at = "idle"
    BY DEF IdleRun, NothingToDo, Run, Step
<1>2. NoReview \in Review /\ NoReview.missing = Teams /\ NoReview.status = "none"
    BY DEF NoReview, Review
<1>3. snapshots \in Seq(Snapshot) /\ Len(snapshots) <= MaxSnapshots
    BY RateCardAssumption DEF WatchInit
<1>4. WatchTypeOK
    BY <1>1, <1>2, <1>3 DEF WatchInit, WatchTypeOK
<1>5. MissingInv
    BY <1>2 DEF WatchInit, MissingInv
<1>6. RunInv
    BY <1>1 DEF WatchInit, RunInv, Carries
<1> QED BY <1>4, <1>5, <1>6 DEF WatchIInv

-----------------------------------------------------------------------------
(* One step of one run. *)

\* A step of w to the locals k, with no effect on the reviews.
LEMMA RunStep ==
    ASSUME WatchIInv, NEW w \in Runs, NEW k \in Run, SetRun(w, k),
           UNCHANGED outside, reviews' = reviews, tickets \subseteq tickets',
           cardOf' \in [VersionIds -> Cards \cup {Nothing}],
           tickets' \subseteq Ids \X Teams,
           snapshots' \in Seq(Snapshot), Len(snapshots') <= MaxSnapshots,
           latest' \in [Sources -> Ids \cup {Nothing}],
           k.at = "ticketed" => /\ k.review \in Ids /\ k.team \in Teams
                                /\ <<k.review, k.team>> \in tickets',
           k.at \in {"fetched", "compared"} => k.source \in Sources /\ k.content \in Contents,
           k.at \in {"inserted", "filed"} => k.current \in Ids
    PROVE  WatchIInv'
<1>1. run' \in [Runs -> Run] /\ run'[w] = k /\ \A o \in Runs \ {w} : run'[o] = run[o]
    BY DEF SetRun, WatchIInv, WatchTypeOK
<1>2. WatchTypeOK'
    BY <1>1 DEF outside, WatchIInv, WatchTypeOK
<1>3. MissingInv'
    BY DEF WatchIInv, MissingInv
<1>4. RunInv'
    BY <1>1 DEF WatchIInv, RunInv, Carries
<1> QED BY <1>2, <1>3, <1>4 DEF WatchIInv

\* The same, for the steps that touch nothing but the locals.
LEMMA LocalStep ==
    ASSUME WatchIInv, NEW w \in Runs, NEW k \in Run, SetRun(w, k),
           UNCHANGED <<outside, tables, tickets>>,
           k.at # "ticketed",
           k.at \in {"fetched", "compared"} => k.source \in Sources /\ k.content \in Contents,
           k.at \in {"inserted", "filed"} => k.current \in Ids
    PROVE  WatchIInv'
BY RunStep DEF tables, WatchIInv, WatchTypeOK

LEMMA NextSourceStep ==
    ASSUME WatchIInv, NEW w \in Runs
    PROVE  LET k == [IdleRun EXCEPT !.at = "next", !.left = run[w].left]
           IN  k \in Run /\ k.at = "next"
BY DEF WatchIInv, WatchTypeOK, IdleRun, NothingToDo, Run, Step

LEMMA GoesStep ==
    ASSUME WatchIInv, NEW w \in Runs, NEW step \in Step
    PROVE  LET k == [run[w] EXCEPT !.at = step]
           IN  /\ k \in Run /\ k.at = step /\ k.current = run[w].current
               /\ k.source = run[w].source /\ k.content = run[w].content
BY DEF WatchIInv, WatchTypeOK, Run

LEMMA ResumeStep ==
    ASSUME WatchIInv, NEW w \in Runs
    PROVE  LET k == [run[w] EXCEPT !.at = IF run[w].source = Nothing THEN "sweep" ELSE "notify",
                                   !.review = Nothing, !.team = Nothing]
           IN  k \in Run /\ k.at \in {"sweep", "notify"}
<1>1. PICK step : step = IF run[w].source = Nothing THEN "sweep" ELSE "notify"
    OBVIOUS
<1>2. step \in {"sweep", "notify"} /\ step \in Step
    BY <1>1 DEF Step
<1>3. run[w] \in Run
    BY DEF WatchIInv, WatchTypeOK
<1>4. LET k == [run[w] EXCEPT !.at = step, !.review = Nothing, !.team = Nothing]
      IN  k \in Run /\ k.at = step
    BY <1>2, <1>3 DEF Run
<1> QED BY <1>1, <1>2, <1>4

LEMMA StartStep ==
    ASSUME WatchIInv, NEW w \in Runs, Start(w)
    PROVE  WatchIInv'
<1> DEFINE k == [IdleRun EXCEPT !.at = "sweep", !.left = Sources, !.todo = AwaitingNotification]
<1>1. AwaitingNotification \in [Ids -> SUBSET Teams]
    BY DEF AwaitingNotification, WatchIInv, WatchTypeOK, Review
<1>2. k \in Run /\ k.at = "sweep"
    BY <1>1 DEF IdleRun, NothingToDo, Run, Step
<1> HIDE DEF k
<1>3. SetRun(w, k)
    BY DEF Start, k
<1>4. /\ cardOf' \in [VersionIds -> Cards \cup {Nothing}]
      /\ UNCHANGED <<outside, snapshots, latest, reviews, tickets>>
    BY RateCardAssumption DEF Start, EnsureVersion, WatchIInv, WatchTypeOK
<1> QED BY <1>2, <1>3, <1>4, RunStep DEF WatchIInv, WatchTypeOK

LEMMA IdleStep ==
    ASSUME WatchIInv, NEW w \in Runs, Die(w) \/ FinishRun(w)
    PROVE  WatchIInv'
<1>1. IdleRun \in Run /\ IdleRun.at = "idle"
    BY DEF IdleRun, NothingToDo, Run, Step
<1> QED BY <1>1, LocalStep DEF Die, FinishRun

LEMMA OnwardStep ==
    ASSUME WatchIInv, NEW w \in Runs, Notified(w) \/ SourceFails(w)
    PROVE  WatchIInv'
<1> DEFINE k == [IdleRun EXCEPT !.at = "next", !.left = run[w].left]
<1>1. k \in Run /\ k.at = "next"
    BY NextSourceStep
<1>2. SetRun(w, k) /\ UNCHANGED <<outside, tables, tickets>>
    BY DEF Notified, SourceFails, NextSource
<1> HIDE DEF k
<1> QED BY <1>1, <1>2, LocalStep

\* A ticket, or the loss of its answer.
LEMMA TicketStep ==
    ASSUME WatchIInv, NEW w \in Runs, NEW n \in Ids, TakeTicket(w, n) \/ LoseTicket(w, n)
    PROVE  WatchIInv'
<1> DEFINE team == Recipient(run[w].todo[n])
<1>1. PICK step \in {"ticketed", "failing"} :
          /\ TicketInHand(w, n, step)
          /\ tickets \subseteq tickets' /\ tickets' \subseteq tickets \cup {<<n, team>>}
          /\ step = "ticketed" => <<n, team>> \in tickets'
          /\ UNCHANGED <<outside, tables>>
    BY DEF TakeTicket, LoseTicket
<1>2. team \in Teams
    BY DEF Recipient, Teams
<1> DEFINE rest == [run[w].todo EXCEPT ![n] = @ \ {team}]
           k == [run[w] EXCEPT !.at = step, !.review = n, !.team = team, !.todo = rest]
<1>3. k \in Run /\ k.at = step /\ k.review = n /\ k.team = team
    <2>1. rest \in [Ids -> SUBSET Teams] /\ run[w] \in Run /\ step \in Step
        BY DEF WatchIInv, WatchTypeOK, Run, Step
    <2> HIDE DEF rest, team
    <2> QED BY <1>2, <2>1 DEF Run
<1>4. SetRun(w, k)
    BY <1>1 DEF TicketInHand
<1> HIDE DEF k
<1>5. tickets' \subseteq Ids \X Teams
    BY <1>1, <1>2 DEF WatchIInv, WatchTypeOK
<1> QED BY <1>1, <1>2, <1>3, <1>4, <1>5, RunStep DEF tables, WatchIInv, WatchTypeOK

LEMMA MarkNotifiedStep ==
    ASSUME WatchIInv, NEW w \in Runs, MarkNotified(w)
    PROVE  WatchIInv'
<1> DEFINE n == run[w].review
           missing == reviews[n].missing \ {run[w].team}
           v == [status |-> StatusOf(w, n, missing), missing |-> missing]
           k == [run[w] EXCEPT !.at = IF run[w].source = Nothing THEN "sweep" ELSE "notify",
                               !.review = Nothing, !.team = Nothing]
<1>1. /\ n \in Ids /\ run[w].team \in Teams /\ <<n, run[w].team>> \in tickets
    BY DEF MarkNotified, WatchIInv, RunInv, Carries
<1>2. v \in Review /\ v.missing = missing /\ (v.status = "notified" => missing = {})
    BY <1>1 DEF StatusOf, Review, WatchIInv, WatchTypeOK
<1>3. k \in Run /\ k.at \in {"sweep", "notify"}
    BY ResumeStep
<1>4. /\ reviews' = [reviews EXCEPT ![n] = v] /\ SetRun(w, k)
      /\ UNCHANGED <<outside, cardOf, snapshots, latest, tickets>>
    BY DEF MarkNotified, Resume
<1> HIDE DEF v, k
<1>5. /\ reviews' \in [Ids -> Review] /\ reviews'[n] = v
      /\ \A o \in Ids \ {n} : reviews'[o] = reviews[o]
    BY <1>1, <1>2, <1>4 DEF WatchIInv, WatchTypeOK
<1>6. run' \in [Runs -> Run] /\ run'[w] = k /\ \A o \in Runs \ {w} : run'[o] = run[o]
    BY <1>3, <1>4 DEF SetRun, WatchIInv, WatchTypeOK
<1>7. WatchTypeOK'
    BY <1>4, <1>5, <1>6 DEF outside, WatchIInv, WatchTypeOK
<1>8. MissingInv'
    BY <1>1, <1>2, <1>4, <1>5 DEF WatchIInv, MissingInv
<1>9. RunInv'
    BY <1>3, <1>4, <1>6 DEF WatchIInv, RunInv, Carries
<1> QED BY <1>7, <1>8, <1>9 DEF WatchIInv

LEMMA MarkFailsStep ==
    ASSUME WatchIInv, NEW w \in Runs, MarkFails(w)
    PROVE  WatchIInv'
<1> DEFINE k == [run[w] EXCEPT !.at = "failing"]
<1>1. k \in Run /\ k.at = "failing"
    BY GoesStep DEF Step
<1>2. SetRun(w, k) /\ UNCHANGED <<outside, tables, tickets>>
    BY DEF MarkFails, RunGoes
<1> HIDE DEF k
<1> QED BY <1>1, <1>2, LocalStep

LEMMA AuditSourceFailureStep ==
    ASSUME WatchIInv, NEW w \in Runs, AuditSourceFailure(w)
    PROVE  WatchIInv'
<1> DEFINE k == [run[w] EXCEPT !.at = IF run[w].source = Nothing THEN "sweep" ELSE "notify",
                               !.review = Nothing, !.team = Nothing]
<1>1. k \in Run /\ k.at \in {"sweep", "notify"}
    BY ResumeStep
<1>2. SetRun(w, k) /\ UNCHANGED <<outside, tables, tickets>>
    BY DEF AuditSourceFailure, Resume
<1> HIDE DEF k
<1> QED BY <1>1, <1>2, LocalStep

LEMMA FetchStep ==
    ASSUME WatchIInv, NEW w \in Runs, NEW s \in Sources, Fetch(w, s)
    PROVE  WatchIInv'
<1> DEFINE k == [run[w] EXCEPT !.at = "fetched", !.left = @ \ {s}, !.source = s,
                               !.content = web[s], !.base = latest[s]]
<1>1. k \in Run /\ k.at = "fetched" /\ k.source = s /\ k.content \in Contents
    BY DEF WatchIInv, WatchTypeOK, Run, Step
<1>2. SetRun(w, k) /\ UNCHANGED <<outside, tables, tickets>>
    BY DEF Fetch
<1> HIDE DEF k
<1> QED BY <1>1, <1>2, LocalStep

LEMMA CompareStep ==
    ASSUME WatchIInv, NEW w \in Runs, Compare(w)
    PROVE  WatchIInv'
<1>1. /\ run[w].source \in Sources /\ run[w].content \in Contents
      /\ latest[run[w].source] \in Ids \cup {Nothing}
      /\ UNCHANGED <<outside, tables, tickets>>
    BY DEF Compare, WatchIInv, WatchTypeOK, RunInv, Carries
<1> DEFINE n == latest[run[w].source]
           onward == [IdleRun EXCEPT !.at = "next", !.left = run[w].left]
           changed == [run[w] EXCEPT !.at = "compared", !.previous = n]
<1>2. onward \in Run /\ onward.at = "next"
    BY NextSourceStep
<1>3. /\ changed \in Run /\ changed.at = "compared"
      /\ changed.source = run[w].source /\ changed.content = run[w].content
    BY <1>1 DEF WatchIInv, WatchTypeOK, Run, Step
<1>4. SetRun(w, onward) \/ SetRun(w, changed)
    BY DEF Compare, NextSource
<1> HIDE DEF onward, changed
<1> QED BY <1>1, <1>2, <1>3, <1>4, LocalStep

LEMMA InsertStep ==
    ASSUME WatchIInv, NEW w \in Runs, Insert(w)
    PROVE  WatchIInv'
<1> DEFINE s == run[w].source
           n == Len(snapshots) + 1
           row == [source |-> s, content |-> run[w].content, previous |-> run[w].previous]
           onward == [IdleRun EXCEPT !.at = "next", !.left = run[w].left]
           changed == [run[w] EXCEPT !.at = "inserted", !.current = n]
<1>1. s \in Sources /\ run[w].content \in Contents /\ n \in Ids
      /\ UNCHANGED <<outside, cardOf, reviews, tickets>> /\ snapshots' = Append(snapshots, row)
    BY DEF Insert, WatchIInv, RunInv, Carries
<1>2. row \in Snapshot
    BY <1>1 DEF Snapshot, WatchIInv, WatchTypeOK, Run
<1>3. snapshots' \in Seq(Snapshot) /\ Len(snapshots') <= MaxSnapshots
    <2> HIDE DEF row
    <2> QED BY <1>1, <1>2, RateCardAssumption DEF WatchIInv, WatchTypeOK, Ids
<1>4. latest' \in [Sources -> Ids \cup {Nothing}]
    BY <1>1 DEF Insert, WatchIInv, WatchTypeOK
<1>5. onward \in Run /\ onward.at = "next"
    BY NextSourceStep
<1>6. changed \in Run /\ changed.at = "inserted" /\ changed.current = n
    BY <1>1 DEF WatchIInv, WatchTypeOK, Run, Step
<1>7. SetRun(w, onward) \/ SetRun(w, changed)
    BY DEF Insert, NextSource
<1> HIDE DEF onward, changed
<1> QED BY <1>1, <1>3, <1>4, <1>5, <1>6, <1>7, RunStep DEF WatchIInv, WatchTypeOK

LEMMA FileReviewStep ==
    ASSUME WatchIInv, NEW w \in Runs, FileReview(w)
    PROVE  WatchIInv'
<1> DEFINE n == run[w].current
           k == [run[w] EXCEPT !.at = "filed"]
<1>1. n \in Ids /\ UNCHANGED <<outside, cardOf, snapshots, latest, tickets>>
    BY DEF FileReview, WatchIInv, RunInv, Carries
<1>2. k \in Run /\ k.at = "filed" /\ k.current = n
    BY GoesStep DEF Step
<1>3. reviews' = [reviews EXCEPT ![n].status = "notification_pending"] /\ SetRun(w, k)
    BY DEF FileReview, RunGoes
<1> HIDE DEF k
<1>4. /\ reviews' \in [Ids -> Review] /\ reviews'[n].status = "notification_pending"
      /\ reviews'[n].missing = reviews[n].missing
      /\ \A o \in Ids \ {n} : reviews'[o] = reviews[o]
    BY <1>1, <1>3 DEF WatchIInv, WatchTypeOK, Review
<1>5. run' \in [Runs -> Run] /\ run'[w] = k /\ \A o \in Runs \ {w} : run'[o] = run[o]
    BY <1>2, <1>3 DEF SetRun, WatchIInv, WatchTypeOK
<1>6. WatchTypeOK'
    BY <1>1, <1>4, <1>5 DEF outside, WatchIInv, WatchTypeOK
<1>7. MissingInv'
    BY <1>1, <1>4 DEF WatchIInv, MissingInv
<1>8. RunInv'
    BY <1>1, <1>2, <1>5 DEF WatchIInv, RunInv, Carries
<1> QED BY <1>6, <1>7, <1>8 DEF WatchIInv

LEMMA AuditChangeStep ==
    ASSUME WatchIInv, NEW w \in Runs, AuditChange(w)
    PROVE  WatchIInv'
<1> DEFINE todo == [run[w].todo EXCEPT ![run[w].current] = Teams]
           k == [run[w] EXCEPT !.at = "notify", !.todo = todo]
<1>1. k \in Run /\ k.at = "notify"
    <2>1. todo \in [Ids -> SUBSET Teams] /\ run[w] \in Run
        BY DEF WatchIInv, WatchTypeOK, Run
    <2> HIDE DEF todo
    <2> QED BY <2>1 DEF Run, Step
<1>2. SetRun(w, k) /\ UNCHANGED <<outside, tables, tickets>>
    BY DEF AuditChange
<1> HIDE DEF k
<1> QED BY <1>1, <1>2, LocalStep

LEMMA EditStep ==
    ASSUME WatchIInv, \/ \E s \in Sources : Edit(s)
                      \/ \E k \in Cards : Configure(k)
    PROVE  WatchIInv'
<1>1. /\ UNCHANGED <<cardOf, snapshots, latest, reviews, tickets, run>>
      /\ web' \in [Sources -> Contents] /\ card' \in Cards
    BY DEF Edit, Configure, tables, WatchIInv, WatchTypeOK
<1> QED BY <1>1 DEF WatchIInv, WatchTypeOK, MissingInv, RunInv, Carries

-----------------------------------------------------------------------------
LEMMA WatchNextIInv == WatchIInv /\ [WatchNext]_watchVars => WatchIInv'
<1> SUFFICES ASSUME WatchIInv, [WatchNext]_watchVars PROVE WatchIInv'
    OBVIOUS
<1>1. CASE UNCHANGED watchVars
    BY <1>1 DEF watchVars, outside, tables, WatchIInv, WatchTypeOK, MissingInv, RunInv, Carries
<1>2. ASSUME NEW w \in Runs, Proceed(w) PROVE WatchIInv'
    BY <1>2, OnwardStep, MarkNotifiedStep, MarkFailsStep, AuditSourceFailureStep, CompareStep,
        InsertStep, FileReviewStep, AuditChangeStep, IdleStep, FetchStep, TicketStep DEF Proceed
<1> QED BY <1>1, <1>2, EditStep, StartStep, IdleStep DEF WatchNext

LEMMA WatchInvariance == WatchSpec => []WatchIInv
<1> QED BY WatchInitIInv, WatchNextIInv, PTL DEF WatchSpec

\* Every variable keeps its type, however runs overlap, fail and die.
THEOREM WatchTypeCorrectness == WatchSpec => []WatchTypeOK
<1>1. WatchIInv => WatchTypeOK
    BY DEF WatchIInv
<1> QED BY WatchInvariance, <1>1, PTL

\* However many runs notify one review at once, with copies of it of whatever age, P3 holds
\* a ticket for both teams by the time the row says notified.
THEOREM NotifiedWasHeard == WatchSpec => []NotifiedIsHeard
<1>1. WatchIInv => NotifiedIsHeard
    BY DEF WatchIInv, MissingInv, NotifiedIsHeard
<1> QED BY WatchInvariance, <1>1, PTL
-----------------------------------------------------------------------------
(* The ingest of metering.  The inductive invariant. *)

\* What a month was ever seen as: a run on file, and what a call has read of it and may
\* still save.
Readers == {c \in Ingests : ingest[c].at = "read"}
Reading(c) == [month |-> NextMonth(c), facts |-> ingest[c].seen]
Views == runs \cup {Reading(c) : c \in Readers}

\* The views of one month grow with the store: of two, one holds the other, and neither
\* holds what is not stored.
ViewInv ==
    /\ \A v \in Views : v.facts \subseteq OfMonth(events, v.month)
    /\ \A v, w \in Views :
           v.month = w.month => v.facts \subseteq w.facts \/ w.facts \subseteq v.facts

\* So the runs of a month, if there are any, have a greatest one.
Greatest(all) == \A r \in runs : r.month = all.month => r.facts \subseteq all.facts
GreatestInv == \A r \in runs : \E all \in runs : all.month = r.month /\ Greatest(all)

\* A call has stored what it was given before it reads; the months it is done with have
\* a run that holds its facts; and it is done with all of them when it answers.
RunHolds(m, F) == \E r \in runs : r.month = m /\ OfMonth(F, m) \subseteq r.facts
Keeps(c) ==
    /\ ingest[c].at = "given" => ingest[c].left = MonthsOf(ingest[c].batch)
    /\ ingest[c].at \in {"given", "stored", "read"} => ingest[c].left # {}
    /\ ingest[c].at \in {"stored", "read", "answered"} =>
           /\ ingest[c].batch \subseteq events
           /\ \A m \in MonthsOf(ingest[c].batch) \ ingest[c].left : RunHolds(m, ingest[c].batch)
    /\ ingest[c].at = "read" =>
           OfMonth(ingest[c].batch, NextMonth(c)) \subseteq ingest[c].seen
    /\ ingest[c].at = "answered" => ingest[c].left = {}
KeepInv == \A c \in Ingests : Keeps(c)

IngestIInv == IngestTypeOK /\ ViewInv /\ GreatestInv /\ KeepInv

\* A fact has its month.
LEMMA MonthIsNat ==
    ASSUME NEW e \in Facts
    PROVE  Month(e) \in Nat
<1>1. e.at \in Nat /\ MonthLength \in Nat \ {0}
    BY IngestAssumption, MeteringAssumption DEF Fact
<1> QED BY <1>1 DEF Month

\* Months that are left have a first one among them.
LEMMA FirstIsLeft ==
    ASSUME NEW left \in SUBSET MonthsOf(Facts), left # {}
    PROVE  Min(left) \in left
<1>1. left \subseteq Nat
    BY MonthIsNat DEF MonthsOf
<1>2. PICK a \in left : \A b \in left : ~ (<<b, a>> \in OpToRel(<, Nat))
    BY <1>1, WFMin, NatLessThanWellFounded
<1>3. \A i, j \in Nat : i < j => <<i, j>> \in OpToRel(<, Nat)
    BY Zenon DEF OpToRel
<1>4. \A b \in left : ~ (b < a)
    BY <1>1, <1>2, <1>3, Zenon
<1>5. \A b \in left : a =< b
    BY <1>1, <1>4
<1> QED BY <1>5 DEF Min

LEMMA NextIsLeft ==
    ASSUME IngestTypeOK, NEW c \in Ingests, ingest[c].left # {}
    PROVE  NextMonth(c) \in ingest[c].left
BY FirstIsLeft DEF NextMonth, IngestTypeOK, Ingest

\* A batch that is delivered is of facts, and of one at least.
LEMMA BatchIsOfFacts ==
    ASSUME NEW batch \in Batches
    PROVE  /\ batch \subseteq Facts /\ MonthsOf(batch) \subseteq MonthsOf(Facts)
           /\ MonthsOf(batch) # {} /\ IsFiniteSet(batch)
BY IngestAssumption DEF MonthsOf

\* A change of one call that takes nothing from the store leaves the others as they were.
LEMMA OthersKeep ==
    ASSUME IngestIInv, NEW c \in Ingests, NEW i \in Ingest,
           ingest' = [ingest EXCEPT ![c] = i],
           events \subseteq events', runs \subseteq runs'
    PROVE  /\ \A d \in Ingests \ {c} : ingest'[d] = ingest[d] /\ Keeps(d)'
           /\ ingest' \in [Ingests -> Ingest] /\ ingest'[c] = i
<1>1. \A d \in Ingests \ {c} : ingest'[d] = ingest[d]
    BY DEF IngestIInv, IngestTypeOK
<1>2. ingest' \in [Ingests -> Ingest] /\ ingest'[c] = i
    BY DEF IngestIInv, IngestTypeOK
<1>3. ASSUME NEW d \in Ingests \ {c} PROVE Keeps(d)'
    <2>1. Keeps(d) /\ ingest'[d] = ingest[d]
        BY <1>1 DEF IngestIInv, KeepInv
    <2>2. PICK F : F = ingest[d].batch
        OBVIOUS
    <2>3. NextMonth(d)' = NextMonth(d)
        BY <2>1 DEF NextMonth
    <2>4. ASSUME ingest[d].at \in {"stored", "read", "answered"}
          PROVE  /\ F \subseteq events'
                 /\ \A m \in MonthsOf(F) \ ingest[d].left : RunHolds(m, F)'
        BY <2>1, <2>2, <2>4 DEF Keeps, RunHolds
    <2>5. ingest'[d].batch = F
        BY <2>1, <2>2
    <2> QED BY <2>1, <2>2, <2>3, <2>4, <2>5 DEF Keeps
<1> QED BY <1>1, <1>2, <1>3

\* No view is new: the store may have grown.
LEMMA ViewsStay ==
    ASSUME IngestIInv, Views' \subseteq Views, events \subseteq events'
    PROVE  ViewInv'
<1>1. \A m : OfMonth(events, m) \subseteq OfMonth(events', m)
    BY DEF OfMonth
<1>2. \A v \in Views' : v.facts \subseteq OfMonth(events', v.month)
    BY <1>1 DEF IngestIInv, ViewInv
<1> QED BY <1>2 DEF IngestIInv, ViewInv

LEMMA FewerReaders ==
    ASSUME IngestIInv, NEW c \in Ingests, NEW i \in Ingest, i.at # "read",
           ingest' = [ingest EXCEPT ![c] = i], runs' = runs
    PROVE  Views' \subseteq Views
<1>1. \A d \in Ingests \ {c} : ingest'[d] = ingest[d]
    BY DEF IngestIInv, IngestTypeOK
<1>2. ingest'[c] = i
    BY DEF IngestIInv, IngestTypeOK
<1>3. ASSUME NEW d \in Readers' PROVE Reading(d)' \in Views
    <2>1. d \in Readers /\ ingest'[d] = ingest[d]
        BY <1>1, <1>2, <1>3 DEF Readers
    <2> QED BY <2>1 DEF Reading, NextMonth, Views
<1> QED BY <1>3 DEF Views

\* A call that does not read and keeps its word leaves the invariant as it is.
LEMMA CallMoves ==
    ASSUME IngestIInv, NEW c \in Ingests, NEW i \in Ingest, i.at # "read",
           ingest' = [ingest EXCEPT ![c] = i], Keeps(c)',
           events \subseteq events', events' \subseteq Facts, runs' = runs
    PROVE  IngestIInv'
<1>1. KeepInv' /\ ingest' \in [Ingests -> Ingest]
    BY OthersKeep DEF KeepInv
<1>2. ViewInv'
    BY FewerReaders, ViewsStay
<1>3. GreatestInv'
    BY DEF IngestIInv, GreatestInv, Greatest
<1>4. IngestTypeOK'
    BY <1>1 DEF IngestIInv, IngestTypeOK
<1> QED BY <1>1, <1>2, <1>3, <1>4 DEF IngestIInv

LEMMA LoseStep ==
    ASSUME IngestIInv, NEW c \in Ingests, Lose(c), UNCHANGED <<events, runs>>
    PROVE  IngestIInv'
<1>1. PICK i : i = [at |-> "failed", batch |-> {}, left |-> {}, seen |-> {}]
    OBVIOUS
<1>2. i \in Ingest /\ i.at = "failed"
    BY <1>1 DEF Ingest, IngestStep
<1>3. ingest' = [ingest EXCEPT ![c] = i]
    BY <1>1 DEF Lose
<1>4. ingest'[c] = i
    BY <1>3 DEF IngestIInv, IngestTypeOK
<1>5. Keeps(c)'
    BY <1>2, <1>4 DEF Keeps
<1> QED BY <1>2, <1>3, <1>5, CallMoves DEF IngestIInv, IngestTypeOK

LEMMA DeliverStep ==
    ASSUME IngestIInv, NEW c \in Ingests, NEW batch \in Batches, Deliver(c, batch)
    PROVE  IngestIInv'
<1>1. PICK i : i = [at |-> "given", batch |-> batch, left |-> MonthsOf(batch), seen |-> {}]
    OBVIOUS
<1>2. CASE ingest' = [ingest EXCEPT ![c] = i]
    <2>1. i \in Ingest /\ i.at = "given" /\ i.left = MonthsOf(i.batch) /\ i.left # {}
        BY <1>1, BatchIsOfFacts DEF Ingest, IngestStep
    <2>2. ingest'[c] = i
        BY <1>2 DEF IngestIInv, IngestTypeOK
    <2>3. Keeps(c)'
        BY <2>1, <2>2 DEF Keeps
    <2> QED BY <1>2, <2>1, <2>3, CallMoves DEF Deliver, IngestIInv, IngestTypeOK
<1>3. CASE Lose(c)
    BY <1>3, LoseStep DEF Deliver
<1> QED BY <1>1, <1>2, <1>3 DEF Deliver

LEMMA StoreStep ==
    ASSUME IngestIInv, NEW c \in Ingests, Store(c)
    PROVE  IngestIInv'
<1>1. CASE Lose(c) /\ UNCHANGED events
    BY <1>1, LoseStep DEF Store
<1>2. CASE IngestGoes(c, "stored") /\ events' = events \cup ingest[c].batch
    <2>1. PICK i : i = [ingest[c] EXCEPT !.at = "stored"]
        OBVIOUS
    <2>2. ingest[c] \in Ingest
        BY DEF IngestIInv, IngestTypeOK
    <2>3. /\ i \in Ingest /\ i.at = "stored" /\ i.batch = ingest[c].batch
          /\ i.left = ingest[c].left
        BY <2>1, <2>2 DEF Ingest, IngestStep
    <2>4. ingest' = [ingest EXCEPT ![c] = i]
        BY <1>2, <2>1 DEF IngestGoes
    <2>5. ingest'[c] = i
        BY <2>4 DEF IngestIInv, IngestTypeOK
    <2>6. i.left = MonthsOf(i.batch) /\ i.left # {}
        BY <2>3 DEF Store, IngestIInv, KeepInv, Keeps
    <2>7. Keeps(c)'
        BY <1>2, <2>3, <2>5, <2>6 DEF Keeps
    <2>8. events' \subseteq Facts /\ events \subseteq events'
        BY <1>2, <2>2 DEF IngestIInv, IngestTypeOK, Ingest
    <2> QED BY <2>3, <2>4, <2>7, <2>8, CallMoves DEF Store
<1> QED BY <1>1, <1>2 DEF Store

\* What a call reads of a month is the greatest view of it there has been.
LEMMA ReadStep ==
    ASSUME IngestIInv, NEW c \in Ingests, Read(c)
    PROVE  IngestIInv'
<1>1. PICK m : m = NextMonth(c)
    OBVIOUS
<1>2. PICK S : S = OfMonth(events, m)
    OBVIOUS
<1>3. PICK i : i = [ingest[c] EXCEPT !.at = "read", !.seen = S]
    OBVIOUS
<1>4. ingest[c] \in Ingest /\ S \subseteq Facts
    BY <1>2 DEF IngestIInv, IngestTypeOK, OfMonth
<1>5. /\ i \in Ingest /\ i.at = "read" /\ i.batch = ingest[c].batch
      /\ i.left = ingest[c].left /\ i.seen = S
    BY <1>3, <1>4 DEF Ingest, IngestStep
<1>6. ingest' = [ingest EXCEPT ![c] = i]
    BY <1>1, <1>2, <1>3, <1>4 DEF Read, Ingest
<1>7. UNCHANGED <<events, runs>>
    BY DEF Read
<1>8. /\ \A d \in Ingests \ {c} : ingest'[d] = ingest[d] /\ Keeps(d)'
      /\ ingest' \in [Ingests -> Ingest] /\ ingest'[c] = i
    BY <1>5, <1>6, <1>7, OthersKeep
<1>9. NextMonth(c)' = m
    BY <1>1, <1>5, <1>8 DEF NextMonth
<1>10. Keeps(c)'
    <2>1. ingest[c].at = "stored" /\ Keeps(c)
        BY DEF Read, IngestIInv, KeepInv
    <2>2. i.left # {} /\ i.batch \subseteq events
        BY <1>5, <2>1 DEF Keeps
    <2>3. \A n \in MonthsOf(i.batch) \ i.left : RunHolds(n, i.batch)
        BY <1>5, <2>1 DEF Keeps
    <2>4. \A n \in MonthsOf(i.batch) \ i.left : RunHolds(n, i.batch)'
        BY <1>7, <2>3 DEF RunHolds
    <2>5. OfMonth(i.batch, m) \subseteq S
        BY <1>2, <2>2 DEF OfMonth
    <2> QED BY <1>5, <1>7, <1>8, <1>9, <2>2, <2>4, <2>5 DEF Keeps
<1>11. ViewInv'
    <2>1. Reading(c)' = [month |-> m, facts |-> S]
        BY <1>5, <1>8, <1>9 DEF Reading
    <2>2. ASSUME NEW d \in Readers', d # c PROVE Reading(d)' \in Views
        <3>1. d \in Readers /\ ingest'[d] = ingest[d]
            BY <1>8, <2>2 DEF Readers
        <3> QED BY <3>1 DEF Reading, NextMonth, Views
    <2>3. PICK v : v = [month |-> m, facts |-> S]
        OBVIOUS
    <2>4. Views' \subseteq Views \cup {v}
        BY <1>7, <2>1, <2>2, <2>3 DEF Views
    <2>5. v.month = m /\ v.facts = OfMonth(events, m)
        BY <1>2, <2>3
    <2>6. \A w \in Views : w.facts \subseteq OfMonth(events, w.month)
        BY DEF IngestIInv, ViewInv
    <2>7. \A w \in Views' : w.facts \subseteq OfMonth(events', w.month)
        BY <1>7, <2>4, <2>5, <2>6
    <2>8. \A w \in Views : w.month = v.month => w.facts \subseteq v.facts
        BY <2>5, <2>6
    <2>9. \A w, x \in Views' :
              w.month = x.month => w.facts \subseteq x.facts \/ x.facts \subseteq w.facts
        BY <2>4, <2>8 DEF IngestIInv, ViewInv
    <2> QED BY <2>7, <2>9 DEF ViewInv
<1>12. GreatestInv'
    BY <1>7 DEF IngestIInv, GreatestInv, Greatest
<1>13. KeepInv'
    BY <1>8, <1>10 DEF KeepInv
<1>14. IngestTypeOK'
    BY <1>7, <1>8 DEF IngestIInv, IngestTypeOK
<1> QED BY <1>11, <1>12, <1>13, <1>14 DEF IngestIInv

\* The run a call saves is a view there was already: the greatest run of its month is
\* the one there was or the new one.
LEMMA SaveRunStep ==
    ASSUME IngestIInv, NEW c \in Ingests, SaveMeterRun(c)
    PROVE  IngestIInv'
<1>1. PICK m : m = NextMonth(c)
    OBVIOUS
<1>2. PICK rest : rest = ingest[c].left \ {m}
    OBVIOUS
<1>3. PICK new : new = [month |-> m, facts |-> ingest[c].seen]
    OBVIOUS
<1>4. PICK step : step = IF rest = {} THEN "answered" ELSE "stored"
    OBVIOUS
<1>5. PICK i : i = [ingest[c] EXCEPT !.at = step, !.left = rest, !.seen = {}]
    OBVIOUS
<1>6. ingest[c] \in Ingest /\ ingest[c].at = "read" /\ Keeps(c)
    BY DEF SaveMeterRun, IngestIInv, IngestTypeOK, KeepInv
<1>7. m \in MonthsOf(Facts)
    BY <1>1, <1>6, NextIsLeft DEF IngestIInv, Keeps, Ingest
<1>8. /\ i \in Ingest /\ i.at = step /\ i.batch = ingest[c].batch
      /\ i.left = rest /\ step \in {"answered", "stored"}
    BY <1>2, <1>4, <1>5, <1>6 DEF Ingest, IngestStep
<1>9. ingest' = [ingest EXCEPT ![c] = i] /\ runs' = runs \cup {new} /\ events' = events
    BY <1>1, <1>2, <1>3, <1>4, <1>5, <1>6 DEF SaveMeterRun, Ingest
<1>10. new \in MeterRun /\ new.month = m /\ new.facts = ingest[c].seen
    BY <1>3, <1>6, <1>7 DEF MeterRun, Ingest
<1>11. /\ \A d \in Ingests \ {c} : ingest'[d] = ingest[d] /\ Keeps(d)'
       /\ ingest' \in [Ingests -> Ingest] /\ ingest'[c] = i
    BY <1>8, <1>9, OthersKeep
<1>12. new \in Views
    BY <1>1, <1>3, <1>6 DEF Views, Readers, Reading
<1>13. ViewInv'
    <2>1. ASSUME NEW d \in Readers' PROVE Reading(d)' \in Views
        <3>1. d \in Readers /\ ingest'[d] = ingest[d]
            BY <1>8, <1>11, <2>1 DEF Readers
        <3> QED BY <3>1 DEF Reading, NextMonth, Views
    <2>2. Views' \subseteq Views
        BY <1>9, <1>12, <2>1 DEF Views
    <2> QED BY <1>9, <2>2, ViewsStay
<1>14. GreatestInv'
    <2>1. ASSUME NEW r \in runs, r.month = new.month
          PROVE  \E all \in runs \cup {new} : all.month = m /\ Greatest(all)'
        <3>1. PICK old \in runs : old.month = m /\ Greatest(old)
            BY <1>10, <2>1 DEF IngestIInv, GreatestInv
        <3>2. old.facts \subseteq new.facts \/ new.facts \subseteq old.facts
            BY <1>10, <1>12, <3>1 DEF IngestIInv, ViewInv, Views
        <3>3. CASE old.facts \subseteq new.facts
            <4>1. Greatest(new)'
                BY <1>9, <1>10, <3>1, <3>3 DEF Greatest
            <4> QED BY <1>10, <4>1
        <3>4. CASE new.facts \subseteq old.facts
            <4>1. Greatest(old)'
                BY <1>9, <1>10, <3>1, <3>4 DEF Greatest
            <4> QED BY <3>1, <4>1
        <3> QED BY <3>2, <3>3, <3>4
    <2>2. ASSUME \A r \in runs : r.month # new.month
          PROVE  Greatest(new)'
        BY <1>9, <2>2 DEF Greatest
    <2>3. ASSUME NEW r \in runs, r.month # new.month
          PROVE  \E all \in runs : all.month = r.month /\ Greatest(all)'
        <3>1. PICK all \in runs : all.month = r.month /\ Greatest(all)
            BY DEF IngestIInv, GreatestInv
        <3>2. Greatest(all)'
            BY <1>9, <2>3, <3>1 DEF Greatest
        <3> QED BY <3>1, <3>2
    <2>4. ASSUME NEW r \in runs'
          PROVE  \E all \in runs' : all.month = r.month /\ Greatest(all)'
        <3>1. CASE r.month # new.month
            BY <1>9, <2>3, <2>4, <3>1
        <3>2. CASE r.month = new.month /\ \E x \in runs : x.month = new.month
            BY <1>9, <1>10, <2>1, <3>2
        <3>3. CASE r.month = new.month /\ \A x \in runs : x.month # new.month
            BY <1>9, <2>2, <3>3
        <3> QED BY <3>1, <3>2, <3>3
    <2> QED BY <2>4 DEF GreatestInv
<1>15. Keeps(c)'
    <2>1. i.batch \subseteq events' /\ OfMonth(i.batch, m) \subseteq new.facts
        BY <1>1, <1>6, <1>8, <1>9, <1>10 DEF Keeps
    <2>2. ASSUME NEW n \in MonthsOf(i.batch) \ rest PROVE RunHolds(n, i.batch)'
        <3>1. CASE n = m
            BY <1>9, <1>10, <2>1, <3>1 DEF RunHolds
        <3>2. CASE n # m
            <4>1. RunHolds(n, i.batch)
                BY <1>2, <1>6, <1>8, <2>2, <3>2 DEF Keeps
            <4> QED BY <1>9, <4>1 DEF RunHolds
        <3> QED BY <3>1, <3>2
    <2>3. i.left # {} \/ i.at = "answered"
        BY <1>4, <1>8
    <2>4. i.at = "answered" => i.left = {}
        BY <1>4, <1>8
    <2> QED BY <1>8, <1>11, <2>1, <2>2, <2>3, <2>4 DEF Keeps
<1>16. KeepInv'
    BY <1>11, <1>15 DEF KeepInv
<1>17. IngestTypeOK'
    BY <1>9, <1>10, <1>11 DEF IngestIInv, IngestTypeOK
<1> QED BY <1>13, <1>14, <1>16, <1>17 DEF IngestIInv

LEMMA IngestIInvHoldsAtFirst == IngestInit => IngestIInv
<1> SUFFICES ASSUME IngestInit PROVE IngestIInv
    OBVIOUS
<1>1. PICK i : i = [at |-> "idle", batch |-> {}, left |-> {}, seen |-> {}]
    OBVIOUS
<1>2. i \in Ingest /\ i.at = "idle"
    BY <1>1 DEF Ingest, IngestStep
<1>3. events = {} /\ runs = {} /\ ingest = [c \in Ingests |-> i]
    BY <1>1 DEF IngestInit
<1>4. IngestTypeOK
    BY <1>2, <1>3 DEF IngestTypeOK
<1>5. \A c \in Ingests : ingest[c].at = "idle"
    BY <1>2, <1>3
<1>6. Views = {}
    BY <1>3, <1>5 DEF Views, Readers
<1> QED BY <1>3, <1>4, <1>5, <1>6 DEF IngestIInv, ViewInv, GreatestInv, KeepInv, Keeps

LEMMA IngestIInvIsInductive == IngestIInv /\ [IngestNext]_ingestVars => IngestIInv'
<1> SUFFICES ASSUME IngestIInv, [IngestNext]_ingestVars PROVE IngestIInv'
    OBVIOUS
<1>1. ASSUME NEW c \in Ingests, NEW batch \in Batches, Deliver(c, batch) PROVE IngestIInv'
    BY <1>1, DeliverStep
<1>2. ASSUME NEW c \in Ingests, Store(c) PROVE IngestIInv'
    BY <1>2, StoreStep
<1>3. ASSUME NEW c \in Ingests, Read(c) PROVE IngestIInv'
    BY <1>3, ReadStep
<1>4. ASSUME NEW c \in Ingests, Unmeterable(c) PROVE IngestIInv'
    BY <1>4, LoseStep DEF Unmeterable
<1>5. ASSUME NEW c \in Ingests, SaveMeterRun(c) PROVE IngestIInv'
    BY <1>5, SaveRunStep
<1>6. ASSUME NEW c \in Ingests, Crash(c) PROVE IngestIInv'
    BY <1>6, LoseStep DEF Crash
<1>7. CASE UNCHANGED ingestVars
    <2>1. events' = events /\ runs' = runs /\ ingest' = ingest
        BY <1>7 DEF ingestVars
    <2>2. Views' = Views
        BY <2>1 DEF Views, Readers, Reading, NextMonth
    <2>3. ViewInv' /\ GreatestInv'
        BY <2>1, <2>2 DEF IngestIInv, ViewInv, GreatestInv, Greatest
    <2>4. KeepInv'
        BY <2>1 DEF IngestIInv, KeepInv, Keeps, RunHolds, NextMonth
    <2> QED BY <2>1, <2>3, <2>4 DEF IngestIInv, IngestTypeOK
<1> QED BY <1>1, <1>2, <1>3, <1>4, <1>5, <1>6, <1>7 DEF IngestNext

LEMMA IngestKeepsIInv == IngestSpec => []IngestIInv
BY IngestIInvHoldsAtFirst, IngestIInvIsInductive, PTL DEF IngestSpec

\* Of the runs of a month the greatest holds what was acknowledged: each answered call
\* has a run for each of its months, and that one is within the greatest.
LEMMA GreatestHasItAll ==
    ASSUME IngestIInv
    PROVE  OneRunHasItAll
<1>1. PICK told : told = UNION {ingest[c].batch : c \in Answered}
    OBVIOUS
<1>2. ASSUME NEW m, NEW e \in told, Month(e) = m
      PROVE  \E r \in runs : r.month = m /\ e \in r.facts
    <2>1. PICK c \in Answered : e \in ingest[c].batch
        BY <1>1
    <2>2. Keeps(c) /\ ingest[c].at = "answered"
        BY <2>1 DEF Answered, IngestIInv, KeepInv
    <2>3. m \in MonthsOf(ingest[c].batch) \ ingest[c].left
        BY <1>2, <2>1, <2>2 DEF MonthsOf, Keeps
    <2>4. PICK r \in runs : r.month = m /\ OfMonth(ingest[c].batch, m) \subseteq r.facts
        BY <2>2, <2>3 DEF Keeps, RunHolds
    <2>5. e \in OfMonth(ingest[c].batch, m)
        BY <1>2, <2>1 DEF OfMonth
    <2> QED BY <2>4, <2>5
<1>3. ASSUME NEW m \in MonthsOf(told) \cup {r.month : r \in runs}
      PROVE  \E all \in runs :
                /\ all.month = m
                /\ OfMonth(told, m) \subseteq all.facts
                /\ \A r \in runs : r.month = m => r.facts \subseteq all.facts
    <2>1. \E r \in runs : r.month = m
        BY <1>2, <1>3 DEF MonthsOf
    <2>2. PICK all \in runs : all.month = m /\ Greatest(all)
        BY <2>1 DEF IngestIInv, GreatestInv
    <2>3. OfMonth(told, m) \subseteq all.facts
        <3>1. ASSUME NEW e \in OfMonth(told, m) PROVE e \in all.facts
            <4>1. e \in told /\ Month(e) = m
                BY <3>1 DEF OfMonth
            <4>2. PICK r \in runs : r.month = m /\ e \in r.facts
                BY <1>2, <4>1
            <4> QED BY <2>2, <4>2 DEF Greatest
        <3> QED BY <3>1
    <2> QED BY <2>2, <2>3 DEF Greatest
<1> QED BY <1>1, <1>3 DEF OneRunHasItAll

\* Every variable of the ingest keeps its type; a month that is metered next is one of
\* those the call was given.
THEOREM IngestTypeCorrectness == IngestSpec => []IngestTypeOK
<1>1. IngestIInv => IngestTypeOK
    BY DEF IngestIInv
<1> QED BY <1>1, IngestKeepsIInv, PTL

\* However many calls overlap, fail or deliver again, whatever they deliver: of the runs
\* of a month one holds every acknowledged fact of it and all that any other run holds.
THEOREM OneRunHadItAll == IngestSpec => []OneRunHasItAll
<1>1. IngestIInv => OneRunHasItAll
    BY GreatestHasItAll
<1> QED BY <1>1, IngestKeepsIInv, PTL

-----------------------------------------------------------------------------
(* Recursion and induction over finite sets, by the size of a set.          *)

\* A set of numbers that has 0 and with each number the next one has them all.
LEMMA Counting ==
    ASSUME NEW G \in SUBSET Nat, 0 \in G, \A n \in G : n + 1 \in G
    PROVE  \A n \in Nat : n \in G
<1> SUFFICES ASSUME NEW k \in Nat, k \notin G PROVE FALSE
    OBVIOUS
<1> DEFINE out == Nat \ G
<1>1. out \subseteq Nat /\ out # {}
    OBVIOUS
<1>2. PICK a \in out : \A b \in out : ~ (<<b, a>> \in OpToRel(<, Nat))
    BY <1>1, WFMin, NatLessThanWellFounded
<1>3. \A i, j \in Nat : i < j => <<i, j>> \in OpToRel(<, Nat)
    BY Zenon DEF OpToRel
<1>4. a \in Nat /\ a # 0 /\ a - 1 \in Nat /\ a - 1 < a /\ (a - 1) + 1 = a
    OBVIOUS
<1>5. a - 1 \in G
    <2>1. a - 1 \notin out
        BY <1>2, <1>3, <1>4
    <2> QED BY <1>4, <2>1
<1>6. a \in G
    BY <1>4, <1>5
<1> QED BY <1>2, <1>6

LEMMA OneLessInIt ==
    ASSUME NEW S, IsFiniteSet(S), NEW x \in S
    PROVE  /\ IsFiniteSet(S \ {x}) /\ Cardinality(S \ {x}) \in Nat
           /\ Cardinality(S) = Cardinality(S \ {x}) + 1
<1>1. Cardinality(S) \in Nat /\ IsFiniteSet(S \ {x})
    BY FS_CardinalityType, FS_RemoveElement
<1>2. Cardinality(S \ {x}) = Cardinality(S) - 1
    BY FS_RemoveElement
<1>3. Cardinality(S \ {x}) \in Nat
    BY <1>1, FS_CardinalityType
<1> QED BY <1>1, <1>2, <1>3

\* What holds of a finite set when it holds of the set without one of its elements: bad
\* would be the least counterexample.
LEMMA BySize ==
    ASSUME NEW S, IsFiniteSet(S), NEW good,
           {} \in good,
           \A s \in SUBSET S : s # {} /\ (\A x \in s : s \ {x} \in good) => s \in good
    PROVE  \A s \in SUBSET S : s \in good
<1> DEFINE G == {n \in Nat : \A s \in SUBSET S : Cardinality(s) = n => s \in good}
<1>1. \A s \in SUBSET S : IsFiniteSet(s) /\ Cardinality(s) \in Nat
    BY FS_Subset, FS_CardinalityType
<1>2. 0 \in G
    BY <1>1, FS_EmptySet
<1>3. ASSUME NEW n \in G PROVE n + 1 \in G
    <2>1. n \in Nat /\ n + 1 \in Nat /\ n + 1 # 0
        BY <1>3
    <2>2. ASSUME NEW s \in SUBSET S, Cardinality(s) = n + 1 PROVE s \in good
        <3>1. s # {}
            BY <2>1, <2>2, FS_EmptySet
        <3>2. ASSUME NEW x \in s PROVE s \ {x} \in good
            <4>1. Cardinality(s \ {x}) = n
                <5>1. Cardinality(s) = Cardinality(s \ {x}) + 1 /\ Cardinality(s \ {x}) \in Nat
                    BY <1>1, OneLessInIt
                <5> QED BY <2>1, <2>2, <5>1
            <4>2. s \ {x} \in SUBSET S
                OBVIOUS
            <4> QED BY <1>3, <4>1, <4>2
        <3> QED BY <3>1, <3>2
    <2> QED BY <2>1, <2>2
<1>4. \A n \in Nat : n \in G
    <2> HIDE DEF G
    <2>1. G \in SUBSET Nat
        BY DEF G
    <2> QED BY <1>2, <1>3, <2>1, Counting
<1> QED BY <1>1, <1>4

\* g makes of a set what step makes of the element pick takes from it and of what g makes
\* of the others.
Recurses(S, pick, base, step, g) ==
    \A s \in SUBSET S :
        g[s] = IF s = {} THEN base ELSE step[<<pick[s], g[s \ {pick[s]}]>>]

\* A function of the subsets of a finite set may be defined so.
LEMMA SetRecursion ==
    ASSUME NEW S, IsFiniteSet(S),
           NEW pick, \A s \in SUBSET S : s # {} => pick[s] \in s,
           NEW V, NEW base \in V,
           NEW step, \A x \in S, v \in V : step[<<x, v>>] \in V
    PROVE  \E g \in [SUBSET S -> V] : Recurses(S, pick, base, step, g)
<1> DEFINE Sub(n) == {s \in SUBSET S : Cardinality(s) <= n}
           Solves(g, n) == \A s \in Sub(n) :
               g[s] = IF s = {} THEN base ELSE step[<<pick[s], g[s \ {pick[s]}]>>]
           G == {n \in Nat : \E g \in [Sub(n) -> V] : Solves(g, n)}
<1>1. \A s \in SUBSET S : IsFiniteSet(s) /\ Cardinality(s) \in Nat
    BY FS_Subset, FS_CardinalityType
<1>2. 0 \in G
    <2>1. \A s \in Sub(0) : s = {}
        BY <1>1, FS_EmptySet
    <2>2. PICK g : g = [s \in Sub(0) |-> base]
        OBVIOUS
    <2>3. g \in [Sub(0) -> V] /\ Solves(g, 0)
        BY <2>1, <2>2
    <2> QED BY <2>3
<1>3. ASSUME NEW n \in G PROVE n + 1 \in G
    <2>1. n \in Nat /\ n + 1 \in Nat
        BY <1>3
    <2>2. PICK g \in [Sub(n) -> V] : Solves(g, n)
        BY <1>3
    <2>3. PICK h : h = [s \in Sub(n + 1) |->
                           IF s = {} THEN base ELSE step[<<pick[s], g[s \ {pick[s]}]>>]]
        OBVIOUS
    <2>4. ASSUME NEW s \in Sub(n + 1), s # {}
          PROVE  pick[s] \in S /\ s \ {pick[s]} \in Sub(n)
        <3>1. s \in SUBSET S /\ pick[s] \in s /\ Cardinality(s) <= n + 1
            BY <2>4
        <3>2. Cardinality(s) = Cardinality(s \ {pick[s]}) + 1 /\ Cardinality(s \ {pick[s]}) \in Nat
            BY <1>1, <3>1, OneLessInIt
        <3> QED BY <2>1, <3>1, <3>2
    <2>5. h \in [Sub(n + 1) -> V]
        <3>1. ASSUME NEW s \in Sub(n + 1)
              PROVE  (IF s = {} THEN base ELSE step[<<pick[s], g[s \ {pick[s]}]>>]) \in V
            <4>1. CASE s = {}
                BY <4>1
            <4>2. CASE s # {}
                <5>1. pick[s] \in S /\ g[s \ {pick[s]}] \in V
                    BY <2>2, <2>4, <4>2
                <5> QED BY <4>2, <5>1
            <4> QED BY <4>1, <4>2
        <3> QED BY <2>3, <3>1
    <2>6. ASSUME NEW s \in Sub(n) PROVE s \in Sub(n + 1) /\ h[s] = g[s]
        <3>1. s \in Sub(n + 1)
            BY <1>1, <2>1, <2>6
        <3>2. g[s] = IF s = {} THEN base ELSE step[<<pick[s], g[s \ {pick[s]}]>>]
            BY <2>2, <2>6
        <3> QED BY <2>3, <3>1, <3>2
    <2>7. Solves(h, n + 1)
        <3>1. ASSUME NEW s \in Sub(n + 1)
              PROVE  h[s] = IF s = {} THEN base ELSE step[<<pick[s], h[s \ {pick[s]}]>>]
            <4>1. h[s] = IF s = {} THEN base ELSE step[<<pick[s], g[s \ {pick[s]}]>>]
                BY <2>3
            <4>2. s # {} => h[s \ {pick[s]}] = g[s \ {pick[s]}]
                BY <2>4, <2>6
            <4> QED BY <4>1, <4>2
        <3> QED BY <3>1
    <2> QED BY <2>1, <2>5, <2>7
<1>4. Cardinality(S) \in G
    <2> HIDE DEF G
    <2>1. G \in SUBSET Nat
        BY DEF G
    <2> QED BY <1>1, <1>2, <1>3, <2>1, Counting
<1>5. Sub(Cardinality(S)) = SUBSET S
    <2>1. ASSUME NEW s \in SUBSET S PROVE Cardinality(s) <= Cardinality(S)
        BY FS_Subset
    <2> QED BY <2>1
<1> QED BY <1>4, <1>5 DEF Recurses

\* A finite set with a total order has a last element.
LEMMA LastOfThem ==
    ASSUME NEW S, IsFiniteSet(S), S # {}, NEW R,
           \A x, y \in S : x # y => <<x, y>> \in R \/ <<y, x>> \in R,
           \A x, y, z \in S : <<x, y>> \in R /\ <<y, z>> \in R => <<x, z>> \in R
    PROVE  \E e \in S : \A f \in S \ {e} : <<f, e>> \in R
<1> DEFINE Last(s) == \E e \in s : \A f \in s \ {e} : <<f, e>> \in R
           good == {s \in SUBSET S : s # {} => Last(s)}
<1>1. {} \in good
    OBVIOUS
<1>2. ASSUME NEW s \in SUBSET S, s # {}, \A x \in s : s \ {x} \in good
      PROVE  s \in good
    <2>1. PICK x \in s : TRUE
        BY <1>2
    <2>2. CASE s \ {x} = {}
        BY <2>1, <2>2
    <2>3. CASE s \ {x} # {}
        <3>1. PICK e \in s \ {x} : \A f \in (s \ {x}) \ {e} : <<f, e>> \in R
            BY <1>2, <2>1, <2>3
        <3>2. CASE <<x, e>> \in R
            <4>1. \A f \in s \ {e} : <<f, e>> \in R
                BY <3>1, <3>2
            <4> QED BY <3>1, <4>1
        <3>3. CASE <<e, x>> \in R
            <4>1. ASSUME NEW f \in s \ {x} PROVE <<f, x>> \in R
                <5>1. CASE f = e
                    BY <3>3, <5>1
                <5>2. CASE f # e
                    BY <2>1, <3>1, <3>3, <5>2
                <5> QED BY <5>1, <5>2
            <4> QED BY <2>1, <4>1
        <3> QED BY <2>1, <3>1, <3>2, <3>3
    <2> QED BY <2>2, <2>3
<1>3. \A s \in SUBSET S : s # {} /\ (\A x \in s : s \ {x} \in good) => s \in good
    BY <1>2
<1>4. S \in good
    <2> HIDE DEF good
    <2>1. \A s \in SUBSET S : s \in good
        BY <1>1, <1>3, BySize, Zenon
    <2> QED BY <2>1
<1> QED BY <1>4

-----------------------------------------------------------------------------
(* Sums over finite sets. *)

Pick(s) == CHOOSE x \in s : TRUE

\* g is the sum of w over the subsets of S, as MapThenSumSet computes it.
Adds(w, S, g) ==
    \A s \in SUBSET S : g[s] = IF s = {} THEN 0 ELSE w[Pick(s)] + g[s \ {Pick(s)}]

LEMMA PickIsIn ==
    ASSUME NEW s, s # {}
    PROVE  Pick(s) \in s
BY Zenon DEF Pick

LEMMA SumsAreThere ==
    ASSUME NEW S, IsFiniteSet(S), NEW w \in [S -> Nat]
    PROVE  \E g \in [SUBSET S -> Nat] : Adds(w, S, g)
<1>1. PICK pick : pick = [s \in SUBSET S |-> Pick(s)]
    OBVIOUS
<1>2. PICK step : step = [q \in S \X Nat |-> w[q[1]] + q[2]]
    OBVIOUS
<1>3. \A s \in SUBSET S : s # {} => pick[s] \in s
    BY <1>1, PickIsIn
<1>4. \A x \in S, v \in Nat : step[<<x, v>>] = w[x] + v /\ step[<<x, v>>] \in Nat
    BY <1>2
<1>5. PICK g \in [SUBSET S -> Nat] : \A s \in SUBSET S :
          g[s] = IF s = {} THEN 0 ELSE step[<<pick[s], g[s \ {pick[s]}]>>]
    <2>1. 0 \in Nat /\ \A x \in S, v \in Nat : step[<<x, v>>] \in Nat
        BY <1>4
    <2>2. \E g \in [SUBSET S -> Nat] : Recurses(S, pick, 0, step, g)
        BY <1>3, <2>1, SetRecursion, Zenon
    <2> QED BY <2>2 DEF Recurses
<1>6. ASSUME NEW s \in SUBSET S, s # {}
      PROVE  g[s] = w[Pick(s)] + g[s \ {Pick(s)}]
    <2>1. pick[s] = Pick(s) /\ Pick(s) \in S
        BY <1>1, <1>3, <1>6
    <2>2. g[s \ {Pick(s)}] \in Nat
        OBVIOUS
    <2>3. g[s] = step[<<Pick(s), g[s \ {Pick(s)}]>>]
        BY <1>5, <1>6, <2>1
    <2> QED BY <1>4, <2>1, <2>2, <2>3
<1>7. \A s \in SUBSET S : s = {} => g[s] = 0
    BY <1>5
<1> QED BY <1>6, <1>7 DEF Adds

\* A sum of what is the same is the same, whatever larger sets it is taken in.
LEMMA SumsAgree ==
    ASSUME NEW S, NEW T, NEW U, IsFiniteSet(U), U \subseteq S, U \subseteq T,
           NEW w, NEW v, \A x \in U : w[x] = v[x],
           NEW g, Adds(w, S, g), NEW h, Adds(v, T, h)
    PROVE  g[U] = h[U]
<1> DEFINE good == {s \in SUBSET U : g[s] = h[s]}
<1>1. {} \in good
    BY DEF Adds
<1>2. ASSUME NEW s \in SUBSET U, s # {}, \A x \in s : s \ {x} \in good
      PROVE  s \in good
    <2>1. Pick(s) \in s
        BY <1>2, PickIsIn
    <2>2. g[s] = w[Pick(s)] + g[s \ {Pick(s)}] /\ h[s] = v[Pick(s)] + h[s \ {Pick(s)}]
        BY <1>2 DEF Adds
    <2>3. g[s \ {Pick(s)}] = h[s \ {Pick(s)}] /\ w[Pick(s)] = v[Pick(s)]
        BY <1>2, <2>1
    <2> QED BY <2>2, <2>3
<1>3. \A s \in SUBSET U : s # {} /\ (\A x \in s : s \ {x} \in good) => s \in good
    BY <1>2
<1> HIDE DEF good
<1>4. \A s \in SUBSET U : s \in good
    BY <1>1, <1>3, BySize, Zenon
<1> QED BY <1>4 DEF good

\* The sum of w over the whole of S is n.
IsTotal(w, S, n) == \E g \in [SUBSET S -> Nat] : Adds(w, S, g) /\ n = g[S]

\* The order of the elements does not matter: any of them may be added last.
LEMMA TotalAdds ==
    ASSUME NEW S, IsFiniteSet(S), NEW w, w \in [S -> Nat], NEW n, IsTotal(w, S, n),
           NEW x, x \in S, NEW T, T = S \ {x}, NEW v, v = [y \in T |-> w[y]],
           NEW m, IsTotal(v, T, m)
    PROVE  n = w[x] + m
<1>1. PICK g \in [SUBSET S -> Nat] : Adds(w, S, g) /\ n = g[S]
    BY DEF IsTotal
<1>2. PICK h \in [SUBSET T -> Nat] : Adds(v, T, h) /\ m = h[T]
    BY DEF IsTotal
<1>3. g[S] = w[x] + g[S \ {x}]
    <2> DEFINE good == {s \in SUBSET S : \A y \in s : g[s] = w[y] + g[s \ {y}]}
    <2>1. {} \in good
        OBVIOUS
    <2>2. ASSUME NEW s \in SUBSET S, s # {}, \A y \in s : s \ {y} \in good
          PROVE  s \in good
        <3>1. PICK z : z = Pick(s)
            OBVIOUS
        <3>2. z \in s /\ g[s] = w[z] + g[s \ {z}]
            <4>1. z \in s
                BY <2>2, <3>1, PickIsIn
            <4>2. g[s] = IF s = {} THEN 0 ELSE w[Pick(s)] + g[s \ {Pick(s)}]
                BY <1>1, Zenon DEF Adds
            <4> QED BY <2>2, <3>1, <4>1, <4>2
        <3>3. ASSUME NEW y \in s, y # z PROVE g[s] = w[y] + g[s \ {y}]
            <4>1. g[s \ {z}] = w[y] + g[(s \ {z}) \ {y}]
                BY <2>2, <3>2, <3>3
            <4>2. g[s \ {y}] = w[z] + g[(s \ {y}) \ {z}]
                BY <2>2, <3>2, <3>3
            <4>3. (s \ {z}) \ {y} = (s \ {y}) \ {z}
                OBVIOUS
            <4>4. PICK rest : rest = g[(s \ {y}) \ {z}]
                OBVIOUS
            <4>5. rest \in Nat /\ w[y] \in Nat /\ w[z] \in Nat
                BY <3>2, <3>3, <4>4
            <4>6. g[s] = w[z] + (w[y] + rest)
                BY <3>2, <4>1, <4>3, <4>4
            <4>7. g[s \ {y}] = w[z] + rest
                BY <4>2, <4>4
            <4> QED BY <4>5, <4>6, <4>7
        <3> QED BY <3>2, <3>3
    <2>3. \A s \in SUBSET S : s # {} /\ (\A y \in s : s \ {y} \in good) => s \in good
        BY <2>2
    <2>4. S \in good
        <3> HIDE DEF good
        <3>1. \A s \in SUBSET S : s \in good
            BY <2>1, <2>3, BySize, Zenon
        <3> QED BY <3>1
    <2> QED BY <2>4
<1>4. g[T] = h[T]
    <2>1. IsFiniteSet(T) /\ T \subseteq S /\ \A y \in T : w[y] = v[y]
        BY FS_RemoveElement
    <2> QED BY <1>1, <1>2, <2>1, SumsAgree
<1> QED BY <1>1, <1>2, <1>3, <1>4

LEMMA PagesIsTotal ==
    ASSUME NEW S, IsFiniteSet(S), \A e \in S : e.pages \in Nat
    PROVE  IsTotal([e \in S |-> e.pages], S, Pages(S))
<1>1. PICK w : w = [e \in S |-> e.pages]
    OBVIOUS
<1>2. w \in [S -> Nat]
    BY <1>1
<1>3. PICK g \in [SUBSET S -> Nat] : Adds(w, S, g)
    BY <1>2, SumsAreThere
<1>4. \A s \in SUBSET S : s # {} => Pick(s) \in S /\ w[Pick(s)] = Pick(s).pages
    BY <1>1, PickIsIn
<1>5. g = [s \in SUBSET S |-> IF s = {} THEN 0 ELSE Pick(s).pages + g[s \ {Pick(s)}]]
    BY <1>3, <1>4 DEF Adds
<1>6. PICK h : /\ h = [s \in SUBSET S |->
                           IF s = {} THEN 0 ELSE Pick(s).pages + h[s \ {Pick(s)}]]
               /\ Pages(S) = h[S]
    BY <1>5, Zenon DEF Pages, MapThenSumSet, MapThenFoldSet, Pick
<1>7. \A s \in SUBSET S : h[s] = IF s = {} THEN 0 ELSE Pick(s).pages + h[s \ {Pick(s)}]
    BY <1>6
<1>8. Adds(w, S, h)
    BY <1>4, <1>7 DEF Adds
<1>9. h[S] = g[S]
    BY <1>3, <1>8, SumsAgree
<1> QED BY <1>1, <1>3, <1>6, <1>9 DEF IsTotal

FreeOf(L) == MapThenSumSet(LAMBDA l : l.free, L)

LEMMA FreeIsTotal ==
    ASSUME NEW S, IsFiniteSet(S), \A l \in S : l.free \in Nat
    PROVE  IsTotal([l \in S |-> l.free], S, FreeOf(S))
<1>1. PICK w : w = [l \in S |-> l.free]
    OBVIOUS
<1>2. w \in [S -> Nat]
    BY <1>1
<1>3. PICK g \in [SUBSET S -> Nat] : Adds(w, S, g)
    BY <1>2, SumsAreThere
<1>4. \A s \in SUBSET S : s # {} => Pick(s) \in S /\ w[Pick(s)] = Pick(s).free
    BY <1>1, PickIsIn
<1>5. g = [s \in SUBSET S |-> IF s = {} THEN 0 ELSE Pick(s).free + g[s \ {Pick(s)}]]
    BY <1>3, <1>4 DEF Adds
<1>6. PICK h : /\ h = [s \in SUBSET S |->
                           IF s = {} THEN 0 ELSE Pick(s).free + h[s \ {Pick(s)}]]
               /\ FreeOf(S) = h[S]
    BY <1>5, Zenon DEF FreeOf, MapThenSumSet, MapThenFoldSet, Pick
<1>7. \A s \in SUBSET S : h[s] = IF s = {} THEN 0 ELSE Pick(s).free + h[s \ {Pick(s)}]
    BY <1>6
<1>8. Adds(w, S, h)
    BY <1>4, <1>7 DEF Adds
<1>9. h[S] = g[S]
    BY <1>3, <1>8, SumsAgree
<1> QED BY <1>1, <1>3, <1>6, <1>9 DEF IsTotal

LEMMA TotalOfNone ==
    ASSUME NEW w, NEW n, IsTotal(w, {}, n)
    PROVE  n = 0
BY DEF IsTotal, Adds

LEMMA PagesAdd ==
    ASSUME NEW S, IsFiniteSet(S), \A e \in S : e.pages \in Nat
    PROVE  /\ Pages(S) \in Nat
           /\ S = {} => Pages(S) = 0
           /\ \A x \in S : Pages(S) = x.pages + Pages(S \ {x})
<1>1. IsTotal([e \in S |-> e.pages], S, Pages(S))
    BY PagesIsTotal
<1>2. ASSUME NEW x \in S PROVE Pages(S) = x.pages + Pages(S \ {x})
    <2>1. PICK T : T = S \ {x}
        OBVIOUS
    <2>2. IsFiniteSet(T)
        BY <2>1, FS_RemoveElement
    <2>3. PICK w : w = [e \in S |-> e.pages]
        OBVIOUS
    <2>4. PICK v : v = [e \in T |-> e.pages]
        OBVIOUS
    <2>5. w \in [S -> Nat] /\ v = [y \in T |-> w[y]] /\ w[x] = x.pages
        BY <2>1, <2>3, <2>4
    <2>6. IsTotal(w, S, Pages(S))
        BY <1>1, <2>3
    <2>7. IsTotal(v, T, Pages(T))
        BY <2>1, <2>2, <2>4, PagesIsTotal
    <2>8. Pages(S) = w[x] + Pages(T)
        BY <2>1, <2>5, <2>6, <2>7, TotalAdds
    <2> QED BY <2>1, <2>5, <2>8
<1>3. Pages(S) \in Nat
    BY <1>1 DEF IsTotal
<1>4. ASSUME S = {} PROVE Pages(S) = 0
    BY <1>1, <1>4, TotalOfNone
<1> QED BY <1>2, <1>3, <1>4

LEMMA FreeAdds ==
    ASSUME NEW S, IsFiniteSet(S), \A l \in S : l.free \in Nat
    PROVE  /\ S = {} => FreeOf(S) = 0
           /\ \A x \in S : FreeOf(S) = x.free + FreeOf(S \ {x})
<1>1. IsTotal([l \in S |-> l.free], S, FreeOf(S))
    BY FreeIsTotal
<1>2. ASSUME NEW x \in S PROVE FreeOf(S) = x.free + FreeOf(S \ {x})
    <2>1. PICK T : T = S \ {x}
        OBVIOUS
    <2>2. IsFiniteSet(T)
        BY <2>1, FS_RemoveElement
    <2>3. PICK w : w = [l \in S |-> l.free]
        OBVIOUS
    <2>4. PICK v : v = [l \in T |-> l.free]
        OBVIOUS
    <2>5. w \in [S -> Nat] /\ v = [y \in T |-> w[y]] /\ w[x] = x.free
        BY <2>1, <2>3, <2>4
    <2>6. IsTotal(w, S, FreeOf(S))
        BY <1>1, <2>3
    <2>7. IsTotal(v, T, FreeOf(T))
        BY <2>1, <2>2, <2>4, FreeIsTotal
    <2>8. FreeOf(S) = w[x] + FreeOf(T)
        BY <2>1, <2>5, <2>6, <2>7, TotalAdds
    <2> QED BY <2>1, <2>5, <2>8
<1>3. ASSUME S = {} PROVE FreeOf(S) = 0
    BY <1>1, <1>3, TotalOfNone
<1> QED BY <1>2, <1>3

LEMMA LeastAndGreatest ==
    ASSUME NEW a \in Int, NEW b \in Int
    PROVE  /\ Min({a, b}) = IF a <= b THEN a ELSE b
           /\ Max({a, b}) = IF a <= b THEN b ELSE a
BY DEF Min, Max

-----------------------------------------------------------------------------
(* The order of facts. *)

Consistent(F) == F \subseteq Fact /\ IsFiniteSet(F) /\ ~Conflict(F)

LEMMA PartsAreConsistent ==
    ASSUME NEW F, Consistent(F), NEW P \in SUBSET F
    PROVE  Consistent(P)
BY FS_Subset DEF Consistent, Conflict

LEMMA BeforeIsAnOrder ==
    ASSUME NEW F, Consistent(F)
    PROVE  /\ \A e, f \in F : e # f => Before(e, f) \/ Before(f, e)
           /\ \A e, f, g \in F : Before(e, f) /\ Before(f, g) => Before(e, g)
           /\ \A e \in F : ~Before(e, e)
<1>1. \A e \in F : e.at \in Nat /\ e.id \in Nat
    BY DEF Consistent, Fact
<1>2. \A e, f \in F : e # f => e.id # f.id
    BY DEF Consistent, Conflict
<1> QED BY <1>1, <1>2 DEF Before

LEMMA LatestIsLast ==
    ASSUME NEW F, Consistent(F), F # {}
    PROVE  Latest(F) \in F /\ \A f \in F \ {Latest(F)} : Before(f, Latest(F))
<1>1. PICK R : R = {q \in F \X F : Before(q[1], q[2])}
    OBVIOUS
<1>2. \A e, f \in F : <<e, f>> \in R <=> Before(e, f)
    BY <1>1
<1>3. \E e \in F : \A f \in F \ {e} : <<f, e>> \in R
    <2>1. /\ \A x, y \in F : x # y => <<x, y>> \in R \/ <<y, x>> \in R
          /\ \A x, y, z \in F : <<x, y>> \in R /\ <<y, z>> \in R => <<x, z>> \in R
        BY <1>2, BeforeIsAnOrder
    <2>2. IsFiniteSet(F)
        BY DEF Consistent
    <2> QED BY <2>1, <2>2, LastOfThem
<1>4. \E e \in F : \A f \in F \ {e} : Before(f, e)
    BY <1>2, <1>3
<1> QED BY <1>4 DEF Latest

\* The nearest of the candidates is one of them.
LEMMA NearestIsIn ==
    ASSUME NEW p \in Fact, NEW C, Consistent(C), C # {}
    PROVE  Nearest(p, C) \in C
<1> DEFINE Nearer(c, d) == Gap(c, p) < Gap(d, p) \/ (Gap(c, p) = Gap(d, p) /\ Before(c, d))
<1>1. PICK R : R = {q \in C \X C : Nearer(q[2], q[1])}
    OBVIOUS
<1>2. \A c, d \in C : <<d, c>> \in R <=> Nearer(c, d)
    BY <1>1
<1>3. \A c \in C : Gap(c, p) \in Int
    BY DEF Gap, Consistent, Fact
<1>4. /\ \A c, d \in C : c # d => Nearer(c, d) \/ Nearer(d, c)
      /\ \A b, c, d \in C : Nearer(b, c) /\ Nearer(c, d) => Nearer(b, d)
    BY <1>3, BeforeIsAnOrder
<1>5. \E c \in C : \A d \in C \ {c} : <<d, c>> \in R
    <2> HIDE DEF Nearer
    <2>1. /\ \A x, y \in C : x # y => <<x, y>> \in R \/ <<y, x>> \in R
          /\ \A x, y, z \in C : <<x, y>> \in R /\ <<y, z>> \in R => <<x, z>> \in R
        BY <1>2, <1>4
    <2>2. IsFiniteSet(C)
        BY DEF Consistent
    <2> QED BY <2>1, <2>2, LastOfThem
<1>6. \E c \in C : \A d \in C \ {c} : Nearer(c, d)
    BY <1>2, <1>5
<1> QED BY <1>6 DEF Nearest

-----------------------------------------------------------------------------
(* Pairing. *)

PairOf(F) == [payment : F, call : F]
PaymentsOf(F) == {p \in F : p.ok /\ p.payment}

\* The pairs of one payment: each is of a candidate, and of another endpoint.
LEMMA PairsOfOne ==
    ASSUME NEW F, Consistent(F), NEW p \in F, NEW before
    PROVE  /\ \A a \in PairsOf(F, p, before) :
                  /\ a \in PairOf(F) /\ a.payment = p
                  /\ a.call.client = p.client /\ a.call.psu = p.psu
                  /\ Gap(a.call, p) <= Window
                  /\ \A b \in before : b.call # a.call
           /\ \A a, b \in PairsOf(F, p, before) : a # b => a.call.kind # b.call.kind
<1> DEFINE C(kind) == Candidates(F, p, kind, before)
           Pair(kind) == [payment |-> p, call |-> Nearest(p, C(kind))]
<1>1. ASSUME NEW kind, C(kind) # {}
      PROVE  Nearest(p, C(kind)) \in C(kind)
    <2>1. C(kind) \in SUBSET F
        BY DEF Candidates
    <2>2. Consistent(C(kind)) /\ p \in Fact
        BY <2>1, PartsAreConsistent DEF Consistent
    <2> QED BY <1>1, <2>2, NearestIsIn
<1>2. ASSUME NEW a \in PairsOf(F, p, before)
      PROVE  \E kind \in Pairable : a = Pair(kind) /\ a.call \in C(kind)
    <2>1. PICK kind \in {k \in Pairable : C(k) # {}} : a = Pair(kind)
        BY DEF PairsOf
    <2>2. a.call \in C(kind)
        BY <1>1, <2>1
    <2> QED BY <2>1, <2>2
<1>3. ASSUME NEW a \in PairsOf(F, p, before)
      PROVE  /\ a \in PairOf(F) /\ a.payment = p
             /\ a.call.client = p.client /\ a.call.psu = p.psu
             /\ Gap(a.call, p) <= Window
             /\ \A b \in before : b.call # a.call
    <2>1. PICK kind \in Pairable : a = Pair(kind) /\ a.call \in C(kind)
        BY <1>2
    <2>2. /\ a.call \in F /\ Gap(a.call, p) <= Window
          /\ a.call.client = p.client /\ a.call.psu = p.psu
          /\ \A b \in before : b.call # a.call
        BY <2>1 DEF Candidates
    <2>3. a.payment = p /\ a = [payment |-> p, call |-> a.call]
        BY <2>1
    <2>4. a \in PairOf(F)
        BY <2>2, <2>3 DEF PairOf
    <2> QED BY <2>2, <2>3, <2>4
<1>4. ASSUME NEW a \in PairsOf(F, p, before), NEW b \in PairsOf(F, p, before),
             a.call.kind = b.call.kind
      PROVE  a = b
    <2>1. PICK k \in Pairable : a = Pair(k) /\ a.call \in C(k)
        BY <1>2
    <2>2. PICK l \in Pairable : b = Pair(l) /\ b.call \in C(l)
        BY <1>2
    <2>3. k = l
        BY <1>4, <2>1, <2>2 DEF Candidates
    <2> QED BY <2>1, <2>2, <2>3
<1> QED BY <1>3, <1>4

\* h pairs the payments P of S up as the recursion says: the latest chooses after the others.
PairsUp(F, S, h) ==
    \A P \in SUBSET S :
        h[P] = IF P = {} THEN {}
               ELSE h[P \ {Latest(P)}] \cup PairsOf(F, Latest(P), h[P \ {Latest(P)}])

LEMMA PairingRecurs ==
    ASSUME NEW F, Consistent(F)
    PROVE  \E h : Pairing(F) = h[PaymentsOf(F)] /\ PairsUp(F, PaymentsOf(F), h)
<1>1. PICK S : S = PaymentsOf(F)
    OBVIOUS
<1>2. S \subseteq F /\ IsFiniteSet(S)
    BY <1>1, FS_Subset DEF PaymentsOf, Consistent
<1>3. PICK pick : pick = [P \in SUBSET S |-> Latest(P)]
    OBVIOUS
<1>4. ASSUME NEW P \in SUBSET S, P # {} PROVE Latest(P) \in P
    BY <1>2, <1>4, LatestIsLast, PartsAreConsistent
<1>5. PICK V : V = SUBSET PairOf(F)
    OBVIOUS
<1>6. PICK step : step = [q \in S \X V |-> q[2] \cup PairsOf(F, q[1], q[2])]
    OBVIOUS
<1>7. ASSUME NEW p \in S, NEW v \in V
      PROVE  step[<<p, v>>] = v \cup PairsOf(F, p, v) /\ step[<<p, v>>] \in V
    <2>1. step[<<p, v>>] = v \cup PairsOf(F, p, v)
        BY <1>6
    <2>2. PairsOf(F, p, v) \subseteq PairOf(F)
        BY <1>2, PairsOfOne
    <2> QED BY <1>5, <2>1, <2>2
<1>8. PICK g \in [SUBSET S -> V] : Recurses(S, pick, {}, step, g)
    <2>1. {} \in V
        BY <1>5
    <2>2. \A P \in SUBSET S : P # {} => pick[P] \in P
        BY <1>3, <1>4
    <2>3. \A p \in S, v \in V : step[<<p, v>>] \in V
        BY <1>7
    <2> QED BY <1>2, <2>1, <2>2, <2>3, SetRecursion
<1>9. ASSUME NEW P \in SUBSET S
      PROVE  g[P] = IF P = {} THEN {}
                    ELSE g[P \ {Latest(P)}] \cup PairsOf(F, Latest(P), g[P \ {Latest(P)}])
    <2>1. CASE P = {}
        BY <1>8, <2>1 DEF Recurses
    <2>2. CASE P # {}
        <3>1. pick[P] = Latest(P) /\ Latest(P) \in S
            BY <1>3, <1>4, <2>2
        <3>2. PICK v : v = g[P \ {Latest(P)}]
            OBVIOUS
        <3>3. v \in V
            BY <3>2
        <3>4. g[P] = step[<<Latest(P), v>>]
            BY <1>8, <2>2, <3>1, <3>2 DEF Recurses
        <3>5. g[P] = v \cup PairsOf(F, Latest(P), v)
            BY <1>7, <3>1, <3>3, <3>4
        <3> QED BY <2>2, <3>2, <3>5
    <2> QED BY <2>1, <2>2
<1>10. g = [P \in SUBSET S |->
                IF P = {} THEN {}
                ELSE g[P \ {Latest(P)}] \cup PairsOf(F, Latest(P), g[P \ {Latest(P)}])]
    BY <1>9
<1>11. PICK h :
          /\ h = [P \in SUBSET S |->
                      IF P = {} THEN {}
                      ELSE h[P \ {Latest(P)}] \cup PairsOf(F, Latest(P), h[P \ {Latest(P)}])]
          /\ Pairing(F) = h[S]
    BY <1>1, <1>10, Zenon DEF Pairing, PaymentsOf
<1>12. PairsUp(F, S, h)
    BY <1>11 DEF PairsUp
<1> QED BY <1>1, <1>11, <1>12

\* For any facts: a call is discounted once, a payment discounts one call of each
\* endpoint at most, near it and of its own client and customer.
THEOREM PairingIsAMatching ==
    ASSUME NEW F, Consistent(F)
    PROVE  PairsAreAMatching(Pairing(F))
<1>1. PICK S : S = PaymentsOf(F)
    OBVIOUS
<1>2. S \subseteq F /\ IsFiniteSet(S)
    BY <1>1, FS_Subset DEF PaymentsOf, Consistent
<1>3. PICK h : Pairing(F) = h[S] /\ PairsUp(F, S, h)
    BY <1>1, PairingRecurs
<1> DEFINE Paired(P) ==
               PairsAreAMatching(h[P]) /\ \A a \in h[P] : a.payment \in P
           good == {P \in SUBSET S : Paired(P)}
<1>4. {} \in good
    BY <1>3 DEF PairsAreAMatching, PairsUp
<1>5. ASSUME NEW P \in SUBSET S, P # {}, \A x \in P : P \ {x} \in good
      PROVE  P \in good
    <2>1. PICK p : p = Latest(P)
        OBVIOUS
    <2>2. p \in P /\ p \in F
        BY <1>2, <1>5, <2>1, LatestIsLast, PartsAreConsistent
    <2>3. PICK earlier : earlier = h[P \ {p}]
        OBVIOUS
    <2>4. PICK new : new = PairsOf(F, p, earlier)
        OBVIOUS
    <2>5. h[P] = earlier \cup new
        BY <1>3, <1>5, <2>1, <2>3, <2>4 DEF PairsUp
    <2>6. PairsAreAMatching(earlier) /\ \A a \in earlier : a.payment \in P \ {p}
        BY <1>5, <2>2, <2>3
    <2>7. /\ \A a \in new : /\ a.payment = p
                            /\ a.call.client = p.client /\ a.call.psu = p.psu
                            /\ Gap(a.call, p) <= Window
                            /\ \A b \in earlier : b.call # a.call
          /\ \A a, b \in new : a # b => a.call.kind # b.call.kind
        BY <2>2, <2>4, PairsOfOne
    <2>8. \A a \in earlier, b \in new : a.call # b.call /\ a.payment # b.payment
        BY <2>6, <2>7
    <2>9. ASSUME NEW a \in h[P], NEW b \in h[P], a # b
          PROVE  a.call # b.call /\ (a.payment = b.payment => a.call.kind # b.call.kind)
        <3>1. CASE a \in earlier /\ b \in earlier
            BY <2>6, <2>9, <3>1 DEF PairsAreAMatching
        <3>2. CASE a \in earlier /\ b \in new
            BY <2>8, <3>2
        <3>3. CASE a \in new /\ b \in earlier
            BY <2>8, <3>3
        <3>4. CASE a \in new /\ b \in new
            BY <2>7, <2>9, <3>4
        <3> QED BY <2>5, <3>1, <3>2, <3>3, <3>4
    <2>10. ASSUME NEW a \in h[P]
           PROVE  /\ Gap(a.call, a.payment) <= Window
                  /\ a.call.client = a.payment.client /\ a.call.psu = a.payment.psu
        <3>1. CASE a \in earlier
            BY <2>6, <3>1 DEF PairsAreAMatching
        <3>2. CASE a \in new
            BY <2>7, <3>2
        <3> QED BY <2>5, <3>1, <3>2
    <2>11. \A a \in h[P] : a.payment \in P
        BY <2>2, <2>5, <2>6, <2>7
    <2> QED BY <2>9, <2>10, <2>11 DEF PairsAreAMatching
<1>6. \A P \in SUBSET S : P # {} /\ (\A x \in P : P \ {x} \in good) => P \in good
    BY <1>5
<1>7. S \in good
    <2> HIDE DEF good
    <2>1. \A P \in SUBSET S : P \in good
        BY <1>2, <1>4, <1>6, BySize, Zenon
    <2> QED BY <2>1
<1> QED BY <1>3, <1>7

-----------------------------------------------------------------------------
(* The free allowance. *)

\* The paged calls of F that share the allowance of e, and their lines.
OfDay(F, e) == {d \in F : Paged(d) /\ SameAllowance(d, e)}
PageLinesOf(F, P) == {PageLine(F, d) : d \in P}

\* The lines of a paged call: its pages, and the hub's fee if it is outbound.
LEMMA PagedLines ==
    ASSUME NEW F, NEW d, NEW pairs, Paged(d), d.kind = "data", d.ok
    PROVE  LinesOf(F, d, pairs) =
               (IF d.inbound THEN {} ELSE {Line(d, "payable_hub", HubClass(d, pairs), 1, 0)})
                   \cup {PageLine(F, d)}
<1>1. PICK page : page = PageLine(F, d)
    OBVIOUS
<1>2. d.data # "corporate" /\ d.kind # "payment" /\ d.kind # "free"
    BY DEF Paged, Modes
<1>3. CASE d.inbound
    BY <1>1, <1>2, <1>3 DEF LinesOf
<1>4. CASE ~d.inbound
    BY <1>1, <1>2, <1>4 DEF LinesOf
<1> QED BY <1>3, <1>4

\* Among the lines of F those are the page lines of the day.
LEMMA PageLinesAreThose ==
    ASSUME NEW F, Consistent(F), NEW e \in F
    PROVE  {l \in Metered(F).lines : /\ l.class = "data.retail_page"
                                     /\ l.id \in {d.id : d \in OfDay(F, e)}}
           = PageLinesOf(F, OfDay(F, e))
<1>1. PICK pairs : pairs = Pairing(F)
    OBVIOUS
<1>2. Metered(F).lines = UNION {LinesOf(F, d, pairs) : d \in F}
    BY <1>1 DEF Metered
<1>3. ASSUME NEW d \in F, NEW l \in LinesOf(F, d, pairs), l.class = "data.retail_page"
      PROVE  Paged(d) /\ l = PageLine(F, d) /\ l.id = d.id
    <2>1. \A side, class, units, free :
              /\ Line(d, side, class, units, free).id = d.id
              /\ Line(d, side, class, units, free).class = class
        BY DEF Line
    <2>2. HubClass(d, pairs) # "data.retail_page"
        BY DEF HubClass
    <2>3. CASE Paged(d)
        <3>1. d.kind = "data" /\ d.ok
            BY <2>3 DEF Paged
        <3>2. l = Line(d, "payable_hub", HubClass(d, pairs), 1, 0) \/ l = PageLine(F, d)
            BY <2>3, <3>1, PagedLines
        <3>3. l = PageLine(F, d)
            BY <1>3, <2>1, <2>2, <3>2
        <3> QED BY <2>1, <2>3, <3>3 DEF PageLine
    <2>4. CASE ~Paged(d)
        <3>1. \/ l = Line(d, "payable_hub", HubClass(d, pairs), 1, 0)
              \/ l = Line(d, LfiSide(d), "payment", 1, 0)
              \/ l = Line(d, LfiSide(d), "data.corporate_page", d.pages, 0)
              \/ l = Line(d, "free_to_lfi", "no_lfi_charge", 1, 0)
            BY <2>4 DEF LinesOf
        <3>2. l.class # "data.retail_page"
            BY <2>1, <2>2, <3>1
        <3> QED BY <1>3, <3>2
    <2> QED BY <2>3, <2>4
<1>4. ASSUME NEW d \in F, Paged(d)
      PROVE  /\ PageLine(F, d) \in LinesOf(F, d, pairs)
             /\ PageLine(F, d).class = "data.retail_page" /\ PageLine(F, d).id = d.id
    <2>1. d.kind = "data" /\ d.ok
        BY <1>4 DEF Paged
    <2>2. PageLine(F, d) \in LinesOf(F, d, pairs)
        BY <1>4, <2>1, PagedLines
    <2> QED BY <2>2 DEF PageLine, Line
<1>5. \A d, f \in F : d.id = f.id => d = f
    BY DEF Consistent, Conflict
<1>6. ASSUME NEW l \in Metered(F).lines, l.class = "data.retail_page",
             l.id \in {d.id : d \in OfDay(F, e)}
      PROVE  l \in PageLinesOf(F, OfDay(F, e))
    <2>1. PICK d \in F : l \in LinesOf(F, d, pairs)
        BY <1>2
    <2>2. l = PageLine(F, d) /\ l.id = d.id
        BY <1>3, <1>6, <2>1
    <2>3. PICK f \in OfDay(F, e) : l.id = f.id
        BY <1>6
    <2>4. d = f
        BY <1>5, <2>2, <2>3 DEF OfDay
    <2> QED BY <2>2, <2>3, <2>4 DEF PageLinesOf
<1>7. ASSUME NEW d \in OfDay(F, e)
      PROVE  /\ PageLine(F, d) \in Metered(F).lines
             /\ PageLine(F, d).class = "data.retail_page"
             /\ PageLine(F, d).id = d.id
    <2>1. d \in F /\ Paged(d)
        BY DEF OfDay
    <2> QED BY <1>2, <1>4, <2>1
<1> QED BY <1>6, <1>7 DEF PageLinesOf

\* What a call finds used is what was paged before it on its day.
LEMMA UsedBefore ==
    ASSUME NEW F, Consistent(F), NEW e \in F, NEW P \in SUBSET OfDay(F, e),
           \A d \in P : \A f \in OfDay(F, e) : Before(f, d) => f \in P,
           NEW x \in P, \A f \in P \ {x} : Before(f, x)
    PROVE  Used(F, x) = Pages(P \ {x})
<1>1. x \in F /\ Paged(x) /\ SameAllowance(x, e)
    BY DEF OfDay
<1>2. ASSUME NEW d \in F, Paged(d), SameAllowance(d, x), Before(d, x)
      PROVE  d \in P \ {x}
    <2>1. d \in OfDay(F, e)
        BY <1>1, <1>2 DEF OfDay, SameAllowance
    <2>2. d # x
        BY <1>2, BeforeIsAnOrder
    <2> QED BY <1>2, <2>1, <2>2
<1>3. ASSUME NEW d \in P \ {x}
      PROVE  d \in F /\ Paged(d) /\ SameAllowance(d, x) /\ Before(d, x)
    BY <1>1 DEF OfDay, SameAllowance
<1>4. {d \in F : Paged(d) /\ SameAllowance(d, x) /\ Before(d, x)} = P \ {x}
    BY <1>2, <1>3
<1> QED BY <1>4 DEF Used

LEMMA FreePagesAre ==
    ASSUME NEW F, NEW x, NEW free \in Nat, Allowance[x.data] = free, x.pages \in Nat,
           NEW u \in Nat, Used(F, x) = u
    PROVE  /\ FreePages(F, x) \in Nat
           /\ Min({free, u}) + FreePages(F, x) = Min({free, x.pages + u})
<1>1. PICK n : n = x.pages
    OBVIOUS
<1>2. PICK k : k = Min({free - u, n})
    OBVIOUS
<1>3. k = IF free - u <= n THEN free - u ELSE n
    BY <1>1, <1>2, LeastAndGreatest
<1>4. FreePages(F, x) = Max({0, k})
    BY <1>1, <1>2 DEF FreePages
<1>5. k \in Int
    BY <1>1, <1>3
<1>6. FreePages(F, x) = IF 0 <= k THEN k ELSE 0
    BY <1>4, <1>5 DEF Max
<1>7. /\ Min({free, u}) = IF free <= u THEN free ELSE u
      /\ Min({free, n + u}) = IF free <= n + u THEN free ELSE n + u
    BY <1>1, LeastAndGreatest
<1> QED BY <1>1, <1>3, <1>6, <1>7

LEMMA FreePagesAreNat ==
    ASSUME NEW F, Consistent(F), NEW x \in F, Paged(x)
    PROVE  FreePages(F, x) \in Nat
<1>1. PICK S : S = {d \in F : Paged(d) /\ SameAllowance(d, x) /\ Before(d, x)}
    OBVIOUS
<1>2. IsFiniteSet(S) /\ \A d \in S : d.pages \in Nat
    BY <1>1, FS_Subset DEF Consistent, Fact
<1>3. Used(F, x) \in Nat
    BY <1>1, <1>2, PagesAdd DEF Used
<1>4. x.pages \in Nat
    BY DEF Consistent, Fact
<1>5. Allowance[x.data] \in Nat
    BY MeteringAssumption DEF Paged
<1> QED BY <1>3, <1>4, <1>5, FreePagesAre

LEMMA FinitelyManyLines ==
    ASSUME NEW F, NEW P, IsFiniteSet(P)
    PROVE  IsFiniteSet(PageLinesOf(F, P))
<1>1. PICK f : f = [d \in P |-> PageLine(F, d)]
    OBVIOUS
<1>2. f \in Surjection(P, PageLinesOf(F, P))
    BY <1>1 DEF Surjection, PageLinesOf
<1> QED BY <1>2, FS_Surjection

\* For any facts: the free pages a customer has in a day and mode are the allowance, or
\* all the pages, whichever clients made the calls.
THEOREM AllowanceIsTheirs ==
    ASSUME NEW F, Consistent(F)
    PROVE  AllowanceIsSpentOnce(F, Metered(F).lines)
<1> SUFFICES ASSUME NEW e \in F, Paged(e)
             PROVE  FreeOf(PageLinesOf(F, OfDay(F, e)))
                        = Min({Allowance[e.data], Pages(OfDay(F, e))})
    <2>1. PICK lines : lines = Metered(F).lines
        OBVIOUS
    <2>2. \A e \in F : {l \in lines : /\ l.class = "data.retail_page"
                                      /\ l.id \in {d.id : d \in OfDay(F, e)}}
                       = PageLinesOf(F, OfDay(F, e))
        BY <2>1, PageLinesAreThose
    <2> QED BY <2>1, <2>2 DEF AllowanceIsSpentOnce, OfDay, FreeOf
<1>1. PICK D : D = OfDay(F, e)
    OBVIOUS
<1>2. PICK free : free = Allowance[e.data]
    OBVIOUS
<1>3. D \in SUBSET F /\ Consistent(D)
    BY <1>1, PartsAreConsistent DEF OfDay
<1>4. /\ \A d \in F : d.pages \in Nat
      /\ \A d \in D : Paged(d) /\ d.data = e.data
      /\ free \in Nat
    BY <1>1, <1>2, MeteringAssumption DEF Consistent, Fact, OfDay, SameAllowance, Paged
<1> DEFINE Early(P) == \A d \in P : \A f \in D : Before(f, d) => f \in P
           Spent(P) == FreeOf(PageLinesOf(F, P)) = Min({free, Pages(P)})
           good == {P \in SUBSET D : Early(P) => Spent(P)}
<1>5. {} \in good
    <2>1. PageLinesOf(F, {}) = {}
        BY DEF PageLinesOf
    <2>2. FreeOf({}) = 0
        BY FS_EmptySet, FreeAdds
    <2>3. Pages({}) = 0
        BY FS_EmptySet, PagesAdd
    <2>4. Min({free, 0}) = 0
        BY <1>4, LeastAndGreatest
    <2> QED BY <2>1, <2>2, <2>3, <2>4
<1>6. ASSUME NEW P \in SUBSET D, P # {}, \A x \in P : P \ {x} \in good, Early(P)
      PROVE  Spent(P)
    <2>1. PICK x : x = Latest(P)
        OBVIOUS
    <2>2. Consistent(P)
        BY <1>3, PartsAreConsistent
    <2>3. x \in P /\ \A f \in P \ {x} : Before(f, x)
        BY <1>6, <2>1, <2>2, LatestIsLast
    <2>4. x \in F /\ x.pages \in Nat
        BY <1>3, <1>4, <2>3
    <2>5. PICK Q : Q = P \ {x}
        OBVIOUS
    <2>6. Consistent(Q) /\ Q \in SUBSET P /\ x \notin Q
        BY <2>2, <2>5, PartsAreConsistent
    <2>7. Early(Q)
        <3>1. ASSUME NEW d \in Q, NEW f \in D, Before(f, d) PROVE f \in Q
            <4>1. f \in P
                BY <1>6, <2>6, <3>1
            <4>2. f # x
                <5>1. Before(d, x) /\ d \in F
                    BY <1>3, <2>3, <2>5
                <5>2. ~ Before(x, d)
                    BY <2>4, <5>1, BeforeIsAnOrder
                <5> QED BY <3>1, <5>2
            <4> QED BY <2>5, <4>1, <4>2
        <3> QED BY <3>1
    <2>8. FreeOf(PageLinesOf(F, Q)) = Min({free, Pages(Q)})
        BY <1>6, <2>3, <2>5, <2>7
    <2>9. Used(F, x) = Pages(Q)
        BY <1>1, <1>6, <2>3, <2>5, UsedBefore
    <2>10. Pages(P) = x.pages + Pages(Q) /\ Pages(Q) \in Nat
        <3>1. \A d \in P : d.pages \in Nat
            BY <1>3, <1>4
        <3> QED BY <2>2, <2>3, <2>5, <2>6, <3>1, PagesAdd DEF Consistent
    <2>11. PageLine(F, x).free = FreePages(F, x)
        BY DEF PageLine, Line
    <2>12. PageLinesOf(F, P) \ {PageLine(F, x)} = PageLinesOf(F, Q)
        <3>1. \A d \in P : PageLine(F, d).id = d.id
            BY DEF PageLine, Line
        <3>2. \A d \in Q : d.id # x.id
            BY <2>2, <2>3, <2>6 DEF Consistent, Conflict
        <3>3. \A d \in Q : PageLine(F, d) # PageLine(F, x)
            BY <2>3, <2>6, <3>1, <3>2
        <3> QED BY <2>5, <3>3 DEF PageLinesOf
    <2>13. FreeOf(PageLinesOf(F, P)) = PageLine(F, x).free + FreeOf(PageLinesOf(F, Q))
        <3>1. PICK L : L = PageLinesOf(F, P)
            OBVIOUS
        <3>2. IsFiniteSet(L) /\ PageLine(F, x) \in L
            BY <2>2, <2>3, <3>1, FinitelyManyLines DEF PageLinesOf, Consistent
        <3>3. \A d \in P : PageLine(F, d).free \in Nat
            <4>1. \A d \in P : PageLine(F, d).free = FreePages(F, d)
                BY DEF PageLine, Line
            <4> QED BY <1>3, <1>4, <4>1, FreePagesAreNat
        <3>4. \A l \in L : l.free \in Nat
            BY <3>1, <3>3 DEF PageLinesOf
        <3>5. FreeOf(L) = PageLine(F, x).free + FreeOf(L \ {PageLine(F, x)})
            BY <3>2, <3>4, FreeAdds
        <3> QED BY <2>12, <3>1, <3>5
    <2>14. /\ FreePages(F, x) \in Nat
           /\ Min({free, Pages(Q)}) + FreePages(F, x) = Min({free, Pages(P)})
        <3>1. PICK u : u = Pages(Q)
            OBVIOUS
        <3>2. u \in Nat /\ Used(F, x) = u
            BY <2>9, <2>10, <3>1
        <3>3. /\ FreePages(F, x) \in Nat
              /\ Min({free, u}) + FreePages(F, x) = Min({free, x.pages + u})
            <4>1. Allowance[x.data] = free /\ free \in Nat
                BY <1>2, <1>4, <2>3
            <4> QED BY <2>4, <3>2, <4>1, FreePagesAre
        <3> QED BY <2>10, <3>1, <3>3
    <2>15. Min({free, Pages(Q)}) \in Int
        BY <1>4, <2>10, LeastAndGreatest
    <2> QED BY <2>8, <2>11, <2>13, <2>14, <2>15
<1>7. \A P \in SUBSET D : P # {} /\ (\A x \in P : P \ {x} \in good) => P \in good
    BY <1>6
<1>8. D \in good
    <2> HIDE DEF good
    <2>1. IsFiniteSet(D)
        BY <1>3 DEF Consistent
    <2>2. \A P \in SUBSET D : P \in good
        BY <1>5, <1>7, <2>1, BySize, Zenon
    <2> QED BY <2>2
<1> QED BY <1>2, <1>1, <1>8

-----------------------------------------------------------------------------
(* What is stored is finite and consistent, so that it can be metered. *)

StoreInv == Consistent(events) /\ \A c \in Ingests : IsFiniteSet(ingest[c].batch)

LEMMA LoseKeepsStore ==
    ASSUME IngestIInv, StoreInv, NEW c \in Ingests, Lose(c), UNCHANGED events
    PROVE  StoreInv'
<1>1. PICK i : i = [at |-> "failed", batch |-> {}, left |-> {}, seen |-> {}]
    OBVIOUS
<1>2. ingest' = [ingest EXCEPT ![c] = i] /\ IsFiniteSet(i.batch)
    BY <1>1, FS_EmptySet DEF Lose
<1>3. \A d \in Ingests : ingest'[d] = IF d = c THEN i ELSE ingest[d]
    BY <1>2 DEF IngestIInv, IngestTypeOK
<1> QED BY <1>2, <1>3 DEF StoreInv

LEMMA MoveKeepsStore ==
    ASSUME IngestIInv, StoreInv, NEW c \in Ingests, NEW i \in Ingest,
           ingest' = [ingest EXCEPT ![c] = i], IsFiniteSet(i.batch), UNCHANGED events
    PROVE  StoreInv'
<1>1. \A d \in Ingests : ingest'[d] = IF d = c THEN i ELSE ingest[d]
    BY DEF IngestIInv, IngestTypeOK
<1> QED BY <1>1 DEF StoreInv

LEMMA StoreInvIsInductive ==
    ASSUME IngestIInv, StoreInv, [IngestNext]_ingestVars
    PROVE  StoreInv'
<1>1. ASSUME NEW c \in Ingests, NEW batch \in Batches, Deliver(c, batch) PROVE StoreInv'
    <2>1. PICK i : i = [at |-> "given", batch |-> batch, left |-> MonthsOf(batch), seen |-> {}]
        OBVIOUS
    <2>2. i \in Ingest /\ i.batch = batch /\ IsFiniteSet(batch)
        BY <2>1, BatchIsOfFacts DEF Ingest, IngestStep
    <2>3. CASE ingest' = [ingest EXCEPT ![c] = i]
        BY <1>1, <2>2, <2>3, MoveKeepsStore DEF Deliver
    <2>4. CASE Lose(c)
        BY <1>1, <2>4, LoseKeepsStore DEF Deliver
    <2> QED BY <1>1, <2>1, <2>3, <2>4 DEF Deliver
<1>2. ASSUME NEW c \in Ingests, Store(c) PROVE StoreInv'
    <2>1. CASE Lose(c) /\ UNCHANGED events
        BY <2>1, LoseKeepsStore
    <2>2. CASE /\ ~Conflict(events \cup ingest[c].batch)
               /\ IngestGoes(c, "stored") /\ events' = events \cup ingest[c].batch
        <3>1. PICK batch : batch = ingest[c].batch
            OBVIOUS
        <3>2. IsFiniteSet(batch) /\ batch \subseteq Fact
            BY <3>1, IngestAssumption DEF StoreInv, IngestIInv, IngestTypeOK, Ingest
        <3>3. Consistent(events \cup batch)
            <4>1. IsFiniteSet(events \cup batch)
                BY <3>2, FS_Union DEF StoreInv, Consistent
            <4> QED BY <2>2, <3>1, <3>2, <4>1 DEF StoreInv, Consistent
        <3>4. \A d \in Ingests : ingest'[d].batch = ingest[d].batch
            BY <2>2 DEF IngestGoes, IngestIInv, IngestTypeOK, Ingest
        <3> QED BY <2>2, <3>1, <3>3, <3>4 DEF StoreInv
    <2> QED BY <1>2, <2>1, <2>2 DEF Store
<1>3. ASSUME NEW c \in Ingests, Read(c) PROVE StoreInv'
    <2>1. events' = events /\ \A d \in Ingests : ingest'[d].batch = ingest[d].batch
        BY <1>3 DEF Read, IngestIInv, IngestTypeOK, Ingest
    <2> QED BY <2>1 DEF StoreInv
<1>4. ASSUME NEW c \in Ingests, SaveMeterRun(c) PROVE StoreInv'
    <2>1. events' = events /\ \A d \in Ingests : ingest'[d].batch = ingest[d].batch
        BY <1>4 DEF SaveMeterRun, IngestIInv, IngestTypeOK, Ingest
    <2> QED BY <2>1 DEF StoreInv
<1>5. ASSUME NEW c \in Ingests, Unmeterable(c) \/ Crash(c) PROVE StoreInv'
    BY <1>5, LoseKeepsStore DEF Unmeterable, Crash
<1>6. CASE UNCHANGED ingestVars
    BY <1>6 DEF ingestVars, StoreInv
<1> QED BY <1>1, <1>2, <1>3, <1>4, <1>5, <1>6 DEF IngestNext

LEMMA StoreIsConsistent == IngestSpec => []StoreInv
<1>1. IngestInit => StoreInv
    <2> SUFFICES ASSUME IngestInit PROVE StoreInv
        OBVIOUS
    <2>1. events = {} /\ \A c \in Ingests : ingest[c].batch = {}
        BY DEF IngestInit
    <2> QED BY <2>1, FS_EmptySet DEF StoreInv, Consistent, Conflict
<1>2. IngestIInv /\ StoreInv /\ [IngestNext]_ingestVars => StoreInv'
    BY StoreInvIsInductive
<1> QED BY <1>1, <1>2, IngestKeepsIInv, PTL DEF IngestSpec

LEMMA RunsAreConsistent ==
    ASSUME IngestIInv, StoreInv, NEW r \in runs
    PROVE  Consistent(r.facts)
<1>1. r.facts \subseteq events
    BY DEF IngestIInv, ViewInv, Views, OfMonth
<1> QED BY <1>1, PartsAreConsistent DEF StoreInv

\* Whatever is delivered, in whatever order, late or again: every run a month was ever
\* billed by discounts one call of each endpoint for a payment and no call twice.  This
\* holds of every finite set of facts that do not contradict each other
\* (PairingIsAMatching), and no run has other.
THEOREM CallsWerePairedOnce == IngestSpec => []PairedOnce
<1>1. ASSUME IngestIInv, StoreInv, NEW r \in runs
      PROVE  PairsAreAMatching(Metered(r.facts).pairs)
    <2>1. Metered(r.facts).pairs = Pairing(r.facts)
        BY DEF Metered
    <2> QED BY <1>1, <2>1, RunsAreConsistent, PairingIsAMatching
<1>2. IngestIInv /\ StoreInv => PairedOnce
    BY <1>1 DEF PairedOnce
<1> QED BY <1>2, IngestKeepsIInv, StoreIsConsistent, PTL

\* Every run a month was ever billed by gives the free pages of a customer's day once,
\* for the same reason (AllowanceIsTheirs).
THEOREM FreePagesWereGivenOnce == IngestSpec => []FreePagesGivenOnce
<1>1. ASSUME IngestIInv, StoreInv, NEW r \in runs
      PROVE  AllowanceIsSpentOnce(r.facts, Metered(r.facts).lines)
    BY <1>1, RunsAreConsistent, AllowanceIsTheirs
<1>2. IngestIInv /\ StoreInv => FreePagesGivenOnce
    BY <1>1 DEF FreePagesGivenOnce
<1> QED BY <1>2, IngestKeepsIInv, StoreIsConsistent, PTL
=============================================================================
