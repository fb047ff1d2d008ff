------------------------ MODULE ReconciliationEngine ------------------------
(***************************************************************************)
(* The three-way match and the detection of breaks, line by line:          *)
(* services/bff/src/reconciliation/engine.ts, fee-schedule.ts, breaks.ts   *)
(* and thresholds.ts.  Lines are matched by reference, so one record tells *)
(* what the three sources hold about one reference.  Everything is AED.    *)
(***************************************************************************)
EXTENDS Integers

CONSTANT None       \* a source has no such line

\* FEE_SCHEDULE_V1, in thousandths of a fil; nebras_fees has no rate.
Rate == [payment_settlement |-> 2500, consent_record |-> 500, lfi_access_log |-> 25,
         tpp_aas_pass_through |-> 25, dao_api_call |-> 25]
Priced == DOMAIN Rate
LineType == Priced \cup {"nebras_fees"}

\* Nebras' fee in fils, the bank's call count and whether the calls succeeded,
\* whether the fintech was billed, whether a Nebras dispute is open.
Line == [type : LineType, nebras : Int \cup {None}, calls : Nat \cup {None},
         success : BOOLEAN, fintech : BOOLEAN, disputed : BOOLEAN]

Limits == [LineType -> Nat]

DefaultLimits == [t \in LineType |-> IF t = "consent_record" THEN 0 ELSE 1]

-----------------------------------------------------------------------------
\* Only calls that succeeded are reconciled.
Metered(s) == s.calls # None /\ s.success

InUniverse(s) == Metered(s) \/ s.nebras # None

\* applyFeeScheduleV1 throws, and with it the run, when the fee is not whole fils.
Corrupt(s) ==
    /\ Metered(s) /\ ~s.disputed /\ s.type \in Priced
    /\ (Rate[s.type] * s.calls) % 1000 # 0

Fee(s) == (Rate[s.type] * s.calls) \div 1000

\* A source that should have the line has not.
Missing(s) ==
    \/ s.nebras = None
    \/ ~Metered(s)
    \/ s.type = "tpp_aas_pass_through" /\ ~s.fintech

\* What Nebras charges is taken as billed for nebras_fees.
Variance(s) == IF Missing(s) \/ s.type \notin Priced THEN 0 ELSE s.nebras - Fee(s)

Unmatched(s) == ~s.disputed /\ (Missing(s) \/ Variance(s) # 0)

Abs(n) == IF n < 0 THEN -n ELSE n

\* Slip: overcharges only.
ExceedsUpwards(s, limits) ==
    IF s.type = "consent_record"
    THEN 1 > limits[s.type]
    ELSE Missing(s) \/ Variance(s) > limits[s.type]

\* A drifted consent counts one; a missing line always exceeds a fee limit.
Exceeds(s, limits) ==
    IF s.type = "consent_record"
    THEN 1 > limits[s.type]
    ELSE Missing(s) \/ Abs(Variance(s)) > limits[s.type]

\* detectBreaks over the lines of a run.
Detected(book, limits) ==
    {l \in DOMAIN book :
        InUniverse(book[l]) /\ Unmatched(book[l]) /\ Exceeds(book[l], limits)}

\* Who is told: Operations of consents, Finance of fees.
Team(s) == IF s.type = "consent_record" THEN "operations" ELSE "finance"

-----------------------------------------------------------------------------
(* The reference: what is charged against what is owed, in thousandths of a *)
(* fil, with no matching.                                                   *)

Charged(s) == IF s.nebras = None THEN 0 ELSE 1000 * s.nebras
Owed(s) == IF s.calls # None /\ s.success THEN Rate[s.type] * s.calls ELSE 0

\* On one side's books only, or passed through to nobody.
Unseen(s) ==
    \/ (s.nebras = None) # ~(s.calls # None /\ s.success)
    \/ s.type = "tpp_aas_pass_through" /\ s.nebras # None /\ ~s.fintech

\* How far the line is off, in thousandths of a fil.
Off(s) == IF s.type \in Priced THEN Abs(Charged(s) - Owed(s)) ELSE 0

\* PRD BACKOFFICE-02: a variance above the limit is a break, and so is a line
\* one of the sources does not know; a consent that drifted counts one.
Due(s, limits) ==
    /\ ~s.disputed
    /\ IF s.type = "consent_record"
       THEN (Unseen(s) \/ Off(s) # 0) /\ limits[s.type] < 1
       ELSE Unseen(s) \/ Off(s) > 1000 * limits[s.type]
=============================================================================
