------------------------------ MODULE Metering ------------------------------
(***************************************************************************)
(* The metering projection: packages/billing/src/metering.ts.  A set of    *)
(* gateway facts is turned into the metered lines of a month: a balance or *)
(* confirmation call near a payment of the same client and customer is     *)
(* paired with it (and costs less), and the pages of a retail data call    *)
(* use up the free allowance of the customer's day.                        *)
(*                                                                         *)
(* Fees, merchants and batches are left out: they look at one fact at a    *)
(* time, and the merchant's free value is the arithmetic of the free pages *)
(* over another key.                                                       *)
(***************************************************************************)
EXTENDS Integers, FiniteSets, FiniteSetsExt

CONSTANTS
    Clients,        \* tppId and clientId of a call
    Psus,           \* psuId of a call; all calls without one are of one member
    Lfis,           \* counterpartyLfiId of a call, no such id among them
    PerServingLfi,  \* freeTier.per: each serving LFI grants an allowance of its own
    Allowance,      \* Allowance[mode]: freeTier.attended, freeTier.unattended, in pages
    Window,         \* hub.paired.windowHours
    DayLength,      \* hours, for the clock of a small instance
    MonthLength

Modes == {"attended", "unattended"}

ASSUME MeteringAssumption ==
    /\ PerServingLfi \in BOOLEAN
    /\ Allowance \in [Modes -> Nat]
    /\ Window \in Nat
    /\ DayLength \in Nat \ {0} /\ MonthLength \in Nat \ {0}

\* What the rate card makes of an endpoint.  "hub" stands for every other one that is
\* charged, "free" for one that is not, or is unknown.
Pairable == {"balance", "confirmation"}
Kind == Pairable \cup {"payment", "data", "quote", "hub", "free"}

\* A gateway call as the projection sees it.  payment: it carries payment metadata.
\* data: the mode of a retail call or "corporate", as its data metadata say; "absent"
\* when there are none, or their span is more than 13 months.
Fact == [id : Nat, at : Nat, kind : Kind, inbound : BOOLEAN, client : Clients, psu : Psus,
         lfi : Lfis, ok : BOOLEAN, pages : Nat, payment : BOOLEAN,
         data : Modes \cup {"corporate", "absent"}]

Day(e) == e.at \div DayLength
Month(e) == e.at \div MonthLength

\* eventOrder.
Before(e, f) == e.at < f.at \/ (e.at = f.at /\ e.id < f.id)
Latest(F) == CHOOSE e \in F : \A f \in F \ {e} : Before(f, e)

\* hoursBetween.
Gap(e, f) == IF e.at < f.at THEN f.at - e.at ELSE e.at - f.at

-----------------------------------------------------------------------------
(* Pairing. *)

Nearest(p, C) ==
    CHOOSE c \in C : \A d \in C \ {c} :
        Gap(c, p) < Gap(d, p) \/ (Gap(c, p) = Gap(d, p) /\ Before(c, d))

\* The calls payment p can be paired with: its bucket, what an earlier payment took
\* apart, within the window.
Candidates(F, p, kind, taken) ==
    {c \in F : /\ c.kind = kind /\ c.ok
               /\ c.inbound = p.inbound /\ c.client = p.client /\ c.psu = p.psu
               /\ \A pair \in taken : pair.call # c
               /\ Gap(c, p) <= Window}

\* Slip: a call counts for every payment near it.
PairsOfReusing(F, p, taken) ==
    {[payment |-> p, call |-> Nearest(p, Candidates(F, p, kind, {}))] :
        kind \in {k \in Pairable : Candidates(F, p, k, {}) # {}}}

PairsOf(F, p, taken) ==
    {[payment |-> p, call |-> Nearest(p, Candidates(F, p, kind, taken))] :
        kind \in {k \in Pairable : Candidates(F, p, k, taken) # {}}}

\* The payments choose in their order, the nearest call of each endpoint first.  A
\* payment is a call that carries the metadata of one, whatever its endpoint.
Pairing(F) ==
    LET Payments == {p \in F : p.ok /\ p.payment}
        chosen[P \in SUBSET Payments] ==
            IF P = {} THEN {}
            ELSE LET p == Latest(P)
                     earlier == chosen[P \ {p}]
                 IN  earlier \cup PairsOf(F, p, earlier)
    IN  chosen[Payments]

-----------------------------------------------------------------------------
(* The free allowance. *)

Paged(e) == e.kind = "data" /\ e.ok /\ e.data \in Modes

\* The key of freeTierUsed: the customer's day and the mode, whoever calls; of an
\* outbound call the LFI that serves it too, if each grants its own.
SameAllowance(e, f) ==
    /\ e.inbound = f.inbound /\ e.psu = f.psu /\ Day(e) = Day(f) /\ e.data = f.data
    /\ ~e.inbound /\ PerServingLfi => e.lfi = f.lfi

Pages(F) == MapThenSumSet(LAMBDA e : e.pages, F)

\* Slip: each client has an allowance for the customer's day.
UsedByClient(F, e) ==
    Pages({d \in F : Paged(d) /\ SameAllowance(d, e) /\ d.client = e.client /\ Before(d, e)})

\* freeTierUsed when the turn of e comes.
Used(F, e) == Pages({d \in F : Paged(d) /\ SameAllowance(d, e) /\ Before(d, e)})

FreePages(F, e) == Max({0, Min({Allowance[e.data] - Used(F, e), e.pages})})

-----------------------------------------------------------------------------
(* The lines. *)

Line(e, side, class, units, free) ==
    [id |-> e.id, side |-> side, class |-> class, units |-> units, free |-> free]

HubClass(e, pairs) ==
    CASE e.kind = "quote" -> "hub.quote"
      [] e.kind # "quote" /\ (\E pair \in pairs : pair.call = e) -> "hub.paired"
      [] OTHER -> "hub.standard"

\* Who owes whom for what an LFI serves.
LfiSide(e) == IF e.inbound THEN "receivable" ELSE "payable_lfi"

PageLine(F, e) ==
    Line(e, LfiSide(e), "data.retail_page", e.pages - FreePages(F, e), FreePages(F, e))

\* An outbound call costs a hub fee; a payment or data call the LFI's fee on top.
LinesOf(F, e, pairs) ==
    LET charged == e.ok /\ e.kind # "free"
        hub == IF e.inbound THEN {} ELSE {Line(e, "payable_hub", HubClass(e, pairs), 1, 0)}
        lfi == CASE e.kind = "payment" -> {Line(e, LfiSide(e), "payment", 1, 0)}
                 [] Paged(e) -> {PageLine(F, e)}
                 [] e.kind = "data" /\ e.data = "corporate" ->
                       {Line(e, LfiSide(e), "data.corporate_page", e.pages, 0)}
                 [] e.inbound /\ e.kind \notin {"payment", "data"} ->
                       {Line(e, "free_to_lfi", "no_lfi_charge", 1, 0)}
                 [] OTHER -> {}
    IN  IF charged THEN hub \cup lfi ELSE {}

\* requirePayment and requireData throw: there is no projection.
Meterable(F) ==
    \A e \in F : e.ok => /\ e.kind = "payment" => e.payment
                         /\ e.kind = "data" => e.data # "absent"

\* meterBillableEvents: the lines, and the pairing it keeps as evidence.
Metered(F) ==
    LET pairs == Pairing(F)
    IN  [lines |-> UNION {LinesOf(F, e, pairs) : e \in F}, pairs |-> pairs]

\* Two deliveries under one id that do not say the same.
Conflict(F) == \E e, f \in F : e.id = f.id /\ e # f
=============================================================================
