-------------------------- MODULE MCMeteringIngest --------------------------
(* A payment and a free call with payment metadata that compete for one balance
   call; the data calls of two clients for one customer, which share the day's
   attended allowance, an unattended one with its own, and two outbound ones whose
   serving LFIs grant one each; one of the calls told again of another month, and
   a payment of that month without its metadata.  A call is given one fact or
   two: the balance and its payment, two payments, two calls of a day, facts of
   two months, two stories under one id. *)
EXTENDS MeteringIngest, TLC

CONSTANTS t1, t2, psu, l1, l2

MCAllowance == [mode \in Modes |-> IF mode = "attended" THEN 3 ELSE 1]

Call0(id, at, kind) ==
    [id |-> id, at |-> at, kind |-> kind, inbound |-> FALSE, client |-> t1, psu |-> psu,
     lfi |-> l1, ok |-> TRUE, pages |-> 0, payment |-> FALSE, data |-> "absent"]

Paying(id, at, kind) == [Call0(id, at, kind) EXCEPT !.payment = TRUE]

Data(id, at, client, mode) ==
    [Call0(id, at, "data") EXCEPT !.inbound = TRUE, !.client = client, !.pages = 2,
                                  !.data = mode]

balance == Call0(1, 2, "balance")
payment == Paying(2, 3, "payment")
freeCall == Paying(3, 4, "free")
attended == Data(4, 4, t1, "attended")
unattended == Data(5, 5, t2, "unattended")
shared == Data(6, 5, t2, "attended")
retold == Data(6, 13, t2, "attended")
bare == Call0(7, 13, "payment")
served == [Data(8, 4, t1, "attended") EXCEPT !.inbound = FALSE]
elsewhere == [Data(9, 5, t1, "attended") EXCEPT !.inbound = FALSE, !.lfi = l2]

MCFacts == {balance, payment, freeCall, attended, unattended, shared, retold, bare,
            served, elsewhere}

MCBatches ==
    {{e} : e \in MCFacts} \cup
    {{balance, payment}, {payment, freeCall}, {attended, shared}, {unattended, shared},
     {attended, retold}, {shared, retold}, {balance, bare}, {served, elsewhere}}

Symmetry == Permutations(Ingests)
=============================================================================
