-------------------------- MODULE MCRateCardWatch --------------------------
(* One page, two runs that may overlap, and a tenant whose configuration is
   edited, and edited back, under the version its card has. *)
EXTENDS RateCardWatch

CONSTANTS base, edited, v1

MCVersionOf == [k \in Cards |-> v1]
============================================================================
