---------------------------- MODULE MCInvoicing ----------------------------
(* One billing file matched by two calls, and two approval requests that may
   name either of its invoice runs. *)
EXTENDS Invoicing, TLC

Symmetry == Permutations(Requests) \cup Permutations(People)
                \cup Permutations(Matches) \cup Permutations(InvoiceRuns)
============================================================================
