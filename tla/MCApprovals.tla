---------------------------- MODULE MCApprovals ----------------------------
(* One human under two spellings and two others, four overlapping calls. *)
EXTENDS Approvals, TLC

CONSTANTS alice, Alice, bob

MCPrincipals == {alice, Alice, bob}
MCHuman == (alice :> "alice") @@ (Alice :> "alice") @@ (bob :> "bob")
MCInitiators == {alice}
MCApprovers == {Alice, bob}
Symmetry == Permutations(Calls)
=============================================================================
