----------------------------- MODULE MCAccounts -----------------------------
(* Instances of Accounts for TLC. *)
EXTENDS Accounts, TLC

CONSTANTS c1, c2, alice, bob

MCConns == {c1, c2}
MCNames == {alice, bob}

Symmetry == Permutations(MCConns) \cup Permutations(MCNames)

=============================================================================
