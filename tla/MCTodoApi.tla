----------------------------- MODULE MCTodoApi -----------------------------
(* Instances of TodoApi for TLC. *)
EXTENDS TodoApi, TLC

CONSTANTS c1, c2, u1, u2

MCConns == {c1, c2}
MCUsers == {u1, u2}

Symmetry == Permutations(MCConns) \cup Permutations(MCUsers)

=============================================================================
