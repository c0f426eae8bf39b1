----------------------------- MODULE MCWebhooks -----------------------------
(* Instances of Webhooks for TLC. *)
EXTENDS Webhooks, TLC

CONSTANTS h1, h2, w1, w2

OneHandler == {h1}
OneWorker == {w1}
TwoHandlers == {h1, h2}
TwoWorkers == {w1, w2}

Symmetry == Permutations(Handlers) \cup Permutations(Workers)

=============================================================================
