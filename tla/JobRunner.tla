----------------------------- MODULE JobRunner ------------------------------
(***************************************************************************)
(* What the concurrency patterns of ch41 promise: every job yields at most *)
(* one result, results only accumulate, and the call returns either with   *)
(* a result for every job or after the context was cancelled.              *)
(***************************************************************************)
EXTENDS Naturals

CONSTANT Jobs

VARIABLES
    results,    \* results[j]: results of job j the caller has or will have
    cancelled,  \* is the context cancelled?
    returned    \* has the call returned?

vars == <<results, cancelled, returned>>

Init ==
    /\ results = [j \in Jobs |-> 0]
    /\ cancelled = FALSE
    /\ returned = FALSE

Deliver(j) ==
    /\ ~returned
    /\ results[j] = 0
    /\ results' = [results EXCEPT ![j] = 1]
    /\ UNCHANGED <<cancelled, returned>>

Cancel ==
    /\ ~cancelled
    /\ cancelled' = TRUE
    /\ UNCHANGED <<results, returned>>

Return ==
    /\ ~returned
    /\ cancelled \/ \A j \in Jobs : results[j] = 1
    /\ returned' = TRUE
    /\ UNCHANGED <<results, cancelled>>

Next == (\E j \in Jobs : Deliver(j)) \/ Cancel \/ Return

Spec == Init /\ [][Next]_vars

=============================================================================
