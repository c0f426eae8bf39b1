------------------------------ MODULE FetchAll ------------------------------
(***************************************************************************)
(* FetchUsers and FetchRepos of ch15_goroutines: one goroutine per input   *)
(* in an errgroup with a limit.  The first error cancels the context of    *)
(* the group, and Wait turns any error into an answer without results.     *)
(***************************************************************************)
EXTENDS JobData, FiniteSets

CONSTANT Limit  \* SetLimit(maxConcurrent); 0 when there is none

VARIABLES
    fetch,      \* fetch[j]: the goroutine of input j
    failed,     \* has a goroutine returned an error?
    results,    \* results[j] = 1 once slot j of the slice is filled
    cancelled,  \* is the group's context cancelled?
    returned    \* has FetchUsers returned?

vars == <<fetch, failed, results, cancelled, returned>>

TypeOK ==
    /\ fetch \in [Jobs -> {"new", "ready", "sent", "done"}]
    /\ failed \in BOOLEAN
    /\ results \in [Jobs -> {0, 1}]
    /\ cancelled \in BOOLEAN /\ returned \in BOOLEAN

Init ==
    /\ fetch = [j \in Jobs |-> "new"]
    /\ failed = FALSE
    /\ results = [j \in Jobs |-> 0]
    /\ cancelled = FALSE
    /\ returned = FALSE

Running == {j \in Jobs : fetch[j] \in {"ready", "sent"}}

Goto(j, l) == fetch' = [fetch EXCEPT ![j] = l]

\* g.Go waits for a free place, whether or not the context is cancelled.
Go(j) ==
    /\ fetch[j] = "new"
    /\ Limit = 0 \/ Cardinality(Running) < Limit
    /\ Goto(j, "ready")
    /\ UNCHANGED <<failed, results, cancelled, returned>>

\* A request is not sent on a cancelled context.
Send(j) ==
    /\ fetch[j] = "ready"
    /\ ~cancelled
    /\ Goto(j, "sent")
    /\ UNCHANGED <<failed, results, cancelled, returned>>

\* users[i] = user.  A request on its way may succeed after a cancellation.
Receive(j) ==
    /\ fetch[j] = "sent"
    /\ Goto(j, "done")
    /\ results' = [results EXCEPT ![j] = @ + 1]
    /\ UNCHANGED <<failed, cancelled, returned>>

\* Mutation of Fail: the goroutine returns nil after an error.
FailQuietly(j) ==
    /\ fetch[j] = "sent" \/ (fetch[j] = "ready" /\ cancelled)
    /\ Goto(j, "done")
    /\ cancelled' = TRUE
    /\ UNCHANGED <<failed, results, returned>>

\* The goroutine returns an error: that of the server, of the network or of the
\* context.  The first one cancels the context.
Fail(j) ==
    /\ fetch[j] = "sent" \/ (fetch[j] = "ready" /\ cancelled)
    /\ Goto(j, "done")
    /\ failed' = TRUE
    /\ cancelled' = TRUE
    /\ UNCHANGED <<results, returned>>

\* g.Wait: every goroutine has ended.
Return ==
    /\ ~returned
    /\ \A j \in Jobs : fetch[j] = "done"
    /\ returned' = TRUE
    /\ UNCHANGED <<fetch, failed, results, cancelled>>

\* The caller cancels its own context.
Cancel ==
    /\ ~cancelled
    /\ cancelled' = TRUE
    /\ UNCHANGED <<fetch, failed, results, returned>>

Step(j) == Go(j) \/ Send(j) \/ Receive(j) \/ Fail(j)

Next == (\E j \in Jobs : Step(j)) \/ Return \/ Cancel

Spec == Init /\ [][Next]_vars

\* Goroutines run, and every request is answered or fails.
FairSpec == Spec /\ WF_vars(Return) /\ WF_vars(\E j \in Jobs : Step(j))

-----------------------------------------------------------------------------
(* Properties *)

\* FetchUsers keeps what JobRunner promises, a cancellation being that of the
\* group: it returns with a slot empty only after an error or a cancellation.
Runner == INSTANCE JobRunner

RunnerSpec == Runner!Spec

\* github.go: a nil error comes with a result in every slot of the slice.
FetchedAll == returned /\ ~failed => \A j \in Jobs : results[j] = 1

\* FetchUsers returns, with a place for each goroutine or with a limit.
FetchEnds == <>returned

=============================================================================
