----------------------------- MODULE WorkerPool -----------------------------
(***************************************************************************)
(* WorkerPool.Run of ch41_concurrency_patterns: all inputs are put into a  *)
(* buffered channel, the workers take them from it, and Run waits for the  *)
(* workers before it reads the results.                                    *)
(***************************************************************************)
EXTENDS JobData

VARIABLES
    jobs,       \* the jobs channel, filled and closed before the workers start
    pc,         \* pc[w]: what worker w does next
    job,        \* job[w]: the job it holds
    results,    \* results[j]: how often j is in the results channel
    cancelled,  \* is ctx cancelled?
    returned,   \* has Run returned?
    started     \* history: the jobs fn was called for

vars == <<jobs, pc, job, results, cancelled, returned, started>>

TypeOK ==
    /\ jobs \subseteq Jobs
    /\ pc \in [Workers -> {"range", "check", "fn", "send", "done"}]
    /\ job \in [Workers -> Jobs \cup {Nothing}]
    /\ results \in [Jobs -> {0, 1}]
    /\ cancelled \in BOOLEAN /\ returned \in BOOLEAN
    /\ started \subseteq Jobs

Init ==
    /\ jobs = Jobs
    /\ pc = [w \in Workers |-> "range"]
    /\ job = [w \in Workers |-> Nothing]
    /\ results = [j \in Jobs |-> 0]
    /\ cancelled = FALSE
    /\ returned = FALSE
    /\ started = {}

Goto(w, l) == pc' = [pc EXCEPT ![w] = l]

\* for in := range jobs.  Which job comes next does not matter here.
Take(w, j) ==
    /\ pc[w] = "range"
    /\ j \in jobs
    /\ jobs' = jobs \ {j}
    /\ job' = [job EXCEPT ![w] = j]
    /\ Goto(w, "check")
    /\ UNCHANGED <<results, cancelled, returned, started>>

Drained(w) ==
    /\ pc[w] = "range"
    /\ jobs = {}
    /\ Goto(w, "done")
    /\ UNCHANGED <<jobs, job, results, cancelled, returned, started>>

\* ctx.Err() = nil: fn is called.
Start(w) ==
    /\ pc[w] = "check"
    /\ ~cancelled
    /\ started' = started \cup {job[w]}
    /\ Goto(w, "fn")
    /\ UNCHANGED <<jobs, job, results, cancelled, returned>>

\* ctx.Err() # nil: break, and the job the worker holds is dropped.
Break(w) ==
    /\ pc[w] = "check"
    /\ cancelled
    /\ job' = [job EXCEPT ![w] = Nothing]
    /\ Goto(w, "done")
    /\ UNCHANGED <<jobs, results, cancelled, returned, started>>

\* fn returns, with a value or an error.
Finish(w) ==
    /\ pc[w] = "fn"
    /\ Goto(w, "send")
    /\ UNCHANGED <<jobs, job, results, cancelled, returned, started>>

\* Mutation of SendResult: the results channel is unbuffered, and nobody reads
\* it before the workers are done.
SendUnbuffered(w) ==
    /\ pc[w] = "send"
    /\ returned
    /\ results' = [results EXCEPT ![job[w]] = @ + 1]
    /\ job' = [job EXCEPT ![w] = Nothing]
    /\ Goto(w, "range")
    /\ UNCHANGED <<jobs, cancelled, returned, started>>

\* results <- Result{...}; the channel has room for every result.
SendResult(w) ==
    /\ pc[w] = "send"
    /\ results' = [results EXCEPT ![job[w]] = @ + 1]
    /\ job' = [job EXCEPT ![w] = Nothing]
    /\ Goto(w, "range")
    /\ UNCHANGED <<jobs, cancelled, returned, started>>

\* wg.Wait(), then the results are read.
RunReturns ==
    /\ ~returned
    /\ \A w \in Workers : pc[w] = "done"
    /\ returned' = TRUE
    /\ UNCHANGED <<jobs, pc, job, results, cancelled, started>>

Cancel ==
    /\ ~cancelled
    /\ cancelled' = TRUE
    /\ UNCHANGED <<jobs, pc, job, results, returned, started>>

Step(w) ==
    \/ \E j \in Jobs : Take(w, j)
    \/ Drained(w) \/ Start(w) \/ Break(w) \/ Finish(w) \/ SendResult(w)

Next ==
    \/ \E w \in Workers : Step(w)
    \/ RunReturns
    \/ Cancel

Spec == Init /\ [][Next]_vars

\* Every goroutine runs, and every call of fn ends.
FairSpec == Spec /\ WF_vars(RunReturns) /\ \A w \in Workers : WF_vars(Step(w))

-----------------------------------------------------------------------------
(* Properties *)

\* Run keeps what JobRunner promises: no job yields two results, and without a
\* cancellation Run returns a result for every input.
Runner == INSTANCE JobRunner

RunnerSpec == Runner!Spec

\* concurrency.go: "Cancelling ctx stops accepting new work but in-flight jobs
\* complete."  Every job fn was called for has exactly one result when Run
\* returns, and a job dropped after its worker took it has none.
InFlightCompletes ==
    returned => \A j \in Jobs : results[j] = IF j \in started THEN 1 ELSE 0

\* Run returns: no worker waits for room in the results channel.
RunEnds == <>returned

=============================================================================
