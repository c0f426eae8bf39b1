------------------------------- MODULE MCCalls -------------------------------
(***************************************************************************)
(* Calls in which several goroutines wait for one another, for TLC: a      *)
(* behaviour is one of the server's cache of ch37 (CacheAside), of the      *)
(* token cache of ch19 (TokenSource), of the three ways to run jobs        *)
(* (WorkerPool, Pipeline and FetchAll, which keep results, context and     *)
(* return of the call in the same variables), or of a call that retries.   *)
(***************************************************************************)
EXTENDS CacheAside, JobData

CONSTANTS
    Life, Skew, Delay, MaxTime,  \* of TokenSource
    Limit, MaxRetries            \* of FetchAll and Retry

\* A token outlives its way to the client and the refresh margin.
ASSUME TokenAssumption ==
    /\ NoId \notin Getters
    /\ Life \in Nat /\ Skew \in Nat /\ Delay \in Nat /\ MaxTime \in Nat
    /\ Delay + Skew < Life

\* No more retries than have a pause that fits 64 bits: see NotPositive.
ASSUME RetryAssumption == MaxRetries \in 0..34

VARIABLES
    kind,  \* "cache", "token", "pool", "pipeline", "group" or "retry"
    now, holder, expires, token, since, issued, apart,  \* of TokenSource
    results, cancelled, returned,                       \* of the ways to run jobs
    jobs, stage, job, started,                          \* of WorkerPool
    left, generator, fan, merge, out, reading,          \* of Pipeline
    fetch, failed,                                      \* of FetchAll
    attempt, call, pause, busy                          \* of Retry

cacheVars == <<todos, cached, flight, id, found, answer, fetchCount, present,
               calls, expiries, led>>
tokenVars == <<now, holder, expires, token, since, issued, apart>>
poolVars == <<jobs, stage, job, started>>
pipelineVars == <<left, generator, fan, merge, out, reading>>
groupVars == <<fetch, failed>>
jobVars == <<results, cancelled, returned, poolVars, pipelineVars, groupVars>>
retryVars == <<attempt, call, pause, busy>>
allVars == <<kind, pc, cacheVars, tokenVars, jobVars, retryVars>>

Tokens == INSTANCE TokenSource WITH Callers <- Getters, Nobody <- NoId
Pool == INSTANCE WorkerPool WITH pc <- stage
Pipe == INSTANCE Pipeline
Group == INSTANCE FetchAll
Retrying == INSTANCE Retry WITH pc <- call

CallsInit ==
    /\ kind \in {"cache", "token", "pool", "pipeline", "group", "retry"}
    /\ Init /\ (kind # "cache" => todos = {})
    /\ Tokens!Init /\ Pool!Init /\ Pipe!Init /\ Group!Init /\ Retrying!Init

\* The behaviours of kind k take a step, and nothing but it.
Only(k, A, others) == kind = k /\ A /\ UNCHANGED <<kind, others>>

OfCache(A) == Only("cache", A, <<tokenVars, jobVars, retryVars>>)
OfTokens(A) == Only("token", A, <<cacheVars, jobVars, retryVars>>)
OfJobs(k, A, others) == Only(k, A, <<others, pc, cacheVars, tokenVars, retryVars>>)
OfPool(A) == OfJobs("pool", A, <<pipelineVars, groupVars>>)
OfPipeline(A) == OfJobs("pipeline", A, <<poolVars, groupVars>>)
OfGroup(A) == OfJobs("group", A, <<poolVars, pipelineVars>>)
OfRetry(A) == Only("retry", A, <<pc, cacheVars, tokenVars, jobVars>>)

CallsNext ==
    \/ OfCache(Next) \/ OfTokens(Tokens!Next) \/ OfPool(Pool!Next)
    \/ OfPipeline(Pipe!Next) \/ OfGroup(Group!Next) \/ OfRetry(Retrying!Next)

CallsSteps == CallsInit /\ [][CallsNext]_allVars

\* The fairness of the FairSpec of each module; those of two kinds are one formula.
CallsSpec ==
    /\ CallsSteps
    /\ \A g \in Getters :
          /\ WF_allVars(OfCache(Step(g)) \/ OfTokens(Tokens!Return(g) \/ Tokens!Issue(g)))
          /\ SF_allVars(OfTokens(Tokens!Lock(g)))
    /\ \A w \in Workers :
          WF_allVars(OfPool(Pool!Step(w)) \/ OfPipeline(Pipe!Stage(w)))
    /\ WF_allVars(OfPool(Pool!RunReturns) \/ OfPipeline(Pipe!GenerateClose)
                  \/ OfGroup(\E j \in Jobs : Group!Step(j)))
    /\ WF_allVars(OfPipeline(Pipe!CloseOut) \/ OfGroup(Group!Return))
    /\ WF_allVars(OfPipeline(Pipe!CollectReturns) \/ OfRetry(Retrying!Step))

-----------------------------------------------------------------------------
(* Properties *)

\* The types of the module whose behaviour it is.  Channels hold a job once, and
\* no job has a second result.
CallsTypeOK ==
    CASE kind = "cache" -> TypeOK
      [] kind = "token" -> Tokens!TypeOK
      [] kind = "retry" -> Retrying!TypeOK
      [] OTHER -> Pool!TypeOK /\ Pipe!TypeOK /\ Group!TypeOK

\* AnswersAreSound is that of CacheAside.

\* Each cache asks its source no more often than it must: see CacheAside and
\* TokenSource.
FetchesFew == FetchesBounded /\ Tokens!RefreshesApart

\* See TokenSource.
TokensArriveValid == kind = "token" => Tokens!TokensArriveValid

\* "In-flight jobs complete", and a nil error comes with all results: see
\* WorkerPool and FetchAll.
ResultsComplete ==
    /\ kind = "pool" => Pool!InFlightCompletes
    /\ kind = "group" => Group!FetchedAll

\* See Retry.
RetriesJustified == Retrying!RetriesJustified

\* Run, Collect on a pipeline, and FetchUsers keep what JobRunner promises.
RunnerSpec == Pool!RunnerSpec

\* Get, Token, Run, FetchUsers and do return: a shared fetch, a mutex held during
\* a fetch, room in the results channel or a place in the group come in the end,
\* and retries come to an end.
CallsReturn ==
    /\ kind = "cache" => EveryGetReturns
    /\ kind = "token" => Tokens!EveryTokenReturns
    /\ kind = "pool" => Pool!RunEnds
    /\ kind = "group" => Group!FetchEnds
    /\ kind = "retry" => Retrying!CallEnds

\* No goroutine of the pipeline leaks: after a cancellation all end, even when
\* nobody reads, and without one they end if the consumer reads on.
NoGoroutineLeaks ==
    kind = "pipeline" => Pipe!CancelEndsAll /\ Pipe!ReadingEndsAll

=============================================================================
