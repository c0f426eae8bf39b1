-------------------------- MODULE WorkerPoolProofs --------------------------
(***************************************************************************)
(* WorkerPool implements JobRunner and completes what is in flight, for    *)
(* every set of jobs and every non-empty set of workers.  The invariant    *)
(* follows a job: it is in the channel, with one worker, or in results, or *)
(* it was dropped by a worker that saw the cancellation.                   *)
(***************************************************************************)
EXTENDS WorkerPool, TLAPS

\* Where a job can be, and that it is nowhere twice.
OnePlace ==
    /\ \A j \in jobs : results[j] = 0 /\ j \notin started /\ \A w \in Workers : job[w] # j
    /\ \A v, w \in Workers : job[v] = job[w] /\ job[v] # Nothing => v = w
    /\ \A w \in Workers : job[w] = Nothing <=> pc[w] \in {"range", "done"}
    /\ \A w \in Workers : job[w] # Nothing => results[job[w]] = 0

\* The jobs fn was called for are those with a result or in flight.
StartedJobs ==
    /\ \A w \in Workers : pc[w] = "check" => job[w] \notin started
    /\ \A w \in Workers : pc[w] \in {"fn", "send"} => job[w] \in started
    /\ \A j \in started :
          results[j] = 1 \/ \E w \in Workers : job[w] = j /\ pc[w] \in {"fn", "send"}
    /\ \A j \in Jobs : results[j] = 1 => j \in started

\* Without a cancellation no job is dropped and no worker ends early.
NoneDropped ==
    /\ ~cancelled => \A j \in Jobs :
          j \in jobs \/ results[j] = 1 \/ \E w \in Workers : job[w] = j
    /\ \A w \in Workers : pc[w] = "done" => jobs = {} \/ cancelled
    /\ returned => \A w \in Workers : pc[w] = "done"

Inv == TypeOK /\ OnePlace /\ StartedJobs /\ NoneDropped

LEMMA InitInv == Init => Inv
<1> SUFFICES ASSUME Init PROVE Inv
  OBVIOUS
<1>1. TypeOK
  BY DEF Init, TypeOK
<1>2. OnePlace
  BY JobAssumption DEF Init, OnePlace
<1>3. StartedJobs /\ NoneDropped
  BY DEF Init, StartedJobs, NoneDropped
<1> QED BY <1>1, <1>2, <1>3 DEF Inv

\* One step per action; each says what becomes of the job it is about.
LEMMA StepInv == Inv /\ [Next]_vars => Inv'
<1> SUFFICES ASSUME Inv, [Next]_vars PROVE Inv'
  OBVIOUS
<1> USE JobAssumption DEF Inv
<1>1. ASSUME NEW w \in Workers, NEW j \in Jobs, Take(w, j) PROVE Inv'
  BY <1>1 DEF Take, Goto, TypeOK, OnePlace, StartedJobs, NoneDropped
<1>2. ASSUME NEW w \in Workers, Drained(w) PROVE Inv'
  BY <1>2 DEF Drained, Goto, TypeOK, OnePlace, StartedJobs, NoneDropped
<1>3. ASSUME NEW w \in Workers, Start(w) PROVE Inv'
  BY <1>3 DEF Start, Goto, TypeOK, OnePlace, StartedJobs, NoneDropped
<1>4. ASSUME NEW w \in Workers, Break(w) PROVE Inv'
  BY <1>4 DEF Break, Goto, TypeOK, OnePlace, StartedJobs, NoneDropped
<1>5. ASSUME NEW w \in Workers, Finish(w) PROVE Inv'
  BY <1>5 DEF Finish, Goto, TypeOK, OnePlace, StartedJobs, NoneDropped
<1>6. ASSUME NEW w \in Workers, SendResult(w) PROVE Inv'
  BY <1>6 DEF SendResult, Goto, TypeOK, OnePlace, StartedJobs, NoneDropped
<1>7. CASE RunReturns
  BY <1>7 DEF RunReturns, TypeOK, OnePlace, StartedJobs, NoneDropped
<1>8. CASE Cancel
  BY <1>8 DEF Cancel, TypeOK, OnePlace, StartedJobs, NoneDropped
<1>9. CASE UNCHANGED vars
  BY <1>9 DEF vars, TypeOK, OnePlace, StartedJobs, NoneDropped
<1> QED
  BY <1>1, <1>2, <1>3, <1>4, <1>5, <1>6, <1>7, <1>8, <1>9 DEF Next, Step

LEMMA InvAlways == Spec => []Inv
BY InitInv, StepInv, PTL DEF Spec

\* Types: in particular a job never has two results.
THEOREM PoolTypes == Spec => []TypeOK
<1>1. Inv => TypeOK
  BY DEF Inv
<1> QED BY InvAlways, <1>1, PTL

\* concurrency.go: "in-flight jobs complete".  When Run returns, the jobs with
\* a result are exactly those fn was called for.
THEOREM InFlightJobsComplete == Spec => []InFlightCompletes
<1>1. Inv => InFlightCompletes
  <2> SUFFICES ASSUME Inv, returned, NEW j \in Jobs
               PROVE  results[j] = IF j \in started THEN 1 ELSE 0
    BY DEF InFlightCompletes
  <2>1. \A w \in Workers : pc[w] = "done"
    BY DEF Inv, NoneDropped
  <2>2. CASE j \in started
    BY <2>1, <2>2 DEF Inv, StartedJobs
  <2>3. CASE j \notin started
    BY <2>3 DEF Inv, StartedJobs, TypeOK
  <2> QED BY <2>2, <2>3
<1> QED BY InvAlways, <1>1, PTL

\* Every step is one of the job runner, or leaves its variables alone.
LEMMA RunnerStep == Inv /\ [Next]_vars => [Runner!Next]_(Runner!vars)
<1> SUFFICES ASSUME Inv, [Next]_vars PROVE [Runner!Next]_(Runner!vars)
  OBVIOUS
<1>1. ASSUME NEW w \in Workers, Step(w) PROVE Runner!Next \/ UNCHANGED Runner!vars
  <2>1. CASE SendResult(w)
    <3>1. job[w] \in Jobs /\ results[job[w]] = 0 /\ ~returned
      BY <2>1 DEF SendResult, Inv, TypeOK, OnePlace, NoneDropped
    <3>2. results' = [results EXCEPT ![job[w]] = 1]
      <4>1. results[job[w]] + 1 = 1
        BY <3>1
      <4> QED BY <2>1, <4>1 DEF SendResult
    <3>3. Runner!Deliver(job[w])
      BY <2>1, <3>1, <3>2 DEF SendResult, Runner!Deliver
    <3> QED BY <3>1, <3>3 DEF Runner!Next
  <2>2. CASE ~SendResult(w)
    BY <1>1, <2>2 DEF Step, Take, Drained, Start, Break, Finish, Runner!vars
  <2> QED BY <2>1, <2>2
<1>2. CASE RunReturns
  <2>1. cancelled \/ \A j \in Jobs : results[j] = 1
    <3> SUFFICES ASSUME ~cancelled, NEW j \in Jobs PROVE results[j] = 1
      OBVIOUS
    <3>1. PICK w \in Workers : pc[w] = "done"
      BY <1>2, JobAssumption DEF RunReturns
    <3>2. jobs = {} /\ \A v \in Workers : job[v] = Nothing
      BY <1>2, <3>1 DEF RunReturns, Inv, NoneDropped, OnePlace
    <3> QED BY <3>2, JobAssumption DEF Inv, NoneDropped
  <2> QED BY <1>2, <2>1 DEF RunReturns, Runner!Next, Runner!Return
<1>3. CASE Cancel
  <2>1. Runner!Cancel
    BY <1>3 DEF Cancel, Runner!Cancel
  <2> QED BY <2>1 DEF Runner!Next
<1>4. CASE UNCHANGED vars
  BY <1>4 DEF vars, Runner!vars
<1> QED BY <1>1, <1>2, <1>3, <1>4 DEF Next

\* Run implements the abstract job runner: one result per job at most, and
\* without a cancellation it returns with all of them.
THEOREM PoolRunsJobs == Spec => RunnerSpec
<1>1. Init => Runner!Init
  BY DEF Init, Runner!Init
<1> QED BY InvAlways, <1>1, RunnerStep, PTL DEF Spec, RunnerSpec, Runner!Spec

=============================================================================
