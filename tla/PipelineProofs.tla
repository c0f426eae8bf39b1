--------------------------- MODULE PipelineProofs ---------------------------
(***************************************************************************)
(* The pipeline implements JobRunner, for every set of items and every     *)
(* non-empty set of workers.  The invariant says that an item is in one    *)
(* place, and that without a cancellation the stages close from first to   *)
(* last, so that a closed output means that every item went through.       *)
(***************************************************************************)
EXTENDS Pipeline, TLAPS

OnePlace ==
    /\ \A j \in left : results[j] = 0 /\ \A w \in Workers : fan[w] # j /\ merge[w] # j
    /\ \A v, w \in Workers : fan[v] = fan[w] /\ fan[v] \in Jobs => v = w
    /\ \A v, w \in Workers : merge[v] = merge[w] /\ merge[v] \in Jobs => v = w
    /\ \A v, w \in Workers : fan[v] \in Jobs => fan[v] # merge[w]
    /\ \A w \in Workers : fan[w] \in Jobs => results[fan[w]] = 0
    /\ \A w \in Workers : merge[w] \in Jobs => results[merge[w]] = 0

NoneLost ==
    ~cancelled => \A j \in Jobs :
        j \in left \/ results[j] = 1 \/ \E w \in Workers : fan[w] = j \/ merge[w] = j

ClosedInOrder ==
    /\ generator = Closed => left = {} \/ cancelled
    /\ \A w \in Workers : fan[w] = Closed => generator = Closed \/ cancelled
    /\ \A w \in Workers : merge[w] = Closed => fan[w] = Closed \/ cancelled
    /\ out = Closed => \A w \in Workers : merge[w] = Closed
    /\ returned => out = Closed /\ ~reading

Inv == TypeOK /\ OnePlace /\ NoneLost /\ ClosedInOrder

LEMMA InitInv == Init => Inv
<1> SUFFICES ASSUME Init PROVE Inv
  OBVIOUS
<1>1. TypeOK
  BY DEF Init, TypeOK
<1>2. OnePlace
  BY JobAssumption DEF Init, OnePlace
<1>3. NoneLost
  BY DEF Init, NoneLost
<1>4. ClosedInOrder
  BY JobAssumption DEF Init, ClosedInOrder
<1> QED BY <1>1, <1>2, <1>3, <1>4 DEF Inv

LEMMA StepInv == Inv /\ [Next]_vars => Inv'
<1> SUFFICES ASSUME Inv, [Next]_vars PROVE Inv'
  OBVIOUS
<1> USE JobAssumption DEF Inv
<1>1. ASSUME NEW w \in Workers, NEW j \in Jobs, GenerateSend(w, j) PROVE Inv'
  BY <1>1 DEF GenerateSend, TypeOK, OnePlace, NoneLost, ClosedInOrder
<1>2. ASSUME NEW w \in Workers, FanSend(w) PROVE Inv'
  BY <1>2 DEF FanSend, TypeOK, OnePlace, NoneLost, ClosedInOrder
<1>3. ASSUME NEW w \in Workers, FanClose(w) PROVE Inv'
  BY <1>3 DEF FanClose, TypeOK, OnePlace, NoneLost, ClosedInOrder
<1>4. ASSUME NEW w \in Workers, MergeSend(w) PROVE Inv'
  BY <1>4 DEF MergeSend, TypeOK, OnePlace, NoneLost, ClosedInOrder
<1>5. ASSUME NEW w \in Workers, MergeClose(w) PROVE Inv'
  BY <1>5 DEF MergeClose, TypeOK, OnePlace, NoneLost, ClosedInOrder
<1>6. CASE GenerateClose
  BY <1>6 DEF GenerateClose, TypeOK, OnePlace, NoneLost, ClosedInOrder
<1>7. CASE CloseOut
  BY <1>7 DEF CloseOut, TypeOK, OnePlace, NoneLost, ClosedInOrder
<1>8. CASE CollectReturns
  BY <1>8 DEF CollectReturns, TypeOK, OnePlace, NoneLost, ClosedInOrder
<1>9. CASE StopReading
  BY <1>9 DEF StopReading, TypeOK, OnePlace, NoneLost, ClosedInOrder
<1>10. CASE Cancel
  BY <1>10 DEF Cancel, TypeOK, OnePlace, NoneLost, ClosedInOrder
<1>11. CASE UNCHANGED vars
  BY <1>11 DEF vars, TypeOK, OnePlace, NoneLost, ClosedInOrder
<1> QED
  BY <1>1, <1>2, <1>3, <1>4, <1>5, <1>6, <1>7, <1>8, <1>9, <1>10, <1>11
  DEF Next, Stage

LEMMA InvAlways == Spec => []Inv
BY InitInv, StepInv, PTL DEF Spec

\* Types: in particular no item is received twice.
THEOREM PipelineTypes == Spec => []TypeOK
<1>1. Inv => TypeOK
  BY DEF Inv
<1> QED BY InvAlways, <1>1, PTL

\* Without a cancellation, a closed output means that everything arrived.
LEMMA ClosedMeansAll ==
  ASSUME Inv, out = Closed, ~cancelled, NEW j \in Jobs PROVE results[j] = 1
<1>1. \A w \in Workers : merge[w] = Closed /\ fan[w] = Closed
  BY DEF Inv, ClosedInOrder
<1>2. generator = Closed /\ left = {}
  BY <1>1, JobAssumption DEF Inv, ClosedInOrder
<1> QED BY <1>1, <1>2, JobAssumption DEF Inv, NoneLost

\* Every step is one of the job runner, or leaves its variables alone.
LEMMA RunnerStep == Inv /\ [Next]_vars => [Runner!Next]_(Runner!vars)
<1> SUFFICES ASSUME Inv, [Next]_vars PROVE [Runner!Next]_(Runner!vars)
  OBVIOUS
<1>1. ASSUME NEW w \in Workers, Stage(w) PROVE Runner!Next \/ UNCHANGED Runner!vars
  <2>1. CASE MergeSend(w)
    <3> DEFINE j == merge[w]
    <3>1. j \in Jobs /\ results[j] = 0 /\ ~returned
      BY <2>1, JobAssumption
      DEF MergeSend, Inv, TypeOK, OnePlace, ClosedInOrder
    <3>2. results' = [results EXCEPT ![j] = 1]
      <4>1. results[j] + 1 = 1
        BY <3>1
      <4> QED BY <2>1, <4>1 DEF MergeSend
    <3>3. Runner!Deliver(j)
      BY <2>1, <3>1, <3>2 DEF MergeSend, Runner!Deliver
    <3> QED BY <3>1, <3>3 DEF Runner!Next
  <2>2. CASE ~MergeSend(w)
    BY <1>1, <2>2 DEF Stage, GenerateSend, FanSend, FanClose, MergeClose, Runner!vars
  <2> QED BY <2>1, <2>2
<1>2. CASE CollectReturns
  <2>1. ~returned
    BY <1>2 DEF CollectReturns, Inv, ClosedInOrder
  <2>2. cancelled \/ \A j \in Jobs : results[j] = 1
    BY <1>2, ClosedMeansAll DEF CollectReturns
  <2>3. Runner!Return
    BY <1>2, <2>1, <2>2 DEF CollectReturns, Runner!Return
  <2> QED BY <2>3 DEF Runner!Next
<1>3. CASE Cancel
  <2>1. Runner!Cancel
    BY <1>3 DEF Cancel, Runner!Cancel
  <2> QED BY <2>1 DEF Runner!Next
<1>4. CASE GenerateClose \/ CloseOut \/ StopReading
  BY <1>4 DEF GenerateClose, CloseOut, StopReading, Runner!vars
<1>5. CASE UNCHANGED vars
  BY <1>5 DEF vars, Runner!vars
<1> QED BY <1>1, <1>2, <1>3, <1>4, <1>5 DEF Next

\* Generate, FanOut, FanIn and Collect together implement the job runner: each
\* item arrives at most once, and all of them do unless ctx is cancelled.
THEOREM PipelineRunsJobs == Spec => RunnerSpec
<1>1. Init => Runner!Init
  BY DEF Init, Runner!Init
<1> QED BY InvAlways, <1>1, RunnerStep, PTL DEF Spec, RunnerSpec, Runner!Spec

=============================================================================
