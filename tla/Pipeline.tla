------------------------------ MODULE Pipeline ------------------------------
(***************************************************************************)
(* Generate, FanOut, FanIn and Collect of ch41_concurrency_patterns, wired *)
(* as in TestFanOut_DistributesWork.  All channels are unbuffered: a send  *)
(* and its receive are one action.  Every goroutine of the first three     *)
(* stages selects between its send and ctx.Done().                         *)
(***************************************************************************)
EXTENDS JobData

VARIABLES
    left,       \* the items Generate has not sent
    generator,  \* "sending", or Closed
    fan,        \* fan[w]: the value FanOut's goroutine w holds, Nothing or Closed
    merge,      \* merge[w]: the same for FanIn's goroutine on w's channel
    out,        \* FanIn's channel: "open" or Closed
    results,    \* results[j]: how often the consumer received j
    cancelled,  \* is ctx cancelled?
    reading,    \* does the consumer still read?
    returned    \* has Collect seen the channel closed?

vars == <<left, generator, fan, merge, out, results, cancelled, reading, returned>>

TypeOK ==
    /\ left \subseteq Jobs
    /\ generator \in {"sending", Closed}
    /\ fan \in [Workers -> Jobs \cup {Nothing, Closed}]
    /\ merge \in [Workers -> Jobs \cup {Nothing, Closed}]
    /\ out \in {"open", Closed}
    /\ results \in [Jobs -> {0, 1}]
    /\ cancelled \in BOOLEAN /\ reading \in BOOLEAN /\ returned \in BOOLEAN

Init ==
    /\ left = Jobs
    /\ generator = "sending"
    /\ fan = [w \in Workers |-> Nothing]
    /\ merge = [w \in Workers |-> Nothing]
    /\ out = "open"
    /\ results = [j \in Jobs |-> 0]
    /\ cancelled = FALSE /\ reading = TRUE /\ returned = FALSE

-----------------------------------------------------------------------------
(* Generate *)

GenerateSend(w, j) ==
    /\ generator # Closed /\ j \in left
    /\ fan[w] = Nothing
    /\ left' = left \ {j}
    /\ fan' = [fan EXCEPT ![w] = j]
    /\ UNCHANGED <<generator, merge, out, results, cancelled, reading, returned>>

\* After the last item, or in select when ctx is done.
GenerateClose ==
    /\ generator # Closed
    /\ left = {} \/ cancelled
    /\ generator' = Closed
    /\ UNCHANGED <<left, fan, merge, out, results, cancelled, reading, returned>>

-----------------------------------------------------------------------------
(* FanOut; Transform is FanOut with one worker. *)

\* Mutation of FanSend: the value is sent and kept.
FanSendTwice(w) ==
    /\ fan[w] \in Jobs
    /\ merge[w] = Nothing
    /\ merge' = [merge EXCEPT ![w] = fan[w]]
    /\ UNCHANGED <<left, generator, fan, out, results, cancelled, reading, returned>>

FanSend(w) ==
    /\ fan[w] \in Jobs
    /\ merge[w] = Nothing
    /\ merge' = [merge EXCEPT ![w] = fan[w]]
    /\ fan' = [fan EXCEPT ![w] = Nothing]
    /\ UNCHANGED <<left, generator, out, results, cancelled, reading, returned>>

\* Mutation of FanClose: the goroutine's send is not in a select.
FanCloseDrained(w) ==
    /\ fan[w] = Nothing /\ generator = Closed
    /\ fan' = [fan EXCEPT ![w] = Closed]
    /\ UNCHANGED <<left, generator, merge, out, results, cancelled, reading, returned>>

\* in is closed; or select takes ctx.Done(), and the value is dropped.
FanClose(w) ==
    /\ \/ fan[w] = Nothing /\ generator = Closed
       \/ fan[w] \in Jobs /\ cancelled
    /\ fan' = [fan EXCEPT ![w] = Closed]
    /\ UNCHANGED <<left, generator, merge, out, results, cancelled, reading, returned>>

-----------------------------------------------------------------------------
(* FanIn and its consumer *)

MergeSend(w) ==
    /\ merge[w] \in Jobs
    /\ reading
    /\ results' = [results EXCEPT ![merge[w]] = @ + 1]
    /\ merge' = [merge EXCEPT ![w] = Nothing]
    /\ UNCHANGED <<left, generator, fan, out, cancelled, reading, returned>>

MergeClose(w) ==
    /\ \/ merge[w] = Nothing /\ fan[w] = Closed
       \/ merge[w] \in Jobs /\ cancelled
    /\ merge' = [merge EXCEPT ![w] = Closed]
    /\ UNCHANGED <<left, generator, fan, out, results, cancelled, reading, returned>>

\* Mutation of CloseOut: the first input to end closes the output.
CloseOutEarly ==
    /\ out = "open"
    /\ \E w \in Workers : merge[w] = Closed
    /\ out' = Closed
    /\ UNCHANGED <<left, generator, fan, merge, results, cancelled, reading, returned>>

\* wg.Wait(), then close(out).
CloseOut ==
    /\ out = "open"
    /\ \A w \in Workers : merge[w] = Closed
    /\ out' = Closed
    /\ UNCHANGED <<left, generator, fan, merge, results, cancelled, reading, returned>>

\* Collect returns.
CollectReturns ==
    /\ reading
    /\ out = Closed
    /\ returned' = TRUE /\ reading' = FALSE
    /\ UNCHANGED <<left, generator, fan, merge, out, results, cancelled>>

\* A consumer other than Collect may stop reading at any time.
StopReading ==
    /\ reading
    /\ reading' = FALSE
    /\ UNCHANGED <<left, generator, fan, merge, out, results, cancelled, returned>>

Cancel ==
    /\ ~cancelled
    /\ cancelled' = TRUE
    /\ UNCHANGED <<left, generator, fan, merge, out, results, reading, returned>>

Stage(w) ==
    \/ \E j \in Jobs : GenerateSend(w, j)
    \/ FanSend(w) \/ FanClose(w) \/ MergeSend(w) \/ MergeClose(w)

Next ==
    \/ \E w \in Workers : Stage(w)
    \/ GenerateClose \/ CloseOut \/ CollectReturns
    \/ StopReading \/ Cancel

Spec == Init /\ [][Next]_vars

\* A select with a ready case takes one; which one is up to the runtime, but a
\* goroutine is not passed over for ever.
FairSpec ==
    /\ Spec
    /\ \A w \in Workers : WF_vars(Stage(w))
    /\ WF_vars(GenerateClose) /\ WF_vars(CloseOut) /\ WF_vars(CollectReturns)

-----------------------------------------------------------------------------
(* Properties *)

\* The pipeline keeps what JobRunner promises: no item arrives twice, and
\* without a cancellation the consumer sees the channel closed only after it
\* has received every item.
Runner == INSTANCE JobRunner

RunnerSpec == Runner!Spec

\* No goroutine outlives its work: once ctx is cancelled all of them end, even
\* when nobody reads the output any more.
Ended ==
    /\ generator = Closed /\ out = Closed
    /\ \A w \in Workers : fan[w] = Closed /\ merge[w] = Closed

CancelEndsAll == cancelled ~> Ended

\* Without any cancellation they end as well, provided the consumer reads on.
ReadingEndsAll == <>(Ended \/ ~reading)

=============================================================================
