-------------------------------- MODULE Retry --------------------------------
(***************************************************************************)
(* Client.do of ch11_retrying: a request that is answered 429 or by one of *)
(* four 5xx codes is sent again after a pause that doubles, up to          *)
(* maxRetries times.  Every other error ends the call at once.             *)
(***************************************************************************)
EXTENDS Integers

CONSTANT MaxRetries  \* Client.maxRetries; NewClient's is 3

VARIABLES
    attempt,  \* the loop variable
    pc,       \* "new", "pausing", "ready", "sent", or how the call ended
    pause,    \* seconds of the pause, before jitter
    busy      \* history: answers with a retryable status

vars == <<attempt, pc, pause, busy>>

\* How do ends: an answer, its last error, any other error, ctx.Err(), a panic.
Ends == {"ok", "exhausted", "error", "cancelled", "panic"}

TypeOK ==
    /\ attempt \in 0..MaxRetries
    /\ pc \in {"new", "pausing", "ready", "sent"} \cup Ends
    /\ pause \in 0..60
    /\ busy \in 0..(MaxRetries + 1)

Init == attempt = 0 /\ pc = "new" /\ pause = 0 /\ busy = 0

-----------------------------------------------------------------------------
(* defaultBackoff *)

\* 10^9 = 2^9 * 5^9 nanoseconds make a second, and 2^a seconds are computed in
\* 64 bits, of which 5^9 keeps 55 - a above the zeros at the end.  The result is
\* not positive from a = 55 on, and where the highest of those bits is set.
NotPositive(a) ==
    \/ a > 54
    \/ a > 33 /\ (1953125 % 2^(55 - a)) >= 2^(54 - a)

\* Seconds, 1 << a where positive: at most a minute.  An overflow that is positive is
\* more than a minute too.
Backoff(a) == IF a < 6 THEN <<1, 2, 4, 8, 16, 32>>[a + 1] ELSE 60

-----------------------------------------------------------------------------

\* The first attempt.
First ==
    /\ pc = "new"
    /\ pc' = "ready"
    /\ UNCHANGED <<attempt, pause, busy>>

\* doOnce sends the request.
Send ==
    /\ pc = "ready"
    /\ pc' = "sent"
    /\ pause' = 0
    /\ UNCHANGED <<attempt, busy>>

\* 2xx.
OK ==
    /\ pc = "sent"
    /\ pc' = "ok"
    /\ UNCHANGED <<attempt, pause, busy>>

\* Another status, no answer, or a context that is done.
Error ==
    /\ pc = "sent"
    /\ pc' = "error"
    /\ UNCHANGED <<attempt, pause, busy>>

\* Mutation of Again: the pause is that of the attempt to come.
AgainEarly ==
    /\ pc = "sent" /\ attempt < MaxRetries
    /\ attempt' = attempt + 1
    /\ busy' = busy + 1
    /\ IF NotPositive(attempt') THEN pc' = "panic" /\ pause' = 0
       ELSE pc' = "pausing" /\ pause' = Backoff(attempt')

\* A retryable status with attempts left: the pause begins.  rand.Int63n panics
\* when the jitter has no room.
Again ==
    /\ pc = "sent" /\ attempt < MaxRetries
    /\ attempt' = attempt + 1
    /\ busy' = busy + 1
    /\ IF NotPositive(attempt) THEN pc' = "panic" /\ pause' = 0
       ELSE pc' = "pausing" /\ pause' = Backoff(attempt)

\* The last attempt is answered with a retryable status: "after %d retries".
Exhausted ==
    /\ pc = "sent" /\ attempt = MaxRetries
    /\ pc' = "exhausted"
    /\ busy' = busy + 1
    /\ UNCHANGED <<attempt, pause>>

\* time.After fires.
Paused ==
    /\ pc = "pausing"
    /\ pc' = "ready"
    /\ UNCHANGED <<attempt, pause, busy>>

\* ctx is done in the pause.
Cancelled ==
    /\ pc = "pausing"
    /\ pc' = "cancelled"
    /\ pause' = 0
    /\ UNCHANGED <<attempt, busy>>

Step == First \/ Send \/ OK \/ Error \/ Again \/ Exhausted \/ Paused \/ Cancelled

Next == Step

Spec == Init /\ [][Next]_vars

\* Timers fire, and each request is answered or fails.
FairSpec == Spec /\ WF_vars(Step)

-----------------------------------------------------------------------------
(* Properties *)

\* Each request after the first follows a retryable answer and a pause of 1 to
\* 60 seconds; the call gives up only after MaxRetries + 1 such answers, and
\* computing the pause never overflows.
RetriesJustified ==
    /\ pc \in {"ready", "sent"} => busy = attempt
    /\ pc = "pausing" => pause \in 1..60
    /\ pc = "exhausted" => busy = MaxRetries + 1
    /\ pc # "panic"

\* Every call ends.
CallEnds == <>(pc \in Ends)

=============================================================================
