---------------------------- MODULE TokenBucket ----------------------------
(***************************************************************************)
(* The limiter of golang.org/x/time/rate, as the middlewares use it:       *)
(* Reserve and Cancel in ch33_rate_limiting, Allow in server/.  Time is a  *)
(* natural number of ticks.  Tokens are counted in credits: a bucket gains *)
(* one credit per tick, and a token is Period credits.                     *)
(***************************************************************************)
EXTENDS Integers

CONSTANTS
    Burst,   \* tokens a full bucket holds
    Period   \* ticks in which a bucket gains one token

ASSUME BucketAssumption ==
    /\ Burst \in Nat \ {0} /\ Period \in Nat \ {0}

Full == Burst * Period

\* tokens is right at the time last; it is negative while callers are waiting.
\* lastEvent is when the last of them may go.
Bucket == {b \in [tokens : Int, last : Nat, lastEvent : Nat] : b.tokens <= Full}

NewBucket(t) == [tokens |-> Full, last |-> t, lastEvent |-> 0]

\* advance: the credits of bucket b at time t >= b.last.
Credits(b, t) ==
    LET grown == b.tokens + (t - b.last)
    IN  IF grown > Full THEN Full ELSE grown

\* When a token reserved at t may be used: timeToAct, at t if there is one.
TimeToAct(b, t) ==
    IF Credits(b, t) >= Period THEN t ELSE t + (Period - Credits(b, t))

\* Reserve always grants the reservation and takes its token at once.
Reserve(b, t) ==
    [tokens |-> Credits(b, t) - Period, last |-> t, lastEvent |-> TimeToAct(b, t)]

\* Cancel gives the token back, less what was reserved after it.
Restored(b, act) == Period - (b.lastEvent - act)

\* It also moves lastEvent back, unless that would be in the past.
EventBefore(b, act, t) ==
    IF act = b.lastEvent /\ act - Period >= t THEN act - Period ELSE b.lastEvent

\* CancelAt for a reservation that may be used at act; too late after that.
Cancel(b, act, t) ==
    IF act < t \/ Restored(b, act) <= 0 THEN b
    ELSE [tokens |-> IF Credits(b, t) + Restored(b, act) > Full THEN Full
                     ELSE Credits(b, t) + Restored(b, act),
          last |-> t,
          lastEvent |-> EventBefore(b, act, t)]

\* Allow takes a token if there is one and changes nothing otherwise.
MayAllow(b, t) == Credits(b, t) >= Period

=============================================================================
