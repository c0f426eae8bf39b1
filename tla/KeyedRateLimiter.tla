-------------------------- MODULE KeyedRateLimiter --------------------------
(***************************************************************************)
(* The RateLimiter of ch33_rate_limiting: a map from client keys to token  *)
(* buckets, a middleware that reserves a token and cancels the reservation *)
(* when it would have to wait, and a goroutine that evicts idle clients.   *)
(***************************************************************************)
EXTENDS TokenBucket

CONSTANTS
    Handlers,      \* goroutines serving requests
    Keys,          \* client IPs
    TTL,           \* the 3 minutes after which an idle client is evicted
    CleanupEvery,  \* the minute between two rounds of cleanup
    Stall,         \* ticks that may pass between Reserve and Cancel
    MaxTime,       \* bound: ticks of the clock
    MaxDebt,       \* bound: credits a bucket may owe before one more Reject
    NoClient       \* no entry in the map

ASSUME LimiterAssumption ==
    /\ TTL \in Nat /\ CleanupEvery \in Nat \ {0} /\ Stall \in 0..TTL
    /\ MaxTime \in Nat /\ MaxDebt \in Nat
    /\ NoClient \notin [bucket : Bucket, lastSeen : Nat]

VARIABLES
    now,       \* the clock
    clients,   \* RateLimiter.clients
    rejected,  \* rejected[h]: the reservation h is about to cancel, or none
    meter,     \* history: the least leaky bucket that holds all admissions
    wronged    \* history: was a request rejected that a token was due to?

vars == <<now, clients, rejected, meter, wronged>>

Client == [bucket : Bucket, lastSeen : Nat]

\* key: whose bucket; act: its timeToAct; since: when it was made.
Reservation == [key : Keys, act : Nat, since : Nat]
NoReservation == [key |-> NoClient, act |-> 0, since |-> 0]

Pending == {h \in Handlers : rejected[h] # NoReservation}

TypeOK ==
    /\ now \in Nat
    /\ clients \in [Keys -> Client \cup {NoClient}]
    /\ rejected \in [Handlers -> Reservation \cup {NoReservation}]
    /\ meter \in [Keys -> Nat]
    /\ wronged \in BOOLEAN

Init ==
    /\ now = 0
    /\ clients = [k \in Keys |-> NoClient]
    /\ rejected = [h \in Handlers |-> NoReservation]
    /\ meter = [k \in Keys |-> 0]
    /\ wronged = FALSE

-----------------------------------------------------------------------------

\* getLimiter: the client's bucket, a full one if the map has none.
LimiterOf(k) == IF clients[k] = NoClient THEN NewBucket(now) ELSE clients[k].bucket

\* getLimiter also sets lastSeen; the middleware then reserves a token.
Seen(k) ==
    clients' = [clients EXCEPT ![k] =
        [bucket |-> Reserve(LimiterOf(k), now), lastSeen |-> now]]

\* Delay() reads the clock again, right after Reserve: taken to be the same tick.
Waits(k) == TimeToAct(LimiterOf(k), now) > now

\* Delay() = 0: the request goes through.
Admit(h, k) ==
    /\ rejected[h] = NoReservation
    /\ ~Waits(k)
    /\ Seen(k)
    /\ meter' = [meter EXCEPT ![k] = @ + Period]
    /\ UNCHANGED <<now, rejected, wronged>>

\* Delay() > 0: the request is going to be rejected.  A token is due to a
\* client whose admissions so far leave room for one more.  Bound: MaxDebt.
Reject(h, k) ==
    /\ rejected[h] = NoReservation
    /\ Waits(k)
    /\ Credits(LimiterOf(k), now) >= -MaxDebt
    /\ Seen(k)
    /\ rejected' = [rejected EXCEPT ![h] =
            [key |-> k, act |-> TimeToAct(LimiterOf(k), now), since |-> now]]
    /\ wronged' = (wronged \/ meter[k] + Period <= Full)
    /\ UNCHANGED <<now, meter>>

\* Mutation of CancelReservation: the whole token is given back.
CancelWhole(h) ==
    LET r == rejected[h]
        b == clients[r.key].bucket
    IN  /\ r # NoReservation
        /\ clients[r.key] # NoClient
        /\ clients' = [clients EXCEPT ![r.key] =
               [bucket |-> [b EXCEPT !.tokens = @ + Period], lastSeen |-> @.lastSeen]]
        /\ rejected' = [rejected EXCEPT ![h] = NoReservation]
        /\ UNCHANGED <<now, meter, wronged>>

\* r2.Cancel(), then 429.
CancelReservation(h) ==
    LET r == rejected[h] IN
    /\ r # NoReservation
    /\ clients[r.key] # NoClient
    /\ clients' = [clients EXCEPT ![r.key] =
           [bucket |-> Cancel(clients[r.key].bucket, r.act, now),
            lastSeen |-> clients[r.key].lastSeen]]
    /\ rejected' = [rejected EXCEPT ![h] = NoReservation]
    /\ UNCHANGED <<now, meter, wronged>>

\* A handler does not stall for more than Stall ticks.  Bound: MaxTime.
Tick ==
    /\ now < MaxTime
    /\ \A h \in Pending : now < rejected[h].since + Stall
    /\ now' = now + 1
    /\ meter' = [k \in Keys |-> IF meter[k] = 0 THEN 0 ELSE meter[k] - 1]
    /\ UNCHANGED <<clients, rejected, wronged>>

\* Mutation of Stale: the comparison is the wrong way round.
StaleYoung(k) == clients[k] # NoClient /\ now - clients[k].lastSeen < TTL

Stale(k) == clients[k] # NoClient /\ now - clients[k].lastSeen > TTL

\* One round of cleanup.
Cleanup ==
    /\ now % CleanupEvery = 0
    /\ \E k \in Keys : Stale(k)
    /\ clients' = [k \in Keys |-> IF Stale(k) THEN NoClient ELSE clients[k]]
    /\ UNCHANGED <<now, rejected, meter, wronged>>

Next ==
    \/ \E h \in Handlers :
          \/ \E k \in Keys : Admit(h, k) \/ Reject(h, k)
          \/ CancelReservation(h)
    \/ Tick
    \/ Cleanup

Spec == Init /\ [][Next]_vars

-----------------------------------------------------------------------------
(* Properties *)

\* In any interval of d ticks a client has at most Burst + d / Period requests
\* admitted, whatever is rejected, cancelled and evicted in between.  (meter
\* leaks one credit per tick; it stays within Full exactly if that holds.)
\* Needs Full <= TTL: a bucket is full again by the time it is evicted.
RateBound == \A k \in Keys : meter[k] <= Full

\* ratelimit.go: "Reserve checks capacity without consuming a token."
\* So rejected requests cost a client nothing: none is rejected while its
\* admissions leave a token.
RejectionJustified == ~wronged

=============================================================================
