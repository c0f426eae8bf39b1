--------------------------- MODULE LimitersProofs ---------------------------
(***************************************************************************)
(* The rate limits kept per client, for every number of handlers, keys and *)
(* callers, every burst, rate and window: RateBound of the server of ch33, *)
(* and the waits of the client of ch10 (further down).                     *)
(*                                                                         *)
(* RateBound is not inductive: Cancel gives tokens back, and what it gives *)
(* depends on the reservations made in between.  The invariant says of     *)
(* each key that its meter and the credits of its bucket fit into a full   *)
(* bucket (Level), and of each reservation that can still be cancelled     *)
(* that they would still fit if it and all later ones were cancelled       *)
(* (Held).  Two such reservations are at least one Period apart, so Cancel *)
(* never gives back more than the reservation took.                        *)
(***************************************************************************)
EXTENDS MCLimiters, TLAPS

Level(k) ==
    IF clients[k] = NoClient THEN meter[k] = 0
    ELSE /\ clients[k].bucket.last <= now
         /\ clients[k].lastSeen <= now
         /\ meter[k] + Credits(clients[k].bucket, now) <= Full
         /\ meter[k] = 0 \/ meter[k] + (now - clients[k].lastSeen) <= Full

\* A reservation that Cancel would give something back for.
Live(h) == rejected[h] # NoReservation /\ rejected[h].act >= now

Held(h) ==
    LET r == rejected[h]
        b == clients[r.key].bucket
    IN  /\ r.act <= b.last - b.tokens
        /\ r.act <= b.lastEvent
        /\ meter[r.key] + (now - r.act) + Period <= Full

Recent(h) ==
    rejected[h] # NoReservation =>
        LET r == rejected[h] IN
        /\ clients[r.key] # NoClient
        /\ r.since <= clients[r.key].lastSeen
        /\ now <= r.since + Stall

Apart(g, h) ==
    g # h /\ rejected[g].key = rejected[h].key =>
        \/ rejected[g].act + Period <= rejected[h].act
        \/ rejected[h].act + Period <= rejected[g].act

Inv ==
    /\ TypeOK
    /\ \A k \in Keys : Level(k)
    /\ RateBound
    /\ \A h \in Handlers : Recent(h)
    /\ \A h \in Handlers : Live(h) => Held(h)
    /\ \A g, h \in Handlers : Live(g) /\ Live(h) => Apart(g, h)

-----------------------------------------------------------------------------
(* Facts about buckets. *)

\* A full bucket holds at least one token's credits.
LEMMA FullFact == Full \in Nat /\ Full >= Period /\ Period \in Nat \ {0}
<1>1. Burst \in Nat /\ Period \in Nat /\ Burst >= 1 /\ Period >= 1
  BY BucketAssumption
<1>2. PICK n \in Nat : Burst = n + 1
  <2>1. Burst - 1 \in Nat /\ Burst = (Burst - 1) + 1
    BY <1>1
  <2> QED BY <2>1
<1>3. Burst * Period = n * Period + Period
  BY <1>1, <1>2
<1>4. n * Period \in Nat
  BY <1>1, <1>2
<1> QED BY <1>1, <1>3, <1>4 DEF Full

\* A new bucket is a bucket, and full.
LEMMA NewBucketFact ==
  ASSUME NEW t \in Nat
  PROVE  /\ NewBucket(t) \in Bucket
         /\ NewBucket(t).last = t
         /\ Credits(NewBucket(t), t) = Full
BY FullFact DEF NewBucket, Bucket, Credits

\* Reserve takes one token's credits, and the reservation may be used at
\* once exactly if they were there; otherwise when the bucket is back to zero.
LEMMA ReserveFact ==
  ASSUME NEW b \in Bucket, NEW t \in Nat, b.last <= t
  PROVE  /\ Reserve(b, t) \in Bucket
         /\ Reserve(b, t).last = t
         /\ Credits(Reserve(b, t), t) = Credits(b, t) - Period
         /\ TimeToAct(b, t) \in Nat
         /\ TimeToAct(b, t) >= t
         /\ Reserve(b, t).lastEvent = TimeToAct(b, t)
         /\ TimeToAct(b, t) > t =>
               /\ Credits(b, t) = b.tokens + (t - b.last)
               /\ Credits(b, t) < Period
               /\ TimeToAct(b, t) = (b.last - b.tokens) + Period
               /\ TimeToAct(b, t) = t - Reserve(b, t).tokens
         /\ TimeToAct(b, t) = t => Credits(b, t) >= Period
BY FullFact DEF Reserve, Credits, TimeToAct, Bucket

\* Credits never exceed a full bucket and grow by at most one a tick.
LEMMA CreditsFact ==
  ASSUME NEW b \in Bucket, NEW t \in Nat, b.last <= t
  PROVE  /\ Credits(b, t) \in Int
         /\ Credits(b, t) <= Full
         /\ Credits(b, t) <= b.tokens + (t - b.last)
         /\ Credits(b, t + 1) \in Int
         /\ Credits(b, t + 1) <= Full
         /\ Credits(b, t + 1) <= Credits(b, t) + 1
BY FullFact DEF Credits, Bucket

\* What Cancel does to a bucket whose last reservation is not before act.
LEMMA CancelFact ==
  ASSUME NEW b \in Bucket, NEW t \in Nat, b.last <= t, NEW act \in Nat,
         act >= t, act <= b.lastEvent, act <= b.last - b.tokens
  PROVE  LET n == Cancel(b, act, t) IN
         \/ n = b
         \/ /\ n \in Bucket /\ n.last = t
            /\ Credits(n, t) <= (t - act) + Period
            /\ n.last - n.tokens >= act - Period
            /\ n.lastEvent >= act - Period
            /\ b.lastEvent < act + Period
<1> DEFINE R == Restored(b, act)
<1>1. R \in Int /\ R <= Period /\ R = Period - (b.lastEvent - act)
  BY FullFact DEF Restored, Bucket
<1>2. Credits(b, t) <= t - act /\ Credits(b, t) \in Int
  BY CreditsFact DEF Bucket
<1>3. CASE R <= 0
  BY <1>3 DEF Cancel
<1>4. CASE R > 0
  <2> DEFINE tok == IF Credits(b, t) + R > Full THEN Full ELSE Credits(b, t) + R
             ev == EventBefore(b, act, t)
  <2>1. Cancel(b, act, t) = [tokens |-> tok, last |-> t, lastEvent |-> ev]
    BY <1>4, <1>1 DEF Cancel, Bucket
  <2>2. tok \in Int /\ tok <= Full /\ tok <= (t - act) + Period
        /\ tok <= Credits(b, t) + R
    BY <1>1, <1>2, FullFact
  <2>3. ev \in Nat /\ ev >= act - Period
    BY FullFact DEF EventBefore, Bucket
  <2>4. Cancel(b, act, t) \in Bucket
    BY <2>1, <2>2, <2>3 DEF Bucket
  <2>5. Credits(Cancel(b, act, t), t) = tok
    BY <2>1, <2>2 DEF Credits
  <2>6. b.lastEvent < act + Period
    BY <1>1, <1>4, FullFact DEF Bucket
  <2> HIDE DEF tok, ev
  <2> QED BY <2>1, <2>2, <2>3, <2>4, <2>5, <2>6, FullFact
<1> QED BY <1>1, <1>3, <1>4

-----------------------------------------------------------------------------
(* The invariant holds initially and every action preserves it. *)

\* The invariant's parts about the key k and the handler h, as facts.
LEMMA InvFacts ==
  ASSUME Inv
  PROVE  /\ now \in Nat
         /\ clients \in [Keys -> Client \cup {NoClient}]
         /\ rejected \in [Handlers -> Reservation \cup {NoReservation}]
         /\ meter \in [Keys -> Nat]
         /\ wronged \in BOOLEAN
         /\ \A k \in Keys : clients[k] # NoClient =>
               /\ clients[k] \in Client
               /\ clients[k].bucket \in Bucket /\ clients[k].lastSeen \in Nat
               /\ clients[k].bucket.last <= now
         /\ \A h \in Handlers : rejected[h] # NoReservation =>
               /\ rejected[h].key \in Keys /\ rejected[h].act \in Nat
               /\ rejected[h].since \in Nat
BY DEF Inv, TypeOK, Client, Reservation, Level

\* The bucket getLimiter returns, new or not, and its level.
LEMMA LimiterFact ==
  ASSUME Inv, NEW k \in Keys
  PROVE  /\ LimiterOf(k) \in Bucket
         /\ LimiterOf(k).last <= now
         /\ meter[k] + Credits(LimiterOf(k), now) <= Full
         /\ Waits(k) => clients[k] # NoClient
<1>1. CASE clients[k] = NoClient
  <2>1. LimiterOf(k) = NewBucket(now) /\ meter[k] = 0 /\ now \in Nat
    BY <1>1 DEF LimiterOf, Inv, TypeOK, Level
  <2>2. Credits(NewBucket(now), now) = Full /\ NewBucket(now) \in Bucket
        /\ NewBucket(now).last = now
    BY <2>1, NewBucketFact
  <2>3. TimeToAct(NewBucket(now), now) = now
    BY <2>2, FullFact DEF TimeToAct
  <2> QED BY <2>1, <2>2, <2>3, FullFact DEF Waits
<1>2. CASE clients[k] # NoClient
  BY <1>2, InvFacts DEF LimiterOf, Inv, Level
<1> QED BY <1>1, <1>2

LEMMA InitInv == Init => Inv
<1> SUFFICES ASSUME Init PROVE Inv
  OBVIOUS
<1>1. TypeOK
  BY DEF Init, TypeOK
<1>2. \A k \in Keys : meter[k] = 0 /\ clients[k] = NoClient
  BY DEF Init
<1>3. \A h \in Handlers : rejected[h] = NoReservation
  BY DEF Init
<1>4. RateBound
  BY <1>2, FullFact DEF RateBound
<1> QED BY <1>1, <1>2, <1>3, <1>4 DEF Inv, Level, Live, Recent

LEMMA AdmitInv == ASSUME Inv, NEW h \in Handlers, NEW k \in Keys, Admit(h, k)
                  PROVE  Inv'
<1> DEFINE b == LimiterOf(k)
           n == Reserve(b, now)
<1>1. b \in Bucket /\ b.last <= now /\ meter[k] + Credits(b, now) <= Full
  BY LimiterFact
<1>2. now \in Nat /\ meter[k] \in Nat /\ clients \in [Keys -> Client \cup {NoClient}]
  BY InvFacts
<1>3. TimeToAct(b, now) = now
  <2>1. TimeToAct(b, now) \in Nat /\ TimeToAct(b, now) >= now
    BY <1>1, <1>2, ReserveFact
  <2> QED BY <2>1, <1>2 DEF Admit, Waits
<1>4. Credits(b, now) >= Period /\ n \in Bucket /\ n.last = now
      /\ Credits(n, now) = Credits(b, now) - Period
  BY <1>1, <1>2, <1>3, ReserveFact
<1>5. Credits(b, now) \in Int
  BY <1>1, <1>2, CreditsFact
<1>6. /\ clients' = [clients EXCEPT ![k] = [bucket |-> n, lastSeen |-> now]]
      /\ meter' = [meter EXCEPT ![k] = @ + Period]
      /\ now' = now /\ rejected' = rejected /\ wronged' = wronged
  BY DEF Admit, Seen
<1> HIDE DEF n
<1>7. [bucket |-> n, lastSeen |-> now] \in Client
      /\ [bucket |-> n, lastSeen |-> now] # NoClient
  BY <1>2, <1>4, LimiterAssumption DEF Client
<1>8. TypeOK'
  BY <1>2, <1>6, <1>7, FullFact, InvFacts DEF TypeOK
<1>9. \A j \in Keys : j # k => clients'[j] = clients[j] /\ meter'[j] = meter[j]
  BY <1>2, <1>6, InvFacts
<1>10. clients'[k] = [bucket |-> n, lastSeen |-> now] /\ meter'[k] = meter[k] + Period
  BY <1>2, <1>6, InvFacts
<1>11. meter'[k] <= Full /\ meter'[k] + Credits(n, now) <= Full
  BY <1>1, <1>2, <1>4, <1>5, <1>10, FullFact DEF Bucket
<1>12. ASSUME NEW j \in Keys PROVE Level(j)'
  <2>1. CASE j = k
    BY <2>1, <1>2, <1>4, <1>6, <1>7, <1>10, <1>11, FullFact DEF Level, Bucket
  <2>2. CASE j # k
    <3>1. Level(j)
      BY DEF Inv
    <3> QED BY <2>2, <3>1, <1>6, <1>9 DEF Level, Credits
  <2> QED BY <2>1, <2>2
<1>13. RateBound'
  BY <1>9, <1>11 DEF RateBound, Inv
<1>14. ASSUME NEW g \in Handlers, rejected[g] # NoReservation PROVE Recent(g)'
  <2>1. Recent(g) /\ rejected[g].key \in Keys /\ rejected[g].since \in Nat
    BY <1>14, InvFacts DEF Inv
  <2>2. CASE rejected[g].key = k
    <3>1. clients[k] # NoClient /\ rejected[g].since <= clients[k].lastSeen
          /\ clients[k].lastSeen <= now /\ clients[k].lastSeen \in Nat
      BY <2>1, <2>2, <1>14, InvFacts DEF Recent, Inv, Level
    <3> QED BY <2>1, <2>2, <3>1, <1>2, <1>6, <1>7, <1>10, <1>14 DEF Recent
  <2>3. CASE rejected[g].key # k
    BY <2>1, <2>3, <1>6, <1>9 DEF Recent
  <2> QED BY <2>2, <2>3
<1>15. ASSUME NEW g \in Handlers, Live(g) PROVE rejected[g].key # k /\ Held(g)'
  <2>1. Held(g) /\ rejected[g].key \in Keys /\ rejected[g].act \in Nat
        /\ rejected[g].act >= now /\ Recent(g)
    BY <1>15, InvFacts DEF Inv, Live
  <2>2. rejected[g].key # k
    <3> SUFFICES ASSUME rejected[g].key = k PROVE FALSE
      OBVIOUS
    <3>1. clients[k] # NoClient /\ b = clients[k].bucket
      BY <2>1, <1>15 DEF Recent, Live, LimiterOf
    <3>2. Credits(b, now) <= b.tokens + (now - b.last)
      BY <1>1, <1>2, CreditsFact
    <3>3. rejected[g].act <= b.last - b.tokens
      BY <2>1, <3>1 DEF Held
    <3> QED BY <3>2, <3>3, <2>1, <1>1, <1>2, <1>4, <1>5, FullFact DEF Bucket
  <2> QED BY <2>1, <2>2, <1>6, <1>9 DEF Held
<1>16. \A g, f \in Handlers : Live(g)' /\ Live(f)' => Apart(g, f)'
  BY <1>6 DEF Inv, Live, Apart
<1>17. \A g \in Handlers : Live(g)' => Live(g)
  BY <1>6 DEF Live
<1>18. \A g \in Handlers : Recent(g)'
  BY <1>14, <1>6 DEF Recent
<1> QED BY <1>8, <1>12, <1>13, <1>15, <1>16, <1>17, <1>18 DEF Inv

LEMMA RejectInv == ASSUME Inv, NEW h \in Handlers, NEW k \in Keys, Reject(h, k)
                   PROVE  Inv'
<1> DEFINE b == LimiterOf(k)
           n == Reserve(b, now)
           act == TimeToAct(b, now)
           r == [key |-> k, act |-> act, since |-> now]
<1>1. b \in Bucket /\ b.last <= now /\ meter[k] + Credits(b, now) <= Full
  BY LimiterFact
<1>2. now \in Nat /\ meter[k] \in Nat /\ clients \in [Keys -> Client \cup {NoClient}]
      /\ rejected \in [Handlers -> Reservation \cup {NoReservation}]
  BY InvFacts
<1>3. clients[k] # NoClient /\ b = clients[k].bucket /\ act > now
  BY LimiterFact DEF Reject, Waits, LimiterOf
<1>4. /\ act \in Nat
      /\ Credits(b, now) < Period
      /\ act = (b.last - b.tokens) + Period
      /\ Credits(b, now) = b.tokens + (now - b.last)
      /\ n \in Bucket /\ n.last = now /\ n.lastEvent = act
      /\ act = now - n.tokens
      /\ Credits(n, now) = Credits(b, now) - Period
  BY <1>1, <1>2, <1>3, ReserveFact
<1>5. Credits(b, now) \in Int
  BY <1>1, <1>2, CreditsFact
<1>6. /\ clients' = [clients EXCEPT ![k] = [bucket |-> n, lastSeen |-> now]]
      /\ rejected' = [rejected EXCEPT ![h] = r]
      /\ now' = now /\ meter' = meter /\ rejected[h] = NoReservation
      /\ wronged' = (wronged \/ meter[k] + Period <= Full)
  BY DEF Reject, Seen
<1> HIDE DEF n, act
<1>7. [bucket |-> n, lastSeen |-> now] \in Client
      /\ [bucket |-> n, lastSeen |-> now] # NoClient
  BY <1>2, <1>4, LimiterAssumption DEF Client
<1>8. r \in Reservation
  BY <1>2, <1>4 DEF Reservation
<1>9. TypeOK'
  BY <1>2, <1>6, <1>7, <1>8, InvFacts DEF TypeOK
<1>10. \A j \in Keys : j # k => clients'[j] = clients[j]
  BY <1>2, <1>6
<1>11. clients'[k] = [bucket |-> n, lastSeen |-> now]
  BY <1>2, <1>6
<1>12. rejected'[h] = r /\ \A g \in Handlers : g # h => rejected'[g] = rejected[g]
  BY <1>2, <1>6
<1>13. meter[k] <= Full
  BY DEF Inv, RateBound
<1>14. ASSUME NEW j \in Keys PROVE Level(j)'
  <2>1. CASE j = k
    BY <2>1, <1>1, <1>2, <1>4, <1>5, <1>6, <1>7, <1>11, <1>13, FullFact DEF Level
  <2>2. CASE j # k
    <3>1. Level(j)
      BY DEF Inv
    <3> QED BY <2>2, <3>1, <1>6, <1>10 DEF Level, Credits
  <2> QED BY <2>1, <2>2
<1>15. RateBound'
  BY <1>6 DEF RateBound, Inv
<1>16. ASSUME NEW g \in Handlers, rejected'[g] # NoReservation PROVE Recent(g)'
  <2>1. CASE g = h
    BY <2>1, <1>2, <1>6, <1>7, <1>11, <1>12, LimiterAssumption DEF Recent
  <2>2. CASE g # h
    <3>1. Recent(g) /\ rejected[g].key \in Keys /\ rejected[g].since \in Nat
          /\ rejected'[g] = rejected[g]
      BY <1>12, <1>16, <2>2, InvFacts DEF Inv
    <3>2. CASE rejected[g].key = k
      <4>1. rejected[g].since <= clients[k].lastSeen
            /\ clients[k].lastSeen <= now /\ clients[k].lastSeen \in Nat
        BY <3>1, <3>2, <1>3, <1>16, InvFacts DEF Recent, Inv, Level
      <4> QED BY <3>1, <3>2, <4>1, <1>2, <1>6, <1>7, <1>11, <1>16 DEF Recent
    <3>3. CASE rejected[g].key # k
      BY <3>1, <3>3, <1>6, <1>10, <1>16 DEF Recent
    <3> QED BY <3>2, <3>3
  <2> QED BY <2>1, <2>2
<1>17. ASSUME NEW g \in Handlers, g # h, Live(g)'
       PROVE  /\ Held(g)'
              /\ rejected[g].key = k => rejected[g].act + Period <= act
  <2>1. Live(g) /\ rejected'[g] = rejected[g]
    BY <1>6, <1>12, <1>17 DEF Live
  <2>2. Held(g) /\ rejected[g].key \in Keys /\ rejected[g].act \in Nat
    BY <2>1, InvFacts DEF Inv, Live
  <2>3. CASE rejected[g].key = k
    <3>1. /\ rejected[g].act <= b.last - b.tokens
          /\ meter[k] + (now - rejected[g].act) + Period <= Full
      BY <2>2, <2>3, <1>3 DEF Held
    <3>2. rejected[g].act + Period <= act
      BY <3>1, <1>1, <1>4, <2>2, FullFact DEF Bucket
    <3>3. rejected[g].act <= act
      BY <3>2, <1>4, <2>2, FullFact
    <3>4. now - n.tokens = act /\ n.lastEvent = act /\ n.last = now
      BY <1>4
    <3> QED BY <2>1, <2>3, <3>1, <3>2, <3>3, <3>4, <1>6, <1>11 DEF Held
  <2>4. CASE rejected[g].key # k
    BY <2>1, <2>2, <2>4, <1>6, <1>10 DEF Held
  <2> QED BY <2>3, <2>4
<1>18. Held(h)'
  <2>1. r.key = k /\ r.act = act
    OBVIOUS
  <2>2. meter[k] + (now - act) + Period <= Full
    BY <1>1, <1>2, <1>4, <1>5, FullFact DEF Bucket
  <2> QED BY <2>1, <2>2, <1>4, <1>6, <1>11, <1>12 DEF Held
<1>19. ASSUME NEW g \in Handlers, NEW f \in Handlers, Live(g)', Live(f)'
       PROVE  Apart(g, f)'
  <2>1. CASE g # h /\ f # h
    BY <2>1, <1>6, <1>12, <1>19 DEF Inv, Live, Apart
  <2>2. CASE g # h /\ f = h
    BY <2>2, <1>12, <1>17, <1>19 DEF Apart
  <2>3. CASE g = h /\ f # h
    BY <2>3, <1>12, <1>17, <1>19 DEF Apart
  <2>4. CASE g = h /\ f = h
    BY <2>4 DEF Apart
  <2> QED BY <2>1, <2>2, <2>3, <2>4
<1>20. \A g \in Handlers : Recent(g)'
  BY <1>16 DEF Recent
<1>21. \A g \in Handlers : Live(g)' => Held(g)'
  BY <1>17, <1>18
<1>22. \A g, f \in Handlers : Live(g)' /\ Live(f)' => Apart(g, f)'
  BY <1>19
<1> QED BY <1>9, <1>14, <1>15, <1>20, <1>21, <1>22 DEF Inv

LEMMA CancelInv == ASSUME Inv, NEW h \in Handlers, CancelReservation(h)
                   PROVE  Inv'
<1> DEFINE r == rejected[h]
           k == r.key
           b == clients[k].bucket
           n == Cancel(b, r.act, now)
           OthersFit(m) ==
              \A g \in Handlers :
                 g # h /\ Live(g) /\ rejected[g].key = k =>
                    rejected[g].act <= m.last - m.tokens /\ rejected[g].act <= m.lastEvent
<1>1. /\ r # NoReservation /\ clients[k] # NoClient
      /\ clients' = [clients EXCEPT ![k] = [bucket |-> n, lastSeen |-> clients[k].lastSeen]]
      /\ rejected' = [rejected EXCEPT ![h] = NoReservation]
      /\ now' = now /\ meter' = meter /\ wronged' = wronged
  BY DEF CancelReservation
<1>2. /\ now \in Nat /\ clients \in [Keys -> Client \cup {NoClient}]
      /\ rejected \in [Handlers -> Reservation \cup {NoReservation}]
      /\ k \in Keys /\ r.act \in Nat
      /\ clients[k] \in Client /\ b \in Bucket /\ b.last <= now
      /\ clients[k].lastSeen \in Nat /\ meter[k] \in Nat
  BY <1>1, InvFacts
<1>3. /\ rejected'[h] = NoReservation
      /\ \A g \in Handlers : g # h => rejected'[g] = rejected[g]
  BY <1>1, <1>2
<1>4. /\ \A j \in Keys : j # k => clients'[j] = clients[j]
      /\ clients'[k] = [bucket |-> n, lastSeen |-> clients[k].lastSeen]
  BY <1>1, <1>2
<1>5. meter[k] + Credits(b, now) <= Full /\ clients[k].lastSeen <= now
      /\ (meter[k] = 0 \/ meter[k] + (now - clients[k].lastSeen) <= Full)
  BY <1>1, <1>2 DEF Inv, Level
<1> HIDE DEF n
\* What the cancellation means for the bucket and for the other reservations.
<1>6. /\ n \in Bucket /\ n.last <= now
      /\ meter[k] + Credits(n, now) <= Full
      /\ OthersFit(n)
  <2>1. OthersFit(b)
    BY DEF Inv, Live, Held
  <2>2. CASE ~Live(h)
    <3>1. r.act < now
      BY <2>2, <1>1, <1>2 DEF Live
    <3>2. n = b
      BY <3>1 DEF n, Cancel
    <3> QED BY <3>2, <2>1, <1>2, <1>5
  <2>3. CASE Live(h)
    <3>1. /\ r.act >= now /\ r.act <= b.last - b.tokens /\ r.act <= b.lastEvent
          /\ meter[k] + (now - r.act) + Period <= Full
      BY <2>3 DEF Inv, Live, Held
    <3>2. CASE n = b
      BY <3>2, <2>1, <1>2, <1>5
    <3>3. CASE n # b
      <4>1. /\ n \in Bucket /\ n.last = now
            /\ Credits(n, now) <= (now - r.act) + Period
            /\ n.last - n.tokens >= r.act - Period
            /\ n.lastEvent >= r.act - Period
            /\ b.lastEvent < r.act + Period
        BY <3>1, <3>3, <1>2, CancelFact DEF n
      <4>2. Credits(n, now) \in Int
        BY <4>1, <1>2, CreditsFact
      <4>3. meter[k] + Credits(n, now) <= Full
        BY <3>1, <4>1, <4>2, <1>2, FullFact
      <4>4. ASSUME NEW g \in Handlers, g # h, Live(g), rejected[g].key = k
            PROVE  /\ rejected[g].act <= n.last - n.tokens
                   /\ rejected[g].act <= n.lastEvent
        <5>1. Held(g) /\ Apart(g, h) /\ rejected[g].act \in Nat
          BY <2>3, <4>4, InvFacts DEF Inv, Live
        <5>2. rejected[g].act <= b.lastEvent
          BY <5>1, <4>4 DEF Held
        <5>3. rejected[g].act + Period <= r.act
          BY <5>1, <5>2, <4>1, <4>4, <1>2, FullFact DEF Apart, Bucket
        <5> QED BY <5>1, <5>3, <4>1, <1>2, FullFact DEF Bucket
      <4> QED BY <4>1, <4>3, <4>4, <1>2
    <3> QED BY <3>2, <3>3
  <2> QED BY <2>2, <2>3
<1>7. [bucket |-> n, lastSeen |-> clients[k].lastSeen] \in Client
      /\ [bucket |-> n, lastSeen |-> clients[k].lastSeen] # NoClient
  BY <1>2, <1>6, LimiterAssumption DEF Client
<1>8. TypeOK'
  BY <1>1, <1>2, <1>7, InvFacts DEF TypeOK
<1>9. ASSUME NEW j \in Keys PROVE Level(j)'
  <2>1. CASE j = k
    BY <2>1, <1>1, <1>4, <1>5, <1>6, <1>7 DEF Level
  <2>2. CASE j # k
    <3>1. Level(j)
      BY DEF Inv
    <3> QED BY <2>2, <3>1, <1>1, <1>4 DEF Level, Credits
  <2> QED BY <2>1, <2>2
<1>10. RateBound'
  BY <1>1 DEF RateBound, Inv
<1>11. ASSUME NEW g \in Handlers PROVE Recent(g)'
  <2>1. CASE g = h
    BY <2>1, <1>3 DEF Recent, NoReservation
  <2>2. CASE g # h
    BY <2>2, <1>1, <1>3, <1>4, <1>7 DEF Recent, Inv
  <2> QED BY <2>1, <2>2
<1>12. ASSUME NEW g \in Handlers, Live(g)' PROVE Held(g)'
  <2>1. g # h /\ Live(g) /\ rejected'[g] = rejected[g]
    BY <1>1, <1>3, <1>12 DEF Live, NoReservation
  <2>2. Held(g)
    BY <2>1 DEF Inv
  <2>3. CASE rejected[g].key = k
    BY <2>1, <2>2, <2>3, <1>1, <1>4, <1>6 DEF Held
  <2>4. CASE rejected[g].key # k
    <3>1. rejected[g].key \in Keys
      BY <2>1, InvFacts DEF Live
    <3> QED BY <2>1, <2>2, <2>4, <3>1, <1>1, <1>4 DEF Held
  <2> QED BY <2>3, <2>4
<1>13. \A g, f \in Handlers : Live(g)' /\ Live(f)' => Apart(g, f)'
  BY <1>1, <1>3 DEF Inv, Live, Apart, NoReservation
<1> QED BY <1>8, <1>9, <1>10, <1>11, <1>12, <1>13 DEF Inv

LEMMA TickInv == ASSUME Inv, Tick PROVE Inv'
<1>1. /\ now' = now + 1 /\ clients' = clients /\ rejected' = rejected
      /\ wronged' = wronged
      /\ meter' = [k \in Keys |-> IF meter[k] = 0 THEN 0 ELSE meter[k] - 1]
      /\ \A h \in Handlers :
            rejected[h] # NoReservation => now < rejected[h].since + Stall
  BY DEF Tick, Pending
<1>2. now \in Nat /\ meter \in [Keys -> Nat] /\ Stall \in Nat
  BY InvFacts, LimiterAssumption
<1>3. \A k \in Keys : /\ meter'[k] \in Nat /\ meter[k] \in Nat
                      /\ meter'[k] <= meter[k]
                      /\ meter'[k] = 0 \/ meter'[k] = meter[k] - 1
  BY <1>1, <1>2
<1>4. TypeOK'
  BY <1>1, <1>2, <1>3, InvFacts DEF TypeOK
<1>5. ASSUME NEW k \in Keys PROVE Level(k)'
  <2>1. Level(k)
    BY DEF Inv
  <2>2. CASE clients[k] = NoClient
    BY <2>1, <2>2, <1>1, <1>2 DEF Level
  <2>3. CASE clients[k] # NoClient
    <3> DEFINE b == clients[k].bucket
    <3>1. b \in Bucket /\ b.last <= now /\ clients[k].lastSeen \in Nat
      BY <2>3, InvFacts
    <3>2. /\ Credits(b, now) \in Int /\ Credits(b, now + 1) \in Int
          /\ Credits(b, now + 1) <= Full
          /\ Credits(b, now + 1) <= Credits(b, now) + 1
      BY <3>1, <1>2, CreditsFact
    <3>3. /\ meter[k] + Credits(b, now) <= Full
          /\ meter[k] = 0 \/ meter[k] + (now - clients[k].lastSeen) <= Full
          /\ clients[k].lastSeen <= now
      BY <2>1, <2>3 DEF Level
    <3>4. meter'[k] + Credits(b, now + 1) <= Full
      BY <3>2, <3>3, <1>3, FullFact
    <3>5. meter'[k] = 0 \/ meter'[k] + ((now + 1) - clients[k].lastSeen) <= Full
      BY <3>1, <3>3, <1>2, <1>3, FullFact
    <3>6. b.last <= now + 1 /\ clients[k].lastSeen <= now + 1
      BY <3>1, <3>3, <1>2 DEF Bucket
    <3> QED BY <2>3, <3>4, <3>5, <3>6, <1>1 DEF Level, Credits
  <2> QED BY <2>2, <2>3
<1>6. RateBound'
  BY <1>3, FullFact DEF RateBound, Inv
<1>7. ASSUME NEW h \in Handlers PROVE Recent(h)'
  <2>1. CASE rejected[h] # NoReservation
    <3>1. Recent(h) /\ rejected[h].since \in Nat
      BY <2>1, InvFacts DEF Inv
    <3> QED BY <2>1, <3>1, <1>1, <1>2 DEF Recent
  <2> QED BY <2>1, <1>1 DEF Recent
<1>8. ASSUME NEW h \in Handlers, Live(h)' PROVE Live(h) /\ Held(h)'
  <2>1. Live(h) /\ rejected[h].act >= now + 1 /\ rejected[h].act \in Nat
        /\ rejected[h].key \in Keys
    BY <1>1, <1>2, <1>8, InvFacts DEF Live
  <2>2. Held(h)
    BY <2>1 DEF Inv
  <2> DEFINE k == rejected[h].key
  <2>3. meter'[k] + ((now + 1) - rejected[h].act) + Period <= Full
    BY <2>1, <2>2, <1>2, <1>3, FullFact DEF Held
  <2> QED BY <2>1, <2>2, <2>3, <1>1 DEF Held
<1>9. \A g, h \in Handlers : Live(g)' /\ Live(h)' => Apart(g, h)'
  BY <1>1, <1>8 DEF Inv, Apart
<1> QED BY <1>4, <1>5, <1>6, <1>7, <1>8, <1>9 DEF Inv

\* Cleanup evicts a client only when its meter is back to zero and no handler
\* holds one of its reservations.
LEMMA CleanupInv == ASSUME Inv, Full <= TTL, Cleanup PROVE Inv'
<1>1. /\ clients' = [k \in Keys |-> IF Stale(k) THEN NoClient ELSE clients[k]]
      /\ now' = now /\ rejected' = rejected /\ meter' = meter /\ wronged' = wronged
  BY DEF Cleanup
<1>2. now \in Nat /\ TTL \in Nat /\ Stall \in Nat /\ Stall <= TTL /\ Full \in Nat
  BY InvFacts, LimiterAssumption, FullFact
<1>3. \A k \in Keys : clients'[k] = IF Stale(k) THEN NoClient ELSE clients[k]
  BY <1>1
<1>4. ASSUME NEW k \in Keys, Stale(k) PROVE meter[k] = 0
  BY <1>2, <1>4, InvFacts DEF Stale, Inv, Level
<1>5. ASSUME NEW h \in Handlers, rejected[h] # NoReservation
      PROVE  rejected[h].key \in Keys /\ ~Stale(rejected[h].key)
  BY <1>2, <1>5, InvFacts DEF Stale, Inv, Recent
<1>6. TypeOK'
  BY <1>1, InvFacts DEF TypeOK
<1>7. ASSUME NEW k \in Keys PROVE Level(k)'
  BY <1>1, <1>3, <1>4 DEF Level, Inv, Credits
<1>8. RateBound'
  BY <1>1 DEF RateBound, Inv
<1>9. \A h \in Handlers : rejected[h] # NoReservation =>
          clients'[rejected[h].key] = clients[rejected[h].key]
  BY <1>3, <1>5
<1>10. \A h \in Handlers : Recent(h)'
  BY <1>1, <1>9 DEF Recent, Inv
<1>11. \A h \in Handlers : Live(h)' => Held(h)'
  BY <1>1, <1>9 DEF Live, Held, Inv
<1>12. \A g, h \in Handlers : Live(g)' /\ Live(h)' => Apart(g, h)'
  BY <1>1 DEF Inv, Live, Apart
<1> QED BY <1>6, <1>7, <1>8, <1>10, <1>11, <1>12 DEF Inv

LEMMA StutterInv == ASSUME Inv, UNCHANGED vars PROVE Inv'
<1>1. /\ now' = now /\ clients' = clients /\ rejected' = rejected
      /\ meter' = meter /\ wronged' = wronged
  BY DEF vars
<1>2. TypeOK' /\ RateBound'
  BY <1>1 DEF Inv, TypeOK, RateBound
<1>3. \A k \in Keys : Level(k)'
  BY <1>1 DEF Inv, Level, Credits
<1>4. \A h \in Handlers : Recent(h)' /\ (Live(h)' => Held(h)')
  BY <1>1 DEF Inv, Recent, Live, Held
<1>5. \A g, h \in Handlers : Live(g)' /\ Live(h)' => Apart(g, h)'
  BY <1>1 DEF Inv, Live, Apart
<1> QED BY <1>2, <1>3, <1>4, <1>5 DEF Inv

-----------------------------------------------------------------------------

LEMMA StepInv == Full <= TTL => (Inv /\ [Next]_vars => Inv')
BY AdmitInv, RejectInv, CancelInv, TickInv, CleanupInv, StutterInv DEF Next

\* When a bucket refills within the TTL, a client has at most
\* Burst + d / Period requests admitted in any interval of d ticks, however
\* many handlers reserve, cancel and stall and whenever cleanup runs.
THEOREM AdmissionsBounded == Full <= TTL => (Spec => []RateBound)
<1> SUFFICES ASSUME Full <= TTL PROVE Spec => []RateBound
  OBVIOUS
<1>1. Inv /\ [Next]_vars => Inv'
  BY StepInv
<1>2. Inv => RateBound
  BY DEF Inv
<1> QED BY InitInv, <1>1, <1>2, PTL DEF Spec

-----------------------------------------------------------------------------
(* The client of ch10 *)

\* A window begins at each multiple of its length.
LEMMA DivIs ==
  ASSUME NEW n \in Nat, NEW w \in Nat \ {0}
  PROVE  /\ n \div w \in Nat
         /\ (n \div w) * w <= n
         /\ n < (n \div w) * w + w
BY SMTT(30)

LEMMA DivUnique ==
  ASSUME NEW n \in Nat, NEW w \in Nat \ {0}, NEW q \in Nat, q * w <= n, n < q * w + w
  PROVE  n \div w = q
BY SMTT(30)

\* The next reset lies ahead, and stays where it is until it has come.
LEMMA ResetIs ==
  ASSUME now \in Nat
  PROVE  /\ Client10!Reset \in Nat /\ Client10!Reset > now
         /\ now' = now => Client10!Reset' = Client10!Reset
         /\ now' = now + 1 /\ now' # Client10!Reset => Client10!Reset' = Client10!Reset
         /\ now' = now + 1 => Client10!Reset' \in Nat /\ Client10!Reset' > now + 1
<1> DEFINE q == now \div Window
           p == (now + 1) \div Window
<1>0. Window \in Nat \ {0} /\ now + 1 \in Nat
  BY ClientLimitAssumption
<1>1. q \in Nat /\ q * Window <= now /\ now < q * Window + Window
  BY <1>0, DivIs
<1>2. p \in Nat /\ p * Window <= now + 1 /\ now + 1 < p * Window + Window
  BY <1>0, DivIs
<1>3. /\ Client10!Reset = (q + 1) * Window
      /\ now' = now + 1 => Client10!Reset' = (p + 1) * Window
      /\ now' = now => Client10!Reset' = (q + 1) * Window
  BY DEF Client10!Reset
<1> HIDE DEF q, p
<1>4. /\ (q + 1) * Window = q * Window + Window /\ q * Window \in Nat
      /\ (p + 1) * Window = p * Window + Window /\ p * Window \in Nat
  BY <1>0, <1>1, <1>2
<1>5. ASSUME now + 1 # q * Window + Window PROVE p = q
  <2>1. q * Window <= now + 1 /\ now + 1 < q * Window + Window
    BY <1>0, <1>1, <1>4, <1>5
  <2> QED BY <1>0, <1>1, <2>1, DivUnique DEF p
<1> QED
  BY <1>0, <1>1, <1>2, <1>3, <1>4, <1>5

\* What a rate limit says of the future is true: it is about this window at
\* most, and if it says that nothing remains, nothing does.
Truthful(l) ==
    /\ l.reset <= Client10!Reset
    /\ l.remaining = 0 /\ now < l.reset => used = PerWindow

\* A caller that has been told to wait has still to receive that, and will then
\* sleep long enough, or sleeps: c is at l with n of told, the headers a and
\* the Retry-After s on their way, and a timer set to u.
Obedient(l, n, a, s, u) ==
    n > now => \/ l = "429" /\ n <= Client10!Until(a, s)
               \/ l = "sleeping" /\ n <= u

\* The invariant: rate limits are truthful, wherever they are; a caller waits
\* because of one, for this window at most; and callers do as they are told.
ClientInv ==
    /\ Client10!TypeOK
    /\ Truthful(rateLimit)
    /\ \A c \in Callers :
          /\ Truthful(answer[c])
          /\ pc[c] = "waiting" => wake[c] <= Client10!Reset
          /\ pc[c] = "waiting" /\ now < wake[c] => used = PerWindow
          /\ Obedient(pc[c], told[c], answer[c], retryAfter[c], wake[c])

LEMMA ClientInit == Client10!Init => ClientInv
<1> SUFFICES ASSUME Client10!Init PROVE ClientInv
  OBVIOUS
<1>1. now = 0 /\ Client10!Reset \in Nat
  <2>1. now = 0 /\ now \in Nat
    BY DEF Client10!Init
  <2> QED BY <2>1, ResetIs
<1>2. Client10!Unknown \in Client10!RateLimit
  BY ClientLimitAssumption DEF Client10!Unknown, Client10!RateLimit
<1>3. Client10!TypeOK
  BY <1>2, ClientLimitAssumption DEF Client10!Init, Client10!TypeOK
<1>4. Truthful(Client10!Unknown)
  BY <1>1 DEF Truthful, Client10!Unknown
<1> QED
  BY <1>1, <1>3, <1>4 DEF Client10!Init, ClientInv, Obedient

\* What a step of c does to it and to what is shared: it is at l, with the
\* rate limit a and the Retry-After s on their way to it, a timer set to u and
\* n of told.
Becomes(c, l, a, s, u, n) ==
    /\ l \in {"idle", "waiting", "ready", "sent", "429", "sleeping"}
    /\ a \in Client10!RateLimit /\ s \in -1..MaxRetryAfter /\ u \in Nat /\ n \in Nat
    /\ pc' = [pc EXCEPT ![c] = l] /\ answer' = [answer EXCEPT ![c] = a]
    /\ retryAfter' = [retryAfter EXCEPT ![c] = s]
    /\ wake' = [wake EXCEPT ![c] = u] /\ told' = [told EXCEPT ![c] = n]
    /\ used' \in 0..PerWindow /\ used' >= used
    /\ rateLimit' \in {rateLimit, answer[c]}
    /\ a.reset <= Client10!Reset
    /\ a.remaining = 0 /\ now < a.reset => used' = PerWindow
    /\ l = "waiting" => u <= Client10!Reset
    /\ l = "waiting" /\ now < u => used' = PerWindow
    /\ Obedient(l, n, a, s, u)

\* A step of a caller.
LEMMA DoKeeps ==
  ASSUME ClientInv, NEW c \in Callers, Client10!Do(c)
  PROVE  ClientInv'
<1>0. /\ now \in Nat /\ now' = now /\ Client10!Reset' = Client10!Reset
      /\ Client10!Reset \in Nat /\ Client10!Reset > now
      /\ PerWindow \in Nat /\ used \in 0..PerWindow /\ now \in 0..ClientMaxTime
      /\ MaxRetryAfter \in Nat
  <2>1. now \in Nat /\ now' = now /\ used \in 0..PerWindow /\ now \in 0..ClientMaxTime
    BY DEF ClientInv, Client10!TypeOK, Client10!Do, Client10!Pass, Client10!Wait,
        Client10!Waited, Client10!Serve, Client10!Refuse, Client10!Receive,
        Client10!ReceiveRefusal, Client10!LoseBody, Client10!Slept, Client10!GiveUp
  <2> QED BY <2>1, ResetIs, ClientLimitAssumption
<1>1. /\ rateLimit \in Client10!RateLimit /\ Truthful(rateLimit)
      /\ answer[c] \in Client10!RateLimit /\ Truthful(answer[c])
      /\ retryAfter[c] \in -1..MaxRetryAfter /\ wake[c] \in Nat /\ told[c] \in Nat
      /\ pc[c] = "waiting" => wake[c] <= Client10!Reset
      /\ pc[c] = "waiting" /\ now < wake[c] => used = PerWindow
      /\ Obedient(pc[c], told[c], answer[c], retryAfter[c], wake[c])
  BY DEF ClientInv, Client10!TypeOK
<1>2. Client10!Unknown \in Client10!RateLimit /\ Truthful(Client10!Unknown)
  BY <1>0 DEF Truthful, Client10!Unknown, Client10!RateLimit
\* What a step does to the caller and to what is shared is enough.
<1>3. ASSUME NEW l, NEW a, NEW s, NEW u, NEW n, Becomes(c, l, a, s, u, n)
      PROVE  ClientInv'
  <2>1. Client10!TypeOK'
    BY <1>0, <1>1, <1>3 DEF ClientInv, Client10!TypeOK, Becomes
  <2>2. Truthful(rateLimit)'
    BY <1>0, <1>1, <1>3 DEF Truthful, Becomes
  <2>3. ASSUME NEW d \in Callers
        PROVE  /\ Truthful(answer[d])'
               /\ pc'[d] = "waiting" => wake'[d] <= Client10!Reset'
               /\ pc'[d] = "waiting" /\ now' < wake'[d] => used' = PerWindow
               /\ Obedient(pc[d], told[d], answer[d], retryAfter[d], wake[d])'
    <3>1. CASE d = c
      <4>1. /\ pc'[d] = l /\ answer'[d] = a /\ retryAfter'[d] = s /\ wake'[d] = u
            /\ told'[d] = n
        BY <1>3, <3>1 DEF ClientInv, Client10!TypeOK, Becomes
      <4> QED BY <1>0, <1>3, <4>1 DEF Truthful, Becomes, Obedient, Client10!Until
    <3>2. CASE d # c
      <4>1. /\ pc'[d] = pc[d] /\ answer'[d] = answer[d] /\ wake'[d] = wake[d]
            /\ retryAfter'[d] = retryAfter[d] /\ told'[d] = told[d]
        BY <1>3, <3>2 DEF ClientInv, Client10!TypeOK, Becomes
      <4>2. Obedient(pc[d], told[d], answer[d], retryAfter[d], wake[d])'
        BY <1>0, <4>1 DEF ClientInv, Obedient, Client10!Until
      <4> QED BY <1>0, <1>3, <4>1, <4>2 DEF ClientInv, Truthful, Becomes
    <3> QED BY <3>1, <3>2
  <2> QED BY <2>1, <2>2, <2>3 DEF ClientInv
<1>4. /\ pc = [pc EXCEPT ![c] = pc[c]] /\ answer = [answer EXCEPT ![c] = answer[c]]
      /\ retryAfter = [retryAfter EXCEPT ![c] = retryAfter[c]]
      /\ wake = [wake EXCEPT ![c] = wake[c]] /\ told = [told EXCEPT ![c] = told[c]]
  BY DEF ClientInv, Client10!TypeOK
<1>5. /\ answer[c].reset \in Nat /\ rateLimit.reset \in Nat
      /\ Client10!Unknown.reset = 0 /\ Client10!Unknown.reset <= Client10!Reset
      /\ ~ (Client10!Unknown.remaining = 0 /\ now < Client10!Unknown.reset)
      /\ Client10!Until(answer[c], retryAfter[c]) \in Nat
      /\ -1 \in -1..MaxRetryAfter
  BY <1>0, <1>1 DEF Client10!Unknown, Client10!RateLimit, Client10!Until
\* The rate limit headers of an answer that leaves the server now.
<1>6. ASSUME NEW m \in 0..PerWindow, NEW a \in {Client10!Headers(m), Client10!Unknown}
      PROVE  /\ a \in Client10!RateLimit /\ a.reset \in Nat /\ a.reset <= Client10!Reset
             /\ a.remaining = 0 /\ now < a.reset => m = 0
  BY <1>0, <1>2, <1>5 DEF Client10!Headers, Client10!RateLimit
<1> HIDE DEF Client10!Unknown
<1> USE DEF Client10!Goto, Client10!Take, Client10!Awake, Client10!Sleep, Client10!Store,
        Becomes, Truthful, Obedient
<1>7. CASE Client10!Pass(c)
  <2>1. Becomes(c, "ready", answer[c], retryAfter[c], wake[c], told[c])
    BY <1>0, <1>1, <1>2, <1>4, <1>5, <1>7 DEF Client10!Pass
  <2> QED BY <1>3, <2>1
<1>8. CASE Client10!Wait(c)
  <2>1. Becomes(c, "waiting", answer[c], retryAfter[c], rateLimit.reset, told[c])
    BY <1>0, <1>1, <1>2, <1>4, <1>5, <1>8 DEF Client10!Wait, Client10!Exhausted
  <2> QED BY <1>3, <2>1
<1>9. CASE Client10!Waited(c)
  <2>1. Becomes(c, "ready", answer[c], retryAfter[c], 0, told[c])
    BY <1>0, <1>1, <1>2, <1>4, <1>5, <1>9 DEF Client10!Waited
  <2> QED BY <1>3, <2>1
<1>10. CASE Client10!Serve(c)
  <2>1. /\ pc[c] = "ready" /\ used' = used + 1 /\ used < PerWindow
        /\ pc' = [pc EXCEPT ![c] = "sent"] /\ UNCHANGED <<rateLimit, retryAfter, wake, told>>
    BY <1>10 DEF Client10!Serve
  <2>2. PICK a \in {Client10!Headers(PerWindow - used - 1), Client10!Unknown} :
            answer' = [answer EXCEPT ![c] = a]
    BY <1>10 DEF Client10!Serve
  <2>3. /\ a \in Client10!RateLimit /\ a.reset <= Client10!Reset
        /\ a.remaining = 0 /\ now < a.reset => used + 1 = PerWindow
    BY <1>0, <1>6, <2>1, <2>2
  <2>4. Becomes(c, "sent", a, retryAfter[c], wake[c], told[c])
    BY <1>0, <1>1, <1>4, <2>1, <2>2, <2>3
  <2> QED BY <1>3, <2>4
<1>11. CASE Client10!Refuse(c)
  <2>1. pc' = [pc EXCEPT ![c] = "429"] /\ UNCHANGED <<used, rateLimit, wake>>
    BY <1>11 DEF Client10!Refuse
  <2>2. PICK a \in {Client10!Headers(PerWindow - used), Client10!Unknown},
             s \in -1..MaxRetryAfter :
               /\ answer' = [answer EXCEPT ![c] = a]
               /\ retryAfter' = [retryAfter EXCEPT ![c] = s]
               /\ told' = [told EXCEPT ![c] = Client10!Until(a, s)]
    BY <1>11 DEF Client10!Refuse
  <2>3. /\ a \in Client10!RateLimit /\ a.reset \in Nat /\ a.reset <= Client10!Reset
        /\ a.remaining = 0 /\ now < a.reset => used = PerWindow
    BY <1>0, <1>6, <2>2
  <2>4. Client10!Until(a, s) \in Nat
    BY <1>0, <2>2, <2>3 DEF Client10!Until
  <2>5. Becomes(c, "429", a, s, wake[c], Client10!Until(a, s))
    BY <1>0, <1>1, <1>4, <2>1, <2>2, <2>3, <2>4
  <2> QED BY <1>3, <2>5
<1>12. CASE Client10!Receive(c)
  <2>1. Becomes(c, "idle", Client10!Unknown, -1, wake[c], told[c])
    BY <1>0, <1>1, <1>2, <1>4, <1>5, <1>12 DEF Client10!Receive
  <2> QED BY <1>3, <2>1
<1>13. CASE Client10!ReceiveRefusal(c)
  <2>1. Becomes(c, "sleeping", Client10!Unknown, -1,
                Client10!Until(answer[c], retryAfter[c]), told[c])
    BY <1>0, <1>1, <1>2, <1>4, <1>5, <1>13 DEF Client10!ReceiveRefusal
  <2> QED BY <1>3, <2>1
<1>14. CASE Client10!LoseBody(c)
  <2>1. Becomes(c, "idle", Client10!Unknown, -1, wake[c], 0)
    BY <1>0, <1>1, <1>2, <1>4, <1>5, <1>14 DEF Client10!LoseBody
  <2> QED BY <1>3, <2>1
<1>15. CASE Client10!Slept(c)
  <2>1. Becomes(c, "idle", answer[c], retryAfter[c], 0, told[c])
    BY <1>0, <1>1, <1>2, <1>4, <1>5, <1>15 DEF Client10!Slept
  <2> QED BY <1>3, <2>1
<1>16. CASE Client10!GiveUp(c)
  <2>1. Becomes(c, "idle", Client10!Unknown, -1, 0, 0)
    BY <1>0, <1>1, <1>2, <1>4, <1>5, <1>16 DEF Client10!GiveUp
  <2> QED BY <1>3, <2>1
<1> QED
  BY <1>7, <1>8, <1>9, <1>10, <1>11, <1>12, <1>13, <1>14, <1>15, <1>16 DEF Client10!Do

\* A tick of the clock: what was said of a window is void when it is over.
LEMMA ClientTickKeeps ==
  ASSUME ClientInv, Client10!Tick
  PROVE  ClientInv'
<1> DEFINE R == Client10!Reset
<1>0. /\ now \in Nat /\ now' = now + 1 /\ now + 1 \in 0..ClientMaxTime
      /\ R \in Nat /\ R > now /\ R' \in Nat /\ R' > now + 1
      /\ now + 1 # R => R' = R
      /\ PerWindow \in Nat /\ used \in 0..PerWindow
      /\ now + 1 = R => R <= R'
  <2>1. /\ now \in Nat /\ now' = now + 1 /\ used \in 0..PerWindow /\ now + 1 \in 0..ClientMaxTime
    BY ClientLimitAssumption DEF ClientInv, Client10!TypeOK, Client10!Tick
  <2> QED BY <2>1, ResetIs, ClientLimitAssumption
<1>1. /\ rateLimit' = rateLimit /\ pc' = pc /\ answer' = answer /\ wake' = wake
      /\ retryAfter' = retryAfter /\ told' = told
      /\ used' = IF now + 1 = R THEN 0 ELSE used
  BY <1>0 DEF Client10!Tick
<1>2. \A c \in Callers : /\ wake[c] \in Nat /\ answer[c].reset \in Nat
                         /\ told[c] \in Nat /\ retryAfter[c] \in Int
  BY ClientLimitAssumption DEF ClientInv, Client10!TypeOK, Client10!RateLimit
<1>3. rateLimit.reset \in Nat
  BY DEF ClientInv, Client10!TypeOK, Client10!RateLimit
<1>4. Client10!TypeOK'
  BY <1>0, <1>1 DEF ClientInv, Client10!TypeOK
<1> HIDE DEF R
<1>5. ASSUME NEW l, Truthful(l), l.reset \in Nat, l' = l PROVE Truthful(l)'
  BY <1>0, <1>1, <1>5 DEF Truthful, R
<1>6. Truthful(rateLimit)'
  BY <1>0, <1>1, <1>3 DEF ClientInv, Truthful, R
<1>7. ASSUME NEW c \in Callers
      PROVE  /\ Truthful(answer[c])'
             /\ pc'[c] = "waiting" => wake'[c] <= Client10!Reset'
             /\ pc'[c] = "waiting" /\ now' < wake'[c] => used' = PerWindow
             /\ Obedient(pc[c], told[c], answer[c], retryAfter[c], wake[c])'
  <2>1. Obedient(pc[c], told[c], answer[c], retryAfter[c], wake[c])'
    BY <1>0, <1>1, <1>2 DEF ClientInv, Obedient, Client10!Until
  <2> QED BY <1>0, <1>1, <1>2, <2>1 DEF ClientInv, Truthful, R
<1> QED
  BY <1>4, <1>6, <1>7 DEF ClientInv

-----------------------------------------------------------------------------
(* Both sides *)

\* Nothing happens to the side that was not chosen.
BothInv ==
    /\ side \in {"server", "client"}
    /\ side = "client" => TypeOK /\ ClientInv
    /\ side = "server" =>
          \A c \in Callers : pc[c] = "idle"

LEMMA BothInvHolds == LimitersSpec => []BothInv
<1>1. LimitersInit => BothInv
  <2>1. Init => TypeOK
    BY InitInv DEF Inv
  <2> QED BY <2>1, ClientInit DEF LimitersInit, BothInv, Client10!Init
<1>2. ASSUME BothInv, [LimitersNext]_<<side, now, serverVars, clientVars>> PROVE BothInv'
  <2>1. CASE side = "server" /\ Next /\ UNCHANGED <<side, clientVars>>
    BY <1>2, <2>1 DEF BothInv, clientVars
  <2>2. CASE side = "client" /\ Client10!Next /\ UNCHANGED <<side, serverVars>>
    <3>1. ClientInv'
      BY <1>2, <2>2, DoKeeps, ClientTickKeeps DEF BothInv, Client10!Next
    <3>2. now' \in Nat
      BY <3>1 DEF ClientInv, Client10!TypeOK
    <3>3. TypeOK'
      BY <1>2, <2>2, <3>2 DEF BothInv, TypeOK, serverVars
    <3> QED BY <1>2, <2>2, <3>1, <3>3 DEF BothInv
  <2>3. CASE UNCHANGED <<side, now, serverVars, clientVars>>
    BY <1>2, <2>3 DEF BothInv, TypeOK, ClientInv, Truthful, Obedient, Client10!TypeOK,
        Client10!Reset, Client10!Until, serverVars, clientVars
  <2> QED BY <1>2, <2>1, <2>2, <2>3 DEF LimitersNext
<1> QED
  BY <1>1, <1>2, PTL DEF LimitersSpec

\* No caller of ch10's client sends a request before its last 429 told it to,
\* by Retry-After or by reset, and no caller waits for a reset without need,
\* in whatever order the answers arrive.
THEOREM ClientWaitsEnough == LimitersSpec => []ClientObeysLimit
<1>1. BothInv => ClientObeysLimit
  <2>1. BothInv /\ side = "server" => ClientObeysLimit
    BY DEF BothInv, ClientObeysLimit, Client10!NothingSentEarly, Client10!WaitsAreJustified
  <2>2. BothInv /\ side = "client" => ClientObeysLimit
    <3> SUFFICES ASSUME ClientInv PROVE ClientObeysLimit
      BY DEF BothInv
    <3>1. now \in Nat /\ \A c \in Callers : told[c] \in Nat
      BY DEF ClientInv, Client10!TypeOK
    <3> QED
      BY <3>1 DEF ClientInv, Obedient, ClientObeysLimit, Client10!NothingSentEarly,
          Client10!WaitsAreJustified
  <2> QED BY <2>1, <2>2 DEF BothInv
<1> QED
  BY <1>1, BothInvHolds, PTL

\* The types of both sides: no bucket of ch33 ever holds more than Burst tokens.
THEOREM LimitersTyped == Full <= TTL => (LimitersSpec => []LimitersTypeOK)
<1> SUFFICES ASSUME Full <= TTL PROVE LimitersSpec => []LimitersTypeOK
  OBVIOUS
<1> DEFINE ServerInv == side = "server" => Inv
<1>1. LimitersInit => ServerInv
  BY InitInv DEF LimitersInit
<1>2. ASSUME ServerInv, [LimitersNext]_<<side, now, serverVars, clientVars>> PROVE ServerInv'
  <2>1. CASE side = "server" /\ Next
    BY <1>2, <2>1, StepInv
  <2>2. CASE UNCHANGED <<side, now, serverVars, clientVars>>
    <3>1. UNCHANGED vars
      BY <2>2 DEF vars, serverVars
    <3> QED BY <1>2, <2>2, <3>1, StutterInv
  <2>3. CASE side = "client" /\ UNCHANGED side
    BY <2>3
  <2> QED BY <1>2, <2>1, <2>2, <2>3 DEF LimitersNext
<1>3. ServerInv /\ BothInv => LimitersTypeOK
  BY DEF BothInv, ClientInv, Inv, LimitersTypeOK
<1> QED
  BY <1>1, <1>2, <1>3, BothInvHolds, PTL DEF LimitersSpec

=============================================================================
