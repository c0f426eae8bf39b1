----------------------------- MODULE TokenSource -----------------------------
(***************************************************************************)
(* The authenticated client of ch19_auth: authTransport asks a             *)
(* CachedTokenSource for a token, which it fetches under its mutex when    *)
(* the cached one is missing or expires within skew, and sends it.         *)
(* Fetches and requests take time, and a fetch may fail.                   *)
(***************************************************************************)
EXTENDS Integers

CONSTANTS
    Callers,   \* goroutines with a request
    Nobody,    \* none of them
    Life,      \* how long the issuer lets a token live
    Skew,      \* CachedTokenSource.skew
    Delay,     \* bound: ticks an issued token is on its way
    MaxTime    \* bound: ticks of the clock

VARIABLES
    now,      \* the clock
    holder,   \* who holds CachedTokenSource.mu
    expires,  \* CachedTokenSource.expires; 0 while there is no token
    pc,       \* pc[c]: "idle", "lock", "fetch", "issued" or "sent"
    token,    \* token[c]: the end of the token that c was issued or sends
    since,    \* since[c]: when the token was issued, or the request sent
    issued,   \* history: when the last token was stored that was issued, or -1
    apart     \* history: the tokens stored were issued Life - Skew ticks apart

vars == <<now, holder, expires, pc, token, since, issued, apart>>

TypeOK ==
    /\ now \in 0..MaxTime
    /\ holder \in Callers \cup {Nobody}
    /\ expires \in Nat
    /\ pc \in [Callers -> {"idle", "lock", "fetch", "issued", "sent"}]
    /\ \A c \in Callers : pc[c] \in {"fetch", "issued"} => holder = c
    /\ token \in [Callers -> Nat] /\ since \in [Callers -> 0..MaxTime]
    /\ issued \in -1..MaxTime /\ apart \in BOOLEAN

Init ==
    /\ now = 0 /\ holder = Nobody /\ expires = 0
    /\ pc = [c \in Callers |-> "idle"]
    /\ token = [c \in Callers |-> 0] /\ since = [c \in Callers |-> 0]
    /\ issued = -1 /\ apart = TRUE

Goto(c, l) == pc' = [pc EXCEPT ![c] = l]

\* RoundTrip has a token, good until t, and sends its request.
Send(c, t) ==
    /\ Goto(c, "sent")
    /\ token' = [token EXCEPT ![c] = t]
    /\ since' = [since EXCEPT ![c] = now]

\* The call is over.
Done(c) ==
    /\ Goto(c, "idle")
    /\ token' = [token EXCEPT ![c] = 0]
    /\ since' = [since EXCEPT ![c] = 0]

-----------------------------------------------------------------------------

\* Mutation of Usable: a token is used as long as it is not expired.
NotExpired == now < expires

\* The cached token does not expire within skew.
Usable == now + Skew < expires

\* RoundTrip calls Token.
Call(c) ==
    /\ pc[c] = "idle"
    /\ Goto(c, "lock")
    /\ UNCHANGED <<now, holder, expires, token, since, issued, apart>>

\* Token answers from the cache, under the mutex.
Cached(c) ==
    /\ pc[c] = "lock" /\ holder = Nobody
    /\ Usable
    /\ Send(c, expires)
    /\ UNCHANGED <<now, holder, expires, issued, apart>>

\* Token fetches, and keeps the mutex.
Fetch(c) ==
    /\ pc[c] = "lock" /\ holder = Nobody
    /\ ~Usable
    /\ holder' = c
    /\ Goto(c, "fetch")
    /\ UNCHANGED <<now, expires, token, since, issued, apart>>

\* The issuer makes a token.
Issue(c) ==
    /\ pc[c] = "fetch"
    /\ Goto(c, "issued")
    /\ token' = [token EXCEPT ![c] = now + Life]
    /\ since' = [since EXCEPT ![c] = now]
    /\ UNCHANGED <<now, holder, expires, issued, apart>>

\* fetch returns the token; it is stored, and the mutex released.
Store(c) ==
    /\ pc[c] = "issued"
    /\ expires' = token[c]
    /\ holder' = Nobody
    /\ issued' = since[c]
    /\ apart' = (apart /\ (issued = -1 \/ since[c] - issued >= Life - Skew))
    /\ Send(c, token[c])
    /\ UNCHANGED now

\* fetch returns an error: "auth: get token".
Fail(c) ==
    /\ pc[c] \in {"fetch", "issued"}
    /\ holder' = Nobody
    /\ Done(c)
    /\ UNCHANGED <<now, expires, issued, apart>>

\* The request arrives where the token is checked.
Arrive(c) ==
    /\ pc[c] = "sent"
    /\ Done(c)
    /\ UNCHANGED <<now, holder, expires, issued, apart>>

\* Bounds: Delay, MaxTime; a request is at most Skew on its way.
Tick ==
    /\ now < MaxTime
    /\ \A c \in Callers :
          /\ pc[c] = "issued" => now < since[c] + Delay
          /\ pc[c] = "sent" => now < since[c] + Skew
    /\ now' = now + 1
    /\ UNCHANGED <<holder, expires, pc, token, since, issued, apart>>

Lock(c) == Cached(c) \/ Fetch(c)
Return(c) == Store(c) \/ Fail(c)

Next ==
    \/ \E c \in Callers : Call(c) \/ Lock(c) \/ Issue(c) \/ Return(c) \/ Arrive(c)
    \/ Tick

Spec == Init /\ [][Next]_vars

\* A mutex of Go hands itself to the longest waiter in the end, and fetch returns.
FairSpec ==
    Spec /\ \A c \in Callers : SF_vars(Lock(c)) /\ WF_vars(Return(c) \/ Issue(c))

-----------------------------------------------------------------------------
(* Properties *)

\* Tokens are not fetched before they are needed: however many callers find the
\* token about to expire, two that are stored were issued Life - Skew apart.
RefreshesApart == apart

\* What skew is for: a request that arrives within Skew of being sent, carries a
\* token that has not expired, whoever fetched it and when.
TokensArriveValid == \A c \in Callers : pc[c] = "sent" => now < token[c]

\* Every caller of Token gets a token or an error, also when fetches fail.
EveryTokenReturns == \A c \in Callers : pc[c] = "lock" ~> pc[c] \in {"sent", "idle"}

=============================================================================
