----------------------------- MODULE MCLimiters -----------------------------
(***************************************************************************)
(* Rate limits kept per client, for TLC: a behaviour is one of the server  *)
(* of ch33 (KeyedRateLimiter) or one of the client of ch10.                *)
(***************************************************************************)
EXTENDS KeyedRateLimiter, TLC

CONSTANTS
    Callers, PerWindow, Window, MaxRetryAfter,  \* of ClientRateLimit
    ClientMaxTime                               \* its MaxTime

VARIABLES
    side,  \* "server" or "client"
    used, rateLimit, pc, answer, retryAfter, wake, told  \* of ClientRateLimit

serverVars == <<clients, rejected, meter, wronged>>
clientVars == <<used, rateLimit, pc, answer, retryAfter, wake, told>>

Client10 == INSTANCE ClientRateLimit WITH MaxTime <- ClientMaxTime

ASSUME ClientLimitAssumption ==
    /\ PerWindow \in Nat /\ Window \in Nat \ {0}
    /\ MaxRetryAfter \in Nat /\ ClientMaxTime \in Nat

LimitersInit == side \in {"server", "client"} /\ Init /\ Client10!Init

LimitersNext ==
    \/ side = "server" /\ Next /\ UNCHANGED <<side, clientVars>>
    \/ side = "client" /\ Client10!Next /\ UNCHANGED <<side, serverVars>>

LimitersSpec ==
    LimitersInit /\ [][LimitersNext]_<<side, now, serverVars, clientVars>>

Symmetry == Permutations(Handlers) \cup Permutations(Keys) \cup Permutations(Callers)

-----------------------------------------------------------------------------
(* Properties; RateBound and RejectionJustified are those of ch33. *)

\* Buckets never hold more than their burst, on either side.
LimitersTypeOK == TypeOK /\ (side = "client" => Client10!TypeOK)

\* A caller of ch10's client waits as its last 429 told it, and waits for the
\* reset only with reason: see ClientRateLimit.
ClientObeysLimit == Client10!NothingSentEarly /\ Client10!WaitsAreJustified

=============================================================================
