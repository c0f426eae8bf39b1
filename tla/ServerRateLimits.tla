-------------------------- MODULE ServerRateLimits --------------------------
(***************************************************************************)
(* The two rate limiters of server/routes.go: every request passes the     *)
(* global one, and register and login then pass loginRL.  Each is one      *)
(* bucket for all clients; a request is refused when Allow finds no token. *)
(***************************************************************************)
EXTENDS Integers

CONSTANTS
    Handlers,      \* goroutines serving requests
    GlobalBurst,   \* 50
    GlobalPeriod,  \* ticks per token: rate.Limit(100) is one in 10 ms
    LoginBurst,    \* 5
    LoginPeriod,   \* ticks per token: rate.Every(1) is one in 1 ns
    MaxTime        \* bound: ticks of the clock

ASSUME RateLimitsAssumption ==
    /\ GlobalBurst \in Nat \ {0} /\ GlobalPeriod \in Nat \ {0}
    /\ LoginBurst \in Nat \ {0} /\ LoginPeriod \in Nat \ {0}
    /\ MaxTime \in Nat

Global == INSTANCE TokenBucket WITH Burst <- GlobalBurst, Period <- GlobalPeriod
Login == INSTANCE TokenBucket WITH Burst <- LoginBurst, Period <- LoginPeriod

VARIABLES
    now,      \* the clock
    global,   \* the limiter of r.Use(RateLimiter(...))
    login,    \* loginRL
    pc,       \* pc[h]: "idle", or between the two limiters
    passed,   \* history: leaky meter of what the global limiter let pass
    logins,   \* history: leaky meter of what both let pass
    wronged   \* history: did Allow refuse a request there was room for?

vars == <<now, global, login, pc, passed, logins, wronged>>

TypeOK ==
    /\ now \in Nat
    /\ global \in Global!Bucket
    /\ login \in Login!Bucket
    /\ pc \in [Handlers -> {"idle", "login"}]
    /\ passed \in Nat /\ logins \in Nat
    /\ wronged \in BOOLEAN
    /\ global.tokens >= 0 /\ login.tokens >= 0

Init ==
    /\ now = 0
    /\ global = Global!NewBucket(0)
    /\ login = Login!NewBucket(0)
    /\ pc = [h \in Handlers |-> "idle"]
    /\ passed = 0
    /\ logins = 0
    /\ wronged = FALSE

-----------------------------------------------------------------------------

\* Mutation of AllowGlobal: every request gets a limiter of its own.
AllowGlobalFresh ==
    /\ global' = Global!Reserve(Global!NewBucket(now), now)
    /\ passed' = passed + GlobalPeriod

AllowGlobal ==
    /\ Global!MayAllow(global, now)
    /\ global' = Global!Reserve(global, now)
    /\ passed' = passed + GlobalPeriod

\* Any request but a login: the global limiter is the only one.
Serve(h) ==
    /\ pc[h] = "idle"
    /\ AllowGlobal
    /\ UNCHANGED <<now, login, pc, logins, wronged>>

\* A register or login passes the global limiter and goes on to loginRL.
ServeLogin(h) ==
    /\ pc[h] = "idle"
    /\ AllowGlobal
    /\ pc' = [pc EXCEPT ![h] = "login"]
    /\ UNCHANGED <<now, login, logins, wronged>>

\* Mutation of Refuse: the refused request pays for its refusal.
RefuseTakes(h) ==
    /\ pc[h] = "idle"
    /\ ~Global!MayAllow(global, now)
    /\ global' = Global!Reserve(global, now)
    /\ wronged' = (wronged \/ passed + GlobalPeriod <= Global!Full)
    /\ UNCHANGED <<now, login, pc, passed, logins>>

\* 429 by the global limiter.
Refuse(h) ==
    /\ pc[h] = "idle"
    /\ ~Global!MayAllow(global, now)
    /\ wronged' = (wronged \/ passed + GlobalPeriod <= Global!Full)
    /\ UNCHANGED <<now, global, login, pc, passed, logins>>

AdmitLogin(h) ==
    /\ pc[h] = "login"
    /\ Login!MayAllow(login, now)
    /\ login' = Login!Reserve(login, now)
    /\ logins' = logins + GlobalPeriod
    /\ pc' = [pc EXCEPT ![h] = "idle"]
    /\ UNCHANGED <<now, global, passed, wronged>>

\* 429 by loginRL; the global token is spent all the same.
RefuseLogin(h) ==
    /\ pc[h] = "login"
    /\ ~Login!MayAllow(login, now)
    /\ pc' = [pc EXCEPT ![h] = "idle"]
    /\ UNCHANGED <<now, global, login, passed, logins, wronged>>

Leak(meter) == IF meter = 0 THEN 0 ELSE meter - 1

\* Bound: MaxTime.
Tick ==
    /\ now < MaxTime
    /\ now' = now + 1
    /\ passed' = Leak(passed)
    /\ logins' = Leak(logins)
    /\ UNCHANGED <<global, login, pc, wronged>>

Next ==
    \/ \E h \in Handlers :
          Serve(h) \/ ServeLogin(h) \/ Refuse(h) \/ AdmitLogin(h) \/ RefuseLogin(h)
    \/ Tick

Spec == Init /\ [][Next]_vars

-----------------------------------------------------------------------------
(* Properties *)

\* In any interval of d ticks the handlers serve at most
\* GlobalBurst + d / GlobalPeriod requests, all clients and routes together.
GlobalBound == passed <= Global!Full

\* The global limiter refuses a request only when what it let pass has used up
\* its bucket: refusals are free.
RefusalsAreFree == ~wronged

\* routes.go: "apply a tighter rate limit".  Logins would be admitted at no
\* more than the global rate, in bursts of LoginBurst.
LoginIsTighter == logins <= LoginBurst * GlobalPeriod

=============================================================================
