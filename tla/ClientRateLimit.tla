--------------------------- MODULE ClientRateLimit ---------------------------
(***************************************************************************)
(* The client of ch10_rate_limits: its goroutines share the rate limit of  *)
(* the last answer to arrive with one, wait for the reset when it says     *)
(* that nothing remains, and sleep after a 429 as long as its Retry-After  *)
(* or else its reset says.  The server counts the requests of fixed        *)
(* windows, and may refuse others too; answers may overtake each other.    *)
(***************************************************************************)
EXTENDS Integers

CONSTANTS
    Callers,        \* goroutines that use the one client
    PerWindow,      \* requests the server answers per window
    Window,         \* ticks of a window
    MaxRetryAfter,  \* bound: ticks that a Retry-After asks for
    MaxTime         \* bound: ticks of the clock

VARIABLES
    now,        \* the clock, of client and server
    used,       \* the server: requests answered in this window
    rateLimit,  \* Client.rateLimit
    pc,         \* pc[c]: what caller c does next
    answer,     \* answer[c]: the rate limit headers on their way to c
    retryAfter, \* retryAfter[c]: the Retry-After of a 429 on its way, or -1
    wake,       \* wake[c]: when its time.After fires
    told        \* history: told[c] = until when the last 429 told c to wait;
                \* 0 once c has given up, or lost a part of that answer

vars == <<now, used, rateLimit, pc, answer, retryAfter, wake, told>>

Reset == (now \div Window + 1) * Window

RateLimit == [remaining : 0..PerWindow, reset : Nat]

\* No headers: Limit = 0, and a Reset long ago.
Unknown == [remaining |-> PerWindow, reset |-> 0]

TypeOK ==
    /\ now \in 0..MaxTime
    /\ used \in 0..PerWindow
    /\ rateLimit \in RateLimit
    /\ pc \in [Callers -> {"idle", "waiting", "ready", "sent", "429", "sleeping"}]
    /\ answer \in [Callers -> RateLimit]
    /\ retryAfter \in [Callers -> -1..MaxRetryAfter]
    /\ wake \in [Callers -> Nat] /\ told \in [Callers -> Nat]

Init ==
    /\ now = 0
    /\ used = 0
    /\ rateLimit = Unknown
    /\ pc = [c \in Callers |-> "idle"]
    /\ answer = [c \in Callers |-> Unknown]
    /\ retryAfter = [c \in Callers |-> -1]
    /\ wake = [c \in Callers |-> 0] /\ told = [c \in Callers |-> 0]

Goto(c, l) == pc' = [pc EXCEPT ![c] = l]

\* The call takes its answer, or is past its wait.
Take(c) ==
    /\ answer' = [answer EXCEPT ![c] = Unknown]
    /\ retryAfter' = [retryAfter EXCEPT ![c] = -1]
Awake(c) == wake' = [wake EXCEPT ![c] = 0]

Sleep(c, l, until) == Goto(c, l) /\ wake' = [wake EXCEPT ![c] = until]

Exhausted == rateLimit.remaining = 0 /\ now < rateLimit.reset

-----------------------------------------------------------------------------
(* checkRateLimit *)

\* The shared rate limit allows the request, as far as it is known.
Pass(c) ==
    /\ pc[c] = "idle"
    /\ ~Exhausted
    /\ Goto(c, "ready")
    /\ UNCHANGED <<now, used, rateLimit, answer, retryAfter, wake, told>>

\* It does not: wait for the reset.
Wait(c) ==
    /\ pc[c] = "idle"
    /\ Exhausted
    /\ Sleep(c, "waiting", rateLimit.reset)
    /\ UNCHANGED <<now, used, rateLimit, answer, retryAfter, told>>

\* The wait is over; the request goes out without another look.
Waited(c) ==
    /\ pc[c] = "waiting" /\ wake[c] <= now
    /\ Goto(c, "ready") /\ Awake(c)
    /\ UNCHANGED <<now, used, rateLimit, answer, retryAfter, told>>

-----------------------------------------------------------------------------
(* do *)

\* The rate limit headers of an answer after which n requests remain.
Headers(n) == [remaining |-> n, reset |-> Reset]

\* The server answers, with or without headers, and counts the request.
Serve(c) ==
    /\ pc[c] = "ready"
    /\ used < PerWindow
    /\ used' = used + 1
    /\ \E a \in {Headers(PerWindow - used - 1), Unknown} :
           answer' = [answer EXCEPT ![c] = a]
    /\ Goto(c, "sent")
    /\ UNCHANGED <<now, rateLimit, retryAfter, wake, told>>

\* When a sleep ends that begins now: Retry-After comes before the reset.
Until(a, s) == IF s >= 0 THEN now + s ELSE a.reset

\* The server answers 429: the window is used up, or another limit of its own.
Refuse(c) ==
    /\ pc[c] = "ready"
    /\ \E a \in {Headers(PerWindow - used), Unknown}, s \in -1..MaxRetryAfter :
           /\ answer' = [answer EXCEPT ![c] = a]
           /\ retryAfter' = [retryAfter EXCEPT ![c] = s]
           /\ told' = [told EXCEPT ![c] = Until(a, s)]
    /\ Goto(c, "429")
    /\ UNCHANGED <<now, used, rateLimit, wake>>

\* updateRateLimit: whatever has arrived before, but nothing without a Limit.
Store(c) == rateLimit' = IF answer[c] = Unknown THEN rateLimit ELSE answer[c]

\* Another answer than a 429 arrives, and the call returns.
Receive(c) ==
    /\ pc[c] = "sent"
    /\ Store(c) /\ Take(c) /\ Goto(c, "idle")
    /\ UNCHANGED <<now, used, wake, told>>

\* Mutation of ReceiveRefusal: Retry-After is not looked at.
ReceiveRefusalToReset(c) ==
    /\ pc[c] = "429"
    /\ Store(c) /\ Take(c) /\ Sleep(c, "sleeping", answer[c].reset)
    /\ UNCHANGED <<now, used, told>>

\* A 429 arrives: updateRateLimit, then sleepForRateLimit.
ReceiveRefusal(c) ==
    /\ pc[c] = "429"
    /\ Store(c) /\ Take(c) /\ Sleep(c, "sleeping", Until(answer[c], retryAfter[c]))
    /\ UNCHANGED <<now, used, told>>

\* The body of a 429 cannot be read: do returns before it would sleep.
LoseBody(c) ==
    /\ pc[c] = "429"
    /\ Store(c) /\ Take(c) /\ Goto(c, "idle")
    /\ told' = [told EXCEPT ![c] = 0]
    /\ UNCHANGED <<now, used, wake>>

\* The sleep is over, or never began because its end has passed.
Slept(c) ==
    /\ pc[c] = "sleeping" /\ wake[c] <= now
    /\ Goto(c, "idle") /\ Awake(c)
    /\ UNCHANGED <<now, used, rateLimit, answer, retryAfter, told>>

\* ctx is done: the call ends wherever it is, and an answer is lost.
GiveUp(c) ==
    /\ pc[c] # "idle"
    /\ Goto(c, "idle") /\ Take(c) /\ Awake(c)
    /\ told' = [told EXCEPT ![c] = 0]
    /\ UNCHANGED <<now, used, rateLimit>>

\* A new window starts at each multiple of Window.  Bound: MaxTime.
Tick ==
    /\ now < MaxTime
    /\ now' = now + 1
    /\ used' = IF now' = Reset THEN 0 ELSE used
    /\ UNCHANGED <<rateLimit, pc, answer, retryAfter, wake, told>>

Do(c) ==
    \/ Pass(c) \/ Wait(c) \/ Waited(c) \/ Serve(c) \/ Refuse(c)
    \/ Receive(c) \/ ReceiveRefusal(c) \/ LoseBody(c) \/ Slept(c) \/ GiveUp(c)

Next == (\E c \in Callers : Do(c)) \/ Tick

Spec == Init /\ [][Next]_vars

-----------------------------------------------------------------------------
(* Properties *)

\* A caller sends no request before the time that its last 429 told it to wait
\* until, whatever the shared rate limit says by then: other answers, which may
\* be older, have replaced it, or the 429 had a Retry-After and no rate limit.
\* (Until that time it may be long, or none at all; so a caller that was told
\* less than the rest of the window may be refused again in it.)
NothingSentEarly == \A c \in Callers : pc[c] = "ready" => told[c] <= now

\* Nobody is kept waiting without need: while a caller waits for a reset, the
\* server would refuse its request.
WaitsAreJustified ==
    \A c \in Callers : pc[c] = "waiting" /\ now < wake[c] => used = PerWindow

=============================================================================
