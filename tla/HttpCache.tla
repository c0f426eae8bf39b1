----------------------------- MODULE HttpCache -----------------------------
(***************************************************************************)
(* Client.get of ch13_http_caching for one URL: an entry that is fresh is  *)
(* answered from the cache, any other is revalidated with its ETag, and a  *)
(* 200 replaces it.  Callers share the cache and hold no lock while their  *)
(* requests are on the way.  The counters of CacheStats are left out.      *)
(***************************************************************************)
EXTENDS Integers

CONSTANTS
    Callers,     \* goroutines that use the client
    MaxAge,      \* the server's Cache-Control: max-age, in ticks
    Latency,     \* ticks a request takes at most
    MaxVersion,  \* bound: versions of the resource
    MaxTime      \* bound: ticks of the clock

VARIABLES
    now,       \* the clock
    tagged,    \* the server: do its answers have an ETag?
    replaced,  \* the server: when version v was replaced, or Never
    entry,     \* the cache entry; body 0 when there is none.  Its ETag, if it
               \* has one, is that of its body
    pc,        \* pc[c]: "idle", "sent" or "replied"
    known,     \* known[c]: body of the entry c read before it asked, or 0
    since,     \* since[c]: when c asked
    reply,     \* reply[c]: the body of the server's answer, 0 for a 304
    stale      \* history: was a call answered with too old a version?

vars == <<now, tagged, replaced, entry, pc, known, since, reply, stale>>

Versions == 0..MaxVersion
NoEntry == [body |-> 0, expires |-> 0]
Never == MaxTime + 1

TypeOK ==
    /\ now \in 0..MaxTime /\ tagged \in BOOLEAN
    /\ replaced \in [1..MaxVersion -> 0..Never]
    /\ entry \in [body : Versions, expires : Nat]
    /\ pc \in [Callers -> {"idle", "sent", "replied"}]
    /\ known \in [Callers -> Versions]
    /\ since \in [Callers -> 0..MaxTime]
    /\ reply \in [Callers -> Versions]
    /\ stale \in BOOLEAN

\* The version the server has now: all before it have been replaced.
Current == CHOOSE v \in 1..MaxVersion :
    replaced[v] = Never /\ \A u \in 1..(v - 1) : replaced[u] # Never

Init ==
    /\ now = 0 /\ tagged \in BOOLEAN
    /\ replaced = [v \in 1..MaxVersion |-> Never]
    /\ entry = NoEntry
    /\ pc = [c \in Callers |-> "idle"]
    /\ known = [c \in Callers |-> 0]
    /\ since = [c \in Callers |-> 0]
    /\ reply = [c \in Callers |-> 0]
    /\ stale = FALSE

\* A version is too old when it was replaced before the longest time an answer
\* may take and then be fresh.
TooOld(v) == replaced[v] + MaxAge + Latency <= now

\* get returns the body v to its caller.
Answer(v) == stale' = (stale \/ TooOld(v))

\* The call is over.
Done(c) ==
    /\ pc' = [pc EXCEPT ![c] = "idle"]
    /\ known' = [known EXCEPT ![c] = 0]
    /\ since' = [since EXCEPT ![c] = 0]
    /\ reply' = [reply EXCEPT ![c] = 0]

-----------------------------------------------------------------------------

\* Somebody else changes the resource.
Change ==
    /\ Current < MaxVersion
    /\ replaced' = [replaced EXCEPT ![Current] = now]
    /\ UNCHANGED <<tagged, now, entry, pc, known, since, reply, stale>>

ClearCache ==
    /\ entry # NoEntry
    /\ entry' = NoEntry
    /\ UNCHANGED <<tagged, now, replaced, pc, known, since, reply, stale>>

Fresh == entry.body # 0 /\ now < entry.expires

Hit(c) ==
    /\ pc[c] = "idle"
    /\ Fresh
    /\ Answer(entry.body)
    /\ UNCHANGED <<tagged, now, replaced, entry, pc, known, since, reply>>

\* The request goes out, with If-None-Match if the entry has an ETag.
Ask(c) ==
    /\ pc[c] = "idle"
    /\ ~Fresh
    /\ pc' = [pc EXCEPT ![c] = "sent"]
    /\ known' = [known EXCEPT ![c] = entry.body]
    /\ since' = [since EXCEPT ![c] = now]
    /\ UNCHANGED <<tagged, now, replaced, entry, reply, stale>>

\* The server answers 304 if the ETag is that of its version, 200 otherwise.
Reply(c) ==
    /\ pc[c] = "sent"
    /\ pc' = [pc EXCEPT ![c] = "replied"]
    /\ reply' = [reply EXCEPT ![c] = IF tagged /\ known[c] = Current THEN 0 ELSE Current]
    /\ UNCHANGED <<tagged, now, replaced, entry, known, since, stale>>

\* 304: the body read before the request is still right.
NotModified(c) ==
    /\ pc[c] = "replied" /\ reply[c] = 0
    /\ Answer(known[c])
    /\ Done(c)
    /\ UNCHANGED <<tagged, now, replaced, entry>>

\* 200: a new entry.
OK(c) ==
    /\ pc[c] = "replied" /\ reply[c] # 0
    /\ Answer(reply[c])
    /\ entry' = [body |-> reply[c], expires |-> now + MaxAge]
    /\ Done(c)
    /\ UNCHANGED <<tagged, now, replaced>>

\* Any other answer, or none.
Error(c) ==
    /\ pc[c] # "idle"
    /\ Done(c)
    /\ UNCHANGED <<tagged, now, replaced, entry, stale>>

\* Bounds: Latency, MaxTime.
Tick ==
    /\ now < MaxTime
    /\ \A c \in Callers : pc[c] # "idle" => now < since[c] + Latency
    /\ now' = now + 1
    /\ UNCHANGED <<tagged, replaced, entry, pc, known, since, reply, stale>>

Next ==
    \/ \E c \in Callers :
          Hit(c) \/ Ask(c) \/ Reply(c) \/ NotModified(c) \/ OK(c) \/ Error(c)
    \/ Change \/ ClearCache \/ Tick

Spec == Init /\ [][Next]_vars

-----------------------------------------------------------------------------
(* Properties *)

\* A call is answered with a version the server had less than MaxAge + Latency
\* ticks ago, even when a slow answer has overwritten a newer entry or another
\* caller has cleared or replaced the entry a 304 refers to.
StalenessBounded == ~stale

=============================================================================
