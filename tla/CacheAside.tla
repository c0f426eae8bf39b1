----------------------------- MODULE CacheAside -----------------------------
(***************************************************************************)
(* TodoRepo.Get of ch37_server_caching: look in the cache, and on a miss   *)
(* fetch through singleflight.Group, so that concurrent callers share one  *)
(* fetch.  One action per critical section (of the cache, of the group, of *)
(* the repository).  Todos never change once created.                      *)
(***************************************************************************)
EXTENDS Integers, FiniteSets

CONSTANTS
    Getters,     \* goroutines calling Get
    Ids,         \* todo ids
    MaxExpiries, \* bound: entries that expire, for each todo
    NoId,        \* not calling Get
    MaxCalls     \* bound: calls of Get, over all

ASSUME CacheAssumption ==
    /\ IsFiniteSet(Getters)
    /\ NoId \notin Ids
    /\ MaxExpiries \in Nat /\ MaxCalls \in Nat

VARIABLES
    todos,       \* TodoRepo.todos: the ids that exist
    cached,      \* the ids with an entry in the cache that is not expired
    flight,      \* flight[i]: the getters in the singleflight call for i
    pc,          \* pc[g]: what g does next
    id,          \* id[g]: the id g asked for
    found,       \* found[g]: what g's fetch found
    answer,      \* answer[g]: what Get returned
    fetchCount,  \* FetchCount, kept for each todo
    present,     \* history: the todos that exist from the start
    calls,       \* history: calls of Get so far
    expiries,    \* history: how often the entry of each todo expired
    led          \* history: todos that existed when the flight g is in began

vars == <<todos, cached, flight, pc, id, found, answer, fetchCount, present,
          calls, expiries, led>>

Steps == {"idle", "lookup", "do", "read", "set", "land", "wait", "answered"}

TypeOK ==
    /\ present \subseteq todos /\ todos \subseteq Ids /\ cached \subseteq todos
    /\ flight \in [Ids -> SUBSET Getters]
    /\ pc \in [Getters -> Steps]
    /\ id \in [Getters -> Ids \cup {NoId}]
    /\ found \in [Getters -> BOOLEAN] /\ answer \in [Getters -> BOOLEAN]
    /\ fetchCount \in [Ids -> 0..MaxCalls] /\ calls \in 0..MaxCalls
    /\ expiries \in [Ids -> 0..MaxExpiries]
    /\ led \in [Getters -> SUBSET Ids]

Init ==
    /\ present \in SUBSET Ids /\ todos = present /\ cached = {}
    /\ flight = [i \in Ids |-> {}]
    /\ pc = [g \in Getters |-> "idle"]
    /\ id = [g \in Getters |-> NoId]
    /\ found = [g \in Getters |-> FALSE] /\ answer = [g \in Getters |-> FALSE]
    /\ fetchCount = [i \in Ids |-> 0] /\ calls = 0
    /\ expiries = [i \in Ids |-> 0]
    /\ led = [g \in Getters |-> {}]

Goto(g, l) == pc' = [pc EXCEPT ![g] = l]

-----------------------------------------------------------------------------

\* TodoRepo.Create.
Create(i) ==
    /\ i \notin todos
    /\ todos' = todos \cup {i}
    /\ UNCHANGED <<present, cached, flight, pc, id, found, answer, fetchCount, calls, expiries, led>>

\* 30 s after Set: Cache.Get ignores the entry, and cleanup removes it.
Expire(i) ==
    /\ i \in cached
    /\ expiries[i] < MaxExpiries
    /\ expiries' = [expiries EXCEPT ![i] = @ + 1]
    /\ cached' = cached \ {i}
    /\ UNCHANGED <<present, todos, flight, pc, id, found, answer, fetchCount, calls, led>>

\* Bound: MaxCalls.
Call(g, i) ==
    /\ pc[g] = "idle" /\ calls < MaxCalls
    /\ calls' = calls + 1
    /\ id' = [id EXCEPT ![g] = i]
    /\ Goto(g, "lookup")
    /\ UNCHANGED <<present, todos, cached, flight, found, answer, fetchCount, expiries, led>>

Hit(g) ==
    /\ pc[g] = "lookup" /\ id[g] \in cached
    /\ answer' = [answer EXCEPT ![g] = TRUE]
    /\ Goto(g, "answered")
    /\ UNCHANGED <<present, todos, cached, flight, id, found, fetchCount, calls, expiries, led>>

Miss(g) ==
    /\ pc[g] = "lookup" /\ id[g] \notin cached
    /\ Goto(g, "do")
    /\ UNCHANGED <<present, todos, cached, flight, id, found, answer, fetchCount, calls, expiries, led>>

\* sf.Do with no call for the key under way: g makes one and runs the fetch.
Lead(g) ==
    /\ pc[g] = "do" /\ flight[id[g]] = {}
    /\ flight' = [flight EXCEPT ![id[g]] = {g}]
    /\ fetchCount' = [fetchCount EXCEPT ![id[g]] = @ + 1]
    /\ led' = [led EXCEPT ![g] = todos]
    /\ Goto(g, "read")
    /\ UNCHANGED <<present, todos, cached, id, found, answer, calls, expiries>>

Leader(i) == CHOOSE g \in flight[i] : pc[g] \in {"read", "set", "land"}

\* sf.Do with a call under way: g waits for its result.
Join(g) ==
    /\ pc[g] = "do" /\ flight[id[g]] # {}
    /\ flight' = [flight EXCEPT ![id[g]] = @ \cup {g}]
    /\ led' = [led EXCEPT ![g] = led[Leader(id[g])]]
    /\ Goto(g, "wait")
    /\ UNCHANGED <<present, todos, cached, id, found, answer, fetchCount, calls, expiries>>

ReadTodos(g) ==
    /\ pc[g] = "read"
    /\ found' = [found EXCEPT ![g] = id[g] \in todos]
    /\ Goto(g, IF id[g] \in todos THEN "set" ELSE "land")
    /\ UNCHANGED <<present, todos, cached, flight, id, answer, fetchCount, calls, expiries, led>>

\* Mutation of CacheTodo: the fetch forgets to Set what it found.
CacheNothing(g) ==
    /\ pc[g] = "set"
    /\ Goto(g, "land")
    /\ UNCHANGED <<present, todos, cached, flight, id, found, answer, fetchCount, calls, expiries, led>>

CacheTodo(g) ==
    /\ pc[g] = "set"
    /\ cached' = cached \cup {id[g]}
    /\ Goto(g, "land")
    /\ UNCHANGED <<present, todos, flight, id, found, answer, fetchCount, calls, expiries, led>>

\* Mutation of Land: only the leader is given the result.
LandAlone(g) ==
    /\ pc[g] = "land"
    /\ flight' = [flight EXCEPT ![id[g]] = {}]
    /\ answer' = [answer EXCEPT ![g] = found[g]]
    /\ pc' = [h \in Getters |-> IF h \in flight[id[g]] THEN "answered" ELSE pc[h]]
    /\ UNCHANGED <<present, todos, cached, id, found, fetchCount, calls, expiries, led>>

\* The fetch returns; the call is forgotten and all its getters have the result.
Land(g) ==
    LET all == flight[id[g]] IN
    /\ pc[g] = "land"
    /\ flight' = [flight EXCEPT ![id[g]] = {}]
    /\ answer' = [h \in Getters |-> IF h \in all THEN found[g] ELSE answer[h]]
    /\ pc' = [h \in Getters |-> IF h \in all THEN "answered" ELSE pc[h]]
    /\ UNCHANGED <<present, todos, cached, id, found, fetchCount, calls, expiries, led>>

Return(g) ==
    /\ pc[g] = "answered"
    /\ Goto(g, "idle")
    /\ id' = [id EXCEPT ![g] = NoId]
    /\ found' = [found EXCEPT ![g] = FALSE]
    /\ answer' = [answer EXCEPT ![g] = FALSE]
    /\ led' = [led EXCEPT ![g] = {}]
    /\ UNCHANGED <<present, todos, cached, flight, fetchCount, calls, expiries>>

Step(g) ==
    \/ Hit(g) \/ Miss(g) \/ Lead(g) \/ Join(g)
    \/ ReadTodos(g) \/ CacheTodo(g) \/ Land(g)

Next ==
    \/ \E i \in Ids : Create(i) \/ Expire(i)
    \/ \E g \in Getters : (\E i \in Ids : Call(g, i)) \/ Step(g) \/ Return(g)

Spec == Init /\ [][Next]_vars

\* Goroutines run; nothing in Get blocks but the wait for the flight.
FairSpec == Spec /\ \A g \in Getters : WF_vars(Step(g))

-----------------------------------------------------------------------------
(* Properties *)

\* Get says "not found" only of a todo that did not exist when the fetch it
\* shares began, and says "found" only of one that exists.
AnswersAreSound ==
    \A g \in Getters : pc[g] = "answered" =>
        IF answer[g] THEN id[g] \in todos ELSE id[g] \notin led[g]

\* Every call of Get returns, those waiting for another's fetch too.
EveryGetReturns == \A g \in Getters : pc[g] = "lookup" ~> pc[g] = "answered"

\* A goroutine fetches a todo that exists once for all its calls of Get, and
\* once more for each time the entry expired: only those that missed before the
\* entry was there may still fetch.
FetchesBounded ==
    \A i \in present : fetchCount[i] <= Cardinality(Getters) * (1 + expiries[i])

\* caching_test.go, of a todo that was created before: "With singleflight, all
\* concurrent callers share one fetch, so count <= 2".
AtMostTwoFetches == \A i \in present : fetchCount[i] <= 2

=============================================================================
