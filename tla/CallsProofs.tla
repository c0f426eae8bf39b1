----------------------------- MODULE CallsProofs -----------------------------
(***************************************************************************)
(* The safety properties of the calls of MCCalls, for every number of      *)
(* goroutines, todos, jobs and retries: first those of each module by      *)
(* itself, then those of the behaviours that a run explores.               *)
(***************************************************************************)
EXTENDS MCCalls, FiniteSetTheorems, TLAPS

-----------------------------------------------------------------------------
(* CacheAside: what a getter relies on between two critical sections *)

Leads(g) == pc[g] \in {"read", "set", "land"}

\* The getters in a flight for i are those that asked for i and have no answer
\* yet; one of them runs the fetch, and all saw the same todos when it began.
Flights ==
    /\ \A g \in Getters : pc[g] # "idle" => id[g] \in Ids
    /\ \A i \in Ids, g \in Getters :
          g \in flight[i] <=> id[g] = i /\ (Leads(g) \/ pc[g] = "wait")
    /\ \A i \in Ids : flight[i] # {} => \E g \in flight[i] : Leads(g)
    /\ \A i \in Ids : \A g, h \in flight[i] :
          led[g] = led[h] /\ (Leads(g) /\ Leads(h) => g = h)

\* What the fetch of g has found so far.
Found(g) ==
    /\ led[g] \subseteq todos
    /\ pc[g] = "set" => found[g] /\ id[g] \in todos
    /\ pc[g] = "land" => IF found[g] THEN id[g] \in todos ELSE id[g] \notin led[g]

Wanting(i) == {g \in Getters : id[g] = i /\ pc[g] \in {"lookup", "do"}}

FetchesAreCalls ==
    \A i \in Ids : fetchCount[i] + Cardinality(Wanting(i)) <= calls

\* The getters that may still fetch i before its entry expires: those that
\* missed and, while there is no entry, all but the one about to make it.
MayFetch(i) ==
    IF i \in cached THEN {g \in Getters : id[g] = i /\ pc[g] = "do"}
    ELSE {g \in Getters : ~ (id[g] = i /\ pc[g] \in {"read", "set"})}

FetchesLeaveRoom ==
    \A i \in present :
        fetchCount[i] + Cardinality(MayFetch(i)) <= Cardinality(Getters) * (1 + expiries[i])

CacheInv ==
    /\ TypeOK
    /\ Flights
    /\ \A g \in Getters : Found(g)
    /\ AnswersAreSound
    /\ FetchesAreCalls
    /\ FetchesLeaveRoom

-----------------------------------------------------------------------------
(* TokenSource *)

TokenInv ==
    /\ Tokens!TypeOK
    /\ \A c \in Getters : holder = c => pc[c] \in {"fetch", "issued"}
    /\ IF issued = -1 THEN expires = 0 ELSE expires = issued + Life
    /\ \A c \in Getters :
          /\ pc[c] = "fetch" => expires <= now + Skew
          /\ pc[c] = "issued" =>
                /\ token[c] = since[c] + Life
                /\ since[c] <= now /\ now <= since[c] + Delay
                /\ expires <= since[c] + Skew
          /\ pc[c] = "sent" => now <= since[c] + Skew /\ since[c] + Skew < token[c]
    /\ apart

-----------------------------------------------------------------------------
(* FetchAll *)

GroupInv ==
    /\ Group!TypeOK
    /\ \A j \in Jobs : fetch[j] # "done" => results[j] = 0
    /\ ~failed => \A j \in Jobs : fetch[j] = "done" => results[j] = 1
    /\ returned => \A j \in Jobs : fetch[j] = "done"
    /\ failed => cancelled

-----------------------------------------------------------------------------
(* Retry *)

RetryInv ==
    /\ Retrying!TypeOK
    /\ Retrying!RetriesJustified
    /\ call \in {"new", "pausing"} => busy = attempt

-----------------------------------------------------------------------------
(* Retry: every request after the first was asked for *)

LEMMA RetryInit == Retrying!Init => RetryInv
BY RetryAssumption DEF Retrying!Init, RetryInv, Retrying!TypeOK, Retrying!Ends,
                       Retrying!RetriesJustified

\* The pause before each retry is one of the first six, or a minute.
LEMMA PauseFits ==
  ASSUME NEW a \in 0..33
  PROVE  Retrying!Backoff(a) \in 1..60 /\ ~ Retrying!NotPositive(a)
<1>1. ~ Retrying!NotPositive(a)
  BY DEF Retrying!NotPositive
<1>2. CASE a < 6
  <2>1. a \in {0, 1, 2, 3, 4, 5}
    BY <1>2
  <2> QED BY <1>1, <2>1 DEF Retrying!Backoff
<1>3. CASE ~ (a < 6)
  BY <1>1, <1>3 DEF Retrying!Backoff
<1> QED BY <1>2, <1>3

LEMMA RetryStep == RetryInv /\ [Retrying!Next]_retryVars => RetryInv'
<1> SUFFICES ASSUME RetryInv, [Retrying!Next]_retryVars PROVE RetryInv'
  OBVIOUS
<1> USE RetryAssumption DEF RetryInv, Retrying!TypeOK, Retrying!Ends, Retrying!RetriesJustified
<1>1. CASE Retrying!Again
  <2>1. attempt \in 0..33
    BY <1>1 DEF Retrying!Again
  <2>2. call' = "pausing" /\ pause' \in 1..60
    BY <1>1, <2>1, PauseFits DEF Retrying!Again
  <2> QED BY <1>1, <2>1, <2>2 DEF Retrying!Again
<1>2. CASE Retrying!First \/ Retrying!Send \/ Retrying!OK \/ Retrying!Error
  BY <1>2 DEF Retrying!First, Retrying!Send, Retrying!OK, Retrying!Error
<1>3. CASE Retrying!Exhausted \/ Retrying!Paused \/ Retrying!Cancelled
  BY <1>3 DEF Retrying!Exhausted, Retrying!Paused, Retrying!Cancelled
<1>4. CASE UNCHANGED retryVars
  BY <1>4 DEF retryVars
<1> QED BY <1>1, <1>2, <1>3, <1>4 DEF Retrying!Next, Retrying!Step

-----------------------------------------------------------------------------
(* FetchAll: a nil error comes with every result *)

groupAll == <<fetch, failed, results, cancelled, returned>>

LEMMA GroupInit == Group!Init => GroupInv
BY DEF Group!Init, GroupInv, Group!TypeOK

LEMMA GroupStep == GroupInv /\ [Group!Next]_groupAll => GroupInv'
<1> SUFFICES ASSUME GroupInv, [Group!Next]_groupAll PROVE GroupInv'
  OBVIOUS
<1> USE DEF GroupInv, Group!TypeOK
<1>1. ASSUME NEW j \in Jobs, Group!Go(j) PROVE GroupInv'
  BY <1>1 DEF Group!Go, Group!Goto
<1>2. ASSUME NEW j \in Jobs, Group!Send(j) PROVE GroupInv'
  BY <1>2 DEF Group!Send, Group!Goto
<1>3. ASSUME NEW j \in Jobs, Group!Receive(j) PROVE GroupInv'
  BY <1>3 DEF Group!Receive, Group!Goto
<1>4. ASSUME NEW j \in Jobs, Group!Fail(j) PROVE GroupInv'
  BY <1>4 DEF Group!Fail, Group!Goto
<1>5. CASE Group!Return
  BY <1>5 DEF Group!Return
<1>6. CASE Group!Cancel
  BY <1>6 DEF Group!Cancel
<1>7. CASE UNCHANGED groupAll
  BY <1>7 DEF groupAll
<1> QED BY <1>1, <1>2, <1>3, <1>4, <1>5, <1>6, <1>7 DEF Group!Next, Group!Step

-----------------------------------------------------------------------------
(* TokenSource: who holds the mutex knows what is cached *)

tokenAll == <<now, holder, expires, pc, token, since, issued, apart>>

LEMMA TokenInit == Tokens!Init => TokenInv
BY TokenAssumption DEF Tokens!Init, TokenInv, Tokens!TypeOK

LEMMA TokenStep == TokenInv /\ [Tokens!Next]_tokenAll => TokenInv'
<1> SUFFICES ASSUME TokenInv, [Tokens!Next]_tokenAll PROVE TokenInv'
  OBVIOUS
<1> USE TokenAssumption DEF TokenInv, Tokens!TypeOK
<1>1. ASSUME NEW c \in Getters, Tokens!Call(c) PROVE TokenInv'
  BY <1>1 DEF Tokens!Call, Tokens!Goto
<1>2. ASSUME NEW c \in Getters, Tokens!Cached(c) PROVE TokenInv'
  BY <1>2 DEF Tokens!Cached, Tokens!Send, Tokens!Usable, Tokens!Goto
<1>3. ASSUME NEW c \in Getters, Tokens!Fetch(c) PROVE TokenInv'
  BY <1>3 DEF Tokens!Fetch, Tokens!Usable, Tokens!Goto
<1>4. ASSUME NEW c \in Getters, Tokens!Issue(c) PROVE TokenInv'
  BY <1>4 DEF Tokens!Issue, Tokens!Goto
<1>5. ASSUME NEW c \in Getters, Tokens!Store(c) PROVE TokenInv'
  <2>0. /\ pc[c] = "issued" /\ holder = c /\ now' = now /\ holder' = NoId
        /\ expires' = token[c] /\ issued' = since[c]
        /\ pc' = [pc EXCEPT ![c] = "sent"]
        /\ token' = [token EXCEPT ![c] = token[c]]
        /\ since' = [since EXCEPT ![c] = now]
    BY <1>5 DEF Tokens!Store, Tokens!Send, Tokens!Goto
  <2>1. token[c] = since[c] + Life /\ now <= since[c] + Delay /\ expires <= since[c] + Skew
    BY <2>0
  <2>2. \A d \in Getters \ {c} : pc[d] \notin {"fetch", "issued"}
    BY <2>0
  <2>3. Tokens!TypeOK'
    <3>1. apart' \in BOOLEAN
      BY <1>5 DEF Tokens!Store
    <3> QED BY <2>0, <2>2, <3>1
  <2>4. apart'
    <3>1. issued = -1 \/ since[c] - issued >= Life - Skew
      BY <2>1
    <3> QED BY <1>5, <3>1 DEF Tokens!Store
  <2>5. now + Skew < token[c]
    BY <2>1
  <2>6. \A d \in Getters : pc'[d] = "sent" =>
           now' <= since'[d] + Skew /\ since'[d] + Skew < token'[d]
    BY <2>0, <2>5
  <2> QED BY <2>0, <2>1, <2>2, <2>3, <2>4, <2>6
<1>6. ASSUME NEW c \in Getters, Tokens!Fail(c) PROVE TokenInv'
  BY <1>6 DEF Tokens!Fail, Tokens!Done, Tokens!Goto
<1>7. ASSUME NEW c \in Getters, Tokens!Arrive(c) PROVE TokenInv'
  BY <1>7 DEF Tokens!Arrive, Tokens!Done, Tokens!Goto
<1>8. CASE Tokens!Tick
  BY <1>8 DEF Tokens!Tick
<1>9. CASE UNCHANGED tokenAll
  BY <1>9 DEF tokenAll
<1> QED BY <1>1, <1>2, <1>3, <1>4, <1>5, <1>6, <1>7, <1>8, <1>9
        DEF Tokens!Next, Tokens!Lock, Tokens!Return

-----------------------------------------------------------------------------
(* CacheAside: flights and what is found in them *)

LEMMA CacheInit == Init => CacheInv
<1> SUFFICES ASSUME Init PROVE CacheInv
  OBVIOUS
<1> USE CacheAssumption
<1>1. TypeOK
  BY DEF Init, TypeOK, Steps
<1>2. Flights /\ (\A g \in Getters : Found(g)) /\ AnswersAreSound
  BY DEF Init, Flights, Leads, Found, AnswersAreSound
<1>3. FetchesAreCalls
  <2>1. \A i : Wanting(i) = {}
    BY DEF Init, Wanting
  <2> QED BY <2>1, FS_EmptySet DEF Init, FetchesAreCalls
<1>4. FetchesLeaveRoom
  <2>1. \A i \in present : MayFetch(i) = Getters
    BY DEF Init, MayFetch
  <2>2. Cardinality(Getters) \in Nat
    BY FS_CardinalityType
  <2> QED BY <2>1, <2>2 DEF Init, FetchesLeaveRoom
<1> QED BY <1>1, <1>2, <1>3, <1>4 DEF CacheInv

\* The getter that a new one in the flight shares the fetch with.
LEMMA LeaderIs ==
  ASSUME Flights, NEW i \in Ids, flight[i] # {}
  PROVE  Leader(i) \in flight[i] /\ Leads(Leader(i))
BY DEF Flights, Leads, Leader

\* All of a flight have the same leader, who asked for the same todo.
LEMMA LandsFor ==
  ASSUME CacheInv, NEW g \in Getters, pc[g] = "land", NEW h \in flight[id[g]]
  PROVE  /\ h \in Getters /\ id[g] \in Ids /\ id[h] = id[g] /\ led[h] = led[g]
         /\ h # g => pc[h] = "wait"
BY DEF CacheInv, TypeOK, Flights, Leads

LEMMA CacheTypeStep ==
  ASSUME CacheInv, Next
  PROVE  TypeOK'
<1> USE CacheAssumption DEF CacheInv, TypeOK, Goto, Steps
<1>1. ASSUME NEW i \in Ids, Create(i) PROVE TypeOK'
  BY <1>1 DEF Create
<1>2. ASSUME NEW i \in Ids, Expire(i) PROVE TypeOK'
  BY <1>2 DEF Expire
<1>3. ASSUME NEW g \in Getters, NEW i \in Ids, Call(g, i) PROVE TypeOK'
  <2>1. \A k \in Ids : fetchCount[k] \in 0..MaxCalls
    OBVIOUS
  <2> QED BY <1>3, <2>1 DEF Call
<1>4. ASSUME NEW g \in Getters, Lead(g) PROVE TypeOK'
  <2>1. id[g] \in Ids
    BY <1>4 DEF Lead, Flights
  <2>2. /\ g \in Wanting(id[g]) /\ IsFiniteSet(Wanting(id[g]))
        /\ Cardinality(Wanting(id[g])) \in Nat
    BY <1>4, FS_Subset, FS_CardinalityType DEF Lead, Wanting
  <2>3. Cardinality(Wanting(id[g])) # 0
    BY <2>2, FS_EmptySet
  <2>4. fetchCount[id[g]] + 1 \in 0..MaxCalls
    <3>1. fetchCount[id[g]] + Cardinality(Wanting(id[g])) <= calls
      BY <2>1 DEF FetchesAreCalls
    <3> QED BY <2>1, <2>2, <2>3, <3>1
  <2> QED BY <1>4, <2>1, <2>4 DEF Lead
<1>5. ASSUME NEW g \in Getters, Join(g) PROVE TypeOK'
  <2>1. id[g] \in Ids
    BY <1>5 DEF Join, Flights
  <2>2. Leader(id[g]) \in Getters
    BY <1>5, <2>1, LeaderIs DEF Join
  <2> QED BY <1>5, <2>1, <2>2 DEF Join
<1>6. ASSUME NEW g \in Getters, Hit(g) \/ Miss(g) \/ ReadTodos(g) PROVE TypeOK'
  <2>1. CASE Hit(g) \/ Miss(g)
    BY <2>1 DEF Hit, Miss
  <2>2. CASE ReadTodos(g)
    <3>1. \E l \in {"set", "land"} : pc' = [pc EXCEPT ![g] = l]
      BY <2>2 DEF ReadTodos
    <3>2. /\ UNCHANGED <<present, todos, cached, flight, id, answer, fetchCount, calls>>
          /\ UNCHANGED <<expiries, led>>
      BY <2>2 DEF ReadTodos
    <3>3. found' \in [Getters -> BOOLEAN]
      BY <2>2 DEF ReadTodos
    <3> QED BY <3>1, <3>2, <3>3
  <2> QED BY <1>6, <2>1, <2>2
<1>7. ASSUME NEW g \in Getters, CacheTodo(g) PROVE TypeOK'
  BY <1>7 DEF CacheTodo, Found
<1>8. ASSUME NEW g \in Getters, Land(g) PROVE TypeOK'
  BY <1>8 DEF Land
<1>9. ASSUME NEW g \in Getters, Return(g) PROVE TypeOK'
  BY <1>9 DEF Return
<1> QED BY <1>1, <1>2, <1>3, <1>4, <1>5, <1>6, <1>7, <1>8, <1>9 DEF Next, Step

\* A getter changes its own place only, except that all of a flight are answered.
LEMMA FlightsStep ==
  ASSUME CacheInv, Next
  PROVE  Flights'
<1> USE CacheAssumption DEF CacheInv, TypeOK, Goto, Flights, Leads
<1>1. ASSUME NEW i \in Ids, Create(i) \/ Expire(i) PROVE Flights'
  BY <1>1 DEF Create, Expire
<1>2. ASSUME NEW g \in Getters, NEW i \in Ids, Call(g, i) PROVE Flights'
  BY <1>2 DEF Call
<1>3. ASSUME NEW g \in Getters, Hit(g) \/ Miss(g) PROVE Flights'
  BY <1>3 DEF Hit, Miss
<1>4. ASSUME NEW g \in Getters, Lead(g) PROVE Flights'
  BY <1>4 DEF Lead
<1>5. ASSUME NEW g \in Getters, Join(g) PROVE Flights'
  <2>1. Leader(id[g]) \in flight[id[g]]
    BY <1>5, LeaderIs DEF Join
  <2> QED BY <1>5, <2>1 DEF Join
<1>6. ASSUME NEW g \in Getters, ReadTodos(g) \/ CacheTodo(g) PROVE Flights'
  BY <1>6 DEF ReadTodos, CacheTodo
<1>7. ASSUME NEW g \in Getters, Land(g) PROVE Flights'
  <2> DEFINE k == id[g]
  <2>0. /\ k \in Ids /\ pc[g] = "land" /\ id' = id /\ led' = led
        /\ flight' = [flight EXCEPT ![k] = {}]
        /\ pc' = [h \in Getters |-> IF h \in flight[k] THEN "answered" ELSE pc[h]]
    BY <1>7 DEF Land
  <2>1. \A h \in flight[k] : id[h] = k
    BY <2>0
  <2>2. \A i \in Ids \ {k} : flight'[i] = flight[i] /\ \A h \in flight[i] : pc'[h] = pc[h]
    BY <2>0
  <2>3. \A h \in Getters : pc'[h] # "idle" => id'[h] \in Ids
    BY <2>0
  <2>4. \A i \in Ids, h \in Getters :
           h \in flight'[i] <=> id'[h] = i /\ (Leads(h)' \/ pc'[h] = "wait")
    <3> TAKE i \in Ids, h \in Getters
    <3>1. CASE i = k
      BY <2>0, <3>1
    <3>2. CASE i # k /\ h \in flight[k]
      BY <2>0, <2>1, <2>2, <3>2
    <3>3. CASE i # k /\ h \notin flight[k]
      BY <2>0, <2>2, <3>3
    <3> QED BY <3>1, <3>2, <3>3
  <2>5. \A i \in Ids : flight'[i] # {} => \E h \in flight'[i] : Leads(h)'
    <3> SUFFICES ASSUME NEW i \in Ids, flight'[i] # {}
                 PROVE  \E h \in flight'[i] : Leads(h)'
      OBVIOUS
    <3>1. i # k /\ flight'[i] = flight[i]
      BY <2>0, <2>2
    <3>2. PICK h \in flight[i] : Leads(h)
      BY <3>1
    <3>3. pc'[h] = pc[h]
      BY <2>2, <3>1
    <3> QED BY <3>1, <3>2, <3>3
  <2>6. \A i \in Ids : \A h, j \in flight'[i] :
           led'[h] = led'[j] /\ (Leads(h)' /\ Leads(j)' => h = j)
    BY <2>0, <2>2
  <2> QED BY <2>3, <2>4, <2>5, <2>6
<1>8. ASSUME NEW g \in Getters, Return(g) PROVE Flights'
  BY <1>8 DEF Return
<1> QED BY <1>1, <1>2, <1>3, <1>4, <1>5, <1>6, <1>7, <1>8 DEF Next, Step

\* What was found stays so, since todos are never removed; and all that share a
\* flight share when it began.
LEMMA FoundStep ==
  ASSUME CacheInv, Next
  PROVE  (\A g \in Getters : Found(g)') /\ AnswersAreSound'
<1> DEFINE Sound == (\A g \in Getters : Found(g)') /\ AnswersAreSound'
<1> USE CacheAssumption DEF CacheInv, TypeOK, Goto, Found, AnswersAreSound
<1>1. ASSUME NEW i \in Ids, Create(i) \/ Expire(i) PROVE Sound
  BY <1>1 DEF Create, Expire, Flights
<1>2. ASSUME NEW g \in Getters, NEW i \in Ids, Call(g, i) PROVE Sound
  BY <1>2 DEF Call
<1>3. ASSUME NEW g \in Getters, Hit(g) \/ Miss(g) PROVE Sound
  BY <1>3 DEF Hit, Miss
<1>4. ASSUME NEW g \in Getters, Lead(g) PROVE Sound
  BY <1>4 DEF Lead
<1>5. ASSUME NEW g \in Getters, Join(g) PROVE Sound
  <2>1. Leader(id[g]) \in Getters
    BY <1>5, LeaderIs DEF Join, Flights
  <2> QED BY <1>5, <2>1 DEF Join
<1>6. ASSUME NEW g \in Getters, ReadTodos(g) PROVE Sound
  BY <1>6 DEF ReadTodos
<1>7. ASSUME NEW g \in Getters, CacheTodo(g) PROVE Sound
  BY <1>7 DEF CacheTodo
<1>8. ASSUME NEW g \in Getters, Land(g) PROVE Sound
  BY <1>8, LandsFor DEF Land
<1>9. ASSUME NEW g \in Getters, Return(g) PROVE Sound
  BY <1>9 DEF Return
<1> QED BY <1>1, <1>2, <1>3, <1>4, <1>5, <1>6, <1>7, <1>8, <1>9 DEF Next, Step

-----------------------------------------------------------------------------
(* CacheAside: how often it fetches *)

LEMMA SetsOfGetters ==
  /\ Cardinality(Getters) \in Nat
  /\ \A S \in SUBSET Getters :
        /\ IsFiniteSet(S) /\ Cardinality(S) \in Nat /\ Cardinality(S) <= Cardinality(Getters)
        /\ \A T \in SUBSET S : Cardinality(T) <= Cardinality(S)
        /\ \A g : /\ g \in S => Cardinality(S \ {g}) = Cardinality(S) - 1
                  /\ g \notin S => Cardinality(S \cup {g}) = Cardinality(S) + 1
<1>1. \A S \in SUBSET Getters : IsFiniteSet(S) /\ Cardinality(S) <= Cardinality(Getters)
  BY CacheAssumption, FS_Subset
<1>2. \A S \in SUBSET Getters : Cardinality(S) \in Nat
  BY <1>1, FS_CardinalityType
<1>3. \A S \in SUBSET Getters : \A T \in SUBSET S : Cardinality(T) <= Cardinality(S)
  BY <1>1, FS_Subset
<1>4. \A S \in SUBSET Getters : \A g :
         /\ g \in S => Cardinality(S \ {g}) = Cardinality(S) - 1
         /\ g \notin S => Cardinality(S \cup {g}) = Cardinality(S) + 1
  BY <1>1, FS_AddElement, FS_RemoveElement
<1> QED BY <1>1, <1>2, <1>3, <1>4

\* A fetch takes a getter out of those that want one.
LEMMA CountStep ==
  ASSUME CacheInv, Next
  PROVE  FetchesAreCalls'
<1> USE DEF CacheInv, TypeOK, Goto
<1>0. /\ \A k \in Ids : fetchCount[k] \in Nat
      /\ calls \in Nat /\ \A k \in Ids : fetchCount[k] + Cardinality(Wanting(k)) <= calls
      /\ \A k : Wanting(k) \in SUBSET Getters /\ Wanting(k)' \in SUBSET Getters
  BY CacheAssumption DEF FetchesAreCalls, Wanting
<1>a. ASSUME UNCHANGED <<fetchCount, calls>>, \A k \in Ids : Wanting(k)' \subseteq Wanting(k)
      PROVE  FetchesAreCalls'
  <2> SUFFICES ASSUME NEW k \in Ids
               PROVE  fetchCount[k] + Cardinality(Wanting(k)') <= calls
    BY <1>a DEF FetchesAreCalls
  <2>1. /\ Cardinality(Wanting(k)') <= Cardinality(Wanting(k))
        /\ Cardinality(Wanting(k)) \in Nat /\ Cardinality(Wanting(k)') \in Nat
    BY <1>0, <1>a, SetsOfGetters
  <2> QED BY <1>0, <2>1
<1>1. ASSUME NEW i \in Ids, Create(i) \/ Expire(i) PROVE FetchesAreCalls'
  BY <1>a, <1>1 DEF Create, Expire, Wanting
<1>2. ASSUME NEW g \in Getters, NEW i \in Ids, Call(g, i) PROVE FetchesAreCalls'
  <2> SUFFICES ASSUME NEW k \in Ids
               PROVE  fetchCount[k] + Cardinality(Wanting(k)') <= calls + 1
    BY <1>2 DEF Call, FetchesAreCalls
  <2>1. Wanting(k)' = IF k = i THEN Wanting(k) \cup {g} ELSE Wanting(k)
    BY <1>2 DEF Call, Wanting
  <2>2. g \notin Wanting(k)
    BY <1>2 DEF Call, Wanting
  <2>3. Cardinality(Wanting(k)') <= Cardinality(Wanting(k)) + 1 /\ Cardinality(Wanting(k)) \in Nat
    <3>1. Cardinality(Wanting(k)) \in Nat
      BY <1>0, SetsOfGetters
    <3>2. Cardinality(Wanting(k) \cup {g}) = Cardinality(Wanting(k)) + 1
      BY <1>0, <2>2, SetsOfGetters
    <3> QED BY <2>1, <3>1, <3>2
  <2>4. Cardinality(Wanting(k)') \in Nat
    BY <1>0, SetsOfGetters
  <2> QED BY <1>0, <2>3, <2>4
<1>3. ASSUME NEW g \in Getters, Lead(g) PROVE FetchesAreCalls'
  <2> SUFFICES ASSUME NEW k \in Ids
               PROVE  fetchCount'[k] + Cardinality(Wanting(k)') <= calls
    BY <1>3 DEF Lead, FetchesAreCalls
  <2>1. CASE k = id[g]
    <3>1. Wanting(k)' = Wanting(k) \ {g} /\ g \in Wanting(k)
      BY <1>3, <2>1 DEF Lead, Wanting
    <3>2. Cardinality(Wanting(k)') = Cardinality(Wanting(k)) - 1 /\ Cardinality(Wanting(k)) \in Nat
      BY <1>0, <3>1, SetsOfGetters
    <3>3. fetchCount'[k] = fetchCount[k] + 1
      BY <1>3, <2>1 DEF Lead
    <3> QED BY <1>0, <3>2, <3>3
  <2>2. CASE k # id[g]
    <3>1. Wanting(k)' = Wanting(k) /\ fetchCount'[k] = fetchCount[k]
      BY <1>3, <2>2 DEF Lead, Wanting
    <3> QED BY <1>0, <3>1
  <2> QED BY <2>1, <2>2
<1>4. ASSUME NEW g \in Getters, Hit(g) \/ Miss(g) \/ Join(g) PROVE FetchesAreCalls'
  BY <1>a, <1>4 DEF Hit, Miss, Join, Wanting
<1>5. ASSUME NEW g \in Getters, ReadTodos(g) \/ CacheTodo(g) \/ Return(g) PROVE FetchesAreCalls'
  BY <1>a, <1>5 DEF ReadTodos, CacheTodo, Return, Wanting
<1>6. ASSUME NEW g \in Getters, Land(g) PROVE FetchesAreCalls'
  BY <1>a, <1>6 DEF Land, Wanting
<1> QED BY <1>1, <1>2, <1>3, <1>4, <1>5, <1>6 DEF Next, Step

\* A fetch takes a getter out of those that may fetch; only an expiry puts any in.
LEMMA RoomStep ==
  ASSUME CacheInv, Next
  PROVE  FetchesLeaveRoom'
<1> USE CacheAssumption DEF CacheInv, TypeOK, Goto
<1>0. /\ \A k \in present : k \in Ids /\ k \in todos /\ fetchCount[k] \in Nat /\ expiries[k] \in Nat
      /\ \A k \in present : fetchCount[k] + Cardinality(MayFetch(k))
                               <= Cardinality(Getters) * (1 + expiries[k])
      /\ \A k : MayFetch(k) \in SUBSET Getters /\ MayFetch(k)' \in SUBSET Getters
      /\ Cardinality(Getters) \in Nat
  <2>1. \A k : MayFetch(k) \in SUBSET Getters /\ MayFetch(k)' \in SUBSET Getters
    BY DEF MayFetch
  <2>2. \A k \in present : fetchCount[k] + Cardinality(MayFetch(k))
                              <= Cardinality(Getters) * (1 + expiries[k])
    BY DEF FetchesLeaveRoom
  <2>3. \A k \in present : k \in Ids /\ k \in todos /\ fetchCount[k] \in Nat /\ expiries[k] \in Nat
    OBVIOUS
  <2> QED BY <2>1, <2>2, <2>3, SetsOfGetters
<1>a. ASSUME UNCHANGED <<present, fetchCount, expiries>>,
             \A k \in present : MayFetch(k)' \subseteq MayFetch(k)
      PROVE  FetchesLeaveRoom'
  <2> SUFFICES ASSUME NEW k \in present
               PROVE  fetchCount[k] + Cardinality(MayFetch(k)')
                         <= Cardinality(Getters) * (1 + expiries[k])
    BY <1>a DEF FetchesLeaveRoom
  <2>1. /\ Cardinality(MayFetch(k)') <= Cardinality(MayFetch(k))
        /\ Cardinality(MayFetch(k)) \in Nat /\ Cardinality(MayFetch(k)') \in Nat
    BY <1>0, <1>a, SetsOfGetters
  <2> QED BY <1>0, <2>1
<1>1. ASSUME NEW i \in Ids, Create(i) PROVE FetchesLeaveRoom'
  BY <1>a, <1>1 DEF Create, MayFetch
<1>2. ASSUME NEW i \in Ids, Expire(i) PROVE FetchesLeaveRoom'
  <2> SUFFICES ASSUME NEW k \in present
               PROVE  fetchCount[k] + Cardinality(MayFetch(k)')
                         <= Cardinality(Getters) * (1 + expiries'[k])
    BY <1>2 DEF Expire, FetchesLeaveRoom
  <2>1. CASE k = i
    <3> DEFINE n == Cardinality(Getters)
               e == expiries[k]
    <3>1. expiries'[k] = e + 1 /\ e \in Nat /\ n \in Nat
      BY <1>0, <1>2, <2>1 DEF Expire
    <3>2. fetchCount[k] <= n * (1 + e)
      <4>1. Cardinality(MayFetch(k)) \in Nat
        BY <1>0, SetsOfGetters
      <4>2. fetchCount[k] + Cardinality(MayFetch(k)) <= n * (1 + e)
        BY <1>0
      <4>3. n * (1 + e) \in Nat
        BY <3>1
      <4> QED BY <1>0, <4>1, <4>2, <4>3
    <3>3. Cardinality(MayFetch(k)') <= n /\ Cardinality(MayFetch(k)') \in Nat
      BY <1>0, SetsOfGetters
    <3>4. n * (1 + (e + 1)) = n * (1 + e) + n /\ n * (1 + e) \in Nat
      BY <3>1
    <3> HIDE DEF n, e
    <3>5. fetchCount[k] + Cardinality(MayFetch(k)') <= n * (1 + (e + 1))
      BY <1>0, <3>1, <3>2, <3>3, <3>4
    <3> QED BY <3>1, <3>5 DEF n
  <2>2. CASE k # i
    <3>1. MayFetch(k)' = MayFetch(k) /\ expiries'[k] = expiries[k]
      BY <1>0, <1>2, <2>2 DEF Expire, MayFetch
    <3> QED BY <1>0, <3>1
  <2> QED BY <2>1, <2>2
<1>3. ASSUME NEW g \in Getters, Lead(g) PROVE FetchesLeaveRoom'
  <2> SUFFICES ASSUME NEW k \in present
               PROVE  fetchCount'[k] + Cardinality(MayFetch(k)')
                         <= Cardinality(Getters) * (1 + expiries[k])
    BY <1>3 DEF Lead, FetchesLeaveRoom
  <2>1. CASE k = id[g]
    <3>1. MayFetch(k)' = MayFetch(k) \ {g} /\ g \in MayFetch(k)
      BY <1>3, <2>1 DEF Lead, MayFetch
    <3>2. /\ Cardinality(MayFetch(k)') = Cardinality(MayFetch(k)) - 1
          /\ Cardinality(MayFetch(k)) \in Nat
      BY <1>0, <3>1, SetsOfGetters
    <3>3. fetchCount'[k] = fetchCount[k] + 1
      BY <1>0, <1>3, <2>1 DEF Lead
    <3>4. fetchCount'[k] + Cardinality(MayFetch(k)') = fetchCount[k] + Cardinality(MayFetch(k))
      BY <1>0, <3>2, <3>3
    <3> QED BY <1>0, <3>4
  <2>2. CASE k # id[g]
    <3>1. MayFetch(k)' = MayFetch(k) /\ fetchCount'[k] = fetchCount[k]
      BY <1>0, <1>3, <2>2 DEF Lead, MayFetch
    <3> QED BY <1>0, <3>1
  <2> QED BY <2>1, <2>2
<1>4. ASSUME NEW g \in Getters, NEW i \in Ids, Call(g, i) PROVE FetchesLeaveRoom'
  BY <1>a, <1>4 DEF Call, MayFetch
<1>5. ASSUME NEW g \in Getters, Hit(g) \/ Miss(g) \/ Join(g) PROVE FetchesLeaveRoom'
  BY <1>a, <1>5 DEF Hit, Miss, Join, MayFetch
<1>6. ASSUME NEW g \in Getters, ReadTodos(g) PROVE FetchesLeaveRoom'
  BY <1>0, <1>a, <1>6 DEF ReadTodos, MayFetch
<1>7. ASSUME NEW g \in Getters, CacheTodo(g) PROVE FetchesLeaveRoom'
  BY <1>0, <1>a, <1>7 DEF CacheTodo, MayFetch
<1>8. ASSUME NEW g \in Getters, Land(g) PROVE FetchesLeaveRoom'
  BY <1>0, <1>a, <1>8 DEF Land, MayFetch, Flights, Leads
<1>9. ASSUME NEW g \in Getters, Return(g) PROVE FetchesLeaveRoom'
  BY <1>a, <1>9 DEF Return, MayFetch
<1> QED BY <1>1, <1>2, <1>3, <1>4, <1>5, <1>6, <1>7, <1>8, <1>9 DEF Next, Step

LEMMA CacheStep == CacheInv /\ [Next]_vars => CacheInv'
<1> SUFFICES ASSUME CacheInv, [Next]_vars PROVE CacheInv'
  OBVIOUS
<1>1. CASE Next
  BY <1>1, CacheTypeStep, FlightsStep, FoundStep, CountStep, RoomStep DEF CacheInv
<1>2. CASE UNCHANGED vars
  <2> USE <1>2 DEF vars, CacheInv
  <2>1. TypeOK' /\ Flights'
    BY DEF TypeOK, Flights, Leads
  <2>2. (\A g \in Getters : Found(g)') /\ AnswersAreSound'
    BY DEF Found, AnswersAreSound
  <2>3. FetchesAreCalls'
    <3>1. \A k : Wanting(k)' = Wanting(k)
      BY DEF Wanting
    <3> QED BY <3>1 DEF FetchesAreCalls
  <2>4. FetchesLeaveRoom'
    <3>1. \A k : MayFetch(k)' = MayFetch(k)
      BY DEF MayFetch
    <3> QED BY <3>1 DEF FetchesLeaveRoom
  <2> QED BY <2>1, <2>2, <2>3, <2>4
<1> QED BY <1>1, <1>2

-----------------------------------------------------------------------------
(* The behaviours of all kinds *)

\* The invariants of WorkerPoolProofs and PipelineProofs.
PoolProof == INSTANCE WorkerPoolProofs WITH pc <- stage
PipeProof == INSTANCE PipelineProofs


poolAll == <<jobs, stage, job, results, cancelled, returned, started>>
pipelineAll == <<left, generator, fan, merge, out, results, cancelled, reading, returned>>

LEMMA PoolInit == Pool!Init => PoolProof!Inv
<1>1. Pool!Init => PoolProof!Init
  BY DEF Pool!Init, PoolProof!Init
<1> QED BY <1>1, JobAssumption, PoolProof!InitInv

LEMMA PoolNexts == Pool!Next => PoolProof!Next
BY DEF Pool!Next, PoolProof!Next, Pool!Step, PoolProof!Step, Pool!Goto, PoolProof!Goto,
       Pool!Take, PoolProof!Take, Pool!Drained, PoolProof!Drained,
       Pool!Start, PoolProof!Start, Pool!Break, PoolProof!Break,
       Pool!Finish, PoolProof!Finish, Pool!SendResult, PoolProof!SendResult,
       Pool!RunReturns, PoolProof!RunReturns, Pool!Cancel, PoolProof!Cancel

LEMMA PoolStep == PoolProof!Inv /\ [Pool!Next]_poolAll => PoolProof!Inv'
BY PoolNexts, JobAssumption, PoolProof!StepInv DEF poolAll, PoolProof!vars

LEMMA PipelineInit == Pipe!Init => PipeProof!Inv
<1>1. Pipe!Init => PipeProof!Init
  BY DEF Pipe!Init, PipeProof!Init
<1> QED BY <1>1, JobAssumption, PipeProof!InitInv

LEMMA PipelineNexts == Pipe!Next => PipeProof!Next
BY DEF Pipe!Next, PipeProof!Next, Pipe!Stage, PipeProof!Stage,
       Pipe!GenerateSend, PipeProof!GenerateSend, Pipe!FanSend, PipeProof!FanSend,
       Pipe!FanClose, PipeProof!FanClose, Pipe!MergeSend, PipeProof!MergeSend,
       Pipe!MergeClose, PipeProof!MergeClose, Pipe!GenerateClose, PipeProof!GenerateClose,
       Pipe!CloseOut, PipeProof!CloseOut, Pipe!CollectReturns, PipeProof!CollectReturns,
       Pipe!StopReading, PipeProof!StopReading, Pipe!Cancel, PipeProof!Cancel

LEMMA PipelineStep == PipeProof!Inv /\ [Pipe!Next]_pipelineAll => PipeProof!Inv'
BY PipelineNexts, JobAssumption, PipeProof!StepInv DEF pipelineAll, PipeProof!vars

LEMMA TypesOfJobs ==
  /\ PoolProof!Inv => Pool!TypeOK
  /\ PipeProof!Inv => Pipe!TypeOK
BY DEF PoolProof!Inv, PoolProof!TypeOK, Pool!TypeOK, PipeProof!Inv, PipeProof!TypeOK, Pipe!TypeOK

CallsInv ==
    /\ kind \in {"cache", "token", "pool", "pipeline", "group", "retry"}
    /\ kind = "cache" => CacheInv
    /\ kind = "token" => TokenInv
    /\ kind = "pool" => PoolProof!Inv
    /\ kind = "pipeline" => PipeProof!Inv
    /\ kind = "group" => GroupInv
    /\ RetryInv
    /\ Pool!TypeOK /\ Pipe!TypeOK /\ Group!TypeOK
    /\ kind # "cache" => present = {}
    /\ kind \notin {"cache", "token"} => \A g \in Getters : pc[g] = "idle"
    /\ kind # "token" => apart

LEMMA CallsInitInv == CallsInit => CallsInv
<1> SUFFICES ASSUME CallsInit PROVE CallsInv
  OBVIOUS
<1>1. CacheInv /\ TokenInv /\ GroupInv /\ RetryInv /\ PoolProof!Inv /\ PipeProof!Inv
  BY CacheInit, TokenInit, GroupInit, RetryInit, PoolInit, PipelineInit DEF CallsInit
<1>2. kind # "cache" => present = {}
  BY DEF CallsInit, Init
<1>3. apart /\ \A g \in Getters : pc[g] = "idle"
  BY DEF CallsInit, Tokens!Init, Init
<1> QED BY <1>1, <1>2, <1>3, TypesOfJobs DEF CallsInv, CallsInit, GroupInv

LEMMA CallsStepInv == CallsInv /\ [CallsNext]_allVars => CallsInv'
<1> SUFFICES ASSUME CallsInv, [CallsNext]_allVars PROVE CallsInv'
  OBVIOUS
<1>0. /\ kind \in {"cache", "token", "pool", "pipeline", "group", "retry"}
      /\ RetryInv /\ Pool!TypeOK /\ Pipe!TypeOK /\ Group!TypeOK
  BY DEF CallsInv
<1>r. UNCHANGED retryVars => RetryInv'
  BY <1>0, RetryStep
<1>p. UNCHANGED poolVars /\ results' \in [Jobs -> {0, 1}] /\ cancelled' \in BOOLEAN
        /\ returned' \in BOOLEAN => Pool!TypeOK'
  BY <1>0 DEF Pool!TypeOK, poolVars
<1>l. UNCHANGED pipelineVars /\ results' \in [Jobs -> {0, 1}] /\ cancelled' \in BOOLEAN
        /\ returned' \in BOOLEAN => Pipe!TypeOK'
  BY <1>0 DEF Pipe!TypeOK, pipelineVars
<1>g. UNCHANGED groupVars /\ results' \in [Jobs -> {0, 1}] /\ cancelled' \in BOOLEAN
        /\ returned' \in BOOLEAN => Group!TypeOK'
  BY <1>0 DEF Group!TypeOK, groupVars
<1>j. UNCHANGED jobVars => Pool!TypeOK' /\ Pipe!TypeOK' /\ Group!TypeOK'
  BY <1>0, <1>p, <1>l, <1>g DEF jobVars, Pool!TypeOK
<1>1. CASE OfCache(Next)
  <2>1. kind = "cache" /\ kind' = kind /\ Next /\ UNCHANGED <<tokenVars, jobVars, retryVars>>
    BY <1>1 DEF OfCache, Only
  <2>2. CacheInv'
    BY <2>1, CacheStep DEF CallsInv
  <2>3. apart'
    BY <2>1 DEF CallsInv, tokenVars
  <2> QED BY <1>r, <1>j, <2>1, <2>2, <2>3 DEF CallsInv
<1>2. CASE OfTokens(Tokens!Next)
  <2>1. kind = "token" /\ kind' = kind /\ Tokens!Next /\ UNCHANGED <<cacheVars, jobVars, retryVars>>
    BY <1>2 DEF OfTokens, Only
  <2>2. TokenInv'
    BY <2>1, TokenStep DEF CallsInv
  <2>3. present' = {}
    BY <2>1 DEF CallsInv, cacheVars
  <2> QED BY <1>r, <1>j, <2>1, <2>2, <2>3 DEF CallsInv
<1>3. CASE OfPool(Pool!Next)
  <2>1. /\ kind = "pool" /\ kind' = kind /\ Pool!Next
        /\ UNCHANGED <<pipelineVars, groupVars, pc, cacheVars, tokenVars, retryVars>>
    BY <1>3 DEF OfPool, OfJobs, Only
  <2>2. PoolProof!Inv'
    BY <2>1, PoolStep DEF CallsInv
  <2>3. Pool!TypeOK'
    BY <2>2, TypesOfJobs, PTL
  <2>4. Pipe!TypeOK' /\ Group!TypeOK'
    BY <1>l, <1>g, <2>1, <2>3 DEF Pool!TypeOK
  <2>5. present' = {} /\ (\A g \in Getters : pc'[g] = "idle") /\ apart'
    BY <2>1 DEF CallsInv, cacheVars, tokenVars
  <2> QED BY <1>r, <2>1, <2>2, <2>3, <2>4, <2>5 DEF CallsInv
<1>4. CASE OfPipeline(Pipe!Next)
  <2>1. /\ kind = "pipeline" /\ kind' = kind /\ Pipe!Next
        /\ UNCHANGED <<poolVars, groupVars, pc, cacheVars, tokenVars, retryVars>>
    BY <1>4 DEF OfPipeline, OfJobs, Only
  <2>2. PipeProof!Inv'
    BY <2>1, PipelineStep DEF CallsInv
  <2>3. Pipe!TypeOK'
    BY <2>2, TypesOfJobs, PTL
  <2>4. Pool!TypeOK' /\ Group!TypeOK'
    BY <1>p, <1>g, <2>1, <2>3 DEF Pipe!TypeOK
  <2>5. present' = {} /\ (\A g \in Getters : pc'[g] = "idle") /\ apart'
    BY <2>1 DEF CallsInv, cacheVars, tokenVars
  <2> QED BY <1>r, <2>1, <2>2, <2>3, <2>4, <2>5 DEF CallsInv
<1>5. CASE OfGroup(Group!Next)
  <2>1. /\ kind = "group" /\ kind' = kind /\ Group!Next
        /\ UNCHANGED <<poolVars, pipelineVars, pc, cacheVars, tokenVars, retryVars>>
    BY <1>5 DEF OfGroup, OfJobs, Only
  <2>2. GroupInv'
    BY <2>1, GroupStep DEF CallsInv
  <2>3. Group!TypeOK'
    BY <2>2 DEF GroupInv
  <2>4. Pool!TypeOK' /\ Pipe!TypeOK'
    BY <1>p, <1>l, <2>1, <2>3 DEF Group!TypeOK
  <2>5. present' = {} /\ (\A g \in Getters : pc'[g] = "idle") /\ apart'
    BY <2>1 DEF CallsInv, cacheVars, tokenVars
  <2> QED BY <1>r, <2>1, <2>2, <2>3, <2>4, <2>5 DEF CallsInv
<1>6. CASE OfRetry(Retrying!Next)
  <2>1. /\ kind = "retry" /\ kind' = kind /\ Retrying!Next
        /\ UNCHANGED <<pc, cacheVars, tokenVars, jobVars>>
    BY <1>6 DEF OfRetry, Only
  <2>2. RetryInv'
    BY <1>0, <2>1, RetryStep
  <2>3. present' = {} /\ (\A g \in Getters : pc'[g] = "idle") /\ apart'
    BY <2>1 DEF CallsInv, cacheVars, tokenVars
  <2> QED BY <1>j, <2>1, <2>2, <2>3 DEF CallsInv
<1>7. CASE UNCHANGED allVars
  <2>1. /\ kind' = kind /\ pc' = pc
        /\ UNCHANGED <<cacheVars, tokenVars, jobVars, retryVars>>
        /\ UNCHANGED <<poolVars, pipelineVars, groupVars, results, cancelled, returned>>
    BY <1>7 DEF allVars, jobVars
  <2>2. kind = "cache" => CacheInv'
    BY <2>1, CacheStep DEF CallsInv, vars, cacheVars
  <2>3. kind = "token" => TokenInv'
    BY <2>1, TokenStep DEF CallsInv, tokenAll, tokenVars
  <2>4. kind = "pool" => PoolProof!Inv'
    BY <2>1, PoolStep DEF CallsInv, poolAll, poolVars
  <2>5. kind = "pipeline" => PipeProof!Inv'
    BY <2>1, PipelineStep DEF CallsInv, pipelineAll, pipelineVars
  <2>6. kind = "group" => GroupInv'
    BY <2>1, GroupStep DEF CallsInv, groupAll, groupVars
  <2>7. /\ present' = present /\ apart' = apart
    BY <2>1 DEF cacheVars, tokenVars
  <2> QED BY <1>r, <1>j, <2>1, <2>2, <2>3, <2>4, <2>5, <2>6, <2>7 DEF CallsInv
<1> QED BY <1>1, <1>2, <1>3, <1>4, <1>5, <1>6, <1>7 DEF CallsNext

LEMMA CallsInductive == CallsSpec => []CallsInv
BY CallsInitInv, CallsStepInv, PTL DEF CallsSpec, CallsSteps

-----------------------------------------------------------------------------
(* Theorems *)

\* Types, for every number of goroutines, todos and jobs: no flight, channel or
\* slice ever holds what the code could not put there, no fetch is counted that
\* no call asked for, and no job has a second result.
THEOREM CallsTyped == CallsSpec => []CallsTypeOK
<1>1. CallsInv => CallsTypeOK
  BY DEF CallsInv, CallsTypeOK, CacheInv, TokenInv, RetryInv
<1> QED BY CallsInductive, <1>1, PTL

\* Get of ch37, with any number of callers that share fetches: "not found" is
\* said only of a todo that did not exist when the shared fetch began.
THEOREM GetAnswersAreSound == CallsSpec => []AnswersAreSound
<1>1. CallsInv => AnswersAreSound
  <2> SUFFICES ASSUME CallsInv PROVE AnswersAreSound
    OBVIOUS
  <2>1. CASE kind = "cache"
    BY <2>1 DEF CallsInv, CacheInv
  <2>2. CASE kind = "token"
    BY <2>2 DEF CallsInv, TokenInv, Tokens!TypeOK, AnswersAreSound
  <2>3. CASE kind \notin {"cache", "token"}
    BY <2>3 DEF CallsInv, AnswersAreSound
  <2> QED BY <2>1, <2>2, <2>3
<1> QED BY CallsInductive, <1>1, PTL

\* A getter of ch37 fetches a todo once for each time its entry was missing, and
\* the token source of ch19 never asks for a token before the last one nears its
\* end, however many callers find the token about to expire.
THEOREM SourcesAskedSeldom == CallsSpec => []FetchesFew
<1>1. CallsInv => FetchesBounded
  <2> SUFFICES ASSUME CallsInv, NEW k \in present
               PROVE  fetchCount[k] <= Cardinality(Getters) * (1 + expiries[k])
    BY DEF FetchesBounded
  <2>1. CacheInv
    BY DEF CallsInv
  <2> DEFINE n == Cardinality(Getters) * (1 + expiries[k])
  <2>2. fetchCount[k] \in Nat /\ fetchCount[k] + Cardinality(MayFetch(k)) <= n
    BY <2>1, CacheAssumption DEF CacheInv, TypeOK, FetchesLeaveRoom
  <2>3. Cardinality(MayFetch(k)) \in Nat
    BY SetsOfGetters DEF MayFetch
  <2>4. n \in Nat
    <3>1. expiries[k] \in Nat
      BY <2>1, CacheAssumption DEF CacheInv, TypeOK
    <3>2. Cardinality(Getters) \in Nat
      BY SetsOfGetters
    <3> QED BY <3>1, <3>2
  <2> HIDE DEF n
  <2>5. fetchCount[k] <= n
    BY <2>2, <2>3, <2>4
  <2> QED BY <2>5 DEF n
<1>2. CallsInv => Tokens!RefreshesApart
  BY DEF CallsInv, TokenInv, Tokens!RefreshesApart
<1>3. CallsInv => FetchesFew
  BY <1>1, <1>2 DEF FetchesFew
<1> QED BY CallsInductive, <1>3, PTL

\* A request of the client of ch19 that arrives within Skew carries a token that
\* has not expired, whoever fetched it and however long the fetch took.
THEOREM TokensAreValid == CallsSpec => []TokensArriveValid
<1>1. CallsInv => TokensArriveValid
  <2> SUFFICES ASSUME CallsInv, kind = "token", NEW c \in Getters, pc[c] = "sent"
               PROVE  now < token[c]
    BY DEF TokensArriveValid, Tokens!TokensArriveValid
  <2>1. TokenInv
    BY DEF CallsInv
  <2> QED BY <2>1, TokenAssumption DEF TokenInv, Tokens!TypeOK
<1> QED BY CallsInductive, <1>1, PTL

\* WorkerPool.Run of ch41 completes the jobs in flight, and FetchUsers of ch15
\* returns a nil error only with a result in every slot.
THEOREM CallsResultsComplete == CallsSpec => []ResultsComplete
<1>1. ASSUME CallsInv, kind = "pool" PROVE Pool!InFlightCompletes
  <2> SUFFICES ASSUME returned, NEW j \in Jobs
               PROVE  results[j] = IF j \in started THEN 1 ELSE 0
    BY DEF Pool!InFlightCompletes
  <2>1. PoolProof!Inv
    BY <1>1 DEF CallsInv
  <2>2. \A w \in Workers : stage[w] = "done"
    BY <2>1 DEF PoolProof!Inv, PoolProof!NoneDropped
  <2>3. CASE j \in started
    BY <2>1, <2>2, <2>3 DEF PoolProof!Inv, PoolProof!StartedJobs
  <2>4. CASE j \notin started
    BY <2>1, <2>4 DEF PoolProof!Inv, PoolProof!StartedJobs, PoolProof!TypeOK
  <2> QED BY <2>3, <2>4
<1>2. CallsInv /\ kind = "group" => Group!FetchedAll
  BY DEF CallsInv, GroupInv, Group!FetchedAll
<1>3. CallsInv => ResultsComplete
  BY <1>1, <1>2 DEF ResultsComplete
<1> QED BY CallsInductive, <1>3, PTL

\* Client.do of ch11 sends a request again only after a retryable answer and a
\* pause, and computing the pause does not overflow for up to 34 retries.
THEOREM RetriesAreJustified == CallsSpec => []RetriesJustified
<1>1. CallsInv => RetriesJustified
  BY DEF CallsInv, RetryInv, RetriesJustified
<1> QED BY CallsInductive, <1>1, PTL

-----------------------------------------------------------------------------
(* The job runner *)

\* FetchUsers and FetchRepos: a goroutine delivers into its own slot, and Wait
\* comes after all of them.
LEMMA GroupRuns ==
  GroupInv /\ [Group!Next]_groupAll => [Pool!Runner!Next]_(Pool!Runner!vars)
<1> SUFFICES ASSUME GroupInv, [Group!Next]_groupAll
             PROVE  Pool!Runner!Next \/ UNCHANGED Pool!Runner!vars
  OBVIOUS
<1> USE DEF Pool!Runner!vars
<1>1. ASSUME NEW j \in Jobs, Group!Receive(j)
      PROVE  Pool!Runner!Next
  <2>1. results[j] = 0 /\ ~returned /\ results' = [results EXCEPT ![j] = results[j] + 1]
    BY <1>1 DEF Group!Receive, GroupInv
  <2>2. results[j] + 1 = 1
    BY <2>1
  <2>3. Pool!Runner!Deliver(j)
    BY <1>1, <2>1, <2>2 DEF Group!Receive, Pool!Runner!Deliver
  <2> QED BY <2>3 DEF Pool!Runner!Next
<1>2. ASSUME NEW j \in Jobs, Group!Fail(j)
      PROVE  Pool!Runner!Next \/ UNCHANGED Pool!Runner!vars
  <2>1. UNCHANGED <<results, returned>> /\ cancelled' = TRUE /\ cancelled \in BOOLEAN
    BY <1>2 DEF Group!Fail, GroupInv, Group!TypeOK
  <2>2. CASE cancelled
    BY <2>1, <2>2
  <2>3. CASE ~cancelled
    <3>1. Pool!Runner!Cancel
      BY <2>1, <2>3 DEF Pool!Runner!Cancel
    <3> QED BY <3>1 DEF Pool!Runner!Next
  <2> QED BY <2>2, <2>3
<1>3. ASSUME NEW j \in Jobs, Group!Go(j) \/ Group!Send(j)
      PROVE  UNCHANGED Pool!Runner!vars
  BY <1>3 DEF Group!Go, Group!Send
<1>4. CASE Group!Return
  <2>1. cancelled \/ \A j \in Jobs : results[j] = 1
    BY <1>4 DEF Group!Return, GroupInv
  <2>2. Pool!Runner!Return
    BY <1>4, <2>1 DEF Group!Return, Pool!Runner!Return
  <2> QED BY <2>2 DEF Pool!Runner!Next
<1>5. CASE Group!Cancel
  <2>1. Pool!Runner!Cancel
    BY <1>5 DEF Group!Cancel, Pool!Runner!Cancel
  <2> QED BY <2>1 DEF Pool!Runner!Next
<1>6. CASE UNCHANGED groupAll
  BY <1>6 DEF groupAll
<1> QED BY <1>1, <1>2, <1>3, <1>4, <1>5, <1>6 DEF Group!Next, Group!Step

LEMMA PoolRuns ==
  PoolProof!Inv /\ [Pool!Next]_poolAll => [Pool!Runner!Next]_(Pool!Runner!vars)
<1>1. [Pool!Next]_poolAll => [PoolProof!Next]_(PoolProof!vars)
  BY PoolNexts DEF poolAll, PoolProof!vars
<1>2. [PoolProof!Runner!Next]_(PoolProof!Runner!vars) => [Pool!Runner!Next]_(Pool!Runner!vars)
  BY DEF PoolProof!Runner!Next, PoolProof!Runner!vars, PoolProof!Runner!Deliver,
         PoolProof!Runner!Cancel, PoolProof!Runner!Return,
         Pool!Runner!Next, Pool!Runner!vars, Pool!Runner!Deliver, Pool!Runner!Cancel,
         Pool!Runner!Return
<1> QED BY <1>1, <1>2, JobAssumption, PoolProof!RunnerStep

LEMMA PipelineRuns ==
  PipeProof!Inv /\ [Pipe!Next]_pipelineAll => [Pool!Runner!Next]_(Pool!Runner!vars)
<1>1. [Pipe!Next]_pipelineAll => [PipeProof!Next]_(PipeProof!vars)
  BY PipelineNexts DEF pipelineAll, PipeProof!vars
<1>2. [PipeProof!Runner!Next]_(PipeProof!Runner!vars) => [Pool!Runner!Next]_(Pool!Runner!vars)
  BY DEF PipeProof!Runner!Next, PipeProof!Runner!vars, PipeProof!Runner!Deliver,
         PipeProof!Runner!Cancel, PipeProof!Runner!Return,
         Pool!Runner!Next, Pool!Runner!vars, Pool!Runner!Deliver, Pool!Runner!Cancel,
         Pool!Runner!Return
<1> QED BY <1>1, <1>2, JobAssumption, PipeProof!RunnerStep

\* Run, Collect on a pipeline, and FetchUsers are job runners, all three for any
\* number of jobs and goroutines: one result per job at most, and they return
\* with all of them or after a cancellation.
THEOREM CallsRunJobs == CallsSpec => RunnerSpec
<1>1. CallsInit => Pool!Runner!Init
  BY DEF CallsInit, Pool!Init, Pool!Runner!Init
<1>2. CallsInv /\ [CallsNext]_allVars => [Pool!Runner!Next]_(Pool!Runner!vars)
  <2> SUFFICES ASSUME CallsInv, [CallsNext]_allVars
               PROVE  [Pool!Runner!Next]_(Pool!Runner!vars)
    OBVIOUS
  <2>0. UNCHANGED <<results, cancelled, returned>> => UNCHANGED Pool!Runner!vars
    BY DEF Pool!Runner!vars
  <2>1. CASE OfPool(Pool!Next)
    BY <2>1, PoolRuns DEF OfPool, OfJobs, Only, CallsInv
  <2>2. CASE OfPipeline(Pipe!Next)
    BY <2>2, PipelineRuns DEF OfPipeline, OfJobs, Only, CallsInv
  <2>3. CASE OfGroup(Group!Next)
    BY <2>3, GroupRuns DEF OfGroup, OfJobs, Only, CallsInv
  <2>4. CASE OfCache(Next) \/ OfTokens(Tokens!Next) \/ OfRetry(Retrying!Next)
    BY <2>0, <2>4 DEF OfCache, OfTokens, OfRetry, Only, jobVars
  <2>5. CASE UNCHANGED allVars
    BY <2>0, <2>5 DEF allVars, jobVars
  <2> QED BY <2>1, <2>2, <2>3, <2>4, <2>5 DEF CallsNext
<1> QED BY <1>1, <1>2, CallsInductive, PTL
        DEF CallsSpec, CallsSteps, RunnerSpec, Pool!RunnerSpec, Pool!Runner!Spec

=============================================================================
