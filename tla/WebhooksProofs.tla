--------------------------- MODULE WebhooksProofs ---------------------------
(***************************************************************************)
(* The safety properties of Webhooks for every number of handlers,         *)
(* workers, todos and subscriptions.  AcknowledgedOnce is about workers    *)
(* with an old snapshot of the queue: what bounds the acknowledgements is  *)
(* the number of workers that still hold the event for the subscription.   *)
(***************************************************************************)
EXTENDS Webhooks, FiniteSetTheorems, WellFoundedInduction, TLAPS

\* A todo is either with the one handler that made it or in one event.
TodosOnce ==
    /\ \A h \in Handlers : handling[h] \in 0..todos
    /\ \A e \in DOMAIN events : events[e].todo \in 1..todos
    /\ \A e, f \in DOMAIN events : events[e].todo = events[f].todo => e = f
    /\ \A h, k \in Handlers : handling[h] = handling[k] /\ handling[h] # 0 => h = k
    /\ \A e \in DOMAIN events, h \in Handlers : events[e].todo # handling[h]
    /\ \A t \in 1..todos : \/ \E e \in DOMAIN events : events[e].todo = t
                           \/ \E h \in Handlers : handling[h] = t

\* What a worker has in hand.
InHand(w) ==
    /\ worker[w].at = "sending" => worker[w].targets # {}
    /\ worker[w].at \in {"idle", "exited"} => worker[w].batch = {} /\ worker[w].targets = {}
    /\ worker[w].batch \subseteq DOMAIN events
    /\ worker[w].targets \subseteq ForEvent
    /\ worker[w].targets # {} =>
          worker[w].event \in DOMAIN events \ worker[w].batch

AcksWereWanted ==
    \A e \in EventIds, s \in SubIds :
        acks[<<e, s>>] > 0 => e \in DOMAIN events /\ s \in ForEvent

AttemptsOf == [e \in DOMAIN events |-> events[e].attempts]

CountsFinite == IsFiniteSet(Units(AttemptsOf)) /\ IsFiniteSet(Units(acks))

\* The workers that may still send event e to subscription s, once e is delivered.
Holding(e, s) ==
    {w \in Workers : \/ e \in worker[w].batch
                     \/ e = worker[w].event /\ s \in worker[w].targets}

AcksLeaveRoom ==
    \A e \in DOMAIN events, s \in SubIds : events[e].delivered =>
        acks[<<e, s>>] + Cardinality(Holding(e, s)) <= Cardinality(Workers)

Inv ==
    /\ TypeOK
    /\ TodosOnce
    /\ \A w \in Workers : InHand(w)
    /\ AcksWereWanted
    /\ DeliveredWasAccepted
    /\ CountsFinite
    /\ AttemptsAccounted
    /\ AcksLeaveRoom

-----------------------------------------------------------------------------
(* Operators *)

\* A set of naturals that is not empty has its minimum among its elements.
LEMMA MinIsIn ==
  ASSUME NEW S \in SUBSET Nat, S # {}
  PROVE  Min(S) \in S
<1> DEFINE Less == {p \in Nat \X Nat : p[1] < p[2]}
<1>1. IsWellFoundedOn(Less, Nat)
  BY NatLessThanWellFounded, Zenon DEF OpToRel
<1>2. PICK x \in S : \A y \in S : ~ (<<y, x>> \in Less)
  BY <1>1, WFMin
<1>3. \A y \in S : x <= y
  <2> TAKE y \in S
  <2>1. x \in Nat /\ y \in Nat /\ <<y, x>> \notin Less
    BY <1>2
  <2>2. ~ (y < x)
    BY <2>1
  <2> QED BY <2>1, <2>2
<1> QED BY <1>3 DEF Min

\* One more unit of x is one element more.
LEMMA UnitsGrow ==
  ASSUME NEW S, NEW f \in [S -> Nat], NEW x \in S, IsFiniteSet(Units(f))
  PROVE  LET g == [f EXCEPT ![x] = @ + 1]
         IN  /\ IsFiniteSet(Units(g))
             /\ Cardinality(Units(f)) \in Nat
             /\ Cardinality(Units(g)) = Cardinality(Units(f)) + 1
<1> DEFINE g == [f EXCEPT ![x] = @ + 1]
           q == <<x, f[x] + 1>>
<1>1. Units(g) = Units(f) \cup {q}
  <2>1. \A p : p \in Units(g) <=> p \in Units(f) \cup {q}
    <3> TAKE p
    <3>1. p \in Units(g) <=> \E y \in S : p \in {y} \X (1..g[y])
      BY DEF Units
    <3>2. p \in Units(f) <=> \E y \in S : p \in {y} \X (1..f[y])
      BY DEF Units
    <3>3. \A y \in S \ {x} : g[y] = f[y]
      OBVIOUS
    <3>4. p \in {x} \X (1..g[x]) <=> p \in {x} \X (1..f[x]) \/ p = q
      BY f[x] \in Nat, g[x] = f[x] + 1
    <3> QED BY <3>1, <3>2, <3>3, <3>4
  <2> QED BY <2>1
<1>2. q \notin Units(f)
  BY f[x] \in Nat DEF Units
<1>3. Cardinality(Units(f)) \in Nat
  BY FS_CardinalityType
<1>4. IsFiniteSet(Units(g)) /\ Cardinality(Units(g)) = Cardinality(Units(f)) + 1
  <2> HIDE DEF g, q
  <2> QED BY <1>1, <1>2, FS_AddElement
<1> QED BY <1>3, <1>4

LEMMA FailuresAre == Failures = Cardinality(Units(AttemptsOf))
BY Zenon DEF Failures, AttemptsOf

-----------------------------------------------------------------------------
(* Steps *)

\* What the steps of a worker rely on: there is a first one among the events and
\* the subscriptions left.
LEMMA FirstIsIn ==
  ASSUME TypeOK, NEW w \in Workers
  PROVE  /\ worker[w].batch # {} => Min(worker[w].batch) \in worker[w].batch
         /\ worker[w].targets # {} => Min(worker[w].targets) \in worker[w].targets
<1>1. worker[w].batch \in SUBSET Nat /\ worker[w].targets \in SUBSET Nat
  BY WebhooksAssumption DEF TypeOK, Worker, EventIds, SubIds
<1> QED BY <1>1, MinIsIn

LEMMA InitInv == Init => Inv
<1> SUFFICES ASSUME Init PROVE Inv
  OBVIOUS
<1>1. /\ events = <<>> /\ DOMAIN events = {} /\ Len(events) = 0
      /\ subs = <<>> /\ DOMAIN subs = {} /\ Len(subs) = 0
      /\ events \in Seq(Event) /\ subs \in Seq(BOOLEAN)
  BY DEF Init
<1>2. TypeOK
  <2>1. Idle \in Worker
    BY WebhooksAssumption DEF Idle, Worker, EventIds, SubIds
  <2>2. 0 \in 0..MaxTodos /\ 0 <= MaxSubs
    BY WebhooksAssumption
  <2>3. events \in Seq(Event) /\ Len(events) <= todos
    BY <1>1 DEF Init
  <2>4. subs \in Seq(BOOLEAN) /\ Len(subs) <= MaxSubs
    BY <1>1, <2>2
  <2> QED BY <2>1, <2>2, <2>3, <2>4 DEF Init, TypeOK
<1>3. TodosOnce
  BY <1>1 DEF Init, TodosOnce
<1>4. \A w \in Workers : InHand(w)
  BY DEF Init, InHand, Idle
<1>5. AcksWereWanted /\ DeliveredWasAccepted /\ AcksLeaveRoom
  BY <1>1 DEF Init, AcksWereWanted, DeliveredWasAccepted, AcksLeaveRoom
<1>6. Units(AttemptsOf) = {} /\ Units(acks) = {} /\ Sending = {}
  BY <1>1 DEF Init, Units, AttemptsOf, Sending, Idle
<1>7. CountsFinite
  BY <1>6, FS_EmptySet DEF CountsFinite
<1>8. AttemptsAccounted
  <2>1. deliveryAttempts = 0
    BY DEF Init
  <2> QED BY <1>6, <2>1, FailuresAre, FS_EmptySet DEF AttemptsAccounted
<1> QED BY <1>2, <1>3, <1>4, <1>5, <1>7, <1>8 DEF Inv

\* A handler that has a todo to announce finds room: the events are of other todos.
LEMMA RoomForEvent ==
  ASSUME TypeOK, TodosOnce, NEW h \in Handlers, handling[h] # 0
  PROVE  Len(events) + 1 <= todos
<1> DEFINE n == Len(events)
           f == [e \in 1..(n + 1) |-> IF e <= n THEN events[e].todo ELSE handling[h]]
<1>1. n \in Nat /\ todos \in Nat /\ DOMAIN events = 1..n
  BY WebhooksAssumption DEF TypeOK
<1>2. f \in [1..(n + 1) -> 1..todos]
  BY <1>1 DEF TodosOnce
<1>3. \A e, k \in 1..(n + 1) : f[e] = f[k] => e = k
  BY <1>1 DEF TodosOnce
<1>4. f \in Injection(1..(n + 1), 1..todos)
  BY <1>2, <1>3 DEF Injection, IsInjective
<1>5. IsFiniteSet(1..todos) /\ Cardinality(1..todos) = todos
  BY <1>1, FS_Interval
<1>6. Cardinality(1..(n + 1)) = n + 1
  BY <1>1, FS_Interval
<1> HIDE DEF f
<1>7. Cardinality(1..(n + 1)) <= Cardinality(1..todos)
  BY <1>4, <1>5, FS_Injection
<1> QED BY <1>5, <1>6, <1>7

LEMMA TypeStep ==
  ASSUME Inv, Next
  PROVE  TypeOK'
<1> USE WebhooksAssumption DEF EventIds, SubIds
<1>0. TypeOK /\ TodosOnce /\ \A w \in Workers : InHand(w)
  BY DEF Inv
<1>1. ASSUME NEW h \in Handlers, CreateTodo(h)
      PROVE  TypeOK'
  BY <1>0, <1>1 DEF CreateTodo, TypeOK
<1>2. ASSUME NEW h \in Handlers, Enqueue(h)
      PROVE  TypeOK'
  <2> DEFINE ev == [todo |-> handling[h], attempts |-> 0, delivered |-> FALSE]
  <2>1. ev \in Event
    BY <1>0, <1>2 DEF TypeOK, Enqueue, Event
  <2>2. events' \in Seq(Event) /\ Len(events') = Len(events) + 1
    BY <1>0, <1>2, <2>1 DEF TypeOK, Enqueue
  <2>3. Len(events') <= todos
    BY <1>0, <1>2, <2>2, RoomForEvent DEF Enqueue
  <2> QED BY <1>0, <1>2, <2>2, <2>3 DEF TypeOK, Enqueue
<1>3. ASSUME NEW wanted \in BOOLEAN, Subscribe(wanted)
      PROVE  TypeOK'
  BY <1>0, <1>3 DEF Subscribe, TypeOK
<1>4. ASSUME NEW w \in Workers, Tick(w) \/ TakeEvent(w) \/ EndPass(w) \/ Attempt(w) \/ Exit(w)
      PROVE  TypeOK'
  <2>1. DOMAIN events \subseteq 1..MaxTodos /\ DOMAIN subs \subseteq 1..MaxSubs
    BY <1>0 DEF TypeOK
  <2>a. worker[w] \in Worker /\ worker \in [Workers -> Worker] /\ MaxTodos \in Nat
    BY <1>0 DEF TypeOK
  <2>2. worker'[w] \in Worker
    <3>1. CASE Tick(w)
      <4>1. worker'[w] = [worker[w] EXCEPT !.at = "pass", !.batch = Pending]
        BY <3>1, <2>a DEF Tick
      <4> QED BY <4>1, <2>1, <2>a DEF Worker, Pending
    <3>2. CASE TakeEvent(w)
      <4>1. Min(worker[w].batch) \in worker[w].batch
        BY <3>2, <1>0, FirstIsIn DEF TakeEvent
      <4>2. worker'[w] = [worker[w] EXCEPT !.event = Min(worker[w].batch),
                              !.batch = @ \ {Min(@)}, !.targets = ForEvent]
        BY <3>2, <2>a DEF TakeEvent
      <4>3. Min(worker[w].batch) \in 0..MaxTodos
        BY <4>1, <2>a DEF Worker
      <4>4. /\ ForEvent \in SUBSET SubIds
            /\ worker[w].batch \ {Min(worker[w].batch)} \in SUBSET EventIds
        BY <2>1, <2>a DEF Worker, ForEvent
      <4> HIDE DEF EventIds, SubIds
      <4> QED BY <4>2, <4>3, <4>4, <2>a DEF Worker
    <3>3. CASE EndPass(w)
      BY <3>3, <2>a DEF EndPass, Idle, Worker
    <3>4. CASE Attempt(w) \/ Exit(w)
      BY <3>4, <2>a DEF Attempt, Exit, Worker
    <3> QED BY <1>4, <3>1, <3>2, <3>3, <3>4
  <2>3. worker' \in [Workers -> Worker]
    BY <1>0, <1>4, <2>2 DEF TypeOK, Tick, TakeEvent, EndPass, Attempt, Exit
  <2>4. deliveryAttempts' \in Nat
    BY <1>0, <1>4 DEF TypeOK, Tick, TakeEvent, EndPass, Attempt, Exit
  <2>5. UNCHANGED <<todos, handling, events, subs, stopped, acks>>
    BY <1>4 DEF Tick, TakeEvent, EndPass, Attempt, Exit
  <2> QED BY <1>0, <2>3, <2>4, <2>5 DEF TypeOK
<1>5. ASSUME NEW w \in Workers, Success(w) \/ Failure(w)
      PROVE  TypeOK'
  <2>1. worker' \in [Workers -> Worker]
    <3>1. worker[w] \in Worker /\ worker \in [Workers -> Worker]
      BY <1>0 DEF TypeOK
    <3>2. worker' = [worker EXCEPT ![w].at = "pass", ![w].targets = @ \ {Min(@)}]
      BY <1>5 DEF Success, Failure, NextTarget
    <3>3. worker'[w] = [worker[w] EXCEPT !.at = "pass", !.targets = @ \ {Min(@)}]
      BY <3>1, <3>2
    <3>4. worker'[w] \in Worker
      BY <3>1, <3>3 DEF Worker
    <3> QED BY <3>1, <3>2, <3>4
  <2>2. worker[w].event \in DOMAIN events
    BY <1>0, <1>5 DEF InHand, Success, Failure
  <2>3. events' \in Seq(Event) /\ Len(events') = Len(events)
    <3>1. events \in Seq(Event) /\ events[worker[w].event] \in Event
      BY <1>0, <2>2 DEF TypeOK
    <3>2. CASE Success(w)
      <4>1. [events[worker[w].event] EXCEPT !.delivered = TRUE] \in Event
        BY <3>1 DEF Event
      <4> QED BY <3>1, <3>2, <4>1, <2>2 DEF Success
    <3>3. CASE Failure(w)
      <4>1. [events[worker[w].event] EXCEPT !.attempts = @ + 1] \in Event
        <5>1. events[worker[w].event].attempts + 1 \in Nat
          BY <3>1 DEF Event
        <5> QED BY <3>1, <5>1 DEF Event
      <4> QED BY <3>1, <3>3, <4>1, <2>2 DEF Failure
    <3> QED BY <1>5, <3>2, <3>3
  <2>4. acks' \in [EventIds \X SubIds -> Nat]
    <3>1. CASE Success(w)
      <4>1. acks' = [acks EXCEPT ![<<worker[w].event, Min(worker[w].targets)>>] = @ + 1]
        BY <3>1 DEF Success
      <4>2. \A q \in EventIds \X SubIds : acks[q] + 1 \in Nat
        BY <1>0 DEF TypeOK
      <4> HIDE DEF EventIds, SubIds
      <4> QED BY <1>0, <4>1, <4>2 DEF TypeOK
    <3>2. CASE Failure(w)
      BY <1>0, <3>2 DEF TypeOK, Failure
    <3> QED BY <1>5, <3>1, <3>2
  <2>5. UNCHANGED <<todos, handling, subs, stopped, deliveryAttempts>>
    BY <1>5 DEF Success, Failure
  <2> QED BY <1>0, <2>1, <2>3, <2>4, <2>5 DEF TypeOK
<1>6. CASE Stop
  BY <1>0, <1>6 DEF TypeOK, Stop
<1> QED BY <1>1, <1>2, <1>3, <1>4, <1>5, <1>6 DEF Next, PassStep

LEMMA TodosOnceStep ==
  ASSUME Inv, Next
  PROVE  TodosOnce'
<1>0. TypeOK /\ TodosOnce /\ \A w \in Workers : InHand(w)
  BY DEF Inv
<1>1. ASSUME NEW h \in Handlers, CreateTodo(h)
      PROVE  TodosOnce'
  <2>1. /\ todos \in Nat /\ todos' = todos + 1 /\ events' = events
        /\ handling' = [handling EXCEPT ![h] = todos + 1]
        /\ handling \in [Handlers -> Nat]
    BY <1>0, <1>1, WebhooksAssumption DEF CreateTodo, TypeOK
  <2>2. /\ \A k \in Handlers : handling[k] \in 0..todos
        /\ \A e \in DOMAIN events : events[e].todo \in 1..todos
    BY <1>0 DEF TodosOnce
  <2>3. \A k \in Handlers : handling'[k] = IF k = h THEN todos + 1 ELSE handling[k]
    BY <2>1
  <2>4. /\ \A k \in Handlers : handling'[k] \in 0..todos'
        /\ \A e \in DOMAIN events' : events'[e].todo \in 1..todos'
        /\ \A e, k \in DOMAIN events' : events'[e].todo = events'[k].todo => e = k
    BY <1>0, <2>1, <2>2, <2>3 DEF TodosOnce
  <2>5. \A j, k \in Handlers : handling'[j] = handling'[k] /\ handling'[j] # 0 => j = k
    BY <1>0, <2>1, <2>2, <2>3 DEF TodosOnce
  <2>6. \A e \in DOMAIN events', k \in Handlers : events'[e].todo # handling'[k]
    BY <1>0, <2>1, <2>2, <2>3 DEF TodosOnce
  <2>7. \A t \in 1..todos' : \/ \E e \in DOMAIN events' : events'[e].todo = t
                             \/ \E k \in Handlers : handling'[k] = t
    <3> TAKE t \in 1..todos'
    <3>1. CASE t = todos + 1
      BY <2>3, <3>1
    <3>2. CASE t \in 1..todos
      <4>1. handling[h] = 0
        BY <1>1 DEF CreateTodo
      <4> QED BY <1>0, <2>1, <2>3, <3>2, <4>1 DEF TodosOnce
    <3> QED BY <2>1, <3>1, <3>2
  <2> QED BY <2>4, <2>5, <2>6, <2>7 DEF TodosOnce
<1>2. ASSUME NEW h \in Handlers, Enqueue(h)
      PROVE  TodosOnce'
  <2>1. /\ DOMAIN events = 1..Len(events) /\ DOMAIN events' = 1..(Len(events) + 1)
        /\ Len(events) \in Nat /\ todos \in Nat
        /\ \A e \in DOMAIN events : events'[e] = events[e]
        /\ events'[Len(events) + 1].todo = handling[h]
    BY <1>0, <1>2, WebhooksAssumption DEF Enqueue, TypeOK
  <2> DEFINE n == Len(events) + 1
  <2>2. /\ handling \in [Handlers -> Nat] /\ handling[h] # 0 /\ todos' = todos
        /\ handling' = [handling EXCEPT ![h] = 0]
    BY <1>0, <1>2 DEF Enqueue, TypeOK
  <2>3. \A k \in Handlers : handling'[k] = IF k = h THEN 0 ELSE handling[k]
    BY <2>2
  <2>4. \A e \in DOMAIN events' : e \in DOMAIN events \/ e = n
    BY <2>1
  <2> HIDE DEF n
  <2>5. /\ \A k \in Handlers : handling'[k] \in 0..todos'
        /\ \A e \in DOMAIN events' : events'[e].todo \in 1..todos'
    BY <1>0, <2>1, <2>2, <2>3, <2>4 DEF TodosOnce, n
  <2>6. \A e, k \in DOMAIN events' : events'[e].todo = events'[k].todo => e = k
    BY <1>0, <2>1, <2>2, <2>4 DEF TodosOnce, n
  <2>7. \A j, k \in Handlers : handling'[j] = handling'[k] /\ handling'[j] # 0 => j = k
    BY <1>0, <2>2, <2>3 DEF TodosOnce
  <2>8. \A e \in DOMAIN events', k \in Handlers : events'[e].todo # handling'[k]
    <3> TAKE e \in DOMAIN events', k \in Handlers
    <3>1. events'[e].todo # 0
      BY <2>5, <2>1, <2>2
    <3>2. CASE k = h
      BY <2>3, <3>1, <3>2
    <3>3. CASE k # h /\ e \in DOMAIN events
      BY <1>0, <2>1, <2>3, <3>3 DEF TodosOnce
    <3>4. CASE k # h /\ e = n
      BY <1>0, <2>1, <2>2, <2>3, <3>4 DEF TodosOnce, n
    <3> QED BY <2>4, <3>2, <3>3, <3>4
  <2>9. \A t \in 1..todos' : \/ \E e \in DOMAIN events' : events'[e].todo = t
                             \/ \E k \in Handlers : handling'[k] = t
    <3> TAKE t \in 1..todos'
    <3>1. CASE \E e \in DOMAIN events : events[e].todo = t
      BY <2>1, <3>1
    <3>2. CASE \E k \in Handlers : handling[k] = t
      <4>1. PICK k \in Handlers : handling[k] = t
        BY <3>2
      <4>2. CASE k = h
        BY <2>1, <4>1, <4>2
      <4>3. CASE k # h
        BY <2>3, <4>1, <4>3
      <4> QED BY <4>2, <4>3
    <3> QED BY <1>0, <2>2, <3>1, <3>2 DEF TodosOnce
  <2> QED BY <2>5, <2>6, <2>7, <2>8, <2>9 DEF TodosOnce
<1>3. ASSUME NEW wanted \in BOOLEAN, Subscribe(wanted)
      PROVE  TodosOnce'
  BY <1>0, <1>3 DEF Subscribe, TodosOnce
<1>4. ASSUME NEW w \in Workers, Tick(w) \/ PassStep(w) \/ Exit(w)
      PROVE  TodosOnce'
  <2>1. /\ DOMAIN events' = DOMAIN events
        /\ \A e \in DOMAIN events : events'[e].todo = events[e].todo
    <3>1. CASE Success(w) \/ Failure(w)
      <4>1. worker[w].event \in DOMAIN events /\ events \in Seq(Event)
        BY <1>0, <3>1 DEF InHand, Success, Failure, TypeOK
      <4>2. events[worker[w].event] \in Event
        BY <4>1
      <4>3. CASE Success(w)
        BY <4>1, <4>2, <4>3 DEF Success, Event
      <4>4. CASE Failure(w)
        BY <4>1, <4>2, <4>4 DEF Failure, Event
      <4> QED BY <3>1, <4>3, <4>4
    <3>2. CASE ~ (Success(w) \/ Failure(w))
      BY <1>4, <3>2 DEF Tick, PassStep, TakeEvent, EndPass, Attempt, Exit
    <3> QED BY <3>1, <3>2
  <2>2. UNCHANGED <<todos, handling>>
    BY <1>4 DEF Tick, PassStep, TakeEvent, EndPass, Attempt, Exit, Success, Failure
  <2> QED BY <1>0, <2>1, <2>2 DEF TodosOnce
<1>5. CASE Stop
  BY <1>0, <1>5 DEF TodosOnce, Stop
<1> QED BY <1>1, <1>2, <1>3, <1>4, <1>5 DEF Next

\* An answer concerns the event in hand and the first of the subscriptions left.
LEMMA AnswerOf ==
  ASSUME Inv, NEW w \in Workers, worker[w].at = "sending"
  PROVE  /\ worker[w].event \in DOMAIN events /\ worker[w].event \notin worker[w].batch
         /\ Min(worker[w].targets) \in worker[w].targets
         /\ Min(worker[w].targets) \in ForEvent
         /\ DOMAIN events \subseteq EventIds /\ ForEvent \subseteq SubIds
<1>1. InHand(w) /\ TypeOK
  BY DEF Inv
<1>2. Min(worker[w].targets) \in worker[w].targets
  BY <1>1, FirstIsIn DEF InHand
<1>3. DOMAIN events \subseteq EventIds /\ ForEvent \subseteq SubIds
  BY <1>1, WebhooksAssumption DEF TypeOK, EventIds, SubIds, ForEvent
<1> QED BY <1>1, <1>2, <1>3 DEF InHand

\* The worker that has an answer goes on to the next subscription.
LEMMA WorkerMovesOn ==
  ASSUME TypeOK, NEW w \in Workers, NextTarget(w)
  PROVE  /\ \A v \in Workers \ {w} : worker'[v] = worker[v]
         /\ worker'[w].at = "pass" /\ worker'[w].batch = worker[w].batch
         /\ worker'[w].event = worker[w].event
         /\ worker'[w].targets = worker[w].targets \ {Min(worker[w].targets)}
<1>1. worker \in [Workers -> Worker] /\ worker[w] \in Worker
  BY DEF TypeOK
<1>2. worker'[w] = [worker[w] EXCEPT !.at = "pass", !.targets = @ \ {Min(@)}]
  BY <1>1 DEF NextTarget
<1>3. \A v \in Workers \ {w} : worker'[v] = worker[v]
  BY <1>1 DEF NextTarget
<1> QED BY <1>1, <1>2, <1>3 DEF Worker

\* What a 2xx answer changes in the queue and in the history.
LEMMA SuccessOf ==
  ASSUME Inv, NEW w \in Workers, Success(w)
  PROVE  LET p == <<worker[w].event, Min(worker[w].targets)>>
         IN  /\ DOMAIN events' = DOMAIN events
             /\ \A e \in DOMAIN events :
                   /\ events'[e].delivered = (e = worker[w].event \/ events[e].delivered)
                   /\ events'[e].attempts = events[e].attempts
             /\ p \in EventIds \X SubIds
             /\ acks' = [acks EXCEPT ![p] = @ + 1]
             /\ \A q \in EventIds \X SubIds :
                   acks'[q] = IF q = p THEN acks[q] + 1 ELSE acks[q]
<1> DEFINE e == worker[w].event
           p == <<e, Min(worker[w].targets)>>
<1>1. e \in DOMAIN events /\ p \in EventIds \X SubIds
  BY AnswerOf DEF Success
<1>2. events \in Seq(Event) /\ events[e] \in Event /\ acks \in [EventIds \X SubIds -> Nat]
  BY <1>1 DEF Inv, TypeOK
<1>3. acks' = [acks EXCEPT ![p] = @ + 1]
  BY DEF Success
<1>4. events' = [events EXCEPT ![e].delivered = TRUE]
  BY DEF Success
<1>5. DOMAIN events' = DOMAIN events
  BY <1>4
<1>6. events'[e] = [events[e] EXCEPT !.delivered = TRUE]
  BY <1>1, <1>2, <1>4
<1>7. \A f \in DOMAIN events \ {e} : events'[f] = events[f]
  BY <1>1, <1>2, <1>4
<1>8. events'[e].delivered = TRUE /\ events'[e].attempts = events[e].attempts
  BY <1>2, <1>6 DEF Event
<1>9. \A f \in DOMAIN events :
         /\ events'[f].delivered = (f = e \/ events[f].delivered)
         /\ events'[f].attempts = events[f].attempts
  <2> TAKE f \in DOMAIN events
  <2>0. events[f] \in Event
    BY <1>2
  <2>1. events[f].delivered \in BOOLEAN
    BY <2>0 DEF Event
  <2> QED BY <1>7, <1>8, <2>1
<1>10. \A q \in EventIds \X SubIds : acks'[q] = IF q = p THEN acks[q] + 1 ELSE acks[q]
  BY <1>1, <1>2, <1>3
<1> QED BY <1>1, <1>3, <1>5, <1>9, <1>10

\* What a failed delivery changes in the queue.
LEMMA FailureOf ==
  ASSUME Inv, NEW w \in Workers, Failure(w)
  PROVE  /\ DOMAIN events' = DOMAIN events /\ acks' = acks
         /\ \A e \in DOMAIN events : events'[e].delivered = events[e].delivered
         /\ \A e \in DOMAIN events \ {worker[w].event} :
               events'[e].attempts = events[e].attempts
         /\ events'[worker[w].event].attempts = events[worker[w].event].attempts + 1
<1> DEFINE e == worker[w].event
<1>1. e \in DOMAIN events
  BY AnswerOf DEF Failure
<1>2. events \in Seq(Event) /\ events[e] \in Event
  BY <1>1 DEF Inv, TypeOK
<1>3. events' = [events EXCEPT ![e].attempts = @ + 1]
  BY DEF Failure
<1>4. events'[e] = [events[e] EXCEPT !.attempts = @ + 1]
  BY <1>1, <1>2, <1>3
<1>5. \A f \in DOMAIN events \ {e} : events'[f] = events[f]
  BY <1>1, <1>2, <1>3
<1>6. /\ events'[e].delivered = events[e].delivered
      /\ events'[e].attempts = events[e].attempts + 1
  <2> DEFINE n == events[e].attempts + 1
  <2>1. events'[e] = [events[e] EXCEPT !.attempts = n]
    BY <1>4
  <2> HIDE DEF n
  <2>2. events'[e].delivered = events[e].delivered /\ events'[e].attempts = n
    BY <1>2, <2>1 DEF Event
  <2> QED BY <2>2 DEF n
<1>7. DOMAIN events' = DOMAIN events /\ acks' = acks
  BY <1>3 DEF Failure
<1> QED BY <1>5, <1>6, <1>7

\* Events and subscriptions are kept, in order; only an answer changes an event.
LEMMA RowsStay ==
  ASSUME Inv, Next
  PROVE  DOMAIN events \subseteq DOMAIN events' /\ ForEvent \subseteq ForEvent'
<1>0. events \in Seq(Event) /\ subs \in Seq(BOOLEAN)
  BY DEF Inv, TypeOK
<1>1. DOMAIN events \subseteq DOMAIN events'
  <2>1. ASSUME NEW h \in Handlers, Enqueue(h)
        PROVE  DOMAIN events \subseteq DOMAIN events'
    BY <1>0, <2>1 DEF Enqueue
  <2>2. ASSUME NEW w \in Workers, Success(w) \/ Failure(w)
        PROVE  DOMAIN events \subseteq DOMAIN events'
    BY <2>2, SuccessOf, FailureOf
  <2> QED BY <2>1, <2>2 DEF Next, PassStep, CreateTodo, Subscribe, Tick, TakeEvent,
                            EndPass, Attempt, Exit, Stop
<1>2. ForEvent \subseteq ForEvent'
  <2>1. ASSUME NEW wanted \in BOOLEAN, Subscribe(wanted)
        PROVE  ForEvent \subseteq ForEvent'
    BY <1>0, <2>1 DEF Subscribe, ForEvent
  <2>2. CASE UNCHANGED subs
    BY <2>2 DEF ForEvent
  <2> QED BY <2>1, <2>2 DEF Next, PassStep, CreateTodo, Enqueue, Tick, TakeEvent,
                            EndPass, Attempt, Success, Failure, Exit, Stop
<1> QED BY <1>1, <1>2

LEMMA InHandStep ==
  ASSUME Inv, Next
  PROVE  \A w \in Workers : InHand(w)'
<1>0. TypeOK /\ worker \in [Workers -> Worker] /\ \A w \in Workers : InHand(w)
  BY DEF Inv, TypeOK
<1>1. ASSUME NEW v \in Workers, UNCHANGED worker[v]
      PROVE  InHand(v)'
  BY <1>0, <1>1, RowsStay DEF InHand
<1>2. ASSUME NEW w \in Workers, Tick(w) \/ TakeEvent(w) \/ EndPass(w) \/ Attempt(w) \/ Exit(w)
      PROVE  InHand(w)'
  <2>0. worker[w] \in Worker /\ DOMAIN events' = DOMAIN events /\ ForEvent' = ForEvent
    BY <1>0, <1>2 DEF Tick, TakeEvent, EndPass, Attempt, Exit, ForEvent
  <2>1. CASE Tick(w)
    <3>1. worker'[w] = [worker[w] EXCEPT !.at = "pass", !.batch = Pending]
      BY <1>0, <2>1 DEF Tick
    <3>2. worker[w].targets = {}
      BY <1>0, <2>1 DEF Tick, InHand
    <3> QED BY <2>0, <3>1, <3>2 DEF InHand, Worker, Pending
  <2>2. CASE TakeEvent(w)
    <3>1. worker'[w] = [worker[w] EXCEPT !.event = Min(worker[w].batch),
                            !.batch = @ \ {Min(@)}, !.targets = ForEvent]
      BY <1>0, <2>2 DEF TakeEvent
    <3>2. Min(worker[w].batch) \in worker[w].batch /\ worker[w].at = "pass"
      BY <1>0, <2>2, FirstIsIn DEF TakeEvent
    <3>3. worker[w].batch \subseteq DOMAIN events
      BY <1>0 DEF InHand
    <3>4. /\ worker'[w].at = "pass" /\ worker'[w].targets = ForEvent
          /\ worker'[w].event = Min(worker[w].batch)
          /\ worker'[w].batch = worker[w].batch \ {Min(worker[w].batch)}
      BY <2>0, <3>1, <3>2 DEF Worker
    <3> QED BY <2>0, <3>2, <3>3, <3>4 DEF InHand
  <2>3. CASE EndPass(w)
    BY <1>0, <2>3 DEF EndPass, InHand, Idle
  <2>4. CASE Attempt(w) \/ Exit(w)
    BY <1>0, <2>0, <2>4 DEF Attempt, Exit, InHand, Worker
  <2> QED BY <1>2, <2>1, <2>2, <2>3, <2>4
<1>3. ASSUME NEW w \in Workers, Success(w) \/ Failure(w)
      PROVE  InHand(w)'
  <2>1. NextTarget(w) /\ worker[w].at = "sending"
    BY <1>3 DEF Success, Failure
  <2>2. DOMAIN events' = DOMAIN events /\ ForEvent' = ForEvent
    BY <1>3, SuccessOf, FailureOf DEF Success, Failure, ForEvent
  <2> QED BY <1>0, <2>1, <2>2, WorkerMovesOn DEF InHand
<1>4. ASSUME NEW w \in Workers, Tick(w) \/ PassStep(w) \/ Exit(w)
      PROVE  \A v \in Workers : InHand(v)'
  <2>1. \A v \in Workers \ {w} : worker'[v] = worker[v]
    BY <1>0, <1>4 DEF Tick, PassStep, TakeEvent, EndPass, Attempt, Exit, Success,
        Failure, NextTarget
  <2> QED BY <1>1, <1>2, <1>3, <1>4, <2>1 DEF PassStep
<1>5. CASE UNCHANGED worker
  BY <1>1, <1>5
<1> QED BY <1>4, <1>5 DEF Next, CreateTodo, Enqueue, Subscribe, Stop

\* What a worker may send an event for is still what a 2xx answer is counted for:
\* so an event is delivered exactly if an acknowledgement is on record.
LEMMA DeliveredStep ==
  ASSUME Inv, Next
  PROVE  AcksWereWanted' /\ DeliveredWasAccepted'
<1>0. /\ TypeOK /\ AcksWereWanted /\ DeliveredWasAccepted
      /\ events \in Seq(Event) /\ subs \in Seq(BOOLEAN)
      /\ acks \in [EventIds \X SubIds -> Nat]
      /\ DOMAIN events \subseteq EventIds /\ DOMAIN subs \subseteq SubIds
  BY WebhooksAssumption DEF Inv, TypeOK, EventIds, SubIds
<1>a. ASSUME DOMAIN events \subseteq DOMAIN events', ForEvent \subseteq ForEvent', acks' = acks
      PROVE  AcksWereWanted'
  BY <1>0, <1>a DEF AcksWereWanted
<1>1. ASSUME NEW h \in Handlers, Enqueue(h)
      PROVE  AcksWereWanted' /\ DeliveredWasAccepted'
  <2> DEFINE n == Len(events) + 1
  <2>1. /\ DOMAIN events' = DOMAIN events \cup {n} /\ n \notin DOMAIN events
        /\ \A e \in DOMAIN events : events'[e] = events[e]
        /\ events'[n].delivered = FALSE
        /\ subs' = subs /\ acks' = acks
    BY <1>0, <1>1 DEF Enqueue
  <2>2. n \in EventIds
    <3>1. DOMAIN events' \subseteq EventIds
      BY TypeStep, WebhooksAssumption DEF TypeOK, EventIds
    <3> QED BY <2>1, <3>1
  <2> HIDE DEF n
  <2>3. \A s \in DOMAIN subs : ~ (acks[<<n, s>>] > 0)
    BY <1>0, <2>1, <2>2 DEF AcksWereWanted
  <2>4. DeliveredWasAccepted'
    BY <1>0, <2>1, <2>3 DEF DeliveredWasAccepted
  <2> QED BY <1>a, <2>1, <2>4, RowsStay
<1>2. ASSUME NEW wanted \in BOOLEAN, Subscribe(wanted)
      PROVE  AcksWereWanted' /\ DeliveredWasAccepted'
  <2> DEFINE n == Len(subs) + 1
  <2>1. /\ DOMAIN subs' = DOMAIN subs \cup {n} /\ n \notin DOMAIN subs
        /\ \A s \in DOMAIN subs : subs'[s] = subs[s]
        /\ events' = events /\ acks' = acks
    BY <1>0, <1>2 DEF Subscribe
  <2>2. n \in SubIds
    <3>1. DOMAIN subs' \subseteq SubIds
      BY TypeStep, WebhooksAssumption DEF TypeOK, SubIds
    <3> QED BY <2>1, <3>1
  <2> HIDE DEF n
  <2>3. \A e \in DOMAIN events : ~ (acks[<<e, n>>] > 0)
    BY <1>0, <2>1, <2>2 DEF AcksWereWanted, ForEvent
  <2>4. DeliveredWasAccepted'
    BY <1>0, <2>1, <2>3 DEF DeliveredWasAccepted
  <2> QED BY <1>a, <2>1, <2>4, RowsStay
<1>3. ASSUME NEW w \in Workers, Success(w)
      PROVE  AcksWereWanted' /\ DeliveredWasAccepted'
  <2> DEFINE e == worker[w].event
             t == Min(worker[w].targets)
  <2>1. /\ e \in DOMAIN events /\ t \in ForEvent /\ subs' = subs
        /\ t \in DOMAIN subs /\ subs[t]
    BY <1>3, AnswerOf DEF Success, ForEvent
  <2>2. /\ DOMAIN events' = DOMAIN events
        /\ \A f \in DOMAIN events :
              events'[f].delivered = (f = e \/ events[f].delivered)
        /\ \A q \in EventIds \X SubIds :
              acks'[q] = IF q = <<e, t>> THEN acks[q] + 1 ELSE acks[q]
    BY <1>3, SuccessOf
  <2>3. \A q \in EventIds \X SubIds : acks[q] \in Nat
    BY <1>0
  <2> HIDE DEF e, t
  <2>4. AcksWereWanted'
    BY <1>0, <2>1, <2>2 DEF AcksWereWanted, ForEvent
  <2>5. \A f \in DOMAIN events, s \in DOMAIN subs :
           acks'[<<f, s>>] > 0 <=> (f = e /\ s = t) \/ acks[<<f, s>>] > 0
    BY <1>0, <2>2, <2>3
  <2>6. ASSUME NEW f \in DOMAIN events
        PROVE  events'[f].delivered <=> \E s \in DOMAIN subs : subs[s] /\ acks'[<<f, s>>] > 0
    BY <1>0, <2>1, <2>2, <2>5 DEF DeliveredWasAccepted
  <2>7. DeliveredWasAccepted'
    BY <2>1, <2>2, <2>6 DEF DeliveredWasAccepted
  <2> QED BY <2>4, <2>7
<1>4. ASSUME NEW w \in Workers, Failure(w)
      PROVE  AcksWereWanted' /\ DeliveredWasAccepted'
  <2>1. UNCHANGED <<subs, acks>> /\ DOMAIN events' = DOMAIN events
    BY <1>4, FailureOf DEF Failure
  <2>2. \A e \in DOMAIN events : events'[e].delivered = events[e].delivered
    BY <1>4, FailureOf
  <2>3. DeliveredWasAccepted'
    BY <1>0, <2>1, <2>2 DEF DeliveredWasAccepted
  <2> QED BY <1>a, <2>1, <2>3, RowsStay
<1>5. CASE UNCHANGED <<events, subs, acks>>
  BY <1>0, <1>5 DEF AcksWereWanted, DeliveredWasAccepted, ForEvent
<1> QED BY <1>1, <1>2, <1>3, <1>4, <1>5
        DEF Next, PassStep, CreateTodo, Tick, TakeEvent, EndPass, Attempt, Exit, Stop

\* The counter of attempts and the outcomes go up together.
LEMMA AttemptsStep ==
  ASSUME Inv, Next
  PROVE  CountsFinite' /\ AttemptsAccounted'
<1>0. /\ TypeOK /\ CountsFinite /\ AttemptsAccounted
      /\ events \in Seq(Event) /\ worker \in [Workers -> Worker]
      /\ acks \in [EventIds \X SubIds -> Nat] /\ deliveryAttempts \in Nat
  BY DEF Inv, TypeOK
<1>1. AttemptsOf \in [DOMAIN events -> Nat]
  <2>1. \A e \in DOMAIN events : events[e] \in Event
    BY <1>0
  <2>2. \A e \in DOMAIN events : events[e].attempts \in Nat
    BY <2>1 DEF Event
  <2> QED BY <2>2 DEF AttemptsOf
<1>2. IsFiniteSet(Sending) /\ Cardinality(Sending) \in Nat
  BY WebhooksAssumption, FS_Subset, FS_CardinalityType DEF Sending
<1>3. /\ Cardinality(Units(AttemptsOf)) \in Nat /\ Cardinality(Units(acks)) \in Nat
      /\ deliveryAttempts = Cardinality(Units(AttemptsOf)) + Cardinality(Units(acks))
                                + Cardinality(Sending)
  BY <1>0, FailuresAre, FS_CardinalityType DEF CountsFinite, AttemptsAccounted
<1>4. Failures' = Cardinality(Units(AttemptsOf'))
  BY Zenon DEF Failures, AttemptsOf
<1>a. ASSUME Units(AttemptsOf') = Units(AttemptsOf), acks' = acks,
             Sending' = Sending, deliveryAttempts' = deliveryAttempts
      PROVE  CountsFinite' /\ AttemptsAccounted'
  BY <1>0, <1>3, <1>4, <1>a DEF CountsFinite, AttemptsAccounted
<1>b. ASSUME events' = events
      PROVE  AttemptsOf' = AttemptsOf
  BY <1>b DEF AttemptsOf
<1>5. ASSUME NEW h \in Handlers, Enqueue(h)
      PROVE  CountsFinite' /\ AttemptsAccounted'
  <2> DEFINE n == Len(events) + 1
  <2>1. /\ DOMAIN events' = DOMAIN events \cup {n} /\ n \notin DOMAIN events
        /\ \A e \in DOMAIN events : events'[e] = events[e]
        /\ events'[n].attempts = 0
        /\ UNCHANGED <<acks, worker, deliveryAttempts>>
    BY <1>0, <1>5 DEF Enqueue
  <2> HIDE DEF n
  <2>2. /\ DOMAIN AttemptsOf' = DOMAIN AttemptsOf \cup {n} /\ AttemptsOf'[n] = 0
        /\ \A e \in DOMAIN AttemptsOf : AttemptsOf'[e] = AttemptsOf[e]
    BY <2>1 DEF AttemptsOf
  <2>3. Units(AttemptsOf') = Units(AttemptsOf)
    <3>1. {n} \X (1..0) = {}
      OBVIOUS
    <3> QED BY <2>2, <3>1 DEF Units
  <2>4. Sending' = Sending
    BY <2>1 DEF Sending
  <2> QED BY <1>a, <2>1, <2>3, <2>4
<1>6. ASSUME NEW w \in Workers, Attempt(w)
      PROVE  CountsFinite' /\ AttemptsAccounted'
  <2>1. /\ UNCHANGED <<events, acks>> /\ deliveryAttempts' = deliveryAttempts + 1
        /\ worker[w].at = "pass" /\ worker[w] \in Worker
        /\ worker'[w] = [worker[w] EXCEPT !.at = "sending"]
        /\ \A v \in Workers \ {w} : worker'[v] = worker[v]
    BY <1>0, <1>6 DEF Attempt
  <2>2. worker'[w].at = "sending"
    BY <2>1 DEF Worker
  <2>3. Sending' = Sending \cup {w} /\ w \notin Sending
    BY <2>1, <2>2 DEF Sending
  <2>4. Cardinality(Sending') = Cardinality(Sending) + 1
    BY <1>2, <2>3, FS_AddElement
  <2> QED BY <1>0, <1>2, <1>3, <1>4, <1>b, <2>1, <2>4 DEF CountsFinite, AttemptsAccounted
<1>7. ASSUME NEW w \in Workers, Success(w) \/ Failure(w)
      PROVE  CountsFinite' /\ AttemptsAccounted'
  <2>1. /\ \A v \in Workers \ {w} : worker'[v] = worker[v]
        /\ worker'[w].at = "pass" /\ worker[w].at = "sending"
        /\ deliveryAttempts' = deliveryAttempts
    BY <1>0, <1>7, WorkerMovesOn DEF Success, Failure
  <2>2. Sending' = Sending \ {w} /\ w \in Sending
    BY <2>1 DEF Sending
  <2>3. Cardinality(Sending') = Cardinality(Sending) - 1
    BY <1>2, <2>2, FS_RemoveElement
  <2>4. CASE Success(w)
    <3> DEFINE p == <<worker[w].event, Min(worker[w].targets)>>
    <3>1. /\ p \in EventIds \X SubIds /\ acks' = [acks EXCEPT ![p] = @ + 1]
          /\ DOMAIN events' = DOMAIN events
          /\ \A e \in DOMAIN events : events'[e].attempts = events[e].attempts
      BY <2>4, SuccessOf
    <3>2. AttemptsOf' = AttemptsOf
      BY <3>1 DEF AttemptsOf
    <3> HIDE DEF p
    <3>3. /\ IsFiniteSet(Units(acks'))
          /\ Cardinality(Units(acks')) = Cardinality(Units(acks)) + 1
      BY <1>0, <3>1, UnitsGrow DEF CountsFinite
    <3> QED BY <1>0, <1>2, <1>3, <1>4, <2>1, <2>3, <3>2, <3>3
            DEF CountsFinite, AttemptsAccounted
  <2>5. CASE Failure(w)
    <3> DEFINE e == worker[w].event
    <3>1. e \in DOMAIN events /\ acks' = acks
      BY <2>5, AnswerOf, FailureOf DEF Failure
    <3>2. AttemptsOf' = [AttemptsOf EXCEPT ![e] = @ + 1]
      BY <2>5, <3>1, FailureOf DEF AttemptsOf
    <3>3. /\ IsFiniteSet(Units(AttemptsOf'))
          /\ Cardinality(Units(AttemptsOf')) = Cardinality(Units(AttemptsOf)) + 1
      BY <1>0, <1>1, <3>1, <3>2, UnitsGrow DEF CountsFinite
    <3> QED BY <1>0, <1>2, <1>3, <1>4, <2>1, <2>3, <3>1, <3>3
            DEF CountsFinite, AttemptsAccounted
  <2> QED BY <1>7, <2>4, <2>5
<1>8. ASSUME NEW w \in Workers, Tick(w) \/ TakeEvent(w) \/ EndPass(w) \/ Exit(w)
      PROVE  CountsFinite' /\ AttemptsAccounted'
  <2>1. UNCHANGED <<events, acks, deliveryAttempts>>
    BY <1>8 DEF Tick, TakeEvent, EndPass, Exit
  <2>2. /\ \A v \in Workers \ {w} : worker'[v] = worker[v]
        /\ worker[w].at # "sending" /\ worker[w] \in Worker
    BY <1>0, <1>8 DEF Tick, TakeEvent, EndPass, Exit
  <2>3. worker'[w].at # "sending"
    BY <1>0, <1>8, <2>2 DEF Tick, TakeEvent, EndPass, Exit, Worker, Idle
  <2>4. Sending' = Sending
    BY <2>2, <2>3 DEF Sending
  <2> QED BY <1>a, <1>b, <2>1, <2>4
<1>9. CASE UNCHANGED <<events, acks, worker, deliveryAttempts>>
  BY <1>a, <1>b, <1>9 DEF Sending
<1> QED BY <1>5, <1>6, <1>7, <1>8, <1>9 DEF Next, PassStep, CreateTodo, Subscribe, Stop

\* An acknowledgement costs the worker what it held: the sum of acknowledgements
\* and workers that may send the event again does not grow.
LEMMA RoomStep ==
  ASSUME Inv, Next
  PROVE  AcksLeaveRoom'
<1>0. /\ TypeOK /\ AcksLeaveRoom /\ AcksWereWanted /\ DeliveredWasAccepted
      /\ events \in Seq(Event) /\ worker \in [Workers -> Worker]
      /\ acks \in [EventIds \X SubIds -> Nat]
      /\ DOMAIN events \subseteq EventIds /\ DOMAIN subs \subseteq SubIds
  BY WebhooksAssumption DEF Inv, TypeOK, EventIds, SubIds
<1>1. \A e, s : /\ IsFiniteSet(Holding(e, s)) /\ Cardinality(Holding(e, s)) \in Nat
                /\ Cardinality(Holding(e, s)) <= Cardinality(Workers)
                /\ IsFiniteSet(Holding(e, s)') /\ Cardinality(Holding(e, s)') \in Nat
                /\ Cardinality(Holding(e, s)') <= Cardinality(Workers)
  BY WebhooksAssumption, FS_Subset, FS_CardinalityType DEF Holding
<1>2. Cardinality(Workers) \in Nat
  BY WebhooksAssumption, FS_CardinalityType
\* An event that is not delivered has no acknowledgement.
<1>3. \A e \in DOMAIN events, s \in SubIds : ~ events[e].delivered => acks[<<e, s>>] = 0
  <2> SUFFICES ASSUME NEW e \in DOMAIN events, NEW s \in SubIds, acks[<<e, s>>] # 0
               PROVE  events[e].delivered
    OBVIOUS
  <2>1. acks[<<e, s>>] > 0
    BY <1>0
  <2> QED BY <1>0, <2>1 DEF AcksWereWanted, DeliveredWasAccepted, ForEvent
\* Delivered events are the same, and fewer workers hold them.
<1>a. ASSUME UNCHANGED acks, DOMAIN events' = DOMAIN events,
             \A e \in DOMAIN events : events'[e].delivered = events[e].delivered,
             \A e \in DOMAIN events, s \in SubIds :
                events[e].delivered => Holding(e, s)' \subseteq Holding(e, s)
      PROVE  AcksLeaveRoom'
  <2> SUFFICES ASSUME NEW e \in DOMAIN events, NEW s \in SubIds, events[e].delivered
               PROVE  acks[<<e, s>>] + Cardinality(Holding(e, s)') <= Cardinality(Workers)
    BY <1>a DEF AcksLeaveRoom
  <2>1. Cardinality(Holding(e, s)') <= Cardinality(Holding(e, s))
    BY <1>1, <1>a, FS_Subset
  <2>2. acks[<<e, s>>] \in Nat
    BY <1>0
  <2>3. acks[<<e, s>>] + Cardinality(Holding(e, s)) <= Cardinality(Workers)
    BY <1>0 DEF AcksLeaveRoom
  <2> QED BY <1>1, <1>2, <2>1, <2>2, <2>3
<1>4. ASSUME NEW h \in Handlers, Enqueue(h)
      PROVE  AcksLeaveRoom'
  <2>1. /\ \A e \in DOMAIN events' : events'[e].delivered =>
              e \in DOMAIN events /\ events[e].delivered
        /\ UNCHANGED <<acks, worker>>
    BY <1>0, <1>4 DEF Enqueue
  <2>2. \A e, s : Holding(e, s)' = Holding(e, s)
    BY <2>1 DEF Holding
  <2> QED BY <1>0, <2>1, <2>2 DEF AcksLeaveRoom
<1>5. ASSUME NEW w \in Workers, Tick(w) \/ TakeEvent(w) \/ EndPass(w) \/ Attempt(w) \/ Exit(w)
      PROVE  AcksLeaveRoom'
  <2>0. /\ worker[w] \in Worker /\ InHand(w) /\ UNCHANGED <<events, acks>>
        /\ \A v \in Workers \ {w} : worker'[v] = worker[v]
    BY <1>0, <1>5 DEF Inv, Tick, TakeEvent, EndPass, Attempt, Exit
  <2>1. ASSUME NEW e \in DOMAIN events, NEW s \in SubIds, events[e].delivered,
               w \in Holding(e, s)'
        PROVE  w \in Holding(e, s)
    <3>1. CASE Tick(w)
      <4>1. worker'[w] = [worker[w] EXCEPT !.at = "pass", !.batch = Pending]
        BY <1>0, <3>1 DEF Tick
      <4>2. /\ worker'[w].batch = Pending /\ worker'[w].event = worker[w].event
            /\ worker'[w].targets = worker[w].targets
        BY <2>0, <4>1 DEF Worker
      <4> QED BY <2>1, <4>2 DEF Holding, Pending
    <3>2. CASE TakeEvent(w)
      <4>1. worker'[w] = [worker[w] EXCEPT !.event = Min(worker[w].batch),
                              !.batch = @ \ {Min(@)}, !.targets = ForEvent]
        BY <1>0, <3>2 DEF TakeEvent
      <4>2. /\ worker'[w].event = Min(worker[w].batch)
            /\ worker'[w].batch = worker[w].batch \ {Min(worker[w].batch)}
        BY <2>0, <4>1 DEF Worker
      <4>3. Min(worker[w].batch) \in worker[w].batch
        BY <1>0, <3>2, FirstIsIn DEF TakeEvent
      <4> QED BY <2>1, <4>2, <4>3 DEF Holding
    <3>3. CASE EndPass(w)
      BY <1>0, <2>1, <3>3 DEF EndPass, Idle, Holding
    <3>4. CASE Attempt(w) \/ Exit(w)
      <4>1. /\ worker'[w].batch = worker[w].batch /\ worker'[w].event = worker[w].event
            /\ worker'[w].targets = worker[w].targets
        BY <1>0, <2>0, <3>4 DEF Attempt, Exit, Worker
      <4> QED BY <2>1, <4>1 DEF Holding
    <3> QED BY <1>5, <3>1, <3>2, <3>3, <3>4
  <2>2. \A e \in DOMAIN events, s \in SubIds :
           events[e].delivered => Holding(e, s)' \subseteq Holding(e, s)
    BY <2>0, <2>1 DEF Holding
  <2> QED BY <1>a, <2>0, <2>2
<1>6. ASSUME NEW w \in Workers, Success(w)
      PROVE  AcksLeaveRoom'
  <2>0. PICK d \in EventIds, t \in SubIds :
           d = worker[w].event /\ t = Min(worker[w].targets)
    BY <1>6, AnswerOf DEF Success
  <2>1. d \in DOMAIN events /\ t \in worker[w].targets /\ d \notin worker[w].batch
    BY <1>6, <2>0, AnswerOf DEF Success
  <2>2. /\ DOMAIN events' = DOMAIN events
        /\ \A e \in DOMAIN events :
              events'[e].delivered = (e = d \/ events[e].delivered)
        /\ \A q \in EventIds \X SubIds :
              acks'[q] = IF q = <<d, t>> THEN acks[q] + 1 ELSE acks[q]
    BY <1>6, <2>0, SuccessOf
  <2>3. /\ \A v \in Workers \ {w} : worker'[v] = worker[v]
        /\ worker'[w].batch = worker[w].batch /\ worker'[w].event = d
        /\ worker'[w].targets = worker[w].targets \ {t}
    BY <1>0, <1>6, <2>0, WorkerMovesOn DEF Success
  <2>4. \A e, s : Holding(e, s)' \subseteq Holding(e, s)
    BY <2>0, <2>1, <2>3 DEF Holding
  <2>5. w \in Holding(d, t) /\ w \notin Holding(d, t)'
    BY <2>0, <2>1, <2>3 DEF Holding
  <2> SUFFICES ASSUME NEW e \in DOMAIN events, NEW s \in SubIds, events'[e].delivered
               PROVE  acks'[<<e, s>>] + Cardinality(Holding(e, s)') <= Cardinality(Workers)
    BY <2>2 DEF AcksLeaveRoom
  <2>6. acks[<<e, s>>] \in Nat /\ <<e, s>> \in EventIds \X SubIds
    BY <1>0
  <2>7. acks[<<e, s>>] + Cardinality(Holding(e, s)) <= Cardinality(Workers)
    <3>1. CASE events[e].delivered
      BY <1>0, <3>1 DEF AcksLeaveRoom
    <3>2. CASE ~ events[e].delivered
      BY <1>1, <1>2, <1>3, <3>2
    <3> QED BY <3>1, <3>2
  <2>8. CASE e = d /\ s = t
    <3>1. Holding(d, t)' \subseteq Holding(d, t) \ {w}
      BY <2>4, <2>5
    <3>2. /\ IsFiniteSet(Holding(d, t) \ {w})
          /\ Cardinality(Holding(d, t) \ {w}) = Cardinality(Holding(d, t)) - 1
      BY <1>1, <2>5, FS_RemoveElement
    <3>3. Cardinality(Holding(d, t)') <= Cardinality(Holding(d, t)) - 1
      BY <3>1, <3>2, FS_Subset
    <3>4. acks'[<<e, s>>] = acks[<<e, s>>] + 1
      BY <2>2, <2>6, <2>8
    <3> QED BY <1>1, <1>2, <2>6, <2>7, <2>8, <3>3, <3>4
  <2>9. CASE ~ (e = d /\ s = t)
    <3>1. Cardinality(Holding(e, s)') <= Cardinality(Holding(e, s))
      BY <1>1, <2>4, FS_Subset
    <3>2. acks'[<<e, s>>] = acks[<<e, s>>]
      BY <2>2, <2>6, <2>9
    <3> QED BY <1>1, <1>2, <2>6, <2>7, <3>1, <3>2
  <2> QED BY <2>8, <2>9
<1>7. ASSUME NEW w \in Workers, Failure(w)
      PROVE  AcksLeaveRoom'
  <2>1. /\ UNCHANGED acks /\ DOMAIN events' = DOMAIN events
        /\ \A e \in DOMAIN events : events'[e].delivered = events[e].delivered
    BY <1>7, FailureOf
  <2>2. /\ \A v \in Workers \ {w} : worker'[v] = worker[v]
        /\ worker'[w].batch = worker[w].batch /\ worker'[w].event = worker[w].event
        /\ worker'[w].targets \subseteq worker[w].targets
    BY <1>0, <1>7, WorkerMovesOn DEF Failure
  <2>3. \A e, s : Holding(e, s)' \subseteq Holding(e, s)
    BY <2>2 DEF Holding
  <2> QED BY <1>a, <2>1, <2>3
<1>8. CASE UNCHANGED <<events, acks, worker>>
  <2>1. \A e, s : Holding(e, s)' = Holding(e, s)
    BY <1>8 DEF Holding
  <2> QED BY <1>0, <1>8, <2>1 DEF AcksLeaveRoom
<1> QED BY <1>4, <1>5, <1>6, <1>7, <1>8 DEF Next, PassStep, CreateTodo, Subscribe, Stop

-----------------------------------------------------------------------------
(* Theorems *)

LEMMA NextInv == Inv /\ [Next]_vars => Inv'
<1> SUFFICES ASSUME Inv, [Next]_vars PROVE Inv'
  OBVIOUS
<1>1. CASE Next
  BY <1>1, TypeStep, TodosOnceStep, InHandStep, DeliveredStep, AttemptsStep, RoomStep DEF Inv
<1>2. CASE UNCHANGED vars
  <2> USE <1>2 DEF vars
  <2>1. TypeOK' /\ TodosOnce'
    BY DEF Inv, TypeOK, TodosOnce
  <2>2. AttemptsOf' = AttemptsOf /\ Failures' = Failures /\ Sending' = Sending
        /\ ForEvent' = ForEvent
    BY DEF AttemptsOf, Failures, Sending, ForEvent
  <2>3. (\A w \in Workers : InHand(w))' /\ AcksWereWanted' /\ DeliveredWasAccepted'
    BY <2>2 DEF Inv, InHand, AcksWereWanted, DeliveredWasAccepted
  <2>4. CountsFinite' /\ AttemptsAccounted'
    BY <2>2 DEF Inv, CountsFinite, AttemptsAccounted
  <2>5. \A e, s : Holding(e, s)' = Holding(e, s)
    BY DEF Holding
  <2>6. AcksLeaveRoom'
    BY <2>5 DEF Inv, AcksLeaveRoom
  <2> QED BY <2>1, <2>3, <2>4, <2>6 DEF Inv
<1> QED BY <1>1, <1>2

\* Inv is inductive.
THEOREM WebhooksInductive == Spec => []Inv
BY InitInv, NextInv, PTL DEF Spec

\* Types, for every number of handlers, workers, todos and subscriptions: in
\* particular the queue of ch35 never holds more events than todos were made.
THEOREM WebhooksTyped == Spec => []TypeOK
<1>1. Inv => TypeOK
  BY DEF Inv
<1> QED BY <1>1, WebhooksInductive, PTL

\* Every todo of POST /todos is announced by one event and no more.
THEOREM TodosAnnounced == Spec => []EveryTodoAnnounced
<1>1. ASSUME Inv PROVE EveryTodoAnnounced
  <2> SUFFICES ASSUME NEW t \in 1..todos
               PROVE  Cardinality({e \in DOMAIN events : events[e].todo = t})
                        + Cardinality({h \in Handlers : handling[h] = t}) = 1
    BY DEF EveryTodoAnnounced
  <2> DEFINE E == {e \in DOMAIN events : events[e].todo = t}
             H == {h \in Handlers : handling[h] = t}
  <2>0. TodosOnce /\ t # 0
    BY <1>1 DEF Inv, TypeOK
  <2>1. CASE \E e \in DOMAIN events : events[e].todo = t
    <3>1. PICK e \in DOMAIN events : events[e].todo = t
      BY <2>1
    <3>2. E = {e} /\ H = {}
      BY <2>0, <3>1 DEF TodosOnce
    <3> HIDE DEF E, H
    <3>3. Cardinality(E) = 1 /\ Cardinality(H) = 0
      BY <3>2, FS_Singleton, FS_EmptySet
    <3> QED BY <3>3 DEF E, H
  <2>2. CASE \E h \in Handlers : handling[h] = t
    <3>1. PICK h \in Handlers : handling[h] = t
      BY <2>2
    <3>2. H = {h} /\ E = {}
      BY <2>0, <3>1 DEF TodosOnce
    <3> HIDE DEF E, H
    <3>3. Cardinality(H) = 1 /\ Cardinality(E) = 0
      BY <3>2, FS_Singleton, FS_EmptySet
    <3> QED BY <3>3 DEF E, H
  <2> QED BY <2>0, <2>1, <2>2 DEF TodosOnce
<1> QED BY <1>1, WebhooksInductive, PTL

\* An event leaves the queue of ch35 only for a 2xx answer that somebody who
\* wanted it gave, and the counter of attempts is the sum of their outcomes.
THEOREM DeliveriesCounted == Spec => []DeliveriesAccounted
<1>1. Inv => DeliveriesAccounted
  BY DEF Inv, DeliveriesAccounted
<1> QED BY <1>1, WebhooksInductive, PTL

\* However many workers run on the queue and however old their snapshots are,
\* each of them is acknowledged at most once for an event and a subscription.
THEOREM WorkersAcknowledgedOnce == Spec => []AcknowledgedOnce
<1>1. ASSUME Inv PROVE AcknowledgedOnce
  <2> SUFFICES ASSUME NEW e \in EventIds, NEW s \in SubIds
               PROVE  acks[<<e, s>>] <= Cardinality(Workers)
    <3>1. DOMAIN acks = EventIds \X SubIds
      BY <1>1 DEF Inv, TypeOK
    <3> QED BY <3>1 DEF AcknowledgedOnce
  <2>1. acks[<<e, s>>] \in Nat /\ Cardinality(Workers) \in Nat
    BY <1>1, WebhooksAssumption, FS_CardinalityType DEF Inv, TypeOK
  <2>2. CASE acks[<<e, s>>] > 0
    <3>1. e \in DOMAIN events /\ s \in ForEvent
      BY <1>1, <2>2 DEF Inv, AcksWereWanted
    <3>2. events[e].delivered
      BY <1>1, <2>2, <3>1 DEF Inv, DeliveredWasAccepted, ForEvent
    <3>3. acks[<<e, s>>] + Cardinality(Holding(e, s)) <= Cardinality(Workers)
      BY <1>1, <3>1, <3>2 DEF Inv, AcksLeaveRoom
    <3>4. Cardinality(Holding(e, s)) \in Nat
      BY WebhooksAssumption, FS_Subset, FS_CardinalityType DEF Holding
    <3> QED BY <2>1, <3>3, <3>4
  <2> QED BY <2>1, <2>2
<1> QED BY <1>1, WebhooksInductive, PTL

=============================================================================
