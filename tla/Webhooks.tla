------------------------------ MODULE Webhooks ------------------------------
(***************************************************************************)
(* ch35_server_webhooks: POST /todos stores a todo and then queues an      *)
(* event; a background worker delivers pending events to the subscriptions *)
(* that ask for them.  Each lock-protected method is one action, and so is *)
(* each half of an HTTP delivery.  Refused requests change nothing and are *)
(* left out.                                                               *)
(***************************************************************************)
EXTENDS Integers, Sequences, FiniteSets, FiniteSetsExt

CONSTANTS
    Handlers,     \* goroutines serving POST /todos
    Workers,      \* goroutines running ProcessOnce on the one queue
    MaxTodos,     \* bound: todos created
    MaxSubs,      \* bound: subscriptions created
    MaxFailures   \* bound: deliveries that fail, over all

ASSUME WebhooksAssumption ==
    /\ IsFiniteSet(Workers)
    /\ MaxTodos \in Nat /\ MaxSubs \in Nat /\ MaxFailures \in Nat

VARIABLES
    todos,      \* TodoStore: todos 1..todos exist
    handling,   \* handling[h]: the todo created and not yet announced, or 0
    events,     \* EventQueue.events; the ID of an event is its index
    subs,       \* SubscriptionStore.subs: does each want "todo.created"?
    worker,     \* worker[w]: what the goroutine is doing
    stopped,    \* has Stop closed the done channel?
    deliveryAttempts,  \* the DeliveryAttempts counter
    acks        \* history: acks[<<e, s>>] = 2xx answers seen for event e from s

vars == <<todos, handling, events, subs, worker, stopped, deliveryAttempts, acks>>

Event == [todo : 1..MaxTodos, attempts : Nat, delivered : BOOLEAN]

EventIds == 1..MaxTodos
SubIds == 1..MaxSubs

\* The events and the subscriptions still to do are in the order of their IDs.
Worker == [at : {"idle", "pass", "sending", "exited"},
           batch : SUBSET EventIds, event : 0..MaxTodos, targets : SUBSET SubIds]

Idle == [at |-> "idle", batch |-> {}, event |-> 0, targets |-> {}]

TypeOK ==
    /\ todos \in 0..MaxTodos
    /\ handling \in [Handlers -> 0..MaxTodos]
    /\ events \in Seq(Event) /\ Len(events) <= todos
    /\ subs \in Seq(BOOLEAN) /\ Len(subs) <= MaxSubs
    /\ worker \in [Workers -> Worker]
    /\ stopped \in BOOLEAN
    /\ deliveryAttempts \in Nat
    /\ acks \in [EventIds \X SubIds -> Nat]

Init ==
    /\ todos = 0
    /\ handling = [h \in Handlers |-> 0]
    /\ events = <<>>
    /\ subs = <<>>
    /\ worker = [w \in Workers |-> Idle]
    /\ stopped = FALSE
    /\ deliveryAttempts = 0
    /\ acks = [p \in EventIds \X SubIds |-> 0]

-----------------------------------------------------------------------------
(* The two routes. *)

\* POST /todos, first half: TodoStore.Create.
CreateTodo(h) ==
    /\ handling[h] = 0
    /\ todos < MaxTodos
    /\ todos' = todos + 1
    /\ handling' = [handling EXCEPT ![h] = todos + 1]
    /\ UNCHANGED <<events, subs, worker, stopped, deliveryAttempts, acks>>

\* Mutation of Enqueue: announces the latest todo instead of its own.
EnqueueLatest(h) ==
    /\ handling[h] # 0
    /\ events' = Append(events,
           [todo |-> todos, attempts |-> 0, delivered |-> FALSE])
    /\ handling' = [handling EXCEPT ![h] = 0]
    /\ UNCHANGED <<todos, subs, worker, stopped, deliveryAttempts, acks>>

\* POST /todos, second half: EventQueue.Enqueue, then 201.
Enqueue(h) ==
    /\ handling[h] # 0
    /\ events' = Append(events,
           [todo |-> handling[h], attempts |-> 0, delivered |-> FALSE])
    /\ handling' = [handling EXCEPT ![h] = 0]
    /\ UNCHANGED <<todos, subs, worker, stopped, deliveryAttempts, acks>>

\* POST /webhooks/subscriptions: SubscriptionStore.Create.
Subscribe(wanted) ==
    /\ Len(subs) < MaxSubs
    /\ subs' = Append(subs, wanted)
    /\ UNCHANGED <<todos, handling, events, worker, stopped, deliveryAttempts, acks>>

-----------------------------------------------------------------------------
(* The worker. *)

\* Mutation of Pending: an event that failed once is given up.
PendingOnce ==
    {e \in DOMAIN events : ~events[e].delivered /\ events[e].attempts = 0}

\* Mutation of Pending: delivered events are not filtered out.
PendingAll == DOMAIN events

\* EventQueue.Pending, a snapshot of the queue.
Pending == {e \in DOMAIN events : ~events[e].delivered}

\* SubscriptionStore.ForEvent, a snapshot of the subscriptions.
ForEvent == {s \in DOMAIN subs : subs[s]}

\* The ticker fires and ProcessOnce asks for the pending events.
Tick(w) ==
    /\ worker[w].at = "idle"
    /\ Pending # {}
    /\ worker' = [worker EXCEPT ![w].at = "pass", ![w].batch = Pending]
    /\ UNCHANGED <<todos, handling, events, subs, stopped, deliveryAttempts, acks>>

\* deliver starts on the next event of the snapshot.
TakeEvent(w) ==
    /\ worker[w].at = "pass" /\ worker[w].targets = {} /\ worker[w].batch # {}
    /\ worker' = [worker EXCEPT ![w].event = Min(worker[w].batch),
                                ![w].batch = @ \ {Min(@)},
                                ![w].targets = ForEvent]
    /\ UNCHANGED <<todos, handling, events, subs, stopped, deliveryAttempts, acks>>

EndPass(w) ==
    /\ worker[w].at = "pass" /\ worker[w].targets = {} /\ worker[w].batch = {}
    /\ worker' = [worker EXCEPT ![w] = Idle]
    /\ UNCHANGED <<todos, handling, events, subs, stopped, deliveryAttempts, acks>>

\* The attempt is counted and the request goes out, without the lock.
Attempt(w) ==
    /\ worker[w].at = "pass" /\ worker[w].targets # {}
    /\ deliveryAttempts' = deliveryAttempts + 1
    /\ worker' = [worker EXCEPT ![w].at = "sending"]
    /\ UNCHANGED <<todos, handling, events, subs, stopped, acks>>

NextTarget(w) ==
    worker' = [worker EXCEPT ![w].at = "pass", ![w].targets = @ \ {Min(@)}]

\* A 2xx answer: markDelivered.
Success(w) ==
    LET e == worker[w].event
        s == Min(worker[w].targets)
    IN  /\ worker[w].at = "sending"
        /\ events' = [events EXCEPT ![e].delivered = TRUE]
        /\ acks' = [acks EXCEPT ![<<e, s>>] = @ + 1]
        /\ NextTarget(w)
        /\ UNCHANGED <<todos, handling, subs, stopped, deliveryAttempts>>

\* As many elements as the sum of the values of f.
Units(f) == UNION {{x} \X (1..f[x]) : x \in DOMAIN f}

Failures == Cardinality(Units([e \in DOMAIN events |-> events[e].attempts]))

\* Mutation of Failure: any answer at all marks the event delivered.
FailureMarks(w) ==
    /\ worker[w].at = "sending"
    /\ Failures < MaxFailures
    /\ events' = [events EXCEPT ![worker[w].event].delivered = TRUE]
    /\ NextTarget(w)
    /\ UNCHANGED <<todos, handling, subs, stopped, deliveryAttempts, acks>>

\* Mutation of Failure: a failed event is put back into the queue.
FailureRequeues(w) ==
    /\ worker[w].at = "sending"
    /\ Failures < MaxFailures
    /\ events' = Append(events, [events[worker[w].event] EXCEPT !.attempts = @ + 1])
    /\ NextTarget(w)
    /\ UNCHANGED <<todos, handling, subs, stopped, deliveryAttempts, acks>>

\* Any other answer, no answer within 5 s, or an answer that got lost:
\* incrementAttempts.  The subscriber may have seen the event all the same.
Failure(w) ==
    /\ worker[w].at = "sending"
    /\ Failures < MaxFailures
    /\ events' = [events EXCEPT ![worker[w].event].attempts = @ + 1]
    /\ NextTarget(w)
    /\ UNCHANGED <<todos, handling, subs, stopped, deliveryAttempts, acks>>

Stop ==
    /\ ~stopped
    /\ stopped' = TRUE
    /\ UNCHANGED <<todos, handling, events, subs, worker, deliveryAttempts, acks>>

\* Mutation of Exit: the worker leaves only once the queue is empty.
ExitDrained(w) ==
    /\ stopped
    /\ worker[w].at = "idle" /\ Pending = {}
    /\ worker' = [worker EXCEPT ![w].at = "exited"]
    /\ UNCHANGED <<todos, handling, events, subs, stopped, deliveryAttempts, acks>>

\* run's select takes the done case; with a tick due too it may also tick.
Exit(w) ==
    /\ stopped
    /\ worker[w].at = "idle"
    /\ worker' = [worker EXCEPT ![w].at = "exited"]
    /\ UNCHANGED <<todos, handling, events, subs, stopped, deliveryAttempts, acks>>

\* One step of a pass that is under way.
PassStep(w) ==
    TakeEvent(w) \/ EndPass(w) \/ Attempt(w) \/ Success(w) \/ Failure(w)

Next ==
    \/ \E h \in Handlers : CreateTodo(h) \/ Enqueue(h)
    \/ \E wanted \in BOOLEAN : Subscribe(wanted)
    \/ \E w \in Workers : Tick(w) \/ PassStep(w) \/ Exit(w)
    \/ Stop

Spec == Init /\ [][Next]_vars

\* Handlers finish, the ticker keeps ticking, a request ends within the 5 s of
\* the client, and select takes a ready done case sooner or later.
FairSpec ==
    /\ Spec
    /\ \A h \in Handlers : WF_vars(Enqueue(h))
    /\ \A w \in Workers : WF_vars(Tick(w)) /\ WF_vars(PassStep(w)) /\ SF_vars(Exit(w))

-----------------------------------------------------------------------------
(* Properties *)

Sending == {w \in Workers : worker[w].at = "sending"}

\* Every delivery attempt the counter counts has one outcome on record: a 2xx
\* answer, an increment of Attempts, or it is still on the wire.
AttemptsAccounted ==
    deliveryAttempts = Failures + Cardinality(Units(acks)) + Cardinality(Sending)

\* Every todo is announced by exactly one event, or its handler is still
\* between TodoStore.Create and Enqueue.
EveryTodoAnnounced ==
    \A t \in 1..todos :
        Cardinality({e \in DOMAIN events : events[e].todo = t})
            + Cardinality({h \in Handlers : handling[h] = t}) = 1

\* An event leaves the queue only because some subscription that wanted it
\* answered 2xx.
DeliveredWasAccepted ==
    \A e \in DOMAIN events :
        events[e].delivered <=> \E s \in DOMAIN subs : subs[s] /\ acks[<<e, s>>] > 0

\* What the counters and the queue say of the deliveries is so.
DeliveriesAccounted == AttemptsAccounted /\ DeliveredWasAccepted

\* After a 2xx answer from a subscription an event is sent to it again only by
\* a pass of another worker that had it in its snapshot already: each worker is
\* acknowledged once, and one worker alone never repeats itself.
AcknowledgedOnce == \A p \in DOMAIN acks : acks[p] <= Cardinality(Workers)

\* webhooks_test.go: "Event should still be pending after a failed delivery."
PendingAfterFailure ==
    [][\A w \in Workers : Failure(w) => ~events'[worker[w].event].delivered]_vars

Wanted(e) == e \in DOMAIN events /\ \E s \in DOMAIN subs : subs[s]

Delivered(e) == e \in DOMAIN events /\ events[e].delivered

\* An event somebody subscribed to is delivered, unless the worker is stopped.
EventsGetDelivered ==
    \A e \in EventIds : Wanted(e) ~> (stopped \/ Delivered(e))

\* Stop ends every worker, even one in the middle of a pass.
StopEndsWorkers == stopped ~> \A w \in Workers : worker[w].at = "exited"

=============================================================================
