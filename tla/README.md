# A TLA+ model of the API book's Go code

The repository holds one small program per chapter of a book on HTTP APIs, and
one complete todo server (`server/`; `ch44_complete_server/` is an exact copy of
it but for the package names). These modules model the parts whose correctness
depends on what happens at the same time: handlers that share a database or a
store in memory, tokens and restarts, a delivery worker, rate limiters, caches,
retries, lists read page by page, middleware, goroutines and channels.

## The system

| Part | State | Operations | What is hard about it |
|---|---|---|---|
| `server/` todo routes (`handlers_todos.go`, `TodoRepo` in `db.go`) | table `todos`, the locals of each running handler | POST, GET, PATCH, DELETE of one todo, GET of the list | a handler makes up to three SQL statements and any other handler runs between them; a statement may fail after it took effect |
| `server/` accounts (`handlers_auth.go`, `auth.go`, `UserRepo`, `RequireAuth`) | table `users`, the JWTs clients hold, the clock | register, login, the test of a token | races for a name, tokens that outlive the process, expiry |
| `server/` rate limiters (`middleware.go`, `routes.go`) | two token buckets | `Allow` on each request, then on each login | one bucket for all clients |
| `server/` chain, probes, lifecycle (`middleware.go`, `routes.go`, `main.go`) | the layers a request is in, what they have written; the process | pass on, refuse, recover, log; start, shutdown | a layer acts on what another has written or left out; requests in flight at shutdown |
| `ch35_server_webhooks` | todos, event queue, subscriptions, the worker's pass | POST of todos and subscriptions, delivery, Stop | snapshots used without the lock, lost answers, retries without end |
| `ch33_rate_limiting` | map from client to bucket and time last seen | reserve, cancel, evict | a reservation and its cancellation are two steps |
| `ch37_server_caching` | todos, TTL cache, calls of singleflight under way | Create, Get | a miss that is stale when it is acted on |
| `ch41_concurrency_patterns` | channels, goroutines, the context | worker pool; Generate, FanOut, FanIn, Collect | lost and doubled items, early close, leaked goroutines |
| `ch10_rate_limits` | the rate limit of the last answer | a call, the sleep after a 429 | answers that overtake each other |
| `ch11_retrying` | the loop of one call | send, pause, give up | a pause that doubles in 64 bits |
| `ch12_pagination`, `ch30_server_pagination` | the todos; the walk of a client | list by page, by offset, by cursor; add, delete | the list changes between pages |
| `ch13_http_caching` | one entry per URL | get, revalidate, clear | an answer used after the entry has changed |
| `ch15_goroutines` | a slot per input, the errgroup | fetch all | the first error cancels the rest |
| `ch19_auth` | the cached token | fetch under the mutex, send | everybody waits for one fetch; a token ages on its way |
| `ch25_database` | table `todos` | create, get, update, delete | the answer is read in a second statement |
| `ch23`, `ch28`, `ch29`, `ch34` | a map of pointers behind a mutex | CRUD | pointers are read and written after the lock is released |
| `ch39_server_testing`, `ch32_server_auth` | users and todos in memory, tokens | register, login, todos of a user | the password is hashed outside the lock |
| `ch24`, `ch31`, `ch40`, `ch43`, the ETags of `ch37` | the layers a request is in; counters of requests and errors | middleware before and after the handler | the order of the layers; a panic skips what comes after the handler |
| `ch38_graceful_shutdown` | the process | start, probes | see the section on what is not modelled |
| `ch42_performance` | todos and their tags | add, list tag by tag, list at once | the store changes between two tags of one list |
| `ch14_client_config` | the client's timeout and its stack of transports | options, request | an option rebuilds what another has set |
| the other chapters | none worth a model | one request, one answer | formatting and I/O |

They interact as follows. In `server/` every request passes the global limiter;
register and login pass `loginRL` and then reach `UserRepo`; the todo routes
pass `RequireAuth`, which turns a token into the user id that the handlers
compare with the owner of a row. Both repositories share one database
connection (`SetMaxOpenConns(1)`), so a statement is atomic and a handler is
not. In `ch35` the handlers and the worker meet in the queue, whose methods
lock a mutex. The client of ch12 reads the lists of ch30 and of `server/` (its
own server is GitHub, which is not in the repository). The other chapters stand
alone.

What makes each part correct: an owner test that still holds when the handler
writes, ids that are never used twice, answers that fit some order of the
requests (todo routes); tokens that name their user and prove a recent
password, acknowledged credentials that work (accounts); no client beyond its
rate and no rejection without reason (limiters); every todo announced once and
every event delivered, counted and acknowledged consistently (webhooks);
answers that are true and not too old, and few fetches (caches); no job lost or
doubled, and no goroutine left behind (patterns); no waiting or retrying without
need (clients); no todo missed for another reason than a deletion (lists);
fields stored whole and answers no older than the write they answer (stores);
one answer to each request, with the headers promised, logged and counted as it
was sent (middleware); the last value given to each option (client).

`PROJECT.json` lists the hazards of the code line by line, with the properties
that would catch each, the lines every definition stands for, the mutations
of the model that each property was seen to catch, and the findings.

## The modules

    TodoData <- AtomicTodoApi            what the todo API promises
    TodoData <- TodoApi <- MCTodoApi, TodoApiProofs
    Accounts <- MCAccounts, AccountsProofs
    Webhooks <- MCWebhooks, WebhooksProofs
    TokenBucket <- KeyedRateLimiter
    KeyedRateLimiter, ClientRateLimit <- MCLimiters <- LimitersProofs
    JobRunner                            what a concurrency pattern promises
    JobData <- WorkerPool <- WorkerPoolProofs
    JobData <- Pipeline <- PipelineProofs
    CacheAside, TokenSource, WorkerPool, Pipeline, FetchAll, Retry <- MCCalls
    MCCalls, WorkerPoolProofs, PipelineProofs <- CallsProofs
    TokenBucket <- ServerRateLimits      two instances of the bucket
    ServerRateLimits, Pagination, SqlTodoRepo, Lifecycle, SharedStore, InMemoryApi,
        HttpChain, TaggedTodos, HttpCache, ClientOptions <- MCServers <- ServersProofs

MCLimiters, MCCalls and MCServers each check several components
that share no state: the initial state picks one, and a behaviour is one of
that component alone, so that nothing is lost and nothing is multiplied.
An MC module gives TLC its model values, sets and symmetry; a Proofs module
holds the theorems. An operator whose comment begins "Mutation of" is the model
of a plausible mistake, used to test the properties and nothing else.

**TodoApi** has one action per SQL statement, with the Go code up to the next
statement or to the answer. `pc[c]` is the statement the handler on connection
`c` runs next; `existing[c]` is the row that `TodoRepo.Update` re-read. A PATCH
runs `check` (the handler's Get, owner test, body), `reread` (the second Get)
and `update`; a DELETE runs `check` and `delete`. `todoSeq` is SQLite's
`sqlite_sequence`, which AUTOINCREMENT keeps. With `DbMayFail` a statement may
return an error, and a write may do so after it took effect (a context
cancelled while the RETURNING row is read); `Get` reports every error as 404,
as the code does. Bodies are malformed, blank or ok; texts are model values.

**AtomicTodoApi** is the promise: a request takes effect at one instant between
its arrival and its answer, and the answer is right at that instant. Two
weaknesses of PATCH had to be granted, and are visible there as such: the
fields a PATCH does not name may be written back with older values (the lost
update of read, then write), and a row deleted under a PATCH gives 500.

**Accounts** has the INSERT of register, the SELECT of login and the password
check as separate steps, a clock that decides when a token expires, and a
restart that may hit between any two steps and keeps the table, the tokens and
the secret. `promised` and `proved` are histories: the credentials that a 201
acknowledged, and when each user's password was last given. Cryptography is
taken to work: a password passes only against its own hash, and only
`issueToken` makes tokens.

**TokenBucket** is the limiter of `golang.org/x/time/rate`, written from how
the middlewares use it: `Reserve` and `Cancel` of ch33, `Allow` of the server.
Time is in ticks and tokens in credits, one credit per tick and `Period` per
token, so that all arithmetic is in integers. `Cancel` restores a token less
what was reserved after it, as that package does.

**KeyedRateLimiter** is the middleware of ch33. A request that would have to
wait holds its reservation until `CancelReservation`, at most `Stall` ticks
later; other requests run in between. `meter` is a leaky bucket of all
admissions: it stays within `Full` exactly if no interval of d ticks has more
than `Burst + d / Period` admissions. `Delay()` reads the clock a second time,
in the same goroutine right after `Reserve`; both reads are taken to fall into
one tick, and an admission counts at that instant. (A goroutine that stalls
between the two, until its token is due, would be admitted; the model rejects it.)

**ServerRateLimits** composes two instances of TokenBucket as `routes.go` does:
a login pays the global limiter first, and `loginRL` in a later step.

**Webhooks** has one action per critical section of ch35 and two per HTTP
delivery: the request goes out (`Attempt`), and later an answer is recorded
(`Success`, `Failure`). A failure is any answer other than 2xx, a timeout, or
an answer that was lost. The worker keeps the snapshot of the queue it took
(`batch`) and that of the subscriptions (`targets`), as the loops of
`ProcessOnce` and `deliver` do, and looks at `done` only between passes.

**CacheAside** is `TodoRepo.Get` of ch37: the lookup, the entry into
`singleflight.Group.Do`, the read of the store, the `Set`, and the end of the
flight are separate steps. `flight[i]` are the callers in the call for `i`.

**HttpCache** is `get` of ch13 for one URL. A caller looks the entry up, lets go
of the lock, and later stores what it was answered; a 304 is answered with the
entry that was read before the request, even if it has been replaced since.
`tagged` says whether the server sends ETags, `replaced` when each of its
versions went.

**TokenSource** is `CachedTokenSource.Token` of ch19 with its mutex held during
the fetch, which takes up to `Delay` ticks or fails, and the transport that
sends the token: a request takes up to `Skew` ticks to arrive.

**ClientRateLimit** is the client of ch10: the check before a request, the wait
for the reset, the sleep after a 429, and answers that arrive in any order and
overwrite the rate limit that is remembered, if they have one (`Limit` is not
0). A 429 may come at any time, with or without a rate limit and with or without
a `Retry-After`, which decides the sleep when it is there; so a caller that is
told less than the rest of the window may be refused again in it, as with the
`Retry-After: 0` of `github_test.go:45`. `told` is a history: until when the last
429 told the caller to wait. It is void once the caller has given up, or could
not read the body of the 429: in both cases `do` returns before the sleep is
over, and the next call may send at once.

**WorkerPool** and **Pipeline** model ch41, a channel operation per action. A
buffered channel is the set or count of what is in it; an unbuffered send is
one action with its receive. A `select` may take either ready case.
**FetchAll** is the errgroup of ch15, with and without its limit. All three
implement **JobRunner**: at most one result per job, and a return with results
missing only after a cancellation.

**Retry** is `do` of ch11. A pause is in whole seconds without its jitter.
`NotPositive` says for which attempts `2^attempt` seconds, computed in 64 bits,
is not positive: from attempt 34 on in most cases, where `rand.Int63n` panics.

**Pagination** has three servers (offset and limit with COUNT and SELECT apart,
page numbers, a cursor) and the walk of ch12, which follows `Link` headers.
`Sorted(ids)` is defined by rank, its k-th element being the one with k elements
up to it: what `ORDER BY id` means, and a form that proofs can use.

**SqlTodoRepo** is the repository of ch25, whose Create and Update read the row
that they answer in a second statement.

**Lifecycle** is `Run` of the server with its connections: new, active, idle,
and the polling of `Shutdown`, as `net/http` has them.

**SharedStore** goes below the statement. The stores of ch23, ch28, ch29 and
ch34 hand out pointers, which are encoded without the lock, and in ch28 and
ch34 written without it: data races. A string is two words in memory, its data
and its length; `words` says which write left each word, and each word is read
and written in a step of its own, in any order, which is what a build on a
64-bit machine can do.

**InMemoryApi** is the server of ch39: the accounts in memory, with the hash
computed outside the lock, and the todos that a token gives access to. `proved`
and `author` are histories: the credentials behind a token and behind a todo.

**HttpChain** is a request in a chain of middleware, for seven routers at once.
`Chain(route)` is the order in which `BuildRouter` puts the layers; `at` is the
layer that runs. A layer's action before `next.ServeHTTP` goes down, refuses and
turns back, or sets headers; its action after it logs, counts or sends what was
buffered; a panic goes up past all of them until a Recoverer. A status passes
through the wrappers that the layers above have put around the ResponseWriter
(`WriteHeader`), each of which keeps, drops or holds it back, and `sent` is what
reaches net/http, with the headers set at that moment. Handlers are what they
may answer; the requests of ch40 share its counters.

**TaggedTodos** is the store of ch42. The tags of each todo are read in a step
of their own by both lists; the batched one holds the lock, so that writers wait.

**ClientOptions** applies the options of ch14 in any order. `wraps` is the stack
of logging transports, and an option finds the `*http.Transport` only through
at most one of them, as `unwrapTransport` does. The client then makes one
request, and `lines` are the lines it writes to each logger.

## What TLC checks

Passing runs:

| Run | Question | Bounds |
|---|---|---|
| `TodoApi_any` | owner tests, ids, refinement of AtomicTodoApi; any interleaving, failing statements | 2 connections, 2 users, 2 ids: enough for every pair of handlers on one row and for a delete with a create between two statements |
| `TodoApi_sequential` | answers stay true and PATCH keeps fields, one request at a time per user | 2 texts, so that a change shows |
| `Accounts` | tokens, freshness, acknowledged credentials | 2 clients racing for a name with 2 passwords, 2 users, tokens of 1 tick and a clock of 1, so that tokens expire; failing statements and restarts |
| `Webhooks` | queue, counters, acknowledgements, delivery, Stop | 2 handlers, 2 workers whose passes overlap, 2 todos, 2 subscriptions, 2 failures |
| `RateLimiters` | the rate bound under late cancellations and eviction (ch33); sleeps and waits of the client (ch10) | burst 2, period 3, 3 handlers of one client, 18 ticks: three full refills; 2 callers, 2 requests per window, windows of 2 ticks, 5 ticks, a `Retry-After` of up to 3, beyond the window |
| `Calls` | truth of answers, number of fetches, validity of tokens, complete results, retries with reason, refinement of JobRunner; every call returns, no goroutine leaks | ch37: 3 callers, 5 calls, one id, there from the start or created later, one expiry; ch19: 3 callers, tokens of 4 ticks with skew 1, fetches of up to 2; 4 jobs, 2 goroutines, by the pool, the pipeline or a group of 2; 34 retries, the most that do not overflow |
| `Servers` | the global rate, lists, answers of repositories and stores, shutdown, todos and users, middleware chains, age of cached answers, options | burst 4 and 16 ticks: a full refill; 5 todos on pages of 1 or 2; 2 callers and 2 rows; 2 connections, 9 ticks: past both timeouts; 2 handlers on one todo with 2 writes; 2 clients, names and passwords, 2 todos; 2 requests in each of 7 chains; 2 readers of 2 todos with 2 tags; ch13: 2 callers, 2 versions, answers of up to 2 ticks against an age of 1; 4 options: two of a kind with others before, between or after |

Each property is defined in the component's module; the MC modules only join
those of several components. Liveness is checked in the same runs, which
therefore use no symmetry (`Webhooks`, `Calls`).
`StoredStringsWhole` and the part of `AnswersIncludeOwnWrite` that is about
stores say what is left of consistency with data races: what is stored is whole,
and an answer is never older than its own write. An answer that is encoded
during another write may mix the words of two strings; no property claims
otherwise.

Runs that find a counterexample, each to a sentence of the repository:

| Run | The sentence | What happens |
|---|---|---|
| `Webhooks_partial` | "Event should still be pending after a failed delivery." (`webhooks_test.go:197`) | one of two subscriptions accepts the event, the other fails; the event is no longer pending and the second is never tried again |
| `RateLimiter_together` | "Reserve checks capacity without consuming a token." (`ratelimit.go:77`) | two rejected requests reserve before either cancels; the first gets nothing back, and a later request is rejected though a token is due |
| `ServerRateLimits_login` | "apply a tighter rate limit" (`routes.go:32`) | `rate.Every(1)` is a token per nanosecond: logins come at the global rate |
| `CacheAside_test` | "all concurrent callers share one fetch, so count <= 2" (`caching_test.go:116`) | three callers miss on a todo that was there before, and enter `Do` one after the other's flight has landed: three fetches (the test itself lets three pass) |
| `HttpChain_metrics` | "/metrics is served by Prometheus and excluded from instrumentation to avoid inflating request counts with scrape traffic." (`observability.go:124`) | `r.Use` is around every route of the router: a scrape is counted |

Deadlock is checked for the todo API, the accounts and the limiters. The
webhooks, calls and servers stop when their bounded work is done (all
ids or writes used, the process gone, the call returned), and their
configurations say so with `CHECK_DEADLOCK FALSE`.

**Bounds.** Every bound is a constant with a guard that names it: `MaxId`,
`MaxUsers`, `MaxTime`, `MaxTodos`, `MaxSubs`, `MaxFailures`, `MaxCalls`,
`MaxExpiries`, `MaxVersion`, `MaxWrites`, `MaxDebt`, `MaxTags`, `MaxOptions`,
`MaxRetryAfter`. `MaxDebt` keeps rejected
requests from being reserved without end; `MaxFailures` also says that
subscribers do not fail for ever, which delivery needs.

`MaxRetries = 34` is not a bound but the largest value of the code's option
for which `RetriesJustified` holds: with 35 the last pause is computed from
attempt 34, `defaultBackoff` gets a duration that is not positive, and
`rand.Int63n` panics. `NewClient` sets 3. (A negative maximum, which the option
also takes, makes `do` return without a request; the model starts at 0.)

**Fairness.** Webhooks: handlers finish, the ticker ticks, and a request ends
within the client's five seconds (weak fairness); `select` picks at random among
ready cases, so `done` is not passed over for ever (strong fairness of `Exit`).
CacheAside, WorkerPool, Pipeline: goroutines run and `fn` returns (weak fairness
of the steps of each goroutine). FetchAll: as long as some goroutine can go on,
one does; each has few steps, so all end. TokenSource: the fetch ends and
its caller goes on (weak), and a waiting caller gets the mutex in the end (strong
fairness of `Lock`: Go's mutex hands itself over to a waiter that starves).
Retry: timers fire and each request is answered or fails. Nothing is assumed of
clients, consumers or cancellations, nor in the runs without liveness.

## What is proved

Every invariant and every action property that a passing run checks, and both
refinements, are theorems that TLAPS checks, for all values of the constants
that satisfy the named assumptions:

| Module | Theorem | What holds |
|---|---|---|
| TodoApiProofs | `TypeCorrect`, `OwnerTestHolds`, `OnlyOwnersWrite`, `DeletedIdsStayDeleted` | `TypeOK`, `CheckedRowIsMine`, `OnlyOwnerWrites`, `DeletedForGood` |
| | `HandlersAreAtomic` | TodoApi implements AtomicTodoApi, with a failing database too |
| | `AnswersStayTrue`, `PatchesKeepFields` | `AnswerIsCurrent`, `PatchKeepsUnset`, if `OneAtATime` and not `DbMayFail` |
| AccountsProofs | `AccountTypes`, `TokensName`, `ProofsAreFresh` | `TypeOK`, `TokensNameTheirUser`, `ProofIsFresh` |
| | `AcknowledgedCredentialsWork` | `CredentialsWork`: login refuses them only when its SELECT fails |
| LimitersProofs | `AdmissionsBounded`, `LimitersTyped` | `RateBound`, `LimitersTypeOK`, if `Full <= TTL` |
| | `ClientWaitsEnough` | `ClientObeysLimit` |
| WebhooksProofs | `WebhooksTyped`, `TodosAnnounced` | `TypeOK`, `EveryTodoAnnounced` |
| | `DeliveriesCounted`, `WorkersAcknowledgedOnce` | `DeliveriesAccounted`, `AcknowledgedOnce` |
| WorkerPoolProofs | `PoolTypes`, `InFlightJobsComplete`, `PoolRunsJobs` | types, `InFlightCompletes`, and JobRunner, of the pool alone |
| PipelineProofs | `PipelineTypes`, `PipelineRunsJobs` | types and JobRunner, of the pipeline alone |
| CallsProofs | `CallsTyped`, `CallsResultsComplete` | `CallsTypeOK`, `ResultsComplete` |
| | `CallsRunJobs` | `RunnerSpec`: pool, pipeline and group implement JobRunner |
| | `GetAnswersAreSound`, `SourcesAskedSeldom` | `AnswersAreSound`, `FetchesFew` |
| | `TokensAreValid`, `RetriesAreJustified` | `TokensArriveValid`, `RetriesJustified` |
| ServersProofs | `ServersTyped` | `ServersTypeOK` of all ten parts |
| | `GlobalLimitHolds`, `ListsMissOnlyDeletions` | `GlobalLimitExact`, `ListingsComplete` |
| | `OwnWritesAnswered`, `StringsStayWhole` | `AnswersIncludeOwnWrite`, `StoredStringsWhole` |
| | `RequestsDrained`, `TodosKeepTheirUser` | `InFlightDrained`, `TodosStayWithTheirUser` |
| | `EveryAnswerComplete`, `LogsAndCountsAgree` | `OneCompleteAnswer`, `LoggedAsAnswered` |
| | `WhatIsReadIsTrue`, `LastOptionHolds` | `ReadsAreTrue`, `LastOptionCounts` |

**Assumptions.** They are ASSUMEs in the modules that declare the constants (or
in the MC module, for constants of several components), which TLC evaluates in
each run. Most of them say that bounds are natural numbers and that markers such
as `NoRow` are not data. The others are what the code sets or relies on: bursts, periods,
windows and page sizes are positive and a default page is no larger than the
largest; tokens of ch19 live longer than a fetch and a request take
(`Delay + Skew < Life`); there are at most 34 retries, the most whose pauses do
not overflow (`NewClient` sets 3); `Shutdown` is given at least the
`WriteTimeout`, both 30 s in `main.go`. Connections, workers, getters and
requests are finite sets. Further hypotheses stand in the
statements: the rate bound of ch33 needs `Full <= TTL`, which the rate and burst
given to `NewRateLimiter` may violate, and the two properties of
`TodoApi_sequential` need what that run also sets.

**Arguments.** Each invariant is proved from an inductive one (`Inv` or
`<Part>Inv`), by a lemma for each action that disturbs it.

*TodoApi.* The owner test is not inductive alone: that a checked row cannot
turn into another user's needs ids that are never used twice, so the invariant
adds that no row lies above `todoSeq`, that there is room for each INSERT under
way, and that a handler past its test names an id already handed out. The
action properties and the refinement follow from it; in the refinement each
statement maps to a stutter or to the one atomic step its answer names. If the
requests of a user do not overlap, those under way are of different users, and
a step of one user neither makes, changes nor removes a row of another. So the
row that Update re-read is still the row when it is written, and what a user was
told stays so.

*Accounts.* The invariant adds that names are unique, that every acknowledged
pair is a row, that what a login selected still is that row, and that no token
outlives `proved + TokenLife`.

*KeyedRateLimiter.* The bound rests on two inequalities per client: what the
meter and the bucket hold, after refilling to now, stays within `Full` after
counting the reservations that may still be cancelled; and what a cancellation
can restore is covered by tokens taken after it. Eviction keeps them because
`Full <= TTL`. Without that they fail: at the 0.001 tokens per second of
`ratelimit_test.go:33` an idle client is forgotten after three minutes and
starts with a full bucket long before its tokens are due.

*ClientRateLimit.* A rate limit says something true of the current window
wherever it is, remembered or on its way, and a wait for a reset begins because
of one. A caller that has been told to wait until a time to come has still to
receive that, and will sleep at least that long, or sleeps until then; so it
sends nothing early, in whatever order the answers arrive.

*Webhooks.* The attempts are the failures, the acknowledgements and the requests
on the wire together. For each event and subscription, the acknowledgements on
record and the workers that may still send the event there add up to the number
of workers at most: a worker goes through its snapshot once, and an event that
is delivered comes into no new snapshot. Each todo is with the handler that
made it or in one event, never in both.

*CacheAside.* All callers in a flight share a leader and what it has found. The
number of fetches is bounded by a potential: the getters that may still fetch a
todo before its entry expires. A fetch takes one of them out, and only an expiry
puts any in.

*TokenSource, FetchAll, Retry.* Whoever holds the mutex knows what is cached, and
what it fetched is good for `Life` from a moment at most `Delay` ago. A goroutine
of the group delivers into its own slot, and `Wait` comes after all of them. Each
request of a retry after the first was asked for by the answer before, and its
pause is one of the first six or a minute.

*WorkerPool, Pipeline.* The invariant says where each job is: in the input, in
one goroutine's hands, delivered, or dropped after a cancellation.

*The parts of MCServers.* Each part has an invariant of its own. `StepOfPart`
says that a step belongs to the part chosen and leaves the others alone, so that
each invariant need only be kept by its own part's steps.

- ServerRateLimits: the meter and the credits of the bucket make up a full one
  at any time, so a refusal means that there was no room on the meter.
- Pagination: `Sorted` is the inverse of the rank, so a page is a range of
  ranks. What the walk has seen is in order and comes before all that it will
  see; a todo that it missed was moved back over its position by a deletion, and
  each deletion moves at most one todo over it.
- HttpCache: an answer was right at a moment since its request, and an entry
  outlives its version by `MaxAge + Latency` at most.
- Lifecycle: `Shutdown` gives up no earlier than `ShutdownTimeout` after the
  signal, and a request of that time has ended by then.
- InMemoryApi: no two users have one id, and whatever carries an id (token,
  request, todo) comes with the credentials of the user who has it.
- SharedStore: the lock, or the todo being its own, lets one handler at a time
  write the words of a todo; what a handler has written stays in memory until it
  encodes, or is overwritten by a later write.
- SqlTodoRepo: the row about to be read is gone, or as the UPDATE or a later one
  has left it.
- TaggedTodos: todos and tags only grow, so whatever a reader has read lies
  between the store at its call and the store now; and for a batched reader it
  equals the store now, because no writer runs.
- ClientOptions: the value in force is that of the last option of its kind, and
  there is at most one logging transport, which `unwrapTransport` looks through.
- HttpChain: the invariant says of each request, by the layer it is in, what must
  hold on the way in (nothing written, the headers of the layers above set),
  while it panics (a Recoverer is above) and on the way out (one answer, noted by
  the layer that logs). The counters of ch40 are the numbers of requests that
  have been counted.

**Only model-checked.** The liveness properties: `EventsGetDelivered` and
`StopEndsWorkers` of the webhooks, `CallsReturn` and `NoGoroutineLeaks` of the
calls. They rest on fairness, so on ENABLED, which the provers do not handle.
The properties of the runs with a counterexample are false, so not theorems.
There is no induction over data in the proofs: where the code walks a list,
the model has a step per element or a definition that is not recursive.

## What is not modelled

Wording of answers, headers, logging, hashing and signing; the refusal of
malformed requests where it changes nothing, such as the 422 of ch29; the clock
of `x/time/rate`, which is read before its lock is taken. The other chapters
that `PROJECT.json` lists as not modelled are stateless or copies. Worth
knowing:

- The demonstration stores of ch26, ch27 and ch31 are maps that handlers use
  without any lock. Concurrent requests may end the program ("concurrent map
  writes") or anything else; there is no behaviour to model beyond that.
- `ch38_graceful_shutdown/shutdown.go:99` says that `Run` shuts down gracefully,
  but `Run` handles no signal and never calls `Shutdown`. Lifecycle is the `Run`
  of `server/`, which does.
- A request whose header arrives at the server after the signal may be cut off
  when the process exits; `InFlightDrained` is about those before it.
- The receiver of ch21 keeps no state and answers each delivery by itself; that a
  delivery may come twice is a matter of Webhooks.
- `list` of ch27 pages through a map in its random order, anew for each page: a
  walk may miss any todo. Nothing in the repository promises otherwise.
- A request whose handler panics is recovered outside Logger, in `server/` and in
  ch24: it is answered 500 and never appears in the request log.
- `WithLogger(nil)` of ch14 builds a transport that panics at its first request;
  ClientOptions has loggers that exist.
- Evicted buckets of ch33 forget what was used when `Full > TTL`; see the proofs.

## Plan

1. Composition of Accounts with TodoApi: the owner of a row is the user in a
   token, from the password to the row. The invariants of AccountsProofs and
   TodoApiProofs should carry over, joined by what `RequireAuth` reads.
2. Abstract specifications, with proofs of refinement, for the parts that are
   described by invariants alone: a register for the store of ch37 behind its
   cache, and for each todo of the stores in memory.
3. The rate bound of ch33 without `Full <= TTL`: what a client can gain by being
   evicted, as a weaker bound.
