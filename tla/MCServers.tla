------------------------------ MODULE MCServers ------------------------------
(***************************************************************************)
(* Parts of servers and clients that share no state, for TLC: a behaviour  *)
(* is one of the rate limiters of server/ (ServerRateLimits), of a list    *)
(* read page by page (Pagination), of the repository of ch25               *)
(* (SqlTodoRepo), of a server process (Lifecycle), of one of the in-memory *)
(* stores of four chapters (SharedStore), of the server of ch39            *)
(* (InMemoryApi), of middleware (HttpChain), of the lists of ch42          *)
(* (TaggedTodos), of the client's cache of ch13 (HttpCache), or of a       *)
(* client that is given its options (ClientOptions).                       *)
(***************************************************************************)
EXTENDS ServerRateLimits, FiniteSets

CONSTANTS
    DefaultSize, MaxSize, Wanted, MaxTodos,   \* of Pagination
    Callers, NoRow, MaxId, MaxWrites,         \* of SqlTodoRepo
    Conns, ReadTimeout, WriteTimeout, ShutdownTimeout, Grace, LifeMaxTime,
                                              \* of Lifecycle
    Nobody, MaxStored, MaxStores,             \* of SharedStore
    Clients, Names, Passwords, Nothing, MaxMade,  \* of InMemoryApi
    Requests,                                     \* of HttpChain
    Readers, MaxTagged, MaxTags,                  \* of TaggedTodos
    HttpCallers, MaxAge, Latency, MaxVersion, HttpMaxTime,  \* of HttpCache
    Timeouts, MaxConns, Loggers, MaxOptions       \* of ClientOptions

VARIABLES
    part,  \* "limits", "pages", "repo", "life", "store", "memory", "chain",
           \* "tags", "http" or "options"
    server, todos, nextId, at, size, total, link, got, walk, before, deleted,
                                                       \* of Pagination
    rows, last, writes, step, id, own, answer,         \* of SqlTodoRepo
    phase, deadline, conn, since, signalled,           \* of Lifecycle
    app, ids, nextStored, words, holder, does, ptr, todo, ownStore, mine, read, stores,
                                                       \* of SharedStore
    users, nextUser, owners, nextMade, handler, given, user, token, proved, author, shown,
                                                       \* of InMemoryApi
    stack, req, requestTotal, errorTotal,              \* of HttpChain
    nextTagged, tags, lister, listed, left, result, tagsBefore,     \* of TaggedTodos
    tagged, replaced, entry, progress, known, asked, reply, stale,  \* of HttpCache
    timeout, maxConns, wraps, options, requested, lines \* of ClientOptions

limitVars == <<global, login, pc, passed, logins, wronged>>
pageVars == <<server, todos, nextId, at, size, total, link, got, walk, before, deleted>>
repoVars == <<rows, last, writes, step, id, own, answer>>
lifeVars == <<phase, deadline, conn, since, signalled>>
storeVars == <<app, ids, nextStored, words, holder, does, ptr, todo, ownStore, mine, read, stores>>
memoryVars == <<users, nextUser, owners, nextMade, handler, given, user, token, proved, author, shown>>
chainVars == <<stack, req, requestTotal, errorTotal>>
tagVars == <<nextTagged, tags, lister, listed, left, result, tagsBefore>>
httpVars == <<tagged, replaced, entry, progress, known, asked, reply, stale>>
optionVars == <<timeout, maxConns, wraps, options, requested, lines>>
stateVars == <<limitVars, pageVars, repoVars, lifeVars, storeVars, memoryVars>>
requestVars == <<chainVars, tagVars, httpVars, optionVars>>
allVars == <<part, now, stateVars, requestVars>>

Pages == INSTANCE Pagination WITH MaxId <- MaxTodos, pc <- walk
Repo == INSTANCE SqlTodoRepo WITH pc <- step
Life == INSTANCE Lifecycle WITH MaxTime <- LifeMaxTime
Store == INSTANCE SharedStore WITH
    MaxId <- MaxStored, MaxWrites <- MaxStores, todos <- ids, nextId <- nextStored,
    pc <- does, at <- ptr, own <- ownStore, got <- read, writes <- stores
Memory == INSTANCE InMemoryApi WITH
    MaxTodos <- MaxMade, todos <- owners, nextTodo <- nextMade, pc <- handler
Stack == INSTANCE HttpChain WITH app <- stack
Tagged == INSTANCE TaggedTodos WITH
    MaxTodos <- MaxTagged, nextId <- nextTagged, pc <- lister, todos <- listed,
    before <- tagsBefore
Http == INSTANCE HttpCache WITH
    Callers <- HttpCallers, pc <- progress, since <- asked, MaxTime <- HttpMaxTime
Client == INSTANCE ClientOptions WITH Conns <- MaxConns, given <- options

\* The constants of the parts.  First of ch12 is asked for one todo or more;
\* main.go gives Shutdown as long as a request may take to be answered; the
\* client of ch13 keeps an answer only when its max-age is positive.
ASSUME PaginationAssumption ==
    {MaxSize, Wanted} \subseteq Nat \ {0} /\ DefaultSize \in 1..MaxSize /\ MaxTodos \in Nat
ASSUME LifecycleAssumption ==
    /\ {ReadTimeout, WriteTimeout, ShutdownTimeout, Grace, LifeMaxTime} \subseteq Nat
    /\ WriteTimeout <= ShutdownTimeout
ASSUME HttpCacheAssumption ==
    /\ {MaxAge, MaxVersion} \subseteq Nat \ {0} /\ {Latency, HttpMaxTime} \subseteq Nat
ASSUME SqlTodoRepoAssumption ==
    /\ {MaxId, MaxWrites} \subseteq Nat \ {0} /\ NoRow \notin Repo!Row
ASSUME SharedStoreAssumption ==
    /\ {MaxStored, MaxStores} \subseteq Nat /\ Nobody \notin Handlers
ASSUME InMemoryApiAssumption ==
    /\ MaxMade \in Nat /\ Nothing \notin Memory!User \cup Memory!Credentials
ASSUME HttpChainAssumption == IsFiniteSet(Requests)
ASSUME TaggedTodosAssumption == {MaxTagged, MaxTags} \subseteq Nat

ServersInit ==
    /\ part \in {"limits", "pages", "repo", "life", "store", "memory", "chain",
                 "tags", "http", "options"}
    /\ Pages!Init /\ (part # "pages" => server = "page")
    /\ Init /\ Repo!Init /\ Life!Init /\ Memory!Init
    /\ Store!Init /\ (part # "store" => app = "ch23")
    /\ Stack!Init /\ (part # "chain" => stack = "server")
    /\ Http!Init /\ (part # "http" => ~tagged)
    /\ Tagged!Init /\ Client!Init

\* The part p takes a step, and nothing but it.
State(p, A, others) == part = p /\ A /\ UNCHANGED <<part, requestVars, others>>
Request(p, A, others) == part = p /\ A /\ UNCHANGED <<part, stateVars, others>>

ServersNext ==
    \/ State("limits", Next, <<pageVars, repoVars, lifeVars, storeVars, memoryVars>>)
    \/ State("pages", Pages!Next, <<now, limitVars, repoVars, lifeVars, storeVars, memoryVars>>)
    \/ State("repo", Repo!Next, <<now, limitVars, pageVars, lifeVars, storeVars, memoryVars>>)
    \/ State("life", Life!Next, <<limitVars, pageVars, repoVars, storeVars, memoryVars>>)
    \/ State("store", Store!Next, <<now, limitVars, pageVars, repoVars, lifeVars, memoryVars>>)
    \/ State("memory", Memory!Next, <<now, limitVars, pageVars, repoVars, lifeVars, storeVars>>)
    \/ Request("chain", Stack!Next, <<now, tagVars, httpVars, optionVars>>)
    \/ Request("tags", Tagged!Next, <<now, chainVars, httpVars, optionVars>>)
    \/ Request("http", Http!Next, <<chainVars, tagVars, optionVars>>)
    \/ Request("options", Client!Next, <<now, chainVars, tagVars, httpVars>>)

ServersSpec == ServersInit /\ [][ServersNext]_allVars

-----------------------------------------------------------------------------
(* Properties *)

\* The types of the part whose behaviour it is.
ServersTypeOK ==
    CASE part = "limits" -> TypeOK
      [] part = "pages" -> Pages!TypeOK
      [] part = "repo" -> Repo!TypeOK
      [] part = "life" -> Life!TypeOK
      [] part = "store" -> Store!TypeOK
      [] part = "memory" -> Memory!TypeOK
      [] part = "chain" -> Stack!TypeOK
      [] part = "tags" -> Tagged!TypeOK
      [] part = "http" -> Http!TypeOK
      [] part = "options" -> Client!TypeOK

\* The global limit admits no more than its bucket allows, and what it refuses
\* takes nothing from it: see ServerRateLimits.
GlobalLimitExact == part = "limits" => GlobalBound /\ RefusalsAreFree

\* See Pagination.
ListingsComplete == part = "pages" => Pages!ListingsComplete

\* A write is answered with what it wrote, or with a later write: see SqlTodoRepo
\* and SharedStore.
AnswersIncludeOwnWrite == Repo!AnswersIncludeOwnWrite /\ []Store!AnswersShowOwnWrite

\* See Lifecycle.
InFlightDrained == part = "life" => Life!InFlightDrained

\* See SharedStore.
StoredStringsWhole == part = "store" => Store!StoredStringsWhole

\* See InMemoryApi.
TodosStayWithTheirUser == part = "memory" => Memory!TodosStayWithTheirUser

\* See HttpChain.
OneCompleteAnswer == part = "chain" => Stack!OneCompleteAnswer
LoggedAsAnswered == part = "chain" => Stack!LoggedAsAnswered

\* What a reader is shown was so during its call (TaggedTodos), or not longer ago
\* than the age of the cached entry allows (HttpCache).
ReadsAreTrue ==
    /\ part = "tags" => Tagged!ListsAreTrue
    /\ part = "http" => Http!StalenessBounded

\* See ClientOptions.
LastOptionCounts == part = "options" => Client!LastOptionCounts

=============================================================================
