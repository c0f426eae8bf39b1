------------------------------ MODULE HttpChain ------------------------------
(***************************************************************************)
(* Requests on their way through the middleware of a server and back: of   *)
(* server/ and of the chapters on middleware (ch24), errors (ch31), ETags  *)
(* (ch37), health (ch38), metrics (ch40) and production (ch43).            *)
(***************************************************************************)
EXTENDS Integers, Sequences, FiniteSets

CONSTANT Requests

VARIABLES
    app,           \* "server", "ch24", "ch31", "ch37", "ch38", "ch40" or "ch43"
    req,           \* req[r]: where request r is and what has been written for it
    requestTotal,  \* ch40: Metrics.RequestTotal, by route and status
    errorTotal     \* ch40: Metrics.ErrorTotal, by route

vars == <<app, req, requestTotal, errorTotal>>

Routes == [
    server |-> {"probe", "login", "todos", "missing"},
    ch24 |-> {"hello", "panic", "preflight", "missing"},
    ch31 |-> {"todos"},
    ch37 |-> {"todo"},
    ch38 |-> {"probe", "slow"},
    ch40 |-> {"hello", "error", "missing", "metrics"},
    ch43 |-> {"hello", "probe", "missing"}]

\* What handlers answer: 404 stands for all statuses 4xx, 500 for 5xx.
Statuses == {200, 404, 500}
Answers(route) ==
    CASE route \in {"login", "todos"} -> Statuses
      [] route = "todo" -> {200, 404}
      [] route = "missing" -> {404}
      [] route = "error" -> {500}
      [] OTHER -> {200}

\* BuildRouter: the layers around a handler, the outermost first.  RequestID and
\* RealIP of chi are left out: they write nothing.
ServerChain(route) ==
    <<"SecurityHeaders", "Recoverer", "Logger", "RateLimiter">> \o
    CASE route = "login" -> <<"RateLimiter">>
      [] route = "todos" -> <<"RequireAuth">>
      [] OTHER -> <<>>

Chain24 == <<"Recoverer", "RequestID", "Logger", "CORS">>
Chain31 == <<"RequestID", "Logger">>

Chain(route) ==
    CASE app = "server" -> ServerChain(route)
      [] app = "ch24" -> Chain24
      [] app = "ch31" -> Chain31
      [] app = "ch37" -> <<"WithETag">>
      [] app = "ch38" -> <<>>
      [] app = "ch40" -> <<"InstrumentHandler">>
      [] app = "ch43" -> <<"SecurityHeaders">>

\* at: the layer that runs, 0 for net/http and beyond the chain for the handler.
\* noted: the status in the layer's wrapper of the ResponseWriter.  sent: the
\* calls of WriteHeader that reach net/http.  logs: the statuses logged.
\* ran, panicked: histories of the handler.  tag: If-None-Match has the ETag.
New(route, tag) ==
    [route |-> route, at |-> 1, doing |-> "in", headers |-> {}, noted |-> 0,
     sent |-> <<>>, logs |-> <<>>, ran |-> FALSE, panicked |-> FALSE, tag |-> tag]

TypeOK ==
    /\ app \in DOMAIN Routes
    /\ requestTotal \in [Routes["ch40"] \X Statuses -> Nat]
    /\ errorTotal \in [Routes["ch40"] -> Nat]
    /\ \A r \in Requests :
           /\ req[r].doing \in {"idle", "in", "out", "counted", "panic", "over"}
           /\ req[r].at \in 0..(Len(Chain(req[r].route)) + 1)
           /\ req[r].noted \in 0..500

Init ==
    /\ app \in DOMAIN Routes
    /\ req = [r \in Requests |-> [New("none", FALSE) EXCEPT !.at = 0, !.doing = "idle"]]
    /\ requestTotal = [x \in Routes["ch40"] \X Statuses |-> 0]
    /\ errorTotal = [x \in Routes["ch40"] |-> 0]

Layer(q) ==
    CASE q.at = 0 -> "net/http"
      [] q.at \in DOMAIN Chain(q.route) -> Chain(q.route)[q.at]
      [] OTHER -> "handler"

At(r, layer, doing) == Layer(req[r]) = layer /\ req[r].doing = doing

\* Only request r changes, and no counter.
Become(r, q) ==
    req' = [req EXCEPT ![r] = q] /\ UNCHANGED <<app, requestTotal, errorTotal>>

Down(q) == [q EXCEPT !.at = @ + 1]
Up(q) == [q EXCEPT !.at = @ - 1, !.doing = "out"]
With(q, header) == [q EXCEPT !.headers = @ \cup {header}]

-----------------------------------------------------------------------------
(* WriteHeader *)

Send(q, status) ==
    [q EXCEPT !.sent = Append(@, [status |-> status, headers |-> q.headers])]

\* Of server/ and, as statusRecorder, of ch40.
StatusWriter(q, status) == [Send(q, status) EXCEPT !.noted = status]

\* Of ch24 and ch31: the first status counts.
ResponseWriter(q, status) ==
    IF q.noted # 0 THEN q ELSE [Send(q, status) EXCEPT !.noted = status]

\* Of ch37: nothing is sent yet.
BufferedResponseWriter(q, status) == [q EXCEPT !.noted = status]

\* Mutation of Wrapper: the layers below get the ResponseWriter of net/http.
WrapperForgotten(q) == {}

\* The layers around q's, whose wrappers see what it writes.
Wrapper(q) == {Chain(q.route)[i] : i \in 1..(q.at - 1)}

WriteHeader(q, status) ==
    CASE "WithETag" \in Wrapper(q) -> BufferedResponseWriter(q, status)
      [] "Logger" \in Wrapper(q) /\ app # "server" -> ResponseWriter(q, status)
      [] "Logger" \in Wrapper(q) /\ app = "server" -> StatusWriter(q, status)
      [] "InstrumentHandler" \in Wrapper(q) -> StatusWriter(q, status)
      [] OTHER -> Send(q, status)

-----------------------------------------------------------------------------
(* On the way in: up to next.ServeHTTP *)

Arrive(r) ==
    /\ req[r].doing = "idle"
    /\ \E route \in Routes[app], tag \in BOOLEAN :
           (tag => route = "todo") /\ Become(r, New(route, tag))

SecurityHeaders(r) ==
    At(r, "SecurityHeaders", "in") /\ Become(r, Down(With(req[r], "security")))

RequestID(r) ==
    At(r, "RequestID", "in") /\ Become(r, Down(With(req[r], "trace")))

\* The deferred function runs in Recover or not at all.
Recoverer(r) == At(r, "Recoverer", "in") /\ Become(r, Down(req[r]))

\* Logger of server/ starts from 200, that of ch24 and ch31 from 0.
Logger(r) ==
    /\ At(r, "Logger", "in")
    /\ Become(r, Down([req[r] EXCEPT !.noted = IF app = "server" THEN 200 ELSE 0]))

StartWith200(r) ==
    /\ At(r, "InstrumentHandler", "in") \/ At(r, "WithETag", "in")
    /\ Become(r, Down([req[r] EXCEPT !.noted = 200]))

\* A preflight request goes no further.
CORS(r) ==
    /\ At(r, "CORS", "in")
    /\ \E q \in {req[r], With(req[r], "allow")} :
           Become(r, IF q.route = "preflight" THEN Up(WriteHeader(q, 204)) ELSE Down(q))

RateLimiter(r) ==
    /\ At(r, "RateLimiter", "in")
    /\ \/ Become(r, Down(req[r]))
       \/ Become(r, Up(WriteHeader(With(req[r], "retry"), 429)))

\* Mutation of RequireAuth: the refusal is not followed by return.
RequireAuthGoesOn(r) ==
    /\ At(r, "RequireAuth", "in")
    /\ \/ Become(r, Down(req[r]))
       \/ Become(r, Down(WriteHeader(req[r], 401)))

\* The token is accepted or not: see Accounts.
RequireAuth(r) ==
    /\ At(r, "RequireAuth", "in")
    /\ \/ Become(r, Down(req[r]))
       \/ Become(r, Up(WriteHeader(req[r], 401)))

-----------------------------------------------------------------------------
(* The handler *)

Handle(r) ==
    /\ At(r, "handler", "in") /\ req[r].route \notin {"panic", "probe"}
    /\ \E status \in Answers(req[r].route) :
           Become(r, Up(WriteHeader([req[r] EXCEPT !.ran = TRUE], status)))

\* /healthz/live, and /healthz/ready with a database that answers or does not.
HandleProbe(r) ==
    /\ At(r, "handler", "in") /\ req[r].route = "probe"
    /\ \E status \in {200, 500} :
           Become(r, Up(WriteHeader([req[r] EXCEPT !.ran = TRUE], status)))

\* ch38: the client has gone, and nothing is written.
HandleGone(r) ==
    /\ At(r, "handler", "in") /\ req[r].route = "slow"
    /\ Become(r, Up([req[r] EXCEPT !.ran = TRUE]))

\* A handler of server/ may panic before it writes; that of /panic does.
Panic(r) ==
    /\ At(r, "handler", "in")
    /\ app = "server" \/ req[r].route = "panic"
    /\ Become(r, [req[r] EXCEPT !.at = @ - 1, !.doing = "panic",
                                !.ran = TRUE, !.panicked = TRUE])

-----------------------------------------------------------------------------
(* On the way out: after next.ServeHTTP *)

\* Recoverer answers; what lies between it and the handler does nothing more.
Recover(r) ==
    /\ At(r, "Recoverer", "panic")
    /\ Become(r, Up(WriteHeader(req[r], 500)))

Unwind(r) ==
    /\ req[r].doing = "panic" /\ Layer(req[r]) # "Recoverer"
    /\ Become(r, [req[r] EXCEPT !.at = @ - 1])

Log(r) ==
    /\ At(r, "Logger", "out")
    /\ Become(r, Up([req[r] EXCEPT !.logs = Append(@, req[r].noted)]))

\* m.RequestTotal...Inc()
CountRequest(r) ==
    /\ At(r, "InstrumentHandler", "out")
    /\ requestTotal' = [requestTotal EXCEPT ![<<req[r].route, req[r].noted>>] = @ + 1]
    /\ req' = [req EXCEPT ![r].doing = "counted"]
    /\ UNCHANGED <<app, errorTotal>>

\* m.ErrorTotal...Inc(), and the line in the log.
CountError(r) ==
    /\ At(r, "InstrumentHandler", "counted")
    /\ req' = [req EXCEPT ![r] = Up([req[r] EXCEPT !.logs = Append(@, req[r].noted)])]
    /\ errorTotal' = [errorTotal EXCEPT ![req[r].route] =
           IF req[r].noted >= 500 THEN @ + 1 ELSE @]
    /\ UNCHANGED <<app, requestTotal>>

\* The buffered answer is sent, or 304 if the client has it.
SendTagged(r) ==
    /\ At(r, "WithETag", "out")
    /\ LET q == IF req[r].noted = 200 THEN With(req[r], "etag") ELSE req[r]
       IN  Become(r, Up(Send(q, IF req[r].noted = 200 /\ q.tag THEN 304 ELSE q.noted)))

\* The layers with nothing to do after the handler.
Pass(r) ==
    /\ req[r].doing = "out"
    /\ Layer(req[r]) \notin {"net/http", "Logger", "InstrumentHandler", "WithETag"}
    /\ Become(r, Up(req[r]))

\* net/http ends the answer; nothing written means 200.
Finish(r) ==
    /\ At(r, "net/http", "out")
    /\ LET q == IF req[r].sent = <<>> THEN Send(req[r], 200) ELSE req[r]
       IN  Become(r, [q EXCEPT !.doing = "over"])

In(r) ==
    \/ SecurityHeaders(r) \/ RequestID(r) \/ Recoverer(r) \/ Logger(r)
    \/ StartWith200(r) \/ CORS(r) \/ RateLimiter(r) \/ RequireAuth(r)

Out(r) ==
    \/ Recover(r) \/ Unwind(r) \/ Log(r) \/ CountRequest(r) \/ CountError(r)
    \/ SendTagged(r) \/ Pass(r) \/ Finish(r)

Next ==
    \E r \in Requests :
        \/ Arrive(r) \/ In(r) \/ Handle(r) \/ HandleProbe(r) \/ HandleGone(r)
        \/ Panic(r) \/ Out(r)

Spec == Init /\ [][Next]_vars

-----------------------------------------------------------------------------
(* Properties *)

Over(r) == req[r].doing = "over"
Answer(r) == req[r].sent[1]

\* Headers that every answer must have, "even on error responses" (ch43).
Promised ==
    CASE app \in {"server", "ch43"} -> {"security"}
      [] app \in {"ch24", "ch31"} -> {"trace"}
      [] OTHER -> {}

\* However a request leaves the chain, by its handler, a refusal or a panic, the
\* client gets one answer with all headers promised, 500 after a panic, and the
\* handler ran unless the answer is a refusal or a preflight's.
OneCompleteAnswer ==
    \A r \in Requests : Over(r) =>
        /\ Len(req[r].sent) = 1
        /\ Promised \subseteq Answer(r).headers
        /\ req[r].panicked => Answer(r).status = 500
        /\ req[r].ran <=> Answer(r).status \notin {204, 401, 429}

\* Every answer is logged once and counted once with the status the client got,
\* except that a request whose handler panicked is not logged at all.
LoggedAsAnswered ==
    /\ \A r \in Requests : Over(r) /\ app \in {"server", "ch24", "ch31", "ch40"} =>
           req[r].logs = IF req[r].panicked THEN <<>> ELSE <<Answer(r).status>>
    /\ \A x \in Routes["ch40"] : errorTotal[x] <= requestTotal[<<x, 500>>]
    /\ (\A r \in Requests : Over(r)) /\ app = "ch40" =>
           \A x \in DOMAIN requestTotal :
               requestTotal[x] = Cardinality(
                   {r \in Requests : x = <<req[r].route, Answer(r).status>>})

\* observability.go: "/metrics is ... excluded from instrumentation to avoid
\* inflating request counts with scrape traffic".
ScrapesUncounted == \A status \in Statuses : requestTotal[<<"metrics", status>>] = 0

=============================================================================
