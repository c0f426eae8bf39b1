---------------------------- MODULE ClientOptions ----------------------------
(***************************************************************************)
(* NewClient of ch14_client_config: its options, in any order and number,  *)
(* each of which may rebuild the stack of transports that the others set   *)
(* up.  A request goes through that stack.                                 *)
(***************************************************************************)
EXTENDS Integers, Sequences, FiniteSets

CONSTANTS
    Timeouts, Conns, Loggers,  \* values to give to the options
    MaxOptions                 \* bound: options given to NewClient

VARIABLES
    timeout,   \* httpClient.Timeout; 0 for DefaultTimeout
    maxConns,  \* MaxConnsPerHost of the *http.Transport
    wraps,     \* the loggers of the loggingTransports around it, outermost first
    given,     \* history: the options applied so far
    requested, \* history: the client has made its request
    lines      \* lines[l]: log lines that the request has written to l

vars == <<timeout, maxConns, wraps, given, requested, lines>>

Options ==
    [kind : {"timeout"}, value : Timeouts] \cup [kind : {"conns"}, value : Conns] \cup
    [kind : {"logger"}, value : Loggers]

TypeOK ==
    /\ timeout \in Timeouts \cup {0} /\ maxConns \in Conns \cup {0}
    /\ wraps \in Seq(Loggers) /\ given \in Seq(Options)
    /\ requested \in BOOLEAN /\ lines \in [Loggers -> Nat]

\* newHTTPClient(DefaultTimeout, 0, nil)
Init ==
    /\ timeout = 0
    /\ maxConns = 0
    /\ wraps = <<>>
    /\ given = <<>>
    /\ requested = FALSE
    /\ lines = [l \in Loggers |-> 0]

\* Bound: MaxOptions.
Apply(kind, value) ==
    /\ Len(given) < MaxOptions
    /\ given' = Append(given, [kind |-> kind, value |-> value])
    /\ UNCHANGED <<requested, lines>>

WithTimeout(d) ==
    /\ Apply("timeout", d)
    /\ timeout' = d
    /\ UNCHANGED <<maxConns, wraps>>

\* unwrapTransport looks through one loggingTransport; with two it finds no
\* *http.Transport, and an option is ignored.
Unwraps == Len(wraps) <= 1

WithMaxConnsPerHost(n) ==
    /\ Apply("conns", n)
    /\ maxConns' = IF Unwraps THEN n ELSE maxConns
    /\ UNCHANGED <<timeout, wraps>>

\* Mutation of WithLogger: the new loggingTransport goes around the old one.
WithLoggerAround(l) ==
    /\ Apply("logger", l)
    /\ wraps' = IF Unwraps THEN <<l>> \o wraps ELSE wraps
    /\ UNCHANGED <<timeout, maxConns>>

WithLogger(l) ==
    /\ Apply("logger", l)
    /\ wraps' = IF Unwraps THEN <<l>> ELSE wraps
    /\ UNCHANGED <<timeout, maxConns>>

\* RoundTrip of each loggingTransport writes a line.
Do ==
    /\ ~requested
    /\ requested' = TRUE
    /\ lines' = [l \in Loggers |-> Cardinality({i \in DOMAIN wraps : wraps[i] = l})]
    /\ UNCHANGED <<timeout, maxConns, wraps, given>>

New ==
    /\ ~requested
    /\ \/ \E d \in Timeouts : WithTimeout(d)
       \/ \E n \in Conns : WithMaxConnsPerHost(n)
       \/ \E l \in Loggers : WithLogger(l)

Next == New \/ Do

Spec == Init /\ [][Next]_vars

-----------------------------------------------------------------------------
(* Properties *)

\* The last value given to an option is v, or its default is if there is none.
LastGiven(kind, default, v) ==
    LET ofKind == {i \in DOMAIN given : given[i].kind = kind}
    IN  \/ ofKind = {} /\ v = default
        \/ \E i \in ofKind : v = given[i].value /\ \A j \in ofKind : j <= i

\* Whatever options come before and after it, the last value given to an option
\* is in force, and the request is logged once by the last logger and by no other.
LastOptionCounts ==
    /\ LastGiven("timeout", 0, timeout) /\ LastGiven("conns", 0, maxConns)
    /\ \A l \in Loggers : lines[l] = IF requested /\ <<l>> = wraps THEN 1 ELSE 0
    /\ IF wraps = <<>> THEN LastGiven("logger", 0, 0)
       ELSE Len(wraps) = 1 /\ LastGiven("logger", 0, wraps[1])

=============================================================================
