------------------------------ MODULE Lifecycle ------------------------------
(***************************************************************************)
(* The life of a server process: Run of server/main.go.  http.Server takes *)
(* connections until SIGINT or SIGTERM; Shutdown then closes the listener  *)
(* and waits, ShutdownTimeout long at most, until no connection is in use; *)
(* Run returns and its deferred calls close the database.  Connections and *)
(* Shutdown are those of net/http.                                         *)
(***************************************************************************)
EXTENDS Integers

CONSTANTS
    Conns,            \* connections of clients
    ReadTimeout,      \* http.Server.ReadTimeout: 15 s
    WriteTimeout,     \* http.Server.WriteTimeout: 30 s
    ShutdownTimeout,  \* of the context given to Shutdown: 30 s
    Grace,            \* how long Shutdown leaves a new connection: 5 s
    MaxTime           \* bound: ticks of the clock

VARIABLES
    now,       \* the clock
    phase,     \* "up", "draining" (in Shutdown), "stopped", "exited"
    deadline,  \* when the context of Shutdown ends
    conn,      \* conn[c]: "closed", "new", "active" (handling) or "idle"
    since,     \* since[c]: when c came to be in that state
    signalled  \* history: when the signal came

vars == <<now, phase, deadline, conn, since, signalled>>

TypeOK ==
    /\ now \in 0..MaxTime /\ signalled \in 0..MaxTime
    /\ phase \in {"up", "draining", "stopped", "exited"}
    /\ deadline \in Nat
    /\ conn \in [Conns -> {"closed", "new", "active", "idle"}]
    /\ since \in [Conns -> 0..MaxTime]

Init ==
    /\ now = 0 /\ signalled = 0
    /\ phase = "up"
    /\ deadline = 0
    /\ conn = [c \in Conns |-> "closed"]
    /\ since = [c \in Conns |-> 0]

Becomes(c, state) ==
    /\ conn' = [conn EXCEPT ![c] = state]
    /\ since' = [since EXCEPT ![c] = IF state = "closed" THEN 0 ELSE now]

Running == phase \in {"up", "draining"}

-----------------------------------------------------------------------------
(* Connections *)

\* The listener accepts.
Accept(c) ==
    /\ phase = "up" /\ conn[c] = "closed"
    /\ Becomes(c, "new")
    /\ UNCHANGED <<now, phase, deadline, signalled>>

\* The header of a request has been read: its handler is called, and the
\* WriteTimeout starts.  This may happen in Shutdown too.
Request(c) ==
    /\ Running
    /\ conn[c] = "idle" \/ (conn[c] = "new" /\ now <= since[c] + ReadTimeout)
    /\ Becomes(c, "active")
    /\ UNCHANGED <<now, phase, deadline, signalled>>

\* No header within ReadTimeout.
NoRequest(c) ==
    /\ Running
    /\ conn[c] = "new" /\ now > since[c] + ReadTimeout
    /\ Becomes(c, "closed")
    /\ UNCHANGED <<now, phase, deadline, signalled>>

\* The handler answers in time; the connection is kept unless in Shutdown.
Answer(c) ==
    /\ Running
    /\ conn[c] = "active" /\ now < since[c] + WriteTimeout
    /\ Becomes(c, IF phase = "up" THEN "idle" ELSE "closed")
    /\ UNCHANGED <<now, phase, deadline, signalled>>

\* The handler is done too late to write its answer.
TooLate(c) ==
    /\ Running
    /\ conn[c] = "active" /\ now >= since[c] + WriteTimeout
    /\ Becomes(c, "closed")
    /\ UNCHANGED <<now, phase, deadline, signalled>>

-----------------------------------------------------------------------------
(* Run *)

\* ListenAndServe fails: os.Exit(1), with whatever is in progress.
ListenFails ==
    /\ phase = "up"
    /\ phase' = "exited"
    /\ UNCHANGED <<now, deadline, conn, since, signalled>>

\* Mutation of Signal: Shutdown is given the shorter of the timeouts.
SignalHurried ==
    /\ phase = "up"
    /\ phase' = "draining"
    /\ deadline' = now + ReadTimeout
    /\ signalled' = now
    /\ UNCHANGED <<now, conn, since>>

\* <-quit; Shutdown closes the listener.  A second signal is not waited for.
Signal ==
    /\ phase = "up"
    /\ phase' = "draining"
    /\ deadline' = now + ShutdownTimeout
    /\ signalled' = now
    /\ UNCHANGED <<now, conn, since>>

\* What Shutdown closes: idle connections, and new ones after Grace.
Closes(c) == conn[c] = "idle" \/ (conn[c] = "new" /\ since[c] + Grace < now)

\* Shutdown looks at the connections, and returns when none is left.
Poll ==
    /\ phase = "draining"
    /\ conn' = [c \in Conns |-> IF Closes(c) THEN "closed" ELSE conn[c]]
    /\ since' = [c \in Conns |-> IF Closes(c) THEN 0 ELSE since[c]]
    /\ phase' = IF \A c \in Conns : conn'[c] = "closed" THEN "stopped" ELSE phase
    /\ UNCHANGED <<now, deadline, signalled>>

\* Shutdown returns context.DeadlineExceeded.
GiveUp ==
    /\ phase = "draining" /\ now >= deadline
    /\ phase' = "stopped"
    /\ UNCHANGED <<now, deadline, conn, since, signalled>>

\* Bound: MaxTime.
Tick ==
    /\ now < MaxTime /\ Running
    /\ phase = "draining" => now < deadline
    /\ now' = now + 1
    /\ UNCHANGED <<phase, deadline, conn, since, signalled>>

Next ==
    \/ \E c \in Conns :
          Accept(c) \/ Request(c) \/ NoRequest(c) \/ Answer(c) \/ TooLate(c)
    \/ ListenFails \/ Signal \/ Poll \/ GiveUp \/ Tick

Spec == Init /\ [][Next]_vars

-----------------------------------------------------------------------------
(* Properties *)

\* When Run closes the database after a signal, every request that was being
\* handled at the signal has been answered, or has passed its WriteTimeout.
\* (One whose header came later may be cut off.)
InFlightDrained ==
    phase = "stopped" =>
        \A c \in Conns : conn[c] = "active" /\ since[c] <= signalled =>
            since[c] + WriteTimeout <= now

=============================================================================
