--------------------------- MODULE AtomicTodoApi ---------------------------
(***************************************************************************)
(* What the todo API promises a client: between its arrival and its answer *)
(* every request takes effect at ONE instant, and its status code is right *)
(* at that instant.  The one weakness the code has, and this specification *)
(* therefore grants, is PATCH: a field the request leaves out may be       *)
(* written back with another value, and a row deleted meanwhile may be     *)
(* reported as 500 instead of 404.                                         *)
(***************************************************************************)
EXTENDS TodoData

VARIABLES
    todos,     \* todos[i]: the row with id i, or NoRow
    todoSeq,   \* ids 1..todoSeq have been handed out
    phase,     \* phase[c] \in {"idle", "working", "answered"}
    req,       \* req[c]: the request on connection c
    resp       \* resp[c]: its answer

vars == <<todos, todoSeq, phase, req, resp>>

Init ==
    /\ todos = [i \in Ids |-> NoRow]
    /\ todoSeq = 0
    /\ phase = [c \in Conns |-> "idle"]
    /\ req = [c \in Conns |-> Nothing]
    /\ resp = [c \in Conns |-> Nothing]

Answered(c, a) ==
    /\ phase' = [phase EXCEPT ![c] = "answered"]
    /\ resp' = [resp EXCEPT ![c] = a]

\* A request that is refused before it reaches the table.
Refuse(c, r) ==
    /\ phase[c] = "idle"
    /\ Refused(r)
    /\ req' = [req EXCEPT ![c] = r]
    /\ Answered(c, Reply(RefusalOf(r)))
    /\ UNCHANGED <<todos, todoSeq>>

Begin(c, r) ==
    /\ phase[c] = "idle"
    /\ ~Refused(r)
    /\ req' = [req EXCEPT ![c] = r]
    /\ phase' = [phase EXCEPT ![c] = "working"]
    /\ UNCHANGED <<todos, todoSeq, resp>>

\* The answer without an effect, and the states that justify it.
NoEffect(c) ==
    LET r == req[c] IN
    /\ phase[c] = "working"
    /\ \/ r.op # "create" /\ todos[r.id] = NoRow /\ Answered(c, Reply(404))
       \/ r.op = "patch" /\ todos[r.id] = NoRow /\ Answered(c, Reply(500))
       \/ /\ r.op # "create" /\ todos[r.id] # NoRow
          /\ todos[r.id].owner # r.user
          /\ Answered(c, Reply(403))
       \/ /\ r.op = "get" /\ todos[r.id] # NoRow /\ todos[r.id].owner = r.user
          /\ Answered(c, ReplyRow(200, r.id, todos[r.id]))
       \/ /\ r.op = "patch" /\ r.body # "ok"
          /\ todos[r.id] # NoRow /\ todos[r.id].owner = r.user
          /\ Answered(c, Reply(BodyRefusal(r)))
       \/ DbMayFail /\ r.op # "create" /\ Answered(c, Reply(404))
       \/ DbMayFail /\ r.op # "get" /\ Answered(c, Reply(500))
    /\ UNCHANGED <<todos, todoSeq, req>>

\* The instant a write takes effect.  A failing statement may have had it.
Replied(c, a) == \/ Answered(c, a)
                 \/ DbMayFail /\ Answered(c, Reply(500))

Insert(c) ==
    LET i == todoSeq + 1
        row == [owner |-> req[c].user, text |-> req[c].text, done |-> FALSE]
    IN  /\ phase[c] = "working" /\ req[c].op = "create"
        /\ i \in Ids
        /\ todoSeq' = i
        /\ todos' = [todos EXCEPT ![i] = row]
        /\ Replied(c, ReplyRow(201, i, row))
        /\ UNCHANGED req

Write(c) ==
    LET i == req[c].id IN
    /\ phase[c] = "working" /\ req[c].op = "patch" /\ req[c].body = "ok"
    /\ todos[i] # NoRow /\ todos[i].owner = req[c].user
    /\ \E old \in Row :
           /\ todos' = [todos EXCEPT ![i] = Merge(req[c].user, old, req[c])]
           /\ Replied(c, ReplyRow(200, i, Merge(req[c].user, old, req[c])))
    /\ UNCHANGED <<todoSeq, req>>

Remove(c) ==
    LET i == req[c].id IN
    /\ phase[c] = "working" /\ req[c].op = "delete"
    /\ todos[i] # NoRow /\ todos[i].owner = req[c].user
    /\ todos' = [todos EXCEPT ![i] = NoRow]
    /\ Replied(c, Reply(204))
    /\ UNCHANGED <<todoSeq, req>>

Finish(c) ==
    /\ phase[c] = "answered"
    /\ phase' = [phase EXCEPT ![c] = "idle"]
    /\ req' = [req EXCEPT ![c] = Nothing]
    /\ resp' = [resp EXCEPT ![c] = Nothing]
    /\ UNCHANGED <<todos, todoSeq>>

Next == \E c \in Conns :
    \/ \E r \in Requests : Refuse(c, r) \/ Begin(c, r)
    \/ NoEffect(c) \/ Insert(c) \/ Write(c) \/ Remove(c) \/ Finish(c)

Spec == Init /\ [][Next]_vars

=============================================================================
