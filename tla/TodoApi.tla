------------------------------- MODULE TodoApi -------------------------------
(***************************************************************************)
(* The handlers of server/handlers_todos.go over the TodoRepo of           *)
(* server/db.go, one action per SQL statement.  The pool has one           *)
(* connection (SetMaxOpenConns(1)), so statements are atomic; handlers run *)
(* in their own goroutines, so between two statements of one handler any   *)
(* statement of another may run.                                           *)
(***************************************************************************)
EXTENDS TodoData

CONSTANT OneAtATime  \* do the clients of a user never overlap requests?

ASSUME OneAtATimeAssumption == OneAtATime \in BOOLEAN

VARIABLES
    todos,     \* the todos table: todos[i] is the row with id i, or NoRow
    todoSeq,   \* sqlite_sequence: the largest id ever assigned
    pc,        \* pc[c]: the statement the handler on c runs next
    req,       \* req[c]: the request, after RequireAuth put its user into ctx
    existing,  \* existing[c]: the row Update re-read before its UPDATE
    resp       \* resp[c]: the answer written to c

vars == <<todos, todoSeq, pc, req, existing, resp>>

Statements == {"insert", "get", "check", "reread", "update", "delete"}

TypeOK ==
    /\ todos \in [Ids -> Row \cup {NoRow}]
    /\ todoSeq \in 0..MaxId
    /\ pc \in [Conns -> Statements \cup {"idle", "answered"}]
    /\ req \in [Conns -> Requests \cup {Nothing}]
    /\ existing \in [Conns -> Row \cup {NoRow}]
    /\ resp \in [Conns -> Answer \cup {Nothing}]

Init ==
    /\ todos = [i \in Ids |-> NoRow]
    /\ todoSeq = 0
    /\ pc = [c \in Conns |-> "idle"]
    /\ req = [c \in Conns |-> Nothing]
    /\ existing = [c \in Conns |-> NoRow]
    /\ resp = [c \in Conns |-> Nothing]

-----------------------------------------------------------------------------

Goto(c, l) == pc' = [pc EXCEPT ![c] = l]

Answered(c, a) ==
    /\ Goto(c, "answered")
    /\ resp' = [resp EXCEPT ![c] = a]

\* Bound: there is an id left for every INSERT that is under way.
RoomFor(r) ==
    r.op = "create" =>
        todoSeq + Cardinality({c \in Conns : pc[c] = "insert"}) < MaxId

\* A client sends r on the idle connection c.
MaySend(c, r) ==
    /\ pc[c] = "idle"
    /\ OneAtATime => \A d \in Conns : pc[d] # "idle" => req[d].user # r.user

Refuse(c, r) ==
    /\ MaySend(c, r)
    /\ Refused(r)
    /\ req' = [req EXCEPT ![c] = r]
    /\ Answered(c, Reply(RefusalOf(r)))
    /\ UNCHANGED <<todos, todoSeq, existing>>

FirstStatement(r) == CASE r.op = "create" -> "insert"
                       [] r.op = "get"    -> "get"
                       [] r.op = "patch"  -> "check"
                       [] r.op = "delete" -> "check"

Accept(c, r) ==
    /\ MaySend(c, r)
    /\ ~Refused(r)
    /\ RoomFor(r)
    /\ req' = [req EXCEPT ![c] = r]
    /\ Goto(c, FirstStatement(r))
    /\ UNCHANGED <<todos, todoSeq, existing, resp>>

-----------------------------------------------------------------------------

\* Mutation of NewId: a plain INTEGER PRIMARY KEY takes the largest rowid + 1.
NewIdWithoutAutoincrement ==
    1 + CHOOSE m \in 0..MaxId :
            /\ m = 0 \/ todos[m] # NoRow
            /\ \A i \in Ids : todos[i] # NoRow => i <= m

\* TodoRepo.Create.  INTEGER PRIMARY KEY AUTOINCREMENT never reuses an id.
NewId == todoSeq + 1

\* A statement that fails may have taken effect (the context was cancelled
\* while its RETURNING row was read).
Done(c, a) == \/ Answered(c, a)
              \/ DbMayFail /\ Answered(c, Reply(500))

FailStatement(c) ==
    /\ DbMayFail
    /\ pc[c] \in {"insert", "update", "delete"}
    /\ Answered(c, Reply(500))
    /\ UNCHANGED <<todos, todoSeq, req, existing>>

InsertRow(c) ==
    LET row == [owner |-> req[c].user, text |-> req[c].text, done |-> FALSE] IN
    /\ pc[c] = "insert"
    /\ todoSeq' = NewId
    /\ todos' = [todos EXCEPT ![NewId] = row]
    /\ Done(c, ReplyRow(201, NewId, row))
    /\ UNCHANGED <<req, existing>>

\* TodoRepo.Get turns every error of its SELECT into ErrNotFound.
NotFound(c) == todos[req[c].id] = NoRow \/ DbMayFail

Found(c) == todos[req[c].id] # NoRow

\* Mutation of Mine: the owner test is missing.
MineUntested(c) == req[c].user \in Users

\* The owner test all three handlers make on the row they were given.
Mine(c) == todos[req[c].id].owner = req[c].user

GetMissing(c) ==
    /\ pc[c] \in {"get", "check", "reread"}
    /\ NotFound(c)
    /\ Answered(c, Reply(404))
    /\ UNCHANGED <<todos, todoSeq, req, existing>>

GetForeign(c) ==
    /\ pc[c] \in {"get", "check"}
    /\ Found(c) /\ ~Mine(c)
    /\ Answered(c, Reply(403))
    /\ UNCHANGED <<todos, todoSeq, req, existing>>

GetRow(c) ==
    /\ pc[c] = "get"
    /\ Found(c) /\ Mine(c)
    /\ Answered(c, ReplyRow(200, req[c].id, todos[req[c].id]))
    /\ UNCHANGED <<todos, todoSeq, req, existing>>

\* handleUpdateTodo looks at the body only after the owner test.
CheckBody(c) ==
    /\ pc[c] = "check"
    /\ Found(c) /\ Mine(c)
    /\ req[c].op = "patch" /\ req[c].body # "ok"
    /\ Answered(c, Reply(BodyRefusal(req[c])))
    /\ UNCHANGED <<todos, todoSeq, req, existing>>

CheckPass(c) ==
    /\ pc[c] = "check"
    /\ Found(c) /\ Mine(c)
    /\ req[c].body = "ok"
    /\ Goto(c, IF req[c].op = "patch" THEN "reread" ELSE "delete")
    /\ UNCHANGED <<todos, todoSeq, req, existing, resp>>

\* TodoRepo.Update: a second Get, then an UPDATE of both columns.
Reread(c) ==
    /\ pc[c] = "reread"
    /\ Found(c)
    /\ existing' = [existing EXCEPT ![c] = todos[req[c].id]]
    /\ Goto(c, "update")
    /\ UNCHANGED <<todos, todoSeq, req, resp>>

\* Mutation of UpdateRow: an upsert, which brings a deleted row back.
UpsertRow(c) ==
    LET i == req[c].id
        row == Merge(req[c].user, existing[c], req[c])
    IN  /\ pc[c] = "update"
        /\ todos' = [todos EXCEPT ![i] = row]
        /\ Done(c, ReplyRow(200, i, row))
        /\ UNCHANGED <<todoSeq, req, existing>>

\* Mutation of UpdateRow: answers with the row read before the UPDATE.
UpdateRowAnswersOld(c) ==
    LET i == req[c].id IN
    /\ pc[c] = "update"
    /\ Found(c)
    /\ todos' = [todos EXCEPT ![i] = Merge(todos[i].owner, existing[c], req[c])]
    /\ Done(c, ReplyRow(200, i, existing[c]))
    /\ UNCHANGED <<todoSeq, req, existing>>

\* The fields the request leaves out come from existing.
UpdateRow(c) ==
    LET i == req[c].id
        row == Merge(todos[i].owner, existing[c], req[c])
    IN  /\ pc[c] = "update"
        /\ Found(c)
        /\ todos' = [todos EXCEPT ![i] = row]
        /\ Done(c, ReplyRow(200, i, row))
        /\ UNCHANGED <<todoSeq, req, existing>>

\* sql.ErrNoRows of UPDATE ... RETURNING is not ErrNotFound: 500.
UpdateMissing(c) ==
    /\ pc[c] = "update"
    /\ ~Found(c)
    /\ Answered(c, Reply(500))
    /\ UNCHANGED <<todos, todoSeq, req, existing>>

DeleteRow(c) ==
    /\ pc[c] = "delete"
    /\ Found(c)
    /\ todos' = [todos EXCEPT ![req[c].id] = NoRow]
    /\ Done(c, Reply(204))
    /\ UNCHANGED <<todoSeq, req, existing>>

\* Mutation of DeleteMissing: RowsAffected is not looked at.
DeleteMissingUnnoticed(c) ==
    /\ pc[c] = "delete"
    /\ ~Found(c)
    /\ Answered(c, Reply(204))
    /\ UNCHANGED <<todos, todoSeq, req, existing>>

\* RowsAffected = 0.
DeleteMissing(c) ==
    /\ pc[c] = "delete"
    /\ ~Found(c)
    /\ Answered(c, Reply(404))
    /\ UNCHANGED <<todos, todoSeq, req, existing>>

\* The client has the answer; the connection is free again.
Finish(c) ==
    /\ pc[c] = "answered"
    /\ Goto(c, "idle")
    /\ req' = [req EXCEPT ![c] = Nothing]
    /\ existing' = [existing EXCEPT ![c] = NoRow]
    /\ resp' = [resp EXCEPT ![c] = Nothing]
    /\ UNCHANGED <<todos, todoSeq>>

\* One statement of the handler on c, with the code up to the next one.
Statement(c) ==
    \/ InsertRow(c) \/ FailStatement(c)
    \/ GetMissing(c) \/ GetForeign(c) \/ GetRow(c)
    \/ CheckBody(c) \/ CheckPass(c) \/ Reread(c)
    \/ UpdateRow(c) \/ UpdateMissing(c)
    \/ DeleteRow(c) \/ DeleteMissing(c)

Send(c) == \E r \in Requests : Refuse(c, r) \/ Accept(c, r)

Next == \E c \in Conns : Send(c) \/ Statement(c) \/ Finish(c)

Spec == Init /\ [][Next]_vars

-----------------------------------------------------------------------------
(* Properties *)

\* The owner test stays valid until the write it guards: whenever a handler is
\* past it and the row still exists, the row belongs to the requester, whatever
\* was deleted and created in between (handlers_todos.go, Get then Update/Delete).
CheckedRowIsMine ==
    \A c \in Conns :
        pc[c] \in {"reread", "update", "delete"} /\ Found(c) => Mine(c)

\* No step changes or removes a row except the UPDATE or DELETE of a request
\* made by its owner, and no step changes an owner.
WriteByOwner ==
    \A i \in Ids :
        todos[i] # NoRow /\ todos'[i] # todos[i] =>
            /\ \E c \in Conns :
                  /\ pc[c] \in {"update", "delete"} /\ pc'[c] = "answered"
                  /\ req[c].id = i /\ req[c].user = todos[i].owner
            /\ todos'[i] # NoRow => todos'[i].owner = todos[i].owner

OnlyOwnerWrites == [][WriteByOwner]_vars

\* A deleted id never names a row again, so an id a client kept is either its
\* row or not found (AUTOINCREMENT; UPDATE never inserts).
DeletedStays == \A i \in Ids : i <= todoSeq /\ todos[i] = NoRow => todos'[i] = NoRow

DeletedForGood == [][DeletedStays]_vars

\* The handlers look atomic: one effect per request at one instant, with the
\* answer right at that instant.  A request is "working" from its arrival until
\* its answer, whatever statement it has reached.
Phase == [c \in Conns |-> IF pc[c] \in Statements THEN "working" ELSE pc[c]]

Atomic == INSTANCE AtomicTodoApi WITH phase <- Phase

AtomicSpec == Atomic!Spec

\* A PATCH leaves the fields it does not name as they are at the moment of the
\* UPDATE.  Holds when one user's requests do not overlap (OneAtATime): then
\* the row that Update re-read is still current when it is written back.
PatchKeepsUnset ==
    [][\A c \in Conns :
          UpdateRow(c) =>
              LET i == req[c].id IN
              /\ req[c].text = Unset => todos'[i].text = todos[i].text
              /\ req[c].done = Unset => todos'[i].done = todos[i].done]_vars

\* What a user is told stays true until that user acts again: a 200 or 201
\* shows the row as it is, after a 204 or 404 the user has no such row, and a
\* database that works never makes the API answer 500.  Needs OneAtATime and ~DbMayFail.
AnswerIsCurrent ==
    \A c \in Conns : pc[c] = "answered" =>
        LET a == resp[c] IN
        /\ a.status \in {200, 201} => todos[a.id] = a.row
        /\ a.status \in {204, 404} => ~Found(c) \/ ~Mine(c)
        /\ a.status # 500

=============================================================================
