------------------------------ MODULE TodoData ------------------------------
(***************************************************************************)
(* The vocabulary of the todo API of server/: rows of the todos table, the *)
(* four requests on /api/v1/todos that name or create one row, and the     *)
(* answers.  TodoApi (statement by statement) and AtomicTodoApi (one       *)
(* atomic effect per request) both speak it.                               *)
(***************************************************************************)
EXTENDS Integers, FiniteSets

CONSTANTS
    Conns,      \* HTTP connections; each carries one request at a time
    Users,      \* user ids named by the JWTs that clients hold
    Texts,      \* todo texts (non-blank, already trimmed)
    MaxId,      \* bound on the number of todos ever inserted
    Anonymous,  \* the "user" of a request without a valid Bearer token
    BadId,      \* a {id} path element that strconv.ParseInt rejects
    Unset,      \* a JSON field that is absent (nil pointer)
    NoRow,      \* no row with this id
    Nothing,    \* no request, or no answer yet
    DbMayFail   \* may a SQL statement return an error of its own?

ASSUME TodoAssumption ==
    /\ MaxId \in Nat
    /\ DbMayFail \in BOOLEAN
    /\ Anonymous \notin Users
    /\ Unset \notin Texts /\ Unset \notin BOOLEAN
    /\ BadId \notin Nat

ASSUME ConnsFinite == IsFiniteSet(Conns)

Ids == 1..MaxId

Row == [owner : Users, text : Texts, done : BOOLEAN]

ASSUME NoRowAssumption == NoRow \notin Row

\* A body is malformed (not JSON), blank (an empty text) or ok.
Body == {"malformed", "blank", "ok"}

Request ==
    [op : {"create", "get", "patch", "delete"}, user : Users \cup {Anonymous},
     id : Ids \cup {BadId}, body : Body,
     text : Texts \cup {Unset}, done : BOOLEAN \cup {Unset}]

Answer == [status : {200, 201, 204, 400, 401, 403, 404, 422, 500},
           id : Ids \cup {BadId}, row : Row \cup {NoRow}]

Reply(status) == [status |-> status, id |-> BadId, row |-> NoRow]
ReplyRow(status, i, row) == [status |-> status, id |-> i, row |-> row]

\* What the body of a POST or PATCH is refused with, in the order of the code.
BodyRefusal(r) == IF r.body = "malformed" THEN 400 ELSE 422

\* Requests answered before any SQL statement: RequireAuth, the {id} of the
\* path, and the body of a POST, in that order.
Refused(r) ==
    \/ r.user = Anonymous
    \/ r.op # "create" /\ r.id = BadId
    \/ r.op = "create" /\ r.body # "ok"

RefusalOf(r) ==
    IF r.user = Anonymous THEN 401
    ELSE IF r.op # "create" THEN 400
    ELSE BodyRefusal(r)

Ask(op, users, ids, bodies, texts, dones) ==
    [op : op, user : users, id : ids, body : bodies, text : texts, done : dones]

\* The inputs worth distinguishing: fields a handler does not read are Unset.
Requests == UNION {
    Ask({"create", "get", "patch", "delete"}, {Anonymous}, {BadId}, {"ok"}, {Unset}, {Unset}),
    Ask({"get", "patch", "delete"}, Users, {BadId}, {"ok"}, {Unset}, {Unset}),
    Ask({"create", "patch"}, Users, {BadId}, Body \ {"ok"}, {Unset}, {Unset}),
    Ask({"create"}, Users, {BadId}, {"ok"}, Texts, {Unset}),
    Ask({"get", "delete"}, Users, Ids, {"ok"}, {Unset}, {Unset}),
    Ask({"patch"}, Users, Ids, Body \ {"ok"}, {Unset}, {Unset}),
    Ask({"patch"}, Users, Ids, {"ok"}, Texts \cup {Unset}, BOOLEAN \cup {Unset})}

\* Mutation of Merge: done is a bool instead of a *bool.
MergeZeroDone(owner, row, r) ==
    [owner |-> owner,
     text  |-> IF r.text = Unset THEN row.text ELSE r.text,
     done  |-> IF r.done = Unset THEN FALSE ELSE r.done]

\* Mutation of Merge: the nil tests are missing.
MergeUntested(owner, row, r) == [owner |-> owner, text |-> r.text, done |-> r.done]

\* UPDATE writes text and done, the named ones from the request and the others
\* from the row it was given; the owner is not among its columns.
Merge(owner, row, r) ==
    [owner |-> owner,
     text  |-> IF r.text = Unset THEN row.text ELSE r.text,
     done  |-> IF r.done = Unset THEN row.done ELSE r.done]

=============================================================================
