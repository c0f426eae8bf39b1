--------------------------- MODULE TodoApiProofs ---------------------------
(***************************************************************************)
(* What TodoApi guarantees for any number of connections, users, texts and *)
(* ids: its inductive invariant, the ownership properties, and that the    *)
(* statement-by-statement handlers implement AtomicTodoApi.                *)
(***************************************************************************)
EXTENDS TodoApi, FiniteSetTheorems, TLAPS

Inserting == {c \in Conns : pc[c] = "insert"}

\* The bound of the model: every INSERT under way still has an id.
Room == todoSeq + Cardinality(Inserting) <= MaxId

\* A handler that has a statement to run carries a request that the checks
\* before the first statement let through, and of the kind its statement is for.
RequestOf(c) ==
    /\ req[c] \in Requests /\ ~Refused(req[c])
    /\ pc[c] = "insert" <=> req[c].op = "create"
    /\ pc[c] = "get" => req[c].op = "get"
    /\ pc[c] = "check" => req[c].op \in {"patch", "delete"}
    /\ pc[c] \in {"reread", "update"} => req[c].op = "patch" /\ req[c].body = "ok"
    /\ pc[c] = "delete" => req[c].op = "delete"

\* Past the owner test the id has been handed out, so no INSERT can bring a
\* foreign row under it.
Checked(c) ==
    /\ req[c].id \in 1..todoSeq
    /\ Found(c) => Mine(c)

Inv ==
    /\ TypeOK
    /\ Room
    /\ \A i \in Ids : i > todoSeq => todos[i] = NoRow
    /\ \A c \in Conns : pc[c] \in Statements => RequestOf(c)
    /\ \A c \in Conns : pc[c] \in {"reread", "update", "delete"} => Checked(c)
    /\ \A c \in Conns : pc[c] = "update" => existing[c] \in Row

-----------------------------------------------------------------------------
(* Facts about the data. *)

\* Every request is well typed, and one that is not refused carries what the
\* statements read: a user, an id unless it creates, a text if it creates.
LEMMA RequestFacts ==
    ASSUME NEW r \in Requests
    PROVE  /\ r \in Request
           /\ ~Refused(r) =>
                 /\ r.user \in Users
                 /\ r.op # "create" => r.id \in Ids
                 /\ r.op = "create" => r.body = "ok" /\ r.text \in Texts
                 /\ r.op \in {"create", "get", "patch", "delete"}
                 /\ r.op = "delete" => r.body = "ok"
  BY TodoAssumption DEF Requests, Ask, Request, Refused, Body, Ids

\* A merge of a row with a PATCH is a row with the same owner.
LEMMA MergeFacts ==
    ASSUME NEW u \in Users, NEW row \in Row, NEW r \in Request
    PROVE  Merge(u, row, r) \in Row /\ Merge(u, row, r).owner = u
  BY DEF Merge, Row, Request

LEMMA ReplyType ==
    /\ \A s \in {200, 201, 204, 400, 401, 403, 404, 422, 500} : Reply(s) \in Answer
    /\ \A s \in {200, 201}, i \in Ids, row \in Row : ReplyRow(s, i, row) \in Answer
  BY DEF Reply, ReplyRow, Answer

LEMMA InitInv == Init => Inv
<1> SUFFICES ASSUME Init PROVE Inv
  OBVIOUS
<1>1. TypeOK
  BY TodoAssumption DEF Init, TypeOK
<1>2. Inserting = {}
  BY DEF Init, Inserting
<1>3. Room
  BY <1>2, FS_EmptySet, TodoAssumption DEF Init, Room
<1> QED
  BY <1>1, <1>3 DEF Init, Inv, Statements

-----------------------------------------------------------------------------
(* Invariance, one lemma per part of Inv that needs an argument of its own. *)

LEMMA TypeStep == Inv /\ Next => TypeOK'
<1> SUFFICES ASSUME Inv, NEW c \in Conns, Send(c) \/ Statement(c) \/ Finish(c)
             PROVE  TypeOK'
  BY DEF Next
<1> USE DEF Inv, TypeOK, Statements, Goto, Answered
<1>1. ASSUME Send(c) PROVE TypeOK'
  <2>1. PICK r \in Requests : Refuse(c, r) \/ Accept(c, r)
    BY <1>1 DEF Send
  <2>2. CASE Refuse(c, r)
    <3>1. Reply(RefusalOf(r)) \in Answer
      BY ReplyType DEF RefusalOf, BodyRefusal
    <3> QED
      BY <2>2, <3>1 DEF Refuse
  <2>3. CASE Accept(c, r)
    <3>1. FirstStatement(r) \in Statements
      BY <2>3, RequestFacts DEF Accept, FirstStatement
    <3> QED
      BY <2>3, <3>1 DEF Accept
  <2> QED
    BY <2>1, <2>2, <2>3
<1>2. CASE InsertRow(c)
  <2>1. RequestOf(c) /\ c \in Inserting
    BY <1>2 DEF InsertRow, Inserting
  <2>2. req[c].user \in Users /\ req[c].text \in Texts
    BY <2>1, RequestFacts, <1>2 DEF RequestOf, InsertRow
  <2>3. Cardinality(Inserting) \in Nat /\ Cardinality(Inserting) # 0
    <3>1. IsFiniteSet(Inserting)
      BY ConnsFinite, FS_Subset DEF Inserting
    <3> QED
      BY <3>1, <2>1, FS_CardinalityType, FS_EmptySet
  <2>4. NewId \in Ids
    BY <2>3, TodoAssumption DEF Room, NewId, Ids
  <2> DEFINE row == [owner |-> req[c].user, text |-> req[c].text, done |-> FALSE]
  <2>5. row \in Row
    BY <2>2 DEF Row
  <2>6. ReplyRow(201, NewId, row) \in Answer /\ Reply(500) \in Answer
    BY <2>4, <2>5, ReplyType
  <2> HIDE DEF row
  <2>7. /\ todoSeq' = NewId /\ todos' = [todos EXCEPT ![NewId] = row]
        /\ pc' = [pc EXCEPT ![c] = "answered"]
        /\ \/ resp' = [resp EXCEPT ![c] = ReplyRow(201, NewId, row)]
           \/ resp' = [resp EXCEPT ![c] = Reply(500)]
        /\ UNCHANGED <<req, existing>>
    BY <1>2 DEF InsertRow, Done, row
  <2> QED
    BY <2>4, <2>5, <2>6, <2>7, TodoAssumption DEF Ids
<1>3. ASSUME UpdateRow(c) PROVE TypeOK'
  <2> DEFINE i == req[c].id
             row == Merge(todos[i].owner, existing[c], req[c])
  <2>1. RequestOf(c) /\ existing[c] \in Row /\ Found(c)
    BY <1>3 DEF UpdateRow
  <2>2. i \in Ids /\ req[c] \in Request
    BY <2>1, RequestFacts, <1>3 DEF RequestOf, UpdateRow
  <2>3. todos[i] \in Row
    BY <2>1, <2>2 DEF Found
  <2>4. row \in Row
    BY <2>1, <2>2, <2>3, MergeFacts DEF Row
  <2>5. ReplyRow(200, i, row) \in Answer /\ Reply(500) \in Answer
    BY <2>2, <2>4, ReplyType
  <2>6. /\ todos' = [todos EXCEPT ![i] = row]
        /\ pc' = [pc EXCEPT ![c] = "answered"]
        /\ \/ resp' = [resp EXCEPT ![c] = ReplyRow(200, i, row)]
           \/ resp' = [resp EXCEPT ![c] = Reply(500)]
        /\ UNCHANGED <<todoSeq, req, existing>>
    BY <1>3 DEF UpdateRow, Done
  <2> HIDE DEF row
  <2> QED
    BY <2>2, <2>4, <2>5, <2>6
<1>4. CASE GetRow(c)
  <2>1. RequestOf(c) /\ req[c].id \in Ids
    BY <1>4, RequestFacts DEF GetRow, RequestOf
  <2>2. todos[req[c].id] \in Row
    BY <1>4, <2>1 DEF GetRow, Found
  <2>3. ReplyRow(200, req[c].id, todos[req[c].id]) \in Answer
    BY <2>1, <2>2, ReplyType
  <2> QED
    BY <1>4, <2>3 DEF GetRow
<1>5. CASE Reread(c)
  <2>1. RequestOf(c) /\ req[c].id \in Ids
    BY <1>5, RequestFacts DEF Reread, RequestOf
  <2> QED
    BY <1>5, <2>1 DEF Reread
<1>6. CASE DeleteRow(c)
  <2>1. Reply(204) \in Answer /\ Reply(500) \in Answer
    BY ReplyType
  <2>2. /\ todos' = [todos EXCEPT ![req[c].id] = NoRow]
        /\ pc' = [pc EXCEPT ![c] = "answered"]
        /\ \/ resp' = [resp EXCEPT ![c] = Reply(204)]
           \/ resp' = [resp EXCEPT ![c] = Reply(500)]
        /\ UNCHANGED <<todoSeq, req, existing>>
    BY <1>6 DEF DeleteRow, Done
  <2>3. req[c].id \in Ids
    BY <1>6, RequestFacts DEF DeleteRow, RequestOf
  <2> QED
    BY <2>1, <2>2, <2>3
<1>7. CASE CheckBody(c)
  <2>1. Reply(BodyRefusal(req[c])) \in Answer
    BY ReplyType DEF BodyRefusal
  <2> QED
    BY <1>7, <2>1 DEF CheckBody
<1>8. CASE GetMissing(c) \/ GetForeign(c) \/ FailStatement(c)
           \/ UpdateMissing(c) \/ DeleteMissing(c)
  BY <1>8, ReplyType DEF GetMissing, GetForeign, FailStatement, UpdateMissing, DeleteMissing
<1>9. CASE CheckPass(c)
  BY <1>9 DEF CheckPass
<1>10. CASE Finish(c)
  BY <1>10 DEF Finish
<1> QED
  BY <1>1, <1>2, <1>3, <1>4, <1>5, <1>6, <1>7, <1>8, <1>9, <1>10 DEF Statement

LEMMA RoomStep == Inv /\ Next => Room'
<1> SUFFICES ASSUME Inv, NEW c \in Conns, Send(c) \/ Statement(c) \/ Finish(c)
             PROVE  Room'
  BY DEF Next
<1>1. IsFiniteSet(Inserting) /\ Cardinality(Inserting) \in Nat
  BY ConnsFinite, FS_Subset, FS_CardinalityType DEF Inserting
<1>2. todoSeq \in Int /\ MaxId \in Int /\ todoSeq + Cardinality(Inserting) <= MaxId
  BY TodoAssumption DEF Inv, TypeOK, Room
<1>3. ASSUME UNCHANGED todoSeq, Inserting' = Inserting PROVE Room'
  BY <1>2, <1>3 DEF Room
<1> USE DEF Goto, Answered, Inv, TypeOK
<1>4. ASSUME NEW r \in Requests, Refuse(c, r) PROVE Room'
  <2>1. Inserting' = Inserting
    BY <1>4 DEF Refuse, MaySend, Inserting
  <2> QED
    BY <1>3, <1>4, <2>1 DEF Refuse
<1>5. ASSUME NEW r \in Requests, Accept(c, r) PROVE Room'
  <2>1. CASE r.op = "create"
    <3>1. c \notin Inserting /\ Inserting' = Inserting \cup {c}
      BY <1>5, <2>1 DEF Accept, MaySend, FirstStatement, Inserting
    <3>2. Cardinality(Inserting') = Cardinality(Inserting) + 1
      BY <1>1, <3>1, FS_AddElement
    <3>3. todoSeq + Cardinality(Inserting) < MaxId
      BY <1>5, <2>1 DEF Accept, RoomFor, Inserting
    <3> QED
      BY <1>1, <1>2, <1>5, <3>2, <3>3 DEF Accept, Room
  <2>2. CASE r.op # "create"
    <3>1. FirstStatement(r) # "insert"
      BY <1>5, <2>2, RequestFacts DEF Accept, FirstStatement
    <3>2. Inserting' = Inserting
      BY <1>5, <3>1 DEF Accept, MaySend, Inserting
    <3> QED
      BY <1>3, <1>5, <3>2 DEF Accept
  <2> QED
    BY <2>1, <2>2
<1>6. ASSUME InsertRow(c) PROVE Room'
  <2>1. c \in Inserting /\ Inserting' = Inserting \ {c}
    BY <1>6 DEF InsertRow, Done, Inserting
  <2>2. Cardinality(Inserting') = Cardinality(Inserting) - 1
    BY <1>1, <2>1, FS_RemoveElement
  <2>3. todoSeq' = todoSeq + 1
    BY <1>6 DEF InsertRow, NewId
  <2> QED
    BY <1>1, <1>2, <2>2, <2>3 DEF Room
<1>7. ASSUME FailStatement(c) PROVE Room'
  <2>1. Inserting' = Inserting \ {c} /\ todoSeq' = todoSeq
    BY <1>7 DEF FailStatement, Inserting
  <2>2. Cardinality(Inserting \ {c}) \in {Cardinality(Inserting), Cardinality(Inserting) - 1}
    BY <1>1, FS_RemoveElement
  <2> QED
    BY <1>1, <1>2, <2>1, <2>2 DEF Room
<1>8. ASSUME \/ GetMissing(c) \/ GetForeign(c) \/ GetRow(c) \/ CheckBody(c)
             \/ CheckPass(c) \/ Reread(c) \/ UpdateRow(c) \/ UpdateMissing(c)
             \/ DeleteRow(c) \/ DeleteMissing(c) \/ Finish(c)
      PROVE  Room'
  <2>1. pc[c] # "insert" /\ UNCHANGED todoSeq
    BY <1>8 DEF GetMissing, GetForeign, GetRow, CheckBody, CheckPass, Reread,
        UpdateRow, UpdateMissing, DeleteRow, DeleteMissing, Finish
  <2>2. \E l : l # "insert" /\ pc' = [pc EXCEPT ![c] = l]
    BY <1>8 DEF GetMissing, GetForeign, GetRow, CheckBody, CheckPass, Reread,
        UpdateRow, UpdateMissing, DeleteRow, DeleteMissing, Finish, Done
  <2>3. Inserting' = Inserting
    BY <2>1, <2>2 DEF Inserting
  <2> QED
    BY <1>3, <2>1, <2>3
<1> QED
  BY <1>4, <1>5, <1>6, <1>7, <1>8 DEF Send, Statement

\* A step of connection c leaves the handlers on the other connections alone.
LEMMA OthersUntouched ==
    ASSUME TypeOK, NEW c \in Conns, Send(c) \/ Statement(c) \/ Finish(c),
           NEW d \in Conns, d # c
    PROVE  pc'[d] = pc[d] /\ req'[d] = req[d] /\ existing'[d] = existing[d]
<1> USE DEF TypeOK, Goto, Answered
<1>1. ASSUME Send(c) \/ Finish(c)
      PROVE  pc'[d] = pc[d] /\ req'[d] = req[d] /\ existing'[d] = existing[d]
  BY <1>1 DEF Send, Refuse, Accept, Finish
<1>2. ASSUME Statement(c)
      PROVE  pc'[d] = pc[d] /\ req'[d] = req[d] /\ existing'[d] = existing[d]
  BY <1>2 DEF Statement, GetMissing, GetForeign, GetRow, CheckBody, CheckPass, Reread,
      UpdateRow, UpdateMissing, DeleteRow, DeleteMissing, InsertRow, FailStatement, Done
<1> QED
  BY <1>1, <1>2

\* What a step of c does to the table: an INSERT under the next id, a write or
\* removal of the row c asked for, or nothing.
LEMMA TableStep ==
    ASSUME Inv, NEW c \in Conns, Send(c) \/ Statement(c) \/ Finish(c)
    PROVE  \/ UNCHANGED <<todos, todoSeq>>
           \/ /\ InsertRow(c)
              /\ todoSeq' = todoSeq + 1
              /\ \A i \in Ids : i # todoSeq + 1 => todos'[i] = todos[i]
           \/ /\ UpdateRow(c) \/ DeleteRow(c)
              /\ todoSeq' = todoSeq
              /\ req[c].id \in 1..todoSeq /\ Found(c) /\ Mine(c)
              /\ todos'[req[c].id] # NoRow => todos'[req[c].id].owner = req[c].user
              /\ \A i \in Ids : i # req[c].id => todos'[i] = todos[i]
<1>1. CASE InsertRow(c)
  BY <1>1 DEF InsertRow, NewId, Inv, TypeOK
<1>2. CASE UpdateRow(c)
  <2>1. Checked(c) /\ Found(c) /\ todoSeq' = todoSeq
    BY <1>2 DEF UpdateRow, Inv
  <2>2. req[c].id \in Ids /\ req[c].id \in 1..todoSeq /\ Mine(c)
    BY <2>1, TodoAssumption DEF Checked, Inv, TypeOK, Ids
  <2>3. todos' = [todos EXCEPT ![req[c].id] = Merge(todos[req[c].id].owner, existing[c], req[c])]
    BY <1>2 DEF UpdateRow
  <2>4. Merge(todos[req[c].id].owner, existing[c], req[c]).owner = req[c].user
    BY <2>2 DEF Merge, Mine
  <2>5. /\ todos'[req[c].id].owner = req[c].user
        /\ \A i \in Ids : i # req[c].id => todos'[i] = todos[i]
    BY <2>2, <2>3, <2>4 DEF Inv, TypeOK
  <2> QED
    BY <1>2, <2>1, <2>2, <2>5
<1>3. CASE DeleteRow(c)
  <2>1. Checked(c) /\ Found(c)
    BY <1>3 DEF DeleteRow, Inv
  <2> QED
    BY <1>3, <2>1, TodoAssumption DEF DeleteRow, Checked, Inv, TypeOK, Ids
<1>4. CASE Send(c)
  BY <1>4 DEF Send, Refuse, Accept
<1>5. CASE \/ FailStatement(c) \/ GetMissing(c) \/ GetForeign(c) \/ GetRow(c)
           \/ CheckBody(c) \/ CheckPass(c) \/ Reread(c) \/ UpdateMissing(c)
           \/ DeleteMissing(c) \/ Finish(c)
  BY <1>5 DEF FailStatement, GetMissing, GetForeign, GetRow, CheckBody, CheckPass,
      Reread, UpdateMissing, DeleteMissing, Finish
<1> QED
  BY <1>1, <1>2, <1>3, <1>4, <1>5 DEF Statement

LEMMA RequestStep ==
    ASSUME Inv, Next
    PROVE  \A d \in Conns : pc'[d] \in Statements => RequestOf(d)'
<1> PICK c \in Conns : Send(c) \/ Statement(c) \/ Finish(c)
  BY DEF Next
<1> SUFFICES ASSUME NEW d \in Conns, pc'[d] \in Statements
             PROVE  RequestOf(d)'
  OBVIOUS
<1>1. CASE d # c
  BY <1>1, OthersUntouched DEF Inv, RequestOf
<1>2. CASE d = c
  <2> USE DEF Inv, TypeOK, Goto, Answered
  <2>1. CASE Finish(c)
    BY <1>2, <2>1 DEF Finish, Statements
  <2>2. ASSUME Send(c) PROVE RequestOf(c)'
    <3>1. PICK r \in Requests : Accept(c, r)
      BY <1>2, <2>2 DEF Send, Refuse, Statements
    <3>2. pc'[c] = FirstStatement(r) /\ req'[c] = r /\ ~Refused(r)
      BY <3>1 DEF Accept
    <3>3. /\ r.op = "delete" => r.body = "ok"
          /\ r.op \in {"create", "get", "patch", "delete"}
      BY <3>2, RequestFacts
    <3> QED
      BY <3>2, <3>3 DEF RequestOf, FirstStatement
  <2>3. CASE CheckPass(c)
    <3>1. RequestOf(c) /\ req'[c] = req[c]
      BY <2>3 DEF CheckPass, Statements
    <3>2. pc'[c] = IF req[c].op = "patch" THEN "reread" ELSE "delete"
      BY <2>3 DEF CheckPass
    <3> QED
      BY <1>2, <2>3, <3>1, <3>2 DEF RequestOf, CheckPass
  <2>4. CASE Reread(c)
    BY <1>2, <2>4 DEF Reread, RequestOf, Statements
  <2>5. CASE \/ InsertRow(c) \/ FailStatement(c) \/ GetMissing(c) \/ GetForeign(c)
             \/ GetRow(c) \/ CheckBody(c) \/ UpdateRow(c) \/ UpdateMissing(c)
             \/ DeleteRow(c) \/ DeleteMissing(c)
    <3>1. pc'[c] = "answered"
      BY <2>5 DEF InsertRow, FailStatement, GetMissing, GetForeign, GetRow, CheckBody,
          UpdateRow, UpdateMissing, DeleteRow, DeleteMissing, Done
    <3> QED
      BY <1>2, <3>1 DEF Statements
  <2> QED
    BY <1>2, <2>1, <2>2, <2>3, <2>4, <2>5 DEF Statement
<1> QED
  BY <1>1, <1>2

LEMMA CheckedStep ==
    ASSUME Inv, Next
    PROVE  /\ \A i \in Ids : i > todoSeq' => todos'[i] = NoRow
           /\ \A d \in Conns : pc'[d] \in {"reread", "update", "delete"} => Checked(d)'
<1> PICK c \in Conns : Send(c) \/ Statement(c) \/ Finish(c)
  BY DEF Next
<1> USE DEF Inv, TypeOK
<1>1. todoSeq \in Nat /\ todoSeq' \in Nat /\ todoSeq <= todoSeq'
  BY TableStep, TodoAssumption
<1>2. ASSUME NEW i \in Ids, i > todoSeq' PROVE todos'[i] = NoRow
  BY <1>1, <1>2, TableStep, TodoAssumption DEF Ids
\* The row of an id handed out before keeps its owner, or goes.
<1>3. ASSUME NEW i \in 1..todoSeq, todos'[i] # NoRow
      PROVE  todos[i] # NoRow /\ todos'[i].owner = todos[i].owner
  <2>1. i \in Ids
    BY TodoAssumption DEF Ids
  <2>2. CASE i = req[c].id /\ (UpdateRow(c) \/ DeleteRow(c))
    BY <1>3, <2>1, <2>2, TableStep DEF Found, Mine, UpdateRow, DeleteRow
  <2>3. CASE todos'[i] = todos[i]
    BY <1>3, <2>3
  <2> QED
    BY <1>1, <2>1, <2>2, <2>3, TableStep
<1>4. ASSUME NEW d \in Conns, pc'[d] \in {"reread", "update", "delete"}
      PROVE  Checked(d)'
  <2>1. CASE pc[d] \in {"reread", "update", "delete"} /\ req'[d] = req[d]
    <3>1. req[d].id \in 1..todoSeq /\ (Found(d) => Mine(d))
      BY <2>1 DEF Checked
    <3>2. Found(d)' => Mine(d)'
      BY <2>1, <3>1, <1>3 DEF Found, Mine
    <3> QED
      BY <1>1, <2>1, <3>1, <3>2 DEF Checked
  <2>2. CASE d = c /\ CheckPass(c)
    <3>1. /\ req'[c] = req[c] /\ UNCHANGED <<todos, todoSeq>>
          /\ Found(c) /\ Mine(c) /\ req[c].id \in Ids
      BY <2>2, RequestFacts DEF CheckPass, Statements, RequestOf
    <3>2. req[c].id \in 1..todoSeq
      BY <3>1 DEF Found, Ids
    <3> QED
      BY <2>2, <3>1, <3>2 DEF Checked, Found, Mine
  <2>3. CASE d # c
    BY <1>4, <2>1, <2>3, OthersUntouched
  <2>4. CASE d = c /\ ~CheckPass(c)
    <3>1. CASE Reread(c)
      BY <2>1, <2>4, <3>1 DEF Reread
    <3>2. CASE Send(c)
      <4>1. PICK r \in Requests : Refuse(c, r) \/ Accept(c, r)
        BY <3>2 DEF Send
      <4>2. CASE Accept(c, r)
        <5>1. FirstStatement(r) \in {"insert", "get", "check"}
          BY <4>2, RequestFacts DEF Accept, FirstStatement
        <5> QED
          BY <1>4, <2>4, <4>2, <5>1 DEF Accept, Goto
      <4>3. CASE Refuse(c, r)
        BY <1>4, <2>4, <4>3 DEF Refuse, Answered, Goto
      <4> QED
        BY <4>1, <4>2, <4>3
    <3>3. CASE \/ InsertRow(c) \/ FailStatement(c) \/ GetMissing(c) \/ GetForeign(c)
               \/ GetRow(c) \/ CheckBody(c) \/ UpdateRow(c) \/ UpdateMissing(c)
               \/ DeleteRow(c) \/ DeleteMissing(c) \/ Finish(c)
      <4>1. pc'[c] \in {"answered", "idle"}
        BY <3>3 DEF InsertRow, FailStatement, GetMissing, GetForeign, GetRow, CheckBody,
            UpdateRow, UpdateMissing, DeleteRow, DeleteMissing, Finish, Done, Answered, Goto
      <4> QED
        BY <1>4, <2>4, <4>1
    <3> QED
      BY <2>4, <3>1, <3>2, <3>3 DEF Statement
  <2> QED
    BY <2>2, <2>3, <2>4
<1> QED
  BY <1>2, <1>4

LEMMA ExistingStep ==
    ASSUME Inv, Next
    PROVE  \A d \in Conns : pc'[d] = "update" =>
               existing'[d] \in Row
<1> PICK c \in Conns : Send(c) \/ Statement(c) \/ Finish(c)
  BY DEF Next
<1> SUFFICES ASSUME NEW d \in Conns, pc'[d] = "update"
             PROVE  existing'[d] \in Row
  OBVIOUS
<1> USE DEF Inv, TypeOK, Goto, Answered
<1>1. CASE d # c
  BY <1>1, OthersUntouched
<1>2. CASE d = c /\ Reread(c)
  <2>1. req[c].id \in Ids
    BY <1>2, RequestFacts DEF Reread, RequestOf, Statements
  <2>2. todos[req[c].id] \in Row
    BY <1>2, <2>1 DEF Reread, Found
  <2> QED
    BY <1>2, <2>2 DEF Reread
<1>3. CASE d = c /\ ~Reread(c)
  <2>1. CASE Send(c)
    <3>1. PICK r \in Requests : Accept(c, r)
      BY <1>3, <2>1 DEF Send, Refuse
    <3>2. FirstStatement(r) # "update"
      BY <3>1, RequestFacts DEF Accept, FirstStatement
    <3> QED
      BY <1>3, <3>1, <3>2 DEF Accept
  <2>2. CASE CheckPass(c)
    BY <1>3, <2>2 DEF CheckPass
  <2>3. CASE \/ InsertRow(c) \/ FailStatement(c) \/ GetMissing(c) \/ GetForeign(c)
             \/ GetRow(c) \/ CheckBody(c) \/ UpdateRow(c) \/ UpdateMissing(c)
             \/ DeleteRow(c) \/ DeleteMissing(c) \/ Finish(c)
    <3>1. pc'[c] \in {"answered", "idle"}
      BY <2>3 DEF InsertRow, FailStatement, GetMissing, GetForeign, GetRow, CheckBody,
          UpdateRow, UpdateMissing, DeleteRow, DeleteMissing, Finish, Done
    <3> QED
      BY <1>3, <3>1
  <2> QED
    BY <1>3, <2>1, <2>2, <2>3 DEF Statement
<1> QED
  BY <1>1, <1>2, <1>3

LEMMA StepInv == Inv /\ [Next]_vars => Inv'
<1>1. ASSUME Inv, Next PROVE Inv'
  <2>1. TypeOK' /\ Room'
    BY <1>1, TypeStep, RoomStep
  <2> QED
    BY <1>1, <2>1, RequestStep, CheckedStep, ExistingStep DEF Inv
<1>2. ASSUME Inv, UNCHANGED vars PROVE Inv'
  BY <1>2 DEF vars, Inv, TypeOK, Room, Inserting, RequestOf, Checked, Found, Mine
<1> QED
  BY <1>1, <1>2

LEMMA InvAlways == Spec => []Inv
  BY InitInv, StepInv, PTL DEF Spec

-----------------------------------------------------------------------------

\* Every variable keeps to its type, for any number of connections and ids.
THEOREM TypeCorrect == Spec => []TypeOK
<1>1. Inv => TypeOK
  BY DEF Inv
<1> QED
  BY <1>1, InvAlways, PTL

\* The owner test of a PATCH or DELETE is never out of date when its write
\* runs, whatever other requests did since (handlers_todos.go).
THEOREM OwnerTestHolds == Spec => []CheckedRowIsMine
<1>1. Inv => CheckedRowIsMine
  BY DEF Inv, CheckedRowIsMine, Checked
<1> QED
  BY <1>1, InvAlways, PTL

\* A row changes only by a write of its owner, and never its owner.
THEOREM OnlyOwnersWrite == Spec => OnlyOwnerWrites
<1>1. ASSUME Inv, Next PROVE WriteByOwner
  <2> PICK c \in Conns : Send(c) \/ Statement(c) \/ Finish(c)
    BY <1>1 DEF Next
  <2> SUFFICES ASSUME NEW i \in Ids, todos[i] # NoRow, todos'[i] # todos[i]
               PROVE  /\ \E d \in Conns :
                            /\ pc[d] \in {"update", "delete"} /\ pc'[d] = "answered"
                            /\ req[d].id = i /\ req[d].user = todos[i].owner
                      /\ todos'[i] # NoRow => todos'[i].owner = todos[i].owner
    BY DEF WriteByOwner
  <2>1. ~InsertRow(c)
    BY <1>1, TodoAssumption DEF InsertRow, NewId, Inv, TypeOK, Ids
  <2>2. /\ UpdateRow(c) \/ DeleteRow(c)
        /\ req[c].id = i /\ Mine(c)
        /\ todos'[i] # NoRow => todos'[i].owner = req[c].user
    BY <1>1, <2>1, TableStep
  <2>3. pc[c] \in {"update", "delete"} /\ pc'[c] = "answered"
    BY <1>1, <2>2 DEF UpdateRow, DeleteRow, Done, Answered, Goto, Inv, TypeOK
  <2> QED
    BY <2>2, <2>3 DEF Mine
<1>2. Inv /\ [Next]_vars => [WriteByOwner]_vars
  BY <1>1
<1> QED
  BY <1>2, InvAlways, PTL DEF Spec, OnlyOwnerWrites

\* An id whose row is gone never names a row again.
THEOREM DeletedIdsStayDeleted == Spec => DeletedForGood
<1>1. ASSUME Inv, Next PROVE DeletedStays
  <2> PICK c \in Conns : Send(c) \/ Statement(c) \/ Finish(c)
    BY <1>1 DEF Next
  <2> QED
    BY <1>1, TableStep, TodoAssumption DEF DeletedStays, Inv, TypeOK, Ids, Found
<1>2. Inv /\ [Next]_vars => [DeletedStays]_vars
  BY <1>1
<1> QED
  BY <1>2, InvAlways, PTL DEF Spec, DeletedForGood

-----------------------------------------------------------------------------
(* Every statement is one step of AtomicTodoApi, or none. *)

LEMMA SameData ==
    /\ Atomic!Requests = Requests /\ Atomic!Ids = Ids /\ Atomic!Row = Row
    /\ \A r : Atomic!Refused(r) = Refused(r) /\ Atomic!RefusalOf(r) = RefusalOf(r)
    /\ \A r : Atomic!BodyRefusal(r) = BodyRefusal(r)
    /\ \A s : Atomic!Reply(s) = Reply(s)
    /\ \A s, i, row : Atomic!ReplyRow(s, i, row) = ReplyRow(s, i, row)
    /\ \A u, row, r : Atomic!Merge(u, row, r) = Merge(u, row, r)
  BY DEF Atomic!Requests, Requests, Atomic!Ask, Ask, Atomic!Ids, Ids, Atomic!Row, Row,
      Atomic!Body, Body, Atomic!Refused, Refused, Atomic!RefusalOf, RefusalOf,
      Atomic!BodyRefusal, BodyRefusal, Atomic!Reply, Reply, Atomic!ReplyRow, ReplyRow,
      Atomic!Merge, Merge

LEMMA PhaseStep ==
    ASSUME TypeOK, NEW c \in Conns, NEW l, pc' = [pc EXCEPT ![c] = l]
    PROVE  /\ l \notin Statements => Phase' = [Phase EXCEPT ![c] = l]
           /\ l \in Statements => Phase' = [Phase EXCEPT ![c] = "working"]
           /\ pc[c] \in Statements /\ l \in Statements => Phase' = Phase
  BY DEF Phase, TypeOK

LEMMA AnsweredStep ==
    ASSUME TypeOK, NEW c \in Conns, NEW a, Answered(c, a)
    PROVE  Atomic!Answered(c, a)
<1>1. pc' = [pc EXCEPT ![c] = "answered"]
  BY DEF Answered, Goto
<1>2. Phase' = [Phase EXCEPT ![c] = "answered"]
  BY <1>1, PhaseStep DEF Statements
<1> QED
  BY <1>2 DEF Atomic!Answered, Answered

LEMMA DoneStep ==
    ASSUME TypeOK, NEW c \in Conns, NEW a, Done(c, a)
    PROVE  Atomic!Replied(c, a)
  BY AnsweredStep, SameData DEF Done, Atomic!Replied

LEMMA SimulateSend ==
    ASSUME Inv, NEW c \in Conns, NEW r \in Requests, Refuse(c, r) \/ Accept(c, r)
    PROVE  Atomic!Refuse(c, r) \/ Atomic!Begin(c, r)
<1>1. Phase[c] = "idle"
  BY DEF Refuse, Accept, MaySend, Phase, Statements
<1>2. CASE Refuse(c, r)
  <2>1. Atomic!Answered(c, Reply(RefusalOf(r)))
    BY <1>2, AnsweredStep DEF Refuse, Inv
  <2> QED
    BY <1>1, <1>2, <2>1, SameData DEF Refuse, Atomic!Refuse
<1>3. CASE Accept(c, r)
  <2>1. FirstStatement(r) \in Statements
    BY <1>3, RequestFacts DEF Accept, FirstStatement, Statements
  <2>2. Phase' = [Phase EXCEPT ![c] = "working"]
    BY <1>3, <2>1, PhaseStep DEF Accept, Goto, Inv
  <2> QED
    BY <1>1, <1>3, <2>2, SameData DEF Accept, Atomic!Begin
<1> QED
  BY <1>2, <1>3

LEMMA SimulateStatement ==
    ASSUME Inv, TypeOK', NEW c \in Conns, Statement(c)
    PROVE  \/ Atomic!NoEffect(c) \/ Atomic!Insert(c) \/ Atomic!Write(c)
           \/ Atomic!Remove(c) \/ UNCHANGED Atomic!vars
<1>1. pc[c] \in Statements /\ RequestOf(c) /\ TypeOK
  <2>1. pc[c] \in Statements
    BY DEF Statement, Statements, InsertRow, FailStatement, GetMissing, GetForeign, GetRow,
        CheckBody, CheckPass, Reread, UpdateRow, UpdateMissing, DeleteRow, DeleteMissing
  <2> QED
    BY <2>1 DEF Inv
<1>2. Phase[c] = "working"
  BY <1>1 DEF Phase
<1>3. CASE InsertRow(c)
  <2>1. Atomic!Replied(c, ReplyRow(201, NewId,
            [owner |-> req[c].user, text |-> req[c].text, done |-> FALSE]))
    BY <1>1, <1>3, DoneStep DEF InsertRow
  <2>2. todoSeq + 1 \in Ids
    BY <1>1, <1>3, TodoAssumption DEF InsertRow, NewId, TypeOK, Ids
  <2>3. req[c].op = "create"
    BY <1>1, <1>3 DEF InsertRow, RequestOf
  <2> QED
    BY <1>2, <1>3, <2>1, <2>2, <2>3, SameData DEF InsertRow, NewId, Atomic!Insert
<1>4. CASE UpdateRow(c)
  <2> DEFINE row == Merge(req[c].user, existing[c], req[c])
  <2>1. Found(c) /\ Mine(c) /\ existing[c] \in Row
    BY <1>4 DEF Inv, Checked, UpdateRow
  <2>2. /\ todos' = [todos EXCEPT ![req[c].id] = row]
        /\ Done(c, ReplyRow(200, req[c].id, row))
    BY <1>4, <2>1 DEF UpdateRow, Mine
  <2>3. Atomic!Replied(c, ReplyRow(200, req[c].id, row))
    BY <1>1, <2>2, DoneStep
  <2>4. req[c].op = "patch" /\ req[c].body = "ok"
    BY <1>1, <1>4 DEF UpdateRow, RequestOf
  <2>5. UNCHANGED <<todoSeq, req>>
    BY <1>4 DEF UpdateRow
  <2> QED
    BY <1>2, <2>1, <2>2, <2>3, <2>4, <2>5, SameData DEF Atomic!Write, Found, Mine
<1>5. CASE DeleteRow(c)
  <2>1. Found(c) /\ Mine(c) /\ req[c].op = "delete"
    BY <1>1, <1>5 DEF Inv, Checked, DeleteRow, RequestOf
  <2>2. Atomic!Replied(c, Reply(204))
    BY <1>1, <1>5, DoneStep DEF DeleteRow
  <2> QED
    BY <1>2, <1>5, <2>1, <2>2, SameData DEF DeleteRow, Atomic!Remove, Found, Mine
<1>6. CASE CheckPass(c) \/ Reread(c)
  <2>1. \E l \in Statements : pc' = [pc EXCEPT ![c] = l]
    BY <1>6 DEF CheckPass, Reread, Goto, Statements
  <2>2. Phase' = Phase
    BY <1>1, <2>1, PhaseStep
  <2> QED
    BY <1>6, <2>2 DEF CheckPass, Reread, Atomic!vars
<1>7. ASSUME NEW a, Answered(c, a), UNCHANGED <<todos, todoSeq, req>>
      PROVE  Atomic!Answered(c, a)
  BY <1>1, <1>7, AnsweredStep
<1>8. CASE GetMissing(c)
  <2>1. req[c].op # "create" /\ NotFound(c)
    BY <1>1, <1>8 DEF GetMissing, RequestOf
  <2>2. Atomic!Answered(c, Reply(404))
    BY <1>7, <1>8 DEF GetMissing
  <2> QED
    BY <1>2, <1>8, <2>1, <2>2, SameData DEF GetMissing, NotFound, Atomic!NoEffect
<1>9. CASE DeleteMissing(c)
  <2>1. Atomic!Answered(c, Reply(404))
    BY <1>7, <1>9 DEF DeleteMissing
  <2> QED
    BY <1>1, <1>2, <1>9, <2>1, SameData
       DEF DeleteMissing, RequestOf, Found, Atomic!NoEffect
<1>10. CASE UpdateMissing(c)
  <2>1. Atomic!Answered(c, Reply(500))
    BY <1>7, <1>10 DEF UpdateMissing
  <2> QED
    BY <1>1, <1>2, <1>10, <2>1, SameData
       DEF UpdateMissing, RequestOf, Found, Atomic!NoEffect
<1>11. CASE FailStatement(c)
  <2>1. Atomic!Answered(c, Reply(500))
    BY <1>7, <1>11 DEF FailStatement
  <2>2. req[c].op # "get"
    BY <1>1, <1>11 DEF FailStatement, RequestOf
  <2> QED
    BY <1>2, <1>11, <2>1, <2>2, SameData DEF FailStatement, Atomic!NoEffect
<1>12. CASE GetForeign(c)
  <2>1. Atomic!Answered(c, Reply(403))
    BY <1>7, <1>12 DEF GetForeign
  <2> QED
    BY <1>1, <1>2, <1>12, <2>1, SameData
       DEF GetForeign, RequestOf, Found, Mine, Atomic!NoEffect
<1>13. CASE GetRow(c)
  <2>1. Atomic!Answered(c, ReplyRow(200, req[c].id, todos[req[c].id]))
    BY <1>7, <1>13 DEF GetRow
  <2> QED
    BY <1>1, <1>2, <1>13, <2>1, SameData DEF GetRow, RequestOf, Found, Mine, Atomic!NoEffect
<1>14. CASE CheckBody(c)
  <2>1. Atomic!Answered(c, Reply(BodyRefusal(req[c])))
    BY <1>7, <1>14 DEF CheckBody
  <2> QED
    BY <1>2, <1>14, <2>1, SameData DEF CheckBody, Found, Mine, Atomic!NoEffect
<1> QED
  BY <1>3, <1>4, <1>5, <1>6, <1>8, <1>9, <1>10, <1>11, <1>12, <1>13, <1>14 DEF Statement

LEMMA SimulateFinish ==
    ASSUME Inv, NEW c \in Conns, Finish(c)
    PROVE  Atomic!Finish(c)
<1>1. Phase[c] = "answered" /\ Phase' = [Phase EXCEPT ![c] = "idle"]
  <2>1. pc' = [pc EXCEPT ![c] = "idle"]
    BY DEF Finish, Goto
  <2> QED
    BY <2>1, PhaseStep DEF Finish, Phase, Statements, Inv
<1> QED
  BY <1>1 DEF Finish, Atomic!Finish

\* The handlers, one SQL statement at a time and interleaved in any way,
\* implement the API whose requests take effect at one instant each.
THEOREM HandlersAreAtomic == Spec => AtomicSpec
<1>1. Init => Atomic!Init
  BY SameData DEF Init, Atomic!Init, Phase, Statements
<1>2. ASSUME Inv, Inv', Next PROVE Atomic!Next \/ UNCHANGED Atomic!vars
  <2> PICK c \in Conns : Send(c) \/ Statement(c) \/ Finish(c)
    BY <1>2 DEF Next
  <2>1. CASE Send(c)
    BY <1>2, <2>1, SimulateSend, SameData DEF Send, Atomic!Next
  <2>2. CASE Statement(c)
    BY <1>2, <2>2, SimulateStatement DEF Inv, Atomic!Next
  <2>3. CASE Finish(c)
    BY <1>2, <2>3, SimulateFinish DEF Atomic!Next
  <2> QED
    BY <2>1, <2>2, <2>3
<1>3. Inv /\ Inv' /\ [Next]_vars => [Atomic!Next]_(Atomic!vars)
  <2>1. UNCHANGED vars => UNCHANGED Atomic!vars
    BY DEF vars, Atomic!vars, Phase
  <2> QED
    BY <1>2, <2>1
<1> QED
  BY <1>1, <1>3, InvAlways, PTL DEF Spec, AtomicSpec, Atomic!Spec

-----------------------------------------------------------------------------
(* One request at a time per user, and a database that works *)

\* The requests under way are of different users.
Alone ==
    \A c, d \in Conns :
        c # d /\ pc[c] # "idle" /\ pc[d] # "idle" => req[c].user # req[d].user

\* The row that Update re-read is still there, as it was.
RereadHolds(c) == pc[c] = "update" => Found(c) /\ existing[c] = todos[req[c].id]

\* What c was told is so.
Told(c) ==
    LET a == resp[c] IN
    /\ a.status \in {200, 201} =>
          a.id \in Ids /\ a.row # NoRow /\ a.row.owner = req[c].user /\ todos[a.id] = a.row
    /\ a.status \in {204, 404} => req[c].id \in Ids /\ (~Found(c) \/ ~Mine(c))
    /\ a.status # 500

AloneInv ==
    /\ Inv
    /\ Alone
    /\ \A c \in Conns : RereadHolds(c)
    /\ \A c \in Conns : pc[c] = "answered" => Told(c)

\* A step of one user's request neither changes, nor removes, nor makes a row
\* of another user.
LEMMA ForeignRowsStay ==
    ASSUME AloneInv, NEW c \in Conns, Send(c) \/ Statement(c) \/ Finish(c),
           NEW d \in Conns, d # c, pc[d] # "idle", NEW i \in Ids
    PROVE  /\ todos[i] # NoRow /\ todos[i].owner = req[d].user => todos'[i] = todos[i]
           /\ todos'[i] # NoRow /\ todos'[i].owner = req[d].user => todos'[i] = todos[i]
<1>1. Inv /\ Alone
  BY DEF AloneInv
<1>2. CASE UNCHANGED todos
  BY <1>2
<1>3. CASE InsertRow(c)
  <2> DEFINE row == [owner |-> req[c].user, text |-> req[c].text, done |-> FALSE]
  <2>1. req[c].user # req[d].user
    BY <1>1, <1>3 DEF Alone, InsertRow
  <2>2. todos' = [todos EXCEPT ![todoSeq + 1] = row] /\ row.owner = req[c].user
    BY <1>3 DEF InsertRow, NewId
  <2> HIDE DEF row
  <2>3. i = todoSeq + 1 => todos[i] = NoRow
    BY <1>1 DEF Inv, TypeOK, Ids
  <2> QED BY <1>1, <2>1, <2>2, <2>3 DEF Inv, TypeOK
<1>4. CASE UpdateRow(c) \/ DeleteRow(c)
  <2>1. req[c].user # req[d].user
    BY <1>1, <1>4 DEF Alone, UpdateRow, DeleteRow
  <2>2. \/ UNCHANGED todos
        \/ /\ Mine(c)
           /\ todos'[req[c].id] # NoRow => todos'[req[c].id].owner = req[c].user
           /\ \A j \in Ids : j # req[c].id => todos'[j] = todos[j]
    <3>1. ~ InsertRow(c)
      BY <1>4 DEF UpdateRow, DeleteRow, InsertRow
    <3> QED BY <1>1, <3>1, TableStep
  <2> QED BY <2>1, <2>2 DEF Mine
<1> QED
  BY <1>1, <1>2, <1>3, <1>4, TableStep

LEMMA AloneStep == AloneInv /\ OneAtATime /\ Next => Alone'
<1> SUFFICES ASSUME AloneInv, OneAtATime, NEW c \in Conns, Send(c) \/ Statement(c) \/ Finish(c)
             PROVE  Alone'
  BY DEF Next
<1>0. Inv /\ Alone /\ TypeOK
  BY DEF AloneInv, Inv
<1>1. \A d \in Conns : d # c => pc'[d] = pc[d] /\ req'[d] = req[d]
  BY <1>0, OthersUntouched
<1>2. \/ pc'[c] = "idle"
      \/ pc[c] # "idle" /\ req'[c] = req[c]
      \/ \A d \in Conns : pc[d] # "idle" => req[d].user # req'[c].user
  <2>1. CASE Send(c)
    <3>1. PICK r \in Requests : MaySend(c, r) /\ req' = [req EXCEPT ![c] = r]
      BY <2>1 DEF Send, Refuse, Accept
    <3>2. req'[c] = r
      BY <1>0, <3>1 DEF TypeOK
    <3> QED BY <3>1, <3>2 DEF MaySend
  <2>2. CASE Finish(c)
    BY <1>0, <2>2 DEF Finish, Goto, TypeOK
  <2>3. CASE Statement(c)
    <3>1. pc[c] # "idle" /\ UNCHANGED req
      BY <2>3 DEF Statement, GetMissing, GetForeign, GetRow, CheckBody, CheckPass, Reread,
          UpdateRow, UpdateMissing, DeleteRow, DeleteMissing, InsertRow, FailStatement
    <3> QED BY <3>1
  <2> QED BY <2>1, <2>2, <2>3
<1>3. ASSUME NEW d \in Conns, d # c, pc'[c] # "idle", pc'[d] # "idle"
      PROVE  req'[c].user # req'[d].user
  BY <1>0, <1>1, <1>2, <1>3 DEF Alone
<1> QED
  BY <1>0, <1>1, <1>3 DEF Alone

\* What the requests on other connections rely on stays.
LEMMA OthersStayTrue ==
    ASSUME AloneInv, NEW c \in Conns, Send(c) \/ Statement(c) \/ Finish(c),
           NEW d \in Conns, d # c
    PROVE  RereadHolds(d)' /\ (pc'[d] = "answered" => Told(d)')
<1>1. /\ pc'[d] = pc[d] /\ req'[d] = req[d] /\ existing'[d] = existing[d]
      /\ resp'[d] = resp[d] /\ Inv /\ TypeOK
  <2>1. Inv /\ TypeOK
    BY DEF AloneInv, Inv
  <2>2. resp'[d] = resp[d]
    <3>1. UNCHANGED resp \/ \E a : resp' = [resp EXCEPT ![c] = a]
      BY DEF Send, Refuse, Accept, Finish, Statement, GetMissing, GetForeign, GetRow,
          CheckBody, CheckPass, Reread, UpdateRow, UpdateMissing, DeleteRow, DeleteMissing,
          InsertRow, FailStatement, Done, Answered
    <3> QED BY <2>1, <3>1 DEF TypeOK
  <2> QED BY <2>1, <2>2, OthersUntouched
<1>2. ASSUME pc[d] = "update" PROVE Found(d)' /\ existing'[d] = todos'[req'[d].id]
  <2>1. RequestOf(d) /\ Checked(d) /\ Found(d) /\ existing[d] = todos[req[d].id]
    BY <1>1, <1>2 DEF AloneInv, Inv, Statements, RereadHolds
  <2>2. req[d].id \in Ids
    BY <2>1, <1>2, RequestFacts DEF RequestOf
  <2>3. todos'[req[d].id] = todos[req[d].id]
    BY <1>2, <2>1, <2>2, ForeignRowsStay DEF Checked, Found, Mine
  <2> QED BY <1>1, <2>1, <2>3 DEF Found
<1>3. ASSUME pc[d] = "answered" PROVE Told(d)'
  <2>1. Told(d)
    BY <1>3 DEF AloneInv
  <2>2. \A i \in Ids :
           /\ todos[i] # NoRow /\ todos[i].owner = req[d].user => todos'[i] = todos[i]
           /\ todos'[i] # NoRow /\ todos'[i].owner = req[d].user => todos'[i] = todos[i]
    BY <1>3, ForeignRowsStay
  <2> QED BY <1>1, <2>1, <2>2 DEF Told, Found, Mine
<1> QED
  BY <1>1, <1>2, <1>3 DEF RereadHolds

\* A statement answers what is so, if the database works.
LEMMA AnswersAreTrue ==
    ASSUME AloneInv, Inv', ~DbMayFail, NEW c \in Conns, Statement(c)
    PROVE  RereadHolds(c)' /\ (pc'[c] = "answered" => Told(c)')
<1>0. Inv /\ TypeOK /\ pc[c] \in Statements /\ RequestOf(c)
  <2>1. pc[c] \in Statements
    BY DEF Statement, Statements, InsertRow, FailStatement, GetMissing, GetForeign, GetRow,
        CheckBody, CheckPass, Reread, UpdateRow, UpdateMissing, DeleteRow, DeleteMissing
  <2> QED BY <2>1 DEF AloneInv, Inv
<1>1. req[c].op # "create" => req[c].id \in Ids
  BY <1>0, RequestFacts DEF RequestOf
<1>2. pc[c] # "insert" => req[c].id \in Ids
  BY <1>0, <1>1 DEF RequestOf
\* An answer ends the handler.
<1>3. ASSUME NEW a, Answered(c, a), UNCHANGED req,
             /\ a.status \in {200, 201} =>
                   a.id \in Ids /\ a.row # NoRow /\ a.row.owner = req[c].user
                   /\ todos'[a.id] = a.row
             /\ a.status \in {204, 404} =>
                   /\ req[c].id \in Ids
                   /\ todos'[req[c].id] = NoRow \/ todos'[req[c].id].owner # req[c].user
             /\ a.status # 500
      PROVE  RereadHolds(c)' /\ (pc'[c] = "answered" => Told(c)')
  <2>1. pc'[c] = "answered" /\ resp'[c] = a /\ req'[c] = req[c]
    BY <1>0, <1>3 DEF Answered, Goto, TypeOK
  <2> QED BY <1>3, <2>1 DEF RereadHolds, Told, Found, Mine
<1>4. CASE InsertRow(c)
  <2> DEFINE row == [owner |-> req[c].user, text |-> req[c].text, done |-> FALSE]
             a == ReplyRow(201, NewId, row)
  <2>1. Answered(c, a) /\ UNCHANGED req /\ todos' = [todos EXCEPT ![NewId] = row]
    BY <1>4 DEF InsertRow, Done
  <2>2. row \in Row /\ row.owner = req[c].user /\ row # NoRow
    <3>1. row \in Row
      BY <1>0, <1>4, RequestFacts DEF RequestOf, InsertRow, Row
    <3> QED BY <3>1, NoRowAssumption
  <2>3. NewId \in Ids
    <3>1. todoSeq' = todoSeq + 1 /\ todoSeq' \in 0..MaxId /\ todoSeq \in 0..MaxId
      BY <1>0, <1>4 DEF InsertRow, NewId, Inv, TypeOK
    <3> QED BY <3>1, TodoAssumption DEF NewId, Ids
  <2>4. a.status = 201 /\ a.id = NewId /\ a.row = row
    BY DEF ReplyRow
  <2> HIDE DEF a, row
  <2>5. todos'[NewId] = row
    BY <1>0, <2>1, <2>3 DEF TypeOK
  <2> QED BY <1>3, <2>1, <2>2, <2>3, <2>4, <2>5
<1>5. CASE GetRow(c)
  <2> DEFINE a == ReplyRow(200, req[c].id, todos[req[c].id])
  <2>1. Answered(c, a) /\ UNCHANGED <<req, todos>> /\ Found(c) /\ Mine(c)
        /\ req[c].id \in Ids
    BY <1>2, <1>5 DEF GetRow
  <2>2. a.status = 200 /\ a.id = req[c].id /\ a.row = todos[req[c].id]
    BY DEF ReplyRow
  <2> HIDE DEF a
  <2> QED BY <1>3, <2>1, <2>2 DEF Found, Mine
<1>6. CASE UpdateRow(c)
  <2> DEFINE row == Merge(todos[req[c].id].owner, existing[c], req[c])
             a == ReplyRow(200, req[c].id, row)
  <2>1. Answered(c, a) /\ UNCHANGED req /\ todos' = [todos EXCEPT ![req[c].id] = row]
        /\ req[c].id \in Ids /\ pc[c] = "update" /\ Found(c)
    BY <1>2, <1>6 DEF UpdateRow, Done
  <2>2. Mine(c) /\ todos[req[c].id] \in Row /\ existing[c] \in Row /\ req[c] \in Request
    BY <1>0, <2>1, RequestFacts DEF Inv, TypeOK, Checked, Found, RequestOf
  <2>3. row \in Row /\ row.owner = req[c].user
    BY <2>2, MergeFacts DEF Mine, Row
  <2>4. a.status = 200 /\ a.id = req[c].id /\ a.row = row
    BY DEF ReplyRow
  <2> HIDE DEF a, row
  <2>5. todos'[req[c].id] = row /\ row # NoRow
    BY <1>0, <2>1, <2>3, NoRowAssumption DEF TypeOK
  <2> QED BY <1>3, <2>1, <2>3, <2>4, <2>5
<1>7. CASE DeleteRow(c)
  <2>1. Answered(c, Reply(204)) /\ UNCHANGED req /\ req[c].id \in Ids
        /\ todos' = [todos EXCEPT ![req[c].id] = NoRow]
    BY <1>2, <1>7 DEF DeleteRow, Done
  <2>2. todos'[req[c].id] = NoRow /\ Reply(204).status = 204
    BY <1>0, <2>1 DEF TypeOK, Reply
  <2> QED BY <1>3, <2>1, <2>2
<1>8. CASE Reread(c)
  <2>1. /\ Found(c) /\ UNCHANGED <<todos, req>> /\ pc' = [pc EXCEPT ![c] = "update"]
        /\ existing' = [existing EXCEPT ![c] = todos[req[c].id]]
    BY <1>8 DEF Reread, Goto
  <2>2. pc'[c] = "update" /\ existing'[c] = todos'[req'[c].id] /\ Found(c)'
    BY <1>0, <2>1 DEF TypeOK, Found
  <2> QED BY <2>2 DEF RereadHolds
<1>9. CASE CheckPass(c)
  <2>1. pc'[c] \in {"reread", "delete"}
    BY <1>0, <1>9 DEF CheckPass, Goto, TypeOK
  <2> QED BY <2>1 DEF RereadHolds
<1>10. CASE GetMissing(c) \/ DeleteMissing(c)
  <2>1. Answered(c, Reply(404)) /\ UNCHANGED <<req, todos>> /\ req[c].id \in Ids
        /\ todos[req[c].id] = NoRow
    BY <1>2, <1>10 DEF GetMissing, DeleteMissing, NotFound, Found
  <2>2. Reply(404).status = 404
    BY DEF Reply
  <2> QED BY <1>3, <2>1, <2>2
<1>11. CASE GetForeign(c)
  <2>1. Answered(c, Reply(403)) /\ UNCHANGED req /\ Reply(403).status = 403
    BY <1>11 DEF GetForeign, Reply
  <2> QED BY <1>3, <2>1
<1>12. CASE CheckBody(c)
  <2>1. Answered(c, Reply(BodyRefusal(req[c]))) /\ UNCHANGED req
        /\ Reply(BodyRefusal(req[c])).status \in {400, 422}
    BY <1>12 DEF CheckBody, Reply, BodyRefusal
  <2> QED BY <1>3, <2>1
<1>13. ~ FailStatement(c) /\ ~ UpdateMissing(c)
  BY DEF FailStatement, UpdateMissing, AloneInv, RereadHolds
<1> QED
  BY <1>4, <1>5, <1>6, <1>7, <1>8, <1>9, <1>10, <1>11, <1>12, <1>13 DEF Statement

LEMMA AloneInvAlways == OneAtATime /\ ~DbMayFail => (Spec => []AloneInv)
<1> SUFFICES ASSUME OneAtATime, ~DbMayFail PROVE Spec => []AloneInv
  OBVIOUS
<1>1. Init => AloneInv
  <2>1. Init => Inv
    BY InitInv
  <2> QED BY <2>1 DEF Init, AloneInv, Alone, RereadHolds
<1>2. AloneInv /\ [Next]_vars => AloneInv'
  <2> SUFFICES ASSUME AloneInv, [Next]_vars PROVE AloneInv'
    OBVIOUS
  <2>1. Inv'
    BY StepInv DEF AloneInv
  <2>2. CASE UNCHANGED vars
    BY <2>1, <2>2 DEF vars, AloneInv, Alone, RereadHolds, Told, Found, Mine
  <2>3. CASE Next
    <3>1. Alone'
      BY <2>3, AloneStep
    <3>2. PICK c \in Conns : Send(c) \/ Statement(c) \/ Finish(c)
      BY <2>3 DEF Next
    <3>3. \A d \in Conns : d # c => RereadHolds(d)' /\ (pc'[d] = "answered" => Told(d)')
      BY <3>2, OthersStayTrue
    <3>4. CASE Statement(c)
      BY <2>1, <3>1, <3>3, <3>4, AnswersAreTrue DEF AloneInv
    <3>5. CASE Finish(c)
      <4>1. pc'[c] = "idle"
        BY <3>5 DEF Finish, Goto, AloneInv, Inv, TypeOK
      <4> QED BY <2>1, <3>1, <3>3, <4>1 DEF AloneInv, RereadHolds
    <3>6. CASE Send(c)
      <4>1. PICK r \in Requests : Refuse(c, r) \/ Accept(c, r)
        BY <3>6 DEF Send
      <4>2. CASE Refuse(c, r)
        <5>1. pc'[c] = "answered" /\ resp'[c] = Reply(RefusalOf(r))
          BY <4>2 DEF Refuse, Answered, Goto, AloneInv, Inv, TypeOK
        <5>2. Reply(RefusalOf(r)).status \in {400, 401, 422}
          BY DEF Reply, RefusalOf, BodyRefusal
        <5>3. RereadHolds(c)' /\ Told(c)'
          BY <5>1, <5>2 DEF RereadHolds, Told
        <5> QED BY <2>1, <3>1, <3>3, <5>3 DEF AloneInv
      <4>3. CASE Accept(c, r)
        <5>1. pc'[c] = FirstStatement(r)
          BY <4>3 DEF Accept, Goto, AloneInv, Inv, TypeOK
        <5>2. pc'[c] \notin {"update", "answered"}
          BY <4>3, <5>1, RequestFacts DEF Accept, FirstStatement
        <5> QED BY <2>1, <3>1, <3>3, <5>2 DEF AloneInv, RereadHolds
      <4> QED BY <4>1, <4>2, <4>3
    <3> QED BY <3>2, <3>4, <3>5, <3>6
  <2> QED BY <2>2, <2>3
<1> QED
  BY <1>1, <1>2, PTL DEF Spec

\* If the clients of a user wait for one answer before they send the next
\* request, what a user was told stays true until that user acts again, and no
\* request is answered 500 (handlers_todos.go over a database that works).
THEOREM AnswersStayTrue == OneAtATime /\ ~DbMayFail => (Spec => []AnswerIsCurrent)
<1> SUFFICES ASSUME OneAtATime, ~DbMayFail PROVE Spec => []AnswerIsCurrent
  OBVIOUS
<1>1. AloneInv => AnswerIsCurrent
  BY DEF AloneInv, Told, AnswerIsCurrent
<1> QED
  BY <1>1, AloneInvAlways, PTL

\* Under the same conditions a PATCH leaves the fields alone that it does not
\* name: no update is lost between the two statements of TodoRepo.Update.
THEOREM PatchesKeepFields == OneAtATime /\ ~DbMayFail => (Spec => PatchKeepsUnset)
<1> SUFFICES ASSUME OneAtATime, ~DbMayFail PROVE Spec => PatchKeepsUnset
  OBVIOUS
<1> DEFINE Kept(c) ==
      UpdateRow(c) =>
          LET i == req[c].id IN
          /\ req[c].text = Unset => todos'[i].text = todos[i].text
          /\ req[c].done = Unset => todos'[i].done = todos[i].done
<1>1. ASSUME AloneInv, NEW c \in Conns PROVE Kept(c)
  <2> SUFFICES ASSUME UpdateRow(c) PROVE Kept(c)
    OBVIOUS
  <2> DEFINE row == Merge(todos[req[c].id].owner, existing[c], req[c])
  <2>1. /\ RequestOf(c) /\ TypeOK /\ existing[c] = todos[req[c].id]
        /\ todos' = [todos EXCEPT ![req[c].id] = row] /\ pc[c] = "update"
    BY <1>1 DEF UpdateRow, AloneInv, Inv, Statements, RereadHolds
  <2>2. req[c].id \in Ids
    BY <2>1, RequestFacts DEF RequestOf
  <2>3. todos'[req[c].id] = row
    BY <2>1, <2>2 DEF TypeOK
  <2> QED BY <2>1, <2>3 DEF Merge
<1>2. AloneInv /\ [Next]_vars => [\A c \in Conns : Kept(c)]_vars
  BY <1>1
<1> QED
  BY <1>2, AloneInvAlways, PTL DEF Spec, PatchKeepsUnset

=============================================================================
