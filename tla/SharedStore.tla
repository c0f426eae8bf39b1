----------------------------- MODULE SharedStore -----------------------------
(***************************************************************************)
(* The in-memory stores of ch23, ch28, ch29 and ch34: a map from ids to    *)
(* pointers behind a mutex.  Handlers keep the pointer when the lock is    *)
(* released, and encode the todo (ch28 and ch34 also write it) while       *)
(* others write its fields.  A bool is one word of memory and a string are *)
(* two, its data and its length, which are written and read one by one.    *)
(***************************************************************************)
EXTENDS Integers, FiniteSets

CONSTANTS
    Handlers,   \* goroutines serving requests
    Nobody,     \* none of them
    MaxId,      \* bound: todos ever created
    MaxWrites   \* bound: requests that write

VARIABLES
    app,     \* "ch23", "ch28", "ch29" or "ch34"
    todos,   \* Store.todos: the ids in the map
    nextId,  \* Store.nextID
    words,   \* words[i]: which write left each word of todo i; 0 for its
             \* creation.  The string is the text in ch29, in ch34 the priority
    holder,  \* who holds Store.mu for more than a step
    pc,      \* pc[h]: "idle", "found", "locked", "loaded" or "encode"
    at,      \* at[h]: the todo that h has a pointer to
    todo,    \* todo[h]: the words that h has yet to write
    own,     \* own[h]: the number of h's write, 0 if it only reads
    mine,    \* history: the words that h's request sets
    got,     \* got[h]: the words that h has encoded
    writes   \* history: requests that write so far

vars == <<app, todos, nextId, words, holder, pc, at, todo, own, mine, got, writes>>

Ids == 1..MaxId
String == {"data", "len"}
Words == String \cup {"done"}
None == [w \in Words |-> -1]

TypeOK ==
    /\ app \in {"ch23", "ch28", "ch29", "ch34"}
    /\ nextId \in 1..(MaxId + 1) /\ todos \subseteq 1..(nextId - 1)
    /\ words \in [Ids -> [Words -> 0..MaxWrites]]
    /\ holder \in Handlers \cup {Nobody}
    /\ pc \in [Handlers -> {"idle", "found", "locked", "loaded", "encode"}]
    /\ at \in [Handlers -> 0..MaxId]
    /\ todo \in [Handlers -> SUBSET Words] /\ mine \in [Handlers -> SUBSET Words]
    /\ own \in [Handlers -> 0..MaxWrites] /\ writes \in 0..MaxWrites
    /\ got \in [Handlers -> [Words -> -1..MaxWrites]]

Init ==
    /\ app \in {"ch23", "ch28", "ch29", "ch34"}
    /\ todos = {} /\ nextId = 1
    /\ words = [i \in Ids |-> [w \in Words |-> 0]]
    /\ holder = Nobody
    /\ pc = [h \in Handlers |-> "idle"]
    /\ at = [h \in Handlers |-> 0]
    /\ todo = [h \in Handlers |-> {}] /\ mine = [h \in Handlers |-> {}]
    /\ own = [h \in Handlers |-> 0] /\ writes = 0
    /\ got = [h \in Handlers |-> None]

Goto(h, l) == pc' = [pc EXCEPT ![h] = l]

\* h has a pointer to todo i.
Load(h, l, i) == Goto(h, l) /\ at' = [at EXCEPT ![h] = i]

\* h's request will set the words ws, as write number writes'.  Bound: MaxWrites.
Sets(h, ws) ==
    /\ writes < MaxWrites
    /\ writes' = writes + 1
    /\ own' = [own EXCEPT ![h] = writes']
    /\ todo' = [todo EXCEPT ![h] = ws]
    /\ mine' = [mine EXCEPT ![h] = ws]

\* The next word of h's write is in memory.
Write(h, w) ==
    /\ w \in todo[h]
    /\ words' = [words EXCEPT ![at[h]][w] = own[h]]
    /\ todo' = [todo EXCEPT ![h] = @ \ {w}]

-----------------------------------------------------------------------------
(* Critical sections *)

\* Create: a new todo is complete before anybody can find it.  Bound: MaxId.
Create(h) ==
    /\ pc[h] = "idle" /\ holder = Nobody /\ nextId <= MaxId
    /\ todos' = todos \cup {nextId} /\ nextId' = nextId + 1
    /\ Load(h, "encode", nextId)
    /\ UNCHANGED <<app, words, holder, todo, own, mine, got, writes>>

\* ch34, POST /api/v2/todos: Add, and the priority is still to be set.
AddV2(h) ==
    /\ pc[h] = "idle" /\ nextId <= MaxId
    /\ todos' = todos \cup {nextId} /\ nextId' = nextId + 1
    /\ Sets(h, String) /\ Load(h, "loaded", nextId)
    /\ UNCHANGED <<app, words, holder, got>>

\* Get, List and All: a pointer, to be encoded.
Get(h, i) ==
    /\ pc[h] = "idle" /\ holder = Nobody /\ i \in todos
    /\ Load(h, "encode", i)
    /\ UNCHANGED <<app, todos, nextId, words, holder, todo, own, mine, got, writes>>

\* ch28, POST /{id}/done: TodoCtx has found the todo.
TodoCtx(h, i) ==
    /\ pc[h] = "idle" /\ i \in todos
    /\ Load(h, "found", i)
    /\ UNCHANGED <<app, todos, nextId, words, holder, todo, own, mine, got, writes>>

\* ch23: Update takes the lock and finds the todo.
Update(h, i) ==
    /\ pc[h] = "idle" /\ holder = Nobody /\ i \in todos
    /\ holder' = h
    /\ Sets(h, {"done"}) /\ Load(h, "locked", i)
    /\ UNCHANGED <<app, todos, nextId, words, got>>

\* ch23: Delete; pointers to the todo live on.
Delete(i) ==
    /\ holder = Nobody /\ i \in todos
    /\ todos' = todos \ {i}
    /\ UNCHANGED <<app, nextId, words, holder, pc, at, todo, own, mine, got, writes>>

\* ch29: Replace sets every field.
Replace(h, i) ==
    /\ pc[h] = "idle" /\ holder = Nobody /\ i \in todos
    /\ holder' = h
    /\ Sets(h, Words) /\ Load(h, "locked", i)
    /\ UNCHANGED <<app, todos, nextId, words, got>>

\* Mutation of Patch: the lock is not taken.
PatchUnlocked(h, i) ==
    /\ pc[h] = "idle" /\ i \in todos
    /\ \E fields \in {{}, String, {"done"}, Words} : Sets(h, fields)
    /\ Load(h, "loaded", i)
    /\ UNCHANGED <<app, todos, nextId, words, holder, got>>

\* ch29: Patch sets the fields the request names.
Patch(h, i) ==
    /\ pc[h] = "idle" /\ holder = Nobody /\ i \in todos
    /\ holder' = h
    /\ \E fields \in {{}, String, {"done"}, Words} : Sets(h, fields)
    /\ Load(h, "locked", i)
    /\ UNCHANGED <<app, todos, nextId, words, got>>

-----------------------------------------------------------------------------

\* A field is written, with the lock or without.
WriteWord(h) ==
    /\ pc[h] \in {"locked", "loaded"}
    /\ \E w \in Words : Write(h, w)
    /\ UNCHANGED <<app, todos, nextId, holder, pc, at, own, mine, got, writes>>

\* ch28: todo.Done = true, without the lock.  Bound: MaxWrites.
MarkDone(h) ==
    /\ pc[h] = "found" /\ writes < MaxWrites
    /\ writes' = writes + 1
    /\ words' = [words EXCEPT ![at[h]]["done"] = writes']
    /\ own' = [own EXCEPT ![h] = writes'] /\ mine' = [mine EXCEPT ![h] = {"done"}]
    /\ Goto(h, "encode")
    /\ UNCHANGED <<app, todos, nextId, holder, at, todo, got>>

\* All is written: the lock is released, and encoding starts.
Written(h) ==
    /\ pc[h] \in {"locked", "loaded"} /\ todo[h] = {}
    /\ holder' = IF holder = h THEN Nobody ELSE holder
    /\ Goto(h, "encode")
    /\ UNCHANGED <<app, todos, nextId, words, at, todo, own, mine, got, writes>>

\* writeJSON, toV1 or toV2 reads a word, without the lock.
Encode(h, w) ==
    /\ pc[h] = "encode" /\ got[h][w] = -1
    /\ got' = [got EXCEPT ![h][w] = words[at[h]][w]]
    /\ UNCHANGED <<app, todos, nextId, words, holder, pc, at, todo, own, mine, writes>>

\* The answer is complete.
Answer(h) ==
    /\ pc[h] = "encode" /\ \A w \in Words : got[h][w] # -1
    /\ Goto(h, "idle")
    /\ at' = [at EXCEPT ![h] = 0]
    /\ own' = [own EXCEPT ![h] = 0] /\ mine' = [mine EXCEPT ![h] = {}]
    /\ got' = [got EXCEPT ![h] = None]
    /\ UNCHANGED <<app, todos, nextId, words, holder, todo, writes>>

\* The routes of each chapter.
Ch23(h) == Create(h) \/ \E i \in Ids : Get(h, i) \/ Update(h, i) \/ Delete(i)
Ch28(h) == Create(h) \/ MarkDone(h) \/ \E i \in Ids : Get(h, i) \/ TodoCtx(h, i)
Ch29(h) == Create(h) \/ \E i \in Ids : Get(h, i) \/ Replace(h, i) \/ Patch(h, i)
Ch34(h) == Create(h) \/ AddV2(h) \/ \E i \in Ids : Get(h, i)

Next == \E h \in Handlers :
    \/ app = "ch23" /\ Ch23(h)
    \/ app = "ch28" /\ Ch28(h)
    \/ app = "ch29" /\ Ch29(h)
    \/ app = "ch34" /\ Ch34(h)
    \/ WriteWord(h) \/ Written(h) \/ Answer(h)
    \/ \E w \in Words : Encode(h, w)

Spec == Init /\ [][Next]_vars

-----------------------------------------------------------------------------
(* Properties *)

\* A string in the store is one that some request sent, data and length, unless
\* a handler is in the middle of writing it.  (An answer may mix two strings.)
StoredStringsWhole ==
    \A i \in todos :
        \/ words[i]["data"] = words[i]["len"]
        \/ \E h \in Handlers : at[h] = i /\ Cardinality(todo[h] \cap String) = 1

\* An answer shows each field the request has set as it set it, or as a later
\* write has.
AnswersShowOwnWrite ==
    \A h \in Handlers : \A w \in mine[h] : got[h][w] # -1 => got[h][w] >= own[h]

=============================================================================
