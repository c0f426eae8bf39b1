---------------------------- MODULE TaggedTodos ----------------------------
(***************************************************************************)
(* The store of ch42_performance: todos, the tags of each, and two ways to *)
(* list both.  One takes the lock anew for the tags of every todo, the     *)
(* other keeps it for the whole list; other requests write meanwhile.      *)
(***************************************************************************)
EXTENDS Integers

CONSTANTS
    Readers,   \* requests that list
    MaxTodos,  \* bound: todos ever added
    MaxTags    \* bound: tags per todo

VARIABLES
    nextId,   \* Store.nextID: the todos are 1..(nextId - 1)
    tags,     \* tags[i]: how many tags todo i has; tags are only appended
    pc,       \* pc[r]: "idle", "naive" or "batched"
    todos,    \* todos[r]: the ids in the list of r
    left,     \* left[r]: those whose tags r has not read yet
    result,   \* result[r][i]: the tags of todo i in the list of r
    before    \* history: before[r] = tags when the call of r began

vars == <<nextId, tags, pc, todos, left, result, before>>

Ids == 1..MaxTodos
NoTags == [i \in Ids |-> 0]

TypeOK ==
    /\ nextId \in 1..(MaxTodos + 1)
    /\ tags \in [Ids -> 0..MaxTags]
    /\ pc \in [Readers -> {"idle", "naive", "batched"}]
    /\ todos \in [Readers -> SUBSET Ids] /\ left \in [Readers -> SUBSET Ids]
    /\ result \in [Readers -> [Ids -> 0..MaxTags]]
    /\ before \in [Readers -> [Ids -> 0..MaxTags]]

Init ==
    /\ nextId = 1
    /\ tags = NoTags
    /\ pc = [r \in Readers |-> "idle"]
    /\ todos = [r \in Readers |-> {}] /\ left = [r \in Readers |-> {}]
    /\ result = [r \in Readers |-> NoTags]
    /\ before = [r \in Readers |-> NoTags]

\* Mutation of Locked: a batched read gives the lock back after the todos.
LockedWhileListing == FALSE

\* The readers' lock is held between two steps by batched reads only; a writer
\* waits for it.
Locked == \E r \in Readers : pc[r] = "batched"

\* Bound: MaxTodos.
AddTodo ==
    /\ ~Locked
    /\ nextId \in Ids
    /\ nextId' = nextId + 1
    /\ UNCHANGED <<tags, pc, todos, left, result, before>>

\* There need not be a todo i yet.  Bound: MaxTags.
AddTag(i) ==
    /\ ~Locked
    /\ tags[i] < MaxTags
    /\ tags' = [tags EXCEPT ![i] = @ + 1]
    /\ UNCHANGED <<nextId, pc, todos, left, result, before>>

\* Either list begins with the todos there are.
Start(r, l) ==
    /\ pc[r] = "idle"
    /\ pc' = [pc EXCEPT ![r] = l]
    /\ todos' = [todos EXCEPT ![r] = 1..(nextId - 1)]
    /\ left' = [left EXCEPT ![r] = 1..(nextId - 1)]
    /\ result' = [result EXCEPT ![r] = NoTags]
    /\ before' = [before EXCEPT ![r] = tags]
    /\ UNCHANGED <<nextId, tags>>

\* The todos are read; then the lock is given back.
ListTodosNPlusOne(r) == Start(r, "naive")

\* The todos are read, and the lock is kept.
ListTodosBatched(r) == Start(r, "batched")

\* s.tags[t.ID] of the next todo, in the order of the map: under a lock of its
\* own or under that of the whole list.
ReadTags(r, i) ==
    /\ i \in left[r]
    /\ result' = [result EXCEPT ![r][i] = tags[i]]
    /\ left' = [left EXCEPT ![r] = @ \ {i}]
    /\ UNCHANGED <<nextId, tags, pc, todos, before>>

\* The list is complete; a batched one gives the lock back.
Return(r) ==
    /\ pc[r] # "idle" /\ left[r] = {}
    /\ pc' = [pc EXCEPT ![r] = "idle"]
    /\ UNCHANGED <<nextId, tags, todos, left, result, before>>

List(r) ==
    \/ ListTodosNPlusOne(r) \/ ListTodosBatched(r) \/ Return(r)
    \/ \E i \in Ids : ReadTags(r, i)

Next == AddTodo \/ (\E i \in Ids : AddTag(i)) \/ (\E r \in Readers : List(r))

Spec == Init /\ [][Next]_vars

-----------------------------------------------------------------------------
(* Properties *)

Complete(r) == pc[r] # "idle" /\ left[r] = {}

\* A batched list is the store at one instant, the one at which it returns: all
\* the todos and all their tags.
BatchedIsSnapshot ==
    \A r \in Readers : Complete(r) /\ pc[r] = "batched" =>
        todos[r] = 1..(nextId - 1) /\ \A i \in todos[r] : result[r][i] = tags[i]

\* A list read tag by tag need not be a state of the store, but no todo in it has
\* fewer tags than at the call or more than at the return.
NaiveWithinCall ==
    \A r \in Readers : Complete(r) =>
        /\ todos[r] \subseteq 1..(nextId - 1)
        /\ \A i \in todos[r] : result[r][i] \in before[r][i]..tags[i]

\* What each way to list promises.
ListsAreTrue == BatchedIsSnapshot /\ NaiveWithinCall

=============================================================================
