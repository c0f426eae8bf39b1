----------------------------- MODULE Pagination -----------------------------
(***************************************************************************)
(* A list of todos read page by page while todos come and go.  The server  *)
(* is one of three: GET /api/v1/todos of server/ (offset and limit, with   *)
(* COUNT and SELECT as two statements), GET /todos of ch30 (page numbers)  *)
(* and GET /todos/cursor of ch30; only server/ can delete.  The client     *)
(* walks as Pages, CollectAll and First of ch12 do: it follows the link to *)
(* the next page until there is none, or it has enough, or a page fails.   *)
(***************************************************************************)
EXTENDS Integers, Sequences, FiniteSets, SequencesExt

CONSTANTS
    DefaultSize,  \* todos on a page when the client asks for no size
    MaxSize,      \* todos on a page at most
    Wanted,       \* First's n
    MaxId         \* bound: todos ever added

VARIABLES
    server,   \* "offset", "page" or "cursor"
    todos,    \* ids in the store
    nextId,   \* the next id
    at,       \* the offset, page or cursor the client asks for
    size,     \* per_page, limit
    total,    \* what COUNT(*) answered
    link,     \* where the next page is, or 0
    got,      \* ids the client has collected
    pc,       \* the client: "idle", "asked", "counted", "page", "all", "enough"
    before,   \* history: the todos when the walk began
    deleted   \* history: todos deleted during the walk

vars == <<server, todos, nextId, at, size, total, link, got, pc, before, deleted>>

Ids == 1..MaxId

TypeOK ==
    /\ server \in {"offset", "page", "cursor"}
    /\ todos \subseteq 1..(nextId - 1) /\ nextId \in 1..(MaxId + 1)
    /\ at \in Nat /\ size \in 1..MaxSize /\ total \in 0..MaxId /\ link \in Nat
    /\ got \in Seq(Ids)
    /\ pc \in {"idle", "asked", "counted", "page", "all", "enough"}
    /\ before \subseteq Ids /\ deleted \in Nat

Init ==
    /\ server \in {"offset", "page", "cursor"}
    /\ todos = {} /\ nextId = 1
    /\ at = 0 /\ size = DefaultSize /\ total = 0 /\ link = 0 /\ got = <<>>
    /\ pc = "idle"
    /\ before = {} /\ deleted = 0

walk == <<at, size, total, link, got, pc, before>>

\* ids in ascending order: the k-th is the one that has k of them up to it.
Sorted(ids) ==
    [k \in 1..Cardinality(ids) |-> CHOOSE i \in ids : Cardinality({j \in ids : j <= i}) = k]

\* The LIMIT and OFFSET of a query, a slice of all.
Window(seq, offset, limit) ==
    SubSeq(seq, offset + 1, IF offset + limit > Len(seq) THEN Len(seq) ELSE offset + limit)

-----------------------------------------------------------------------------
(* The store *)

Add ==
    /\ nextId <= MaxId
    /\ todos' = todos \cup {nextId}
    /\ nextId' = nextId + 1
    /\ UNCHANGED <<server, walk, deleted>>

Delete(i) ==
    /\ server = "offset" /\ i \in todos
    /\ todos' = todos \ {i}
    /\ deleted' = IF pc = "idle" THEN 0 ELSE deleted + 1
    /\ UNCHANGED <<server, nextId, walk>>

-----------------------------------------------------------------------------
(* The servers *)

\* A size that is out of range: server/ takes the nearest for one too large,
\* ch30 the default.
SizeOf(q) ==
    IF q < 1 THEN DefaultSize
    ELSE IF q <= MaxSize THEN q
    ELSE IF server = "offset" THEN MaxSize ELSE DefaultSize

\* server/: SELECT COUNT(*).
Count ==
    /\ server = "offset" /\ pc = "asked"
    /\ total' = Cardinality(todos)
    /\ pc' = "counted"
    /\ UNCHANGED <<server, todos, nextId, at, size, link, got, before, deleted>>

Answer(items, next) ==
    /\ got' = got \o items
    /\ link' = next
    /\ pc' = "page"
    /\ UNCHANGED <<server, todos, nextId, at, size, total, before, deleted>>

\* server/: SELECT ... ORDER BY id LIMIT ? OFFSET ?, then the Link header.
Select ==
    /\ server = "offset" /\ pc = "counted"
    /\ Answer(Window(Sorted(todos), at, size),
              IF at + size < total THEN at + size ELSE 0)

\* ch30: List under the read lock, then buildLinkHeader.
List ==
    LET lastPage == (Cardinality(todos) + size - 1) \div size IN
    /\ server = "page" /\ pc = "asked"
    /\ Answer(Window(Sorted(todos), (at - 1) * size, size),
              IF at < lastPage THEN at + 1 ELSE 0)

\* The ids after the cursor, limit of them at most.
ListAfter(cursor, limit) == Window(Sorted({i \in todos : i > cursor}), 0, limit)

\* Mutation of ListCursor: next_cursor is the extra todo that shows there is more.
ListCursorExtra ==
    LET items == ListAfter(at, size + 1)
        hasMore == Len(items) > size
    IN /\ server = "cursor" /\ pc = "asked"
       /\ Answer(Window(items, 0, size), IF hasMore THEN items[size + 1] ELSE 0)

\* ch30: one more than asked for, to see whether there is a next page.
ListCursor ==
    LET items == ListAfter(at, size + 1)
        hasMore == Len(items) > size
    IN /\ server = "cursor" /\ pc = "asked"
       /\ Answer(Window(items, 0, size), IF hasMore THEN items[size] ELSE 0)

-----------------------------------------------------------------------------
(* The client *)

\* The first request, with a size of any kind.
Start(q) ==
    /\ pc = "idle"
    /\ at' = IF server = "page" THEN 1 ELSE 0
    /\ size' = SizeOf(q)
    /\ pc' = "asked"
    /\ before' = todos /\ deleted' = 0
    /\ UNCHANGED <<server, todos, nextId, total, link, got>>

\* The link to the next page is followed.
Follow ==
    /\ pc = "page" /\ link # 0
    /\ at' = link
    /\ pc' = "asked"
    /\ UNCHANGED <<server, todos, nextId, size, total, link, got, before, deleted>>

\* There is no next page.
Collected ==
    /\ pc = "page" /\ link = 0
    /\ pc' = "all"
    /\ UNCHANGED <<server, todos, nextId, at, size, total, link, got, before, deleted>>

\* First: the page brings as many as it wants, or more.
First ==
    /\ pc = "page" /\ Len(got) >= Wanted
    /\ got' = SubSeq(got, 1, Wanted)
    /\ pc' = "enough"
    /\ UNCHANGED <<server, todos, nextId, at, size, total, link, before, deleted>>

\* The caller has the result, or, when a request failed, an error.
Return ==
    /\ pc \notin {"idle", "page"}
    /\ pc' = "idle"
    /\ at' = 0 /\ size' = DefaultSize /\ total' = 0 /\ link' = 0 /\ got' = <<>>
    /\ before' = {} /\ deleted' = 0
    /\ UNCHANGED <<server, todos, nextId>>

Next ==
    \/ Add \/ (\E i \in Ids : Delete(i))
    \/ Count \/ Select \/ List \/ ListCursor
    \/ (\E q \in 0..(MaxSize + 1) : Start(q)) \/ Follow \/ Collected \/ First \/ Return

Spec == Init /\ [][Next]_vars

-----------------------------------------------------------------------------
(* Properties *)

\* No walk sees a todo twice, and one that ends has seen every todo that was
\* there from its beginning and still is, but for one at most for each todo
\* that was deleted in the meantime; First has skipped no more.
ListingsComplete ==
    LET seen == ToSet(got)
        due == CASE pc = "all" -> before \cap todos
                 [] pc = "enough" -> {i \in before \cap todos : i < Last(got)}
                 [] OTHER -> {}
    IN /\ Cardinality(seen) = Len(got)
       /\ Cardinality(due \ seen) <= deleted

=============================================================================
