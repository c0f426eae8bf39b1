----------------------------- MODULE SqlTodoRepo -----------------------------
(***************************************************************************)
(* The repository of ch25_database: Create and Update write in one         *)
(* statement and read the row they answer in a second, on a connection     *)
(* that other callers use in between.  A statement may fail.               *)
(***************************************************************************)
EXTENDS Integers

CONSTANTS
    Callers,    \* goroutines using the repository
    NoRow,      \* no such row
    MaxId,      \* bound: todos ever inserted
    MaxWrites   \* bound: UPDATE statements

VARIABLES
    rows,    \* the table
    last,    \* the last id inserted (AUTOINCREMENT)
    writes,  \* history: UPDATE statements so far
    pc,      \* pc[c]: "idle", or the answer to come: "created" or "updated"
    id,      \* id[c]: the id that c reads
    own,     \* history: own[c] = the number of c's UPDATE
    answer   \* answer[c]: the row c was answered, or NoRow

vars == <<rows, last, writes, pc, id, own, answer>>

Ids == 1..MaxId

\* by: who created it; done; wrote: the UPDATE that wrote it, 0 if none.
Row == [by : Callers, done : BOOLEAN, wrote : 0..MaxWrites]

TypeOK ==
    /\ rows \in [Ids -> Row \cup {NoRow}]
    /\ last \in 0..MaxId /\ writes \in 0..MaxWrites
    /\ \A i \in Ids : i > last => rows[i] = NoRow
    /\ pc \in [Callers -> {"idle", "created", "updated"}]
    /\ id \in [Callers -> Ids] /\ own \in [Callers -> 0..MaxWrites]
    /\ answer \in [Callers -> Row \cup {NoRow}]

Init ==
    /\ rows = [i \in Ids |-> NoRow]
    /\ last = 0 /\ writes = 0
    /\ pc = [c \in Callers |-> "idle"]
    /\ id = [c \in Callers |-> 1] /\ own = [c \in Callers |-> 0]
    /\ answer = [c \in Callers |-> NoRow]

\* The write is done; what c reads next is row i.
ThenGet(c, l, i) ==
    /\ pc' = [pc EXCEPT ![c] = l]
    /\ id' = [id EXCEPT ![c] = i]
    /\ answer' = [answer EXCEPT ![c] = NoRow]

-----------------------------------------------------------------------------

\* Create: INSERT, and the id of the result.  Bound: MaxId.
Insert(c) ==
    /\ pc[c] = "idle" /\ last < MaxId
    /\ last' = last + 1
    /\ rows' = [rows EXCEPT ![last'] = [by |-> c, done |-> FALSE, wrote |-> 0]]
    /\ ThenGet(c, "created", last')
    /\ UNCHANGED <<writes, own>>

\* Update: UPDATE of a row that exists; of any other the answer is ErrNotFound.  Bound: MaxWrites.
Update(c, i, d) ==
    /\ pc[c] = "idle" /\ writes < MaxWrites
    /\ rows[i] # NoRow
    /\ writes' = writes + 1
    /\ rows' = [rows EXCEPT ![i].done = d, ![i].wrote = writes']
    /\ own' = [own EXCEPT ![c] = writes']
    /\ ThenGet(c, "updated", i)
    /\ UNCHANGED last

\* Mutation of Read: the newest row is read, not the one written.
ReadNewest(c) ==
    /\ pc[c] # "idle"
    /\ answer' = [answer EXCEPT ![c] = rows[last]]
    /\ pc' = [pc EXCEPT ![c] = "idle"]
    /\ UNCHANGED <<rows, last, writes, id, own>>

\* Get: the row, or ErrNotFound when it is gone again.
Read(c) ==
    /\ pc[c] # "idle"
    /\ answer' = [answer EXCEPT ![c] = rows[id[c]]]
    /\ pc' = [pc EXCEPT ![c] = "idle"]
    /\ UNCHANGED <<rows, last, writes, id, own>>

\* Get fails after the write has been done: the caller is told of an error.
ReadFails(c) ==
    /\ pc[c] # "idle"
    /\ pc' = [pc EXCEPT ![c] = "idle"]
    /\ UNCHANGED <<rows, last, writes, id, own, answer>>

Delete(i) ==
    /\ rows[i] # NoRow
    /\ rows' = [rows EXCEPT ![i] = NoRow]
    /\ UNCHANGED <<last, writes, pc, id, own, answer>>

DeleteDone ==
    LET done == {i \in Ids : rows[i] # NoRow /\ rows[i].done} IN
    /\ done # {}
    /\ rows' = [i \in Ids |-> IF i \in done THEN NoRow ELSE rows[i]]
    /\ UNCHANGED <<last, writes, pc, id, own, answer>>

Next ==
    \/ \E c \in Callers :
          Insert(c) \/ (\E i \in Ids, d \in BOOLEAN : Update(c, i, d)) \/ Read(c) \/ ReadFails(c)
    \/ (\E i \in Ids : Delete(i)) \/ DeleteDone

Spec == Init /\ [][Next]_vars

-----------------------------------------------------------------------------
(* Properties *)

\* What a call answers includes what it wrote: Create answers a todo of the
\* caller's own, Update a row as its own UPDATE or a later one has left it.
AnswersIncludeOwnWrite ==
    [][\A c \in Callers : answer[c] = NoRow /\ answer'[c] # NoRow =>
          IF pc[c] = "created" THEN answer'[c].by = c ELSE answer'[c].wrote >= own[c]]_vars

=============================================================================
