----------------------------- MODULE InMemoryApi -----------------------------
(***************************************************************************)
(* The server of ch39_server_testing: accounts and todos in memory, each   *)
(* behind a mutex, and a token that carries the id of its user.  The       *)
(* accounts are those of ch32_server_auth too.  Hashing and signing are    *)
(* taken as working, and requests that are refused for their form are      *)
(* left out.                                                               *)
(***************************************************************************)
EXTENDS Integers

CONSTANTS
    Clients,    \* each with one request at a time
    Names,      \* usernames
    Passwords,
    Nothing,    \* no user, no credentials
    MaxTodos    \* bound: todos ever created

VARIABLES
    users,     \* UserStore.users: name to id and password hash, or Nothing
    nextUser,  \* UserStore.nextID
    todos,     \* TodoStore.todos: the UserID of each
    nextTodo,  \* TodoStore.nextID
    pc,        \* pc[c]: what the handler of c's request does next
    given,     \* given[c]: the name and password of c's register or login
    user,      \* user[c]: the user that login has found
    token,     \* token[c]: the user id in the token c holds, or 0
    proved,    \* history: the credentials that c got its token for
    author,    \* history: the credentials behind each todo
    shown      \* history: the todos c has seen with its token

vars == <<users, nextUser, todos, nextTodo, pc, given, user, token, proved, author, shown>>

Ids == 1..MaxTodos
Credentials == [name : Names, pass : Passwords]
User == [id : Nat \ {0}, pass : Passwords]

TypeOK ==
    /\ users \in [Names -> User \cup {Nothing}] /\ nextUser \in Nat \ {0}
    /\ \A n \in Names : users[n] # Nothing => users[n].id < nextUser
    /\ todos \in [Ids -> Nat] /\ nextTodo \in 1..(MaxTodos + 1)
    /\ pc \in [Clients -> {"idle", "create", "compare", "add"}]
    /\ given \in [Clients -> Credentials \cup {Nothing}]
    /\ user \in [Clients -> User \cup {Nothing}]
    /\ token \in [Clients -> Nat]
    /\ proved \in [Clients -> Credentials \cup {Nothing}]
    /\ author \in [Ids -> Credentials \cup {Nothing}]
    /\ shown \in [Clients -> SUBSET Ids]

Init ==
    /\ users = [n \in Names |-> Nothing] /\ nextUser = 1
    /\ todos = [i \in Ids |-> 0] /\ nextTodo = 1
    /\ pc = [c \in Clients |-> "idle"]
    /\ given = [c \in Clients |-> Nothing] /\ user = [c \in Clients |-> Nothing]
    /\ token = [c \in Clients |-> 0] /\ proved = [c \in Clients |-> Nothing]
    /\ author = [i \in Ids |-> Nothing] /\ shown = [c \in Clients |-> {}]

Goto(c, l) == pc' = [pc EXCEPT ![c] = l]

\* The request is over, and given and user are forgotten.
Done(c) ==
    /\ Goto(c, "idle")
    /\ given' = [given EXCEPT ![c] = Nothing]
    /\ user' = [user EXCEPT ![c] = Nothing]

\* issueToken; c uses the new token from now on.
Issue(c, uid) ==
    /\ token' = [token EXCEPT ![c] = uid]
    /\ proved' = [proved EXCEPT ![c] = given[c]]
    /\ shown' = [shown EXCEPT ![c] = {}]
    /\ Done(c)

-----------------------------------------------------------------------------
(* POST /auth/register *)

\* The password is hashed.
Register(c, cred) ==
    /\ pc[c] = "idle"
    /\ given' = [given EXCEPT ![c] = cred]
    /\ Goto(c, "create")
    /\ UNCHANGED <<users, nextUser, todos, nextTodo, user, token, proved, author, shown>>

\* Mutation of CreateUser: a name that was taken while the password was hashed
\* gives the user who has it, not ErrConflict.
CreateOrGetUser(c) ==
    /\ pc[c] = "create"
    /\ LET n == given[c].name IN
       IF users[n] # Nothing
       THEN Issue(c, users[n].id) /\ UNCHANGED <<users, nextUser>>
       ELSE /\ users' = [users EXCEPT ![n] = [id |-> nextUser, pass |-> given[c].pass]]
            /\ nextUser' = nextUser + 1
            /\ Issue(c, nextUser)
    /\ UNCHANGED <<todos, nextTodo, author>>

\* UserStore.Create, and the token.
CreateUser(c) ==
    /\ pc[c] = "create" /\ users[given[c].name] = Nothing
    /\ users' = [users EXCEPT ![given[c].name] = [id |-> nextUser, pass |-> given[c].pass]]
    /\ nextUser' = nextUser + 1
    /\ Issue(c, nextUser)
    /\ UNCHANGED <<todos, nextTodo, author>>

\* ErrConflict: 409.
Conflict(c) ==
    /\ pc[c] = "create" /\ users[given[c].name] # Nothing
    /\ Done(c)
    /\ UNCHANGED <<users, nextUser, todos, nextTodo, token, proved, author, shown>>

-----------------------------------------------------------------------------
(* POST /auth/login *)

\* GetByUsername; of a name that is not there the answer is 401.
Login(c, cred) ==
    /\ pc[c] = "idle" /\ users[cred.name] # Nothing
    /\ given' = [given EXCEPT ![c] = cred]
    /\ user' = [user EXCEPT ![c] = users[cred.name]]
    /\ Goto(c, "compare")
    /\ UNCHANGED <<users, nextUser, todos, nextTodo, token, proved, author, shown>>

\* CompareHashAndPassword, and the token.
Compare(c) ==
    /\ pc[c] = "compare"
    /\ IF user[c].pass = given[c].pass
       THEN Issue(c, user[c].id)
       ELSE Done(c) /\ UNCHANGED <<token, proved, shown>>
    /\ UNCHANGED <<users, nextUser, todos, nextTodo, author>>

\* 24 hours later: the token is of no use.
Expire(c) ==
    /\ pc[c] = "idle" /\ token[c] # 0
    /\ token' = [token EXCEPT ![c] = 0]
    /\ proved' = [proved EXCEPT ![c] = Nothing]
    /\ shown' = [shown EXCEPT ![c] = {}]
    /\ UNCHANGED <<users, nextUser, todos, nextTodo, pc, given, user, author>>

-----------------------------------------------------------------------------
(* /todos *)

\* POST: requireAuth lets the request pass.
Post(c) ==
    /\ pc[c] = "idle" /\ token[c] # 0 /\ nextTodo <= MaxTodos
    /\ Goto(c, "add")
    /\ UNCHANGED <<users, nextUser, todos, nextTodo, given, user, token, proved, author, shown>>

\* TodoStore.Create.  Bound: MaxTodos.
Add(c) ==
    /\ pc[c] = "add"
    /\ IF nextTodo <= MaxTodos
       THEN /\ todos' = [todos EXCEPT ![nextTodo] = token[c]]
            /\ author' = [author EXCEPT ![nextTodo] = proved[c]]
            /\ nextTodo' = nextTodo + 1
       ELSE UNCHANGED <<todos, author, nextTodo>>
    /\ Goto(c, "idle")
    /\ UNCHANGED <<users, nextUser, given, user, token, proved, shown>>

\* The answer shows the todos ts.
Show(c, ts) ==
    /\ shown' = [shown EXCEPT ![c] = @ \cup ts]
    /\ UNCHANGED <<users, nextUser, todos, nextTodo, pc, given, user, token, proved, author>>

\* GET /todos: ListByUser.
List(c) ==
    /\ pc[c] = "idle" /\ token[c] # 0
    /\ Show(c, {i \in Ids : todos[i] = token[c]})

\* GET /todos/{id}: 403 for the todo of another user.
Get(c, i) ==
    /\ pc[c] = "idle" /\ token[c] # 0
    /\ todos[i] = token[c]
    /\ Show(c, {i})

Next == \E c \in Clients :
    \/ \E cred \in Credentials : Register(c, cred) \/ Login(c, cred)
    \/ CreateUser(c) \/ Conflict(c) \/ Compare(c) \/ Expire(c)
    \/ Post(c) \/ Add(c) \/ List(c) \/ \E i \in Ids : Get(c, i)

Spec == Init /\ [][Next]_vars

-----------------------------------------------------------------------------
(* Properties *)

\* From the password to the todo: whoever is shown a todo has given the same
\* name and password as the one who made it, whoever raced for the name.
TodosStayWithTheirUser ==
    \A c \in Clients : \A i \in shown[c] : author[i] = proved[c]

=============================================================================
