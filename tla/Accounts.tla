------------------------------ MODULE Accounts ------------------------------
(***************************************************************************)
(* Users, passwords and tokens of server/: POST /api/v1/auth/register and  *)
(* /login (handlers_auth.go over the UserRepo of db.go), the JWTs of       *)
(* auth.go and the test RequireAuth makes on them.  One action per SQL     *)
(* statement; checkPassword, which takes a while, is one more.             *)
(***************************************************************************)
EXTENDS Integers, Sequences

CONSTANTS
    Conns,      \* HTTP connections; each carries one request at a time
    Names,      \* usernames, trimmed and not empty
    Blank,      \* a username that TrimSpace leaves empty
    Passwords,  \* passwords of 8 to 72 bytes
    Short,      \* a password of fewer than 8 bytes
    Long,       \* one of more than 72, whose first 72 are nobody's password
    Forged,     \* a Bearer token parseToken rejects whatever the time
    Nothing,    \* no request, or no row
    TokenLife,  \* the 24 h of issueToken, in ticks
    MaxUsers,   \* bound: users ever registered
    MaxTime,    \* bound: ticks of the clock
    DbMayFail   \* may a SQL statement return an error of its own?

ASSUME AccountsAssumption ==
    /\ TokenLife \in Nat \ {0} /\ MaxUsers \in Nat /\ MaxTime \in Nat
    /\ DbMayFail \in BOOLEAN
    /\ Blank \notin Names
    /\ Short \notin Passwords /\ Long \notin Passwords

VARIABLES
    users,     \* the users table; ids count up and no row ever goes
    tokens,    \* every token a client was given
    now,       \* the clock
    pc,        \* pc[c]: what the handler on c does next
    req,       \* req[c]: the request on c
    row,       \* row[c]: the row handleLogin selected
    status,    \* status[c]: the status code of the answer, 0 before it
    promised,  \* history: the credentials a 201 acknowledged
    proved     \* history: proved[u] = last time u's password was given, or -1

vars == <<users, tokens, now, pc, req, row, status, promised, proved>>

UserIds == 1..MaxUsers

User == [name : Names, password : Passwords]

UserRow == [id : UserIds, name : Names, password : Passwords]

Token == [uid : UserIds, name : Names, exp : TokenLife..(MaxTime + TokenLife)]

\* padded: the username has spaces around it.
Credentials ==
    [op : {"register", "login"}, name : Names \cup {Blank}, padded : BOOLEAN,
     password : Passwords \cup {Short, Long}]

TypeOK ==
    /\ users \in Seq(User) /\ Len(users) <= MaxUsers
    /\ tokens \subseteq Token
    /\ now \in 0..MaxTime
    /\ pc \in [Conns -> {"idle", "insert", "select", "verify", "answered"}]
    /\ req \in [Conns -> Credentials \cup {Nothing}]
    /\ row \in [Conns -> UserRow \cup {Nothing}]
    /\ status \in [Conns -> {0, 200, 201, 400, 401, 409, 422, 500}]
    /\ promised \subseteq User
    /\ proved \in [UserIds -> -1..MaxTime]

Init ==
    /\ users = <<>>
    /\ tokens = {}
    /\ now = 0
    /\ pc = [c \in Conns |-> "idle"]
    /\ req = [c \in Conns |-> Nothing]
    /\ row = [c \in Conns |-> Nothing]
    /\ status = [c \in Conns |-> 0]
    /\ promised = {}
    /\ proved = [u \in UserIds |-> -1]

-----------------------------------------------------------------------------

Answer(c, code) ==
    /\ pc' = [pc EXCEPT ![c] = "answered"]
    /\ status' = [status EXCEPT ![c] = code]

\* A body that is not JSON: both handlers answer before they look at anything.
BadJson(c) ==
    /\ pc[c] = "idle"
    /\ Answer(c, 400)
    /\ UNCHANGED <<users, tokens, now, req, row, promised, proved>>

\* handleRegister validates; bcrypt then refuses to hash a Long password.
RefuseRegister(c, r) ==
    /\ pc[c] = "idle"
    /\ r.op = "register"
    /\ r.name = Blank \/ r.password \in {Short, Long}
    /\ Answer(c, IF r.name = Blank \/ r.password = Short THEN 422 ELSE 500)
    /\ req' = [req EXCEPT ![c] = r]
    /\ UNCHANGED <<users, tokens, now, row, promised, proved>>

\* handleRegister goes on to its INSERT, with the trimmed name and the hash;
\* handleLogin starts with its SELECT, whatever name it is given.
Begin(c, r) ==
    /\ pc[c] = "idle"
    /\ r.op = "register" => r.name # Blank /\ r.password \in Passwords
    /\ pc' = [pc EXCEPT ![c] = IF r.op = "register" THEN "insert" ELSE "select"]
    /\ req' = [req EXCEPT ![c] = r]
    /\ UNCHANGED <<users, tokens, now, row, status, promised, proved>>

-----------------------------------------------------------------------------

\* Mutation of NewToken: the 24 hours are not added.
NewTokenExpired(u, name) == [uid |-> u, name |-> name, exp |-> now]

\* issueToken, right after the step that established who the client is.
NewToken(u, name) == [uid |-> u, name |-> name, exp |-> now + TokenLife]

GiveToken(c, u, name, code) ==
    /\ tokens' = tokens \cup {NewToken(u, name)}
    /\ proved' = [proved EXCEPT ![u] = now]
    /\ Answer(c, code)

Taken(name) == \E u \in DOMAIN users : users[u].name = name

Fresh(c) == [name |-> req[c].name, password |-> req[c].password]

\* Mutation of InsertUser: INSERT OR REPLACE, which gives the name away.
InsertOrReplace(c) ==
    LET others == SelectSeq(users, LAMBDA u : u.name # req[c].name) IN
    /\ pc[c] = "insert"
    /\ Len(users) < MaxUsers
    /\ users' = Append(others, Fresh(c))
    /\ GiveToken(c, Len(users'), req[c].name, 201)
    /\ promised' = promised \cup {Fresh(c)}
    /\ UNCHANGED <<now, req, row>>

\* UserRepo.Create, the token and the 201.  Bound: MaxUsers.
InsertUser(c) ==
    /\ pc[c] = "insert"
    /\ ~Taken(req[c].name)
    /\ Len(users) < MaxUsers
    /\ users' = Append(users, Fresh(c))
    /\ GiveToken(c, Len(users'), req[c].name, 201)
    /\ promised' = promised \cup {Fresh(c)}
    /\ UNCHANGED <<now, req, row>>

\* The UNIQUE constraint.
InsertTaken(c) ==
    /\ pc[c] = "insert"
    /\ Taken(req[c].name)
    /\ Answer(c, 409)
    /\ UNCHANGED <<users, tokens, now, req, row, promised, proved>>

\* The INSERT returns another error, before or after it took effect.
InsertFails(c) ==
    /\ DbMayFail
    /\ pc[c] = "insert"
    /\ \/ UNCHANGED users
       \/ /\ ~Taken(req[c].name) /\ Len(users) < MaxUsers
          /\ users' = Append(users, Fresh(c))
    /\ Answer(c, 500)
    /\ UNCHANGED <<tokens, now, req, row, promised, proved>>

\* WHERE username = ?: handleLogin does not trim, and no stored name is padded.
Matches(r, u) == users[u].name = r.name /\ ~r.padded

SelectUser(c) ==
    /\ pc[c] = "select"
    /\ \E u \in DOMAIN users :
          /\ Matches(req[c], u)
          /\ row' = [row EXCEPT ![c] =
                [id |-> u, name |-> users[u].name, password |-> users[u].password]]
    /\ pc' = [pc EXCEPT ![c] = "verify"]
    /\ UNCHANGED <<users, tokens, now, req, status, promised, proved>>

\* GetByUsername turns every error of its SELECT into ErrNotFound: 401.
SelectMissing(c) ==
    /\ pc[c] = "select"
    /\ DbMayFail \/ \A u \in DOMAIN users : ~Matches(req[c], u)
    /\ Answer(c, 401)
    /\ UNCHANGED <<users, tokens, now, req, row, promised, proved>>

\* checkPassword, then the token of the row selected before.
VerifyPassword(c) ==
    /\ pc[c] = "verify"
    /\ row[c].password = req[c].password
    /\ GiveToken(c, row[c].id, row[c].name, 200)
    /\ UNCHANGED <<users, now, req, row, promised>>

WrongPassword(c) ==
    /\ pc[c] = "verify"
    /\ row[c].password # req[c].password
    /\ Answer(c, 401)
    /\ UNCHANGED <<users, tokens, now, req, row, promised, proved>>

-----------------------------------------------------------------------------

\* Mutation of Accepted: the exp claim is not looked at.
AcceptedAlways(t) == t \in tokens

\* parseToken: the signature is the server's own and exp lies ahead.
Accepted(t) == t \in tokens /\ now < t.exp

\* A request on a protected route; RequireAuth is all of it that matters here.
Access(c, t) ==
    /\ pc[c] = "idle"
    /\ Answer(c, IF Accepted(t) THEN 200 ELSE 401)
    /\ UNCHANGED <<users, tokens, now, req, row, promised, proved>>

Finish(c) ==
    /\ pc[c] = "answered"
    /\ pc' = [pc EXCEPT ![c] = "idle"]
    /\ req' = [req EXCEPT ![c] = Nothing]
    /\ row' = [row EXCEPT ![c] = Nothing]
    /\ status' = [status EXCEPT ![c] = 0]
    /\ UNCHANGED <<users, tokens, now, promised, proved>>

Tick ==
    /\ now < MaxTime
    /\ now' = now + 1
    /\ UNCHANGED <<users, tokens, pc, req, row, status, promised, proved>>

Disconnect ==
    /\ pc' = [c \in Conns |-> "idle"]
    /\ req' = [c \in Conns |-> Nothing]
    /\ row' = [c \in Conns |-> Nothing]
    /\ status' = [c \in Conns |-> 0]

\* Mutation of Restart: the schema drops the table before it creates it.
RestartAnew ==
    /\ Disconnect
    /\ users' = <<>>
    /\ UNCHANGED <<tokens, now, promised, proved>>

\* The process ends, in the middle of anything, and Run starts it again with
\* the same database file and secret: CREATE TABLE IF NOT EXISTS keeps the rows.
Restart ==
    /\ Disconnect
    /\ UNCHANGED <<users, tokens, now, promised, proved>>

Statement(c) ==
    \/ InsertUser(c) \/ InsertTaken(c) \/ InsertFails(c)
    \/ SelectUser(c) \/ SelectMissing(c) \/ VerifyPassword(c) \/ WrongPassword(c)

Send(c) ==
    \/ BadJson(c)
    \/ \E r \in Credentials : RefuseRegister(c, r) \/ Begin(c, r)
    \/ \E t \in tokens \cup {Forged} : Access(c, t)

Next ==
    \/ \E c \in Conns : Send(c) \/ Statement(c) \/ Finish(c)
    \/ Tick
    \/ Restart

Spec == Init /\ [][Next]_vars

-----------------------------------------------------------------------------
(* Properties *)

\* Every token a client may hold names a row of the users table by both its id
\* and its name, and goes on doing so across restarts: the user_id that
\* handleCreateTodo takes from it is the user who logged in.
TokensNameTheirUser ==
    \A t \in tokens : t.uid \in DOMAIN users /\ users[t.uid].name = t.name

\* Credentials that register answered 201 for log in for ever: a login that
\* gives them unpadded is refused only if its SELECT failed, whoever registers
\* the same name at the same time and however often the server restarts.
Acknowledged(c) ==
    /\ pc[c] \in {"select", "verify"} /\ ~req[c].padded
    /\ Fresh(c) \in promised

LetIn(c) == status'[c] = 200 \/ (DbMayFail /\ SelectMissing(c))

CredentialsWork ==
    [][\A c \in Conns :
          Acknowledged(c) /\ pc'[c] = "answered" => LetIn(c)]_vars

\* RequireAuth lets a request in as user u only if u's password was given, to
\* register or to login, less than 24 h before.
ProofIsFresh ==
    \A t \in tokens :
        Accepted(t) => proved[t.uid] >= 0 /\ now < proved[t.uid] + TokenLife

=============================================================================
