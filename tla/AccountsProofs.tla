--------------------------- MODULE AccountsProofs ---------------------------
(***************************************************************************)
(* The properties of Accounts for every number of connections, users and   *)
(* restarts.  CredentialsWork is about what cannot happen between two      *)
(* statements of handleLogin: it rests on the uniqueness of names, on rows *)
(* never changing, and on the row a handler selected still being right.    *)
(***************************************************************************)
EXTENDS Accounts, TLAPS

NamesUnique ==
    \A u, v \in DOMAIN users : users[u].name = users[v].name => u = v

PromisesKept == \A p \in promised : \E u \in DOMAIN users : users[u] = p

\* What a handler relies on between two statements.
HandlerKnows(c) ==
    /\ pc[c] \in {"insert", "select", "verify"} => req[c] \in Credentials
    /\ pc[c] = "insert" => Fresh(c) \in User
    /\ pc[c] = "verify" =>
          /\ row[c].id \in DOMAIN users
          /\ row[c].name = users[row[c].id].name
          /\ row[c].password = users[row[c].id].password
          /\ row[c].name = req[c].name

TokensAreRecent ==
    \A t \in tokens :
        /\ 0 <= proved[t.uid]
        /\ t.exp <= proved[t.uid] + TokenLife

Inv ==
    /\ TypeOK
    /\ NamesUnique
    /\ PromisesKept
    /\ \A c \in Conns : HandlerKnows(c)
    /\ TokensNameTheirUser
    /\ TokensAreRecent
    /\ \A u \in UserIds : proved[u] <= now

-----------------------------------------------------------------------------

LEMMA InitInv == Init => Inv
<1> SUFFICES ASSUME Init PROVE Inv
  OBVIOUS
<1>1. users = <<>> /\ DOMAIN users = {} /\ Len(users) = 0 /\ users \in Seq(User)
  BY DEF Init
<1>2. TypeOK
  BY <1>1, AccountsAssumption DEF Init, TypeOK, UserIds
<1>3. NamesUnique /\ PromisesKept
  BY <1>1 DEF Init, NamesUnique, PromisesKept
<1>4. \A c \in Conns : HandlerKnows(c)
  BY DEF Init, HandlerKnows
<1>5. TokensNameTheirUser /\ TokensAreRecent
  BY DEF Init, TokensNameTheirUser, TokensAreRecent
<1>6. \A u \in UserIds : proved[u] <= now
  BY DEF Init
<1> QED BY <1>2, <1>3, <1>4, <1>5, <1>6 DEF Inv

\* Adding a user whose name is free keeps everything that is said of rows.
LEMMA RowsGrow ==
  ASSUME Inv, NEW c \in Conns, pc[c] = "insert", ~Taken(req[c].name),
         Len(users) < MaxUsers, users' = Append(users, Fresh(c))
  PROVE  /\ users' \in Seq(User) /\ Len(users') <= MaxUsers
         /\ Len(users') = Len(users) + 1
         /\ Len(users') \in UserIds /\ Len(users') \in DOMAIN users'
         /\ users'[Len(users')] = Fresh(c)
         /\ \A u \in DOMAIN users : u \in DOMAIN users' /\ users'[u] = users[u]
         /\ NamesUnique'
<1>1. users \in Seq(User) /\ Fresh(c) \in User /\ MaxUsers \in Nat
      /\ Len(users) \in Nat
  BY AccountsAssumption DEF Inv, TypeOK, HandlerKnows
<1>2. users' \in Seq(User) /\ Len(users') = Len(users) + 1
      /\ DOMAIN users' = 1..(Len(users) + 1) /\ DOMAIN users = 1..Len(users)
  BY <1>1
<1>3. users'[Len(users) + 1] = Fresh(c)
      /\ \A u \in DOMAIN users : users'[u] = users[u]
  BY <1>1, <1>2
<1>4. \A u \in DOMAIN users : users[u].name # Fresh(c).name
  BY DEF Taken, Fresh
<1>5. \A u \in DOMAIN users' : u \in DOMAIN users \/ u = Len(users) + 1
  BY <1>1, <1>2
<1>6. NamesUnique'
  BY <1>3, <1>4, <1>5 DEF Inv, NamesUnique
<1> QED BY <1>1, <1>2, <1>3, <1>6 DEF UserIds

LEMMA InsertUserInv == ASSUME Inv, NEW c \in Conns, InsertUser(c) PROVE Inv'
<1> DEFINE n == Len(users')
           t == NewToken(n, req[c].name)
<1>1. /\ pc[c] = "insert" /\ ~Taken(req[c].name) /\ Len(users) < MaxUsers
      /\ users' = Append(users, Fresh(c))
      /\ tokens' = tokens \cup {t}
      /\ proved' = [proved EXCEPT ![n] = now]
      /\ pc' = [pc EXCEPT ![c] = "answered"]
      /\ status' = [status EXCEPT ![c] = 201]
      /\ promised' = promised \cup {Fresh(c)}
      /\ now' = now /\ req' = req /\ row' = row
  BY DEF InsertUser, GiveToken, Answer
<1>2. /\ users' \in Seq(User) /\ n <= MaxUsers
      /\ n \in UserIds /\ n \in DOMAIN users' /\ users'[n] = Fresh(c)
      /\ \A u \in DOMAIN users : u \in DOMAIN users' /\ users'[u] = users[u]
      /\ NamesUnique'
  BY <1>1, RowsGrow
<1>3. Fresh(c) \in User /\ Fresh(c).name = req[c].name /\ req[c].name \in Names
  BY <1>1 DEF Inv, HandlerKnows, Fresh, User
<1>4. now \in 0..MaxTime /\ MaxTime \in Nat /\ TokenLife \in Nat
  BY AccountsAssumption DEF Inv, TypeOK
<1>5. t = [uid |-> n, name |-> req[c].name, exp |-> now + TokenLife] /\ t \in Token
  BY <1>2, <1>3, <1>4 DEF NewToken, Token
<1> HIDE DEF t, n
<1>6. TypeOK'
  BY <1>1, <1>2, <1>3, <1>4, <1>5 DEF Inv, TypeOK, n
<1>7. PromisesKept'
  BY <1>1, <1>2 DEF Inv, PromisesKept
<1>8. \A d \in Conns : HandlerKnows(d)'
  BY <1>1, <1>2 DEF Inv, TypeOK, HandlerKnows, Fresh
<1>9. TokensNameTheirUser'
  BY <1>1, <1>2, <1>3, <1>5 DEF Inv, TokensNameTheirUser
<1>10. proved'[n] = now /\ \A u \in UserIds : proved[u] <= proved'[u]
       /\ proved'[u] <= now /\ proved[u] \in Int /\ proved'[u] \in Int
  BY <1>1, <1>2, <1>4 DEF Inv, TypeOK
<1>11. TokensAreRecent'
  <2> SUFFICES ASSUME NEW s \in tokens'
               PROVE  0 <= proved'[s.uid] /\ s.exp <= proved'[s.uid] + TokenLife
    BY DEF TokensAreRecent
  <2>1. CASE s = t
    BY <2>1, <1>4, <1>5, <1>10
  <2>2. CASE s \in tokens
    <3>1. s.uid \in UserIds /\ s.exp \in Int
      BY <2>2, AccountsAssumption DEF Inv, TypeOK, Token
    <3>2. 0 <= proved[s.uid] /\ s.exp <= proved[s.uid] + TokenLife
      BY <2>2 DEF Inv, TokensAreRecent
    <3> QED BY <3>1, <3>2, <1>4, <1>10
  <2> QED BY <2>1, <2>2, <1>1
<1> QED BY <1>1, <1>2, <1>6, <1>7, <1>8, <1>9, <1>10, <1>11 DEF Inv

LEMMA InsertFailsInv == ASSUME Inv, NEW c \in Conns, InsertFails(c) PROVE Inv'
<1>1. /\ pc[c] = "insert" /\ UNCHANGED <<tokens, now, req, row, promised, proved>>
      /\ pc' = [pc EXCEPT ![c] = "answered"]
      /\ status' = [status EXCEPT ![c] = 500]
  BY DEF InsertFails, Answer
<1>2. CASE UNCHANGED users
  BY <1>1, <1>2
  DEF Inv, TypeOK, NamesUnique, PromisesKept, HandlerKnows, Fresh,
      TokensNameTheirUser, TokensAreRecent
<1>3. CASE ~Taken(req[c].name) /\ Len(users) < MaxUsers
           /\ users' = Append(users, Fresh(c))
  <2>1. /\ users' \in Seq(User) /\ Len(users') <= MaxUsers
        /\ \A u \in DOMAIN users : u \in DOMAIN users' /\ users'[u] = users[u]
        /\ NamesUnique'
    BY <1>1, <1>3, RowsGrow
  <2>2. TypeOK'
    BY <1>1, <2>1 DEF Inv, TypeOK
  <2>3. PromisesKept' /\ TokensNameTheirUser' /\ TokensAreRecent'
    BY <1>1, <2>1 DEF Inv, PromisesKept, TokensNameTheirUser, TokensAreRecent
  <2>4. \A d \in Conns : HandlerKnows(d)'
    BY <1>1, <2>1 DEF Inv, TypeOK, HandlerKnows, Fresh
  <2> QED BY <1>1, <2>1, <2>2, <2>3, <2>4 DEF Inv
<1> QED BY <1>2, <1>3 DEF InsertFails

LEMMA VerifyPasswordInv ==
  ASSUME Inv, NEW c \in Conns, VerifyPassword(c) PROVE Inv'
<1> DEFINE n == row[c].id
           t == NewToken(n, row[c].name)
<1>1. /\ pc[c] = "verify"
      /\ tokens' = tokens \cup {t}
      /\ proved' = [proved EXCEPT ![n] = now]
      /\ pc' = [pc EXCEPT ![c] = "answered"]
      /\ status' = [status EXCEPT ![c] = 200]
      /\ UNCHANGED <<users, now, req, row, promised>>
  BY DEF VerifyPassword, GiveToken, Answer
<1>2. /\ n \in DOMAIN users /\ row[c].name = users[n].name
      /\ users \in Seq(User) /\ Len(users) <= MaxUsers /\ MaxUsers \in Nat
      /\ now \in 0..MaxTime /\ MaxTime \in Nat /\ TokenLife \in Nat
  BY <1>1, AccountsAssumption DEF Inv, TypeOK, HandlerKnows
<1>3. n \in UserIds /\ row[c].name \in Names
  <2>1. Len(users) \in Nat /\ n \in 1..Len(users) /\ users[n] \in User
    BY <1>2
  <2> QED BY <1>2, <2>1 DEF UserIds, User
<1>4. t = [uid |-> n, name |-> row[c].name, exp |-> now + TokenLife] /\ t \in Token
  BY <1>2, <1>3 DEF NewToken, Token
<1> HIDE DEF t, n
<1>5. TypeOK'
  BY <1>1, <1>2, <1>3, <1>4 DEF Inv, TypeOK
<1>6. NamesUnique' /\ PromisesKept' /\ \A d \in Conns : HandlerKnows(d)'
  BY <1>1 DEF Inv, TypeOK, NamesUnique, PromisesKept, HandlerKnows, Fresh
<1>7. TokensNameTheirUser'
  BY <1>1, <1>2, <1>4 DEF Inv, TokensNameTheirUser
<1>8. proved'[n] = now /\ \A u \in UserIds : proved[u] <= proved'[u]
      /\ proved'[u] <= now /\ proved[u] \in Int /\ proved'[u] \in Int
  BY <1>1, <1>2, <1>3 DEF Inv, TypeOK
<1>9. TokensAreRecent'
  <2> SUFFICES ASSUME NEW s \in tokens'
               PROVE  0 <= proved'[s.uid] /\ s.exp <= proved'[s.uid] + TokenLife
    BY DEF TokensAreRecent
  <2>1. CASE s = t
    BY <2>1, <1>2, <1>4, <1>8
  <2>2. CASE s \in tokens
    <3>1. s.uid \in UserIds /\ s.exp \in Int
      BY <2>2, AccountsAssumption DEF Inv, TypeOK, Token
    <3>2. 0 <= proved[s.uid] /\ s.exp <= proved[s.uid] + TokenLife
      BY <2>2 DEF Inv, TokensAreRecent
    <3> QED BY <3>1, <3>2, <1>2, <1>8
  <2> QED BY <2>1, <2>2, <1>1
<1> QED BY <1>1, <1>5, <1>6, <1>7, <1>8, <1>9 DEF Inv

\* The steps that change neither rows nor tokens.
LEMMA QuietInv ==
  ASSUME Inv, UNCHANGED <<users, tokens, promised, proved>>,
         now' \in 0..MaxTime, now' >= now,
         TypeOK', \A c \in Conns : HandlerKnows(c)'
  PROVE  Inv'
<1>1. NamesUnique' /\ PromisesKept' /\ TokensNameTheirUser' /\ TokensAreRecent'
  BY DEF Inv, NamesUnique, PromisesKept, TokensNameTheirUser, TokensAreRecent
<1>2. \A u \in UserIds : proved'[u] <= now'
  BY AccountsAssumption DEF Inv, TypeOK
<1> QED BY <1>1, <1>2 DEF Inv

LEMMA StepInv == Inv /\ [Next]_vars => Inv'
<1> SUFFICES ASSUME Inv, [Next]_vars PROVE Inv'
  OBVIOUS
<1>0. now \in 0..MaxTime /\ MaxTime \in Nat /\ now >= now
  BY AccountsAssumption DEF Inv, TypeOK
<1>1. ASSUME NEW c \in Conns, BadJson(c) PROVE Inv'
  <2>1. TypeOK' /\ \A d \in Conns : HandlerKnows(d)'
    BY <1>1 DEF BadJson, Answer, Inv, TypeOK, HandlerKnows, Fresh
  <2> QED BY <1>0, <1>1, <2>1, QuietInv DEF BadJson
<1>2. ASSUME NEW c \in Conns, NEW r \in Credentials, RefuseRegister(c, r) PROVE Inv'
  <2>1. TypeOK' /\ \A d \in Conns : HandlerKnows(d)'
    BY <1>2 DEF RefuseRegister, Answer, Inv, TypeOK, HandlerKnows, Fresh
  <2> QED BY <1>0, <1>2, <2>1, QuietInv DEF RefuseRegister
<1>3. ASSUME NEW c \in Conns, NEW r \in Credentials, Begin(c, r) PROVE Inv'
  <2>1. TypeOK'
    BY <1>3 DEF Begin, Inv, TypeOK
  <2>2. ASSUME NEW d \in Conns PROVE HandlerKnows(d)'
    <3>1. CASE d = c
      <4>1. req'[c] = r /\ pc'[c] = IF r.op = "register" THEN "insert" ELSE "select"
        BY <1>3 DEF Begin, Inv, TypeOK
      <4>2. r.op = "register" => r.name \in Names /\ r.password \in Passwords
        BY <1>3 DEF Begin, Credentials
      <4> QED BY <3>1, <4>1, <4>2 DEF HandlerKnows, Fresh, User
    <3>2. CASE d # c
      BY <1>3, <3>2 DEF Begin, Inv, TypeOK, HandlerKnows, Fresh
    <3> QED BY <3>1, <3>2
  <2> QED BY <1>0, <1>3, <2>1, <2>2, QuietInv DEF Begin
<1>4. ASSUME NEW c \in Conns, NEW t \in tokens \cup {Forged}, Access(c, t) PROVE Inv'
  <2>1. TypeOK' /\ \A d \in Conns : HandlerKnows(d)'
    BY <1>4 DEF Access, Answer, Inv, TypeOK, HandlerKnows, Fresh
  <2> QED BY <1>0, <1>4, <2>1, QuietInv DEF Access
<1>5. ASSUME NEW c \in Conns, InsertTaken(c) PROVE Inv'
  <2>1. TypeOK' /\ \A d \in Conns : HandlerKnows(d)'
    BY <1>5 DEF InsertTaken, Answer, Inv, TypeOK, HandlerKnows, Fresh
  <2> QED BY <1>0, <1>5, <2>1, QuietInv DEF InsertTaken
<1>6. ASSUME NEW c \in Conns, SelectUser(c) PROVE Inv'
  <2>1. PICK u \in DOMAIN users :
          /\ Matches(req[c], u)
          /\ row' = [row EXCEPT ![c] =
                [id |-> u, name |-> users[u].name, password |-> users[u].password]]
    BY <1>6 DEF SelectUser
  <2>2. u \in UserIds /\ users[u] \in User /\ row \in [Conns -> UserRow \cup {Nothing}]
    BY AccountsAssumption DEF Inv, TypeOK, UserIds
  <2>3. [id |-> u, name |-> users[u].name, password |-> users[u].password] \in UserRow
    BY <2>2 DEF UserRow, User
  <2>4. row' \in [Conns -> UserRow \cup {Nothing}]
    BY <2>1, <2>2, <2>3
  <2>5. TypeOK'
    BY <1>6, <2>4 DEF SelectUser, Inv, TypeOK
  <2>6. ASSUME NEW d \in Conns PROVE HandlerKnows(d)'
    <3>1. CASE d = c
      <4>1. pc'[c] = "verify" /\ req[c] \in Credentials /\ req' = req /\ users' = users
        BY <1>6 DEF SelectUser, Inv, TypeOK, HandlerKnows
      <4>2. row'[c] = [id |-> u, name |-> users[u].name, password |-> users[u].password]
        BY <2>1, <2>2
      <4> QED BY <3>1, <4>1, <4>2, <2>1 DEF HandlerKnows, Matches
    <3>2. CASE d # c
      BY <1>6, <2>1, <2>2, <3>2 DEF SelectUser, Inv, TypeOK, HandlerKnows, Fresh
    <3> QED BY <3>1, <3>2
  <2> QED BY <1>0, <1>6, <2>5, <2>6, QuietInv DEF SelectUser
<1>7. ASSUME NEW c \in Conns, SelectMissing(c) PROVE Inv'
  <2>1. TypeOK' /\ \A d \in Conns : HandlerKnows(d)'
    BY <1>7 DEF SelectMissing, Answer, Inv, TypeOK, HandlerKnows, Fresh
  <2> QED BY <1>0, <1>7, <2>1, QuietInv DEF SelectMissing
<1>8. ASSUME NEW c \in Conns, WrongPassword(c) PROVE Inv'
  <2>1. TypeOK' /\ \A d \in Conns : HandlerKnows(d)'
    BY <1>8 DEF WrongPassword, Answer, Inv, TypeOK, HandlerKnows, Fresh
  <2> QED BY <1>0, <1>8, <2>1, QuietInv DEF WrongPassword
<1>9. ASSUME NEW c \in Conns, Finish(c) PROVE Inv'
  <2>1. TypeOK' /\ \A d \in Conns : HandlerKnows(d)'
    BY <1>9 DEF Finish, Inv, TypeOK, HandlerKnows, Fresh
  <2> QED BY <1>0, <1>9, <2>1, QuietInv DEF Finish
<1>10. CASE Tick
  <2>1. now' = now + 1 /\ now' \in 0..MaxTime /\ now' >= now
    BY <1>0, <1>10 DEF Tick
  <2>2. TypeOK' /\ \A d \in Conns : HandlerKnows(d)'
    BY <1>10, <2>1 DEF Tick, Inv, TypeOK, HandlerKnows, Fresh
  <2> QED BY <1>10, <2>1, <2>2, QuietInv DEF Tick
<1>11. CASE Restart
  <2>1. TypeOK' /\ \A d \in Conns : HandlerKnows(d)'
    BY <1>11 DEF Restart, Disconnect, Inv, TypeOK, HandlerKnows, Fresh
  <2> QED BY <1>0, <1>11, <2>1, QuietInv DEF Restart
<1>12. CASE UNCHANGED vars
  <2>1. TypeOK' /\ \A d \in Conns : HandlerKnows(d)'
    BY <1>12 DEF vars, Inv, TypeOK, HandlerKnows, Fresh
  <2> QED BY <1>0, <1>12, <2>1, QuietInv DEF vars
<1> QED
  BY <1>1, <1>2, <1>3, <1>4, <1>5, <1>6, <1>7, <1>8, <1>9, <1>10, <1>11, <1>12,
     InsertUserInv, InsertFailsInv, VerifyPasswordInv
  DEF Next, Send, Statement

LEMMA InvAlways == Spec => []Inv
BY InitInv, StepInv, PTL DEF Spec

-----------------------------------------------------------------------------

\* Types.
THEOREM AccountTypes == Spec => []TypeOK
<1>1. Inv => TypeOK
  BY DEF Inv
<1> QED BY InvAlways, <1>1, PTL

\* A token names its user for ever, over any number of restarts.
THEOREM TokensName == Spec => []TokensNameTheirUser
<1>1. Inv => TokensNameTheirUser
  BY DEF Inv
<1> QED BY InvAlways, <1>1, PTL

\* RequireAuth accepts a token only within 24 h of its user's password.
THEOREM ProofsAreFresh == Spec => []ProofIsFresh
<1>1. Inv => ProofIsFresh
  <2> SUFFICES ASSUME Inv, NEW t \in tokens, Accepted(t)
               PROVE  proved[t.uid] >= 0 /\ now < proved[t.uid] + TokenLife
    BY DEF ProofIsFresh
  <2>1. t.exp \in Int /\ t.uid \in UserIds /\ now \in Int /\ TokenLife \in Int
    BY AccountsAssumption DEF Inv, TypeOK, Token
  <2>2. proved[t.uid] \in Int
    BY <2>1 DEF Inv, TypeOK
  <2>3. now < t.exp /\ 0 <= proved[t.uid] /\ t.exp <= proved[t.uid] + TokenLife
    BY DEF Accepted, Inv, TokensAreRecent
  <2> QED BY <2>1, <2>2, <2>3
<1> QED BY InvAlways, <1>1, PTL

\* Credentials that were answered 201 are never refused at login, unless the
\* SELECT fails.
THEOREM AcknowledgedCredentialsWork == Spec => CredentialsWork
<1>1. ASSUME Inv, [Next]_vars
      PROVE  [\A c \in Conns :
                 Acknowledged(c) /\ pc'[c] = "answered" => LetIn(c)]_vars
  <2> SUFFICES ASSUME Next, NEW c \in Conns, Acknowledged(c), pc'[c] = "answered",
                      ~(DbMayFail /\ SelectMissing(c))
               PROVE  status'[c] = 200
    BY <1>1 DEF LetIn
  <2>1. pc[c] \in {"select", "verify"} /\ ~req[c].padded
    BY DEF Acknowledged
  <2>2. PICK u \in DOMAIN users :
           users[u].name = req[c].name /\ users[u].password = req[c].password
    BY <1>1 DEF Acknowledged, Inv, PromisesKept, Fresh
  <2>3. ~SelectMissing(c)
    BY <2>1, <2>2 DEF SelectMissing, Matches
  <2>4. ~WrongPassword(c)
    BY <1>1, <2>2 DEF WrongPassword, Inv, HandlerKnows, NamesUnique
  <2>5. ~Tick /\ ~Restart
    BY <2>1 DEF Tick, Restart, Disconnect
  <2>6. PICK d \in Conns : Send(d) \/ Statement(d) \/ Finish(d)
    BY <2>5 DEF Next
  <2>7. pc \in [Conns -> {"idle", "insert", "select", "verify", "answered"}]
        /\ status \in [Conns -> {0, 200, 201, 400, 401, 409, 422, 500}]
    BY <1>1 DEF Inv, TypeOK
  <2>8. d = c
    <3> SUFFICES ASSUME d # c PROVE pc'[c] = pc[c]
      BY <2>1
    <3> QED
      BY <2>6, <2>7 DEF Send, Statement, Finish, BadJson, RefuseRegister, Begin,
         Access, InsertUser, InsertTaken, InsertFails, SelectUser, SelectMissing,
         VerifyPassword, WrongPassword, GiveToken, Answer
  <2>9. ~Send(c) /\ ~Finish(c) /\ ~SelectUser(c)
    BY <2>1, <2>7 DEF Send, Finish, BadJson, RefuseRegister, Begin, Access, SelectUser
  <2>10. VerifyPassword(c)
    BY <2>1, <2>3, <2>4, <2>6, <2>8, <2>9
    DEF Statement, InsertUser, InsertTaken, InsertFails
  <2> QED BY <2>7, <2>10 DEF VerifyPassword, GiveToken, Answer
<1> QED BY InvAlways, <1>1, PTL DEF Spec, CredentialsWork

=============================================================================
