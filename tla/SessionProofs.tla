--------------------------- MODULE SessionProofs ----------------------------
(***************************************************************************)
(* Proofs about Session and Access: for any number of accounts, sessions   *)
(* and concurrent requests, and any bounds on versions and tokens.         *)
(***************************************************************************)
EXTENDS Access, TLAPS

\* What a request holds, by the statement it runs next.
LEMMA RequestTypes ==
    ASSUME TypeOK, NEW r \in Requests
    PROVE  /\ req[r].op \in {"login", "update"} => req[r].user \in Users /\ req[r].row \in User
           /\ req[r].op \in {"refresh", "revoke"} => req[r].session \in Sessions
           /\ req[r].op = "refresh" => req[r].token \in Token
<1>1. req[r] \in Request BY DEF TypeOK
<1>2. CASE req[r] \in [op: {"idle"}] BY <1>2
<1>3. CASE req[r] \in [op: {"login", "update"}, user: Users, row: User] BY <1>3
<1>4. CASE req[r] \in [op: {"refresh"}, session: Sessions, token: Token] BY <1>4
<1>5. CASE req[r] \in [op: {"revoke"}, session: Sessions] BY <1>5
<1> QED BY <1>1, <1>2, <1>3, <1>4, <1>5 DEF Request

\* A row updateUser writes is a row.
LEMMA UpdatedRowType ==
    ASSUME NEW row \in User, row.version < MaxVersion, row.epoch < row.version,
           NEW password \in BOOLEAN
    PROVE  UpdatedRow(row, password) \in User
BY SessionAssumption DEF UpdatedRow, User, Version, Epoch

\* Updating one field of one session keeps the table well typed.
LEMMA SessionFieldTypes ==
    ASSUME TypeOK, NEW s \in Sessions
    PROVE  /\ session[s] \in SessionRow
           /\ session[s].token < MaxToken =>
                [session[s] EXCEPT !.token = session[s].token + 1] \in SessionRow
           /\ session[s].exp < session[s].token =>
                [session[s] EXCEPT !.exp = session[s].exp + 1] \in SessionRow
           /\ Revoked(s) \in [Sessions -> SessionRow]
           /\ [session[s] EXCEPT !.state = "gone"] \in SessionRow
<1>1. session[s] \in SessionRow BY DEF TypeOK
<1>2. session[s].token < MaxToken =>
        [session[s] EXCEPT !.token = session[s].token + 1] \in SessionRow
  BY <1>1, SessionAssumption DEF SessionRow, Token
<1>3. session[s].exp < session[s].token =>
        [session[s] EXCEPT !.exp = session[s].exp + 1] \in SessionRow
  BY <1>1, SessionAssumption DEF SessionRow, Token
<1>4. [session[s] EXCEPT !.revoked = session[s].revoked \/ session[s].state = "open"]
        \in SessionRow
  BY <1>1 DEF SessionRow
<1>5. Revoked(s) \in [Sessions -> SessionRow]
  BY <1>4 DEF TypeOK, Revoked
<1> QED BY <1>1, <1>2, <1>3, <1>5 DEF SessionRow

LEMMA FreeSessionType == FreeSession \in SessionRow
<1>1. (CHOOSE u \in Users : TRUE) \in Users BY SessionAssumption
<1> QED BY <1>1, SessionAssumption DEF FreeSession, SessionRow, Version, Epoch, Token

\* Every step of Next is one of the actions, with its parameters.
LEMMA StepCases ==
    ASSUME [Next]_vars
    PROVE  \/ \E u \in Users : SignUp(u) \/ DeleteUser(u) \/ SetStatus(u)
           \/ \E r \in Requests, u \in Users :
                VerifyPassword(r, u) \/ \E self \in BOOLEAN : ReadForUpdate(r, u, self)
           \/ \E r \in Requests, password \in BOOLEAN : UpdateUser(r, password)
           \/ \E r \in Requests, s \in Sessions :
                CreateSession(r, s) \/ \E g \in Token : ParseRefreshToken(r, s, g)
           \/ \E r \in Requests : RotateSession(r) \/ RotateMisses(r)
                                  \/ RevokeReplayed(r) \/ RequestFails(r)
           \/ \E s \in Sessions : TokenExpires(s) \/ \E g \in Token : Logout(s, g)
           \/ SelectExpiredSessions \/ DeleteExpiredSessions \/ CleanerFails
           \/ UNCHANGED vars
BY DEF Next, RequestNext

\* Replacing what one request holds keeps the requests well typed.
LEMMA RequestStep ==
    ASSUME TypeOK, NEW r \in Requests, NEW q \in Request, req' = [req EXCEPT ![r] = q]
    PROVE  req' \in [Requests -> Request]
BY DEF TypeOK

\* The program never leaves its types: the counters stay within their bounds
\* and a request only holds what its next statement needs.
LEMMA TypeStep ==
    ASSUME TypeOK, ReadsBehind, [Next]_vars
    PROVE  TypeOK'
<1> USE SessionAssumption DEF TypeOK
<1>1. ASSUME NEW u \in Users, SignUp(u) \/ DeleteUser(u) \/ SetStatus(u) PROVE TypeOK'
  <2>1. user[u] \in User OBVIOUS
  <2>2. \A st \in {"active", "inactive", "deleted"} : [user[u] EXCEPT !.status = st] \in User
    BY <2>1 DEF User
  <2>3. \E st \in {"active", "inactive", "deleted"} :
          user' = [user EXCEPT ![u] = [user[u] EXCEPT !.status = st]]
    BY <1>1 DEF SignUp, DeleteUser, SetStatus
  <2>4. user' \in [Users -> User] BY <2>2, <2>3
  <2> QED BY <1>1, <2>4 DEF SignUp, DeleteUser, SetStatus
<1>2. ASSUME NEW r \in Requests, NEW u \in Users,
             VerifyPassword(r, u) \/ \E self \in BOOLEAN : ReadForUpdate(r, u, self)
      PROVE  TypeOK'
  <2>1. /\ [op |-> "login", user |-> u, row |-> user[u]] \in Request
        /\ [op |-> "update", user |-> u, row |-> user[u]] \in Request
    BY DEF Request
  <2> QED BY <1>2, <2>1, RequestStep DEF VerifyPassword, ReadForUpdate
<1>3. ASSUME NEW r \in Requests, NEW password \in BOOLEAN, UpdateUser(r, password) PROVE TypeOK'
  <2>1. req[r].user \in Users /\ req[r].row \in User BY <1>3, RequestTypes DEF UpdateUser
  <2>2. req[r].row.epoch < req[r].row.version BY <1>3 DEF UpdateUser, ReadsBehind
  <2>3. UpdatedRow(req[r].row, password) \in User
    BY <1>3, <2>1, <2>2, UpdatedRowType DEF UpdateUser
  <2>4. Idle \in Request BY DEF Idle, Request
  <2> QED BY <1>3, <2>1, <2>3, <2>4, RequestStep DEF UpdateUser
<1>4. ASSUME NEW r \in Requests, NEW s \in Sessions, CreateSession(r, s) PROVE TypeOK'
  <2>1. req[r].user \in Users /\ req[r].row \in User BY <1>4, RequestTypes DEF CreateSession
  <2>2. NewSession(req[r]) \in SessionRow
    BY <2>1 DEF NewSession, SessionRow, User, Token, Version, Epoch
  <2>3. Idle \in Request BY DEF Idle, Request
  <2> QED BY <1>4, <2>2, <2>3, RequestStep DEF CreateSession
<1>5. ASSUME NEW r \in Requests, NEW s \in Sessions, NEW g \in Token, ParseRefreshToken(r, s, g)
      PROVE  TypeOK'
  <2>1. [op |-> "refresh", session |-> s, token |-> g] \in Request BY DEF Request
  <2> QED BY <1>5, <2>1, RequestStep DEF ParseRefreshToken
<1>6. ASSUME NEW r \in Requests, RotateSession(r) PROVE TypeOK'
  <2>1. req[r].session \in Sessions /\ req[r].token \in Token
    BY <1>6, RequestTypes DEF RotateSession
  <2>2. session' \in [Sessions -> SessionRow]
    BY <1>6, <2>1, SessionFieldTypes DEF RotateSession
  <2>3. exchanges' \in [Sessions -> [Token -> 0..2]] BY <1>6, <2>1 DEF RotateSession
  <2>4. Idle \in Request BY DEF Idle, Request
  <2> QED BY <1>6, <2>2, <2>3, <2>4, RequestStep DEF RotateSession
<1>7. ASSUME NEW r \in Requests, RotateMisses(r) PROVE TypeOK'
  <2>1. [op |-> "revoke", session |-> req[r].session] \in Request
    BY <1>7, RequestTypes DEF RotateMisses, Request
  <2> QED BY <1>7, <2>1, RequestStep DEF RotateMisses
<1>8. ASSUME NEW r \in Requests, RevokeReplayed(r) PROVE TypeOK'
  <2>1. req[r].session \in Sessions BY <1>8, RequestTypes DEF RevokeReplayed
  <2>2. Idle \in Request BY DEF Idle, Request
  <2> QED BY <1>8, <2>1, <2>2, RequestStep, SessionFieldTypes DEF RevokeReplayed
<1>9. ASSUME NEW r \in Requests, RequestFails(r) PROVE TypeOK'
  <2>1. Idle \in Request BY DEF Idle, Request
  <2> QED BY <1>9, <2>1, RequestStep DEF RequestFails
<1>10. ASSUME NEW s \in Sessions, TokenExpires(s) \/ \E g \in Token : Logout(s, g) PROVE TypeOK'
  <2>1. CASE TokenExpires(s) BY <2>1, SessionFieldTypes DEF TokenExpires
  <2>2. CASE \E g \in Token : Logout(s, g) BY <2>2, SessionFieldTypes DEF Logout
  <2> QED BY <1>10, <2>1, <2>2
<1>11. ASSUME SelectExpiredSessions PROVE TypeOK'
  <2>1. PICK ids \in SUBSET Sessions :
          cleaner' = [ids |-> ids,
                      cut |-> [s \in Sessions |-> IF s \in ids THEN session[s].exp ELSE 0]]
    BY <1>11 DEF SelectExpiredSessions, ExpiredRows
  <2>2. \A s \in Sessions : session[s].exp \in 0..MaxToken BY DEF SessionRow
  <2>3. cleaner' \in [ids: SUBSET Sessions, cut: [Sessions -> 0..MaxToken]] BY <2>1, <2>2
  <2> QED BY <1>11, <2>3 DEF SelectExpiredSessions
<1>12. ASSUME DeleteExpiredSessions \/ CleanerFails PROVE TypeOK'
  <2>1. session' \in [Sessions -> SessionRow]
    BY <1>12, SessionFieldTypes DEF DeleteExpiredSessions, CleanerFails
  <2>2. cleaner' \in [ids: SUBSET Sessions, cut: [Sessions -> 0..MaxToken]]
    BY <1>12 DEF DeleteExpiredSessions, CleanerFails, IdleCleaner
  <2> QED BY <1>12, <2>1, <2>2 DEF DeleteExpiredSessions, CleanerFails
<1>13. ASSUME UNCHANGED vars PROVE TypeOK' BY <1>13 DEF vars
<1> QED BY <1>1, <1>2, <1>3, <1>4, <1>5, <1>6, <1>7, <1>8, <1>9, <1>10, <1>11, <1>12, <1>13,
          StepCases

-----------------------------------------------------------------------------
(* The inductive invariant. *)

\* Types of what the invariant talks about.
LEMMA RowTypes ==
    ASSUME TypeOK
    PROVE  /\ \A u \in Users : /\ user[u].version \in 1..MaxVersion
                              /\ user[u].epoch \in 0..MaxVersion
           /\ \A s \in Sessions : /\ session[s].user \in Users
                                 /\ session[s].version \in 1..MaxVersion
                                 /\ session[s].epoch \in 0..MaxVersion
                                 /\ session[s].token \in 1..MaxToken
                                 /\ session[s].exp \in 0..MaxToken
           /\ \A s \in Sessions : cleaner.cut[s] \in 0..MaxToken
           /\ \A r \in Requests : req[r].op \in {"login", "update"} =>
                /\ req[r].user \in Users
                /\ req[r].row.version \in 1..MaxVersion
                /\ req[r].row.epoch \in 0..MaxVersion
<1>1. \A r \in Requests : req[r].op \in {"login", "update"} =>
        req[r].user \in Users /\ req[r].row \in User
  BY RequestTypes
<1> QED BY <1>1 DEF TypeOK, User, SessionRow, Version, Epoch, Token

\* Requests change, the rows do not.
LEMMA RequestsInv ==
    ASSUME TypeOK, SessionInv, NEW r \in Requests, NEW q, req' = [req EXCEPT ![r] = q],
           UNCHANGED <<user, session, cleaner, exchanges, refused>>,
           q.op \in {"login", "update"} =>
             /\ q.row = user[q.user] /\ q.user \in Users
             /\ Exists(q.user),
           q.op \in {"refresh", "revoke"} => session[q.session].state # "free"
    PROVE  SessionInv'
<1> USE DEF SessionInv
<1>1. \A x \in Requests : req'[x] = IF x = r THEN q ELSE req[x] BY DEF TypeOK
<1>2. ReadsBehind' BY <1>1, RowTypes DEF ReadsBehind, Exists
<1>3. SessionsBehind' BY DEF SessionsBehind
<1>4. ExchangedOnce' BY DEF ExchangedOnce
<1>5. RefusedRevoked' BY DEF RefusedRevoked
<1>6. IdsIssued' BY <1>1 DEF IdsIssued
<1>7. CutoffPast' BY DEF CutoffPast
<1> QED BY <1>2, <1>3, <1>4, <1>5, <1>6, <1>7

\* The status of an account changes.
LEMMA StatusInv ==
    ASSUME TypeOK, SessionInv, NEW u \in Users, SignUp(u) \/ DeleteUser(u) \/ SetStatus(u)
    PROVE  SessionInv'
<1> USE DEF SessionInv
<1>1. UNCHANGED <<session, req, cleaner, exchanges, refused>>
  BY DEF SignUp, DeleteUser, SetStatus
<1>2. \A v \in Users : user'[v].version = user[v].version /\ user'[v].epoch = user[v].epoch
  <2>1. PICK st : user' = [user EXCEPT ![u] = [user[u] EXCEPT !.status = st]]
    BY DEF SignUp, DeleteUser, SetStatus
  <2>2. user[u] \in User BY DEF TypeOK
  <2>3. [user[u] EXCEPT !.status = st].version = user[u].version BY <2>2 DEF User
  <2>4. [user[u] EXCEPT !.status = st].epoch = user[u].epoch BY <2>2 DEF User
  <2> QED BY <2>1, <2>3, <2>4 DEF TypeOK
<1>3. ReadsBehind' BY <1>1, <1>2, RowTypes DEF ReadsBehind
<1>4. SessionsBehind' BY <1>1, <1>2, RowTypes DEF SessionsBehind
<1>5. ExchangedOnce' BY <1>1 DEF ExchangedOnce
<1>6. RefusedRevoked' BY <1>1 DEF RefusedRevoked
<1>7. IdsIssued' BY <1>1 DEF IdsIssued
<1>8. CutoffPast' BY <1>1 DEF CutoffPast
<1> QED BY <1>3, <1>4, <1>5, <1>6, <1>7, <1>8

\* An account gets its next version: rows and sessions with the old version
\* fall behind.
LEMMA UpdateInv ==
    ASSUME TypeOK, SessionInv, NEW r \in Requests, NEW password \in BOOLEAN,
           UpdateUser(r, password)
    PROVE  SessionInv'
<1> USE DEF SessionInv
<1> DEFINE w == req[r].user
<1>1. UNCHANGED <<session, cleaner, exchanges, refused>> BY DEF UpdateUser
<1>2. w \in Users /\ req[r].op = "update" BY RequestTypes DEF UpdateUser
<1>3. /\ \A v \in Users : v # w => user'[v] = user[v]
      /\ user'[w].version = user[w].version + 1
      /\ user'[w].epoch \in {user[w].epoch, user[w].epoch + 1}
  BY <1>2 DEF UpdateUser, UpdateMatches, UpdatedRow, TypeOK, ReadsBehind
<1>4. \A x \in Requests : req'[x] = IF x = r THEN Idle ELSE req[x] BY DEF UpdateUser, TypeOK
<1>5. ReadsBehind'
  <2>1. \A u \in Users : user'[u].epoch < user'[u].version
    BY <1>2, <1>3, RowTypes DEF ReadsBehind
  <2>2. ASSUME NEW x \in Requests, req'[x].op \in {"login", "update"}
        PROVE  /\ req'[x].row.version <= user'[req'[x].user].version
               /\ req'[x].row.status \in {"active", "inactive"}
               /\ req'[x].row.epoch < req'[x].row.version
               /\ user'[req'[x].user].version = req'[x].row.version
                    => user'[req'[x].user].epoch = req'[x].row.epoch
    <3>1. req'[x] = req[x] BY <1>4, <2>2 DEF Idle
    <3> QED BY <1>2, <1>3, <2>2, <3>1, RowTypes DEF ReadsBehind
  <2> QED BY <2>1, <2>2 DEF ReadsBehind
<1>6. SessionsBehind' BY <1>1, <1>2, <1>3, RowTypes DEF SessionsBehind
<1>7. ExchangedOnce' BY <1>1 DEF ExchangedOnce
<1>8. RefusedRevoked' BY <1>1 DEF RefusedRevoked
<1>9. IdsIssued' BY <1>1, <1>4 DEF IdsIssued, Idle
<1>10. CutoffPast' BY <1>1 DEF CutoffPast
<1> QED BY <1>5, <1>6, <1>7, <1>8, <1>9, <1>10

\* A login inserts its session.
LEMMA CreateInv ==
    ASSUME TypeOK, SessionInv, NEW r \in Requests, NEW s \in Sessions, CreateSession(r, s)
    PROVE  SessionInv'
<1> USE DEF SessionInv
<1>1. UNCHANGED <<user, cleaner, exchanges, refused>> BY DEF CreateSession
<1>2. req[r].op = "login" /\ req[r].user \in Users BY RequestTypes DEF CreateSession
<1>3. \A x \in Requests : req'[x] = IF x = r THEN Idle ELSE req[x]
  BY DEF CreateSession, TypeOK
<1>4. \A x \in Sessions : session'[x] = IF x = s THEN NewSession(req[r]) ELSE session[x]
  BY DEF CreateSession, TypeOK
<1>5. session[s] = FreeSession BY DEF CreateSession, IdsIssued
<1>6. ReadsBehind' BY <1>1, <1>3 DEF ReadsBehind, Idle
<1>7. SessionsBehind' BY <1>1, <1>2, <1>4 DEF SessionsBehind, ReadsBehind, NewSession
<1>8. ExchangedOnce' BY <1>1, <1>4, <1>5 DEF ExchangedOnce, NewSession, FreeSession
<1>9. RefusedRevoked'
  <2>1. s \notin refused BY <1>5 DEF RefusedRevoked, FreeSession
  <2> QED BY <1>1, <1>4, <2>1 DEF RefusedRevoked, TypeOK
<1>10. IdsIssued'
  <2>1. \A x \in Sessions : session'[x].state = "free" => session[x].state = "free" /\ x # s
    BY <1>4 DEF NewSession
  <2>2. \A x \in Sessions : session'[x].state = "free" => session'[x] = FreeSession
    BY <1>4, <2>1 DEF IdsIssued
  <2>3. \A x \in Requests : req'[x].op \in {"refresh", "revoke"} =>
          session'[req'[x].session].state # "free"
    BY <1>3, <2>1, RequestTypes DEF IdsIssued, Idle
  <2> QED BY <2>2, <2>3 DEF IdsIssued
<1>11. CutoffPast' BY <1>1, <1>4, <1>5, RowTypes DEF CutoffPast, NewSession, FreeSession
<1> QED BY <1>6, <1>7, <1>8, <1>9, <1>10, <1>11

\* A change of one session that keeps its owner and version and issues at
\* most the next token.
LEMMA SessionChangeInv ==
    ASSUME TypeOK, SessionInv, TypeOK',
           UNCHANGED <<user, exchanges, refused>>,
           \A x \in Requests : req'[x] = req[x] \/ req'[x] = Idle,
           \A x \in Sessions :
             \/ session'[x] = session[x]
             \/ /\ session[x].state # "free" /\ session'[x].state # "free"
                /\ session'[x].user = session[x].user
                /\ session'[x].version = session[x].version
                /\ session'[x].epoch = session[x].epoch
                /\ session'[x].token = session[x].token
                /\ session'[x].exp >= session[x].exp
                /\ session[x].state = "gone" \/ session[x].revoked
                     => session'[x].state = "gone" \/ session'[x].revoked,
           \A x \in Sessions : cleaner'.cut[x] = cleaner.cut[x]
                               \/ cleaner'.cut[x] <= session'[x].exp
    PROVE  SessionInv'
<1> USE DEF SessionInv
<1>1. ReadsBehind' BY DEF ReadsBehind, Idle
<1>2. SessionsBehind' BY DEF SessionsBehind
<1>3. ExchangedOnce' BY DEF ExchangedOnce
<1>4. RefusedRevoked' BY DEF RefusedRevoked, TypeOK
<1>5. IdsIssued'
  <2>1. \A x \in Sessions : session'[x].state = "free" => session'[x] = FreeSession
    BY DEF IdsIssued
  <2>2. \A x \in Requests : req'[x].op \in {"refresh", "revoke"} =>
          session'[req'[x].session].state # "free"
    BY RequestTypes DEF IdsIssued, Idle
  <2> QED BY <2>1, <2>2 DEF IdsIssued
<1>6. CutoffPast'
  <2>1. \A x \in Sessions : session'[x].exp >= session[x].exp BY RowTypes
  <2>2. \A x \in Sessions : session'[x].exp \in Nat /\ session[x].exp \in Nat /\ cleaner.cut[x] \in Nat
    BY RowTypes, SessionAssumption DEF TypeOK, SessionRow
  <2> QED BY <2>1, <2>2 DEF CutoffPast
<1> QED BY <1>1, <1>2, <1>3, <1>4, <1>5, <1>6

\* A refresh exchanges the current token of its session for the next one.
LEMMA RotateInv ==
    ASSUME TypeOK, SessionInv, NEW r \in Requests, RotateSession(r)
    PROVE  SessionInv'
<1> USE DEF SessionInv
<1> DEFINE s == req[r].session
<1>1. UNCHANGED <<user, cleaner, refused>> BY DEF RotateSession
<1>2. s \in Sessions /\ req[r].token \in Token BY RequestTypes DEF RotateSession
<1>3. session[s].state = "open" /\ session[s].token = req[r].token
  BY DEF RotateSession, RotateMatches, Current
<1>4. /\ \A x \in Sessions : x # s => session'[x] = session[x]
      /\ session'[s].token = session[s].token + 1
      /\ session'[s].state = session[s].state /\ session'[s].user = session[s].user
      /\ session'[s].version = session[s].version /\ session'[s].epoch = session[s].epoch
      /\ session'[s].exp = session[s].exp /\ session'[s].revoked = session[s].revoked
  <2>1. session[s] \in SessionRow BY <1>2 DEF TypeOK
  <2>2. session' = [session EXCEPT ![s] = [session[s] EXCEPT !.token = session[s].token + 1]]
    BY DEF RotateSession
  <2> QED BY <1>2, <2>1, <2>2 DEF SessionRow, TypeOK
<1>5. \A x \in Requests : req'[x] = IF x = r THEN Idle ELSE req[x]
  BY DEF RotateSession, TypeOK
<1>6. ReadsBehind' BY <1>1, <1>5 DEF ReadsBehind, Idle
<1>7. SessionsBehind' BY <1>1, <1>2, <1>4 DEF SessionsBehind
<1>8. ExchangedOnce'
  <2>1. exchanges[s][req[r].token] = 0
    BY <1>2, <1>3, RowTypes, SessionAssumption DEF ExchangedOnce, Token
  <2>2. \A x \in Sessions, g \in Token :
          exchanges'[x][g] = IF x = s /\ g = req[r].token THEN 1 ELSE exchanges[x][g]
    BY <1>2, <2>1 DEF RotateSession, TypeOK
  <2> QED BY <1>2, <1>3, <1>4, <2>2, RowTypes, SessionAssumption DEF ExchangedOnce, Token
<1>9. RefusedRevoked' BY <1>1, <1>2, <1>4 DEF RefusedRevoked, TypeOK
<1>10. IdsIssued'
  <2>1. \A x \in Sessions : session'[x].state = session[x].state BY <1>4
  <2>2. \A x \in Sessions : session'[x].state = "free" => session'[x] = FreeSession
    BY <1>3, <1>4, <2>1 DEF IdsIssued
  <2>3. \A x \in Requests : req'[x].op \in {"refresh", "revoke"} =>
          session'[req'[x].session].state # "free"
    BY <1>5, <2>1, RequestTypes DEF IdsIssued, Idle
  <2> QED BY <2>2, <2>3 DEF IdsIssued
<1>11. CutoffPast' BY <1>1, <1>4 DEF CutoffPast
<1> QED BY <1>6, <1>7, <1>8, <1>9, <1>10, <1>11

\* What RevokeSession does to the row: nothing but revoke it.
LEMMA RevokedRow ==
    ASSUME TypeOK, NEW s \in Sessions, session[s].state # "free", session' = Revoked(s)
    PROVE  /\ \A x \in Sessions : x # s => session'[x] = session[x]
           /\ session'[s].state = session[s].state /\ session'[s].user = session[s].user
           /\ session'[s].version = session[s].version /\ session'[s].epoch = session[s].epoch
           /\ session'[s].token = session[s].token /\ session'[s].exp = session[s].exp
           /\ session[s].revoked => session'[s].revoked
           /\ session'[s].state = "gone" \/ session'[s].revoked
<1>1. session[s] \in SessionRow BY DEF TypeOK
<1>2. session' = [session EXCEPT ![s] =
        [session[s] EXCEPT !.revoked = session[s].revoked \/ session[s].state = "open"]]
  BY DEF Revoked
<1>3. session'[s] = [session[s] EXCEPT !.revoked = session[s].revoked \/ session[s].state = "open"]
  BY <1>2 DEF TypeOK
<1>4. \A x \in Sessions : x # s => session'[x] = session[x] BY <1>2 DEF TypeOK
<1>5. session'[s].revoked = (session[s].revoked \/ session[s].state = "open")
  BY <1>1, <1>3 DEF SessionRow
<1> QED BY <1>1, <1>3, <1>4, <1>5 DEF SessionRow

\* A replayed token kills its family.
LEMMA RevokeInv ==
    ASSUME TypeOK, SessionInv, NEW r \in Requests, RevokeReplayed(r)
    PROVE  SessionInv'
<1> USE DEF SessionInv
<1> DEFINE s == req[r].session
<1>1. UNCHANGED <<user, cleaner, exchanges>> BY DEF RevokeReplayed
<1>2. s \in Sessions BY RequestTypes DEF RevokeReplayed
<1>3. session[s].state # "free" BY DEF RevokeReplayed, IdsIssued
<1>4. /\ \A x \in Sessions : x # s => session'[x] = session[x]
      /\ session'[s].state = session[s].state /\ session'[s].user = session[s].user
      /\ session'[s].version = session[s].version /\ session'[s].epoch = session[s].epoch
      /\ session'[s].token = session[s].token /\ session'[s].exp = session[s].exp
      /\ session'[s].state = "gone" \/ session'[s].revoked
  BY <1>2, <1>3, RevokedRow DEF RevokeReplayed
<1>5. \A x \in Requests : req'[x] = IF x = r THEN Idle ELSE req[x]
  BY DEF RevokeReplayed, TypeOK
<1>6. ReadsBehind' BY <1>1, <1>5 DEF ReadsBehind, Idle
<1>7. SessionsBehind' BY <1>1, <1>2, <1>4 DEF SessionsBehind
<1>8. ExchangedOnce' BY <1>1, <1>2, <1>4 DEF ExchangedOnce
<1>9. RefusedRevoked' BY <1>2, <1>4 DEF RefusedRevoked, RevokeReplayed, TypeOK
<1>10. IdsIssued'
  <2>1. \A x \in Sessions : session'[x].state = session[x].state BY <1>4
  <2>2. \A x \in Sessions : session'[x].state = "free" => session'[x] = FreeSession
    BY <1>3, <1>4, <2>1 DEF IdsIssued
  <2>3. \A x \in Requests : req'[x].op \in {"refresh", "revoke"} =>
          session'[req'[x].session].state # "free"
    BY <1>5, <2>1, RequestTypes DEF IdsIssued, Idle
  <2> QED BY <2>2, <2>3 DEF IdsIssued
<1>11. CutoffPast' BY <1>1, <1>4 DEF CutoffPast
<1> QED BY <1>6, <1>7, <1>8, <1>9, <1>10, <1>11

\* Time passes, somebody logs out, or the cleaner works.
LEMMA TimeInv ==
    ASSUME TypeOK, SessionInv, TypeOK',
           \/ \E s \in Sessions : TokenExpires(s) \/ \E g \in Token : Logout(s, g)
           \/ SelectExpiredSessions \/ DeleteExpiredSessions \/ CleanerFails
    PROVE  SessionInv'
<1>1. ASSUME NEW s \in Sessions, TokenExpires(s) PROVE SessionInv'
  <2>1. session[s] \in SessionRow BY DEF TypeOK
  <2>2. session' = [session EXCEPT ![s] = [session[s] EXCEPT !.exp = session[s].exp + 1]]
    BY <1>1 DEF TokenExpires
  <2>3. session'[s] = [session[s] EXCEPT !.exp = session[s].exp + 1] BY <2>2 DEF TypeOK
  <2>4. \A x \in Sessions : x # s => session'[x] = session[x] BY <2>2 DEF TypeOK
  <2>5. /\ session'[s].state = session[s].state /\ session'[s].user = session[s].user
        /\ session'[s].version = session[s].version /\ session'[s].epoch = session[s].epoch
        /\ session'[s].token = session[s].token /\ session'[s].revoked = session[s].revoked
        /\ session'[s].exp >= session[s].exp
    BY <2>1, <2>3 DEF SessionRow
  <2>6. session[s].state # "free" BY <1>1 DEF TokenExpires
  <2>7. \A x \in Requests : req'[x] = req[x] BY <1>1 DEF TokenExpires
  <2> QED BY <1>1, <2>4, <2>5, <2>6, <2>7, SessionChangeInv DEF TokenExpires
<1>2. ASSUME NEW s \in Sessions, NEW g \in Token, Logout(s, g) PROVE SessionInv'
  <2>1. session[s].state # "free" BY <1>2 DEF Logout, Parses
  <2>2. session[s].exp \in Nat BY RowTypes, SessionAssumption
  <2>3. \A x \in Requests : req'[x] = req[x] BY <1>2 DEF Logout
  <2> QED BY <1>2, <2>1, <2>2, <2>3, RevokedRow, SessionChangeInv DEF Logout
<1>3. ASSUME SelectExpiredSessions PROVE SessionInv'
  <2>1. \A x \in Sessions : cleaner'.cut[x] \in {0, session[x].exp}
    BY <1>3 DEF SelectExpiredSessions
  <2>2. \A x \in Sessions : session'[x] = session[x] /\ session[x].exp \in Nat
    BY <1>3, RowTypes, SessionAssumption DEF SelectExpiredSessions
  <2>3. \A x \in Requests : req'[x] = req[x] BY <1>3 DEF SelectExpiredSessions
  <2>4. \A x \in Sessions : cleaner'.cut[x] <= session'[x].exp BY <2>1, <2>2
  <2> QED BY <1>3, <2>2, <2>3, <2>4, SessionChangeInv DEF SelectExpiredSessions
<1>4. ASSUME DeleteExpiredSessions PROVE SessionInv'
  <2>1. \A x \in Sessions : \/ session'[x] = session[x]
                            \/ /\ session[x].state = "open"
                               /\ session'[x] = [session[x] EXCEPT !.state = "gone"]
    BY <1>4 DEF DeleteExpiredSessions, PastCutoff
  <2>2. \A x \in Sessions : session[x] \in SessionRow BY DEF TypeOK
  <2>3. \A x \in Sessions :
          \/ session'[x] = session[x]
          \/ /\ session[x].state = "open" /\ session'[x].state = "gone"
             /\ session'[x].user = session[x].user
             /\ session'[x].version = session[x].version
             /\ session'[x].epoch = session[x].epoch
             /\ session'[x].token = session[x].token
             /\ session'[x].exp = session[x].exp
    <3> TAKE x \in Sessions
    <3>1. CASE session'[x] = session[x] BY <3>1
    <3>2. CASE /\ session[x].state = "open"
               /\ session'[x] = [session[x] EXCEPT !.state = "gone"]
      BY <3>2, <2>2 DEF SessionRow
    <3> QED BY <2>1, <3>1, <3>2
  <2>4. \A x \in Sessions : session[x].exp \in Nat /\ session'[x].exp >= session[x].exp
    BY <2>3, RowTypes, SessionAssumption
  <2>5. \A x \in Sessions : cleaner'.cut[x] = 0 BY <1>4 DEF DeleteExpiredSessions, IdleCleaner
  <2>6. \A x \in Sessions : cleaner'.cut[x] <= session'[x].exp BY <2>3, <2>4, <2>5
  <2>7. \A x \in Requests : req'[x] = req[x] BY <1>4 DEF DeleteExpiredSessions
  <2> QED BY <1>4, <2>3, <2>4, <2>6, <2>7, SessionChangeInv DEF DeleteExpiredSessions
<1>5. ASSUME CleanerFails PROVE SessionInv'
  <2>1. \A x \in Sessions : cleaner'.cut[x] = 0 BY <1>5 DEF CleanerFails, IdleCleaner
  <2>2. \A x \in Sessions : session'[x] = session[x] /\ session[x].exp \in Nat
    BY <1>5, RowTypes, SessionAssumption DEF CleanerFails
  <2>3. \A x \in Sessions : cleaner'.cut[x] <= session'[x].exp BY <2>1, <2>2
  <2>4. \A x \in Requests : req'[x] = req[x] BY <1>5 DEF CleanerFails
  <2> QED BY <1>5, <2>2, <2>3, <2>4, SessionChangeInv DEF CleanerFails
<1> QED BY <1>1, <1>2, <1>3, <1>4, <1>5

LEMMA InvStep ==
    ASSUME TypeOK, SessionInv, [Next]_vars
    PROVE  TypeOK' /\ SessionInv'
<1>1. TypeOK' BY TypeStep DEF SessionInv
<1>2. ASSUME NEW r \in Requests, NEW u \in Users,
             VerifyPassword(r, u) \/ \E self \in BOOLEAN : ReadForUpdate(r, u, self)
      PROVE  SessionInv'
  <2>1. PICK op \in {"login", "update"} :
          req' = [req EXCEPT ![r] = [op |-> op, user |-> u, row |-> user[u]]]
    BY <1>2 DEF VerifyPassword, ReadForUpdate
  <2>2. Exists(u) BY <1>2 DEF VerifyPassword, ReadForUpdate, Exists
  <2>3. UNCHANGED <<user, session, cleaner, exchanges, refused>>
    BY <1>2 DEF VerifyPassword, ReadForUpdate
  <2> QED BY <2>1, <2>2, <2>3, RequestsInv
<1>3. ASSUME NEW r \in Requests, NEW s \in Sessions, NEW g \in Token, ParseRefreshToken(r, s, g)
      PROVE  SessionInv'
  <2>1. req' = [req EXCEPT ![r] = [op |-> "refresh", session |-> s, token |-> g]]
    BY <1>3 DEF ParseRefreshToken
  <2>2. session[s].state # "free" BY <1>3 DEF ParseRefreshToken, Parses
  <2>3. UNCHANGED <<user, session, cleaner, exchanges, refused>> BY <1>3 DEF ParseRefreshToken
  <2> QED BY <2>1, <2>2, <2>3, RequestsInv
<1>4. ASSUME NEW r \in Requests, RotateMisses(r) PROVE SessionInv'
  <2>1. req' = [req EXCEPT ![r] = [op |-> "revoke", session |-> req[r].session]]
    BY <1>4 DEF RotateMisses
  <2>2. session[req[r].session].state # "free" BY <1>4 DEF RotateMisses, SessionInv, IdsIssued
  <2>3. UNCHANGED <<user, session, cleaner, exchanges, refused>> BY <1>4 DEF RotateMisses
  <2> QED BY <2>1, <2>2, <2>3, RequestsInv
<1>5. ASSUME NEW r \in Requests, RequestFails(r) PROVE SessionInv'
  <2>1. req' = [req EXCEPT ![r] = Idle] /\ Idle.op = "idle" BY <1>5 DEF RequestFails, Idle
  <2>2. UNCHANGED <<user, session, cleaner, exchanges, refused>> BY <1>5 DEF RequestFails
  <2> QED BY <2>1, <2>2, RequestsInv
<1>6. ASSUME UNCHANGED vars PROVE SessionInv'
  BY <1>6 DEF vars, SessionInv, ReadsBehind, SessionsBehind, ExchangedOnce, RefusedRevoked,
              IdsIssued, CutoffPast
<1> QED BY <1>1, <1>2, <1>3, <1>4, <1>5, <1>6, StepCases, StatusInv, UpdateInv, CreateInv,
          RotateInv, RevokeInv, TimeInv

\* The empty tables are well typed and satisfy the invariant.
LEMMA SessionStarts ==
    ASSUME Init
    PROVE  TypeOK /\ SessionInv
<1> USE SessionAssumption DEF Init
<1>1. TypeOK
  <2>1. user \in [Users -> User] BY DEF User, Version, Epoch
  <2>2. session \in [Sessions -> SessionRow] BY FreeSessionType
  <2>3. req \in [Requests -> Request] BY DEF Request, Idle
  <2>4. cleaner \in [ids: SUBSET Sessions, cut: [Sessions -> 0..MaxToken]] BY DEF IdleCleaner
  <2> QED BY <2>1, <2>2, <2>3, <2>4 DEF TypeOK
<1>2. ReadsBehind BY DEF ReadsBehind, Idle
<1>3. SessionsBehind /\ IdsIssued BY DEF SessionsBehind, IdsIssued, FreeSession, Idle
<1>4. ExchangedOnce BY DEF ExchangedOnce, FreeSession, Token
<1>5. RefusedRevoked BY DEF RefusedRevoked
<1>6. CutoffPast BY DEF CutoffPast, IdleCleaner, FreeSession
<1> QED BY <1>1, <1>2, <1>3, <1>4, <1>5, <1>6 DEF SessionInv

\* Type correctness and the invariant: a version names one password for ever,
\* a token is exchanged at most once, a refused family is revoked for good.
THEOREM SessionSafe == Spec => [](TypeOK /\ SessionInv)
<1>1. Init => TypeOK /\ SessionInv BY SessionStarts
<1>2. TypeOK /\ SessionInv /\ [Next]_vars => (TypeOK /\ SessionInv)' BY InvStep
<1> QED BY <1>1, <1>2, PTL DEF Spec

-----------------------------------------------------------------------------
(* What the invariant gives. *)

\* A session authenticates only while the password it was opened with is the
\* account's password, whatever raced with the login.
THEOREM PasswordChangeEndsSessions == Spec => []ActiveMeansCurrentPassword
<1>1. TypeOK /\ SessionInv => ActiveMeansCurrentPassword
  BY DEF SessionInv, SessionsBehind, ActiveMeansCurrentPassword, Active, Current
<1> QED BY <1>1, SessionSafe, PTL

\* A refresh token that was refused as reused leaves no usable token behind.
THEOREM ReuseEndsFamily == Spec => []RefusedFamilyDead
<1>1. TypeOK /\ SessionInv => RefusedFamilyDead
  BY DEF SessionInv, RefusedRevoked, RefusedFamilyDead, Active, Current
<1> QED BY <1>1, SessionSafe, PTL

\* Each refresh token is exchanged at most once, however many requests
\* present it at the same time.
THEOREM SingleUse == Spec => []TokensSingleUse
<1>1. TypeOK /\ SessionInv => TokensSingleUse
  BY DEF SessionInv, ExchangedOnce, TokensSingleUse
<1> QED BY <1>1, SessionSafe, PTL

\* A credential change based on an old password never commits after another.
THEOREM NoStaleProof == Spec => []StaleProofCannotCommit
<1>1. TypeOK /\ SessionInv => StaleProofCannotCommit
  BY DEF SessionInv, ReadsBehind, StaleProofCannotCommit, UpdateMatches
<1> QED BY <1>1, SessionSafe, PTL

\* The cleaner's recheck is enough: what it deletes is expired at that moment.
THEOREM CleanerIsSafe == Spec => CleanerSparesRenewed
<1>1. ASSUME TypeOK, SessionInv, [Next]_vars, NEW s \in Sessions,
             session[s].state = "open", session'[s].state = "gone"
      PROVE  Expired(s)
  <2>1. CASE DeleteExpiredSessions
    <3>1. PastCutoff(s) BY <1>1, <2>1 DEF DeleteExpiredSessions
    <3> QED BY <1>1, <3>1, RowTypes DEF PastCutoff, Expired, SessionInv, CutoffPast
  <2>2. CASE \E r \in Requests, x \in Sessions : CreateSession(r, x)
    BY <1>1, <2>2 DEF CreateSession, NewSession, TypeOK
  <2>3. CASE \E r \in Requests : RotateSession(r)
    <3>1. PICK r \in Requests : RotateSession(r) BY <2>3
    <3>2. req[r].session \in Sessions BY <1>1, <3>1, RequestTypes DEF RotateSession
    <3>3. session'[s].state = session[s].state
      BY <1>1, <3>1, <3>2, SessionFieldTypes DEF RotateSession, TypeOK, SessionRow
    <3> QED BY <1>1, <3>3
  <2>4. CASE \E r \in Requests : RevokeReplayed(r)
    <3>1. PICK r \in Requests : RevokeReplayed(r) BY <2>4
    <3>2. req[r].session \in Sessions BY <1>1, <3>1, RequestTypes DEF RevokeReplayed
    <3>3. session[req[r].session].state # "free"
      BY <1>1, <3>1 DEF RevokeReplayed, SessionInv, IdsIssued
    <3>4. session'[s].state = session[s].state
      BY <1>1, <3>1, <3>2, <3>3, RevokedRow DEF RevokeReplayed
    <3> QED BY <1>1, <3>4
  <2>5. CASE \E x \in Sessions : TokenExpires(x)
    BY <1>1, <2>5 DEF TokenExpires, TypeOK, SessionRow
  <2>6. CASE \E x \in Sessions, g \in Token : Logout(x, g)
    <3>1. PICK x \in Sessions, g \in Token : Logout(x, g) BY <2>6
    <3>2. session[x].state # "free" BY <3>1 DEF Logout, Parses
    <3> QED BY <1>1, <3>1, <3>2, RevokedRow DEF Logout
  <2>7. CASE session' = session BY <1>1, <2>7
  <2> QED BY <1>1, <2>1, <2>2, <2>3, <2>4, <2>5, <2>6, <2>7, StepCases
        DEF SignUp, DeleteUser, SetStatus, VerifyPassword, ReadForUpdate, UpdateUser,
            ParseRefreshToken, RotateMisses, RequestFails, SelectExpiredSessions, CleanerFails,
            vars
<1>2. TypeOK /\ SessionInv /\ [Next]_vars =>
        [\A s \in Sessions : session[s].state = "open" /\ session'[s].state = "gone"
                              => Expired(s)]_vars
  BY <1>1
<1> QED BY <1>2, SessionSafe, PTL DEF Spec, CleanerSparesRenewed

-----------------------------------------------------------------------------
(* A session implements a family of single-use tokens. *)

\* A family is its value in the mapping.
LEMMA FamilyValue ==
    /\ \A s \in Sessions : FamilyOf[s] = IF session[s].state = "free" THEN 0
                                         ELSE IF Alive(s) THEN session[s].token ELSE Dead
    /\ \A s \in Sessions : FamilyOf'[s] = IF session'[s].state = "free" THEN 0
                                          ELSE IF Alive(s)' THEN session'[s].token ELSE Dead
    /\ FamilyOf' = [s \in Sessions |-> FamilyOf'[s]]
BY DEF FamilyOf, Dead

\* A step after which every family is as before or newly dead kills a set of
\* families (none, when nothing changed).
LEMMA KillStep ==
    ASSUME \A s \in Sessions :
             FamilyOf'[s] = FamilyOf[s] \/ (FamilyOf[s] # 0 /\ FamilyOf'[s] = Dead)
    PROVE  Family!Next
<1>1. PICK K \in SUBSET {s \in Sessions : FamilyOf[s] # 0} :
        K = {s \in Sessions : FamilyOf[s] # 0 /\ FamilyOf'[s] = Dead}
  OBVIOUS
<1>2. \A s \in Sessions : FamilyOf'[s] = IF s \in K THEN Dead ELSE FamilyOf[s] BY <1>1
<1>3. FamilyOf' = [s \in Sessions |-> IF s \in K THEN Dead ELSE FamilyOf[s]]
  BY <1>2, FamilyValue
<1>4. Family!Kill BY <1>1, <1>3 DEF Family!Kill, Family!Unissued
<1> QED BY <1>4 DEF Family!Next

\* Sessions keep token and place; an account or a session can only die.
LEMMA MortalStep ==
    ASSUME TypeOK, TypeOK',
           \A s \in Sessions :
             /\ session'[s].state = "free" <=> session[s].state = "free"
             /\ session'[s].token = session[s].token
             /\ Alive(s)' => Alive(s)
    PROVE  Family!Next
<1>1. \A s \in Sessions : session[s].token # 0 BY RowTypes
<1>2. \A s \in Sessions :
        FamilyOf'[s] = FamilyOf[s] \/ (FamilyOf[s] # 0 /\ FamilyOf'[s] = Dead)
  BY <1>1, FamilyValue
<1> QED BY <1>2, KillStep

\* An update of an account never revives its sessions, not even with the
\* stale status it writes.
LEMMA UpdateKills ==
    ASSUME TypeOK, SessionInv, NEW r \in Requests, NEW password \in BOOLEAN,
           UpdateUser(r, password), NEW s \in Sessions, Alive(s)'
    PROVE  Alive(s)
<1>1. session' = session BY DEF UpdateUser
<1>2. req[r].user \in Users /\ req[r].op = "update" BY RequestTypes DEF UpdateUser
<1>3. CASE session[s].user = req[r].user
  <2>1. user'[req[r].user].version = user[req[r].user].version + 1
    BY <1>2 DEF UpdateUser, UpdateMatches, UpdatedRow, TypeOK
  <2>2. session[s].version <= user[req[r].user].version
    BY <1>1, <1>3 DEF Alive, SessionInv, SessionsBehind
  <2>3. session[s].version = user'[req[r].user].version BY <1>1, <1>3 DEF Alive
  <2> QED BY <1>2, <2>1, <2>2, <2>3, RowTypes
<1>4. CASE session[s].user # req[r].user
  <2>1. user'[session[s].user] = user[session[s].user]
    BY <1>2, <1>4, RowTypes DEF UpdateUser, TypeOK
  <2> QED BY <1>1, <2>1 DEF Alive
<1> QED BY <1>3, <1>4

\* Changes of status never revive a session.
LEMMA StatusKills ==
    ASSUME TypeOK, NEW u \in Users, SignUp(u) \/ DeleteUser(u) \/ SetStatus(u),
           NEW s \in Sessions, Alive(s)'
    PROVE  Alive(s)
<1>1. session' = session BY DEF SignUp, DeleteUser, SetStatus
<1>2. user[u].status # "deleted" BY DEF SignUp, DeleteUser, SetStatus, Exists
<1>3. PICK st : user' = [user EXCEPT ![u] = [user[u] EXCEPT !.status = st]]
  BY DEF SignUp, DeleteUser, SetStatus
<1>4. user[u] \in User /\ session[s].user \in Users BY RowTypes DEF TypeOK
<1>5. user'[u].version = user[u].version BY <1>3, <1>4 DEF User, TypeOK
<1>6. \A v \in Users : v # u => user'[v] = user[v] BY <1>3 DEF TypeOK
<1> QED BY <1>1, <1>2, <1>4, <1>5, <1>6 DEF Alive

\* Every step of the program is a step of the families: a login issues one, a
\* rotation exchanges one token, everything else at most kills families.
LEMMA FamilyStep ==
    ASSUME TypeOK, SessionInv, TypeOK', SessionInv', [Next]_vars
    PROVE  [Family!Next]_FamilyOf
<1>1. ASSUME NEW u \in Users, SignUp(u) \/ DeleteUser(u) \/ SetStatus(u) PROVE Family!Next
  <2>1. session' = session BY <1>1 DEF SignUp, DeleteUser, SetStatus
  <2> QED BY <1>1, <2>1, StatusKills, MortalStep
<1>2. ASSUME NEW r \in Requests, NEW password \in BOOLEAN, UpdateUser(r, password)
      PROVE  Family!Next
  <2>1. session' = session BY <1>2 DEF UpdateUser
  <2> QED BY <1>2, <2>1, UpdateKills, MortalStep
<1>3. ASSUME NEW r \in Requests, NEW s \in Sessions, CreateSession(r, s) PROVE Family!Next
  <2>1. FamilyOf[s] = 0 BY <1>3, FamilyValue DEF CreateSession
  <2>2. /\ session'[s] = NewSession(req[r]) /\ user' = user
        /\ \A x \in Sessions : x # s => session'[x] = session[x]
    BY <1>3 DEF CreateSession, TypeOK
  <2>3. FamilyOf'[s] \in {1, Dead} BY <2>2, FamilyValue DEF NewSession
  <2>4. \A x \in Sessions : x # s => FamilyOf'[x] = FamilyOf[x]
    BY <2>2, FamilyValue DEF Alive
  <2>5. FamilyOf' = [FamilyOf EXCEPT ![s] = FamilyOf'[s]]
    <3>1. FamilyOf = [x \in Sessions |-> FamilyOf[x]] BY DEF FamilyOf
    <3> QED BY <2>4, <3>1, FamilyValue
  <2>6. Family!Issue(s) BY <2>1, <2>3, <2>5 DEF Family!Issue, Family!Unissued
  <2> QED BY <2>6 DEF Family!Next
<1>4. ASSUME NEW r \in Requests, RotateSession(r) PROVE Family!Next
  <2>1. PICK s \in Sessions : s = req[r].session BY <1>4, RequestTypes DEF RotateSession
  <2>2. /\ session[s] \in SessionRow /\ user' = user
        /\ session'[s] = [session[s] EXCEPT !.token = session[s].token + 1]
        /\ \A x \in Sessions : x # s => session'[x] = session[x]
    BY <1>4, <2>1 DEF RotateSession, TypeOK
  <2>3. /\ session'[s].token = session[s].token + 1
        /\ session'[s].state = session[s].state /\ session'[s].user = session[s].user
        /\ session'[s].version = session[s].version
        /\ session'[s].revoked = session[s].revoked
    BY <2>2 DEF SessionRow
  <2>4. Alive(s) /\ session[s].state = "open" /\ session[s].token < MaxToken
    BY <1>4, <2>1 DEF RotateSession, RotateMatches, Current, Alive
  <2>5. Alive(s)' BY <2>2, <2>3, <2>4 DEF Alive
  <2>6. FamilyOf[s] = session[s].token /\ FamilyOf'[s] = session[s].token + 1
    BY <2>1, <2>3, <2>4, <2>5, FamilyValue
  <2>7. \A x \in Sessions : x # s => FamilyOf'[x] = FamilyOf[x]
    BY <2>2, FamilyValue DEF Alive
  <2>8. FamilyOf' = [FamilyOf EXCEPT ![s] = FamilyOf[s] + 1]
    <3>1. FamilyOf = [x \in Sessions |-> FamilyOf[x]] BY DEF FamilyOf
    <3> QED BY <2>6, <2>7, <3>1, FamilyValue
  <2>9. FamilyOf[s] \in 1..(MaxToken - 1)
    BY <2>1, <2>4, <2>6, RowTypes, SessionAssumption
  <2>10. Family!Exchange(s) BY <2>8, <2>9 DEF Family!Exchange
  <2> QED BY <2>1, <2>10 DEF Family!Next
<1>5. ASSUME NEW s \in Sessions, session[s].state # "free", session' = Revoked(s), user' = user
      PROVE  Family!Next
  <2>1. \A x \in Sessions : /\ session'[x].state = session[x].state
                            /\ session'[x].token = session[x].token
                            /\ session'[x].user = session[x].user
                            /\ session'[x].version = session[x].version
                            /\ session[x].revoked => session'[x].revoked
    BY <1>5, RevokedRow
  <2>2. \A x \in Sessions : Alive(x)' => Alive(x) BY <1>5, <2>1 DEF Alive
  <2> QED BY <2>1, <2>2, MortalStep
<1>6. ASSUME NEW r \in Requests, RevokeReplayed(r) PROVE Family!Next
  <2>1. req[r].session \in Sessions BY <1>6, RequestTypes DEF RevokeReplayed
  <2>2. session[req[r].session].state # "free"
    BY <1>6 DEF RevokeReplayed, SessionInv, IdsIssued
  <2> QED BY <1>5, <1>6, <2>1, <2>2 DEF RevokeReplayed
<1>7. ASSUME NEW s \in Sessions, NEW g \in Token, Logout(s, g) PROVE Family!Next
  BY <1>5, <1>7 DEF Logout, Parses
<1>8. ASSUME NEW s \in Sessions, TokenExpires(s) PROVE Family!Next
  <2>1. user' = user BY <1>8 DEF TokenExpires
  <2>2. \A x \in Sessions : /\ session'[x].state = session[x].state
                            /\ session'[x].token = session[x].token
                            /\ session'[x].user = session[x].user
                            /\ session'[x].version = session[x].version
                            /\ session'[x].revoked = session[x].revoked
    BY <1>8 DEF TokenExpires, TypeOK, SessionRow
  <2>3. \A x \in Sessions : Alive(x)' => Alive(x) BY <2>1, <2>2 DEF Alive
  <2> QED BY <2>2, <2>3, MortalStep
<1>9. ASSUME DeleteExpiredSessions PROVE Family!Next
  <2>1. user' = user BY <1>9 DEF DeleteExpiredSessions
  <2>2. ASSUME NEW x \in Sessions
        PROVE  /\ session'[x].state = "free" <=> session[x].state = "free"
               /\ session'[x].token = session[x].token
               /\ Alive(x)' => Alive(x)
    <3>1. CASE session'[x] = session[x] BY <2>1, <3>1 DEF Alive
    <3>2. CASE /\ session[x].state = "open"
               /\ session'[x] = [session[x] EXCEPT !.state = "gone"]
      <4>1. session[x] \in SessionRow BY DEF TypeOK
      <4>2. session'[x].state = "gone" /\ session'[x].token = session[x].token
        BY <3>2, <4>1 DEF SessionRow
      <4> QED BY <3>2, <4>2 DEF Alive
    <3> QED BY <1>9, <3>1, <3>2 DEF DeleteExpiredSessions, PastCutoff
  <2> QED BY <2>2, MortalStep
<1>10. ASSUME session' = session, user' = user PROVE UNCHANGED FamilyOf
  BY <1>10 DEF FamilyOf, Alive, Dead
<1> QED BY <1>1, <1>2, <1>3, <1>4, <1>6, <1>7, <1>8, <1>9, <1>10, StepCases
      DEF VerifyPassword, ReadForUpdate, ParseRefreshToken, RotateMisses, RequestFails,
          SelectExpiredSessions, CleanerFails, vars

\* A session implements a family of single-use tokens.
THEOREM SessionImplementsFamily == Spec => ImplementsTokenFamily
<1>1. Init => Family!Init
  BY FamilyValue DEF Init, FreeSession, Family!Init, Family!Unissued, FamilyOf
<1>2. TypeOK /\ SessionInv /\ (TypeOK /\ SessionInv)' /\ [Next]_vars => [Family!Next]_FamilyOf
  BY FamilyStep
<1> QED BY <1>1, <1>2, SessionSafe, PTL DEF Spec, ImplementsTokenFamily, Family!Spec


-----------------------------------------------------------------------------
(* Access: the middleware admits no request that came too late.  It rests on *)
(* what is shown of every step above: a dead family of tokens stays dead.    *)


\* A session that was issued and is dead stays so.
LEMMA DeadForGood ==
    ASSUME TypeOK, SessionInv, TypeOK', SessionInv', [Next]_vars,
           NEW s \in Sessions, session[s].state # "free", ~Alive(s)
    PROVE  session'[s].state # "free" /\ ~Alive(s)'
<1>1. [Family!Next]_FamilyOf BY FamilyStep
<1>2. FamilyOf[s] = Dead BY FamilyValue
<1>3. Dead # 0 /\ Dead \notin 1..(MaxToken - 1) BY SessionAssumption DEF Dead
<1>4. FamilyOf'[s] = Dead
  <2>1. CASE Family!Kill BY <1>2, <2>1 DEF Family!Kill
  <2>2. ASSUME NEW x \in Sessions, Family!Issue(x) PROVE FamilyOf'[s] = Dead
    <3>1. x # s BY <1>2, <1>3, <2>2 DEF Family!Issue, Family!Unissued
    <3> QED BY <1>2, <2>2, <3>1 DEF Family!Issue, FamilyOf
  <2>3. ASSUME NEW x \in Sessions, Family!Exchange(x) PROVE FamilyOf'[s] = Dead
    <3>1. x # s BY <1>2, <1>3, <2>3 DEF Family!Exchange
    <3> QED BY <1>2, <2>3, <3>1 DEF Family!Exchange, FamilyOf
  <2>4. CASE UNCHANGED FamilyOf BY <1>2, <2>4
  <2> QED BY <1>1, <2>1, <2>2, <2>3, <2>4 DEF Family!Next
<1>5. session'[s].state # "free" BY <1>3, <1>4, FamilyValue
<1>6. Alive(s)' => session'[s].token = Dead BY <1>4, <1>5, FamilyValue
<1>7. session'[s].token \in 1..MaxToken BY DEF TypeOK, SessionRow, Token
<1> QED BY <1>5, <1>6, <1>7, SessionAssumption DEF Dead

\* A session once issued keeps its row or leaves a trace that it was.
LEMMA IssuedForGood ==
    ASSUME TypeOK, SessionInv, TypeOK', SessionInv', [Next]_vars,
           NEW s \in Sessions, session[s].state # "free"
    PROVE  session'[s].state # "free"
<1>1. [Family!Next]_FamilyOf BY FamilyStep
<1>2. FamilyOf[s] # 0 /\ FamilyOf[s] \in Nat
  <2>1. session[s].token \in 1..MaxToken BY DEF TypeOK, SessionRow, Token
  <2>2. FamilyOf[s] \in {session[s].token, Dead} BY FamilyValue
  <2> QED BY <2>1, <2>2, SessionAssumption DEF Dead
<1>3. FamilyOf'[s] # 0
  <2>1. CASE Family!Kill BY <1>2, <2>1, SessionAssumption DEF Family!Kill, Dead
  <2>2. ASSUME NEW x \in Sessions, Family!Issue(x) PROVE FamilyOf'[s] # 0
    <3>1. x # s BY <1>2, <2>2 DEF Family!Issue, Family!Unissued
    <3> QED BY <1>2, <2>2, <3>1 DEF Family!Issue, FamilyOf
  <2>3. ASSUME NEW x \in Sessions, Family!Exchange(x) PROVE FamilyOf'[s] # 0
    <3>1. CASE x # s BY <1>2, <2>3, <3>1 DEF Family!Exchange, FamilyOf
    <3>2. CASE x = s
      <4>1. FamilyOf'[s] = FamilyOf[s] + 1 BY <2>3, <3>2 DEF Family!Exchange, FamilyOf
      <4> QED BY <1>2, <4>1
    <3> QED BY <3>1, <3>2
  <2>4. CASE UNCHANGED FamilyOf BY <1>2, <2>4
  <2> QED BY <1>1, <2>1, <2>2, <2>3, <2>4 DEF Family!Next
<1> QED BY <1>3, FamilyValue

\* The middleware and the credential operations together keep all invariants.
LEMMA AccessStep ==
    ASSUME TypeOK, SessionInv, AccessTypeOK, LateInv, [AccessNext]_accessVars
    PROVE  TypeOK' /\ SessionInv' /\ AccessTypeOK' /\ LateInv'
<1>1. [Next]_vars
  BY DEF AccessNext, Present, Answer, ValidateJWTToken, GetUserByUUID, accessVars, vars
<1>2. TypeOK' /\ SessionInv' BY <1>1, InvStep
<1>3. CASE UNCHANGED access
  <2>1. AccessTypeOK' BY <1>3 DEF AccessTypeOK
  <2>2. LateInv'
    <3> SUFFICES ASSUME NEW a \in Accesses
                 PROVE  /\ access'[a].step # "none" => session'[access'[a].session].state # "free"
                        /\ access'[a].late => access'[a].step = "presented" /\ ~Alive(access[a].session)'
      BY DEF LateInv
    <3>1. PICK s \in Sessions : s = access[a].session BY DEF AccessTypeOK, Presented
    <3>2. access'[a] = access[a] BY <1>3
    <3>3. access[a].step # "none" => session'[s].state # "free"
      BY <1>1, <1>2, <3>1, IssuedForGood DEF LateInv
    <3>4. access[a].late => access[a].step = "presented" /\ ~Alive(s)
      BY <3>1 DEF LateInv, Alive
    <3>5. access[a].late => session[s].state # "free" BY <3>1 DEF LateInv
    <3>6. access[a].late => ~Alive(s)' BY <1>1, <1>2, <3>4, <3>5, DeadForGood
    <3> QED BY <3>1, <3>2, <3>3, <3>4, <3>6 DEF Alive
  <2> QED BY <1>2, <2>1, <2>2
<1>4. ASSUME NEW a \in Accesses, NEW s \in Sessions, Present(a, s) PROVE AccessTypeOK' /\ LateInv'
  BY <1>4 DEF Present, AccessTypeOK, Presented, LateInv, vars, Alive
<1>5. ASSUME NEW a \in Accesses, ValidateJWTToken(a) PROVE AccessTypeOK' /\ LateInv'
  <2>1. Alive(access[a].session) BY <1>5 DEF ValidateJWTToken, Active, Current, Alive
  <2>2. ~access[a].late BY <2>1 DEF LateInv
  <2> QED BY <1>5, <2>2 DEF ValidateJWTToken, AccessTypeOK, Presented, LateInv, vars, Alive
<1>6. ASSUME NEW a \in Accesses, GetUserByUUID(a) PROVE AccessTypeOK' /\ LateInv'
  <2>1. ~access[a].late BY <1>6 DEF GetUserByUUID, LateInv
  <2> QED BY <1>6, <2>1 DEF GetUserByUUID, AccessTypeOK, Presented, LateInv, vars, Alive
<1>7. ASSUME NEW a \in Accesses, Answer(a) PROVE AccessTypeOK' /\ LateInv'
  <2>1. (CHOOSE s \in Sessions : TRUE) \in Sessions
    BY <1>7 DEF AccessTypeOK, Presented
  <2> QED BY <1>7, <2>1 DEF Answer, AccessTypeOK, Presented, LateInv, vars, Alive
<1> QED BY <1>2, <1>3, <1>4, <1>5, <1>6, <1>7 DEF AccessNext, accessVars

\* Once a logout, a detected reuse, a credential change or a deletion is committed, no
\* request that arrives afterwards passes processUserAuth.
THEOREM NoLateAdmission == AccessSpec => []LateRequestRefused
<1>1. AccessInit => Init /\ AccessTypeOK /\ LateInv
  BY AccessAssumption DEF AccessInit, AccessTypeOK, Presented, LateInv
<1>2. Init => TypeOK /\ SessionInv BY SessionStarts
<1>3. TypeOK /\ SessionInv /\ AccessTypeOK /\ LateInv /\ [AccessNext]_accessVars
        => (TypeOK /\ SessionInv /\ AccessTypeOK /\ LateInv)'
  BY AccessStep
<1>4. LateInv => LateRequestRefused BY DEF LateInv, LateRequestRefused
<1> QED BY <1>1, <1>2, <1>3, <1>4, PTL DEF AccessSpec

\* The middleware only reads: with it beside them the credential operations are those of
\* Session, so every theorem about Session holds of the program that serves requests.
THEOREM AccessIsSession == AccessSpec => Spec
<1>1. AccessInit => Init BY DEF AccessInit
<1>2. [AccessNext]_accessVars => [Next]_vars
  BY DEF AccessNext, Present, Answer, ValidateJWTToken, GetUserByUUID, accessVars, vars
<1> QED BY <1>1, <1>2, PTL DEF AccessSpec, Spec

\* A session that was logged out, revoked, removed or outlived by a credential change.
Ended(s) == session[s].state # "free" /\ ~Alive(s)

EndedForGood == [][\A s \in Sessions : Ended(s) => Ended(s)']_vars

\* No login, refresh, account change or cleanup, in whatever order their statements come,
\* brings a session back that has ended.
THEOREM RevocationIsFinal == Spec => EndedForGood
<1>1. TypeOK /\ SessionInv /\ (TypeOK /\ SessionInv)' /\ [Next]_vars
        => [\A s \in Sessions : Ended(s) => Ended(s)']_vars
  BY DeadForGood DEF Ended
<1> QED BY <1>1, SessionSafe, PTL DEF Spec, EndedForGood
=============================================================================
