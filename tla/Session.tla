------------------------------ MODULE Session -------------------------------
(***************************************************************************)
(* Login sessions: the credential operations of internal/auth/auth.go      *)
(* (SignUp, Login, Refresh, Logout, UpdateUser, UpdateSelf, DeleteUser),   *)
(* the statements of internal/auth/repository/repository.go they run, and  *)
(* the session cleaner.                                                    *)
(*                                                                         *)
(* An operation that reads in one statement and writes in another is two   *)
(* actions of a request.  A password is its epoch, the number of password  *)
(* changes before it; refresh tokens of a session are numbered in the      *)
(* order they are issued, and expire in that order (every rotation sets a  *)
(* later expires_at).  `exp' is the last expired token, so a session is    *)
(* past its expires_at when exp reaches its current token.                 *)
(***************************************************************************)
EXTENDS Naturals, FiniteSets

CONSTANTS
    Users,         \* accounts
    Sessions,      \* the session ids uuid.New may return
    Requests,      \* requests in progress at the same time
    MaxVersion,    \* bound on a user's credential_version
    MaxToken,      \* bound on the refresh tokens of a session
    CleanLimit     \* sessions one cleanup statement selects (1000)

ASSUME SessionAssumption ==
    /\ Users # {}
    /\ MaxVersion \in Nat \ {0}
    /\ MaxToken \in Nat \ {0}
    /\ CleanLimit \in Nat \ {0}

VARIABLES
    user,       \* user[u]: the row of auth_users
    session,    \* session[s]: the row of auth_sessions
    req,        \* req[r]: what request r has read so far
    cleaner,    \* the session cleaner: the ids it selected and its cutoff
    exchanges,  \* exchanges[s][g]: successful exchanges of token g
    refused     \* sessions of which a refresh was answered ErrInvalidToken

vars == <<user, session, req, cleaner, exchanges, refused>>

Version == 1..MaxVersion
Token == 1..MaxToken
Epoch == 0..MaxVersion

User == [status: {"absent", "active", "inactive", "deleted"},
         version: Version, epoch: Epoch]

SessionRow == [state: {"free", "open", "gone"}, user: Users, version: Version,
               epoch: Epoch, token: Token, exp: 0..MaxToken, revoked: BOOLEAN]

Request == [op: {"idle"}]
             \cup [op: {"login", "update"}, user: Users, row: User]
             \cup [op: {"refresh"}, session: Sessions, token: Token]
             \cup [op: {"revoke"}, session: Sessions]

Idle == [op |-> "idle"]

TypeOK ==
    /\ user \in [Users -> User]
    /\ session \in [Sessions -> SessionRow]
    /\ req \in [Requests -> Request]
    /\ cleaner \in [ids: SUBSET Sessions, cut: [Sessions -> 0..MaxToken]]
    /\ exchanges \in [Sessions -> [Token -> 0..2]]
    /\ refused \subseteq Sessions

FreeSession == [state |-> "free", user |-> CHOOSE u \in Users : TRUE, version |-> 1,
                epoch |-> 0, token |-> 1, exp |-> 0, revoked |-> FALSE]

IdleCleaner == [ids |-> {}, cut |-> [s \in Sessions |-> 0]]

Init ==
    /\ user = [u \in Users |-> [status |-> "absent", version |-> 1, epoch |-> 0]]
    /\ session = [s \in Sessions |-> FreeSession]
    /\ req = [r \in Requests |-> Idle]
    /\ cleaner = IdleCleaner
    /\ exchanges = [s \in Sessions |-> [g \in Token |-> 0]]
    /\ refused = {}

-----------------------------------------------------------------------------
(* Accounts. *)

Exists(u) == user[u].status \in {"active", "inactive"}

\* Mutant: a sign-up revives the soft-deleted row of its e-mail address.
SignUpRestores(u) ==
    /\ user[u].status \in {"absent", "deleted"}
    /\ user' = [user EXCEPT ![u].status = "active"]
    /\ UNCHANGED <<session, req, cleaner, exchanges, refused>>

\* SignUp and CreateUser: an active account at credential version 1.
SignUp(u) ==
    /\ user[u].status = "absent"
    /\ user' = [user EXCEPT ![u].status = "active"]
    /\ UNCHANGED <<session, req, cleaner, exchanges, refused>>

\* The administrator's soft delete; the row and its sessions stay.
DeleteUser(u) ==
    /\ Exists(u)
    /\ user' = [user EXCEPT ![u].status = "deleted"]
    /\ UNCHANGED <<session, req, cleaner, exchanges, refused>>

\* The status column is changed by an operator, outside this program.
SetStatus(u) ==
    /\ Exists(u)
    /\ user' = [user EXCEPT ![u].status = IF @ = "active" THEN "inactive" ELSE "active"]
    /\ UNCHANGED <<session, req, cleaner, exchanges, refused>>

\* updateUser inside its transaction: read the row and, for UpdateSelf, check
\* that it is active and that the current password is the caller's.
ReadForUpdate(r, u, self) ==
    /\ req[r] = Idle
    /\ Exists(u)
    /\ self => user[u].status = "active"
    /\ req' = [req EXCEPT ![r] = [op |-> "update", user |-> u, row |-> user[u]]]
    /\ UNCHANGED <<user, session, cleaner, exchanges, refused>>

\* The row the UPDATE of Repository.UpdateUser matches.
UpdateMatches(q) == Exists(q.user) /\ user[q.user].version = q.row.version

\* Mutant: a credential change keeps the version.
UpdatedRowSameVersion(row, password) ==
    [status |-> row.status, version |-> row.version,
     epoch |-> IF password THEN row.epoch + 1 ELSE row.epoch]

\* The row updateUser writes: the one it read, status included, at the next
\* version and perhaps with a new password.
UpdatedRow(row, password) ==
    [status |-> row.status, version |-> row.version + 1,
     epoch |-> IF password THEN row.epoch + 1 ELSE row.epoch]

\* UpdateUser: a compare-and-swap on credential_version.  (MaxVersion bounds
\* the model, not the code.)
UpdateUser(r, password) ==
    LET q == req[r] IN
    /\ q.op = "update"
    /\ UpdateMatches(q)
    /\ q.row.version < MaxVersion
    /\ user' = [user EXCEPT ![q.user] = UpdatedRow(q.row, password)]
    /\ req' = [req EXCEPT ![r] = Idle]
    /\ UNCHANGED <<session, cleaner, exchanges, refused>>

-----------------------------------------------------------------------------
(* Login. *)

\* Login reads the account, finds it active and compares the password.
VerifyPassword(r, u) ==
    /\ req[r] = Idle
    /\ user[u].status = "active"
    /\ req' = [req EXCEPT ![r] = [op |-> "login", user |-> u, row |-> user[u]]]
    /\ UNCHANGED <<user, session, cleaner, exchanges, refused>>

\* Mutant: the session takes the version current at the insert.
NewSessionCurrentVersion(q) ==
    [state |-> "open", user |-> q.user, version |-> user[q.user].version,
     epoch |-> q.row.epoch, token |-> 1, exp |-> 0, revoked |-> FALSE]

\* The row createSession inserts: it carries the version that was read.
NewSession(q) == [state |-> "open", user |-> q.user, version |-> q.row.version,
                  epoch |-> q.row.epoch, token |-> 1, exp |-> 0, revoked |-> FALSE]

\* createSession: insert the session and return its first refresh token.
CreateSession(r, s) ==
    /\ req[r].op = "login"
    /\ session[s].state = "free"
    /\ session' = [session EXCEPT ![s] = NewSession(req[r])]
    /\ req' = [req EXCEPT ![r] = Idle]
    /\ UNCHANGED <<user, cleaner, exchanges, refused>>

-----------------------------------------------------------------------------
(* Refresh and logout. *)

\* activeSessionQuery, apart from expires_at.
Current(s) ==
    /\ session[s].state = "open"
    /\ ~session[s].revoked
    /\ user[session[s].user].status = "active"
    /\ user[session[s].user].version = session[s].version

Expired(s) == session[s].exp >= session[s].token

\* The session authenticates requests.
Active(s) == Current(s) /\ ~Expired(s)

\* parseJWTToken accepts token g of session s: issued and not expired.  It
\* needs no row, so a consumed token passes.
Parses(s, g) == session[s].state # "free" /\ session[s].exp < g /\ g <= session[s].token

ParseRefreshToken(r, s, g) ==
    /\ req[r] = Idle
    /\ Parses(s, g)
    /\ req' = [req EXCEPT ![r] = [op |-> "refresh", session |-> s, token |-> g]]
    /\ UNCHANGED <<user, session, cleaner, exchanges, refused>>

\* Mutant: the rotation does not compare the presented token.
RotateMatchesAnyToken(q) == Current(q.session)

\* The rows the compare-and-swap of RotateSession matches.  Its time is taken
\* before the statement runs, so a session that expired since still matches.
RotateMatches(q) == Current(q.session) /\ session[q.session].token = q.token

\* RotateSession succeeds.  (MaxToken bounds the model, not the code.)
RotateSession(r) ==
    LET q == req[r] IN
    /\ q.op = "refresh"
    /\ RotateMatches(q)
    /\ session[q.session].token < MaxToken
    /\ session' = [session EXCEPT ![q.session].token = @ + 1]
    /\ exchanges' = [exchanges EXCEPT ![q.session][q.token] = IF @ < 2 THEN @ + 1 ELSE @]
    /\ req' = [req EXCEPT ![r] = Idle]
    /\ UNCHANGED <<user, cleaner, refused>>

\* RotateSession changes no row: the request goes on to revoke the family.
RotateMisses(r) ==
    LET q == req[r] IN
    /\ q.op = "refresh"
    /\ ~RotateMatches(q) \/ Expired(q.session)
    /\ req' = [req EXCEPT ![r] = [op |-> "revoke", session |-> q.session]]
    /\ UNCHANGED <<user, session, cleaner, exchanges, refused>>

\* RevokeSession, also for the session of a deleted user.
Revoked(s) == [session EXCEPT ![s].revoked = @ \/ session[s].state = "open"]

\* Mutant: the revocation is rolled back with the failed refresh.
RevokeReplayedRolledBack(r) ==
    LET q == req[r] IN
    /\ q.op = "revoke"
    /\ refused' = refused \cup {q.session}
    /\ req' = [req EXCEPT ![r] = Idle]
    /\ UNCHANGED <<user, session, cleaner, exchanges>>

\* The family of the reused token is revoked and the answer is ErrInvalidToken.
RevokeReplayed(r) ==
    LET q == req[r] IN
    /\ q.op = "revoke"
    /\ session' = Revoked(q.session)
    /\ refused' = refused \cup {q.session}
    /\ req' = [req EXCEPT ![r] = Idle]
    /\ UNCHANGED <<user, cleaner, exchanges>>

\* Logout: any unexpired token of the family revokes it.
Logout(s, g) ==
    /\ Parses(s, g)
    /\ session' = Revoked(s)
    /\ UNCHANGED <<user, req, cleaner, exchanges, refused>>

\* A request ends early: a conflict, a database error, a cancelled context or
\* a crash between two of its statements.
RequestFails(r) ==
    /\ req[r] # Idle
    /\ req' = [req EXCEPT ![r] = Idle]
    /\ UNCHANGED <<user, session, cleaner, exchanges, refused>>

-----------------------------------------------------------------------------
(* Time and the cleaner. *)

\* The next refresh token of s expires.
TokenExpires(s) ==
    /\ session[s].state = "open"
    /\ session[s].exp < session[s].token
    /\ session' = [session EXCEPT ![s].exp = @ + 1]
    /\ UNCHANGED <<user, req, cleaner, exchanges, refused>>

\* The rows past expires_at now.
ExpiredRows == {s \in Sessions : session[s].state = "open" /\ Expired(s)}

\* The first statement of DeleteExpiredSessions fixes the cutoff and selects;
\* it is done when it finds nothing.  (Sessions are not told apart by the age
\* of their expiry, so any of them may be the oldest.)
SelectExpiredSessions ==
    /\ cleaner = IdleCleaner
    /\ \E ids \in SUBSET ExpiredRows :
         /\ ids # {}
         /\ \/ Cardinality(ids) = CleanLimit
            \/ ids = ExpiredRows /\ Cardinality(ids) < CleanLimit
         /\ cleaner' = [ids |-> ids,
                       cut |-> [s \in Sessions |-> IF s \in ids THEN session[s].exp ELSE 0]]
    /\ UNCHANGED <<user, session, req, exchanges, refused>>

\* Mutant: the delete trusts the selection.
PastCutoffUnchecked(s) == session[s].state = "open"

\* Mutant: the delete compares expires_at < cutoff.
PastCutoffStrict(s) == session[s].state = "open" /\ session[s].token < cleaner.cut[s]

\* The second deletes what is still past that cutoff.
PastCutoff(s) == session[s].state = "open" /\ session[s].token <= cleaner.cut[s]

DeleteExpiredSessions ==
    /\ cleaner # IdleCleaner
    /\ session' = [s \in Sessions |->
                     IF s \in cleaner.ids /\ PastCutoff(s)
                     THEN [session[s] EXCEPT !.state = "gone"] ELSE session[s]]
    /\ cleaner' = IdleCleaner
    /\ UNCHANGED <<user, req, exchanges, refused>>

CleanerFails ==
    /\ cleaner # IdleCleaner
    /\ cleaner' = IdleCleaner
    /\ UNCHANGED <<user, session, req, exchanges, refused>>

-----------------------------------------------------------------------------
RequestNext(r) ==
    \/ \E u \in Users : \/ VerifyPassword(r, u)
                        \/ \E self \in BOOLEAN : ReadForUpdate(r, u, self)
    \/ \E s \in Sessions : \/ CreateSession(r, s)
                           \/ \E g \in Token : ParseRefreshToken(r, s, g)
    \/ \E password \in BOOLEAN : UpdateUser(r, password)
    \/ RotateSession(r)
    \/ RotateMisses(r)
    \/ RevokeReplayed(r)
    \/ RequestFails(r)

Next ==
    \/ \E u \in Users : SignUp(u) \/ DeleteUser(u) \/ SetStatus(u)
    \/ \E r \in Requests : RequestNext(r)
    \/ \E s \in Sessions : \/ TokenExpires(s)
                           \/ \E g \in Token : Logout(s, g)
    \/ SelectExpiredSessions
    \/ DeleteExpiredSessions
    \/ CleanerFails

Spec == Init /\ [][Next]_vars

\* Refresh tokens do expire, and the cleaner's ticker fires again after every
\* error; its two statements are not made to fail for ever by the database.
Fairness ==
    /\ \A s \in Sessions : WF_vars(TokenExpires(s))
    /\ WF_vars(SelectExpiredSessions)
    /\ SF_vars(DeleteExpiredSessions)

FairSpec == Spec /\ Fairness

-----------------------------------------------------------------------------
(* Properties. *)

\* A session authenticates requests only while the password it was opened
\* with is the account's password: a login that verified the old password
\* and inserts its session after the change gets a dead one.
ActiveMeansCurrentPassword ==
    \A s \in Sessions : Active(s) => session[s].epoch = user[session[s].user].epoch

\* Once a refresh was refused as reused, no token of that family ever works
\* again, though the miss and the revocation are two statements.
RefusedFamilyDead == \A s \in refused : ~Active(s)

\* Of all the requests that present the same refresh token, one gets a
\* successor: refresh tokens are single-use.
TokensSingleUse == \A s \in Sessions : \A g \in Token : exchanges[s][g] <= 1

\* An account change whose proof of the old password is out of date can no
\* longer commit.
StaleProofCannotCommit ==
    \A r \in Requests :
      req[r].op = "update" /\ UpdateMatches(req[r])
        => req[r].row.epoch = user[req[r].user].epoch

\* The cleaner removes no session that a refresh renewed between its two
\* statements.
CleanerSparesRenewed ==
    [][\A s \in Sessions :
         session[s].state = "open" /\ session'[s].state = "gone" => Expired(s)]_vars

\* Every expired session is removed, or renewed by a refresh in flight.
ExpiredSessionsRemoved ==
    \A s \in Sessions :
      (session[s].state = "open" /\ Expired(s))
        ~> (session[s].state = "gone" \/ ~Expired(s))

-----------------------------------------------------------------------------
(* The inductive invariant behind the properties above, in named parts. *)

\* Rows read in the past: the password of a version never changes, so equal
\* versions mean equal passwords.
ReadsBehind ==
    /\ \A u \in Users : user[u].epoch < user[u].version
    /\ \A r \in Requests : req[r].op \in {"login", "update"} =>
         LET q == req[r] IN
         /\ q.row.version <= user[q.user].version
         /\ q.row.status \in {"active", "inactive"}
         /\ q.row.epoch < q.row.version
         /\ user[q.user].version = q.row.version => user[q.user].epoch = q.row.epoch

\* The same for the version a session was opened with.
SessionsBehind ==
    \A s \in Sessions : session[s].state # "free" =>
      LET u == session[s].user IN
      /\ session[s].version <= user[u].version
      /\ user[u].version = session[s].version => user[u].epoch = session[s].epoch

\* Exactly the tokens before the current one were exchanged, once each.
ExchangedOnce ==
    \A s \in Sessions : \A g \in Token :
      exchanges[s][g] = IF g < session[s].token THEN 1 ELSE 0

\* A refused family is revoked for good.
RefusedRevoked ==
    \A s \in refused : session[s].state = "gone" \/ session[s].revoked

\* A session is written only by those who hold its id.
IdsIssued ==
    /\ \A s \in Sessions : session[s].state = "free" => session[s] = FreeSession
    /\ \A r \in Requests : req[r].op \in {"refresh", "revoke"} =>
         session[req[r].session].state # "free"

\* The cutoff is in the past.
CutoffPast == \A s \in Sessions : cleaner.cut[s] <= session[s].exp

SessionInv ==
    /\ ReadsBehind
    /\ SessionsBehind
    /\ ExchangedOnce
    /\ RefusedRevoked
    /\ IdsIssued
    /\ CutoffPast

\* A session implements the family of single-use tokens.
Alive(s) ==
    /\ session[s].state = "open"
    /\ ~session[s].revoked
    /\ user[session[s].user].status # "deleted"
    /\ user[session[s].user].version = session[s].version

Dead == MaxToken + 1

FamilyOf == [s \in Sessions |-> IF session[s].state = "free" THEN 0
                               ELSE IF Alive(s) THEN session[s].token ELSE Dead]

Family == INSTANCE TokenFamily WITH family <- FamilyOf
ImplementsTokenFamily == Family!Spec

=============================================================================
