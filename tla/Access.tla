------------------------------- MODULE Access -------------------------------
(***************************************************************************)
(* The authentication middleware beside the credential operations of       *)
(* Session: a request that presents an access token is checked against its *)
(* session in one statement and against its account in a second one, while *)
(* logins, logouts, refreshes, account changes and the cleaner go on.      *)
(***************************************************************************)
EXTENDS Session

CONSTANT Accesses   \* requests with an access token in progress at the same time

ASSUME AccessAssumption == Sessions # {}

VARIABLE access     \* access[a]: how far it is, its session, and whether it came too late

accessVars == <<vars, access>>

Presented == [step: {"none", "presented", "validated", "admitted"}, session: Sessions, late: BOOLEAN]

AccessTypeOK == access \in [Accesses -> Presented]

AccessInit ==
    /\ Init
    /\ access \in [Accesses -> [step: {"none"}, session: {CHOOSE s \in Sessions : TRUE}, late: {FALSE}]]

\* A request arrives with an unexpired access token of session s.  It is late if by then
\* the session was logged out, revoked, removed or outlived by a credential change, or
\* its account deleted.
Present(a, s) ==
    /\ access[a].step = "none"
    /\ session[s].state # "free"
    /\ access' = [access EXCEPT ![a] = [step |-> "presented", session |-> s, late |-> ~Alive(s)]]
    /\ UNCHANGED vars

\* The request is answered: refused, failed, or served.
Answer(a) ==
    /\ access[a].step # "none"
    /\ access' = [access EXCEPT ![a].step = "none", ![a].late = FALSE,
                                ![a].session = CHOOSE s \in Sessions : TRUE]
    /\ UNCHANGED vars

\* Mutant: the signature is enough.
ValidateJWTTokenUnchecked(a) ==
    /\ access[a].step = "presented"
    /\ access' = [access EXCEPT ![a].step = "validated"]
    /\ UNCHANGED vars

\* validateJWTToken: GetActiveSession finds the session.
ValidateJWTToken(a) ==
    /\ access[a].step = "presented"
    /\ Active(access[a].session)
    /\ access' = [access EXCEPT ![a].step = "validated"]
    /\ UNCHANGED vars

\* processUserAuth: the account is loaded, and must be active.
GetUserByUUID(a) ==
    /\ access[a].step = "validated"
    /\ user[session[access[a].session].user].status = "active"
    /\ access' = [access EXCEPT ![a].step = "admitted"]
    /\ UNCHANGED vars

AccessNext ==
    \/ Next /\ UNCHANGED access
    \/ \E a \in Accesses : \/ \E s \in Sessions : Present(a, s)
                           \/ ValidateJWTToken(a) \/ GetUserByUUID(a) \/ Answer(a)

AccessSpec == AccessInit /\ [][AccessNext]_accessVars

\* The fairness of Session.
FairAccessSpec ==
    /\ AccessSpec
    /\ \A s \in Sessions : WF_accessVars(TokenExpires(s) /\ UNCHANGED access)
    /\ WF_accessVars(SelectExpiredSessions /\ UNCHANGED access)
    /\ SF_accessVars(DeleteExpiredSessions /\ UNCHANGED access)

-----------------------------------------------------------------------------

\* A request that arrives after a logout, a detected reuse, a credential change or a
\* deletion was committed is never admitted, although its two checks are separate
\* statements and an account may be deactivated and activated again in between.
LateRequestRefused == \A a \in Accesses : access[a].step = "admitted" => ~access[a].late

\* The inductive form: late requests belong to dead sessions and were never validated.
LateInv ==
    \A a \in Accesses :
        /\ access[a].step # "none" => session[access[a].session].state # "free"
        /\ access[a].late => access[a].step = "presented" /\ ~Alive(access[a].session)
=============================================================================
