---------------------------- MODULE CentralSessions ----------------------------
(***************************************************************************)
(* The central sessions of the SSO and everything that hangs on them: who  *)
(* may open one, the OAuth tokens issued under it, the relying parties it  *)
(* has visited, and the batches that end sessions and record the logout    *)
(* notices (self-service, administrator, RP-initiated, account deletion).  *)
(* Every handler reads first and commits one guarded batch later; anything *)
(* may happen in between.                                                  *)
(***************************************************************************)
EXTENDS FiniteSets

CONSTANTS
    User,       \* user ids
    Admin,      \* users whose role grants users.manage
    Sid,        \* session ids, each used at most once
    Client,     \* OAuth clients
    Request,    \* concurrent requests that open or end sessions
    Flow,       \* concurrent requests at the token endpoint
    Nobody      \* no user, no session

ASSUME AdminAssumption == Admin \subseteq User
ASSUME NobodyAssumption == Nobody \notin User \cup Sid

VARIABLES
    status,     \* user.status, or "deleted" when the row is gone
    session,    \* userId of each session row, Nobody when there is no row
    expired,    \* session rows with expiresAt in the past
    owner,      \* userId that each session was inserted with, Nobody before; the
                \* tokens issued under it carry the same userId
    code,       \* authorization codes that can be exchanged
    refresh,    \* (session, client) of the refresh tokens that are not revoked
    access,     \* (session, client) of the stored access tokens; both by the session
                \* of the grant, also when its row is gone and sessionId is NULL
    visits,     \* the table rp_session_client
    outbox,     \* (session_id, client_id) of the rows of logout_delivery
    request,    \* what each request has read, and where it is
    flow,       \* the same at the token endpoint
    served,     \* history: (session, client) that tokens were issued for
    revoked,    \* history: sessions ended by a revocation
    left        \* history: users who deleted their own account

vars == <<status, session, expired, owner, code, refresh, access, visits,
          outbox, request, flow, served, revoked, left>>

accounts == <<status, left>>
tokens == <<code, refresh, access, visits, served>>
notices == <<outbox, revoked>>

-------------------------------------------------------------------------------
Visit == Sid \X Client

SelfKinds == {"one", "others", "all"}
AdminKinds == {"suspend", "reactivate", "revoke", "delete"}
Kinds == {"signin", "rp_logout", "leave"} \cup SelfKinds \cup AdminKinds

\* What a request remembers: the kind of batch, its user, who asks with which
\* session, the one session that is meant, and the status that was read.
Pending(at, kind, user, by, actor, target, was) ==
    [at |-> at, kind |-> kind, user |-> user, by |-> by, actor |-> actor,
     target |-> target, was |-> was]

\* Session ids that have been inserted.
Minted == {s \in Sid : owner[s] # Nobody}

Request0 == Pending("idle", "signin", Nobody, Nobody, Nobody, Nobody, "active")
Flow0 == [at |-> "idle", visit |-> <<Nobody, Nobody>>]

TypeOK ==
    /\ status \in [User -> {"active", "suspended", "deleted"}]
    /\ session \in [Sid -> User \cup {Nobody}]
    /\ owner \in [Sid -> User \cup {Nobody}]
    /\ expired \subseteq Minted /\ revoked \subseteq Minted
    /\ code \subseteq Visit /\ refresh \subseteq Visit /\ access \subseteq Visit
    /\ visits \subseteq Visit /\ outbox \subseteq Visit /\ served \subseteq Visit
    /\ request \in [Request -> [at : {"idle", "insert", "commit"}, kind : Kinds,
                                user : User \cup {Nobody}, by : User \cup {Nobody},
                                actor : Sid \cup {Nobody}, target : Sid \cup {Nobody},
                                was : {"active", "suspended"}]]
    /\ \A r \in Request : request[r].at # "idle" => request[r].user # Nobody
    /\ flow \in [Flow -> [at : {"idle", "refresh", "access"},
                          visit : Visit \cup {<<Nobody, Nobody>>}]]
    /\ \A f \in Flow : flow[f].at # "idle" => flow[f].visit \in Visit
    /\ left \subseteq User

Init ==
    /\ status = [u \in User |-> "active"]
    /\ session = [s \in Sid |-> Nobody]
    /\ owner = [s \in Sid |-> Nobody]
    /\ expired = {} /\ revoked = {} /\ left = {}
    /\ code = {} /\ refresh = {} /\ access = {} /\ visits = {}
    /\ outbox = {} /\ served = {}
    /\ request = [r \in Request |-> Request0]
    /\ flow = [f \in Flow |-> Flow0]

-------------------------------------------------------------------------------
(* Conditions                                                              *)

\* A session row that getSession and the token endpoint accept.
Live(s) == s \in Sid /\ session[s] # Nobody /\ s \notin expired

\* (slip: the foreign key on session is not enforced)
BugNoForeignKey(v) == TRUE

\* sessionId REFERENCES session: a token row needs the session row, live or not.
ForeignKey(v) == session[v[1]] # Nobody

\* userId REFERENCES user.
AccountExists(u) == status[u] # "deleted"

\* (slip: the selector forgets the session id)
BugWholeUser(q) == {s \in Sid : session[s] = q.user}

\* The sessions that a batch selects.
Selected(q) ==
    CASE q.kind \in {"one", "rp_logout"} ->
            {s \in {q.target} \cap Sid : session[s] = q.user}
      [] q.kind = "others" -> {s \in Sid : session[s] = q.user /\ s # q.actor}
      [] OTHER -> {s \in Sid : session[s] = q.user}

\* The audit insert carries the guard of the batch, and all other statements
\* depend on it: nothing is taken from the read but ids and the old status.
\* Self-service: the session that asks is live.
SelfEligible(q) ==
    q.kind \in SelfKinds /\ Live(q.actor) /\ session[q.actor] = q.user

\* RP-initiated logout: the session that the ID token names has a row.
RpEligible(q) == q.kind = "rp_logout" /\ session[q.target] = q.user

\* (slip: the permission that the gate has read is trusted at the commit)
BugGateTrusted(q) == q.kind \in AdminKinds /\ status[q.user] = q.was

\* The target is as it was, and the administrator is still one.
AdminEligible(q) ==
    /\ q.kind \in AdminKinds
    /\ status[q.user] = q.was
    /\ Live(q.actor) /\ session[q.actor] = q.by
    /\ status[q.by] = "active"

\* The session and the user are as they were.
LeaveEligible(q) ==
    /\ q.kind = "leave"
    /\ Live(q.actor) /\ session[q.actor] = q.user
    /\ status[q.user] = q.was

Eligible(q) == SelfEligible(q) \/ RpEligible(q) \/ AdminEligible(q) \/ LeaveEligible(q)

\* Reactivating ends no session.
Ending(q) == q.kind # "reactivate"

StatusAfter(q) ==
    CASE q.kind = "suspend" -> "suspended"
      [] q.kind = "reactivate" -> "active"
      [] q.kind \in {"delete", "leave"} -> "deleted"
      [] OTHER -> status[q.user]

Of(S, table) == {v \in table : v[1] \in S}
OfUser(u, table) == {v \in table : owner[v[1]] = u}

\* globalLogoutForUserStatements: the batch ends all that is the user's.
UserWide(q) == q.kind \in AdminKinds \cup {"leave"}

\* The tokens that a batch deletes or revokes: by their userId, or by their
\* sessionId, which those of a lapsed session have lost.
EndedTokens(q, table) ==
    IF UserWide(q) THEN OfUser(q.user, table) ELSE Of(Selected(q), table)

\* (slip: the sessions, and with them their visits, are deleted first)
BugSnapshotLate(S) == {}

\* INSERT INTO logout_delivery SELECT ... FROM rp_session_client JOIN session:
\* it runs before the statement that deletes the sessions.
Snapshot(S) == Of(S, visits)

\* The token, visit and session statements of the batch, with their cascades.
EndSessions(q) ==
    /\ outbox' = outbox \cup Snapshot(Selected(q))
    /\ refresh' = refresh \ EndedTokens(q, refresh)
    /\ access' = access \ EndedTokens(q, access)
    /\ visits' = visits \ Of(Selected(q), visits)
    /\ session' = [s \in Sid |-> IF s \in Selected(q) THEN Nobody ELSE session[s]]
    /\ revoked' = revoked \cup Selected(q)

-------------------------------------------------------------------------------
(* Opening a session                                                       *)

\* assertSessionUserActive, before the library inserts the row.
SignInCheck(r, u) ==
    /\ request[r].at = "idle"
    /\ status[u] = "active"
    /\ request' = [request EXCEPT ![r] =
                     Pending("insert", "signin", u, Nobody, Nobody, Nobody, "active")]
    /\ UNCHANGED <<accounts, session, expired, owner, tokens, flow, notices>>

\* The insert; it fails only if the user row is gone.
SignInInsert(r, s) ==
    /\ request[r].at = "insert"
    /\ owner[s] = Nobody
    /\ AccountExists(request[r].user)
    /\ session' = [session EXCEPT ![s] = request[r].user]
    /\ owner' = [owner EXCEPT ![s] = request[r].user]
    /\ request' = [request EXCEPT ![r] = Request0]
    /\ UNCHANGED <<accounts, expired, tokens, flow, notices>>

\* expiresAt passes.
Expire(s) ==
    /\ Live(s)
    /\ expired' = expired \cup {s}
    /\ UNCHANGED <<accounts, session, owner, tokens, request, flow, notices>>

\* The library deletes the row of an expired session when it meets it. Visits
\* go with it (CASCADE); tokens only lose their sessionId (SET NULL), which is to
\* say that the session they name here has no row any more.
Lapse(s) ==
    /\ session[s] # Nobody
    /\ s \in expired
    /\ session' = [session EXCEPT ![s] = Nobody]
    /\ visits' = visits \ Of({s}, visits)
    /\ UNCHANGED <<accounts, expired, owner, code, refresh, access, served, request,
                   flow, notices>>

-------------------------------------------------------------------------------
(* The token endpoint                                                      *)

\* A consent for a session that was live when /oauth2/authorize read it.
Authorize(s, c) ==
    /\ s \in Minted
    /\ code' = code \cup {<<s, c>>}
    /\ UNCHANGED <<accounts, session, expired, owner, refresh, access, visits,
                   served, request, flow, notices>>

\* Code exchange: the code is used up, then the session must be live.
ExchangeCheck(f, s, c) ==
    /\ flow[f].at = "idle"
    /\ <<s, c>> \in code
    /\ code' = code \ {<<s, c>>}
    /\ flow' = IF Live(s)
               THEN [flow EXCEPT ![f] = [at |-> "refresh", visit |-> <<s, c>>]]
               ELSE flow
    /\ UNCHANGED <<accounts, session, expired, owner, refresh, access, visits,
                   served, request, notices>>

\* Refresh grant: the token is not revoked and its session is live.
RefreshCheck(f, s, c) ==
    /\ flow[f].at = "idle"
    /\ <<s, c>> \in refresh
    /\ Live(s)
    /\ flow' = [flow EXCEPT ![f] = [at |-> "refresh", visit |-> <<s, c>>]]
    /\ UNCHANGED <<accounts, session, expired, owner, tokens, request, notices>>

\* createUserTokens inserts the refresh token (if offline_access was granted).
IssueRefresh(f) ==
    LET v == flow[f].visit
    IN  /\ flow[f].at = "refresh"
        /\ IF ForeignKey(v)
           THEN /\ refresh' \in {refresh, refresh \cup {v}}
                /\ flow' = [flow EXCEPT ![f].at = "access"]
           ELSE /\ flow' = [flow EXCEPT ![f] = Flow0]
                /\ UNCHANGED refresh
        /\ UNCHANGED <<accounts, session, expired, owner, code, access, visits,
                       served, request, notices>>

\* (slip: no trigger, the visit is recorded when the session is next seen)
BugNoTrigger(v) == {}

\* Trigger oauth_access_token_record_rp_visit: for a row with a session.
Recorded(v) == {w \in {v} : session[w[1]] # Nobody}

\* ... and the access token. The trigger records the visit in the same
\* transaction, and the client gets its answer.
IssueAccess(f) ==
    LET v == flow[f].visit
    IN  /\ flow[f].at = "access"
        /\ IF ForeignKey(v)
           THEN /\ access' = access \cup {v}
                /\ visits' = visits \cup Recorded(v)
                /\ served' = served \cup {v}
           ELSE UNCHANGED <<access, visits, served>>
        /\ flow' = [flow EXCEPT ![f] = Flow0]
        /\ UNCHANGED <<accounts, session, expired, owner, code, refresh, request,
                       notices>>

\* The request dies between its statements.
FlowAbort(f) ==
    /\ flow[f].at # "idle"
    /\ flow' = [flow EXCEPT ![f] = Flow0]
    /\ UNCHANGED <<accounts, session, expired, owner, tokens, request, notices>>

-------------------------------------------------------------------------------
(* Ending sessions: the read                                               *)

Reading(r, q) ==
    /\ request[r].at = "idle"
    /\ request' = [request EXCEPT ![r] = q]
    /\ UNCHANGED <<accounts, session, expired, owner, tokens, flow, notices>>

\* /revoke-session, /revoke-other-sessions, /revoke-sessions and /sign-out. A
\* token that is not one of the user's sessions selects nothing.
SelfRead(r, a, kind, t) ==
    /\ Live(a)
    /\ IF kind = "one" THEN t \in Sid /\ session[t] = session[a] ELSE t = Nobody
    /\ Reading(r, Pending("commit", kind, session[a], session[a], a, t, "active"))

\* /oauth2/end-session: the ID token names the session.
RpLogoutRead(r, t) ==
    /\ session[t] # Nobody
    /\ Reading(r, Pending("commit", "rp_logout", session[t], Nobody, Nobody, t, "active"))

\* fetchTarget finds the row.
TargetExists(u) == status[u] # "deleted"

\* requireAdminPermission and fetchTarget. Nobody manages himself, and a
\* transition to the present status is refused.
AdminRead(r, a, u, kind) ==
    /\ Live(a)
    /\ session[a] \in Admin /\ status[session[a]] = "active"
    /\ u # session[a] /\ TargetExists(u)
    /\ kind = "suspend" => status[u] = "active"
    /\ kind = "reactivate" => status[u] = "suspended"
    /\ Reading(r, Pending("commit", kind, u, session[a], a, Nobody, status[u]))

\* loadAccountDeleteSnapshot.
LeaveRead(r, a) ==
    /\ Live(a)
    /\ Reading(r, Pending("commit", "leave", session[a], session[a], a, Nobody,
                          status[session[a]]))

-------------------------------------------------------------------------------
(* Ending sessions: the batch                                              *)

Commit(r) ==
    LET q == request[r]
    IN  /\ q.at = "commit"
        /\ Eligible(q)
        /\ IF Ending(q)
           THEN EndSessions(q)
           ELSE UNCHANGED <<outbox, refresh, access, visits, session, revoked>>
        /\ status' = [status EXCEPT ![q.user] = StatusAfter(q)]
        /\ left' = IF q.kind = "leave" THEN left \cup {q.user} ELSE left
        /\ request' = [request EXCEPT ![r] = Request0]
        \* an administrator's deletion also purges the codes that are left
        /\ code' = IF q.kind = "delete" THEN code \ OfUser(q.user, code) ELSE code
        /\ UNCHANGED <<expired, owner, served, flow>>

\* The batch finds its guard false and changes nothing, or the request dies.
GiveUp(r) ==
    /\ request[r].at # "idle"
    /\ request' = [request EXCEPT ![r] = Request0]
    /\ UNCHANGED <<accounts, session, expired, owner, tokens, flow, notices>>

-------------------------------------------------------------------------------
Next ==
    \/ \E r \in Request, u \in User : SignInCheck(r, u)
    \/ \E r \in Request, s \in Sid :
         \/ SignInInsert(r, s) \/ RpLogoutRead(r, s) \/ LeaveRead(r, s)
    \/ \E r \in Request, a \in Sid, t \in Sid \cup {Nobody}, kind \in SelfKinds :
         SelfRead(r, a, kind, t)
    \/ \E r \in Request, a \in Sid, u \in User, kind \in AdminKinds :
         AdminRead(r, a, u, kind)
    \/ \E r \in Request : Commit(r) \/ GiveUp(r)
    \/ \E s \in Sid : Expire(s) \/ Lapse(s)
    \/ \E s \in Sid, c \in Client : Authorize(s, c)
    \/ \E f \in Flow, s \in Sid, c \in Client :
         ExchangeCheck(f, s, c) \/ RefreshCheck(f, s, c)
    \/ \E f \in Flow : IssueRefresh(f) \/ IssueAccess(f) \/ FlowAbort(f)

Spec == Init /\ [][Next]_vars

-------------------------------------------------------------------------------
(* Safety                                                                  *)

\* Every relying party that ever got a token under a session is told when the
\* session is revoked, although the token request and the revocation race.
VisitedAreNotified == \A v \in served : v[1] \in revoked => v \in outbox

\* ... and only they: ending one device's session tells nobody about another
\* session, and no notice names a session that still has a row.
OnlyRevokedAreNotified ==
    \A v \in outbox : v[1] \in revoked /\ session[v[1]] = Nobody /\ v \in served

\* Revocation and notices agree in both directions.
NoticesAreExact == VisitedAreNotified /\ OnlyRevokedAreNotified

RevokedHasNoToken == \A v \in refresh \cup access : v[1] \notin revoked

DeletedHasNoToken ==
    \A u \in User : status[u] = "deleted" => \A v \in refresh \cup access : owner[v[1]] # u

\* A revocation leaves no token of the sessions it ends, even if the insertion of
\* one was already under way when it committed; and an account that is gone has
\* no token at all, those of sessions that had lapsed before included. (A token
\* does outlive a session that merely lapses, until its own expiry.)
NoTokenOutlivesRevocation == RevokedHasNoToken /\ DeletedHasNoToken

\* An account that is gone has no session left, and none can be opened by a
\* sign-in that had passed its check before.
DeletedHasNoSession ==
    \A u \in User : status[u] = "deleted" => \A s \in Sid : session[s] # u

\* Administrators cannot lock each other out: of two who suspend or delete one
\* another at the same time the second finds the guard of its batch false. Some
\* administrator stays active, unless one has deleted the own account.
AnAdminRemains ==
    Admin # {} /\ left \cap Admin = {} => \E a \in Admin : status[a] = "active"

\* Documentation: a suspended user has no session (see the findings).
SuspendedHasNoSession ==
    \A u \in User : status[u] = "suspended" => \A s \in Sid : session[s] # u

\* The session s, which may have lapsed, is in the scope of the batch that r commits.
InScope(r, s) ==
    /\ request[r].at = "commit" /\ request'[r].at = "idle"
    /\ request[r].user = owner[s]
    /\ request[r].kind \in {"one", "rp_logout"} => request[r].target = s
    /\ request[r].kind = "others" => request[r].actor # s

EndsOnlyInScope ==
    \A s \in Sid : session[s] # Nobody /\ session'[s] = Nobody =>
        s \in expired \/ \E r \in Request : InScope(r, s)

TokensEndOnlyInScope ==
    \A v \in (access \ access') \cup (refresh \ refresh') :
        \E r \in Request : InScope(r, v[1])

\* A session ends only by expiry or by a batch whose scope it is in, and a token
\* only by such a batch: revoking one device leaves the other devices and their
\* tokens alone, and "revoke the others" never ends the session that asked for it.
OtherSessionsUntouched == [][EndsOnlyInScope /\ TokensEndOnlyInScope]_vars
===============================================================================
