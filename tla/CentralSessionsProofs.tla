------------------------ MODULE CentralSessionsProofs ------------------------
(***************************************************************************)
(* What CentralSessions guarantees for every set of users, administrators, *)
(* sessions, clients and concurrent requests.                              *)
(***************************************************************************)
EXTENDS CentralSessions, TLAPS

\* A session row is as it was inserted and is not revoked; a revoked session id
\* never gets a row again.
RowsAreMinted ==
    \A s \in Sid : session[s] # Nobody => owner[s] = session[s] /\ s \notin revoked

\* The visits are those of the sessions with a row to which tokens were issued.
VisitsAreLive == \A v \in visits : v \in served /\ session[v[1]] # Nobody
ServedAreVisits ==
    \A v \in served : v[1] \in Minted /\ (session[v[1]] # Nobody => v \in visits)

\* What makes VisitedAreNotified inductive: as long as the session has its row the
\* visit is there, so that the batch that ends the session finds it.
SessionInv ==
    /\ RowsAreMinted
    /\ VisitsAreLive
    /\ ServedAreVisits
    /\ VisitedAreNotified
    /\ OnlyRevokedAreNotified
    /\ RevokedHasNoToken

\* What a pending administrator's batch remembers of its author.
AdminsManageOthers ==
    \A r \in Request : request[r].at = "commit" /\ request[r].kind \in AdminKinds
                       => request[r].by \in Admin /\ request[r].user # request[r].by

AdminInv == AdminsManageOthers /\ AnAdminRemains

IInv == TypeOK /\ SessionInv /\ DeletedHasNoSession /\ DeletedHasNoToken /\ AdminInv

-------------------------------------------------------------------------------
(* The parts of the invariant                                              *)

RequestRec == [at : {"idle", "insert", "commit"}, kind : Kinds,
               user : User \cup {Nobody}, by : User \cup {Nobody},
               actor : Sid \cup {Nobody}, target : Sid \cup {Nobody},
               was : {"active", "suspended"}]

\* A pair of a session and a client.
LEMMA VisitFirst == ASSUME NEW v \in Visit PROVE v[1] \in Sid
  BY DEF Visit

\* The sessions of a batch have a row and belong to its user.
LEMMA SelectedRows ==
    ASSUME TypeOK, NEW q \in RequestRec, q.user # Nobody
    PROVE  /\ Selected(q) \in SUBSET Sid
           /\ \A s \in Selected(q) : session[s] # Nobody /\ session[s] = q.user
  BY DEF Selected

\* The batch that ends sessions that have a row keeps SessionInv: it moves exactly
\* their visits to the outbox.
LEMMA EndKeeps ==
    ASSUME TypeOK, SessionInv, NEW q \in RequestRec, q.user # Nobody,
           EndSessions(q), UNCHANGED <<owner, served>>
    PROVE  SessionInv'
  <1> DEFINE E == Selected(q)
  <1>0. /\ E \in SUBSET Sid /\ \A s \in E : session[s] # Nobody
        /\ \A s \in E : owner[s] = q.user
    BY SelectedRows DEF SessionInv, RowsAreMinted
  <1>1. /\ session' = [s \in Sid |-> IF s \in E THEN Nobody ELSE session[s]]
        /\ revoked' = revoked \cup E
        /\ outbox' = outbox \cup {v \in visits : v[1] \in E}
        /\ visits' = visits \ {v \in visits : v[1] \in E}
        /\ refresh' \subseteq refresh /\ access' \subseteq access
    BY DEF EndSessions, Snapshot, Of
  <1>t. \A v \in refresh' \cup access' : v[1] \notin E
    BY <1>0 DEF EndSessions, EndedTokens, Of, OfUser
  <1> HIDE DEF E
  <1>2. /\ visits \subseteq Visit /\ served \subseteq Visit /\ outbox \subseteq Visit
        /\ refresh \subseteq Visit /\ access \subseteq Visit
    BY DEF TypeOK
  <1>3. RowsAreMinted'
    BY <1>0, <1>1 DEF SessionInv, RowsAreMinted
  <1>4. VisitsAreLive'
    BY <1>0, <1>1, <1>2, VisitFirst DEF SessionInv, VisitsAreLive
  <1>5. ServedAreVisits'
    BY <1>0, <1>1, <1>2, VisitFirst DEF SessionInv, ServedAreVisits, Minted
  <1>6. VisitedAreNotified'
    <2> SUFFICES ASSUME NEW v \in served, v[1] \in revoked' PROVE v \in outbox'
      BY DEF VisitedAreNotified
    <2>1. CASE v[1] \in revoked
      BY <1>1, <2>1 DEF SessionInv, VisitedAreNotified
    <2>2. CASE v[1] \in E
      BY <1>0, <1>1, <2>2 DEF SessionInv, ServedAreVisits
    <2>3. QED
      BY <1>1, <2>1, <2>2
  <1>7. OnlyRevokedAreNotified'
    BY <1>1, <1>2, VisitFirst DEF SessionInv, OnlyRevokedAreNotified, VisitsAreLive
  <1>8. RevokedHasNoToken'
    BY <1>1, <1>t DEF SessionInv, RevokedHasNoToken
  <1>9. QED
    BY <1>3, <1>4, <1>5, <1>6, <1>7, <1>8 DEF SessionInv

\* The fields of what a request remembers.
LEMMA PendingFields ==
    ASSUME NEW at \in {"idle", "insert", "commit"}, NEW kind \in Kinds,
           NEW user \in User \cup {Nobody}, NEW by \in User \cup {Nobody},
           NEW actor \in Sid \cup {Nobody}, NEW target \in Sid \cup {Nobody},
           NEW was \in {"active", "suspended"}
    PROVE  Pending(at, kind, user, by, actor, target, was) \in RequestRec
  BY DEF Pending, RequestRec

\* A step that changes one request only.
Remembers(r, q) ==
    /\ request' = [request EXCEPT ![r] = q]
    /\ UNCHANGED <<status, left, session, expired, owner, code, refresh, access,
                   visits, served, flow, outbox, revoked>>

\* Such a step keeps the invariant if what is remembered is sound.
LEMMA RequestKeeps ==
    ASSUME IInv, NEW r \in Request, NEW q \in RequestRec, Remembers(r, q),
           q.at # "idle" => q.user # Nobody,
           q.at = "commit" /\ q.kind \in AdminKinds => q.by \in Admin /\ q.user # q.by
    PROVE  IInv'
  <1>1. /\ request' = [request EXCEPT ![r] = q]
        /\ UNCHANGED <<status, left, session, expired, owner, code, refresh, access,
                       visits, served, flow, outbox, revoked>>
    BY DEF Remembers
  <1>2. request \in [Request -> RequestRec]
    BY DEF IInv, TypeOK, RequestRec
  <1>3. \A p \in Request : request'[p] = IF p = r THEN q ELSE request[p]
    BY <1>1, <1>2
  <1>4. request' \in [Request -> RequestRec]
    BY <1>1, <1>2
  <1>5. TypeOK'
    BY <1>1, <1>3, <1>4 DEF IInv, TypeOK, Minted, RequestRec
  <1>6. SessionInv' /\ DeletedHasNoSession' /\ DeletedHasNoToken' /\ AnAdminRemains'
    BY <1>1 DEF IInv, SessionInv, RowsAreMinted, VisitsAreLive, ServedAreVisits,
       Minted, VisitedAreNotified, OnlyRevokedAreNotified, RevokedHasNoToken,
       DeletedHasNoSession, DeletedHasNoToken, AdminInv, AnAdminRemains
  <1>7. AdminsManageOthers'
    BY <1>3 DEF IInv, AdminInv, AdminsManageOthers
  <1>8. QED
    BY <1>5, <1>6, <1>7 DEF IInv, AdminInv

\* A step that leaves requests, users and administrators alone.
LEMMA AdminFrame ==
    ASSUME AdminInv, UNCHANGED <<request, status, left>>
    PROVE  AdminInv'
  BY DEF AdminInv, AdminsManageOthers, AnAdminRemains

\* The fields of a pending record.
LEMMA PendingIs ==
    ASSUME NEW at, NEW kind, NEW user, NEW by, NEW actor, NEW target, NEW was
    PROVE  LET q == Pending(at, kind, user, by, actor, target, was)
           IN  q.at = at /\ q.kind = kind /\ q.user = user /\ q.by = by
  BY DEF Pending

-------------------------------------------------------------------------------
(* The reads                                                               *)

LEMMA KindsOf ==
    /\ SelfKinds \subseteq Kinds /\ AdminKinds \subseteq Kinds
    /\ {"signin", "rp_logout", "leave"} \subseteq Kinds
    /\ \A k \in SelfKinds \cup {"signin", "rp_logout", "leave"} : k \notin AdminKinds
  BY DEF Kinds, SelfKinds, AdminKinds

\* A live session belongs to a user whose account exists.
LEMMA LiveUser ==
    ASSUME IInv, NEW s, Live(s)
    PROVE  /\ s \in Sid /\ session[s] \in User /\ session[s] # Nobody
           /\ status[session[s]] \in {"active", "suspended"}
  BY DEF IInv, Live, TypeOK, DeletedHasNoSession

LEMMA SignInCheckStep ==
    ASSUME IInv, NEW r \in Request, NEW u \in User, SignInCheck(r, u) PROVE IInv'
  <1> DEFINE q == Pending("insert", "signin", u, Nobody, Nobody, Nobody, "active")
  <1>1. q \in RequestRec
    BY PendingFields, KindsOf
  <1>2. q.at = "insert" /\ q.user # Nobody
    BY NobodyAssumption DEF Pending
  <1>3. Remembers(r, q)
    BY DEF SignInCheck, Remembers, accounts, tokens, notices
  <1> HIDE DEF q
  <1>4. QED
    BY <1>1, <1>2, <1>3, RequestKeeps

LEMMA GiveUpStep ==
    ASSUME IInv, NEW r \in Request, GiveUp(r) PROVE IInv'
  <1>1. Request0 \in RequestRec
    BY PendingFields, KindsOf DEF Request0
  <1>2. Request0.at = "idle"
    BY DEF Request0, Pending
  <1>3. Remembers(r, Request0)
    BY DEF GiveUp, Remembers, accounts, tokens, notices
  <1>4. QED
    BY <1>1, <1>2, <1>3, RequestKeeps

LEMMA SelfReadStep ==
    ASSUME IInv, NEW r \in Request, NEW a \in Sid, NEW t \in Sid \cup {Nobody},
           NEW kind \in SelfKinds, SelfRead(r, a, kind, t)
    PROVE  IInv'
  <1> DEFINE q == Pending("commit", kind, session[a], session[a], a, t, "active")
  <1>1. session[a] \in User /\ session[a] # Nobody
    BY LiveUser DEF SelfRead
  <1>2. q \in RequestRec
    BY <1>1, PendingFields, KindsOf
  <1>3. q.kind \notin AdminKinds /\ q.user # Nobody
    BY <1>1, KindsOf DEF Pending
  <1>4. Remembers(r, q)
    BY DEF SelfRead, Reading, Remembers, accounts, tokens, notices
  <1> HIDE DEF q
  <1>5. QED
    BY <1>2, <1>3, <1>4, RequestKeeps

LEMMA RpLogoutReadStep ==
    ASSUME IInv, NEW r \in Request, NEW t \in Sid, RpLogoutRead(r, t) PROVE IInv'
  <1> DEFINE q == Pending("commit", "rp_logout", session[t], Nobody, Nobody, t, "active")
  <1>1. session[t] \in User /\ session[t] # Nobody
    BY DEF RpLogoutRead, IInv, TypeOK
  <1>2. q \in RequestRec
    BY <1>1, PendingFields, KindsOf
  <1>3. q.kind \notin AdminKinds /\ q.user # Nobody
    BY <1>1, KindsOf DEF Pending
  <1>4. Remembers(r, q)
    BY DEF RpLogoutRead, Reading, Remembers, accounts, tokens, notices
  <1> HIDE DEF q
  <1>5. QED
    BY <1>2, <1>3, <1>4, RequestKeeps

LEMMA AdminReadStep ==
    ASSUME IInv, NEW r \in Request, NEW a \in Sid, NEW u \in User,
           NEW kind \in AdminKinds, AdminRead(r, a, u, kind)
    PROVE  IInv'
  <1> DEFINE q == Pending("commit", kind, u, session[a], a, Nobody, status[u])
  <1>1. session[a] \in User /\ session[a] \in Admin /\ u # session[a] /\ u # Nobody
    BY LiveUser, NobodyAssumption DEF AdminRead
  <1>2. status[u] \in {"active", "suspended"}
    BY DEF AdminRead, TargetExists, IInv, TypeOK
  <1>3. q \in RequestRec
    BY <1>1, <1>2, PendingFields, KindsOf
  <1>4. q.by \in Admin /\ q.user # q.by /\ q.user # Nobody
    BY <1>1 DEF Pending
  <1>5. Remembers(r, q)
    BY DEF AdminRead, Reading, Remembers, accounts, tokens, notices
  <1> HIDE DEF q
  <1>6. QED
    BY <1>3, <1>4, <1>5, RequestKeeps

LEMMA LeaveReadStep ==
    ASSUME IInv, NEW r \in Request, NEW a \in Sid, LeaveRead(r, a) PROVE IInv'
  <1> DEFINE q == Pending("commit", "leave", session[a], session[a], a, Nobody,
                          status[session[a]])
  <1>1. /\ session[a] \in User /\ session[a] # Nobody
        /\ status[session[a]] \in {"active", "suspended"}
    BY LiveUser DEF LeaveRead
  <1>2. q \in RequestRec
    BY <1>1, PendingFields, KindsOf
  <1>3. q.kind \notin AdminKinds /\ q.user # Nobody
    BY <1>1, KindsOf DEF Pending
  <1>4. Remembers(r, q)
    BY DEF LeaveRead, Reading, Remembers, accounts, tokens, notices
  <1> HIDE DEF q
  <1>5. QED
    BY <1>2, <1>3, <1>4, RequestKeeps

-------------------------------------------------------------------------------
(* Sessions                                                                *)

\* A new session has a fresh id: nothing that is recorded names it.
LEMMA SignInInsertStep ==
    ASSUME IInv, NEW r \in Request, NEW s \in Sid, SignInInsert(r, s) PROVE IInv'
  <1> DEFINE u == request[r].user
  <1>1. /\ u \in User /\ owner[s] = Nobody /\ status[u] # "deleted"
        /\ session' = [session EXCEPT ![s] = u] /\ owner' = [owner EXCEPT ![s] = u]
        /\ request' = [request EXCEPT ![r] = Request0]
        /\ UNCHANGED <<status, left, expired, code, refresh, access, visits, served,
                       flow, outbox, revoked>>
    BY DEF SignInInsert, IInv, TypeOK, AccountExists, accounts, tokens, notices
  <1>2. session[s] = Nobody
    BY <1>1 DEF IInv, SessionInv, RowsAreMinted
  <1>3. \A t \in Sid : session'[t] = IF t = s THEN u ELSE session[t]
    BY <1>1 DEF IInv, TypeOK
  <1>o. /\ owner' \in [Sid -> User \cup {Nobody}]
        /\ \A t \in Sid : owner'[t] = IF t = s THEN u ELSE owner[t]
        /\ Minted \subseteq Minted' /\ s \in Minted' /\ s \notin Minted
    BY <1>1, NobodyAssumption DEF IInv, TypeOK, Minted
  <1>4. Request0 \in RequestRec /\ Request0.at = "idle"
    BY PendingFields, KindsOf DEF Request0, Pending
  <1>5. /\ request' \in [Request -> RequestRec]
        /\ \A p \in Request : request'[p] = IF p = r THEN Request0 ELSE request[p]
    BY <1>1, <1>4 DEF IInv, TypeOK, RequestRec
  <1>6. /\ visits \subseteq Visit /\ served \subseteq Visit /\ outbox \subseteq Visit
        /\ refresh \subseteq Visit /\ access \subseteq Visit /\ revoked \subseteq Minted
    BY DEF IInv, TypeOK
  <1> HIDE DEF u
  <1>7. TypeOK'
    BY <1>1, <1>o, <1>4, <1>5 DEF IInv, TypeOK, RequestRec
  <1>8. RowsAreMinted'
    BY <1>1, <1>3, <1>o, <1>6 DEF IInv, SessionInv, RowsAreMinted
  <1>9. VisitsAreLive'
    BY <1>1, <1>2, <1>3, <1>6, VisitFirst DEF IInv, SessionInv, VisitsAreLive
  <1>10. ServedAreVisits'
    BY <1>1, <1>3, <1>o, <1>6, VisitFirst DEF IInv, SessionInv, ServedAreVisits
  <1>11. VisitedAreNotified'
    BY <1>1 DEF IInv, SessionInv, VisitedAreNotified
  <1>12. OnlyRevokedAreNotified'
    BY <1>1, <1>3, <1>o, <1>6, VisitFirst DEF IInv, SessionInv, OnlyRevokedAreNotified
  <1>13. RevokedHasNoToken' /\ DeletedHasNoToken'
    BY <1>1, <1>o, <1>6, VisitFirst
    DEF IInv, SessionInv, RevokedHasNoToken, DeletedHasNoToken
  <1>14. DeletedHasNoSession'
    BY <1>1, <1>3 DEF IInv, DeletedHasNoSession
  <1>15. AdminInv'
    BY <1>1, <1>4, <1>5 DEF IInv, AdminInv, AdminsManageOthers, AnAdminRemains
  <1>16. QED
    BY <1>7, <1>8, <1>9, <1>10, <1>11, <1>12, <1>13, <1>14, <1>15 DEF IInv, SessionInv

LEMMA ExpireStep ==
    ASSUME IInv, NEW s \in Sid, Expire(s) PROVE IInv'
  <1>1. /\ session[s] # Nobody /\ expired' = expired \cup {s}
        /\ UNCHANGED <<status, left, session, owner, code, refresh, access, visits,
                       served, request, flow, outbox, revoked>>
    BY DEF Expire, Live, accounts, tokens, notices
  <1>2. s \in Minted
    BY <1>1 DEF IInv, SessionInv, RowsAreMinted, Minted
  <1>3. TypeOK'
    BY <1>1, <1>2 DEF IInv, TypeOK, Minted
  <1>4. SessionInv' /\ DeletedHasNoSession' /\ DeletedHasNoToken'
    BY <1>1 DEF IInv, SessionInv, RowsAreMinted, VisitsAreLive, ServedAreVisits,
       Minted, VisitedAreNotified, OnlyRevokedAreNotified, RevokedHasNoToken,
       DeletedHasNoSession, DeletedHasNoToken
  <1>5. AdminInv'
    BY <1>1, AdminFrame DEF IInv
  <1>6. QED
    BY <1>3, <1>4, <1>5 DEF IInv

\* A session that lapses takes its visits with it, leaves its tokens and notifies
\* nobody.
LEMMA LapseStep ==
    ASSUME IInv, NEW s \in Sid, Lapse(s) PROVE IInv'
  <1>1. /\ session' = [session EXCEPT ![s] = Nobody]
        /\ visits' = visits \ {v \in visits : v[1] = s}
        /\ UNCHANGED <<status, left, expired, owner, code, refresh, access, served,
                       request, flow, outbox, revoked>>
    BY DEF Lapse, Of, accounts, notices
  <1>2. \A t \in Sid : session'[t] = IF t = s THEN Nobody ELSE session[t]
    BY <1>1 DEF IInv, TypeOK
  <1>3. /\ visits \subseteq Visit /\ served \subseteq Visit /\ outbox \subseteq Visit
        /\ refresh \subseteq Visit /\ access \subseteq Visit
    BY DEF IInv, TypeOK
  <1>4. TypeOK'
    BY <1>1 DEF IInv, TypeOK, Minted
  <1>5. RowsAreMinted'
    BY <1>1, <1>2 DEF IInv, SessionInv, RowsAreMinted
  <1>6. VisitsAreLive' /\ ServedAreVisits'
    BY <1>1, <1>2, <1>3, VisitFirst
    DEF IInv, SessionInv, VisitsAreLive, ServedAreVisits, Minted
  <1>7. VisitedAreNotified'
    BY <1>1 DEF IInv, SessionInv, VisitedAreNotified
  <1>8. OnlyRevokedAreNotified' /\ RevokedHasNoToken'
    BY <1>1, <1>2, <1>3, VisitFirst
    DEF IInv, SessionInv, OnlyRevokedAreNotified, RevokedHasNoToken
  <1>9. DeletedHasNoSession' /\ DeletedHasNoToken'
    BY <1>1, <1>2, NobodyAssumption DEF IInv, DeletedHasNoSession, DeletedHasNoToken
  <1>10. AdminInv'
    BY <1>1, AdminFrame DEF IInv
  <1>11. QED
    BY <1>4, <1>5, <1>6, <1>7, <1>8, <1>9, <1>10 DEF IInv, SessionInv

-------------------------------------------------------------------------------
(* The token endpoint                                                      *)

\* A step that changes codes and token requests only.
LEMMA CodeFrame ==
    ASSUME IInv, TypeOK',
           UNCHANGED <<status, left, session, expired, owner, refresh, access,
                       visits, served, request, outbox, revoked>>
    PROVE  IInv'
  <1>1. SessionInv' /\ DeletedHasNoSession' /\ DeletedHasNoToken'
    BY DEF IInv, SessionInv, RowsAreMinted, VisitsAreLive, ServedAreVisits,
       Minted, VisitedAreNotified, OnlyRevokedAreNotified, RevokedHasNoToken,
       DeletedHasNoSession, DeletedHasNoToken
  <1>2. AdminInv'
    BY AdminFrame DEF IInv
  <1>3. QED
    BY <1>1, <1>2 DEF IInv

LEMMA AuthorizeStep ==
    ASSUME IInv, NEW s \in Sid, NEW c \in Client, Authorize(s, c) PROVE IInv'
  <1>1. TypeOK'
    BY DEF Authorize, accounts, notices, IInv, TypeOK, Visit, Minted
  <1>2. QED
    BY <1>1, CodeFrame DEF Authorize, accounts, notices

LEMMA ExchangeCheckStep ==
    ASSUME IInv, NEW f \in Flow, NEW s \in Sid, NEW c \in Client, ExchangeCheck(f, s, c)
    PROVE  IInv'
  <1>1. TypeOK'
    BY DEF ExchangeCheck, accounts, notices, IInv, TypeOK, Visit, Minted
  <1>2. QED
    BY <1>1, CodeFrame DEF ExchangeCheck, accounts, notices

LEMMA RefreshCheckStep ==
    ASSUME IInv, NEW f \in Flow, NEW s \in Sid, NEW c \in Client, RefreshCheck(f, s, c)
    PROVE  IInv'
  <1>1. TypeOK'
    BY DEF RefreshCheck, accounts, tokens, notices, IInv, TypeOK, Visit, Minted
  <1>2. QED
    BY <1>1, CodeFrame DEF RefreshCheck, accounts, tokens, notices

LEMMA FlowAbortStep ==
    ASSUME IInv, NEW f \in Flow, FlowAbort(f) PROVE IInv'
  <1>1. TypeOK'
    BY DEF FlowAbort, Flow0, accounts, tokens, notices, IInv, TypeOK, Minted
  <1>2. QED
    BY <1>1, CodeFrame DEF FlowAbort, accounts, tokens, notices

\* A refresh token is inserted only while its session has a row.
LEMMA IssueRefreshStep ==
    ASSUME IInv, NEW f \in Flow, IssueRefresh(f) PROVE IInv'
  <1> DEFINE v == flow[f].visit
  <1>1. /\ v \in Visit
        /\ UNCHANGED <<status, left, session, expired, owner, code, access, visits,
                       served, request, outbox, revoked>>
    BY DEF IssueRefresh, accounts, notices, IInv, TypeOK
  <1>2. \A w \in refresh' : w \in refresh \/ (w = v /\ session[v[1]] # Nobody)
    BY DEF IssueRefresh, ForeignKey
  <1>3. TypeOK'
    <2>1. refresh' \subseteq Visit
      BY <1>1, <1>2 DEF IInv, TypeOK
    <2>2. CASE flow' = [flow EXCEPT ![f].at = "access"]
      BY <1>1, <2>1, <2>2 DEF IInv, TypeOK, Minted
    <2>3. CASE flow' = [flow EXCEPT ![f] = Flow0]
      BY <1>1, <2>1, <2>3 DEF IInv, TypeOK, Minted, Flow0
    <2>4. QED
      BY <2>2, <2>3 DEF IssueRefresh
  <1> HIDE DEF v
  <1>r. v[1] \in Sid
    BY <1>1, VisitFirst
  <1>4. RevokedHasNoToken' /\ DeletedHasNoToken'
    BY <1>1, <1>2, <1>r DEF IInv, SessionInv, RowsAreMinted, DeletedHasNoSession,
       RevokedHasNoToken, DeletedHasNoToken
  <1>5. SessionInv' /\ DeletedHasNoSession'
    BY <1>1, <1>4 DEF IInv, SessionInv, RowsAreMinted, VisitsAreLive, ServedAreVisits,
       Minted, VisitedAreNotified, OnlyRevokedAreNotified, DeletedHasNoSession
  <1>6. AdminInv'
    BY <1>1, AdminFrame DEF IInv
  <1>7. QED
    BY <1>3, <1>4, <1>5, <1>6 DEF IInv

\* An access token is inserted together with the visit, while the session has a
\* row: the insert is before the revocation, which then sees the visit, or fails.
LEMMA IssueAccessStep ==
    ASSUME IInv, NEW f \in Flow, IssueAccess(f) PROVE IInv'
  <1> DEFINE v == flow[f].visit
  <1>1. /\ v \in Visit /\ flow' = [flow EXCEPT ![f] = Flow0]
        /\ UNCHANGED <<status, left, session, expired, owner, code, refresh,
                       request, outbox, revoked>>
    BY DEF IssueAccess, accounts, notices, IInv, TypeOK
  <1>2. \/ /\ session[v[1]] # Nobody
           /\ access' = access \cup {v}
           /\ visits' = visits \cup {v}
           /\ served' = served \cup {v}
        \/ UNCHANGED <<access, visits, served>>
    BY DEF IssueAccess, ForeignKey, Recorded
  <1> HIDE DEF v
  <1>3. TypeOK'
    BY <1>1, <1>2 DEF IInv, TypeOK, Minted, Flow0
  <1>4. v[1] \in Sid
    BY <1>1, VisitFirst
  <1>5. session[v[1]] # Nobody => v[1] \in Minted /\ v[1] \notin revoked
    BY <1>4 DEF IInv, SessionInv, RowsAreMinted, Minted
  <1>6. RowsAreMinted' /\ DeletedHasNoSession'
    BY <1>1 DEF IInv, SessionInv, RowsAreMinted, DeletedHasNoSession
  <1>7. VisitsAreLive'
    BY <1>1, <1>2 DEF IInv, SessionInv, VisitsAreLive
  <1>8. ServedAreVisits'
    BY <1>1, <1>2, <1>5 DEF IInv, SessionInv, ServedAreVisits, Minted
  <1>9. VisitedAreNotified'
    BY <1>1, <1>2, <1>5 DEF IInv, SessionInv, VisitedAreNotified
  <1>10. OnlyRevokedAreNotified' /\ RevokedHasNoToken'
    BY <1>1, <1>2, <1>5 DEF IInv, SessionInv, OnlyRevokedAreNotified, RevokedHasNoToken
  <1>d. DeletedHasNoToken'
    BY <1>1, <1>2, <1>4 DEF IInv, SessionInv, RowsAreMinted, DeletedHasNoSession,
       DeletedHasNoToken
  <1>11. AdminInv'
    BY <1>1, AdminFrame DEF IInv
  <1>12. QED
    BY <1>3, <1>6, <1>7, <1>8, <1>9, <1>10, <1>d, <1>11 DEF IInv, SessionInv

-------------------------------------------------------------------------------
(* The batch                                                               *)

\* What a request that is about to commit remembers.
LEMMA CommitRequest ==
    ASSUME IInv, NEW r \in Request, Commit(r)
    PROVE  /\ request[r] \in RequestRec
           /\ request[r].user \in User /\ request[r].user # Nobody
           /\ Eligible(request[r])
           /\ request[r].kind \in AdminKinds =>
                 request[r].by \in Admin /\ request[r].user # request[r].by
  <1>1. request[r] \in RequestRec
    BY DEF IInv, TypeOK, RequestRec
  <1>2. request[r].at = "commit" /\ Eligible(request[r])
    BY DEF Commit
  <1>3. request[r].user # Nobody
    BY <1>2 DEF IInv, TypeOK
  <1>4. request[r].user \in User
    BY <1>1, <1>3 DEF RequestRec
  <1>5. QED
    BY <1>1, <1>2, <1>3, <1>4 DEF IInv, AdminInv, AdminsManageOthers

\* The status that a batch leaves.
LEMMA StatusTyped ==
    ASSUME IInv, NEW q \in RequestRec, q.user \in User
    PROVE  StatusAfter(q) \in {"active", "suspended", "deleted"}
  BY DEF StatusAfter, IInv, TypeOK

LEMMA CommitType ==
    ASSUME IInv, NEW r \in Request, Commit(r) PROVE TypeOK'
  <1> DEFINE q == request[r]
  <1>1. q \in RequestRec /\ q.user \in User /\ q.user # Nobody
    BY CommitRequest
  <1>2. /\ Selected(q) \in SUBSET Sid
        /\ \A s \in Selected(q) : session[s] # Nobody
    BY <1>1, SelectedRows DEF IInv
  <1>3. /\ status' = [status EXCEPT ![q.user] = StatusAfter(q)]
        /\ left' = IF q.kind = "leave" THEN left \cup {q.user} ELSE left
        /\ request' = [request EXCEPT ![r] = Request0]
        /\ code' \subseteq code
        /\ UNCHANGED <<expired, owner, served, flow>>
    BY DEF Commit, OfUser
  <1>4. \/ EndSessions(q)
        \/ UNCHANGED <<outbox, refresh, access, visits, session, revoked>>
    BY DEF Commit
  <1>5. Selected(q) \subseteq Minted /\ Minted' = Minted
    BY <1>2, <1>3 DEF IInv, SessionInv, RowsAreMinted, Minted
  <1>6. Request0 \in RequestRec /\ Request0.at = "idle"
    BY PendingFields, KindsOf DEF Request0, Pending
  <1>7. StatusAfter(q) \in {"active", "suspended", "deleted"}
    BY <1>1, StatusTyped
  <1> HIDE DEF q
  <1>8. /\ session' \in [Sid -> User \cup {Nobody}]
        /\ revoked' \subseteq Minted
        /\ refresh' \subseteq Visit /\ access' \subseteq Visit
        /\ visits' \subseteq Visit /\ outbox' \subseteq Visit
    BY <1>2, <1>4, <1>5 DEF EndSessions, EndedTokens, Snapshot, Of, OfUser, IInv, TypeOK
  <1>9. /\ request' \in [Request -> RequestRec]
        /\ \A p \in Request : request'[p].at # "idle" => request'[p].user # Nobody
    BY <1>3, <1>6 DEF IInv, TypeOK, RequestRec
  <1>10. /\ status' \in [User -> {"active", "suspended", "deleted"}]
         /\ left' \subseteq User /\ code' \subseteq Visit
    BY <1>1, <1>3, <1>7 DEF IInv, TypeOK
  <1>11. QED
    BY <1>3, <1>5, <1>8, <1>9, <1>10 DEF IInv, TypeOK, RequestRec

LEMMA CommitSessions ==
    ASSUME IInv, NEW r \in Request, Commit(r) PROVE SessionInv'
  <1> DEFINE q == request[r]
  <1>1. q \in RequestRec /\ q.user # Nobody
    BY CommitRequest
  <1>2. UNCHANGED <<owner, served>>
    BY DEF Commit
  <1>3. CASE Ending(q)
    <2>1. EndSessions(q)
      BY <1>3 DEF Commit
    <2> HIDE DEF q
    <2>2. QED
      BY <1>1, <1>2, <2>1, EndKeeps DEF IInv
  <1>4. CASE ~Ending(q)
    <2>1. UNCHANGED <<outbox, refresh, access, visits, session, revoked>>
      BY <1>4 DEF Commit
    <2>2. QED
      BY <1>2, <2>1 DEF IInv, SessionInv, RowsAreMinted, VisitsAreLive, ServedAreVisits,
         Minted, VisitedAreNotified, OnlyRevokedAreNotified, RevokedHasNoToken
  <1>5. QED
    BY <1>3, <1>4

\* Only deletion and self-deletion remove a user row, and both end every session
\* and every token of the user in the same batch.
LEMMA CommitDeletes ==
    ASSUME IInv, NEW r \in Request, Commit(r)
    PROVE  DeletedHasNoSession' /\ DeletedHasNoToken'
  <1> DEFINE q == request[r]
  <1>1. q \in RequestRec /\ q.user \in User /\ q.user # Nobody
    BY CommitRequest
  <1>2. \A u \in User : status'[u] = IF u = q.user THEN StatusAfter(q) ELSE status[u]
    BY <1>1 DEF Commit, IInv, TypeOK
  <1>3. \A s \in Sid : session'[s] = session[s] \/ session'[s] = Nobody
    BY DEF Commit, EndSessions, IInv, TypeOK
  <1>4. ASSUME q.kind \in {"delete", "leave"}, NEW s \in Sid PROVE session'[s] # q.user
    <2>1. Ending(q) /\ Selected(q) = {t \in Sid : session[t] = q.user}
      BY <1>4 DEF Ending, Selected
    <2>2. session' = [t \in Sid |-> IF t \in Selected(q) THEN Nobody ELSE session[t]]
      BY <2>1 DEF Commit, EndSessions
    <2> HIDE DEF q
    <2>3. QED
      BY <1>1, <2>1, <2>2
  <1>5. q.kind \notin {"delete", "leave"} /\ status'[q.user] = "deleted"
        => status[q.user] = "deleted"
    BY <1>1, <1>2 DEF StatusAfter
  <1>6. ASSUME q.kind \in {"delete", "leave"}, NEW v \in refresh' \cup access'
        PROVE  owner[v[1]] # q.user
    <2>1. Ending(q) /\ UserWide(q)
      BY <1>6 DEF Ending, UserWide, AdminKinds
    <2>2. /\ refresh' = refresh \ {w \in refresh : owner[w[1]] = q.user}
          /\ access' = access \ {w \in access : owner[w[1]] = q.user}
      BY <2>1 DEF Commit, EndSessions, EndedTokens, OfUser
    <2> HIDE DEF q
    <2>3. QED
      BY <1>6, <2>2
  <1>7. refresh' \subseteq refresh /\ access' \subseteq access /\ owner' = owner
    BY DEF Commit, EndSessions
  <1> HIDE DEF q
  <1>8. DeletedHasNoSession'
    BY <1>1, <1>2, <1>3, <1>4, <1>5, NobodyAssumption DEF IInv, DeletedHasNoSession
  <1>9. DeletedHasNoToken'
    BY <1>1, <1>2, <1>5, <1>6, <1>7 DEF IInv, DeletedHasNoToken
  <1>10. QED
    BY <1>8, <1>9

\* An administrator's batch commits only while its author is active, and never
\* touches the author's own status.
LEMMA CommitAdmins ==
    ASSUME IInv, NEW r \in Request, Commit(r) PROVE AdminInv'
  <1> DEFINE q == request[r]
  <1>1. /\ q \in RequestRec /\ q.user \in User /\ Eligible(q)
        /\ q.kind \in AdminKinds => q.by \in Admin /\ q.user # q.by
    BY CommitRequest
  <1>2. \A u \in User : status'[u] = IF u = q.user THEN StatusAfter(q) ELSE status[u]
    BY <1>1 DEF Commit, IInv, TypeOK
  <1>3. /\ request' = [request EXCEPT ![r] = Request0]
        /\ left' = IF q.kind = "leave" THEN left \cup {q.user} ELSE left
    BY DEF Commit
  <1>4. AdminsManageOthers'
    <2>1. \A p \in Request : request'[p] = IF p = r THEN Request0 ELSE request[p]
      BY <1>3 DEF IInv, TypeOK
    <2>2. Request0.at = "idle"
      BY DEF Request0, Pending
    <2>3. QED
      BY <2>1, <2>2 DEF IInv, AdminInv, AdminsManageOthers
  <1> HIDE DEF q
  <1>5. AnAdminRemains'
    <2> SUFFICES ASSUME Admin # {}, left' \cap Admin = {}
                 PROVE \E a \in Admin : status'[a] = "active"
      BY DEF AnAdminRemains
    <2>1. left \cap Admin = {}
      BY <1>3
    <2>2. PICK a \in Admin : status[a] = "active"
      BY <2>1 DEF IInv, AdminInv, AnAdminRemains
    <2>3. CASE q.kind \in AdminKinds
      <3>1. q.by \in Admin /\ status[q.by] = "active" /\ q.user # q.by
        BY <1>1, <2>3 DEF Eligible, SelfEligible, RpEligible, AdminEligible,
           LeaveEligible, SelfKinds, AdminKinds
      <3>2. QED
        BY <1>2, <3>1, AdminAssumption
    <2>4. CASE q.kind = "leave"
      <3>1. q.user \notin Admin
        BY <1>3, <2>4
      <3>2. QED
        BY <1>2, <2>2, <3>1, AdminAssumption
    <2>5. CASE q.kind \notin AdminKinds /\ q.kind # "leave"
      <3>1. StatusAfter(q) = status[q.user]
        BY <2>5 DEF StatusAfter, AdminKinds
      <3>2. QED
        BY <1>2, <2>2, <3>1, AdminAssumption
    <2>6. QED
      BY <2>3, <2>4, <2>5
  <1>6. QED
    BY <1>4, <1>5 DEF AdminInv

-------------------------------------------------------------------------------
(* The invariant and what follows from it                                  *)

\* Every step keeps the inductive invariant.
LEMMA Step == IInv /\ [Next]_vars => IInv'
  <1> SUFFICES ASSUME IInv, [Next]_vars PROVE IInv'
    OBVIOUS
  <1>1. ASSUME NEW r \in Request, Commit(r) PROVE IInv'
    BY <1>1, CommitType, CommitSessions, CommitDeletes, CommitAdmins DEF IInv
  <1>2. CASE UNCHANGED vars
    <2>1. TypeOK'
      BY <1>2 DEF IInv, TypeOK, Minted, vars, accounts, tokens, notices
    <2>2. QED
      BY <1>2, <2>1, CodeFrame DEF vars, accounts, tokens, notices
  <1>3. QED
    BY <1>1, <1>2, SignInCheckStep, SignInInsertStep, RpLogoutReadStep, LeaveReadStep,
       SelfReadStep, AdminReadStep, GiveUpStep, ExpireStep, LapseStep, AuthorizeStep,
       ExchangeCheckStep, RefreshCheckStep, IssueRefreshStep, IssueAccessStep,
       FlowAbortStep
    DEF Next

\* The inductive invariant: the tables, the visits and what pending batches
\* remember agree in every reachable state.
THEOREM Invariant == Spec => []IInv
<1>1. Init => IInv
  <2>1. Init => TypeOK
    BY PendingFields, KindsOf DEF Init, TypeOK, Flow0, Request0, RequestRec, Pending
  <2>2. Init => SessionInv /\ DeletedHasNoSession /\ DeletedHasNoToken
    BY DEF Init, SessionInv, RowsAreMinted, VisitsAreLive, ServedAreVisits,
       Minted, VisitedAreNotified, OnlyRevokedAreNotified, RevokedHasNoToken,
       DeletedHasNoSession, DeletedHasNoToken
  <2>3. Init => AdminInv
    BY AdminAssumption DEF Init, AdminInv, AdminsManageOthers, AnAdminRemains, Request0,
       Pending
  <2>4. QED
    BY <2>1, <2>2, <2>3 DEF IInv
<1>2. QED
  BY <1>1, Step, PTL DEF Spec

\* TypeOK is an invariant (the read of a self-deletion needs DeletedHasNoSession
\* for it).
THEOREM TypeCorrect == Spec => []TypeOK
<1>1. IInv => TypeOK
  BY DEF IInv
<1>2. QED
  BY <1>1, Invariant, PTL

\* Every relying party that got a token under a revoked session is notified, and
\* only they, however token requests and revocations interleave.
THEOREM Notified == Spec => []NoticesAreExact
<1>1. IInv => NoticesAreExact
  BY DEF IInv, SessionInv, NoticesAreExact
<1>2. QED
  BY <1>1, Invariant, PTL

\* A revoked session has no token, whatever token request was under way when it
\* was revoked, and a deleted user none at all, not even of a lapsed session.
THEOREM TokensEnd == Spec => []NoTokenOutlivesRevocation
<1>1. IInv => NoTokenOutlivesRevocation
  BY DEF IInv, SessionInv, NoTokenOutlivesRevocation
<1>2. QED
  BY <1>1, Invariant, PTL

\* A deleted user has no session and cannot get one.
THEOREM DeletionEnds == Spec => []DeletedHasNoSession
<1>1. IInv => DeletedHasNoSession
  BY DEF IInv
<1>2. QED
  BY <1>1, Invariant, PTL

\* Concurrent administrators cannot remove the last active one of them.
THEOREM AdminRemains == Spec => []AnAdminRemains
<1>1. IInv => AnAdminRemains
  BY DEF IInv, AdminInv
<1>2. QED
  BY <1>1, Invariant, PTL

-------------------------------------------------------------------------------
(* What a step may end                                                     *)

\* A batch ends the sessions that it selects, and their tokens.
LEMMA CommitScope ==
    ASSUME IInv, NEW r \in Request, Commit(r)
    PROVE  EndsOnlyInScope /\ TokensEndOnlyInScope
  <1> DEFINE q == request[r]
  <1>1. q \in RequestRec /\ q.user # Nobody
    BY CommitRequest
  <1>2. /\ Selected(q) \in SUBSET Sid
        /\ \A s \in Selected(q) : owner[s] = q.user
    BY <1>1, SelectedRows DEF IInv, SessionInv, RowsAreMinted
  <1>3. q.at = "commit" /\ request'[r].at = "idle"
    BY DEF Commit, Request0, Pending, IInv, TypeOK
  <1>4. \A s \in Selected(q) : InScope(r, s)
    <2>1. \A s \in Selected(q) : q.kind \in {"one", "rp_logout"} => q.target = s
      BY DEF Selected
    <2>2. \A s \in Selected(q) : q.kind = "others" => q.actor # s
      BY DEF Selected
    <2>3. QED
      BY <1>2, <1>3, <2>1, <2>2 DEF InScope
  <1>5. UserWide(q) => \A v : owner[v[1]] = q.user => InScope(r, v[1])
    BY <1>3 DEF UserWide, AdminKinds, InScope
  <1>6. \/ EndSessions(q)
        \/ UNCHANGED <<outbox, refresh, access, visits, session, revoked>>
    BY DEF Commit
  <1> HIDE DEF q
  <1>7. EndsOnlyInScope
    BY <1>4, <1>6 DEF EndsOnlyInScope, EndSessions
  <1>8. \A v \in EndedTokens(q, access) \cup EndedTokens(q, refresh) : InScope(r, v[1])
    BY <1>4, <1>5 DEF EndedTokens, Of, OfUser
  <1>9. TokensEndOnlyInScope
    BY <1>6, <1>8 DEF TokensEndOnlyInScope, EndSessions
  <1>10. QED
    BY <1>7, <1>9

\* A session ends by expiry or by a batch whose scope it is in, and tokens are
\* removed with their session only: the other devices of a user are left alone.
THEOREM OthersUntouched == Spec => OtherSessionsUntouched
<1>1. IInv /\ [Next]_vars => [EndsOnlyInScope /\ TokensEndOnlyInScope]_vars
  <2> SUFFICES ASSUME IInv, Next PROVE EndsOnlyInScope /\ TokensEndOnlyInScope
    OBVIOUS
  <2>1. ASSUME NEW r \in Request, Commit(r)
        PROVE EndsOnlyInScope /\ TokensEndOnlyInScope
    BY <2>1, CommitScope
  <2>2. ASSUME NEW s \in Sid, Lapse(s) PROVE EndsOnlyInScope /\ TokensEndOnlyInScope
    <3>1. EndsOnlyInScope
      BY <2>2 DEF Lapse, EndsOnlyInScope, IInv, TypeOK
    <3>2. TokensEndOnlyInScope
      BY <2>2 DEF Lapse, TokensEndOnlyInScope
    <3>3. QED
      BY <3>1, <3>2
  <2>3. ASSUME NEW r \in Request, NEW s \in Sid, SignInInsert(r, s)
        PROVE EndsOnlyInScope /\ TokensEndOnlyInScope
    <3>1. request[r].user # Nobody
      BY <2>3 DEF SignInInsert, IInv, TypeOK
    <3>2. QED
      BY <2>3, <3>1 DEF SignInInsert, EndsOnlyInScope, TokensEndOnlyInScope, tokens, IInv,
         TypeOK
  <2>4. CASE UNCHANGED session /\ access \subseteq access' /\ refresh \subseteq refresh'
    BY <2>4 DEF EndsOnlyInScope, TokensEndOnlyInScope
  <2>5. QED
    BY <2>1, <2>2, <2>3, <2>4
    DEF Next, SignInCheck, RpLogoutRead, LeaveRead, SelfRead, AdminRead, Reading,
        GiveUp, Expire, Authorize, ExchangeCheck, RefreshCheck, IssueRefresh,
        IssueAccess, FlowAbort, tokens
<1>2. QED
  BY <1>1, Invariant, PTL DEF Spec, OtherSessionsUntouched
===============================================================================
