----------------------------- MODULE GlobalLogout -----------------------------
(***************************************************************************)
(* Global logout end to end: the central sessions, the promise of the      *)
(* logout outbox and the relying party, composed. A callback of the        *)
(* relying party drives a request at the token endpoint; a commit that     *)
(* ends sessions records their notices in the same transaction; a notice   *)
(* reaches the receiver only through a POST of an attempt.                 *)
(* Left out: the expiry of central sessions (it sends no notice) and the   *)
(* refresh grant (this relying party never uses it).                       *)
(***************************************************************************)
EXTENDS Integers

CONSTANTS
    User, Admin, Sid, Request, Nobody,  \* see CentralSessions
    Txn, Callback, Receiver,            \* see RelyingParty
    RP,                                 \* the client id of the relying party
    MaxAttempts,                        \* see DeliveryContract
    MaxReplays                          \* bound: operator replays of a notice

ASSUME BoundsAssumption == MaxAttempts \in Nat \ {0} /\ MaxReplays \in Nat
\* What CentralSessions and RelyingParty assume.
ASSUME PartsAssumption ==
    /\ Admin \subseteq User /\ Nobody \notin User \cup Sid
    /\ Txn # {} /\ Sid # {}

VARIABLES
    status, session, expired, owner, code, refresh, access, visits, outbox,
    request, flow, served, revoked, left,
    txn, callback, local, receipt, receiver, opened,
    work, told, generation, tries

\* A callback is also the token request that it makes.
S == INSTANCE CentralSessions WITH Client <- {RP}, Flow <- Callback
\* A session is revoked once, and a notice keeps its jti: the sid names both.
R == INSTANCE RelyingParty WITH Jti <- Sid
D == INSTANCE DeliveryContract WITH Delivery <- Sid

sso == <<status, session, expired, owner, code, refresh, access, visits, outbox,
         request, flow, served, revoked, left>>
rp == <<txn, callback, local, receipt, receiver, opened>>
deliveries == <<work, told, generation, tries>>
vars == <<sso, rp, deliveries>>

-------------------------------------------------------------------------------
Init == S!Init /\ R!Init /\ D!Init

\* Steps of one part only.
SignIn ==
    /\ \E r \in Request : \/ \E u \in User : S!SignInCheck(r, u)
                          \/ \E s \in Sid : S!SignInInsert(r, s)
    /\ UNCHANGED <<rp, deliveries>>

RevocationRead ==
    /\ \E r \in Request :
         \/ \E s \in Sid : S!RpLogoutRead(r, s) \/ S!LeaveRead(r, s)
         \/ \E a \in Sid, t \in Sid \cup {Nobody}, kind \in S!SelfKinds :
              S!SelfRead(r, a, kind, t)
         \/ \E a \in Sid, u \in User, kind \in S!AdminKinds : S!AdminRead(r, a, u, kind)
         \/ S!GiveUp(r)
    /\ UNCHANGED <<rp, deliveries>>

Consent ==
    /\ \E s \in Sid : S!Live(s) /\ S!Authorize(s, RP)
    /\ UNCHANGED <<rp, deliveries>>

\* A commit records a notice for each visit that it moves to the outbox.
Revoke(r) ==
    /\ S!Commit(r)
    /\ work' = [s \in Sid |-> IF <<s, RP>> \in outbox' \ outbox THEN "owed" ELSE work[s]]
    /\ UNCHANGED <<rp, told, generation, tries>>

-------------------------------------------------------------------------------
(* The callback                                                            *)

BrowserStep ==
    /\ \/ \E t \in Txn : \/ R!Login(t) \/ R!TxnExpires(t)
                         \/ \E k \in Callback : flow[k].at = "idle" /\ R!CallbackRead(k, t)
       \/ \E k \in Callback : R!CallbackConsume(k) \/ R!CallbackInsert(k) \/ R!CallbackFail(k)
       \/ \E l \in local : R!LocalLogout(l)
    /\ UNCHANGED <<sso, deliveries>>

\* The code grant. A request that the SSO refuses is over for the callback too.
Exchange(k, s) ==
    /\ callback[k].at = "exchange"
    /\ S!ExchangeCheck(k, s, RP)
    /\ IF S!Live(s) THEN UNCHANGED rp ELSE R!CallbackFail(k)
    /\ UNCHANGED deliveries

Waiting(k) == callback[k].at = "exchange"

IssueRefresh(k) ==
    /\ S!IssueRefresh(k)
    /\ IF S!ForeignKey(flow[k].visit) \/ ~Waiting(k) THEN UNCHANGED rp ELSE R!CallbackFail(k)
    /\ UNCHANGED deliveries

\* The tokens are issued; the answer finds the callback waiting or is lost.
IssueAccess(k) ==
    /\ S!IssueAccess(k)
    /\ CASE ~Waiting(k) -> UNCHANGED rp
         [] Waiting(k) /\ S!ForeignKey(flow[k].visit) -> R!Exchanged(k, flow[k].visit[1])
         [] OTHER -> R!CallbackFail(k)
    /\ UNCHANGED deliveries

TokenAbort(k) ==
    /\ S!FlowAbort(k)
    /\ IF Waiting(k) THEN R!CallbackFail(k) ELSE UNCHANGED rp
    /\ UNCHANGED deliveries

\* (slip: any access token that was ever issued is accepted)
BugTokenTrusted(s) == <<s, RP>> \in served

\* /oauth2/userinfo looks the opaque access token up.
TokenStored(s) == <<s, RP>> \in access

UserInfo(k) ==
    /\ R!UserInfo(k)
    /\ TokenStored(callback[k].sid)
    /\ UNCHANGED <<sso, deliveries>>

-------------------------------------------------------------------------------
(* The notice                                                              *)

Try(s) == D!Try(s) /\ UNCHANGED <<sso, rp>>

\* The POST of an attempt; a late one may arrive after the notice is settled.
Arrive(h, s) ==
    /\ generation[s] > 0 \/ tries[s] > 0
    /\ R!Arrive(h, s, s)
    /\ UNCHANGED <<sso, deliveries>>

Receive(h) ==
    LET s == receiver[h].sid
    IN  /\ R!ReceiveBatch(h)
        /\ IF R!Matches(s, s) THEN D!Hear(s) ELSE UNCHANGED deliveries
        /\ UNCHANGED sso

Answer(h) ==
    /\ R!Answer(h) \/ R!ReceiverFail(h)
    /\ UNCHANGED <<sso, deliveries>>

Settle(s) == (D!Acknowledge(s) \/ D!Abandon(s)) /\ UNCHANGED <<sso, rp>>

Replay(s) == generation[s] < MaxReplays /\ D!Reopen(s) /\ UNCHANGED <<sso, rp>>

-------------------------------------------------------------------------------
Next ==
    \/ SignIn \/ RevocationRead \/ Consent \/ BrowserStep
    \/ \E r \in Request : Revoke(r)
    \/ \E k \in Callback : IssueRefresh(k) \/ IssueAccess(k) \/ TokenAbort(k) \/ UserInfo(k)
    \/ \E k \in Callback, s \in Sid : Exchange(k, s)
    \/ \E s \in Sid : Try(s) \/ Settle(s) \/ Replay(s)
    \/ \E h \in Receiver, s \in Sid : Arrive(h, s)
    \/ \E h \in Receiver : Receive(h) \/ Answer(h)

Spec == Init /\ [][Next]_vars

\* What LogoutDelivery!EventuallySettled shows of the outbox: an owed notice is
\* tried and settled. Nothing is assumed of browsers, of callbacks or of the
\* relying party's answers.
FairSpec == Spec /\ \A s \in Sid : WF_vars(Try(s) \/ Settle(s))

-------------------------------------------------------------------------------
(* Safety                                                                  *)

\* Every local session of a revoked central session is covered by a notice: no
\* interleaving of callback, token issuance and revocation opens one that the
\* outbox does not know of.
LocalSessionsAreCovered ==
    \A l \in local : l.sid \in revoked => work[l.sid] # "none"

\* An acknowledged notice leaves no local session but those of callbacks that
\* were past userinfo when the central session was revoked: ...
AcknowledgedLeavesLate ==
    \A l \in local : work[l.sid] = "acknowledged" => l.late

\* ... after the revocation no further callback gets past userinfo.
RevocationClosesCallbacks ==
    [][\A k \in Callback :
         callback'[k].at = "insert" /\ callback'[k].sid \in revoked
         => callback[k].at = "insert"]_vars

\* What RelyingParty shows of itself, here with the sso that feeds its callbacks:
\* a transaction opens one local session, whatever the retries of its callback; ...
OneSessionPerTransaction == R!OneSessionPerTransaction

\* ... and two deliveries of a notice, its receipt and the callbacks may overlap
\* in any way: a receipted sid has no local session but later ones.
NoticeClears == R!NoticeClears

\* Documentation: a relying party that answers 200 or 204 has deleted every
\* local session of the sid (see the findings).
NoLocalSessionAfterAck ==
    \A l \in local : work[l.sid] # "acknowledged"

-------------------------------------------------------------------------------
(* Liveness                                                                *)

Stale(s) == s \in revoked /\ \E l \in local : l.sid = s /\ ~l.late

\* A local session whose central session is revoked ends, or the notice is
\* abandoned after its attempts, for an operator to see.
RevocationReachesTheRp ==
    \A s \in Sid : Stale(s) ~> ~Stale(s) \/ work[s] = "abandoned"
===============================================================================
