----------------------------- MODULE RelyingParty -----------------------------
(***************************************************************************)
(* The test relying party: OIDC transactions, the callback that turns one  *)
(* into a local session, the back-channel logout receiver and the local    *)
(* logout. A callback awaits its database twice and the SSO twice before   *)
(* it inserts the local session; logout notices arrive at any moment, in   *)
(* any order and more than once.                                           *)
(***************************************************************************)
EXTENDS Naturals

CONSTANTS
    Sid,        \* central session ids
    Txn,        \* OIDC transactions, one per visit to /login
    Jti,        \* logout events
    Callback,   \* concurrent requests to /callback
    Receiver,   \* concurrent requests to /backchannel-logout
    Nobody      \* no session: not a Sid

VARIABLES
    txn,        \* oauth_transaction: absent, open, late (past its TTL),
                \* consumed, purged; a transaction id is never used again
    callback,   \* where each callback is, with the values it has read
    local,      \* rp_session: central sid, its transaction, and (history)
                \* whether a notice for the sid had arrived before the insert
    receipt,    \* backchannel_logout_receipt: the sid of each jti
    receiver,   \* where each logout request is
    opened      \* history: local sessions that each transaction has opened

vars == <<txn, callback, local, receipt, receiver, opened>>

-------------------------------------------------------------------------------
Local == [sid : Sid, by : Txn, late : BOOLEAN]

Callback0(t) == [at |-> "idle", txn |-> t, sid |-> Nobody]
Receiver0(j) == [at |-> "idle", jti |-> j, sid |-> Nobody]

TypeOK ==
    /\ txn \in [Txn -> {"absent", "open", "late", "consumed", "purged"}]
    /\ callback \in [Callback ->
         [at : {"idle", "consume", "exchange", "userinfo", "insert"},
          txn : Txn, sid : Sid \cup {Nobody}]]
    /\ \A k \in Callback : callback[k].at \in {"userinfo", "insert"} => callback[k].sid \in Sid
    /\ local \subseteq Local
    /\ receipt \in [Jti -> Sid \cup {Nobody}]
    /\ receiver \in [Receiver -> [at : {"idle", "batch", "answer"}, jti : Jti,
                                  sid : Sid \cup {Nobody}]]
    /\ opened \in [Txn -> Nat]

Init ==
    /\ txn = [t \in Txn |-> "absent"]
    /\ callback = [k \in Callback |-> Callback0(CHOOSE t \in Txn : TRUE)]
    /\ local = {}
    /\ receipt = [j \in Jti |-> Nobody]
    /\ receiver = [h \in Receiver |-> Receiver0(CHOOSE j \in Jti : TRUE)]
    /\ opened = [t \in Txn |-> 0]

Goto(k, c) == callback' = [callback EXCEPT ![k] = c]
Stop(k) == Goto(k, [callback[k] EXCEPT !.at = "idle", !.sid = Nobody])

-------------------------------------------------------------------------------
(* /login and /callback                                                    *)

\* /login purges what is expired or consumed and opens a transaction.
Login(t) ==
    /\ txn[t] = "absent"
    /\ txn' = [u \in Txn |-> CASE u = t -> "open"
                               [] txn[u] \in {"late", "consumed"} -> "purged"
                               [] OTHER -> txn[u]]
    /\ UNCHANGED <<callback, local, receipt, receiver, opened>>

\* expires_at passes.
TxnExpires(t) ==
    /\ txn[t] = "open"
    /\ txn' = [txn EXCEPT ![t] = "late"]
    /\ UNCHANGED <<callback, local, receipt, receiver, opened>>

\* The SELECT: the cookie's transaction is neither consumed nor expired.
CallbackRead(k, t) ==
    /\ callback[k].at = "idle"
    /\ txn[t] = "open"
    /\ Goto(k, [at |-> "consume", txn |-> t, sid |-> Nobody])
    /\ UNCHANGED <<txn, local, receipt, receiver, opened>>

\* (slip: the update's row count is not compared with 1)
BugConsumeUnchecked(t) == TRUE

\* The UPDATE hits: the row is there and consumed_at is NULL.
Consumes(t) == txn[t] \in {"open", "late"}

CallbackConsume(k) ==
    LET t == callback[k].txn
    IN  /\ callback[k].at = "consume"
        /\ IF Consumes(t)
           THEN /\ txn' = [txn EXCEPT ![t] = "consumed"]
                /\ Goto(k, [callback[k] EXCEPT !.at = "exchange"])
           ELSE UNCHANGED txn /\ Stop(k)
        /\ UNCHANGED <<local, receipt, receiver, opened>>

\* requireCentralSessionId: without it the local session could not be ended.
HasSid(s) == s \in Sid

\* The token endpoint answers with an ID token, whose sid claim may be missing.
Exchanged(k, s) ==
    /\ callback[k].at = "exchange"
    /\ IF HasSid(s)
       THEN Goto(k, [callback[k] EXCEPT !.at = "userinfo", !.sid = s])
       ELSE Stop(k)
    /\ UNCHANGED <<txn, local, receipt, receiver, opened>>

\* The userinfo endpoint accepts the access token.
UserInfo(k) ==
    /\ callback[k].at = "userinfo"
    /\ Goto(k, [callback[k] EXCEPT !.at = "insert"])
    /\ UNCHANGED <<txn, local, receipt, receiver, opened>>

Noticed(s) == \E j \in Jti : receipt[j] = s

\* INSERT INTO rp_session: no condition.
CallbackInsert(k) ==
    LET c == callback[k]
    IN  /\ c.at = "insert"
        /\ local' = local \cup {[sid |-> c.sid, by |-> c.txn,
                                 late |-> Noticed(c.sid)]}
        /\ opened' = [opened EXCEPT ![c.txn] = @ + 1]
        /\ Stop(k)
        /\ UNCHANGED <<txn, receipt, receiver>>

\* Any failure before the insert, or the end of the request.
CallbackFail(k) ==
    /\ callback[k].at # "idle"
    /\ Stop(k)
    /\ UNCHANGED <<txn, local, receipt, receiver, opened>>

\* /logout, or expires_at of the local session.
LocalLogout(l) ==
    /\ l \in local
    /\ local' = local \ {l}
    /\ UNCHANGED <<txn, callback, receipt, receiver, opened>>

-------------------------------------------------------------------------------
(* /backchannel-logout                                                     *)

\* A logout token that passes validateLogoutToken arrives.
Arrive(h, j, s) ==
    /\ receiver[h].at = "idle"
    /\ receiver' = [receiver EXCEPT ![h] = [at |-> "batch", jti |-> j, sid |-> s]]
    /\ UNCHANGED <<txn, callback, local, receipt, opened>>

\* INSERT OR IGNORE INTO backchannel_logout_receipt.
Receipted(j, s) == IF receipt[j] = Nobody THEN [receipt EXCEPT ![j] = s] ELSE receipt

\* (slip: the sessions are deleted before the receipt is inserted)
BugDeleteFirst(j, s) == receipt[j] = s

\* EXISTS (receipt of this jti for this sid), after the insert.
Matches(j, s) == Receipted(j, s)[j] = s

\* (slip: the first session of the sid is taken for the only one)
BugOneDeleted(s) ==
    {l \in local : l.sid # s \/ l # CHOOSE m \in local : m.sid = s}

\* What DELETE FROM rp_session WHERE central_session_id = ? leaves.
Survivors(s) == {l \in local : l.sid # s}

\* The batch: the receipt, then every local session of the sid if the receipt
\* is for that sid. (Receipts are purged after 31 days, when no retry of their
\* event is left.)
ReceiveBatch(h) ==
    LET j == receiver[h].jti
        s == receiver[h].sid
    IN  /\ receiver[h].at = "batch"
        /\ receipt' = Receipted(j, s)
        /\ local' = IF Matches(j, s) THEN Survivors(s) ELSE local
        /\ receiver' = [receiver EXCEPT ![h].at = "answer"]
        /\ UNCHANGED <<txn, callback, opened>>

\* 204 if the receipt names this sid, else 400: nothing changes here.
Answer(h) ==
    /\ receiver[h].at = "answer"
    /\ receiver' = [receiver EXCEPT ![h].at = "idle", ![h].sid = Nobody]
    /\ UNCHANGED <<txn, callback, local, receipt, opened>>

\* The request dies; the batch may have committed.
ReceiverFail(h) ==
    /\ receiver[h].at # "idle"
    /\ receiver' = [receiver EXCEPT ![h].at = "idle", ![h].sid = Nobody]
    /\ UNCHANGED <<txn, callback, local, receipt, opened>>

-------------------------------------------------------------------------------
Next ==
    \/ \E t \in Txn : Login(t) \/ TxnExpires(t)
    \/ \E k \in Callback, t \in Txn : CallbackRead(k, t)
    \/ \E k \in Callback : \/ CallbackConsume(k) \/ UserInfo(k)
                           \/ CallbackInsert(k) \/ CallbackFail(k)
    \/ \E k \in Callback, s \in Sid \cup {Nobody} : Exchanged(k, s)
    \/ \E l \in local : LocalLogout(l)
    \/ \E h \in Receiver, j \in Jti, s \in Sid : Arrive(h, j, s)
    \/ \E h \in Receiver : ReceiveBatch(h) \/ Answer(h) \/ ReceiverFail(h)

Spec == Init /\ [][Next]_vars

-------------------------------------------------------------------------------
(* Safety                                                                  *)

\* A transaction opens one local session at most, however often and however
\* concurrently its callback URL is requested.
OneSessionPerTransaction == \A t \in Txn : opened[t] <= 1

\* A notice leaves no local session of its sid but those inserted after it: the
\* receipt and the deletion are one transaction, in this order.
NoticeClears == \A l \in local : Noticed(l.sid) => l.late

\* A jti ends the local sessions of one sid only, the one of its receipt; a
\* second token with the same jti and another sid deletes nothing.
JtiEndsOneSid ==
    [][\A h \in Receiver : receiver[h].at = "batch" /\ receiver'[h].at = "answer"
         /\ receipt[receiver[h].jti] \notin {Nobody, receiver[h].sid}
         => local' = local]_vars
===============================================================================
