-------------------------- MODULE GlobalLogoutProofs --------------------------
(***************************************************************************)
(* What global logout guarantees end to end, for every set of users,       *)
(* sessions, transactions and concurrent requests: the composition is a    *)
(* behaviour of its parts, whose invariants therefore hold in it, and the  *)
(* links between the parts carry them from one to the other.               *)
(***************************************************************************)
EXTENDS GlobalLogout, TLAPS

\* The central sessions with their theorems; SP!X is S!X of GlobalLogout.
SP == INSTANCE CentralSessionsProofs WITH Client <- {RP}, Flow <- Callback

-------------------------------------------------------------------------------
(* Every step is a step of the central sessions or leaves them alone       *)

\* A batch of the composition is the batch of the part.
LEMMA SameCommit == ASSUME NEW r \in Request PROVE S!Commit(r) => SP!Commit(r)
  BY DEF S!Commit, SP!Commit, S!Eligible, SP!Eligible, S!Ending, SP!Ending,
     S!EndSessions, SP!EndSessions, S!EndedTokens, SP!EndedTokens, S!UserWide,
     SP!UserWide, S!OfUser, SP!OfUser, S!Selected, SP!Selected, S!StatusAfter,
     SP!StatusAfter, S!Of, SP!Of, S!Request0, SP!Request0, S!Snapshot, SP!Snapshot,
     S!Pending, SP!Pending, S!SelfEligible, SP!SelfEligible, S!RpEligible,
     SP!RpEligible, S!AdminEligible, SP!AdminEligible, S!LeaveEligible,
     SP!LeaveEligible, S!SelfKinds, SP!SelfKinds, S!AdminKinds, SP!AdminKinds,
     S!Live, SP!Live

\* The reads and sign-ins are those of the part.
LEMMA SameRequests ==
    ASSUME NEW r \in Request
    PROVE  /\ \A u \in User : S!SignInCheck(r, u) => SP!SignInCheck(r, u)
           /\ \A s \in Sid : S!SignInInsert(r, s) => SP!SignInInsert(r, s)
           /\ \A s \in Sid : S!RpLogoutRead(r, s) => SP!RpLogoutRead(r, s)
           /\ \A s \in Sid : S!LeaveRead(r, s) => SP!LeaveRead(r, s)
           /\ \A a \in Sid, t \in Sid \cup {Nobody}, kind \in S!SelfKinds :
                S!SelfRead(r, a, kind, t) => SP!SelfRead(r, a, kind, t)
           /\ \A a \in Sid, u \in User, kind \in S!AdminKinds :
                S!AdminRead(r, a, u, kind) => SP!AdminRead(r, a, u, kind)
           /\ S!GiveUp(r) => SP!GiveUp(r)
  <1> USE DEF S!Reading, SP!Reading, S!Pending, SP!Pending, S!Live, SP!Live,
      S!Request0, SP!Request0, S!accounts, SP!accounts, S!tokens, SP!tokens,
      S!notices, SP!notices
  <1>1. \A u \in User : S!SignInCheck(r, u) => SP!SignInCheck(r, u)
    BY DEF S!SignInCheck, SP!SignInCheck
  <1>2. \A s \in Sid : S!SignInInsert(r, s) => SP!SignInInsert(r, s)
    BY DEF S!SignInInsert, SP!SignInInsert, S!AccountExists, SP!AccountExists
  <1>3. \A s \in Sid : S!RpLogoutRead(r, s) => SP!RpLogoutRead(r, s)
    BY DEF S!RpLogoutRead, SP!RpLogoutRead
  <1>4. \A s \in Sid : S!LeaveRead(r, s) => SP!LeaveRead(r, s)
    BY DEF S!LeaveRead, SP!LeaveRead
  <1>5. \A a \in Sid, t \in Sid \cup {Nobody}, kind \in S!SelfKinds :
          S!SelfRead(r, a, kind, t) => SP!SelfRead(r, a, kind, t)
    BY DEF S!SelfRead, SP!SelfRead
  <1>6. \A a \in Sid, u \in User, kind \in S!AdminKinds :
          S!AdminRead(r, a, u, kind) => SP!AdminRead(r, a, u, kind)
    BY DEF S!AdminRead, SP!AdminRead, S!TargetExists, SP!TargetExists
  <1>7. S!GiveUp(r) => SP!GiveUp(r)
    BY DEF S!GiveUp, SP!GiveUp
  <1>8. QED
    BY <1>1, <1>2, <1>3, <1>4, <1>5, <1>6, <1>7

\* So are the steps of the token endpoint.
LEMMA SameTokens ==
    ASSUME NEW k \in Callback
    PROVE  /\ \A s \in Sid : S!ExchangeCheck(k, s, RP) => SP!ExchangeCheck(k, s, RP)
           /\ S!IssueRefresh(k) => SP!IssueRefresh(k)
           /\ S!IssueAccess(k) => SP!IssueAccess(k)
           /\ S!FlowAbort(k) => SP!FlowAbort(k)
  <1> USE DEF S!Live, SP!Live, S!Flow0, SP!Flow0, S!accounts, SP!accounts, S!tokens,
      SP!tokens, S!notices, SP!notices, S!ForeignKey, SP!ForeignKey
  <1>2. \A s \in Sid : S!ExchangeCheck(k, s, RP) => SP!ExchangeCheck(k, s, RP)
    BY DEF S!ExchangeCheck, SP!ExchangeCheck
  <1>3. S!IssueRefresh(k) => SP!IssueRefresh(k)
    BY DEF S!IssueRefresh, SP!IssueRefresh
  <1>4. S!IssueAccess(k) => SP!IssueAccess(k)
    BY DEF S!IssueAccess, SP!IssueAccess, S!Recorded, SP!Recorded
  <1>5. S!FlowAbort(k) => SP!FlowAbort(k)
    BY DEF S!FlowAbort, SP!FlowAbort
  <1>6. QED
    BY <1>2, <1>3, <1>4, <1>5

\* The initial state and every step of the composition are those of the central
\* sessions.
LEMMA SessionsInit == Init => SP!Init
  BY DEF Init, S!Init, SP!Init, S!Request0, SP!Request0, S!Pending, SP!Pending,
     S!Flow0, SP!Flow0

LEMMA SessionsStep == [Next]_vars => [SP!Next]_(SP!vars)
  <1> SUFFICES ASSUME [Next]_vars PROVE SP!Next \/ UNCHANGED SP!vars
    OBVIOUS
  <1>1. CASE SignIn
    BY <1>1, SameRequests DEF SignIn, SP!Next
  <1>2. CASE RevocationRead
    BY <1>2, SameRequests DEF RevocationRead, SP!Next, S!SelfKinds, SP!SelfKinds,
       S!AdminKinds, SP!AdminKinds
  <1>3. CASE Consent
    <2>1. PICK s \in Sid : S!Authorize(s, RP)
      BY <1>3 DEF Consent
    <2>2. SP!Authorize(s, RP)
      BY <2>1 DEF S!Authorize, SP!Authorize, S!Minted, SP!Minted, S!accounts, SP!accounts, S!notices, SP!notices
    <2>3. QED
      BY <2>2 DEF SP!Next
  <1>4. ASSUME NEW r \in Request, Revoke(r) PROVE SP!Next
    BY <1>4, SameCommit DEF Revoke, SP!Next
  <1>5. ASSUME NEW k \in Callback, IssueRefresh(k) \/ IssueAccess(k) \/ TokenAbort(k)
        PROVE  SP!Next
    BY <1>5, SameTokens DEF IssueRefresh, IssueAccess, TokenAbort, SP!Next
  <1>6. ASSUME NEW k \in Callback, NEW s \in Sid, Exchange(k, s) PROVE SP!Next
    BY <1>6, SameTokens DEF Exchange, SP!Next
  <1>7. CASE UNCHANGED sso
    BY <1>7 DEF sso, SP!vars
  <1>8. QED
    BY <1>1, <1>2, <1>3, <1>4, <1>5, <1>6, <1>7 DEF Next, BrowserStep, UserInfo, Try,
       Settle, Replay, Arrive, Receive, Answer, vars

\* Global logout implements the central sessions: what CentralSessions guarantees
\* holds whatever the relying party and the outbox do.
THEOREM ImplementsSessions == Spec => SP!Spec
  BY SessionsInit, SessionsStep, PTL DEF Spec, SP!Spec

-------------------------------------------------------------------------------
(* The relying party, whatever sids its callbacks get                      *)

\* A callback that has consumed its transaction.
Past(k) == callback[k].at \in {"exchange", "userinfo", "insert"}

\* What makes OneSessionPerTransaction inductive: a transaction that has been
\* consumed stays so, its callback is the only one past the update, and it has
\* not opened its session yet.
TransactionInv ==
    /\ R!OneSessionPerTransaction
    /\ \A t \in Txn : opened[t] # 0 => txn[t] \in {"consumed", "purged"}
    /\ \A k \in Callback : Past(k) => /\ txn[callback[k].txn] \in {"consumed", "purged"}
                                      /\ opened[callback[k].txn] = 0
    /\ \A k, m \in Callback :
         Past(k) /\ Past(m) /\ callback[k].txn = callback[m].txn => k = m

-------------------------------------------------------------------------------
(* The steps, by what they touch                                           *)

CallbackRec == [at : {"idle", "consume", "exchange", "userinfo", "insert"},
                txn : Txn, sid : Sid \cup {Nobody}]

\* A callback moves to a well-formed place: the type of callback is kept.
LEMMA GotoTyped ==
    ASSUME R!TypeOK, NEW k \in Callback, NEW c \in CallbackRec, R!Goto(k, c),
           c.at \in {"userinfo", "insert"} => c.sid \in Sid
    PROVE  /\ callback' \in [Callback -> CallbackRec]
           /\ \A m \in Callback : callback'[m].at \in {"userinfo", "insert"}
                                  => callback'[m].sid \in Sid
  <1>1. callback \in [Callback -> CallbackRec]
    BY DEF R!TypeOK, CallbackRec
  <1>2. callback' = [callback EXCEPT ![k] = c]
    BY DEF R!Goto
  <1>3. \A m \in Callback : callback'[m] = IF m = k THEN c ELSE callback[m]
    BY <1>1, <1>2
  <1>4. QED
    BY <1>1, <1>2, <1>3 DEF R!TypeOK

\* The record that a callback moves to, of the right type if the place is.
LEMMA CallbackFields ==
    ASSUME R!TypeOK, NEW k \in Callback,
           NEW a \in {"idle", "consume", "exchange", "userinfo", "insert"}
    PROVE  /\ callback[k] \in CallbackRec
           /\ [callback[k] EXCEPT !.at = a] \in CallbackRec
           /\ [callback[k] EXCEPT !.at = a].sid = callback[k].sid
           /\ [callback[k] EXCEPT !.at = a].at = a
           /\ [callback[k] EXCEPT !.at = a].txn = callback[k].txn
  BY DEF R!TypeOK, CallbackRec

\* Stop resets the callback.
LEMMA StopTyped ==
    ASSUME R!TypeOK, NEW k \in Callback, R!Stop(k)
    PROVE  \E c \in CallbackRec :
             R!Goto(k, c) /\ c.at = "idle" /\ c.txn = callback[k].txn
  <1> DEFINE c == [callback[k] EXCEPT !.at = "idle", !.sid = Nobody]
  <1>1. c \in CallbackRec /\ c.at = "idle" /\ c.txn = callback[k].txn
    <2>1. callback[k] \in CallbackRec
      BY DEF R!TypeOK, CallbackRec
    <2>2. QED
      BY <2>1 DEF CallbackRec
  <1>2. R!Goto(k, c)
    BY DEF R!Stop
  <1> HIDE DEF c
  <1>3. QED
    BY <1>1, <1>2

\* TypeOK is an invariant of the callbacks, the receiver and the local sessions.
THEOREM RelyingPartyTypes == R!Spec => []R!TypeOK
<1>1. R!Init => R!TypeOK
  BY PartsAssumption DEF R!Init, R!TypeOK, R!Callback0, R!Receiver0, R!Local
<1>2. R!TypeOK /\ [R!Next]_(R!vars) => R!TypeOK'
  <2> SUFFICES ASSUME R!TypeOK, [R!Next]_(R!vars) PROVE R!TypeOK'
    OBVIOUS
  <2> USE DEF R!TypeOK
  <2>1. ASSUME NEW t \in Txn, R!Login(t) PROVE R!TypeOK'
    BY <2>1 DEF R!Login
  <2>2. ASSUME NEW t \in Txn, R!TxnExpires(t) PROVE R!TypeOK'
    BY <2>2 DEF R!TxnExpires
  <2>3. ASSUME NEW k \in Callback, NEW t \in Txn, R!CallbackRead(k, t) PROVE R!TypeOK'
    <3>1. [at |-> "consume", txn |-> t, sid |-> Nobody] \in CallbackRec
      BY DEF CallbackRec
    <3>2. QED
      BY <2>3, <3>1, GotoTyped DEF R!CallbackRead, CallbackRec
  <2>4. ASSUME NEW k \in Callback, R!CallbackConsume(k) PROVE R!TypeOK'
    <3>1. CASE R!Consumes(callback[k].txn)
      <4>1. R!Goto(k, [callback[k] EXCEPT !.at = "exchange"])
        BY <2>4, <3>1 DEF R!CallbackConsume
      <4>2. /\ callback' \in [Callback -> CallbackRec]
            /\ \A m \in Callback : callback'[m].at \in {"userinfo", "insert"}
                                   => callback'[m].sid \in Sid
        BY <4>1, GotoTyped, CallbackFields
      <4>3. QED
        BY <2>4, <3>1, <4>2 DEF R!CallbackConsume, CallbackRec
    <3>2. CASE ~R!Consumes(callback[k].txn)
      <4>1. R!Stop(k) /\ UNCHANGED <<txn, local, receipt, receiver, opened>>
        BY <2>4, <3>2 DEF R!CallbackConsume
      <4>2. QED
        BY <4>1, StopTyped, GotoTyped DEF CallbackRec
    <3>3. QED
      BY <3>1, <3>2
  <2>5. ASSUME NEW k \in Callback, R!UserInfo(k) PROVE R!TypeOK'
    <3>1. callback[k].sid \in Sid
      BY <2>5 DEF R!UserInfo
    <3>2. /\ callback' \in [Callback -> CallbackRec]
          /\ \A m \in Callback : callback'[m].at \in {"userinfo", "insert"}
                                 => callback'[m].sid \in Sid
      BY <2>5, <3>1, GotoTyped, CallbackFields DEF R!UserInfo
    <3>3. QED
      BY <2>5, <3>2 DEF R!UserInfo, CallbackRec
  <2>6. ASSUME NEW k \in Callback, R!CallbackInsert(k) PROVE R!TypeOK'
    <3>1. R!Stop(k)
      BY <2>6 DEF R!CallbackInsert
    <3>2. /\ callback' \in [Callback -> CallbackRec]
          /\ \A m \in Callback : callback'[m].at \in {"userinfo", "insert"}
                                 => callback'[m].sid \in Sid
      BY <3>1, StopTyped, GotoTyped
    <3>3. callback[k].sid \in Sid /\ callback[k].txn \in Txn
      BY <2>6 DEF R!CallbackInsert
    <3>4. [sid |-> callback[k].sid, by |-> callback[k].txn,
           late |-> R!Noticed(callback[k].sid)] \in R!Local
      BY <3>3 DEF R!Local, R!Noticed
    <3>5. QED
      BY <2>6, <3>2, <3>4 DEF R!CallbackInsert, CallbackRec
  <2>7. ASSUME NEW k \in Callback, R!CallbackFail(k) PROVE R!TypeOK'
    BY <2>7, StopTyped, GotoTyped DEF R!CallbackFail, CallbackRec
  <2>8. ASSUME NEW k \in Callback, NEW s \in Sid \cup {Nobody}, R!Exchanged(k, s)
        PROVE R!TypeOK'
    <3>1. CASE R!HasSid(s)
      <4> DEFINE c == [callback[k] EXCEPT !.at = "userinfo", !.sid = s]
      <4>1. R!Goto(k, c) /\ s \in Sid
        BY <2>8, <3>1 DEF R!Exchanged, R!HasSid
      <4>t. callback[k] \in CallbackRec
        BY DEF R!TypeOK, CallbackRec
      <4>c. c \in CallbackRec /\ c.sid = s
        BY <4>t DEF CallbackRec
      <4> HIDE DEF c
      <4>2. /\ callback' \in [Callback -> CallbackRec]
            /\ \A m \in Callback : callback'[m].at \in {"userinfo", "insert"}
                                   => callback'[m].sid \in Sid
        BY <4>1, <4>c, GotoTyped
      <4>3. QED
        BY <2>8, <4>2 DEF R!Exchanged, CallbackRec
    <3>2. CASE ~R!HasSid(s)
      <4>1. R!Stop(k)
        BY <2>8, <3>2 DEF R!Exchanged
      <4>2. QED
        BY <2>8, <4>1, StopTyped, GotoTyped DEF R!Exchanged, CallbackRec
    <3>3. QED
      BY <3>1, <3>2
  <2>9. ASSUME NEW l \in local, R!LocalLogout(l) PROVE R!TypeOK'
    BY <2>9 DEF R!LocalLogout
  <2>10. ASSUME NEW h \in Receiver, NEW j \in Sid, NEW s \in Sid, R!Arrive(h, j, s)
         PROVE R!TypeOK'
    BY <2>10 DEF R!Arrive
  <2>11. ASSUME NEW h \in Receiver, R!ReceiveBatch(h) PROVE R!TypeOK'
    BY <2>11 DEF R!ReceiveBatch, R!Receipted, R!Matches, R!Survivors
  <2>12. ASSUME NEW h \in Receiver, R!Answer(h) \/ R!ReceiverFail(h) PROVE R!TypeOK'
    <3>1. UNCHANGED <<txn, callback, local, receipt, opened>>
      BY <2>12 DEF R!Answer, R!ReceiverFail
    <3>2. receiver' = [receiver EXCEPT ![h].at = "idle", ![h].sid = Nobody]
      BY <2>12 DEF R!Answer, R!ReceiverFail
    <3>3. receiver[h] \in [at : {"idle", "batch", "answer"}, jti : Sid, sid : Sid \cup {Nobody}]
      OBVIOUS
    <3>4. [receiver[h] EXCEPT !.at = "idle", !.sid = Nobody]
            \in [at : {"idle", "batch", "answer"}, jti : Sid, sid : Sid \cup {Nobody}]
      BY <3>3
    <3>5. QED
      BY <3>1, <3>2, <3>4
  <2>13. CASE UNCHANGED R!vars
    BY <2>13 DEF R!vars
  <2>14. QED
    BY <2>1, <2>2, <2>3, <2>4, <2>5, <2>6, <2>7, <2>8, <2>9, <2>10, <2>11, <2>12,
       <2>13 DEF R!Next
<1>3. QED
  BY <1>1, <1>2, PTL DEF R!Spec

-------------------------------------------------------------------------------
(* One session per transaction                                             *)

\* A step that leaves the transactions and their counters alone and lets no
\* callback past the update keeps TransactionInv.
LEMMA TransactionFrame ==
    ASSUME R!TypeOK, TransactionInv,
           \A t \in Txn : txn[t] \in {"consumed", "purged"}
                          => txn'[t] \in {"consumed", "purged"},
           UNCHANGED opened,
           \A k \in Callback : Past(k)' => Past(k) /\ callback'[k].txn = callback[k].txn
    PROVE  TransactionInv'
  <1>1. R!OneSessionPerTransaction'
    BY DEF TransactionInv, R!OneSessionPerTransaction
  <1>2. \A t \in Txn : opened'[t] # 0 => txn'[t] \in {"consumed", "purged"}
    BY DEF TransactionInv
  <1>3. \A k \in Callback : callback[k].txn \in Txn
    BY DEF R!TypeOK
  <1>4. \A k \in Callback : Past(k)' => /\ txn'[callback'[k].txn] \in {"consumed", "purged"}
                                       /\ opened'[callback'[k].txn] = 0
    BY <1>3 DEF TransactionInv
  <1>5. \A k, m \in Callback :
          Past(k)' /\ Past(m)' /\ callback'[k].txn = callback'[m].txn => k = m
    BY DEF TransactionInv
  <1>6. QED
    BY <1>1, <1>2, <1>4, <1>5 DEF TransactionInv, Past

\* Where the callbacks are after one of them has moved.
LEMMA GotoMoves ==
    ASSUME R!TypeOK, NEW k \in Callback, NEW c, R!Goto(k, c)
    PROVE  \A m \in Callback : callback'[m] = IF m = k THEN c ELSE callback[m]
  BY DEF R!Goto, R!TypeOK

\* A callback that stops is not past the update.
LEMMA StopMoves ==
    ASSUME R!TypeOK, NEW k \in Callback, R!Stop(k)
    PROVE  /\ ~Past(k)'
           /\ \A m \in Callback : m # k => callback'[m] = callback[m]
  <1>1. PICK c \in CallbackRec : R!Goto(k, c) /\ c.at = "idle" /\ c.txn = callback[k].txn
    BY StopTyped
  <1>2. \A m \in Callback : callback'[m] = IF m = k THEN c ELSE callback[m]
    BY <1>1, GotoMoves
  <1>3. QED
    BY <1>1, <1>2 DEF Past

\* Only a callback that finds its transaction unconsumed gets past the update,
\* and only such a callback inserts: the invariant of OneSessionPerTransaction.
LEMMA TransactionStep == R!TypeOK /\ TransactionInv /\ [R!Next]_(R!vars) => TransactionInv'
  <1> SUFFICES ASSUME R!TypeOK, TransactionInv, [R!Next]_(R!vars) PROVE TransactionInv'
    OBVIOUS
  <1>1. ASSUME NEW t \in Txn, R!Login(t) PROVE TransactionInv'
    <2>1. \A u \in Txn : txn[u] \in {"consumed", "purged"}
                         => txn'[u] \in {"consumed", "purged"}
      BY <1>1 DEF R!Login, R!TypeOK
    <2>2. QED
      BY <1>1, <2>1, TransactionFrame DEF R!Login, Past
  <1>2. ASSUME NEW t \in Txn, R!TxnExpires(t) PROVE TransactionInv'
    <2>1. \A u \in Txn : txn[u] \in {"consumed", "purged"}
                         => txn'[u] \in {"consumed", "purged"}
      BY <1>2 DEF R!TxnExpires, R!TypeOK
    <2>2. QED
      BY <1>2, <2>1, TransactionFrame DEF R!TxnExpires, Past
  <1>3. ASSUME NEW k \in Callback, NEW t \in Txn, R!CallbackRead(k, t)
        PROVE TransactionInv'
    <2>1. \A m \in Callback : Past(m)' => Past(m) /\ callback'[m].txn = callback[m].txn
      BY <1>3, GotoMoves DEF R!CallbackRead, Past
    <2>2. QED
      BY <1>3, <2>1, TransactionFrame DEF R!CallbackRead
  <1>4. ASSUME NEW k \in Callback, R!CallbackConsume(k), R!Consumes(callback[k].txn)
        PROVE TransactionInv'
    <2> DEFINE t == callback[k].txn
    <2>1. /\ t \in Txn /\ txn[t] \in {"open", "late"}
          /\ txn' = [txn EXCEPT ![t] = "consumed"] /\ UNCHANGED opened
          /\ R!Goto(k, [callback[k] EXCEPT !.at = "exchange"])
      BY <1>4 DEF R!CallbackConsume, R!Consumes, R!TypeOK
    <2>2. \A m \in Callback : /\ m # k => callback'[m] = callback[m]
                              /\ callback'[k].txn = t
      <3>1. [callback[k] EXCEPT !.at = "exchange"].txn = t
        BY CallbackFields
      <3>2. QED
        BY <2>1, <3>1, GotoMoves
    <2>3. opened[t] = 0 /\ \A m \in Callback : Past(m) => callback[m].txn # t
      BY <2>1 DEF TransactionInv
    <2>4. \A u \in Txn : txn'[u] = IF u = t THEN "consumed" ELSE txn[u]
      BY <2>1 DEF R!TypeOK
    <2>5. \A m \in Callback : Past(m)' => m = k \/ (Past(m) /\ callback'[m] = callback[m])
      BY <2>2 DEF Past
    <2>6. \A m \in Callback : callback[m].txn \in Txn
      BY DEF R!TypeOK
    <2> HIDE DEF t
    <2>7. R!OneSessionPerTransaction'
      BY <2>1 DEF TransactionInv, R!OneSessionPerTransaction
    <2>8. \A u \in Txn : opened'[u] # 0 => txn'[u] \in {"consumed", "purged"}
      BY <2>1, <2>4 DEF TransactionInv
    <2>9. \A m \in Callback : Past(m)' => /\ txn'[callback'[m].txn] \in {"consumed", "purged"}
                                         /\ opened'[callback'[m].txn] = 0
      BY <2>1, <2>2, <2>3, <2>4, <2>5, <2>6 DEF TransactionInv
    <2>10. \A m, n \in Callback :
             Past(m)' /\ Past(n)' /\ callback'[m].txn = callback'[n].txn => m = n
      BY <2>2, <2>3, <2>5 DEF TransactionInv
    <2>11. QED
      BY <2>7, <2>8, <2>9, <2>10 DEF TransactionInv, Past
  <1>5. ASSUME NEW k \in Callback, R!CallbackConsume(k), ~R!Consumes(callback[k].txn)
        PROVE TransactionInv'
    <2>1. R!Stop(k) /\ UNCHANGED <<txn, opened>>
      BY <1>5 DEF R!CallbackConsume
    <2>2. QED
      BY <2>1, StopMoves, TransactionFrame DEF Past
  <1>6. ASSUME NEW k \in Callback, R!UserInfo(k) PROVE TransactionInv'
    <2> DEFINE c == [callback[k] EXCEPT !.at = "insert"]
    <2>c. c.txn = callback[k].txn
      BY CallbackFields
    <2>g. R!Goto(k, c) /\ Past(k)
      BY <1>6 DEF R!UserInfo, Past
    <2> HIDE DEF c
    <2>1. \A m \in Callback : Past(m)' => Past(m) /\ callback'[m].txn = callback[m].txn
      BY <2>c, <2>g, GotoMoves DEF Past
    <2>2. QED
      BY <1>6, <2>1, TransactionFrame DEF R!UserInfo
  <1>7. ASSUME NEW k \in Callback, R!CallbackInsert(k) PROVE TransactionInv'
    <2> DEFINE t == callback[k].txn
    <2>1. /\ Past(k) /\ t \in Txn /\ R!Stop(k) /\ UNCHANGED txn
          /\ opened' = [opened EXCEPT ![t] = @ + 1]
      BY <1>7 DEF R!CallbackInsert, Past, R!TypeOK
    <2>2. opened[t] = 0 /\ txn[t] \in {"consumed", "purged"}
      BY <2>1 DEF TransactionInv
    <2>3. \A u \in Txn : opened'[u] = IF u = t THEN 1 ELSE opened[u]
      BY <2>1, <2>2 DEF R!TypeOK
    <2>4. \A m \in Callback : Past(m)' => m # k /\ Past(m) /\ callback'[m] = callback[m]
      BY <2>1, StopMoves DEF Past
    <2>5. \A m \in Callback : Past(m) /\ m # k => callback[m].txn # t
      BY <2>1 DEF TransactionInv
    <2>6. \A m \in Callback : callback[m].txn \in Txn
      BY DEF R!TypeOK
    <2> HIDE DEF t
    <2>7. R!OneSessionPerTransaction'
      BY <2>3 DEF TransactionInv, R!OneSessionPerTransaction
    <2>8. \A u \in Txn : opened'[u] # 0 => txn'[u] \in {"consumed", "purged"}
      BY <2>1, <2>2, <2>3 DEF TransactionInv
    <2>9. \A m \in Callback : Past(m)' => /\ txn'[callback'[m].txn] \in {"consumed", "purged"}
                                         /\ opened'[callback'[m].txn] = 0
      BY <2>1, <2>3, <2>4, <2>5, <2>6 DEF TransactionInv
    <2>10. \A m, n \in Callback :
             Past(m)' /\ Past(n)' /\ callback'[m].txn = callback'[n].txn => m = n
      BY <2>4 DEF TransactionInv
    <2>11. QED
      BY <2>7, <2>8, <2>9, <2>10 DEF TransactionInv, Past
  <1>8. ASSUME NEW k \in Callback, R!CallbackFail(k) PROVE TransactionInv'
    BY <1>8, StopMoves, TransactionFrame DEF R!CallbackFail, Past
  <1>9. ASSUME NEW k \in Callback, NEW s \in Sid \cup {Nobody}, R!Exchanged(k, s)
        PROVE TransactionInv'
    <2>1. CASE R!HasSid(s)
      <3> DEFINE c == [callback[k] EXCEPT !.at = "userinfo", !.sid = s]
      <3>t. callback[k] \in CallbackRec
        BY DEF R!TypeOK, CallbackRec
      <3>c. c.txn = callback[k].txn
        BY <3>t DEF CallbackRec
      <3>g. R!Goto(k, c) /\ Past(k)
        BY <1>9, <2>1 DEF R!Exchanged, Past
      <3> HIDE DEF c
      <3>1. \A m \in Callback : Past(m)' => Past(m) /\ callback'[m].txn = callback[m].txn
        BY <3>c, <3>g, GotoMoves DEF Past
      <3>2. QED
        BY <1>9, <3>1, TransactionFrame DEF R!Exchanged
    <2>2. CASE ~R!HasSid(s)
      BY <1>9, <2>2, StopMoves, TransactionFrame DEF R!Exchanged, Past
    <2>3. QED
      BY <2>1, <2>2
  <1>10. CASE UNCHANGED <<txn, callback, opened>>
    BY <1>10, TransactionFrame DEF Past
  <1>11. QED
    BY <1>1, <1>2, <1>3, <1>4, <1>5, <1>6, <1>7, <1>8, <1>9, <1>10
    DEF R!Next, R!LocalLogout, R!Arrive, R!ReceiveBatch, R!Answer, R!ReceiverFail, R!vars

\* A transaction opens one local session at most, however many requests to its
\* callback URL race.
LEMMA RelyingPartyOpensOne == R!Spec => []R!OneSessionPerTransaction
<1>1. R!Init => TransactionInv
  BY PartsAssumption DEF R!Init, TransactionInv, R!OneSessionPerTransaction, Past,
     R!Callback0
<1>2. TransactionInv => R!OneSessionPerTransaction
  BY DEF TransactionInv
<1>3. QED
  BY <1>1, <1>2, TransactionStep, RelyingPartyTypes, PTL DEF R!Spec

-------------------------------------------------------------------------------
(* Notices, at the relying party                                           *)

\* What the receiver's batch leaves: the receipts of other events, and no local
\* session of the sid that it has just receipted.
LEMMA BatchClears ==
    ASSUME R!TypeOK, R!NoticeClears, NEW h \in Receiver, R!ReceiveBatch(h)
    PROVE  R!NoticeClears'
  <1> DEFINE j == receiver[h].jti
             s == receiver[h].sid
  <1>1. /\ j \in Sid
        /\ receipt' = R!Receipted(j, s)
        /\ local' = IF R!Matches(j, s) THEN R!Survivors(s) ELSE local
    BY DEF R!ReceiveBatch, R!TypeOK
  <1>2. local' \subseteq local
    BY <1>1 DEF R!Survivors
  <1> SUFFICES ASSUME NEW l \in local', NEW i \in Sid, receipt'[i] = l.sid
               PROVE l.late
    BY DEF R!NoticeClears, R!Noticed
  <1>3. l \in local /\ l.sid \in Sid
    BY <1>2 DEF R!TypeOK, R!Local
  <1>4. CASE receipt[i] = l.sid
    BY <1>3, <1>4 DEF R!NoticeClears, R!Noticed
  <1>5. CASE receipt[i] # l.sid
    <2>1. i = j /\ l.sid = s /\ receipt[j] = Nobody
      BY <1>1, <1>5 DEF R!Receipted, R!TypeOK
    <2>2. R!Matches(j, s)
      BY <1>1, <2>1 DEF R!Matches, R!Receipted, R!TypeOK
    <2>3. FALSE
      BY <1>1, <2>1, <2>2 DEF R!Survivors
    <2>4. QED
      BY <2>3
  <1>6. QED
    BY <1>4, <1>5

\* After a notice the local sessions of its sid are those that were inserted
\* later: receipt and deletion are one transaction, in this order.
LEMMA RelyingPartyClears == R!Spec => []R!NoticeClears
<1>1. R!Init => R!NoticeClears
  BY DEF R!Init, R!NoticeClears
<1>2. R!TypeOK /\ R!NoticeClears /\ [R!Next]_(R!vars) => R!NoticeClears'
  <2> SUFFICES ASSUME R!TypeOK, R!NoticeClears, [R!Next]_(R!vars) PROVE R!NoticeClears'
    OBVIOUS
  <2>1. CASE local' \subseteq local /\ UNCHANGED receipt
    BY <2>1 DEF R!NoticeClears, R!Noticed
  <2>2. ASSUME NEW k \in Callback, R!CallbackInsert(k) PROVE R!NoticeClears'
    <3> DEFINE n == [sid |-> callback[k].sid, by |-> callback[k].txn,
                     late |-> R!Noticed(callback[k].sid)]
    <3>1. local' = local \cup {n} /\ UNCHANGED receipt
      BY <2>2 DEF R!CallbackInsert
    <3>2. R!Noticed(n.sid) => n.late
      OBVIOUS
    <3> HIDE DEF n
    <3>3. QED
      BY <3>1, <3>2 DEF R!NoticeClears, R!Noticed
  <2>3. ASSUME NEW h \in Receiver, R!ReceiveBatch(h) PROVE R!NoticeClears'
    BY <2>3, BatchClears
  <2>4. QED
    BY <2>1, <2>2, <2>3 DEF R!Next, R!vars, R!Login, R!TxnExpires, R!CallbackRead,
       R!CallbackConsume, R!Exchanged, R!UserInfo, R!CallbackFail, R!LocalLogout, R!Arrive,
       R!Answer, R!ReceiverFail
<1>3. QED
  BY <1>1, <1>2, RelyingPartyTypes, PTL DEF R!Spec

\* A jti ends the local sessions of the sid of its receipt and of no other.
THEOREM JtiEndsOne == R!Spec => R!JtiEndsOneSid
<1> DEFINE Step == \A h \in Receiver : receiver[h].at = "batch" /\ receiver'[h].at = "answer"
                     /\ receipt[receiver[h].jti] \notin {Nobody, receiver[h].sid}
                     => local' = local
<1>1. R!TypeOK /\ [R!Next]_(R!vars) => [Step]_(R!vars)
  <2> SUFFICES ASSUME R!TypeOK, R!Next, NEW h \in Receiver,
                      receiver[h].at = "batch", receiver'[h].at = "answer",
                      receipt[receiver[h].jti] \notin {Nobody, receiver[h].sid}
               PROVE  local' = local
    BY DEF R!vars
  <2>1. CASE UNCHANGED receiver
    BY <2>1
  <2>2. ASSUME NEW g \in Receiver, R!ReceiveBatch(g) PROVE local' = local
    <3>1. CASE g = h
      <4>1. ~R!Matches(receiver[h].jti, receiver[h].sid)
        BY DEF R!Matches, R!Receipted
      <4>2. QED
        BY <2>2, <3>1, <4>1 DEF R!ReceiveBatch
    <3>2. CASE g # h
      <4>1. receiver'[h] = receiver[h]
        BY <2>2, <3>2 DEF R!ReceiveBatch, R!TypeOK
      <4>2. QED
        BY <4>1
    <3>3. QED
      BY <3>1, <3>2
  <2>3. CASE UNCHANGED local
    BY <2>3
  <2>4. QED
    BY <2>1, <2>2, <2>3 DEF R!Next, R!Login, R!TxnExpires, R!CallbackRead, R!CallbackConsume,
       R!Exchanged, R!UserInfo, R!CallbackInsert, R!CallbackFail, R!LocalLogout, R!Arrive,
       R!Answer, R!ReceiverFail
<1>2. QED
  BY <1>1, RelyingPartyTypes, PTL DEF R!Spec, R!JtiEndsOneSid

-------------------------------------------------------------------------------
(* Every step is a step of the relying party or leaves it alone            *)

LEMMA RelyingPartyStep == SP!TypeOK /\ [Next]_vars => [R!Next]_(R!vars)
  <1> SUFFICES ASSUME SP!TypeOK, [Next]_vars PROVE R!Next \/ UNCHANGED R!vars
    OBVIOUS
  <1>1. CASE BrowserStep
    BY <1>1 DEF BrowserStep, R!Next, R!Login, R!TxnExpires, R!LocalLogout
  <1>2. ASSUME NEW k \in Callback, IssueAccess(k), ~UNCHANGED rp PROVE R!Next
    <2>1. CASE R!CallbackFail(k)
      BY <2>1 DEF R!Next
    <2>2. CASE R!Exchanged(k, flow[k].visit[1]) /\ S!IssueAccess(k)
      <3>1. flow[k].visit \in SP!Visit
        BY <2>2 DEF S!IssueAccess, SP!TypeOK
      <3>2. flow[k].visit[1] \in Sid
        BY <3>1 DEF SP!Visit
      <3>3. QED
        BY <2>2, <3>2 DEF R!Next
    <2>3. QED
      BY <1>2, <2>1, <2>2 DEF IssueAccess
  <1>3. ASSUME NEW k \in Callback, IssueRefresh(k) \/ TokenAbort(k) \/ UserInfo(k),
               ~UNCHANGED rp
        PROVE  R!Next
    BY <1>3 DEF IssueRefresh, TokenAbort, UserInfo, R!Next
  <1>4. ASSUME NEW k \in Callback, NEW s \in Sid, Exchange(k, s), ~UNCHANGED rp
        PROVE  R!Next
    BY <1>4 DEF Exchange, R!Next
  <1>5. ASSUME NEW h \in Receiver, NEW s \in Sid, Arrive(h, s) PROVE R!Next
    BY <1>5 DEF Arrive, R!Next
  <1>6. ASSUME NEW h \in Receiver, Receive(h) \/ Answer(h) PROVE R!Next
    BY <1>6 DEF Receive, Answer, R!Next
  <1>7. CASE UNCHANGED rp
    BY <1>7 DEF rp, R!vars
  <1>8. QED
    BY <1>1, <1>2, <1>3, <1>4, <1>5, <1>6, <1>7 DEF Next, SignIn, RevocationRead,
       Consent, Revoke, Try, Settle, Replay, vars

-------------------------------------------------------------------------------
(* What the parts guarantee holds in the composition                       *)

\* The invariant of the central sessions.
LEMMA SessionsSound == Spec => []SP!IInv
  BY ImplementsSessions, SP!Invariant, PartsAssumption, PTL

\* Global logout implements the relying party, whose callbacks get their sids from
\* the token endpoint.
THEOREM ImplementsRelyingParty == Spec => R!Spec
<1>1. SP!IInv => SP!TypeOK
  BY DEF SP!IInv
<1>2. Init => R!Init
  BY DEF Init
<1>3. QED
  BY <1>1, <1>2, RelyingPartyStep, SessionsSound, PTL DEF Spec, R!Spec

LEMMA RelyingPartySound ==
    Spec => [](R!TypeOK /\ R!OneSessionPerTransaction /\ R!NoticeClears)
  BY ImplementsRelyingParty, RelyingPartyTypes, RelyingPartyOpensOne,
     RelyingPartyClears, PTL

\* However often its callback is retried, and whatever the sso answers, a
\* transaction of the relying party opens one local session.
THEOREM TransactionOpensOne == Spec => []OneSessionPerTransaction
  BY RelyingPartySound, PTL DEF OneSessionPerTransaction

\* Under the notices that the outbox sends, late and duplicated ones included, a
\* receipted sid has no local session but those inserted after the receipt.
THEOREM NoticesClear == Spec => []NoticeClears
  BY RelyingPartySound, PTL DEF NoticeClears

-------------------------------------------------------------------------------
(* The links between the parts                                             *)

\* The sid of a callback, and of a local session, is one that tokens were issued
\* for.
CallbackIsServed ==
    \A k \in Callback : callback[k].at \in {"userinfo", "insert"}
                        => <<callback[k].sid, RP>> \in served
LocalIsServed == \A l \in local : <<l.sid, RP>> \in served

\* A visit in the outbox has a notice.
OutboxHasNotice == \A s \in Sid : <<s, RP>> \in outbox => work[s] # "none"

\* An acknowledged notice was accepted, an accepted notice has its receipt: what
\* the receiver holds is a sid under its own jti.
NoticeHasReceipt ==
    \A s \in Sid : /\ work[s] = "acknowledged" => told[s]
                   /\ told[s] => receipt[s] = s
ReceiverHoldsSid ==
    \A h \in Receiver : receiver[h].at = "batch"
                        => receiver[h].sid \in Sid /\ receiver[h].jti = receiver[h].sid

DeliveryTypes ==
    /\ work \in [Sid -> {"none", "owed", "acknowledged", "abandoned"}]
    /\ told \in [Sid -> BOOLEAN]

Served == CallbackIsServed /\ LocalIsServed
Notices == OutboxHasNotice /\ NoticeHasReceipt /\ ReceiverHoldsSid /\ DeliveryTypes
Links == Served /\ Notices

\* Tokens are issued by IssueAccess only, and never taken from the history.
LEMMA ServedGrows ==
    ASSUME [Next]_vars
    PROVE  served \subseteq served'
  BY DEF Next, vars, sso, SignIn, RevocationRead, Consent, Revoke, IssueRefresh,
     IssueAccess, TokenAbort, UserInfo, Exchange, Try, Settle, Replay, Arrive, Receive,
     Answer, BrowserStep, S!SignInCheck, S!SignInInsert, S!RpLogoutRead, S!LeaveRead,
     S!SelfRead, S!AdminRead, S!Reading, S!GiveUp, S!Authorize, S!Commit,
     S!ExchangeCheck, S!IssueRefresh, S!IssueAccess, S!FlowAbort, S!tokens

\* A batch of revocations is the only step that sends visits to the outbox.
LEMMA OutboxStays ==
    ASSUME [Next]_vars, \A r \in Request : ~Revoke(r)
    PROVE  UNCHANGED outbox
  BY DEF Next, vars, sso, SignIn, RevocationRead, Consent, IssueRefresh,
     IssueAccess, TokenAbort, UserInfo, Exchange, Try, Settle, Replay, Arrive, Receive,
     Answer, BrowserStep, S!SignInCheck, S!SignInInsert, S!RpLogoutRead, S!LeaveRead,
     S!SelfRead, S!AdminRead, S!Reading, S!GiveUp, S!Authorize,
     S!ExchangeCheck, S!IssueRefresh, S!IssueAccess, S!FlowAbort, S!notices

-------------------------------------------------------------------------------
(* Callbacks and local sessions have been served                           *)

\* A step keeps Served if every sid that a callback or a local session has after it
\* was there before or has just been served.
LEMMA ServedFrame ==
    ASSUME [Next]_vars, Served,
           \A k \in Callback :
             callback'[k].at \in {"userinfo", "insert"} =>
               \/ /\ callback[k].at \in {"userinfo", "insert"}
                  /\ callback'[k].sid = callback[k].sid
               \/ <<callback'[k].sid, RP>> \in served',
           \A l \in local' : l \in local \/ <<l.sid, RP>> \in served
    PROVE  Served'
  BY ServedGrows DEF Served, CallbackIsServed, LocalIsServed

\* A callback that stops is in neither place, the others stay where they are.
LEMMA FailServes ==
    ASSUME R!TypeOK, [Next]_vars, Served, NEW k \in Callback, R!CallbackFail(k)
    PROVE  Served'
  <1>1. R!Stop(k) /\ UNCHANGED local
    BY DEF R!CallbackFail
  <1>2. \A m \in Callback : m # k => callback'[m] = callback[m]
    BY <1>1, StopMoves
  <1>3. callback'[k].at = "idle"
    BY <1>1 DEF R!Stop, R!Goto, R!TypeOK
  <1>4. QED
    BY <1>1, <1>2, <1>3, ServedFrame

\* A callback gets the sid for which its request has just been served.
LEMMA ExchangedServes ==
    ASSUME R!TypeOK, [Next]_vars, Served, NEW k \in Callback, NEW s \in Sid,
           R!Exchanged(k, s), <<s, RP>> \in served'
    PROVE  Served'
  <1>1. /\ R!Goto(k, [callback[k] EXCEPT !.at = "userinfo", !.sid = s])
        /\ UNCHANGED local
    BY DEF R!Exchanged, R!HasSid
  <1>2. callback[k] \in [at : {"idle", "consume", "exchange", "userinfo", "insert"},
                         txn : Txn, sid : Sid \cup {Nobody}]
    BY DEF R!TypeOK
  <1> DEFINE c == [callback[k] EXCEPT !.at = "userinfo", !.sid = s]
  <1>3. c.sid = s
    BY <1>2
  <1> HIDE DEF c
  <1>4. \A m \in Callback : callback'[m] = IF m = k THEN c ELSE callback[m]
    BY <1>1, GotoMoves DEF c
  <1>5. QED
    BY <1>1, <1>3, <1>4, ServedFrame

\* The insert takes the sid of the callback.
LEMMA InsertServes ==
    ASSUME R!TypeOK, [Next]_vars, Served, NEW k \in Callback, R!CallbackInsert(k)
    PROVE  Served'
  <1>1. /\ callback[k].at = "insert" /\ R!Stop(k)
        /\ local' = local \cup {[sid |-> callback[k].sid, by |-> callback[k].txn,
                                 late |-> R!Noticed(callback[k].sid)]}
    BY DEF R!CallbackInsert
  <1>2. \A m \in Callback : m # k => callback'[m] = callback[m]
    BY <1>1, StopMoves
  <1>3. callback'[k].at = "idle"
    BY <1>1 DEF R!Stop, R!Goto, R!TypeOK
  <1>4. \A l \in local' : l \in local \/ <<l.sid, RP>> \in served
    BY <1>1 DEF Served, CallbackIsServed
  <1>5. QED
    BY <1>2, <1>3, <1>4, ServedFrame

\* Every step of the browser and of the callbacks keeps Served.
LEMMA BrowserServes ==
    ASSUME R!TypeOK, [Next]_vars, Served, BrowserStep
    PROVE  Served'
  <1>1. ASSUME NEW k \in Callback, NEW t \in Txn, R!CallbackRead(k, t) PROVE Served'
    <2>1. /\ R!Goto(k, [at |-> "consume", txn |-> t, sid |-> Nobody])
          /\ UNCHANGED local
      BY <1>1 DEF R!CallbackRead
    <2>2. QED
      BY <2>1, GotoMoves, ServedFrame
  <1>2. ASSUME NEW k \in Callback, R!CallbackConsume(k) PROVE Served'
    <2>1. R!CallbackConsume(k) /\ UNCHANGED local
      BY <1>2 DEF R!CallbackConsume
    <2>2. \/ R!Goto(k, [callback[k] EXCEPT !.at = "exchange"])
          \/ R!Stop(k)
      BY <2>1 DEF R!CallbackConsume
    <2>3. /\ callback'[k].at \in {"exchange", "idle"}
          /\ \A m \in Callback : m # k => callback'[m] = callback[m]
      <3>1. CASE R!Goto(k, [callback[k] EXCEPT !.at = "exchange"])
        <4> DEFINE c == [callback[k] EXCEPT !.at = "exchange"]
        <4>1. c.at = "exchange"
          BY CallbackFields
        <4>2. R!Goto(k, c)
          BY <3>1
        <4> HIDE DEF c
        <4>3. \A m \in Callback : callback'[m] = IF m = k THEN c ELSE callback[m]
          BY <4>2, GotoMoves
        <4>4. QED
          BY <4>1, <4>3
      <3>2. CASE R!Stop(k)
        <4>1. PICK c \in CallbackRec : R!Goto(k, c) /\ c.at = "idle"
          BY <3>2, StopTyped
        <4>2. QED
          BY <4>1, GotoMoves
      <3>3. QED
        BY <2>2, <3>1, <3>2
    <2>4. QED
      BY <2>1, <2>3, ServedFrame
  <1>3. CASE UNCHANGED callback /\ local' \subseteq local
    BY <1>3, ServedFrame
  <1>4. QED
    BY <1>1, <1>2, <1>3, InsertServes, FailServes
    DEF BrowserStep, R!Login, R!TxnExpires, R!LocalLogout

\* Every step keeps Served.
LEMMA ServedStep == SP!TypeOK /\ R!TypeOK /\ Served /\ [Next]_vars => Served'
  <1> SUFFICES ASSUME SP!TypeOK, R!TypeOK, Served, [Next]_vars PROVE Served'
    OBVIOUS
  <1>1. ASSUME NEW k \in Callback, IssueAccess(k), ~UNCHANGED rp PROVE Served'
    <2>1. CASE R!CallbackFail(k)
      BY <2>1, FailServes
    <2>2. CASE /\ S!IssueAccess(k) /\ S!ForeignKey(flow[k].visit)
               /\ R!Exchanged(k, flow[k].visit[1])
      <3>1. flow[k].visit \in SP!Visit /\ flow[k].visit \in served'
        BY <2>2 DEF S!IssueAccess, SP!TypeOK
      <3>2. flow[k].visit[1] \in Sid /\ <<flow[k].visit[1], RP>> \in served'
        BY <3>1 DEF SP!Visit
      <3>3. QED
        BY <2>2, <3>2, ExchangedServes
    <2>3. QED
      BY <1>1, <2>1, <2>2 DEF IssueAccess
  <1>2. ASSUME NEW k \in Callback, UserInfo(k) PROVE Served'
    <2>1. /\ callback[k].at = "userinfo" /\ UNCHANGED local
          /\ R!Goto(k, [callback[k] EXCEPT !.at = "insert"])
      BY <1>2 DEF UserInfo, R!UserInfo
    <2>2. [callback[k] EXCEPT !.at = "insert"].sid = callback[k].sid
      BY DEF R!TypeOK
    <2>3. QED
      BY <2>1, <2>2, GotoMoves, ServedFrame
  <1>3. ASSUME NEW k \in Callback, IssueRefresh(k) \/ TokenAbort(k), ~UNCHANGED rp
        PROVE  Served'
    BY <1>3, FailServes DEF IssueRefresh, TokenAbort
  <1>4. ASSUME NEW k \in Callback, NEW s \in Sid, Exchange(k, s), ~UNCHANGED rp
        PROVE  Served'
    BY <1>4, FailServes DEF Exchange
  <1>5. ASSUME NEW h \in Receiver, Receive(h) PROVE Served'
    BY <1>5, ServedFrame DEF Receive, R!ReceiveBatch, R!Survivors
  <1>6. ASSUME NEW h \in Receiver, Answer(h) \/ \E s \in Sid : Arrive(h, s)
        PROVE  Served'
    BY <1>6, ServedFrame DEF Answer, Arrive, R!Answer, R!ReceiverFail, R!Arrive
  <1>7. CASE UNCHANGED rp
    BY <1>7, ServedFrame DEF rp
  <1>8. QED
    BY <1>1, <1>2, <1>3, <1>4, <1>5, <1>6, <1>7, BrowserServes
    DEF Next, SignIn, RevocationRead, Consent, Revoke, Try, Settle, Replay, vars

-------------------------------------------------------------------------------
(* Notices, what was told and the receipts                                 *)

\* A step of the delivery of one notice: it was recorded before, and what becomes
\* acknowledged has been told.
LEMMA DeliveryKeeps ==
    ASSUME Notices, NEW s \in Sid, Try(s) \/ Settle(s) \/ Replay(s)
    PROVE  Notices'
  <1>1. UNCHANGED <<outbox, receipt, receiver, told>>
    BY DEF Try, Settle, Replay, sso, rp, D!Try, D!Acknowledge, D!Abandon, D!Reopen
  <1>2. \/ UNCHANGED work
        \/ work' = [work EXCEPT ![s] = "acknowledged"] /\ told[s]
        \/ work' = [work EXCEPT ![s] = "abandoned"]
        \/ work' = [work EXCEPT ![s] = "owed"]
    BY DEF Try, Settle, Replay, D!Try, D!Acknowledge, D!Abandon, D!Reopen
  <1>3. QED
    BY <1>1, <1>2 DEF Notices, OutboxHasNotice, NoticeHasReceipt, ReceiverHoldsSid,
       DeliveryTypes

\* A batch of revocations records the notices of the visits that it moves.
LEMMA RevokeKeeps ==
    ASSUME Notices, NEW r \in Request, Revoke(r)
    PROVE  Notices'
  BY DEF Revoke, Notices, OutboxHasNotice, NoticeHasReceipt, ReceiverHoldsSid,
     DeliveryTypes, rp

\* The receiver gets a sid under its own jti: the receipt of a sid is its own, and
\* the relying party has accepted no notice without it.
LEMMA ReceiveKeeps ==
    ASSUME R!TypeOK, Notices, NEW h \in Receiver, Receive(h)
    PROVE  Notices'
  <1> DEFINE s == receiver[h].sid
  <1>1. s \in Sid /\ receiver[h].jti = s /\ receiver[h].at = "batch"
    BY DEF Receive, R!ReceiveBatch, Notices, ReceiverHoldsSid
  <1>2. /\ receipt' = R!Receipted(s, s)
        /\ receiver' = [receiver EXCEPT ![h].at = "answer"]
        /\ UNCHANGED <<work, outbox>>
    BY <1>1 DEF Receive, R!ReceiveBatch, D!Hear, deliveries, sso
  <1>3. \/ UNCHANGED told
        \/ told' = [told EXCEPT ![s] = TRUE] /\ receipt'[s] = s
    <2>1. IF R!Matches(s, s) THEN D!Hear(s) ELSE UNCHANGED deliveries
      BY DEF Receive
    <2>2. R!Matches(s, s) => receipt'[s] = s
      BY <1>2 DEF R!Matches
    <2>3. QED
      BY <2>1, <2>2 DEF D!Hear, deliveries
  <1>4. /\ receipt \in [Sid -> Sid \cup {Nobody}]
        /\ receiver \in [Receiver -> [at : {"idle", "batch", "answer"}, jti : Sid,
                                      sid : Sid \cup {Nobody}]]
    BY DEF R!TypeOK
  <1> HIDE DEF s
  <1>5. \A t \in Sid : receipt[t] = t => receipt'[t] = t
    BY <1>1, <1>2, <1>4 DEF R!Receipted
  <1>6. DeliveryTypes'
    BY <1>1, <1>2, <1>3 DEF Notices, DeliveryTypes
  <1>7. \A t \in Sid : told'[t] => told[t] \/ receipt'[t] = t
    BY <1>1, <1>3 DEF Notices, DeliveryTypes
  <1>8. \A t \in Sid : told[t] => told'[t]
    BY <1>1, <1>3 DEF Notices, DeliveryTypes
  <1>9. NoticeHasReceipt'
    BY <1>2, <1>5, <1>7, <1>8 DEF Notices, NoticeHasReceipt
  <1>10. ReceiverHoldsSid'
    BY <1>2, <1>4 DEF Notices, ReceiverHoldsSid
  <1>11. QED
    BY <1>2, <1>6, <1>9, <1>10 DEF Notices, OutboxHasNotice

\* A POST brings a sid under its own jti.
LEMMA ArriveKeeps ==
    ASSUME R!TypeOK, Notices, NEW h \in Receiver, NEW s \in Sid, Arrive(h, s)
    PROVE  Notices'
  <1>1. /\ receiver' = [receiver EXCEPT ![h] = [at |-> "batch", jti |-> s, sid |-> s]]
        /\ UNCHANGED <<work, told, outbox, receipt>>
    BY DEF Arrive, R!Arrive, sso, deliveries
  <1>2. ReceiverHoldsSid'
    BY <1>1 DEF Notices, ReceiverHoldsSid, R!TypeOK
  <1>3. QED
    BY <1>1, <1>2 DEF Notices, OutboxHasNotice, NoticeHasReceipt, DeliveryTypes

\* An answer, or the end of a request, frees the receiver.
LEMMA AnswerKeeps ==
    ASSUME R!TypeOK, Notices, NEW h \in Receiver, Answer(h)
    PROVE  Notices'
  <1>1. /\ receiver' = [receiver EXCEPT ![h].at = "idle", ![h].sid = Nobody]
        /\ UNCHANGED <<work, told, outbox, receipt>>
    BY DEF Answer, R!Answer, R!ReceiverFail, sso, deliveries
  <1>2. \A g \in Receiver : receiver'[g].at = "batch" => receiver'[g] = receiver[g]
    BY <1>1 DEF R!TypeOK
  <1>3. ReceiverHoldsSid'
    BY <1>2 DEF Notices, ReceiverHoldsSid
  <1>4. QED
    BY <1>1, <1>3 DEF Notices, OutboxHasNotice, NoticeHasReceipt, DeliveryTypes

\* The other steps change neither notices nor receipts.
LEMMA NoticesStep == R!TypeOK /\ Notices /\ [Next]_vars => Notices'
  <1> SUFFICES ASSUME R!TypeOK, Notices, [Next]_vars PROVE Notices'
    OBVIOUS
  <1>1. CASE UNCHANGED <<outbox, work, told, receipt, receiver>>
    BY <1>1 DEF Notices, OutboxHasNotice, NoticeHasReceipt, ReceiverHoldsSid,
       DeliveryTypes
  <1>2. ASSUME UNCHANGED deliveries,
               \/ UNCHANGED rp \/ BrowserStep
               \/ \E k \in Callback : \/ R!CallbackFail(k) \/ R!UserInfo(k)
                                      \/ R!Exchanged(k, flow[k].visit[1])
        PROVE  UNCHANGED <<work, told, receipt, receiver>>
    BY <1>2 DEF deliveries, rp, BrowserStep, R!Login, R!TxnExpires, R!CallbackRead,
       R!CallbackConsume, R!CallbackInsert, R!CallbackFail, R!LocalLogout, R!UserInfo,
       R!Exchanged
  <1>3. CASE SignIn \/ RevocationRead \/ Consent \/ BrowserStep \/ UNCHANGED vars
    <2>1. \A r \in Request : ~Revoke(r) \/ UNCHANGED outbox
      BY <1>3, OutboxStays DEF SignIn, RevocationRead, Consent, BrowserStep, S!SignInCheck,
         S!SignInInsert, S!RpLogoutRead, S!LeaveRead, S!SelfRead, S!AdminRead, S!Reading,
         S!GiveUp, S!Authorize, S!notices, vars, sso
    <2>2. QED
      BY <1>1, <1>2, <1>3, <2>1, OutboxStays DEF SignIn, RevocationRead, Consent,
         BrowserStep, vars
  <1>4. ASSUME NEW k \in Callback,
               \/ IssueRefresh(k) \/ IssueAccess(k) \/ TokenAbort(k) \/ UserInfo(k)
               \/ \E s \in Sid : Exchange(k, s)
        PROVE  Notices'
    <2>1. UNCHANGED outbox
      BY <1>4 DEF IssueRefresh, IssueAccess, TokenAbort, UserInfo, Exchange,
         S!IssueRefresh, S!IssueAccess, S!FlowAbort, S!ExchangeCheck, S!notices, sso
    <2>2. UNCHANGED <<work, told, receipt, receiver>>
      BY <1>2, <1>4 DEF IssueRefresh, IssueAccess, TokenAbort, UserInfo, Exchange
    <2>3. QED
      BY <1>1, <2>1, <2>2
  <1>5. QED
    BY <1>3, <1>4, DeliveryKeeps, RevokeKeeps, ReceiveKeeps, ArriveKeeps, AnswerKeeps
    DEF Next

-------------------------------------------------------------------------------
(* What holds end to end                                                   *)

\* The links hold in every reachable state.
LEMMA LinksSound == Spec => []Links
<1>1. Init => Links
  <2>1. Init => /\ \A k \in Callback : callback[k].at = "idle"
                /\ \A h \in Receiver : receiver[h].at = "idle"
                /\ local = {} /\ outbox = {}
                /\ work = [s \in Sid |-> "none"] /\ told = [s \in Sid |-> FALSE]
    BY DEF Init, S!Init, R!Init, D!Init, R!Callback0, R!Receiver0
  <2>2. QED
    BY <2>1 DEF Links, Served, CallbackIsServed, LocalIsServed, Notices, OutboxHasNotice,
       NoticeHasReceipt, ReceiverHoldsSid, DeliveryTypes
<1>2. SP!IInv => SP!TypeOK
  BY DEF SP!IInv
<1>3. SP!TypeOK /\ R!TypeOK /\ Links /\ [Next]_vars => Links'
  BY ServedStep, NoticesStep DEF Links
<1>4. QED
  BY <1>1, <1>2, <1>3, SessionsSound, RelyingPartySound, PTL DEF Spec

\* No interleaving of callback, token issuance and revocation opens a local session
\* that the outbox does not know of: a callback has a sid only after the trigger
\* has recorded the visit that the batch of the revocation then finds.
THEOREM SessionsAreCovered == Spec => []LocalSessionsAreCovered
<1>1. SP!IInv /\ Links => LocalSessionsAreCovered
  <2> SUFFICES ASSUME SP!IInv, Links, NEW l \in local, l.sid \in revoked
               PROVE  work[l.sid] # "none"
    BY DEF LocalSessionsAreCovered
  <2>1. <<l.sid, RP>> \in served
    BY DEF Links, Served, LocalIsServed
  <2>2. <<l.sid, RP>> \in outbox
    BY <2>1 DEF SP!IInv, SP!SessionInv, SP!VisitedAreNotified
  <2>3. l.sid \in Sid
    BY DEF SP!IInv, SP!TypeOK, SP!Minted
  <2>4. QED
    BY <2>2, <2>3 DEF Links, Notices, OutboxHasNotice
<1>2. QED
  BY <1>1, SessionsSound, LinksSound, PTL

\* Once the sso takes a notice for acknowledged, the local sessions of its sid are
\* gone but those of callbacks that were past userinfo.
THEOREM AcknowledgedLeaves == Spec => []AcknowledgedLeavesLate
<1>1. R!TypeOK /\ R!NoticeClears /\ Links => AcknowledgedLeavesLate
  <2> SUFFICES ASSUME R!TypeOK, R!NoticeClears, Links, NEW l \in local,
                      work[l.sid] = "acknowledged"
               PROVE  l.late
    BY DEF AcknowledgedLeavesLate
  <2>1. l.sid \in Sid
    BY DEF R!TypeOK, R!Local
  <2>2. receipt[l.sid] = l.sid
    BY <2>1 DEF Links, Notices, NoticeHasReceipt
  <2>3. QED
    BY <2>1, <2>2 DEF R!NoticeClears, R!Noticed
<1>2. QED
  BY <1>1, RelyingPartySound, LinksSound, PTL

\* Only userinfo takes a callback to its insert.
LEMMA OnlyUserInfo ==
    ASSUME R!TypeOK, Next, NEW k \in Callback,
           callback'[k].at = "insert", callback[k].at # "insert"
    PROVE  UserInfo(k)
  <1>1. ASSUME NEW m \in Callback, R!Stop(m) PROVE FALSE
    <2>1. callback'[m].at = "idle"
      BY <1>1 DEF R!Stop, R!Goto, R!TypeOK
    <2>2. QED
      BY <1>1, <2>1, StopMoves
  <1>2. ASSUME NEW m \in Callback, NEW c, c.at # "insert", R!Goto(m, c) PROVE FALSE
    BY <1>2, GotoMoves
  <1>3. \A m \in Callback :
          [callback[m] EXCEPT !.at = "exchange"].at = "exchange"
    BY DEF R!TypeOK
  <1>4. \A m \in Callback, s \in Sid :
          [callback[m] EXCEPT !.at = "userinfo", !.sid = s].at = "userinfo"
    BY DEF R!TypeOK
  <1>5. ASSUME BrowserStep PROVE FALSE
    <2>1. \E m \in Callback :
            \/ \E t \in Txn : R!CallbackRead(m, t)
            \/ R!CallbackConsume(m) \/ R!CallbackInsert(m) \/ R!CallbackFail(m)
      BY <1>5 DEF BrowserStep, R!Login, R!TxnExpires, R!LocalLogout
    <2>2. QED
      BY <2>1, <1>1, <1>2, <1>3 DEF R!CallbackRead, R!CallbackConsume,
         R!CallbackInsert, R!CallbackFail
  <1>6. ASSUME NEW m \in Callback, \/ R!CallbackFail(m)
                                   \/ \E s : R!Exchanged(m, s)
        PROVE  FALSE
    BY <1>1, <1>2, <1>4, <1>6 DEF R!CallbackFail, R!Exchanged,
       R!HasSid
  <1>7. ASSUME NEW m \in Callback, UserInfo(m) PROVE m = k
    BY <1>7, GotoMoves DEF UserInfo, R!UserInfo
  <1>8. ~UNCHANGED callback
    OBVIOUS
  <1>9. QED
    BY <1>5, <1>6, <1>7, <1>8
    DEF Next, SignIn, RevocationRead, Consent, Revoke, IssueRefresh, IssueAccess,
        TokenAbort, Exchange, Try, Settle, Replay, Arrive, Receive, Answer, rp,
        R!Arrive, R!ReceiveBatch, R!Answer, R!ReceiverFail

\* After the revocation no callback gets past userinfo: its access token went with
\* the session.
THEOREM RevocationCloses == Spec => RevocationClosesCallbacks
<1> DEFINE Closed == \A k \in Callback :
                       callback'[k].at = "insert" /\ callback'[k].sid \in revoked
                       => callback[k].at = "insert"
<1>1. SP!IInv /\ R!TypeOK /\ [Next]_vars => [Closed]_vars
  <2> SUFFICES ASSUME SP!IInv, R!TypeOK, Next, NEW k \in Callback,
                      callback'[k].at = "insert", callback'[k].sid \in revoked,
                      callback[k].at # "insert"
               PROVE  FALSE
    OBVIOUS
  <2>1. UserInfo(k)
    BY OnlyUserInfo
  <2>2. <<callback[k].sid, RP>> \in access
    BY <2>1 DEF UserInfo, TokenStored
  <2>3. callback'[k].sid = callback[k].sid
    BY <2>1 DEF UserInfo, R!UserInfo, R!Goto, R!TypeOK
  <2>4. callback[k].sid \notin revoked
    BY <2>2 DEF SP!IInv, SP!SessionInv, SP!RevokedHasNoToken
  <2>5. QED
    BY <2>3, <2>4
<1>2. QED
  BY <1>1, SessionsSound, RelyingPartySound, PTL DEF Spec, RevocationClosesCallbacks
===============================================================================
