---------------------------- MODULE AccountRecovery ----------------------------
(***************************************************************************)
(* How one user gets back into the account, and how the ways in are taken  *)
(* away: recovery codes and their rotation, the recovery session and its   *)
(* passkey ceremony, the unlinking of providers and the removal of         *)
(* passkeys. A handler reads, and one statement or batch later it writes;  *)
(* anything may happen in between.                                         *)
(***************************************************************************)
EXTENDS Integers, FiniteSets

CONSTANTS
    Codes,          \* the codes of a set (RECOVERY_CODE_COUNT of them)
    MaxGeneration,  \* bound on the number of code sets
    Recoveries,     \* ids of recovery sessions, each used at most once
    Challenges,     \* ids of recovery challenges, each used at most once
    Passkeys,       \* credential ids
    Providers,      \* identity providers that can be linked
    Sessions,       \* ids of central sessions, each used at most once
    Requests,       \* concurrent requests
    None            \* none of the above

ASSUME GenerationAssumption == MaxGeneration \in Nat
ASSUME NoneAssumption == None \notin Sessions \cup Challenges \cup Recoveries

VARIABLES
    status,     \* user.status
    accounts,   \* rows of account
    passkeys,   \* rows of passkey
    session,    \* rows of session
    fresh,      \* sessions created less than FRESH_SESSION_MAX_AGE_MS ago
    stepped,    \* sessions with a recent passkeyStepUpAt
    active,     \* generation of the recovery_code_set that is not revoked, or 0
    newest,     \* MAX(generation)
    unused,     \* recovery_code rows of the active set with consumed_at NULL
    recovery,   \* the row of recovery_session with its challenge, or NoRecovery
    request,    \* what each request has read, and where it is
    used,       \* session, recovery and challenge ids that have been used
    issuer,     \* history: the session that issued each generation
    endedAt,    \* history: the newest generation when a session ended
    openings,   \* history: (generation, code, recovery) of each start
    closed,     \* history: recoveries that ended without completing
    completed   \* history: recoveries that completed

codes == <<active, newest, unused>>
logins == <<accounts, passkeys>>
central == <<session, fresh, stepped, endedAt>>
history == <<issuer, openings, closed, completed>>
vars == <<status, logins, central, codes, recovery, request, used, history>>

-------------------------------------------------------------------------------
Generation == 0..MaxGeneration

NoRecovery == [id |-> None]
Recovery == [id : Recoveries, generation : Generation, code : Codes,
             expired : BOOLEAN, challenge : Challenges \cup {None}, lapsed : BOOLEAN]

Idle == [kind |-> "idle"]
StartRequest == [kind : {"start"}, generation : Generation, code : Codes]
OptionsRequest == [kind : {"options"}, recovery : Recoveries]
VerifyRequest == [kind : {"verify"}, recovery : Recoveries, generation : Generation,
                  code : Codes]
CompleteRequest == [kind : {"complete"}, recovery : Recoveries, generation : Generation,
                    code : Codes, challenge : Challenges]
ManageRequest == [kind : {"issue", "withdraw"}, session : Sessions,
                  active : Generation, newest : Generation]
UnlinkRequest == [kind : {"unlink"}, provider : Providers]
RemoveRequest == [kind : {"remove"}, passkey : Passkeys]
Pending == {Idle} \cup StartRequest \cup OptionsRequest \cup VerifyRequest
           \cup CompleteRequest \cup ManageRequest \cup UnlinkRequest \cup RemoveRequest

TypeOK ==
    /\ status \in {"active", "suspended"}
    /\ accounts \subseteq Providers /\ passkeys \subseteq Passkeys
    /\ session \subseteq Sessions /\ fresh \subseteq session /\ stepped \subseteq session
    /\ active \in Generation /\ newest \in Generation /\ unused \subseteq Codes
    /\ recovery \in Recovery \cup {NoRecovery}
    /\ request \in [Requests -> Pending]
    /\ used \subseteq Sessions \cup Recoveries \cup Challenges
    /\ issuer \in [Generation -> Sessions \cup {None}]
    /\ endedAt \in [Sessions -> Generation]
    /\ openings \subseteq Generation \X Codes \X Recoveries
    /\ closed \subseteq Recoveries /\ completed \subseteq Recoveries

\* A user who registered with one provider and has no codes yet.
Init ==
    /\ status = "active"
    /\ accounts \in {{p} : p \in Providers} /\ passkeys = {}
    /\ session = {} /\ fresh = {} /\ stepped = {}
    /\ active = 0 /\ newest = 0 /\ unused = {}
    /\ recovery = NoRecovery
    /\ request = [q \in Requests |-> Idle]
    /\ used = {}
    /\ issuer = [g \in Generation |-> None]
    /\ endedAt = [s \in Sessions |-> 0]
    /\ openings = {} /\ closed = {} /\ completed = {}

-------------------------------------------------------------------------------
(* Conditions and effects                                                  *)

Open == recovery # NoRecovery

\* recoverySession(): the row, its user and its code set are all usable.
Usable(r) ==
    /\ Open /\ recovery.id = r /\ ~recovery.expired
    /\ status = "active"
    /\ active = recovery.generation

Goto(q, next) == request' = [request EXCEPT ![q] = next]

\* Handlers that remember something for their write.
Reading(q, next) ==
    /\ request[q] = Idle
    /\ Goto(q, next)
    /\ UNCHANGED <<status, logins, central, codes, recovery, used, history>>

\* Recovery session rows are deleted with the user's suspension, with their code
\* (CASCADE), on cancelling and when a new one replaces an expired one.
CloseRecovery ==
    /\ recovery' = NoRecovery
    /\ closed' = closed \cup (IF Open THEN {recovery.id} ELSE {})

\* (slip: only the status changes, the recovery session stays)
BugKeepRecovery == UNCHANGED <<recovery, closed>>

\* Trigger user_recovery_session_suspension_cleanup.
SuspensionCleanup == CloseRecovery

\* DELETE FROM session: with its age and step-up time.
EndSessions(S) ==
    /\ session' = session \ S
    /\ fresh' = fresh \ S
    /\ stepped' = stepped \ S
    /\ endedAt' = [s \in Sessions |-> IF s \in S \cap session THEN newest ELSE endedAt[s]]

\* UPDATE ... SET revoked_at with its cleanup trigger, and the next set, all codes
\* unused.
NextSet(g, by) ==
    /\ active' = g /\ newest' = g /\ unused' = Codes
    /\ issuer' = [issuer EXCEPT ![g] = by]

\* UNIQUE (user_id, generation): the batch aborts if g is taken.
Free(g) == g > newest /\ g <= MaxGeneration

-------------------------------------------------------------------------------
(* POST /api/recovery/start                                                *)

\* The lookup by hash finds the code while its set is not revoked.
StartRead(q, c) ==
    /\ active # 0
    /\ Reading(q, [kind |-> "start", generation |-> active, code |-> c])

\* (slip: the lookup is trusted, consumed_at is not checked again)
BugCodeTrusted(p) == p.generation = active

\* The code is still there, in the active set, and has not been consumed.
CodeUnused(p) == p.generation = active /\ p.code \in unused

\* An expired recovery session makes way, whatever becomes of the code.
MakesWay == Open /\ recovery.expired

Startable(p) == CodeUnused(p) /\ status = "active" /\ (~Open \/ recovery.expired)

\* The batch: the code is consumed and the recovery session inserted, or neither.
StartCommit(q) ==
    LET p == request[q]
    IN  /\ p.kind = "start"
        /\ closed' = IF MakesWay THEN closed \cup {recovery.id} ELSE closed
        /\ IF Startable(p)
           THEN \E r \in Recoveries \ used :
                  /\ recovery' = [id |-> r, generation |-> active, code |-> p.code,
                                  expired |-> FALSE, challenge |-> None, lapsed |-> FALSE]
                  /\ unused' = unused \ {p.code}
                  /\ used' = used \cup {r}
                  /\ openings' = openings \cup {<<active, p.code, r>>}
           ELSE /\ recovery' = IF MakesWay THEN NoRecovery ELSE recovery
                /\ UNCHANGED <<unused, used, openings>>
        /\ Goto(q, Idle)
        /\ UNCHANGED <<status, logins, central, active, newest, issuer, completed>>

-------------------------------------------------------------------------------
(* The recovery session and its passkey ceremony                           *)

\* DELETE /api/recovery/session: by token hash alone.
Cancel(r) ==
    /\ Open /\ recovery.id = r
    /\ CloseRecovery
    /\ UNCHANGED <<status, logins, central, codes, request, used, issuer, openings,
                   completed>>

\* The open recovery session with this challenge, or with none.
WithChallenge(h) ==
    [id |-> recovery.id, generation |-> recovery.generation, code |-> recovery.code,
     expired |-> recovery.expired, challenge |-> h, lapsed |-> FALSE]

\* POST /api/recovery/passkey/options: the session check.
OptionsRead(q, r) ==
    /\ Usable(r)
    /\ Reading(q, [kind |-> "options", recovery |-> r])

\* ... and the batch: the session's challenge, or one that has lapsed, is deleted,
\* a new one inserted if the session is still usable.
OptionsCommit(q) ==
    LET r == request[q].recovery
    IN  /\ request[q].kind = "options"
        /\ IF Usable(r)
           THEN \E h \in Challenges \ used :
                  /\ recovery' = WithChallenge(h)
                  /\ used' = used \cup {h}
           ELSE /\ recovery' = IF Open /\ (recovery.id = r \/ recovery.lapsed)
                               THEN WithChallenge(None)
                               ELSE recovery
                /\ UNCHANGED used
        /\ Goto(q, Idle)
        /\ UNCHANGED <<status, logins, central, codes, issuer, openings, closed, completed>>

\* POST /api/recovery/passkey/verify: the session check, whose row is kept.
VerifyRead(q, r) ==
    /\ Usable(r)
    /\ Reading(q, [kind |-> "verify", recovery |-> r,
                   generation |-> recovery.generation, code |-> recovery.code])

\* (slip: the challenge is read, and deleted by the completion only)
BugChallengeRead == recovery.challenge

\* DELETE ... RETURNING challenge: who gets it has removed it.
ChallengeTaken == None

\* ... and the challenge of that session, unless it has lapsed.
VerifyTake(q, h) ==
    LET p == request[q]
    IN  /\ p.kind = "verify"
        /\ Usable(p.recovery) /\ recovery.challenge = h /\ ~recovery.lapsed
        /\ recovery' = WithChallenge(ChallengeTaken)
        /\ Goto(q, [kind |-> "complete", recovery |-> p.recovery,
                    generation |-> p.generation, code |-> p.code, challenge |-> h])
        /\ UNCHANGED <<status, logins, central, codes, used, history>>

\* (slip: the session that was read is trusted)
BugRecoveryTrusted(p) == TRUE

\* The session row is still the one that was read, and usable.
SameRecovery(p) ==
    Usable(p.recovery) /\ recovery.generation = p.generation /\ recovery.code = p.code

\* NOT EXISTS (SELECT 1 FROM recovery_passkey_challenge ...)
NoNewerCeremony == Open => recovery.challenge = None

\* ... and the batch, which verified the response in between: the new passkey, the
\* next code set, the end of every central session and of the recovery session.
Complete(q, k) ==
    LET p == request[q]
    IN  /\ p.kind = "complete"
        /\ SameRecovery(p) /\ NoNewerCeremony /\ k \notin passkeys
        /\ Free(p.generation + 1)
        /\ passkeys' = passkeys \cup {k}
        /\ NextSet(p.generation + 1, None)
        /\ EndSessions(session)
        /\ recovery' = NoRecovery
        /\ completed' = completed \cup {p.recovery}
        /\ Goto(q, Idle)
        /\ UNCHANGED <<status, accounts, used, openings, closed>>

-------------------------------------------------------------------------------
(* Rotating and revoking codes                                             *)

\* authenticatedManagement and mutationSnapshotEligible.
ManageRead(q, s, kind) ==
    /\ s \in fresh \cap stepped /\ status = "active" /\ passkeys # {}
    /\ kind = "withdraw" => active # 0
    /\ Reading(q, [kind |-> kind, session |-> s, active |-> active, newest |-> newest])

\* (slip: the commit forgets the session of the snapshot)
BugSessionTrusted(p) == status = "active" /\ passkeys # {}

\* managementCommitPredicate. Its time bounds are those of the read, so of the
\* session only the existence of its row can have changed.
MayManage(p) == p.session \in session /\ status = "active" /\ passkeys # {}

\* Nothing was issued or revoked since.
SameSnapshot(p) == newest = p.newest /\ active = p.active

\* POST /api/account/recovery-codes/rotate: the batch.
Issue(q) ==
    LET p == request[q]
    IN  /\ p.kind = "issue"
        /\ MayManage(p) /\ SameSnapshot(p) /\ Free(p.newest + 1)
        /\ NextSet(p.newest + 1, p.session)
        /\ CloseRecovery
        /\ Goto(q, Idle)
        /\ UNCHANGED <<status, logins, central, used, openings, completed>>

\* DELETE /api/account/recovery-codes: the batch.
Withdraw(q) ==
    LET p == request[q]
    IN  /\ p.kind = "withdraw"
        /\ MayManage(p) /\ SameSnapshot(p)
        /\ active' = 0 /\ unused' = {}
        /\ CloseRecovery
        /\ Goto(q, Idle)
        /\ UNCHANGED <<status, logins, central, newest, used, issuer, openings,
                       completed>>

-------------------------------------------------------------------------------
(* Ways to sign in                                                         *)

Methods == Cardinality(accounts) + Cardinality(passkeys)

\* (slip: the unused code is left to the check before)
BugCodesRead == TRUE

\* Another way to sign in, and behind the last provider an unused code. The
\* conditions of the check are repeated by the DELETE.
AnotherMethod == Methods > 1
Covered == Cardinality(accounts) > 1 \/ unused # {}

\* DELETE /api/account/login-methods/:accountId
UnlinkRead(q, a) ==
    /\ session # {} /\ status = "active" /\ a \in accounts
    /\ Methods > 1 /\ (Cardinality(accounts) = 1 => unused # {})
    /\ Reading(q, [kind |-> "unlink", provider |-> a])

Unlink(q) ==
    /\ request[q].kind = "unlink"
    /\ request[q].provider \in accounts /\ AnotherMethod /\ Covered
    /\ accounts' = accounts \ {request[q].provider}
    /\ Goto(q, Idle)
    /\ UNCHANGED <<status, passkeys, central, codes, recovery, used, history>>

\* POST /passkey/delete-passkey: the last passkey needs an account and a fresh
\* session.
RemoveRead(q, k) ==
    /\ status = "active" /\ k \in passkeys
    /\ \E s \in session :
         Cardinality(passkeys) <= 1 => accounts # {} /\ s \in fresh
    /\ Reading(q, [kind |-> "remove", passkey |-> k])

\* ... and the DELETE, by id alone.
Remove(q) ==
    /\ request[q].kind = "remove"
    /\ passkeys' = passkeys \ {request[q].passkey}
    /\ Goto(q, Idle)
    /\ UNCHANGED <<status, accounts, central, codes, recovery, used, history>>

\* The library's own ceremonies.
RegisterPasskey(k) ==
    /\ session # {} /\ status = "active" /\ k \notin passkeys
    /\ passkeys' = passkeys \cup {k}
    /\ UNCHANGED <<status, accounts, central, codes, recovery, request, used, history>>

Link(a) ==
    /\ session # {} /\ status = "active" /\ a \notin accounts
    /\ accounts' = accounts \cup {a}
    /\ UNCHANGED <<status, passkeys, central, codes, recovery, request, used, history>>

-------------------------------------------------------------------------------
(* Sessions, suspension, time, failure                                     *)

SignIn(s) ==
    /\ status = "active" /\ Methods > 0 /\ s \notin used
    /\ session' = session \cup {s}
    /\ fresh' = fresh \cup {s}
    /\ used' = used \cup {s}
    /\ UNCHANGED <<status, logins, stepped, endedAt, codes, recovery, request, history>>

\* POST /api/account/passkey-step-up/verify, from the challenge to the batch.
StepUp(s) ==
    /\ s \in session /\ passkeys # {} /\ status = "active"
    /\ stepped' = stepped \cup {s}
    /\ UNCHANGED <<status, logins, session, fresh, endedAt, codes, recovery, request, used,
                   history>>

SignOut(s) ==
    /\ s \in session
    /\ EndSessions({s})
    /\ UNCHANGED <<status, logins, codes, recovery, request, used, history>>

Suspend ==
    /\ status = "active"
    /\ status' = "suspended"
    /\ EndSessions(session)
    /\ SuspensionCleanup
    /\ UNCHANGED <<logins, codes, request, used, issuer, openings, completed>>

Reactivate ==
    /\ status = "suspended"
    /\ status' = "active"
    /\ UNCHANGED <<logins, central, codes, recovery, request, used, history>>

SessionAges(s) ==
    /\ s \in fresh
    /\ fresh' = fresh \ {s}
    /\ UNCHANGED <<status, logins, session, stepped, endedAt, codes, recovery, request,
                   used, history>>

StepUpLapses(s) ==
    /\ s \in stepped
    /\ stepped' = stepped \ {s}
    /\ UNCHANGED <<status, logins, session, fresh, endedAt, codes, recovery, request,
                   used, history>>

RecoveryExpires ==
    /\ Open /\ ~recovery.expired
    /\ recovery' = [recovery EXCEPT !.expired = TRUE]
    /\ UNCHANGED <<status, logins, central, codes, request, used, history>>

ChallengeLapses ==
    /\ Open /\ recovery.challenge # None /\ ~recovery.lapsed
    /\ recovery' = [recovery EXCEPT !.lapsed = TRUE]
    /\ UNCHANGED <<status, logins, central, codes, request, used, history>>

\* A guard is false and the batch changes nothing, the response is not valid, or
\* the request dies.
GiveUp(q) ==
    /\ request[q] # Idle
    /\ Goto(q, Idle)
    /\ UNCHANGED <<status, logins, central, codes, recovery, used, history>>

-------------------------------------------------------------------------------
Next ==
    \/ \E q \in Requests, c \in Codes : StartRead(q, c)
    \/ \E q \in Requests, r \in Recoveries : OptionsRead(q, r) \/ VerifyRead(q, r)
    \/ \E q \in Requests, h \in Challenges : VerifyTake(q, h)
    \/ \E q \in Requests, k \in Passkeys : Complete(q, k)
    \/ \E q \in Requests, s \in Sessions, kind \in {"issue", "withdraw"} :
         ManageRead(q, s, kind)
    \/ \E q \in Requests, a \in Providers : UnlinkRead(q, a)
    \/ \E q \in Requests, k \in Passkeys : RemoveRead(q, k)
    \/ \E q \in Requests :
         \/ StartCommit(q) \/ OptionsCommit(q) \/ Issue(q) \/ Withdraw(q)
         \/ Unlink(q) \/ Remove(q) \/ GiveUp(q)
    \/ \E r \in Recoveries : Cancel(r)
    \/ \E k \in Passkeys : RegisterPasskey(k)
    \/ \E a \in Providers : Link(a)
    \/ \E s \in Sessions :
         SignIn(s) \/ StepUp(s) \/ SignOut(s) \/ SessionAges(s) \/ StepUpLapses(s)
    \/ Suspend \/ Reactivate \/ RecoveryExpires \/ ChallengeLapses

Spec == Init /\ [][Next]_vars

-------------------------------------------------------------------------------
(* Safety                                                                  *)

\* A code opens at most one recovery: of requests that race with the same code one
\* wins, and neither cancelling nor expiry nor suspension gives the code back.
CodeOpensOne ==
    \A o \in openings, n \in openings : o[1] = n[1] /\ o[2] = n[2] => o[3] = n[3]

\* A recovery that was cancelled, replaced after its expiry, cut off by a suspension
\* or by a rotation of the codes does not complete, even if its ceremony had already
\* been verified.
ClosedStaysClosed == closed \cap completed = {}

\* An open recovery comes from a consumed code of the code set in force, and its
\* user is active: no suspension or rotation leaves one behind.
RecoveryIsGrounded ==
    Open => /\ status = "active"
            /\ active # 0 /\ recovery.generation = active
            /\ recovery.code \notin unused
            /\ <<active, recovery.code, recovery.id>> \in openings

\* A challenge serves one ceremony: of two requests with the same valid response one
\* goes on, and a new challenge is never one that is already being answered.
ChallengeServesOne ==
    \A p \in Requests : request[p].kind = "complete" =>
        /\ Open => recovery.challenge # request[p].challenge
        /\ \A q \in Requests \ {p} :
              request[q].kind = "complete" => request[q].challenge # request[p].challenge

\* A session that has ended - by sign-out, suspension or recovery - issues no codes
\* afterwards, even if its request had passed all checks before.
EndedSessionIssuesNothing ==
    \A s \in Sessions, g \in Generation :
        s \in used \ session /\ issuer[g] = s => g <= endedAt[s]

\* The last provider is unlinked only while a passkey and an unused code remain, even
\* if codes are consumed, rotated or revoked while the request is under way.
FinalUnlinkIsCovered ==
    [][accounts # {} /\ accounts' = {} => passkeys' # {} /\ unused' # {}]_vars

\* The user always keeps a way to sign in (see the findings for passkeys).
AMethodRemains == accounts \cup passkeys # {}
===============================================================================
