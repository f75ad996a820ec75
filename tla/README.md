# A verification development for sso.pg72.tw

The repository is a single sign-on service (PG72 ID) that runs as one
Cloudflare Worker over a D1 (SQLite) database, two queues and an R2 bucket,
with a test relying party (RP) as a second worker. This directory holds TLA+
models of its core logic, TLC configurations that check them on small
instances and proofs that TLAPS checks for every instance. Paths below are
relative to `apps/sso/worker/` unless they say otherwise.

## 1. The system

### 1.1 Execution model

Nothing in the program keeps state in memory across requests. Its state is the
D1 database, the two queues (`LOGOUT_DELIVERIES`, `AUDIT_EVENTS`), R2 and the
RPs' own databases. Four facts decide every model here:

* A D1 statement is atomic and `DB.batch([...])` is one transaction; there is
  no transaction that spans two `await`s. One action of a model is therefore
  one statement or one batch, and between two awaits of a handler every other
  handler may run.
* An isolate can die, and a D1 call can throw, at every await. A batch that
  commits while its caller sees an exception is the committing step followed by
  the abort step.
* A queue delivers at least once, in no order, retries a bounded number of
  times and then moves the message to a dead-letter queue.
* Handlers do not lock: they read, decide, and write with the values they read
  repeated in the WHERE clause. Whether that WHERE clause repeats enough is the
  question most properties ask.

### 1.2 Components

| component | state | operations | what is hard | what makes it correct |
|---|---|---|---|---|
| Logout outbox: `logout-delivery.ts`, `global-logout.ts`, `admin-logout-deliveries.ts`, `durable-delivery.ts` | `logout_delivery`, `logout_delivery_attempt`, queue | snapshot, dispatch, recover, claim, post, persist, replay | duplicate messages, leases, crashes, stale replays | row and evidence agree; delivered means heard; an owed notice settles |
| Central sessions: `global-logout.ts`, `registration.ts`, `auth.ts`, session endpoints of `index.ts`, the provider patch | `session`, `oauthRefreshToken`, `oauthAccessToken`, `rp_session_client` | sign in, issue and refresh tokens, revoke one/all/other sessions, suspend, delete | check-then-insert, snapshot against concurrent visits | every visited RP is notified; nothing of a revoked session stays usable |
| Relying party: `apps/test-rp/worker/index.ts` | `rp_session`, `backchannel_logout_receipt`, login transactions | login, callback, back-channel logout, local logout | logout notice that overtakes the callback | a revoked `sid` has no local session |
| Users and roles: `admin-users.ts`, `admin-gate.ts`, `admin-commit.ts`, `roles.ts`; `account-deletion.ts` | `user` | role, status, access, sessions, delete, own deletion | two administrators at once; an actor demoted, or a target promoted, between check and batch | whoever commits a change may make it when it is committed |
| OAuth clients: `admin-clients.ts`, `client-ownership.ts`, `oauth-reports.ts` | `oauthClient`, its consents, codes and tokens, reports | create, edit, rotate, disable, enable, delete, orphan | lost update, a client deleted and created again, cleanups and update with guards of their own, an owner who is deleted | nothing overwritten unread; grants end with what they were granted under |
| Account and linking: `account.ts`, `account-access.ts`, `telegram.ts` | `account`, `passkey`, `user` | link, unlink | concurrent unlink of the last two methods | a login method remains |
| Registration: `registration.ts`, `public-registration.ts` | `invitation`, registration intents, quotas | invite, begin, consume, expire | replayed intents, quota races | one intent makes one user |
| Recovery: `recovery.ts`, `recovery-codes.ts`, `recovery-gate.ts` | recovery codes, recovery sessions, ceremonies | issue, redeem, register passkey, complete | a code used twice, crash between redeem and completion | one code, one recovery; old sessions revoked |
| Passkey step-up: `passkey-step-up.ts` | challenges, proofs | begin, verify, consult | challenge replayed or from another session | a proof belongs to one session and expires |
| Audit: `audit.ts`, `security-activity.ts` | `audit_event`, queue | record, enqueue, consume | duplicated messages | idempotent insert |
| Avatars: `avatar.ts` | `user` row and R2 object | upload, delete, serve | two stores without a transaction | the row never names a missing object for ever |
| Alert rules: `alert-rules.ts` | none | thresholds, evaluation, selection of evidence | metrics that could not be observed | nothing is concluded from what is not known |
| Alert life cycle and state: `alert-evaluator.ts`, `alert-state-repository.ts`, migration 0020 | `alert_state`, `security_alert`, `alert_outbox` | snapshot, decide, one batch | three layers (decision, batch, CHECKs and triggers) that must agree; operators in between | hysteresis; what is stored can be read again |
| Alert runs: `alert-evaluator-orchestration.ts`, `alert-run-*.ts`, `alert-runtime-repository.ts` | `alert_runtime_status`, `alert_evaluator_run` and its proofs | acquire, renew, collect, plan, seal, decide, close | two workers with clocks apart, expired leases, a crash between any two writes, retries | fencing; a sealed plan holds; the watermark tells the truth |
| Alert sources: `alert-*-source-repository.ts` | watermarks | count, page | clock skew, bounded pages | tracked alerts are observed, or the source says that it is incomplete |
| Audit archive: `audit-archive-*.ts`, `scripts/audit-archive/`, migration 0021 | batches, attempts, checkpoint, R2 objects | prepare, queue, claim, renew, put, read back, settle, replay, restore | lost answers, two writers on one lease, a bucket that answers something else | what the checkpoint has passed can be restored, once |
| SPA `apps/sso/src/App.tsx`, tooling `scripts/`, wiki | none | | | |

### 1.3 How they interact

A *revocation* (user, administrator, RP-initiated logout, suspension, deletion,
recovery) is one batch: it inserts an audit event guarded by the actor's live
session, then, guarded by that event, snapshots the visits of the selected
sessions into the outbox, revokes refresh tokens, deletes access tokens and
deletes the sessions. Only after the commit it sends queue messages; the cron
handler sends them again while they are due. The consumer claims a row under a
lease, posts a signed logout token to the RP and records the answer. The RP
stores a receipt keyed by `jti` and deletes the local sessions of that `sid`.
In parallel users sign in, RPs exchange codes and refresh tokens, and every
user-bound access token that is inserted records a visit through a trigger of
migration 0018.

The administration endpoints share one scheme: a *gate* reads the actor, a
*read* finds the row the request is about, and a D1 batch repeats both in the
conditions of its statements, with the success audit event as the witness that
they held. The alert evaluator and the archive share another: a *lease* in D1
with a fence that every write repeats, so that a worker that was overtaken can
still run, but no longer write.

## 2. The modules

| module | models | kind |
|---|---|---|
| `LogoutDelivery` | the outbox: tables, queue, consumers, dispatcher, replay | specification |
| `DeliveryContract` | what the outbox promises | abstract specification |
| `CentralSessions` | sessions, token issuance, visits, the revoking batches | specification |
| `RelyingParty` | the test relying party | specification |
| `GlobalLogout` | `CentralSessions`, `RelyingParty` and `DeliveryContract` composed | specification |
| `AccountRecovery` | recovery codes, recovery sessions, their ceremony, unlinking, passkey removal | specification |
| `Administration` | users, roles, OAuth clients and their grants under concurrent administrative requests | specification |
| `AlertRules` | thresholds and evaluation of the fifteen rules | operators |
| `AlertLifecycle` | one evaluation applied to one state | operators |
| `AlertState` | one alert in the database: `AlertRules` and `AlertLifecycle` composed with batch, CHECKs and triggers | specification |
| `AlertSources` | what each reader of a source answers, by the facts about its rows | operators |
| `AlertRuns` | the evaluator as a run over several alerts, with `AlertSources` and `AlertLifecycle` | specification |
| `AuditArchive` | the archive of the audit log, from the event to the restored object | specification |
| `LogoutDeliveryProofs`, `CentralSessionsProofs`, `GlobalLogoutProofs`, `AccountRecoveryProofs`, `AdministrationProofs`, `AlertStateProofs`, `AlertRunsProofs`, `AuditArchiveProofs` | theorems on the modules of these names; those on `RelyingParty` are in `GlobalLogoutProofs` | proofs |
| `MC...` | values of the constants and symmetry sets for TLC | model checking |

### 2.1 LogoutDelivery

| variable | code |
|---|---|
| `row` | a row of `logout_delivery`: status, attempts, `replay_count`, `jti`, `lease_id`, `lease_expires_at` (`clock`), `next_attempt_at` (`next`), whether `backchannel_logout_uri` is set |
| `evidence` | the rows of `logout_delivery_attempt` |
| `queued` | keys with at least one message in the queue |
| `job` | local variables and program counter of `consumeLogoutDeliveryMessage` |
| `op` | the same for the replay handler |
| `clientUri` | `oauthClient.backchannelLogoutUri IS NOT NULL` |
| `receipts` | the `jti`s the RP has accepted |
| `uuids` | `crypto.randomUUID()`: a counter, fresh at each claim |

Actions follow the awaits of the code: `Receive` (the SELECT of
`recoverExpiredLogoutDelivery`), `Terminalize` (its batch), `Recheck`, `Claim`,
`Reread`, `Post` (sign and POST), `Persist`; `Abort` is an isolate that dies or
a call that throws at any of them. `ReplayRead`, `ReplayCommit`, `ReplaySend`
are the awaits of the replay handler. `Dispatch` is cron and the dispatch after
a revocation. `LeaseLapses` and `FallsDue` are the clock.

Abstractions. A timestamp is compared only with `now`, so a row holds what the
comparison says (`live`/`expired`, `later`/`due`) and the clock is a step of its
own. The code reads `now` shortly before the batch that uses it; a row that
expires in between is the same behaviour with the clock's step after the batch.
A queued key stands for any number of messages: `Receive` may leave it. A POST
that is cut off may have been accepted (`heard`), and an acceptance that
arrives even later than the consumer's own record is not distinguished from one
that arrives before it. `replays` is bounded by `MaxReplays`; the real
`MAX_ATTEMPTS` is 5, the runs use 2 because the code only compares with the
first and the last attempt.

### 2.2 CentralSessions

| variable | code |
|---|---|
| `status` | `user.status`; "deleted" when the row is gone |
| `session`, `expired`, `owner` | rows of `session` with their `userId`, those past `expiresAt`, the `userId` each id was inserted with |
| `code`, `refresh`, `access` | authorization codes, refresh tokens that are not revoked, access tokens, each as the pair (session, client) of its grant; its `userId` is the `owner` of the session |
| `visits` | `rp_session_client` |
| `outbox` | the keys of `logout_delivery` |
| `request` | what a sign-in or a revocation has read, between its read and its batch |
| `flow` | a request at the token endpoint between its session check and its inserts |
| `served`, `revoked`, `left` | history: who got tokens, what was revoked, who deleted the own account |

A sign-in is two steps (`SignInCheck`, `SignInInsert`), because the library
inserts the row after the hook has returned. A revocation is a read
(`SelfRead`, `RpLogoutRead`, `AdminRead`, `LeaveRead`) and one batch (`Commit`),
which is guarded by the audit insert (`Eligible`) and selects the sessions again
(`Selected`), so that only the session id and the user id are remembered. The
order inside the batch matters and is part of `EndSessions`: the outbox reads
the visits that the deletion of the sessions removes through its cascade. Token
issuance is check, refresh-token insert, access-token insert; the foreign key
to `session` makes an insert after the revocation fail, and the trigger of
migration 0018 is part of the access-token insert.

Abstractions. The freshness of the actor's session and passkey step-up only
refuse more requests, and are left out; so is the fallback of the revoking
endpoints to the library's own handlers, which are not in the repository. The
role table is the constant `Admin`, and the protected bootstrap administrator, who
would make `AnAdminRemains` trivial, is left out. The clients that a deleted
user owned, which the same batch disables, belong to the module of clients. A batch that revokes tokens of a
`restrict`ed user has the effect of `revoke` on sessions. One refresh token stands for all of a pair;
rotation is not modelled.

When the library deletes an expired session row (`Lapse`), its visits go with it
(CASCADE), but its tokens only lose their `sessionId` (SET NULL): they stay in
`refresh` and `access` under the session of their grant, of which `session` then says
that it has no row. A refresh token of that kind is refused for want of a live
session; an access token is accepted by userinfo and introspection until its own
`expiresAt`, which is not modelled. A revocation that selects sessions cannot reach
such a token, since it goes by `sessionId`; one that ends all that is the user's goes
by `userId` and does (`UserWide`, `EndedTokens`). So `NoTokenOutlivesRevocation`
speaks of revoked sessions and deleted accounts, and not of expiry.

### 2.3 RelyingParty

| variable | code |
|---|---|
| `txn` | `oauth_transaction`: absent, open, late (past `expires_at`), consumed, purged |
| `callback` | local variables and program counter of the `/callback` handler |
| `local` | `rp_session`; the flag `late` is history: a notice had arrived before the insert |
| `receipt` | `backchannel_logout_receipt`, the sid of each jti |
| `receiver` | local variables and program counter of `/backchannel-logout` |
| `opened` | history: local sessions opened by each transaction |

The callback is `CallbackRead`, `CallbackConsume`, `Exchanged`, `UserInfo`,
`CallbackInsert`, one action per await; `CallbackFail` may take the place of
each. The receiver's batch is one action, `ReceiveBatch`. The purge of receipts
after 31 days is left out: no delivery is retried for so long.

### 2.4 GlobalLogout

The composition shares the variables. A callback that exchanges its code is the
token request of the same name (`Flow <- Callback`); `Commit` records in
`DeliveryContract` a notice for each new outbox row of this relying party; a POST
reaches the receiver only after an attempt has been counted; the receiver's
batch is the contract's `Hear`. `LogoutDelivery` itself is not composed, because
it is shown to implement `DeliveryContract`, which stands for it. Session expiry and the
refresh grant are left out here: expiry sends no notice, so that a local session
outlives it by design, and the test RP never refreshes.

### 2.5 AccountRecovery

One user, because nothing of a recovery is shared between users.

| variable | code |
|---|---|
| `status`, `accounts`, `passkeys` | `user.status`, rows of `account` and `passkey` |
| `session`, `fresh`, `stepped` | rows of `session`; those younger than `FRESH_SESSION_MAX_AGE_MS`, those with a recent `passkeyStepUpAt` |
| `active`, `newest`, `unused` | the generation of the `recovery_code_set` that is not revoked (0: none), `MAX(generation)`, the codes with `consumed_at IS NULL` |
| `recovery` | the row of `recovery_session`, of which a user has one (`UNIQUE (user_id)`), with its `recovery_passkey_challenge` |
| `request` | what each handler remembers between its read and its batch |
| `issuer`, `endedAt`, `openings`, `closed`, `completed`, `used` | history, and ids that have been used |

`StartRead`/`StartCommit`, `OptionsRead`/`OptionsCommit`, `ManageRead` with
`Issue` (rotate) or `Withdraw` (revoke), `UnlinkRead`/`Unlink` and
`RemoveRead`/`Remove` are a check and the statement or batch that follows it; the
completion has three steps, `VerifyRead`, `VerifyTake` (`DELETE ... RETURNING`)
and `Complete`. `GiveUp` is a batch whose condition is false, a response that
does not verify, or a request that dies. The triggers of migration 0019 are part
of the step that fires them (`CloseRecovery`, `SuspensionCleanup`).

Two things the model makes visible. A recovery start that is refused still
removes an expired session (`MakesWay`). And the completing batch is refused only
while a newer challenge is outstanding (`NoNewerCeremony`): once the newer one
has been consumed too, either ceremony may complete, and the first one does.

Abstractions. Sets do not expire, because both statements that insert one write
`expires_at = NULL`; `RECOVERY_MODE` is enabled; the rate limits only refuse more.
`SignIn` is one step here, as its own race is the subject of `CentralSessions`.
The step-up ceremony is one step. Unlinking reads the counts and the codes in
one step, since the DELETE repeats all of them; the counts of the passkey
removal are one step too, which leaves the check and the DELETE apart, where the
finding is. Global logout by the completing batch is the end of all sessions.

### 2.6 Administration

| variable | code |
|---|---|
| `user` | `user.role`, `status` ("gone": no row), `accessLevel`, `updatedAt`; the latest session of the user and whether it is live |
| `client` | `oauthClient`: row id (0: no row), `ownerUserId`, `disabled`, `updatedAt`, and two kinds of settings |
| `grant` | `oauthConsent`, authorization codes in `verification`, `oauthAccessToken`, unrevoked `oauthRefreshToken`, each with the settings it was granted under |
| `request` | what a request carries from its gate to its batch |
| `flow` | a request at the OAuth endpoints that has read a client |
| `audited` | success events in `audit_event`; also the clock of `updatedAt` |

A request is three steps: `Gate` (`requireAdminPermission`), one of the reads
(`ReadForRole`, ... `ReadForPatch`, with every check of its handler), and
`Commit`, which runs the statements of its batch in their order on the database
`d`. Each statement is an operator that asks its own guard of what the ones
before it have left, as the SQL does: for a PATCH audit, cleanups, update; to
disable a client update, cleanups, audit; to delete a user the shutdown of the
clients, then the DELETE with its cascades. A statement that aborts (the trigger
on bootadmin rows, a taken id) gives back the database as it was.

The two kinds of settings are what the cleanups distinguish: a change of
`redirect` (`redirectUris`; `postLogoutRedirectUris` are stored without any cleanup,
and are not modelled) ends codes and consents, a change of
`permission` (scopes and grant types) ends everything. A grant is `late` when the
OAuth request that issued it had read the client before the change: the provider
is a library whose handlers hold no guard, and the tokens it issues then live
until they expire. This is stated rather than hidden: `GrantsFollowTheClient`
exempts exactly those.

Abstractions. Step-up, freshness and rate limits only refuse more. `updatedAt` is
unique per change, where the code's has milliseconds and the two requests of a
tie would have to read and write within one. Time does not pass within a batch:
the batches that disable, rotate and delete a client ask the session's expiry in
each statement again, and a session that expires between two statements of one
batch would split it; PATCH avoids this by carrying the audit event. An invitation
of somebody who has an account is a role change. Provisioning of the mail
introspector is the creation of a reserved id (`Reserved` is empty in the run and
arbitrary in the proofs). The row of the bootstrap administrator carries its role
from the start, as every sign-in of that user makes it.

### 2.7 AlertRules, AlertLifecycle, AlertState

`AlertRules` gives each of the fifteen rules its table of thresholds for the
windows of 5, 15 and 60 minutes, the three-valued conditions over metrics that may
be missing, the selection of the evidence, and the two gates evidence meets
later (the parser of persisted rows and the CHECKs of migration 0020).
`AlertLifecycle` is `advanceAlertLifecycle`: a state, an evaluation and the
resolution mode of its rule (`automatic` or `manual`) give a state and an intent.
`AlertState` puts both between the tables:

| variable | code |
|---|---|
| `alert` | the rule whose alert this is |
| `row` | the row of `alert_state` |
| `incident`, `mail` | the current generation in `security_alert`; its mails in `alert_outbox` |
| `plan` | snapshot, evaluation and decision of a run before its batch |
| `hist` | history: what the accepted evaluations said |

`Plan` samples and reads, `Persist` is the batch, which `Accepted` admits or
refuses as a whole: a CHECK or trigger that says no aborts it. `Abandon` is a run
that dies, `Acknowledge` and `OperatorResolve` are the operator (who exists in the
schema only, hence external). Time is relative: a step ages the row by one, and
what is left of a cooldown or has passed since a mail is capped where nothing
depends on more. An observation has the counters that the parser demands of its rule
(`Shaped`), of which only those of `Known` may be missing; the upper bound on a
counter, which no threshold comes near, is left out.

### 2.8 AlertSources, AlertRuns

| variable | code |
|---|---|
| `runtime` | `alert_runtime_status`: generation, lease revision and expiry, watermark |
| `run`, `proofs` | `alert_evaluator_run`, by generation; the moment, sources, plan, seal and decisions of the newest run |
| `row` | alert states, each with the run that wrote it |
| `worker` | local variables and program counter of `runAlertEvaluator` |

`AlertSources` judges what a reader got back. Its input is a record of facts:
whether the batch answered, whether a stored timestamp is broken, whether the key
of the run is the one of the sentinel, whether sums agree, and for each *group* (a
rule and a kind of dimension) whether its rows could be counted, overflow, name a
person nobody can resolve, or contradict each other. Its result is a status, the
groups known in part (`gaps`), and the groups observed (`kept`). The six readers
differ in just this: a contradiction fails the audit reader as a whole, is a gap to
the reader of the logout deliveries, and the reader of the health answers nothing
before the first run that succeeded. `AlertRuns!Readings` turns `kept` into
observations of alerts: global ones and tracked ones always, others when something
has happened.

One action per await or batch: `Initialize`, `Start`, `Acquire`, `CheckLease` (with
renewal), `Bind`, `Collect`, `RecordSources`, `PlanDecisions`, `Seal`, the three ways
an item is decided (`DecideStateless`, `DecideApplied`, and `DecideAgain` after an
operator has changed the row), `Close`, `Fail`, `Crash`; `NextItem` and `Complete`
are parts of them. An observation is partial when its group is a gap or when the
work cap has left out something of its source, and a partial one may raise an
alert but never calm it (`PartialAllowed`). There is no common clock: each worker
stamps with its own, which only moves forward. Digests are compared by what they
stand for, and a write whose answer is lost is read back, hence counts as written.
`Collect` is one step, because the readers run one after the other and read
disjoint rows. The older lease functions of `alert-runtime-repository.ts`, which no
worker code calls, are left out.

### 2.9 AuditArchive

| variable | code |
|---|---|
| `event` | `audit_event` by its number in `audit_archive_source`: named, without its account, or compensated |
| `sentinel` | whether the key version has its row in `audit_archive_key_sentinel` |
| `drafts`, `batch`, `archived` | sealed batches not queued, the one after the checkpoint, those before it |
| `ledger` | `audit_archive_attempt`, ended attempts |
| `bucket` | the R2 object of each name: none, exact, relabelled (bytes right, metadata not), or foreign |
| `writer` | an invocation: idle with what it has told its caller; at work (`Busy`), at a renewal (`Renewing`) or at the end of its attempt (`Ending`), with its lease |
| `clock`, `faults` | time, and the budget of lost answers and failures |

`Record`, `Initialize`, `Intrude` and `Tick` are the world around it.
`Prepare`/`Queue` are selection and sealing; `Claim`, `Resume`, `Adopt`, `Renew`,
`ReadLease`, `Read`, `Put`, `Get` the writer; `Settle` the statement that ends an attempt and, when it
archives, drops D1's copy and moves the checkpoint; `Sweep` ends an expired lease;
`Replay` starts a new dispatch generation. `Forget` is the deletion of an account,
which rewrites events that are not yet archived. `Restored` is the verifier of
`scripts/`: what can be opened again from R2 alone. The cryptography is abstract:
an envelope opens or it does not. Each guard of D1 is repeated by a trigger there,
so the statement and the trigger are one condition here. Nothing in `index.ts`
imports the archive yet; who calls it is modelled from its exported operations and
their tests.

Three things the model makes visible. One event that no archive accepts, within
the 101 rows that are looked at, stops the selection (`Malformed`). A batch that ends
corrupt stays after the checkpoint for good, since replay takes dead ones only.
And a replay is itself an audit event, so that it is archived later.

## 3. The runs

| run | instance | question |
|---|---|---|
| `delivery` | 1 delivery, 2 consumers, 1 operator, 2 attempts, 1 replay, with fairness | do row and evidence agree, is an answer invented, lost or overwritten? does the outbox implement `DeliveryContract`? is every owed notice settled? |
| `sessions_safety` | 2 users, both administrators, 2 sessions, 1 client, 2 requests, 1 token request | is every visited RP notified, and nobody else? does a token outlive the revocation of its session, or its account? can administrators lock each other out? |
| `suspended_session` | 2 users (1 administrator), no client | finding: a suspended user can have a session |
| `global` | 1 user, 1 sid, 2 transactions, 2 callbacks, 2 receivers, 1 attempt and 1 replay, with fairness | does the outbox know every local session of a revoked central session, and does the revocation reach them? one session per transaction? do notices clear? |
| `logout_acknowledged` | as `global`, 1 receiver | finding: an acknowledged notice can leave a local session |
| `recovery_safety` | 1 code, 3 code sets, 2 recoveries, 2 challenges, 2 passkeys, 2 providers, 1 session, 2 requests | is a code, a challenge and a recovery used once, does what has ended stay ended, and is the last provider unlinked only behind an unused code and a passkey? |
| `last_login_method` | as `recovery_safety`, smaller | finding: a user can lose every way to sign in |
| `alert_lifecycle` | all 15 rules, each with observations at and next to its thresholds; 2 incidents; 3 clears resolve | is the evaluator neither hasty nor slow? can it read what it wrote? do evaluator and tables agree? do mails tell the story? |
| `alert_stuck` | one rule, the code's 5 clears | finding: an incident that five clears in a row do not resolve |
| `alert_runs` | 2 workers, 3 alerts in 2 groups (one hashed) of the audit source, work for 2, 2 runs, 3 ticks, 1 operator's act | does a worker that was overtaken still write? does time run backwards? is the watermark true? does a sealed plan hold? |
| `audit_archive` | 2 writers with clocks apart, 3 events in batches of one or two, 2 batches, 2 attempts, 2 generations, 1 fault | is the archive complete and restorable? is what a writer says true? does an attempt end once? |
| `administration` | the bootstrap administrator, an administrator, a developer with 1 client; 2 administrative and 2 OAuth requests, 2 changes | is every change authorized when it commits? is an edit lost? do grants and owners follow the client? |

Deliveries share no state except in the dispatcher's LIMIT, which is why one
delivery is enough. That the oldest-first dispatch starves nobody needs two, and
is not a run: a row that waits can always be claimed once it is due
(`WaitingIsClaimable`, proved), so that each pass moves the oldest rows on. Two
consumers are the least that can hold one message twice; a third adds only
another stale one. In the session runs two requests are the least that race,
and the interesting races are pairs: check against batch, batch against batch,
grant against batch (with its own process). Two sessions of one user, or one of each of two
users, tell the selectors apart. In `global` two transactions are
needed to see a notice end two sessions, and two receivers to see one notice
delivered twice; the second delivery is that of the replay, which starts as an
attempt after an abandoned one does. In `recovery_safety` two codes would
only be two chances of the same race; three generations are an issue, a rotation
or completion that ends a recovery, and another set after that.

`alert_lifecycle` uses shorter intervals than the code (3 clears instead of 5,
intervals of 2 and 3 ticks), since only the comparison with them matters;
`alert_stuck` uses the 5. The two runs of `alert_runs` are one that is overtaken, or
leaves rows behind, and the one that overtakes or follows it; three alerts with
work for two make the cap bite, and a hashed group beside a global one makes the
reader answer in part when its key is not the stored one. The operator acts on the
first alert only (`MCActs`), since the alerts do not interact but through the run.
What three runs, more sources or other readers could add is covered by the
proofs. In `audit_archive` two attempts are the first and
the last, two generations a replay, two batches a checkpoint that moves twice (the
first two events fill one by `MaxRecords`, the third one by `MaxBytes`, and when the
first is compensated the third does not fit with the second), and one fault reaches
every recovery path by itself (the paths do not wait for two).

In `administration` the third user is needed because the roles differ in what they
may do to whom; two changes are the one that invalidates what the other has
read, and one that then commits or must not. Sessions of one user end and begin by
themselves (`Restless`), those of the others through the batches. An OAuth request is
used once; two make a grant and its redemption.

Every safety property of every passing run is also proved, for every value of the
constants: 38 of the 40 properties. The other two are the liveness properties.

`CHECK_DEADLOCK FALSE` is set where ids, transactions, runs or the bounded number
of changes are used up and the system has nothing more to do.

### 3.1 Findings

* `suspended_session`. `assertSessionUserActive` (`registration.ts:150`) reads
  `user.status`; the library inserts the session row afterwards without a
  condition. A suspension that commits in between deletes the sessions there
  are, and the insert then succeeds. `codex.md:328` and `codex.md:875` say that
  suspension ends every session and that the user cannot sign in. Deletion does
  not have this gap: the foreign key on `user` refuses the insert
  (`DeletedHasNoSession`).
* `logout_acknowledged`. The callback inserts its `rp_session`
  (`apps/test-rp/worker/index.ts:603`) without looking for a receipt of its
  `sid`. If the central session is revoked after the callback's userinfo
  request, the notice may be accepted before the insert, and the local session
  stays for its 12 hours. `docs/runbooks/global-logout.md:43` says that an RP
  answers `200` or `204` after deleting every local session of the `sid`.
  `RevocationClosesCallbacks` and `AcknowledgedLeavesLate` bound the gap: only
  callbacks that were past userinfo at the revocation can use it.

* `last_login_method`. `POST /passkey/delete-passkey` counts passkeys and accounts
  and then deletes by id (`index.ts:1549`). A removal that passed its check while
  a provider was linked can commit after that provider was unlinked, which was
  allowed because the passkey was still there. The comment at
  `index.ts:1478-1479` says that the user always keeps at least one sign-in
  method. The unlinking itself repeats its conditions in the DELETE
  (`FinalUnlinkIsCovered`).

* `alert_stuck`. A warning whose escalation waits for its second breach keeps the
  critical evidence in its row. If the source then clears, the batch stores no new
  evidence (`alert-state-repository.ts:802`, only a breach does), clears the pending
  breach, and leaves critical thresholds in the row of a warning, which the CHECK
  of migration 0020 refuses. The run fails, and so does each later one until the
  source breaches again. `docs/runbooks/alert-observability.md:425-427` says that
  the fifth clear evaluation resolves. `RefusedOnlyAbandoned` shows that this is the
  only decision the tables refuse.

## 4. Fairness

`LogoutDelivery!Fairness` assumes weak fairness of the clock and of a running
consumer's next step (it runs or dies), and strong fairness of: cron sending a
key that is due again and again (`scheduled` runs each minute,
`wrangler.jsonc`), a message that is sent again and again being received, and
the first write of a claim or a recovery that is attempted again and again
happening before the consumer dies. Nothing is assumed about POST answers, about
messages surviving, or about the result being recorded: a row whose consumers
always die after the claim still settles, because every claim counts an attempt.

`GlobalLogout!FairSpec` assumes weak fairness of an attempt or settlement of each
notice. That is `EventuallySettled` of `LogoutDelivery`, carried over to the
contract. Nothing is assumed of browsers, callbacks or the RP.

The other modules state no fairness: what they promise is safety. That the next
cron takes an expired lease over, and that a writer that dies is followed by
another, is possible in the models but not assumed.

## 5. What is proved

For every value of the constants that satisfies the modules' assumptions. Types and
some invariants are proved only, and not repeated in a run: `TypeOK` of the modules
below, `SchemaChecks`, `AttemptLedger`, `RecoveryConsistent`, `WaitingIsClaimable`,
`DeadIsJustified`, `DeletedHasNoSession`, `JtiEndsOneSid`.

The assumptions say what the code relies on. In the alert modules: every rule has a
policy with positive intervals and resolves after more than one clear, five in the code
(`PolicyAssumption`; a policy that resolves at the first clear has no clear evaluation
before the one that resolves, of which `ClearsResolve` speaks), the observations are
such as the parser lets through (`SampledAssumption`), a group has one source and a
source one of the six readers (`SourcesAssumption`), the canonical order of alerts is
total and the work cap leaves room for one observation of each source
(`RunsAssumption`, as `applyWorkCap` requires). In the archive: clocks are only ahead
of the database's, an event fits into a batch by itself, and a lease is renewed
before it is over (`ArchiveAssumption`). The bounds for TLC (`MaxTime`, `MaxRuns`,
`MaxEvents`, ...) are constants there, of any value, so that a theorem covers every
finite behaviour.

`LogoutDeliveryProofs` (any deliveries, consumers, operators, `MaxAttempts`,
`MaxReplays`, `DispatchLimit`):

* `TypeCorrect`: `Spec => []TypeOK`.
* `DeliveryInvariant`: `Spec => []DeliveryInv`. The safety properties are not
  inductive: that a consumer's stale values can do no harm depends on leases
  being fresh UUIDs, on a consumer that thinks it holds the row naming the row's
  own lease, and on a row that has left a lease never returning to it.
  `DeliveryInv` says so; `LeaseEvidence`, `SchemaChecks`, `AttemptLedger`,
  `RecoveryConsistent` and `WaitingIsClaimable` follow.
* `PromiseInvariant`: what the consumers carry about `jti` and about the RP's
  answer. `DeadIsJustified` and `DeliveredWasHeard` follow, of which the latter holds
  `OneJti`: every attempt of a delivery, also after a retry or a replay, sends the same
  `jti`.
* `LeaseRespectedHolds` and `EvidenceIsFinalHolds`, action properties: a row leaves its
  lease only by the holder's own result or when the lease is over, and evidence is
  written once, because a consumer that claims has a UUID no row has had.
* `OutboxImplementsContract`: `Spec => ImplementsContract`, step by step under
  the refinement mapping `WorkOf`, `ToldOf`, `GenerationOf`, `TriesOf`.

`CentralSessionsProofs` (any users, administrators, sessions, clients, requests):

* `Invariant`: `Spec => []IInv`. `NoticesAreExact` is not inductive: that the
  batch finds the visit when it ends the session needs that a served pair whose
  session has a row is among the visits, that a revoked session id never gets a
  row again, and that nothing names an id before its insert (`SessionInv`).
  `AnAdminRemains` needs that a pending administrator's batch was read by an
  administrator and is about somebody else (`AdminInv`).
* `TypeCorrect`, `Notified`, `TokensEnd`, `DeletionEnds` and `AdminRemains` follow,
  and the action property `OthersUntouched`. `TypeOK` is not inductive alone: the
  read of a self-deletion copies the status of its user, which is a status of a
  row only because a deleted user has no session.

`GlobalLogoutProofs` (any users, sids, requests, transactions, callbacks and receivers):

* The relying party alone, under `R!Spec`, where an event and a sid are any two members
  of one set: `RelyingPartyTypes`; `RelyingPartyOpensOne`, by the invariant that a
  consumed transaction stays consumed and has one callback past the update, which has
  not inserted yet (`TransactionInv`); `RelyingPartyClears`; `JtiEndsOne`.
* `ImplementsSessions` and `ImplementsRelyingParty`: `Spec => S!Spec` and
  `Spec => R!Spec`. Each action of the composition is an action of the part or leaves
  it alone. The theorems of the parts then hold in the composition, those of the
  sessions through `INSTANCE` of their proof module; `TransactionOpensOne` and
  `NoticesClear` are two of them.
* `SessionsAreCovered`, `AcknowledgedLeaves`: from the invariants of the parts and
  what links them (`Links`): a callback past its exchange and a local session belong
  to a served pair, an outbox row of the relying party has a notice, a notice that
  was heard has a receipt, and a receiver holds the sid of a notice under way.
* `RevocationCloses`, an action property: after the revocation of its session a
  callback can only insert if it was past userinfo before.

That the composition implements `DeliveryContract` is not stated: one `Revoke` may
owe the notices of several sessions at once, where the contract takes them one by
one. Each of its actions is a conjunct of the composition's.

`AccountRecoveryProofs` (any codes, generations, ids, requests):

* `Invariant`: `Spec => []IInv`, from which `TypeCorrect`, `CodeOnce`,
  `ClosedForGood`, `Grounded`, `OneCeremony` and `EndedIssuesNothing`. The
  strengthening says that an opening of the set in force names a code that is not
  unused, that no opening and no issue is of a later generation than the newest,
  and that the open recovery and every challenge outstanding or being answered
  have ids that are used and, for the recovery, not among those that ended.
* `FinalUnlink`, an action property, from the conditions of the DELETE alone.

`AdministrationProofs` (any users, clients, requests, OAuth requests and bounds):

* `Inductive`: `Spec => []Ind`. A lemma for each statement of a batch says what it
  does to the database, and these add up to what a whole batch may do
  (`UserBatchResult`, `ClientBatchResult`): nothing, or what its request asks, with the
  event and on the rows it was checked against. `Ind` carries what the gate and the
  reads have established of the request alone (`Entitled`), that the version of a
  PATCH stands for the settings it has read (`FreshEdit`), that no client has a
  version from the future and no owner is gone (`ClientsAreSound`), and that what
  an OAuth request in flight will issue is covered or late (`FlowsAreCovered`).
* `TypeCorrect`, `Authorized`, `EditsKept`, `GrantsFollow`, `Orphans`: the four
  properties of the run follow. `Authorized` joins what the gate established with
  what the guards of the batch find unchanged; `EditsKept` needs that versions are
  never used twice, `Orphans` that the shutdown goes before the DELETE.

`AlertStateProofs` (any policy, any set of observations that the parser accepts, any
number of incidents):

* `AlertInvariant`: `Spec => []Inv`, in three parts. First what does not depend on time:
  the tables of the fifteen rules are made of leaves that the CHECKs admit
  (`TablesGood`), the counters of a parsed observation are in the range of its rule
  (`BagsOK`), and therefore the evidence that an evaluation selects can be stored and is
  read back (`SelectedOK`, `EvaluateOK`): three descriptions of the thresholds, those of
  the definitions, of the parser of stored rows and of migration 0020, agree. Then the
  decision: it keeps, waits, raises or resolves (`FourDecisions`), and a lemma for each
  says that the row and the incident of the batch pass every CHECK and trigger, unless
  the decision gives up a pending escalation (`GivenUpRefused`). Then the steps: the row
  is as the tables leave it (`RowGood`), row and incident agree (`IncidentGood`), what
  the accepted evaluations said accounts for the counters (`HistoryGood`), and the mails
  are those of the incident as it stands (`MailGood`).
* `AlwaysReadable`, `AlertsHaveHysteresis`, `MailsTellTheStory` and
  `OnlyAbandonedRefused` follow; so does `TypeCorrect`. `Hysteresis` is not inductive: it
  speaks of the decision under way, and needs that the counters of the row it was made of
  never run ahead of what was heard.
* `UnknownNeverCountsAsGood`: the three-valued conditions only grow more definite when an
  unknown metric becomes known (`LeafAgrees`, `ClauseAgrees`, `ExpressionAgrees`,
  `WindowsAgree`), so what is breached stays breached whatever the missing metric turns
  out to be, and what is found clear stays clear (`CompletionSound`).

`AlertRunsProofs` (any workers, sources, groups, alerts, observations, clocks, runs):

* `RunsInvariant`: `Spec => []IInv`, in parts. `Generations`: a worker past its
  acquisition has a generation of its own, and the lease belongs to the newest run.
  `HolderTimes` and `LeaseTimes`: what the holder stamps is later than the watermark
  and every row, which is what makes an unsteady clock harmless. `PlanOK`: as long as
  a row is the one of the snapshot, the decision planned for it follows from it.
  `SealedPlan`: plan and seal agree. `Covered`: when every source of a worker is
  complete, each alert that is active or pending was evaluated at its moment or lies
  ahead of it in its plan; this is what closing with a new watermark needs, and it is
  inductive only together with the work cap, the gaps of the readers and the tracked
  rows. `Health`: alerts of the health source do not exist before the first success.
* `TypeCorrect`, `EvaluatesForwardHolds`, `WatermarkIsCompleteHolds` follow from the
  invariant; `TakenOverIsOverHolds`, `SealedPlanAlwaysHolds` and
  `PartialNeverCalmsHolds` are action properties proved from it.
* Lemmas on the operators: what each case of `Advance` does to a state
  (`StableType`, `CandidateType`, ..., `BreachNeverCalms`), that a complete reading
  leaves no group out and observes every live alert of its source (`ReadingIs`, one
  case per reader, and `ReadingsAre`), what a worker has collected when all of its
  sources are complete (`CollectedIs`), who writes rows and proofs (`WritersAre`).

`AuditArchiveProofs` (any writers, skews, events, sizes, batches, attempts, generations):

* `ArchiveInvariant`: `Spec => []IInv`, with `Log` (the archived batches are whole,
  exact in the bucket, and adjoin each other; the current one follows), `Rows` (the
  batch meets the CHECKs and nothing happens to it before its sealing) and `Writers`
  (what each invocation has established: a writer that uploads or reads back has
  opened the envelope, one that archives has seen an exact object, one that repeats
  an applied end finds its own receipt). `BatchMoves` and `Suits` say how a step of
  one writer may change the row without disturbing the others.
* `TypeCorrect`, `ArchiveIsCompleteHolds`, `ReportsAreTrueHolds`,
  `EndsAreAcceptedHolds`, `AttemptsEndOnceHolds`: all four properties of the run.
  The least and the greatest event of a batch exist by well-founded induction on the
  natural numbers, stated for a set and not an operator (`Least`, `Greatest`).

Only model-checked: liveness (`EventuallySettled`, `RevocationReachesTheRp`), which
needs fairness and `ENABLED`.

## 6. What is not modelled

`PROJECT.json` gives the reason for each component. The single-page application,
the documentation site and the release tooling hold no state of the running
system. What better-auth does inside a call (cookies, ceremonies, consent pages)
is modelled only by its effect on the tables. Cryptography is not modelled: a
token that passes validation was signed by its issuer, and an archive envelope
opens or does not. The queries of the alert sources, and the counting itself, are modelled by the facts
about their rows.

Three hazards have no property. Whether the library's own handlers refuse a stale
session is decided outside the repository. A token issued by a provider request that
had read the client before it was disabled does happen (see 2.6). A session that
expires between two statements of one batch would need time within a transaction.

## 7. Plan

Present: all modules of section 2. Next, in the order of what an error would cost:

1. `PasskeyStepUp`: challenges and proofs; a challenge is consumed once, a proof
   serves the session that made it.
2. `PublicRegistration`: invitations, intents, quotas; one intent makes one
   user, the quota holds under concurrency.
3. `AccountLinking`: the linking ceremonies of Google and Telegram, and the two
   users who link the same identity. Reports about clients.
4. `RefreshRotation`, `AuditQueue` and `Avatars`, small modules of one hazard each.
