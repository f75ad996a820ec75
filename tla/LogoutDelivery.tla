---------------------------- MODULE LogoutDelivery ----------------------------
(***************************************************************************)
(* The back-channel logout outbox of the SSO worker: the table             *)
(* logout_delivery with its evidence table logout_delivery_attempt, the    *)
(* Cloudflare queue that merely accelerates it, the queue consumers that   *)
(* claim, post and persist, the cron dispatcher and the admin replay.      *)
(* Every D1 batch is one step, every await between two batches lets the    *)
(* others run, and a consumer may die or throw between any two steps.      *)
(***************************************************************************)
EXTENDS Integers, FiniteSets

CONSTANTS
    Delivery,       \* primary keys of logout_delivery, in creation order
    Worker,         \* queue consumer invocations that run concurrently
    Operator,       \* admin requests that replay deliveries
    MaxAttempts,    \* LOGOUT_DELIVERY_MAX_ATTEMPTS
    MaxReplays,     \* model bound: replays of one delivery
    DispatchLimit   \* LIMIT of the dispatch query

ASSUME DeliveryAssumption == Delivery \subseteq Nat \ {0}
ASSUME MaxAttemptsAssumption == MaxAttempts \in Nat \ {0}
ASSUME LimitAssumption == DispatchLimit \in Nat \ {0} /\ MaxReplays \in Nat

VARIABLES
    row,        \* the logout_delivery table
    evidence,   \* the logout_delivery_attempt rows of each delivery
    queued,     \* delivery keys with a message in the queue
    job,        \* what each consumer is doing, with the values it has read
    op,         \* what each replay request is doing
    clientUri,  \* oauthClient.backchannelLogoutUri is set, now
    receipts,   \* jtis the relying party has accepted
    uuids       \* UUIDs issued so far by crypto.randomUUID

vars == <<row, evidence, queued, job, op, clientUri, receipts, uuids>>

-------------------------------------------------------------------------------
Status == {"absent", "pending", "processing", "retry", "delivered", "dead"}
Outcome == {"in_flight", "delivered", "retry", "dead", "lease_expired"}
Place == {"idle", "reclaim", "recheck", "claim", "reread", "post", "persist"}
Result == {"ok", "transient", "permanent"}

None == 0   \* SQL NULL in a UUID column, and the key of an idle process

Row == [status : Status, attempts : 0..MaxAttempts, replays : Nat, jti : Nat,
        lease : Nat, clock : {"null", "live", "expired"},
        next : {"null", "later", "due"}, uri : BOOLEAN]

Attempt == [replay : Nat, number : 1..MaxAttempts, lease : Nat,
            outcome : Outcome,
            resulting : {"processing", "delivered", "retry", "dead"}]

Job == [at : Place, key : Delivery \cup {None}, attempts : 0..MaxAttempts,
        replays : Nat, lease : Nat, jti : Nat, result : Result]

Op == [at : {"idle", "commit", "send"}, key : Delivery \cup {None}, replays : Nat]

IdleJob == [at |-> "idle", key |-> None, attempts |-> 0, replays |-> 0,
            lease |-> None, jti |-> None, result |-> "transient"]

IdleOp == [at |-> "idle", key |-> None, replays |-> 0]

AbsentRow == [status |-> "absent", attempts |-> 0, replays |-> 0, jti |-> None,
              lease |-> None, clock |-> "null", next |-> "null", uri |-> FALSE]

TypeOK ==
    /\ row \in [Delivery -> Row]
    /\ evidence \in [Delivery -> SUBSET Attempt]
    /\ queued \subseteq Delivery
    /\ job \in [Worker -> Job]
    /\ \A w \in Worker : job[w].at # "idle" => job[w].key # None
    /\ op \in [Operator -> Op]
    /\ \A o \in Operator : op[o].at # "idle" => op[o].key # None
    /\ clientUri \in [Delivery -> BOOLEAN]
    /\ receipts \in [Delivery -> SUBSET Nat]
    /\ uuids \in Nat

Init ==
    /\ row = [d \in Delivery |-> AbsentRow]
    /\ evidence = [d \in Delivery |-> {}]
    /\ queued = {}
    /\ job = [w \in Worker |-> IdleJob]
    /\ op = [o \in Operator |-> IdleOp]
    /\ clientUri \in [Delivery -> BOOLEAN]
    /\ receipts = [d \in Delivery |-> {}]
    /\ uuids = 0

-------------------------------------------------------------------------------
(* Decisions and SQL conditions, one operator per idea.                    *)

\* (slip: the expiry time is not compared)
BugAnyLease(r) == r.status = "processing"

\* A lease that some consumer may take over.
LeaseExpired(r) == r.status = "processing" /\ r.clock = "expired"

\* (slip: abandoned leases are never sent)
BugDueWaitingOnly(r) == r.status \in {"pending", "retry"} /\ r.next = "due"

\* The rows that the dispatcher sends to the queue.
Due(r) ==
    \/ r.status \in {"pending", "retry"} /\ r.next = "due"
    \/ LeaseExpired(r)

Backlog ==
    LET due == {d \in Delivery : Due(row[d])}
    IN  {d \in due : Cardinality({e \in due : e < d}) < DispatchLimit}

\* (slip: a row in processing is claimed over its open attempt)
BugClaimableProcessing(r) ==
    /\ r.attempts < MaxAttempts
    /\ r.uri
    /\ r.next = "due" \/ r.clock = "expired"

\* WHERE clause of the claiming UPDATE.
Claimable(r) ==
    /\ r.attempts < MaxAttempts
    /\ r.uri
    /\ r.status \in {"pending", "retry"}
    /\ r.next = "due"

\* COALESCE(jti, ?): the first claim names the logout event for good.
EventJti(r, uuid) == IF r.jti = None THEN uuid ELSE r.jti

\* (slip: completed attempts are hit again)
BugAnyAttempt(d, j) ==
    {e \in evidence[d] : /\ e.replay = j.replays
                         /\ e.number = j.attempts
                         /\ e.lease = j.lease}

\* The row that a claim leases under a fresh UUID.
Leased(r, uuid) ==
    [status |-> "processing", attempts |-> r.attempts + 1,
     replays |-> r.replays, jti |-> EventJti(r, uuid),
     lease |-> uuid, clock |-> "live", next |-> "null", uri |-> r.uri]

\* The open attempt that a row in processing stands for.
Flight(r) ==
    [replay |-> r.replays, number |-> r.attempts, lease |-> r.lease,
     outcome |-> "in_flight", resulting |-> "processing"]

\* The open attempt that a consumer's values name.
OpenAttempt(d, j) ==
    {e \in evidence[d] : /\ e.replay = j.replays
                         /\ e.number = j.attempts
                         /\ e.lease = j.lease
                         /\ e.outcome = "in_flight"}

\* The row still carries the lease that the consumer took or read.
Fenced(r, j) ==
    /\ r.status = "processing"
    /\ r.lease = j.lease
    /\ r.attempts = j.attempts
    /\ r.replays = j.replays

\* (slip: an unanswered attempt counts as delivered)
BugTransientDelivers(attempts, result) ==
    IF result = "permanent" THEN "dead" ELSE "delivered"

Disposition(attempts, result) ==
    CASE result = "ok" -> "delivered"
      [] result # "ok" /\ (result = "permanent" \/ attempts >= MaxAttempts)
            -> "dead"
      [] OTHER -> "retry"

ExpiredDisposition(attempts) ==
    IF attempts >= MaxAttempts THEN "dead" ELSE "retry"

\* The evidence table after the given attempts are completed.
Completed(d, hits, outcome, resulting) ==
    (evidence[d] \ hits)
        \cup {[e EXCEPT !.outcome = outcome, !.resulting = resulting] : e \in hits}

\* EXISTS (...): the evidence that a row update demands.
Evidenced(attempts, j, outcome, resulting) ==
    \E e \in attempts : /\ e.replay = j.replays
                        /\ e.number = j.attempts
                        /\ e.lease = j.lease
                        /\ e.outcome = outcome
                        /\ e.resulting = resulting

\* The row when an attempt is over: the lease is dropped.
Released(r, status, next) ==
    [status |-> status, attempts |-> r.attempts, replays |-> r.replays,
     jti |-> r.jti, lease |-> None, clock |-> "null", next |-> next,
     uri |-> r.uri]

\* A retry after a lost lease is due at once, one after an answer backs off.
NextAfterExpiry(status) == IF status = "retry" THEN "due" ELSE "null"
NextAfterAnswer(status) == IF status = "retry" THEN "later" ELSE "null"

\* What an operator may replay.
Replayable(r) == r.status \in {"dead", "retry"}

\* The row that a replay reopens: the jti is kept, the attempts start over.
Reopened(r, generation) ==
    [status |-> "pending", attempts |-> 0, replays |-> generation,
     jti |-> r.jti, lease |-> None, clock |-> "null", next |-> "due",
     uri |-> TRUE]

\* message.retry(): the message comes back, or max_retries moved it to the DLQ.
MaybeRequeue(d) == queued' \in {queued, queued \cup {d}}

-------------------------------------------------------------------------------
(* The environment: revocations that snapshot a delivery, client edits,    *)
(* time and the queue.                                                     *)

\* A revocation snapshots one RP visit, with the client's URI at that moment:
\* without one the row is dead from the start.
Recorded(uri) ==
    [status |-> IF uri THEN "pending" ELSE "dead", attempts |-> 0,
     replays |-> 0, jti |-> None, lease |-> None, clock |-> "null",
     next |-> IF uri THEN "due" ELSE "null", uri |-> uri]

Snapshot(d) ==
    /\ row[d].status = "absent"
    /\ \A e \in Delivery : e < d => row[e].status # "absent"
    /\ row' = [row EXCEPT ![d] = Recorded(clientUri[d])]
    /\ UNCHANGED <<evidence, queued, job, op, clientUri, receipts, uuids>>

\* An administrator sets or clears the client's back-channel URI.
EditClient(d) ==
    /\ clientUri' = [clientUri EXCEPT ![d] = ~@]
    /\ UNCHANGED <<row, evidence, queued, job, op, receipts, uuids>>

\* lease_expires_at <= now becomes true.
LeaseLapses(d) ==
    /\ row[d].clock = "live"
    /\ row' = [row EXCEPT ![d].clock = "expired"]
    /\ UNCHANGED <<evidence, queued, job, op, clientUri, receipts, uuids>>

\* next_attempt_at <= now becomes true.
FallsDue(d) ==
    /\ row[d].next = "later"
    /\ row' = [row EXCEPT ![d].next = "due"]
    /\ UNCHANGED <<evidence, queued, job, op, clientUri, receipts, uuids>>

\* Cron, or the request that revoked, sends the oldest due keys; any of the
\* sends may fail (Promise.allSettled) and no row changes.
Dispatch ==
    /\ \E sent \in SUBSET Backlog : queued' = queued \cup sent
    /\ UNCHANGED <<row, evidence, job, op, clientUri, receipts, uuids>>

\* The queue loses a message it could have handed over (dead-letter queue,
\* purge, retention). Retention is days and a consumer takes seconds, so a
\* message is not lost for the only reason that every consumer is busy.
LoseMessage(d) ==
    /\ d \in queued
    /\ \E w \in Worker : job[w].at = "idle"
    /\ queued' = queued \ {d}
    /\ UNCHANGED <<row, evidence, job, op, clientUri, receipts, uuids>>

-------------------------------------------------------------------------------
(* consumeLogoutDeliveryMessage, one action per round trip to D1 or the RP *)

Goto(w, j) == job' = [job EXCEPT ![w] = j]

\* A consumer that knows the key, and perhaps the lease it took.
At(d, place, lease) ==
    [at |-> place, key |-> d, attempts |-> 0, replays |-> 0,
     lease |-> lease, jti |-> None, result |-> "transient"]

\* A consumer that has just selected the row.
WithRow(d, r, place) ==
    [at |-> place, key |-> d, attempts |-> r.attempts, replays |-> r.replays,
     lease |-> r.lease, jti |-> r.jti, result |-> "transient"]

\* The queue hands over a message, at least once: it may stay for a second
\* consumer. The consumer looks for an expired lease first.
Receive(w, d) ==
    /\ job[w].at = "idle"
    /\ d \in queued
    /\ queued' \in {queued, queued \ {d}}
    /\ Goto(w, IF LeaseExpired(row[d])
               THEN WithRow(d, row[d], "reclaim")
               ELSE At(d, "claim", None))
    /\ UNCHANGED <<row, evidence, op, clientUri, receipts, uuids>>

\* The batch that closes the abandoned attempt and then, only if the evidence
\* is there, releases the row.
Terminalize(w) ==
    LET j == job[w]
        d == j.key
        status == ExpiredDisposition(j.attempts)
        hits == OpenAttempt(d, j)
        after == Completed(d, hits, "lease_expired", status)
        rowHit == /\ Fenced(row[d], j)
                  /\ LeaseExpired(row[d])
                  /\ Evidenced(after, j, "lease_expired", status)
    IN  /\ j.at = "reclaim"
        /\ evidence' = [evidence EXCEPT ![d] = after]
        /\ row' = IF rowHit
                  THEN [row EXCEPT ![d] =
                          Released(@, status, NextAfterExpiry(status))]
                  ELSE row
        /\ Goto(w, [j EXCEPT !.at = IF rowHit /\ Cardinality(hits) = 1
                                    THEN "claim" ELSE "recheck"])
        /\ UNCHANGED <<queued, op, clientUri, receipts, uuids>>

\* Another consumer may have won: only a row that still has the same expired
\* lease is an inconsistency, which throws.
StillExpired(j) == LeaseExpired(row[j.key]) /\ row[j.key].lease = j.lease

Recheck(w) ==
    /\ job[w].at = "recheck"
    /\ IF StillExpired(job[w])
       THEN Goto(w, IdleJob) /\ MaybeRequeue(job[w].key)
       ELSE Goto(w, [job[w] EXCEPT !.at = "claim"]) /\ UNCHANGED queued
    /\ UNCHANGED <<row, evidence, op, clientUri, receipts, uuids>>

\* The claiming batch: take a lease, count the attempt, open its evidence. A
\* row that cannot be claimed acknowledges the message.
Claim(w) ==
    LET d == job[w].key
        r == row[d]
        uuid == uuids + 1
        taken == Leased(r, uuid)
    IN  /\ job[w].at = "claim"
        /\ IF Claimable(r)
           THEN /\ row' = [row EXCEPT ![d] = taken]
                /\ evidence' = [evidence EXCEPT ![d] = @ \cup {Flight(taken)}]
                /\ uuids' = uuid
                /\ Goto(w, At(d, "reread", uuid))
           ELSE Goto(w, IdleJob) /\ UNCHANGED <<row, evidence, uuids>>
        /\ UNCHANGED <<queued, op, clientUri, receipts>>

\* The consumer reads back what it claimed; if its lease is gone it stops.
Reread(w) ==
    LET j == job[w]
        r == row[j.key]
    IN  /\ j.at = "reread"
        /\ IF r.status = "processing" /\ r.lease = j.lease
           THEN Goto(w, WithRow(j.key, r, "post"))
           ELSE Goto(w, IdleJob)
        /\ UNCHANGED <<row, evidence, queued, op, clientUri, receipts, uuids>>

\* Sign and POST. Only 200 and 204 say "ok", and then the RP has accepted the
\* token; after a timeout, a reset or an error status nobody knows whether it
\* has. The relying party accepts a jti it has seen before again.
Post(w) ==
    /\ job[w].at = "post"
    /\ \E result \in Result, heard \in BOOLEAN :
         /\ result = "ok" => heard
         /\ Goto(w, [job[w] EXCEPT !.at = "persist", !.result = result])
         /\ receipts' = IF heard
                        THEN [receipts EXCEPT ![job[w].key] = @ \cup {job[w].jti}]
                        ELSE receipts
    /\ UNCHANGED <<row, evidence, queued, op, clientUri, uuids>>

\* The batch that records the answer: the attempt if the row is still fenced,
\* then the row if the attempt says so. Anything else throws and retries.
Persist(w) ==
    LET j == job[w]
        d == j.key
        status == Disposition(j.attempts, j.result)
        hits == IF Fenced(row[d], j) THEN OpenAttempt(d, j) ELSE {}
        after == Completed(d, hits, status, status)
        rowHit == Fenced(row[d], j) /\ Evidenced(after, j, status, status)
    IN  /\ j.at = "persist"
        /\ evidence' = [evidence EXCEPT ![d] = after]
        /\ row' = IF rowHit
                  THEN [row EXCEPT ![d] =
                          Released(@, status, NextAfterAnswer(status))]
                  ELSE row
        /\ Goto(w, IdleJob)
        /\ IF rowHit /\ Cardinality(hits) = 1 /\ status # "retry"
           THEN UNCHANGED queued
           ELSE MaybeRequeue(d)
        /\ UNCHANGED <<op, clientUri, receipts, uuids>>

\* The isolate dies, or a D1 call throws: with or without its message.
Abort(w) ==
    /\ job[w].at # "idle"
    /\ Goto(w, IdleJob)
    /\ MaybeRequeue(job[w].key)
    /\ UNCHANGED <<row, evidence, op, clientUri, receipts, uuids>>

-------------------------------------------------------------------------------
(* POST /:deliveryKey/replay                                               *)

ReplayRead(o, d) ==
    /\ op[o].at = "idle"
    /\ Replayable(row[d])
    /\ row[d].uri \/ clientUri[d]
    /\ row[d].replays < MaxReplays
    /\ op' = [op EXCEPT ![o] = [at |-> "commit", key |-> d,
                                replays |-> row[d].replays]]
    /\ UNCHANGED <<row, evidence, queued, job, clientUri, receipts, uuids>>

\* (slip: the status read before the await is trusted)
BugStatusNotRechecked(r, replays) == r.replays = replays /\ r.lease = None

\* The guarded UPDATE, on the values read before the await.
ReplayGuard(r, replays) == Replayable(r) /\ r.replays = replays

ReplayCommit(o) ==
    LET d == op[o].key
    IN  /\ op[o].at = "commit"
        /\ IF ReplayGuard(row[d], op[o].replays)
           THEN /\ row' = [row EXCEPT ![d] = Reopened(@, op[o].replays + 1)]
                /\ op' = [op EXCEPT ![o].at = "send"]
           ELSE /\ op' = [op EXCEPT ![o] = IdleOp]
                /\ UNCHANGED row
        /\ UNCHANGED <<evidence, queued, job, clientUri, receipts, uuids>>

\* The best-effort send of the reopened key.
ReplaySend(o) ==
    LET d == op[o].key
    IN  /\ op[o].at = "send"
        /\ queued' \in {queued} \cup (IF Due(row[d]) THEN {queued \cup {d}} ELSE {})
        /\ op' = [op EXCEPT ![o] = IdleOp]
        /\ UNCHANGED <<row, evidence, job, clientUri, receipts, uuids>>

\* The admin's request dies between its awaits.
ReplayAbort(o) ==
    /\ op[o].at # "idle"
    /\ op' = [op EXCEPT ![o] = IdleOp]
    /\ UNCHANGED <<row, evidence, queued, job, clientUri, receipts, uuids>>

-------------------------------------------------------------------------------
Advance(w) ==
    \/ Terminalize(w) \/ Recheck(w) \/ Claim(w)
    \/ Reread(w) \/ Post(w) \/ Persist(w)

Next ==
    \/ \E d \in Delivery : \/ Snapshot(d) \/ EditClient(d) \/ LeaseLapses(d)
                           \/ FallsDue(d) \/ LoseMessage(d)
    \/ Dispatch
    \/ \E w \in Worker, d \in Delivery : Receive(w, d)
    \/ \E w \in Worker : Advance(w) \/ Abort(w)
    \/ \E o \in Operator, d \in Delivery : ReplayRead(o, d)
    \/ \E o \in Operator : ReplayCommit(o) \/ ReplaySend(o) \/ ReplayAbort(o)

Spec == Init /\ [][Next]_vars

(* The scheduling that liveness assumes. Time passes; a consumer that is   *)
(* running takes its next step or dies; cron runs every minute, so a key   *)
(* that stays due is sent over and over, and a key that is sent over and   *)
(* over is received; consumers may die at any step any number of times,    *)
(* but not each and every time just before the first write of a delivery.  *)
Fairness ==
    /\ \A d \in Delivery :
         /\ WF_vars(LeaseLapses(d))
         /\ WF_vars(FallsDue(d))
         /\ SF_vars(Dispatch /\ d \in queued' \ queued)
         /\ SF_vars(\E w \in Worker : Receive(w, d))
         /\ SF_vars(\E w \in Worker : job[w].key = d /\ Terminalize(w))
         /\ SF_vars(\E w \in Worker :
                        job[w].key = d /\ Claimable(row[d]) /\ Claim(w))
    /\ \A w \in Worker : WF_vars(Advance(w))

FairSpec == Spec /\ Fairness

-------------------------------------------------------------------------------
(* Safety                                                                  *)

\* Migration 0018: the CHECK constraints of logout_delivery and
\* logout_delivery_attempt. A violated CHECK would roll the batch back and the
\* message would be retried for ever.
SchemaChecks ==
    \A d \in Delivery :
      /\ row[d].status = "processing" =>
           row[d].lease # None /\ row[d].clock # "null"
      /\ row[d].status \in {"pending", "retry"} <=> row[d].next # "null"
      /\ \A e \in evidence[d] :
           /\ e.outcome = "in_flight" <=> e.resulting = "processing"
           /\ e.outcome \in {"delivered", "retry", "dead"} =>
                e.resulting = e.outcome
           /\ e.outcome = "lease_expired" => e.resulting \in {"retry", "dead"}

\* Row and evidence agree although two statements write them: a row is in
\* processing exactly when it holds a lease, exactly one attempt is then open,
\* and it is the one the row's lease, attempt number and replay count name. A
\* batch of which only one statement hit would break this.
LeaseEvidence ==
    \A d \in Delivery :
      /\ row[d].lease # None <=> row[d].status = "processing"
      /\ row[d].clock # "null" <=> row[d].status = "processing"
      /\ {e \in evidence[d] : e.outcome = "in_flight"} =
           IF row[d].status = "processing" THEN {Flight(row[d])} ELSE {}

\* The attempts of a replay generation are numbered 1, 2, ... without gap or
\* repetition, and a lease belongs to one attempt: the UNIQUE constraints of
\* logout_delivery_attempt can never make the claiming batch fail.
AttemptLedger ==
    \A d \in Delivery :
      /\ \A e, f \in evidence[d] :
           \/ e = f
           \/ e.lease # f.lease /\ <<e.replay, e.number>> # <<f.replay, f.number>>
      /\ \A e \in evidence[d] : e.replay <= row[d].replays
      /\ {e.number : e \in {f \in evidence[d] : f.replay = row[d].replays}}
           = 1..row[d].attempts

\* The attempt that the row counts last.
LastAttempt(d) == {e \in evidence[d] : /\ e.replay = row[d].replays
                                       /\ e.number = row[d].attempts}

\* All the retries and replays of one logout event carry one jti, so that the
\* relying party's receipt table recognises the duplicates.
OneJti ==
    \A d \in Delivery : receipts[d] \subseteq {row[d].jti} \ {None}

\* A row is delivered only if the relying party has accepted its logout event
\* and its last attempt says so; no other row has an attempt that says so. What
\* the relying party has accepted before, of attempts that timed out, lost their
\* lease or were replayed, is the same event under the same jti.
DeliveredWasHeard ==
    /\ OneJti
    /\ \A d \in Delivery :
         /\ row[d].status = "delivered" => row[d].jti \in receipts[d]
         /\ (row[d].status = "delivered") <=>
              (\E e \in evidence[d] : e.outcome = "delivered")
         /\ row[d].status = "delivered" =>
              \E e \in LastAttempt(d) : e.outcome = "delivered"

\* A dead row was never routable, or its last attempt failed for good: a
\* permanent answer, or no attempt left. Losing a lease never kills it early.
DeadIsJustified ==
    \A d \in Delivery : row[d].status = "dead" =>
      \/ ~row[d].uri /\ row[d].attempts = 0
      \/ \E e \in LastAttempt(d) :
           /\ e.resulting = "dead"
           /\ e.outcome = "lease_expired" => e.number = MaxAttempts

\* The throw "expired logout delivery attempt evidence was inconsistent" is
\* unreachable: whenever the two writes of a recovery do not both hit, another
\* consumer has already taken the row over, and it stays so until the re-check.
RecoveryConsistent ==
    \A w \in Worker : job[w].at = "recheck" => ~StillExpired(job[w])

\* A row that waits can be claimed once it is due: it has an endpoint and an
\* attempt left. Otherwise it would be sent by cron for ever and never leave.
WaitingIsClaimable ==
    \A d \in Delivery : row[d].status \in {"pending", "retry"} =>
      Claimable([row[d] EXCEPT !.next = "due"])

-------------------------------------------------------------------------------
(* Action properties                                                       *)

\* A live lease is ended only by the consumer that holds it, recording its own
\* answer; an expired one also by recovery. A second consumer of a duplicated
\* message never takes a delivery away from the one that is posting it.
LeaseRespected ==
    [][\A d \in Delivery :
         row[d].status = "processing" /\ row'[d].lease # row[d].lease =>
           \/ row[d].clock = "expired"
           \/ \E w \in Worker : /\ job[w].at = "persist"
                                /\ job[w].key = d
                                /\ job[w].lease = row[d].lease
                                /\ job'[w].at = "idle"]_vars

\* Evidence is append-only: a completed attempt is never rewritten or removed,
\* whatever consumer comes late, and an open one only gets its outcome.
EvidenceIsFinal ==
    [][\A d \in Delivery : \A e \in evidence[d] :
         \/ e \in evidence'[d]
         \/ /\ e.outcome = "in_flight"
            /\ \E f \in evidence'[d] : /\ f.lease = e.lease
                                       /\ f.outcome # "in_flight"]_vars

-------------------------------------------------------------------------------
(* Refinement                                                              *)

Work(r) ==
    CASE r.status = "absent" -> "none"
      [] r.status = "delivered" -> "acknowledged"
      [] r.status = "dead" -> "abandoned"
      [] OTHER -> "owed"

WorkOf == [d \in Delivery |-> Work(row[d])]
ToldOf == [d \in Delivery |-> receipts[d] # {}]
GenerationOf == [d \in Delivery |-> row[d].replays]
TriesOf == [d \in Delivery |-> row[d].attempts]

Contract ==
    INSTANCE DeliveryContract WITH
      work <- WorkOf, told <- ToldOf, generation <- GenerationOf,
      tries <- TriesOf

\* The outbox keeps the promise of DeliveryContract: in particular it never
\* marks a logout delivered that the relying party has not accepted, never
\* leaves delivered again, and never exceeds the attempts of a generation.
ImplementsContract == Contract!Spec

-------------------------------------------------------------------------------
(* Liveness                                                                *)

Settled(d) == row[d].status \in {"delivered", "dead"}

\* "Queue loss alone cannot lose durable logout work": every delivery that is
\* not settled is settled eventually, however often messages are lost,
\* duplicated or late and consumers die between their writes.
EventuallySettled ==
    \A d \in Delivery :
      (row[d].status \in {"pending", "processing", "retry"}) ~> Settled(d)
===============================================================================
