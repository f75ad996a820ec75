------------------------- MODULE LogoutDeliveryProofs -------------------------
(***************************************************************************)
(* Theorems about LogoutDelivery, for every set of deliveries, consumers   *)
(* and operators and every value of the limits.                            *)
(***************************************************************************)
EXTENDS LogoutDelivery, FiniteSetTheorems, TLAPS

LEMMA KeyIsNotNone == None \notin Delivery
  BY DeliveryAssumption DEF None

-------------------------------------------------------------------------------
(* Types                                                                   *)

LEMMA RowOperators ==
  ASSUME NEW r \in Row, NEW uuid \in Nat, NEW n \in Nat
  PROVE  /\ r.attempts < MaxAttempts => Leased(r, uuid) \in Row
         /\ Reopened(r, n) \in Row
         /\ \A s \in {"delivered", "retry", "dead"} :
              /\ Released(r, s, NextAfterExpiry(s)) \in Row
              /\ Released(r, s, NextAfterAnswer(s)) \in Row
<1>1. EventJti(r, uuid) \in Nat
  BY DEF Row, EventJti
<1>2. r.attempts < MaxAttempts => Leased(r, uuid) \in Row
  BY <1>1, MaxAttemptsAssumption DEF Row, Status, Leased
<1>3. Reopened(r, n) \in Row
  BY MaxAttemptsAssumption DEF Row, Status, Reopened, None
<1>4. \A s \in {"delivered", "retry", "dead"} :
        /\ Released(r, s, NextAfterExpiry(s)) \in Row
        /\ Released(r, s, NextAfterAnswer(s)) \in Row
  BY DEF Row, Status, Released, None, NextAfterExpiry, NextAfterAnswer
<1> QED BY <1>2, <1>3, <1>4

LEMMA DispositionValues ==
  ASSUME NEW n \in Nat, NEW x \in Result
  PROVE  /\ Disposition(n, x) \in {"delivered", "retry", "dead"}
         /\ ExpiredDisposition(n) \in {"retry", "dead"}
  BY MaxAttemptsAssumption DEF Disposition, ExpiredDisposition, Result

LEMMA CompletedType ==
  ASSUME NEW d \in Delivery, evidence[d] \subseteq Attempt,
         NEW hits \in SUBSET evidence[d], NEW o \in Outcome,
         NEW s \in {"delivered", "retry", "dead"}
  PROVE  Completed(d, hits, o, s) \subseteq Attempt
<1>1. ASSUME NEW e \in hits  PROVE [e EXCEPT !.outcome = o, !.resulting = s] \in Attempt
  <2>1. e \in Attempt
    OBVIOUS
  <2> QED BY <2>1 DEF Attempt, Outcome
<1> QED BY <1>1 DEF Completed

LEMMA TypeInit == Init => TypeOK
<1>1. AbsentRow \in Row
  BY MaxAttemptsAssumption DEF AbsentRow, Row, Status, None
<1>2. IdleJob \in Job /\ IdleJob.at = "idle"
  BY MaxAttemptsAssumption DEF IdleJob, Job, Place, Result, None
<1>3. IdleOp \in Op /\ IdleOp.at = "idle"
  BY DEF IdleOp, Op, None
<1> QED BY <1>1, <1>2, <1>3 DEF Init, TypeOK

LEMMA TypeStep == TypeOK /\ [Next]_vars => TypeOK'
<1> SUFFICES ASSUME TypeOK, [Next]_vars PROVE TypeOK'
  OBVIOUS
<1> USE DEF TypeOK
<1>1. ASSUME NEW d \in Delivery, Snapshot(d) PROVE TypeOK'
  <2>1. Recorded(clientUri[d]) \in Row
    BY MaxAttemptsAssumption DEF Recorded, Row, Status, None
  <2> QED BY <1>1, <2>1 DEF Snapshot
<1>2. ASSUME NEW d \in Delivery, EditClient(d) PROVE TypeOK'
  BY <1>2 DEF EditClient
<1>3. ASSUME NEW d \in Delivery, LeaseLapses(d) PROVE TypeOK'
  <2>1. [row[d] EXCEPT !.clock = "expired"] \in Row
    BY DEF Row
  <2> QED BY <1>3, <2>1 DEF LeaseLapses
<1>4. ASSUME NEW d \in Delivery, FallsDue(d) PROVE TypeOK'
  <2>1. [row[d] EXCEPT !.next = "due"] \in Row
    BY DEF Row
  <2> QED BY <1>4, <2>1 DEF FallsDue
<1>5. ASSUME NEW d \in Delivery, LoseMessage(d) PROVE TypeOK'
  BY <1>5 DEF LoseMessage
<1>6. ASSUME Dispatch PROVE TypeOK'
  BY <1>6 DEF Dispatch, Backlog
<1>7. ASSUME NEW w \in Worker, NEW d \in Delivery, Receive(w, d) PROVE TypeOK'
  <2>1. /\ WithRow(d, row[d], "reclaim") \in Job
        /\ At(d, "claim", None) \in Job
        /\ WithRow(d, row[d], "reclaim").key # None
        /\ At(d, "claim", None).key # None
    BY KeyIsNotNone, MaxAttemptsAssumption
       DEF WithRow, At, Job, Place, Result, Row, None
  <2> QED BY <1>7, <2>1 DEF Receive, Goto
<1>8. ASSUME NEW w \in Worker, Terminalize(w) PROVE TypeOK'
  <2> DEFINE j == job[w]
             status == ExpiredDisposition(j.attempts)
             hits == OpenAttempt(j.key, j)
             after == Completed(j.key, hits, "lease_expired", status)
  <2>1. /\ j.key \in Delivery
        /\ j.attempts \in Nat
        /\ \A p \in {"claim", "recheck"} :
             /\ [j EXCEPT !.at = p] \in Job
             /\ [j EXCEPT !.at = p].key # None
    BY <1>8, MaxAttemptsAssumption DEF Terminalize, Job, Place, None
  <2>2. status \in {"retry", "dead"}
    BY MaxAttemptsAssumption DEF ExpiredDisposition
  <2>3. after \subseteq Attempt
    <3>1. hits \in SUBSET evidence[j.key]
      BY DEF OpenAttempt
    <3> HIDE DEF hits, status
    <3> QED BY <2>1, <2>2, <3>1, CompletedType DEF Outcome
  <2>4. Released(row[j.key], status, NextAfterExpiry(status)) \in Row
    BY <2>1, <2>2, RowOperators
  <2> HIDE DEF status, hits, after
  <2>5. /\ evidence' = [evidence EXCEPT ![j.key] = after]
        /\ \/ row' = row
           \/ row' = [row EXCEPT ![j.key] =
                        Released(row[j.key], status, NextAfterExpiry(status))]
        /\ \E p \in {"claim", "recheck"} : Goto(w, [j EXCEPT !.at = p])
        /\ UNCHANGED <<queued, op, clientUri, receipts, uuids>>
    BY <1>8, <2>1 DEF Terminalize, status, hits, after
  <2> HIDE DEF j
  <2>6. job' \in [Worker -> Job]
    BY <2>1, <2>5 DEF Goto, j
  <2>7. \A v \in Worker : job'[v].at # "idle" => job'[v].key # None
    BY <2>1, <2>5 DEF Goto, j
  <2> QED BY <2>1, <2>3, <2>4, <2>5, <2>6, <2>7
<1>9. ASSUME NEW w \in Worker, Recheck(w) PROVE TypeOK'
  <2>1. /\ job[w].key \in Delivery
        /\ IdleJob \in Job /\ IdleJob.at = "idle"
        /\ [job[w] EXCEPT !.at = "claim"] \in Job
        /\ [job[w] EXCEPT !.at = "claim"].key # None
    BY <1>9, MaxAttemptsAssumption DEF Recheck, IdleJob, Job, Place, Result, None
  <2> QED BY <1>9, <2>1 DEF Recheck, Goto, MaybeRequeue
<1>10. ASSUME NEW w \in Worker, Claim(w) PROVE TypeOK'
  <2> DEFINE d == job[w].key
             taken == Leased(row[d], uuids + 1)
  <2>1. /\ d \in Delivery
        /\ IdleJob \in Job /\ IdleJob.at = "idle"
    BY <1>10, MaxAttemptsAssumption DEF Claim, IdleJob, Job, Place, Result, None
  <2>2. CASE ~Claimable(row[d])
    BY <1>10, <2>1, <2>2 DEF Claim, Goto
  <2>3. CASE Claimable(row[d])
    <3>1. taken \in Row /\ taken.attempts \in 1..MaxAttempts
      <4>1. row[d] \in Row /\ row[d].attempts < MaxAttempts
        BY <2>1, <2>3 DEF Claimable
      <4>2. taken \in Row
        BY <4>1, RowOperators
      <4> QED BY <4>1, <4>2, MaxAttemptsAssumption DEF Leased, Row
    <3>2. Flight(taken) \in Attempt
      <4> HIDE DEF taken
      <4> QED BY <3>1 DEF Flight, Row, Attempt, Outcome
    <3>3. At(d, "reread", uuids + 1) \in Job /\ At(d, "reread", uuids + 1).key # None
      BY <2>1, KeyIsNotNone, MaxAttemptsAssumption DEF At, Job, Place, Result, None
    <3> HIDE DEF taken
    <3>4. /\ row' = [row EXCEPT ![d] = taken]
          /\ evidence' = [evidence EXCEPT ![d] = @ \cup {Flight(taken)}]
          /\ uuids' = uuids + 1
          /\ Goto(w, At(d, "reread", uuids + 1))
          /\ UNCHANGED <<queued, op, clientUri, receipts>>
      BY <1>10, <2>3 DEF Claim, taken
    <3> QED BY <2>1, <3>1, <3>2, <3>3, <3>4 DEF Goto
  <2> QED BY <2>2, <2>3
<1>11. ASSUME NEW w \in Worker, Reread(w) PROVE TypeOK'
  <2>1. /\ job[w].key \in Delivery
        /\ IdleJob \in Job /\ IdleJob.at = "idle"
        /\ WithRow(job[w].key, row[job[w].key], "post") \in Job
        /\ WithRow(job[w].key, row[job[w].key], "post").key # None
    BY <1>11, MaxAttemptsAssumption
       DEF Reread, WithRow, Row, IdleJob, Job, Place, Result, None
  <2> QED BY <1>11, <2>1 DEF Reread, Goto
<1>12. ASSUME NEW w \in Worker, Post(w) PROVE TypeOK'
  <2>1. PICK result \in Result, heard \in BOOLEAN :
          /\ Goto(w, [job[w] EXCEPT !.at = "persist", !.result = result])
          /\ receipts' = IF heard
                         THEN [receipts EXCEPT ![job[w].key] = @ \cup {job[w].jti}]
                         ELSE receipts
    BY <1>12 DEF Post
  <2>2. /\ job[w].key \in Delivery
        /\ job[w].jti \in Nat
        /\ [job[w] EXCEPT !.at = "persist", !.result = result] \in Job
        /\ [job[w] EXCEPT !.at = "persist", !.result = result].key # None
    BY <1>12 DEF Post, Job, Place, None
  <2> QED BY <1>12, <2>1, <2>2 DEF Post, Goto
<1>13. ASSUME NEW w \in Worker, Persist(w) PROVE TypeOK'
  <2> DEFINE j == job[w]
             status == Disposition(j.attempts, j.result)
             hits == IF Fenced(row[j.key], j) THEN OpenAttempt(j.key, j) ELSE {}
             after == Completed(j.key, hits, status, status)
  <2>1. /\ j.key \in Delivery
        /\ j.attempts \in Nat /\ j.result \in Result
        /\ IdleJob \in Job /\ IdleJob.at = "idle"
    BY <1>13, MaxAttemptsAssumption
       DEF Persist, Job, Place, None, IdleJob, Result
  <2>2. status \in {"delivered", "retry", "dead"}
    BY <2>1, DispositionValues
  <2>3. after \subseteq Attempt
    <3>1. hits \in SUBSET evidence[j.key]
      BY DEF OpenAttempt
    <3> HIDE DEF hits, status
    <3> QED BY <2>1, <2>2, <3>1, CompletedType DEF Outcome
  <2>4. Released(row[j.key], status, NextAfterAnswer(status)) \in Row
    BY <2>1, <2>2, RowOperators
  <2> HIDE DEF status, hits, after
  <2>5. /\ evidence' = [evidence EXCEPT ![j.key] = after]
        /\ \/ row' = row
           \/ row' = [row EXCEPT ![j.key] =
                        Released(row[j.key], status, NextAfterAnswer(status))]
        /\ Goto(w, IdleJob)
        /\ queued' \in {queued, queued \cup {j.key}}
        /\ UNCHANGED <<op, clientUri, receipts, uuids>>
    BY <1>13 DEF Persist, MaybeRequeue, status, hits, after
  <2> HIDE DEF j
  <2> QED BY <2>1, <2>3, <2>4, <2>5 DEF Goto
<1>14. ASSUME NEW w \in Worker, Abort(w) PROVE TypeOK'
  <2>1. /\ job[w].key \in Delivery
        /\ IdleJob \in Job /\ IdleJob.at = "idle"
    BY <1>14, MaxAttemptsAssumption DEF Abort, IdleJob, Job, Place, Result, None
  <2> QED BY <1>14, <2>1 DEF Abort, Goto, MaybeRequeue
<1>15. ASSUME NEW o \in Operator, NEW d \in Delivery, ReplayRead(o, d)
       PROVE  TypeOK'
  <2>1. [at |-> "commit", key |-> d, replays |-> row[d].replays] \in Op
    BY DEF Op, Row
  <2> QED BY <1>15, <2>1, KeyIsNotNone DEF ReplayRead
<1>16. ASSUME NEW o \in Operator, ReplayCommit(o) PROVE TypeOK'
  <2>1. /\ op[o].key \in Delivery
        /\ op[o].replays + 1 \in Nat
        /\ IdleOp \in Op /\ IdleOp.at = "idle"
        /\ [op[o] EXCEPT !.at = "send"] \in Op
        /\ [op[o] EXCEPT !.at = "send"].key # None
    BY <1>16 DEF ReplayCommit, IdleOp, Op, None
  <2>2. Reopened(row[op[o].key], op[o].replays + 1) \in Row
    BY <2>1, RowOperators
  <2> QED BY <1>16, <2>1, <2>2 DEF ReplayCommit
<1>17. ASSUME NEW o \in Operator, ReplaySend(o) PROVE TypeOK'
  <2>1. /\ op[o].key \in Delivery
        /\ IdleOp \in Op /\ IdleOp.at = "idle"
    BY <1>17 DEF ReplaySend, IdleOp, Op, None
  <2> QED BY <1>17, <2>1 DEF ReplaySend
<1>18. ASSUME NEW o \in Operator, ReplayAbort(o) PROVE TypeOK'
  <2>1. IdleOp \in Op /\ IdleOp.at = "idle"
    BY DEF IdleOp, Op, None
  <2> QED BY <1>18, <2>1 DEF ReplayAbort
<1>19. CASE UNCHANGED vars
  BY <1>19 DEF vars
<1> QED
  BY <1>1, <1>2, <1>3, <1>4, <1>5, <1>6, <1>7, <1>8, <1>9, <1>10, <1>11,
     <1>12, <1>13, <1>14, <1>15, <1>16, <1>17, <1>18, <1>19
     DEF Next, Advance

\* The tables, the consumers and the replays always have the types that the
\* code declares: in particular no attempt number leaves the range that the
\* schema's CHECK allows, and no consumer runs without a delivery.
THEOREM TypeCorrect == Spec => []TypeOK
BY TypeInit, TypeStep, PTL DEF Spec

-------------------------------------------------------------------------------
(***************************************************************************)
(* The inductive invariant.  None of the safety invariants is inductive    *)
(* alone: that the two statements of a batch hit together needs that the   *)
(* values a consumer has read are those of the row as long as the row has  *)
(* the consumer's lease, which needs that leases are never reused, which   *)
(* needs that every lease in the tables was issued.                        *)
(***************************************************************************)

\* Columns of one row that belong together.
RowInv(d) ==
    LET r == row[d] IN
      /\ r.lease # None <=> r.status = "processing"
      /\ r.clock # "null" <=> r.status = "processing"
      /\ r.next # "null" <=> r.status \in {"pending", "retry"}
      /\ r.status \in {"pending", "retry"} => r.attempts < MaxAttempts
      /\ r.status \in {"pending", "retry", "processing"} => r.uri
      /\ r.status = "absent" =>
           /\ r.attempts = 0 /\ r.replays = 0 /\ r.jti = None
           /\ evidence[d] = {}
      /\ r.lease <= uuids

\* The open attempt is the one that the row stands for.
OpenInv(d) ==
    /\ row[d].status = "processing" => Flight(row[d]) \in evidence[d]
    /\ \A e \in evidence[d] :
         e.outcome = "in_flight" =>
           row[d].status = "processing" /\ e = Flight(row[d])

\* The columns of one attempt.
AttemptInv(d) ==
    \A e \in evidence[d] :
      /\ e.lease # None /\ e.lease <= uuids
      /\ e.outcome = "in_flight" <=> e.resulting = "processing"
      /\ e.outcome \in {"delivered", "retry", "dead"} => e.resulting = e.outcome
      /\ e.outcome = "lease_expired" => e.resulting \in {"retry", "dead"}
      /\ \/ e.replay < row[d].replays
         \/ e.replay = row[d].replays /\ e.number <= row[d].attempts

\* The attempts of a delivery together.
NumberInv(d) ==
    /\ \A e, f \in evidence[d] :
         \/ e = f
         \/ e.lease # f.lease /\ (e.replay # f.replay \/ e.number # f.number)
    /\ \A n \in 1..row[d].attempts :
         \E e \in evidence[d] : e.replay = row[d].replays /\ e.number = n

\* A consumer's values are those of the row while the row has its lease.
JobInv(w) ==
    LET j == job[w]
        r == row[j.key]
    IN  /\ j.at \notin {"idle", "claim"} => j.lease # None /\ j.lease <= uuids
        /\ j.at \in {"reclaim", "post", "persist"} /\ r.lease = j.lease =>
             r.attempts = j.attempts /\ r.replays = j.replays
        /\ j.at = "reclaim" /\ r.lease = j.lease => r.clock = "expired"
        /\ j.at = "recheck" => r.lease # j.lease

DeliveryTables(d) == RowInv(d) /\ OpenInv(d) /\ AttemptInv(d) /\ NumberInv(d)

DeliveryInv ==
    /\ TypeOK
    /\ \A d \in Delivery : DeliveryTables(d)
    /\ \A w \in Worker : JobInv(w)

\* A delivery that a step leaves alone keeps its part of the invariant.
LEMMA Untouched ==
  ASSUME TypeOK, NEW d \in Delivery, DeliveryTables(d),
         row'[d] = row[d], evidence'[d] = evidence[d],
         uuids' \in Nat, uuids' >= uuids
  PROVE  DeliveryTables(d)'
<1>1. /\ row[d].lease \in Nat
      /\ \A e \in evidence[d] : e.lease \in Nat
      /\ uuids \in Nat
  BY DEF TypeOK, Row, Attempt
<1>2. RowInv(d)'
  BY <1>1 DEF DeliveryTables, RowInv
<1>3. OpenInv(d)'
  BY DEF DeliveryTables, OpenInv, Flight
<1>4. AttemptInv(d)'
  BY <1>1 DEF DeliveryTables, AttemptInv
<1>5. NumberInv(d)'
  BY DEF DeliveryTables, NumberInv
<1> QED BY <1>2, <1>3, <1>4, <1>5 DEF DeliveryTables

\* A change of the row's schedule, which the evidence does not depend on.
LEMMA Rescheduled ==
  ASSUME TypeOK, NEW d \in Delivery, DeliveryTables(d),
         row'[d].status = row[d].status, row'[d].attempts = row[d].attempts,
         row'[d].replays = row[d].replays, row'[d].lease = row[d].lease,
         row'[d].jti = row[d].jti, row'[d].uri = row[d].uri,
         row'[d].clock # "null" <=> row[d].clock # "null",
         row'[d].next # "null" <=> row[d].next # "null",
         evidence'[d] = evidence[d], uuids' = uuids
  PROVE  DeliveryTables(d)'
<1>1. RowInv(d)'
  BY DEF DeliveryTables, RowInv
<1>2. OpenInv(d)'
  BY DEF DeliveryTables, OpenInv, Flight
<1>3. AttemptInv(d)'
  BY DEF DeliveryTables, AttemptInv
<1>4. NumberInv(d)'
  BY DEF DeliveryTables, NumberInv
<1> QED BY <1>1, <1>2, <1>3, <1>4 DEF DeliveryTables

\* A consumer that holds the row's lease, or once held it, names exactly the
\* open attempt, or none.
LEMMA OpenAttemptIsFlight ==
  ASSUME TypeOK, NEW d \in Delivery, DeliveryTables(d), NEW j \in Job,
         j.lease # None,
         row[d].lease = j.lease =>
           row[d].attempts = j.attempts /\ row[d].replays = j.replays
  PROVE  /\ row[d].lease = j.lease =>
              OpenAttempt(d, j) = {Flight(row[d])} /\ Fenced(row[d], j)
         /\ row[d].lease # j.lease =>
              OpenAttempt(d, j) = {} /\ ~Fenced(row[d], j)
<1>1. CASE row[d].lease = j.lease
  <2>1. row[d].status = "processing"
    BY <1>1 DEF DeliveryTables, RowInv
  <2>2. Flight(row[d]) \in OpenAttempt(d, j)
    BY <1>1, <2>1 DEF DeliveryTables, OpenInv, OpenAttempt, Flight
  <2>3. \A e \in OpenAttempt(d, j) : e = Flight(row[d])
    BY DEF DeliveryTables, OpenInv, OpenAttempt
  <2> QED BY <1>1, <2>1, <2>2, <2>3 DEF Fenced
<1>2. CASE row[d].lease # j.lease
  <2>1. \A e \in evidence[d] : e.outcome = "in_flight" => e.lease = row[d].lease
    BY DEF DeliveryTables, OpenInv, Flight
  <2> QED BY <1>2, <2>1 DEF OpenAttempt, Fenced
<1> QED BY <1>1, <1>2

\* What recovery does to its delivery d: nothing when the row no longer has the
\* lease that was read, and both writes when it has.
TerminalizeStep(w, d) ==
    LET s == ExpiredDisposition(row[d].attempts) IN
      /\ d = job[w].key
      /\ UNCHANGED <<queued, op, clientUri, receipts, uuids>>
      /\ \A v \in Worker \ {w} : job'[v] = job[v]
      /\ row[d].lease # job[w].lease =>
           UNCHANGED <<row, evidence>> /\ job'[w] = [job[w] EXCEPT !.at = "recheck"]
      /\ row[d].lease = job[w].lease =>
           /\ row[d].status = "processing" /\ row[d].clock = "expired"
           /\ row' = [row EXCEPT ![d] = Released(row[d], s, NextAfterExpiry(s))]
           /\ evidence' = [evidence EXCEPT ![d] =
                             Completed(d, {Flight(row[d])}, "lease_expired", s)]
           /\ job'[w] = [job[w] EXCEPT !.at = "claim"]

\* What recording an answer does, s being the disposition of the answer.
PersistStep(w, d, s) ==
    /\ d = job[w].key
    /\ s = Disposition(job[w].attempts, job[w].result)
    /\ UNCHANGED <<op, clientUri, receipts, uuids>>
    /\ \A v \in Worker \ {w} : job'[v] = job[v]
    /\ job'[w] = IdleJob
    /\ row[d].lease # job[w].lease => UNCHANGED <<row, evidence>>
    /\ row[d].lease = job[w].lease =>
         /\ row[d].status = "processing"
         /\ row[d].attempts = job[w].attempts
         /\ row' = [row EXCEPT ![d] = Released(row[d], s, NextAfterAnswer(s))]
         /\ evidence' = [evidence EXCEPT ![d] =
                           Completed(d, {Flight(row[d])}, s, s)]

\* Completing an attempt leaves the evidence that the row's update demands.
LEMMA CompletedIsEvidence ==
  ASSUME NEW d, NEW j, NEW o, NEW s,
         row[d].replays = j.replays, row[d].attempts = j.attempts,
         row[d].lease = j.lease
  PROVE  Evidenced(Completed(d, {Flight(row[d])}, o, s), j, o, s)
<1> DEFINE g == [Flight(row[d]) EXCEPT !.outcome = o, !.resulting = s]
<1>1. /\ g.replay = j.replays /\ g.number = j.attempts /\ g.lease = j.lease
      /\ g.outcome = o /\ g.resulting = s
  BY DEF Flight
<1>2. g \in Completed(d, {Flight(row[d])}, o, s)
  BY DEF Completed
<1> HIDE DEF g
<1> QED BY <1>1, <1>2 DEF Evidenced

LEMMA TerminalizeEffect ==
  ASSUME DeliveryInv, NEW w \in Worker, Terminalize(w)
  PROVE  \E d \in Delivery : TerminalizeStep(w, d)
<1>t. TypeOK
  BY DEF DeliveryInv
<1>1. PICK d \in Delivery : d = job[w].key
  BY <1>t DEF Terminalize, TypeOK, Job
<1> DEFINE j == job[w]
           s == ExpiredDisposition(j.attempts)
<1>2. /\ j \in Job
      /\ j.at = "reclaim" /\ j.lease # None
      /\ row[d].lease = j.lease =>
           /\ row[d].attempts = j.attempts /\ row[d].replays = j.replays
           /\ row[d].clock = "expired"
  BY <1>1, <1>t DEF Terminalize, TypeOK, DeliveryInv, JobInv
<1>3. CASE row[d].lease # j.lease
  <2>1. OpenAttempt(d, j) = {} /\ ~Fenced(row[d], j)
    BY <1>2, <1>3, <1>t, OpenAttemptIsFlight DEF DeliveryInv
  <2>2. Completed(d, {}, "lease_expired", s) = evidence[d]
    BY DEF Completed
  <2> QED BY <1>1, <1>3, <2>1, <2>2, <1>t
          DEF Terminalize, Goto, TypeOK, TerminalizeStep
<1>4. CASE row[d].lease = j.lease
  <2>1. /\ OpenAttempt(d, j) = {Flight(row[d])} /\ Fenced(row[d], j)
        /\ row[d].status = "processing"
    BY <1>2, <1>4, <1>t, OpenAttemptIsFlight DEF DeliveryInv, Fenced
  <2>2. Evidenced(Completed(d, {Flight(row[d])}, "lease_expired", s), j,
                  "lease_expired", s)
    BY <1>2, <1>4, CompletedIsEvidence
  <2>3. LeaseExpired(row[d]) /\ Cardinality({Flight(row[d])}) = 1
    BY <1>2, <1>4, <2>1, FS_Singleton DEF LeaseExpired
  <2> QED BY <1>1, <1>2, <1>4, <2>1, <2>2, <2>3, <1>t
          DEF Terminalize, Goto, TypeOK, TerminalizeStep
<1> QED BY <1>3, <1>4

LEMMA PersistEffect ==
  ASSUME DeliveryInv, NEW w \in Worker, Persist(w)
  PROVE  \E d \in Delivery, s \in {"delivered", "retry", "dead"} :
           PersistStep(w, d, s)
<1>t. TypeOK
  BY DEF DeliveryInv
<1>1. PICK d \in Delivery : d = job[w].key
  BY <1>t DEF Persist, TypeOK, Job
<1> DEFINE j == job[w]
<1>2. /\ j \in Job
      /\ j.at = "persist" /\ j.lease # None
      /\ row[d].lease = j.lease =>
           row[d].attempts = j.attempts /\ row[d].replays = j.replays
  BY <1>1, <1>t DEF Persist, TypeOK, DeliveryInv, JobInv
<1>3. PICK s \in {"delivered", "retry", "dead"} :
        s = Disposition(j.attempts, j.result)
  BY <1>2, DispositionValues, MaxAttemptsAssumption DEF Job
<1>4. CASE row[d].lease # j.lease
  <2>1. ~Fenced(row[d], j)
    BY <1>2, <1>4, <1>t, OpenAttemptIsFlight DEF DeliveryInv
  <2>2. Completed(d, {}, s, s) = evidence[d]
    BY DEF Completed
  <2> QED BY <1>1, <1>3, <1>4, <2>1, <2>2, <1>t
          DEF Persist, Goto, TypeOK, PersistStep
<1>5. CASE row[d].lease = j.lease
  <2>1. /\ OpenAttempt(d, j) = {Flight(row[d])} /\ Fenced(row[d], j)
        /\ row[d].status = "processing"
    BY <1>2, <1>5, <1>t, OpenAttemptIsFlight DEF DeliveryInv, Fenced
  <2>2. Evidenced(Completed(d, {Flight(row[d])}, s, s), j, s, s)
    BY <1>2, <1>5, CompletedIsEvidence
  <2> QED BY <1>1, <1>2, <1>3, <1>5, <2>1, <2>2, <1>t
          DEF Persist, Goto, TypeOK, PersistStep
<1> QED BY <1>4, <1>5

\* Both statements of a closing batch hit: the attempt gets its outcome and the
\* row is released.
LEMMA ClosedAttempt ==
  ASSUME TypeOK, NEW d \in Delivery, DeliveryTables(d),
         row[d].status = "processing",
         NEW s \in {"delivered", "retry", "dead"},
         NEW o \in {"delivered", "retry", "dead", "lease_expired"},
         o # "lease_expired" => s = o,
         o = "lease_expired" => s # "delivered",
         NEW next, next # "null" <=> s = "retry",
         s = "retry" => row[d].attempts < MaxAttempts,
         evidence'[d] = Completed(d, {Flight(row[d])}, o, s),
         row'[d] = Released(row[d], s, next),
         uuids' = uuids
  PROVE  DeliveryTables(d)'
<1> DEFINE f == Flight(row[d])
           g == [f EXCEPT !.outcome = o, !.resulting = s]
<1>1. /\ f \in evidence[d] /\ f \in Attempt
      /\ f.replay = row[d].replays /\ f.number = row[d].attempts
      /\ f.lease = row[d].lease
  BY DEF DeliveryTables, OpenInv, Flight, TypeOK
<1>2. /\ g.outcome = o /\ g.resulting = s
      /\ g.replay = f.replay /\ g.number = f.number /\ g.lease = f.lease
  BY <1>1 DEF Attempt
<1>3. evidence'[d] = (evidence[d] \ {f}) \cup {g}
  BY DEF Completed
<1>4. /\ row'[d].status = s /\ row'[d].attempts = row[d].attempts
      /\ row'[d].replays = row[d].replays /\ row'[d].jti = row[d].jti
      /\ row'[d].lease = None /\ row'[d].clock = "null"
      /\ row'[d].next = next /\ row'[d].uri = row[d].uri
  BY DEF Released
<1> HIDE DEF f, g
<1>5. RowInv(d)'
  BY <1>4, <1>1 DEF DeliveryTables, RowInv, None, TypeOK
<1>6. OpenInv(d)'
  <2>1. \A e \in evidence[d] : e.outcome = "in_flight" => e = f
    BY DEF DeliveryTables, OpenInv, f
  <2>2. \A e \in evidence'[d] : e.outcome # "in_flight"
    BY <1>2, <1>3, <2>1
  <2> QED BY <1>4, <2>2 DEF OpenInv
<1>7. AttemptInv(d)'
  BY <1>1, <1>2, <1>3, <1>4 DEF DeliveryTables, AttemptInv
<1>8. NumberInv(d)'
  <2>1. \A e \in evidence[d] \ {f} :
          e.lease # g.lease /\ (e.replay # g.replay \/ e.number # g.number)
    BY <1>1, <1>2 DEF DeliveryTables, NumberInv
  <2>2. \A n \in 1..row'[d].attempts :
          \E e \in evidence'[d] : e.replay = row'[d].replays /\ e.number = n
    BY <1>1, <1>2, <1>3, <1>4 DEF DeliveryTables, NumberInv
  <2>3. ASSUME NEW a \in evidence'[d], NEW b \in evidence'[d], a # b
        PROVE  a.lease # b.lease /\ (a.replay # b.replay \/ a.number # b.number)
    <3>1. CASE a \in evidence[d] /\ b \in evidence[d]
      BY <2>3, <3>1 DEF DeliveryTables, NumberInv
    <3>2. CASE ~(a \in evidence[d] /\ b \in evidence[d])
      BY <1>3, <2>1, <2>3, <3>2
    <3> QED BY <3>1, <3>2
  <2> QED BY <2>2, <2>3 DEF NumberInv
<1> QED BY <1>5, <1>6, <1>7, <1>8 DEF DeliveryTables

\* Both statements of a claim hit: the row is leased under a fresh UUID and the
\* attempt that stands for it is opened.
LEMMA ClaimedAttempt ==
  ASSUME TypeOK, TypeOK', NEW d \in Delivery, DeliveryTables(d),
         Claimable(row[d]),
         row'[d] = Leased(row[d], uuids + 1),
         evidence'[d] = evidence[d] \cup {Flight(row'[d])},
         uuids' = uuids + 1
  PROVE  DeliveryTables(d)'
<1> DEFINE f == Flight(row'[d])
<1>1. /\ row[d] \in Row /\ row'[d] \in Row /\ uuids \in Nat
      /\ \A e \in evidence[d] : e \in Attempt
  BY DEF TypeOK
<1>2. /\ row'[d].status = "processing"
      /\ row'[d].attempts = row[d].attempts + 1
      /\ row'[d].replays = row[d].replays
      /\ row'[d].lease = uuids + 1 /\ row'[d].clock = "live"
      /\ row'[d].next = "null" /\ row'[d].uri
  BY DEF Leased, Claimable
<1>3. /\ f.replay = row[d].replays /\ f.number = row[d].attempts + 1
      /\ f.lease = uuids + 1 /\ f.outcome = "in_flight"
      /\ f.resulting = "processing"
  BY <1>2 DEF Flight
<1>4. /\ row[d].status \in {"pending", "retry"}
      /\ \A e \in evidence[d] : e.outcome # "in_flight" /\ e.lease <= uuids
  BY DEF Claimable, DeliveryTables, OpenInv, AttemptInv
<1>5. evidence'[d] = evidence[d] \cup {f}
  OBVIOUS
<1>6. RowInv(d)'
  BY <1>1, <1>2 DEF RowInv, None
<1>7. OpenInv(d)'
  BY <1>2, <1>4 DEF OpenInv
<1> HIDE DEF f
<1>8. AttemptInv(d)'
  <2>1. \A e \in evidence[d] :
          /\ e.lease # None /\ e.lease <= uuids + 1
          /\ \/ e.replay < row'[d].replays
             \/ e.replay = row'[d].replays /\ e.number <= row'[d].attempts
    BY <1>1, <1>2 DEF DeliveryTables, AttemptInv, Row, Attempt
  <2>2. \A e \in evidence[d] :
          /\ e.outcome = "in_flight" <=> e.resulting = "processing"
          /\ e.outcome \in {"delivered", "retry", "dead"} =>
               e.resulting = e.outcome
          /\ e.outcome = "lease_expired" => e.resulting \in {"retry", "dead"}
    BY DEF DeliveryTables, AttemptInv
  <2>3. f.lease # None /\ f.number <= row'[d].attempts /\ f.lease <= uuids + 1
    BY <1>1, <1>2, <1>3 DEF None, Row
  <2> QED BY <1>2, <1>3, <1>5, <2>1, <2>2, <2>3 DEF AttemptInv
<1>9. NumberInv(d)'
  <2>1. \A e \in evidence[d] :
          e.lease # f.lease /\ (e.replay # f.replay \/ e.number # f.number)
    BY <1>1, <1>3, <1>4 DEF DeliveryTables, AttemptInv, Row, Attempt
  <2>2. \A n \in 1..row'[d].attempts :
          \E e \in evidence'[d] : e.replay = row'[d].replays /\ e.number = n
    <3>1. \A n \in 1..row'[d].attempts :
            n \in 1..row[d].attempts \/ n = row[d].attempts + 1
      BY <1>1, <1>2 DEF Row
    <3> QED BY <1>2, <1>3, <1>5, <3>1 DEF DeliveryTables, NumberInv
  <2> QED BY <1>5, <2>1, <2>2 DEF DeliveryTables, NumberInv
<1> QED BY <1>6, <1>7, <1>8, <1>9 DEF DeliveryTables

\* What a step may do to a row as far as consumers are concerned: leave the
\* lease and what goes with it, drop the lease, or give it to a fresh UUID.
LeaseStep(d) ==
    \/ /\ row'[d].lease = row[d].lease
       /\ row'[d].attempts = row[d].attempts
       /\ row'[d].replays = row[d].replays
       /\ row'[d].clock \in {row[d].clock, "expired"}
    \/ row'[d].lease = None
    \/ row'[d].lease = uuids + 1

LEMMA SameRowIsLeaseStep ==
  ASSUME NEW d, row'[d] = row[d] PROVE LeaseStep(d)
  BY DEF LeaseStep

\* A consumer that a step leaves alone keeps its part of the invariant.
LEMMA OtherJob ==
  ASSUME TypeOK, NEW w \in Worker, JobInv(w), job'[w] = job[w],
         \A d \in Delivery : LeaseStep(d),
         uuids' \in Nat, uuids' >= uuids
  PROVE  JobInv(w)'
<1>1. /\ job[w] \in Job /\ job[w].lease \in Nat /\ uuids \in Nat
      /\ job[w].at # "idle" => job[w].key \in Delivery
  BY DEF TypeOK, Job, None
<1>2. CASE job[w].at \in {"idle", "claim"}
  BY <1>2 DEF JobInv
<1>3. CASE job[w].at \notin {"idle", "claim"}
  <2>1. job[w].lease # None /\ job[w].lease <= uuids
    BY <1>3 DEF JobInv
  <2>2. LeaseStep(job[w].key)
    BY <1>1, <1>3
  <2> QED BY <1>1, <1>3, <2>1, <2>2 DEF JobInv, LeaseStep
<1> QED BY <1>2, <1>3

\* A step keeps the invariant if it keeps it for the delivery it changes, if
\* any, and for the consumer it changes, if any.
LEMMA LocalStep ==
  ASSUME DeliveryInv, TypeOK',
         \A d \in Delivery : \/ row'[d] = row[d] /\ evidence'[d] = evidence[d]
                             \/ DeliveryTables(d)' /\ LeaseStep(d),
         \A w \in Worker : job'[w] = job[w] \/ JobInv(w)',
         uuids' >= uuids
  PROVE  DeliveryInv'
<1>1. uuids' \in Nat /\ TypeOK
  BY DEF TypeOK, DeliveryInv
<1>2. ASSUME NEW d \in Delivery PROVE DeliveryTables(d)' /\ LeaseStep(d)
  BY <1>1, Untouched, SameRowIsLeaseStep DEF DeliveryInv
<1>3. ASSUME NEW w \in Worker PROVE JobInv(w)'
  BY <1>1, <1>2, OtherJob DEF DeliveryInv
<1> QED BY <1>2, <1>3 DEF DeliveryInv

LEMMA DeliveryInit == Init => DeliveryInv
<1> SUFFICES ASSUME Init PROVE DeliveryInv
  OBVIOUS
<1>1. TypeOK
  BY TypeInit
<1>2. ASSUME NEW d \in Delivery PROVE DeliveryTables(d)
  BY MaxAttemptsAssumption
     DEF Init, AbsentRow, DeliveryTables, RowInv, OpenInv, AttemptInv,
         NumberInv, None
<1>3. ASSUME NEW w \in Worker PROVE JobInv(w)
  BY DEF Init, IdleJob, JobInv
<1> QED BY <1>1, <1>2, <1>3 DEF DeliveryInv

LEMMA DeliveryStep == DeliveryInv /\ [Next]_vars => DeliveryInv'
<1> SUFFICES ASSUME DeliveryInv, [Next]_vars PROVE DeliveryInv'
  OBVIOUS
<1>t. TypeOK /\ TypeOK'
  BY TypeStep DEF DeliveryInv
<1>k. \A w \in Worker : job[w].at # "idle" => job[w].key \in Delivery
  BY <1>t DEF TypeOK, Job
<1>u. uuids \in Nat
  BY <1>t DEF TypeOK
<1>1. ASSUME NEW d \in Delivery, Snapshot(d) PROVE DeliveryInv'
  <2>1. /\ row'[d] = Recorded(clientUri[d])
        /\ \A k \in Delivery \ {d} : row'[k] = row[k]
        /\ UNCHANGED <<evidence, job, uuids>>
        /\ row[d].status = "absent" /\ clientUri[d] \in BOOLEAN
    BY <1>1, <1>t DEF Snapshot, TypeOK
  <2>2. evidence[d] = {}
    BY <2>1 DEF DeliveryInv, DeliveryTables, RowInv
  <2>3. DeliveryTables(d)'
    BY <2>1, <2>2, <1>u, MaxAttemptsAssumption
       DEF Recorded, DeliveryTables, RowInv, OpenInv, AttemptInv, NumberInv, None
  <2>4. LeaseStep(d)
    BY <2>1 DEF Recorded, LeaseStep
  <2> QED BY <2>1, <2>3, <2>4, <1>t, <1>u, LocalStep
<1>2. ASSUME UNCHANGED <<row, evidence, uuids>>,
             \A w \in Worker : job'[w] = job[w] \/ JobInv(w)'
      PROVE  DeliveryInv'
  BY <1>2, <1>t, <1>u, LocalStep
<1>3. ASSUME NEW d \in Delivery, LeaseLapses(d) PROVE DeliveryInv'
  <2>1. /\ row' = [row EXCEPT ![d].clock = "expired"] /\ row[d].clock = "live"
        /\ UNCHANGED <<evidence, job, uuids>> /\ row[d] \in Row
    BY <1>3, <1>t DEF LeaseLapses, TypeOK
  <2>2. DeliveryTables(d)'
    BY <2>1, <1>t, Rescheduled DEF DeliveryInv, Row, TypeOK
  <2>3. LeaseStep(d)
    BY <2>1, <1>t DEF LeaseStep, Row, TypeOK
  <2> QED BY <2>1, <2>2, <2>3, <1>t, <1>u, LocalStep DEF TypeOK
<1>4. ASSUME NEW d \in Delivery, FallsDue(d) PROVE DeliveryInv'
  <2>1. /\ row' = [row EXCEPT ![d].next = "due"] /\ row[d].next = "later"
        /\ UNCHANGED <<evidence, job, uuids>> /\ row[d] \in Row
    BY <1>4, <1>t DEF FallsDue, TypeOK
  <2>2. DeliveryTables(d)'
    BY <2>1, <1>t, Rescheduled DEF DeliveryInv, Row, TypeOK
  <2>3. LeaseStep(d)
    BY <2>1, <1>t DEF LeaseStep, Row, TypeOK
  <2> QED BY <2>1, <2>2, <2>3, <1>t, <1>u, LocalStep DEF TypeOK
<1>5. ASSUME NEW w \in Worker, NEW d \in Delivery, Receive(w, d)
      PROVE  DeliveryInv'
  <2>1. /\ UNCHANGED <<row, evidence, uuids>>
        /\ \A v \in Worker \ {w} : job'[v] = job[v]
        /\ job'[w] = IF LeaseExpired(row[d]) THEN WithRow(d, row[d], "reclaim")
                                             ELSE At(d, "claim", None)
    BY <1>5, <1>t DEF Receive, Goto, TypeOK
  <2>2. RowInv(d)
    BY DEF DeliveryInv, DeliveryTables
  <2>3. JobInv(w)'
    BY <2>1, <2>2 DEF JobInv, WithRow, At, LeaseExpired, RowInv
  <2> QED BY <2>1, <2>3, <1>2
<1>6. ASSUME NEW w \in Worker, Recheck(w) PROVE DeliveryInv'
  <2>1. /\ UNCHANGED <<row, evidence, uuids>>
        /\ \A v \in Worker \ {w} : job'[v] = job[v]
        /\ job'[w].at \in {"idle", "claim"}
    BY <1>6, <1>t DEF Recheck, Goto, TypeOK, Job, IdleJob
  <2> QED BY <2>1, <1>2 DEF JobInv
<1>7. ASSUME NEW w \in Worker, Reread(w) PROVE DeliveryInv'
  <2>d. PICK d \in Delivery : d = job[w].key
    BY <1>7, <1>k DEF Reread
  <2>1. /\ UNCHANGED <<row, evidence, uuids>>
        /\ \A v \in Worker \ {w} : job'[v] = job[v]
        /\ job[w].at = "reread"
        /\ \/ job'[w].at = "idle"
           \/ row[d].lease = job[w].lease /\ job'[w] = WithRow(d, row[d], "post")
    BY <1>7, <2>d, <1>t DEF Reread, Goto, TypeOK, IdleJob
  <2>2. job[w].lease # None /\ job[w].lease <= uuids
    BY <2>1 DEF DeliveryInv, JobInv
  <2>3. JobInv(w)'
    BY <2>1, <2>2 DEF JobInv, WithRow
  <2> QED BY <2>1, <2>3, <1>2
<1>8. ASSUME NEW w \in Worker, Post(w) PROVE DeliveryInv'
  <2>1. PICK result \in Result :
          job' = [job EXCEPT ![w] =
                    [job[w] EXCEPT !.at = "persist", !.result = result]]
    BY <1>8 DEF Post, Goto
  <2>2. /\ UNCHANGED <<row, evidence, uuids>> /\ job[w].at = "post"
        /\ \A v \in Worker \ {w} : job'[v] = job[v]
        /\ job'[w].at = "persist" /\ job'[w].key = job[w].key
        /\ job'[w].lease = job[w].lease /\ job'[w].attempts = job[w].attempts
        /\ job'[w].replays = job[w].replays
    BY <1>8, <2>1, <1>t DEF Post, TypeOK, Job
  <2>3. JobInv(w)'
    BY <2>2 DEF DeliveryInv, JobInv
  <2> QED BY <2>2, <2>3, <1>2
<1>9. ASSUME NEW w \in Worker, Abort(w) PROVE DeliveryInv'
  <2>1. /\ UNCHANGED <<row, evidence, uuids>>
        /\ \A v \in Worker \ {w} : job'[v] = job[v]
        /\ job'[w].at = "idle"
    BY <1>9, <1>t DEF Abort, Goto, TypeOK, IdleJob
  <2> QED BY <2>1, <1>2 DEF JobInv
<1>10. ASSUME NEW o \in Operator, ReplayCommit(o) PROVE DeliveryInv'
  <2>1. PICK d \in Delivery : d = op[o].key
    BY <1>10, <1>t DEF ReplayCommit, TypeOK, Op
  <2>2. CASE ~ReplayGuard(row[d], op[o].replays)
    BY <1>10, <2>1, <2>2, <1>2 DEF ReplayCommit
  <2>3. CASE ReplayGuard(row[d], op[o].replays)
    <3>1. /\ \A k \in Delivery \ {d} : row'[k] = row[k]
          /\ row'[d] = Reopened(row[d], row[d].replays + 1)
          /\ UNCHANGED <<evidence, job, uuids>>
          /\ row[d].status \in {"dead", "retry"}
          /\ row[d] \in Row
      BY <1>10, <2>1, <2>3, <1>t DEF ReplayCommit, ReplayGuard, Replayable, TypeOK
    <3>2. DeliveryTables(d)'
      <4>1. RowInv(d)'
        BY <3>1, <1>u, MaxAttemptsAssumption DEF RowInv, Reopened, None
      <4>2. OpenInv(d)'
        BY <2>1, <3>1
           DEF DeliveryInv, DeliveryTables, OpenInv, Reopened
      <4>3. AttemptInv(d)'
        <5>1. row'[d].replays = row[d].replays + 1 /\ row[d].replays \in Nat
          BY <3>1 DEF Reopened, Row
        <5>2. \A e \in evidence[d] : e.replay \in Nat
          BY <2>1, <1>t DEF TypeOK, Attempt
        <5> QED BY <2>1, <3>1, <5>1, <5>2 DEF DeliveryInv, DeliveryTables, AttemptInv
      <4>4. NumberInv(d)'
        BY <2>1, <3>1 DEF DeliveryInv, DeliveryTables, NumberInv, Reopened
      <4> QED BY <4>1, <4>2, <4>3, <4>4 DEF DeliveryTables
    <3>3. LeaseStep(d)
      BY <3>1 DEF LeaseStep, Reopened
    <3> QED BY <3>1, <3>2, <3>3, <1>t, <1>u, LocalStep
  <2> QED BY <2>2, <2>3
<1>11. ASSUME NEW w \in Worker, Claim(w) PROVE DeliveryInv'
  <2>1. PICK d \in Delivery : d = job[w].key
    BY <1>11, <1>k DEF Claim
  <2>2. CASE ~Claimable(row[d])
    <3>1. /\ UNCHANGED <<row, evidence, uuids>>
          /\ \A v \in Worker \ {w} : job'[v] = job[v]
          /\ job'[w].at = "idle"
      BY <1>11, <2>1, <2>2, <1>t DEF Claim, Goto, TypeOK, IdleJob
    <3> QED BY <3>1, <1>2 DEF JobInv
  <2>3. CASE Claimable(row[d])
    <3>1. /\ \A k \in Delivery \ {d} :
               row'[k] = row[k] /\ evidence'[k] = evidence[k]
          /\ row'[d] = Leased(row[d], uuids + 1)
          /\ evidence'[d] = evidence[d] \cup {Flight(row'[d])}
          /\ uuids' = uuids + 1
          /\ \A v \in Worker \ {w} : job'[v] = job[v]
          /\ job'[w] = At(d, "reread", uuids + 1)
      BY <1>11, <2>1, <2>3, <1>t DEF Claim, Goto, TypeOK
    <3>2. DeliveryTables(d)'
      BY <2>1, <2>3, <3>1, <1>t, ClaimedAttempt DEF DeliveryInv
    <3>3. LeaseStep(d)
      BY <3>1 DEF LeaseStep, Leased
    <3>4. JobInv(w)'
      BY <3>1, <1>u DEF JobInv, At, None
    <3> QED BY <3>1, <3>2, <3>3, <3>4, <1>t, <1>u, LocalStep
  <2> QED BY <2>2, <2>3
<1>12. ASSUME NEW w \in Worker, Terminalize(w) PROVE DeliveryInv'
  <2>1. PICK d \in Delivery : TerminalizeStep(w, d)
    BY <1>12, TerminalizeEffect
  <2>2. /\ job[w].at = "reclaim" /\ job[w].lease # None
        /\ job[w].lease <= uuids /\ job[w] \in Job
    BY <2>1, <1>12, <1>t DEF Terminalize, TypeOK, DeliveryInv, JobInv
  <2>3. CASE row[d].lease # job[w].lease
    <3>1. JobInv(w)'
      BY <2>1, <2>2, <2>3 DEF TerminalizeStep, JobInv, Job
    <3> QED BY <2>1, <2>3, <3>1, <1>2 DEF TerminalizeStep
  <2>4. CASE row[d].lease = job[w].lease
    <3>1. PICK s \in {"retry", "dead"} : s = ExpiredDisposition(row[d].attempts)
      BY DEF ExpiredDisposition
    <3>2. DeliveryTables(d)'
      <4>1. NextAfterExpiry(s) # "null" <=> s = "retry"
        BY DEF NextAfterExpiry
      <4>2. s = "retry" => row[d].attempts < MaxAttempts
        BY <3>1, <1>t, MaxAttemptsAssumption DEF ExpiredDisposition, TypeOK, Row
      <4>3. /\ DeliveryTables(d) /\ row[d].status = "processing"
            /\ evidence'[d] = Completed(d, {Flight(row[d])}, "lease_expired", s)
            /\ row'[d] = Released(row[d], s, NextAfterExpiry(s))
            /\ uuids' = uuids
        BY <2>1, <2>4, <3>1, <1>t DEF TerminalizeStep, DeliveryInv, TypeOK
      <4> QED BY <4>1, <4>2, <4>3, <1>t, ClosedAttempt
    <3>3. LeaseStep(d)
      BY <2>1, <2>4, <1>t DEF TerminalizeStep, TypeOK, LeaseStep, Released
    <3>4. JobInv(w)'
      BY <2>1, <2>2, <2>4 DEF TerminalizeStep, JobInv, Job
    <3> QED BY <2>1, <2>4, <3>2, <3>3, <3>4, <1>t, <1>u, LocalStep
            DEF TerminalizeStep, TypeOK
  <2> QED BY <2>3, <2>4
<1>13. ASSUME NEW w \in Worker, Persist(w) PROVE DeliveryInv'
  <2>1. PICK d \in Delivery, s \in {"delivered", "retry", "dead"} :
          PersistStep(w, d, s)
    BY <1>13, PersistEffect
  <2>2. JobInv(w)'
    BY <2>1 DEF PersistStep, JobInv, IdleJob
  <2>3. CASE row[d].lease # job[w].lease
    BY <2>1, <2>2, <2>3, <1>2 DEF PersistStep
  <2>4. CASE row[d].lease = job[w].lease
    <3>1. DeliveryTables(d)'
      <4>1. NextAfterAnswer(s) # "null" <=> s = "retry"
        BY DEF NextAfterAnswer
      <4>2. s = "retry" => row[d].attempts < MaxAttempts
        BY <2>1, <2>4, <1>t, MaxAttemptsAssumption
           DEF PersistStep, Disposition, TypeOK, Row
      <4>3. /\ DeliveryTables(d) /\ row[d].status = "processing"
            /\ evidence'[d] = Completed(d, {Flight(row[d])}, s, s)
            /\ row'[d] = Released(row[d], s, NextAfterAnswer(s))
            /\ uuids' = uuids
        BY <2>1, <2>4, <1>t DEF PersistStep, DeliveryInv, TypeOK
      <4> QED BY <4>1, <4>2, <4>3, <1>t, ClosedAttempt
    <3>2. LeaseStep(d)
      BY <2>1, <2>4, <1>t DEF PersistStep, TypeOK, LeaseStep, Released
    <3> QED BY <2>1, <2>2, <2>4, <3>1, <3>2, <1>t, <1>u, LocalStep
            DEF PersistStep, TypeOK
  <2> QED BY <2>3, <2>4
<1>14. CASE UNCHANGED vars
  BY <1>14, <1>2 DEF vars
<1>15. ASSUME NEW d \in Delivery, EditClient(d) \/ LoseMessage(d)
       PROVE  DeliveryInv'
  BY <1>15, <1>2 DEF EditClient, LoseMessage
<1>16. ASSUME Dispatch PROVE DeliveryInv'
  BY <1>16, <1>2 DEF Dispatch
<1>17. ASSUME NEW o \in Operator,
              ReplaySend(o) \/ ReplayAbort(o) \/ \E d \in Delivery : ReplayRead(o, d)
       PROVE  DeliveryInv'
  BY <1>17, <1>2 DEF ReplaySend, ReplayAbort, ReplayRead
<1> QED
  BY <1>1, <1>3, <1>4, <1>5, <1>6, <1>7, <1>8, <1>9, <1>10, <1>11, <1>12,
     <1>13, <1>14, <1>15, <1>16, <1>17
     DEF Next, Advance

\* The inductive invariant: rows, evidence and the values that consumers carry
\* across their awaits stay consistent under every interleaving, crash, lost
\* or duplicated message and replay.
THEOREM DeliveryInvariant == Spec => []DeliveryInv
BY DeliveryInit, DeliveryStep, PTL DEF Spec

-------------------------------------------------------------------------------
(* What follows from it                                                    *)

\* The row is in processing exactly when it holds a lease, and exactly one
\* attempt, its own, is then open: no batch ever hits half.
THEOREM LeaseEvidenceHolds == Spec => []LeaseEvidence
<1>1. DeliveryInv => LeaseEvidence
  <2> SUFFICES ASSUME DeliveryInv, NEW d \in Delivery
               PROVE  /\ row[d].lease # None <=> row[d].status = "processing"
                      /\ row[d].clock # "null" <=> row[d].status = "processing"
                      /\ {e \in evidence[d] : e.outcome = "in_flight"} =
                           IF row[d].status = "processing"
                           THEN {Flight(row[d])} ELSE {}
    BY DEF LeaseEvidence
  <2>1. RowInv(d) /\ OpenInv(d)
    BY DEF DeliveryInv, DeliveryTables
  <2>2. Flight(row[d]).outcome = "in_flight"
    BY DEF Flight
  <2>3. {e \in evidence[d] : e.outcome = "in_flight"} =
          IF row[d].status = "processing" THEN {Flight(row[d])} ELSE {}
    BY <2>1, <2>2 DEF OpenInv
  <2> QED BY <2>1, <2>3 DEF RowInv
<1> QED BY <1>1, DeliveryInvariant, PTL

\* No batch of the outbox violates a CHECK constraint of migration 0018.
THEOREM SchemaChecksHold == Spec => []SchemaChecks
<1>1. DeliveryInv => SchemaChecks
  BY DEF DeliveryInv, DeliveryTables, RowInv, AttemptInv, SchemaChecks
<1> QED BY <1>1, DeliveryInvariant, PTL

\* Attempts of a generation are numbered without gap or repetition, so the
\* claiming batch never violates a UNIQUE constraint.
THEOREM AttemptLedgerHolds == Spec => []AttemptLedger
<1>1. DeliveryInv => AttemptLedger
  <2> SUFFICES ASSUME DeliveryInv, NEW d \in Delivery
               PROVE  /\ \A e, f \in evidence[d] :
                           \/ e = f
                           \/ /\ e.lease # f.lease
                              /\ <<e.replay, e.number>> # <<f.replay, f.number>>
                      /\ \A e \in evidence[d] : e.replay <= row[d].replays
                      /\ {e.number : e \in {f \in evidence[d] :
                                              f.replay = row[d].replays}}
                           = 1..row[d].attempts
    BY DEF AttemptLedger
  <2>1. /\ row[d].replays \in Nat /\ row[d].attempts \in Nat
        /\ \A e \in evidence[d] :
             e.replay \in Nat /\ e.number \in Nat /\ e.number >= 1
    BY MaxAttemptsAssumption DEF DeliveryInv, TypeOK, Row, Attempt
  <2>2. /\ \A e \in evidence[d] :
             \/ e.replay < row[d].replays
             \/ e.replay = row[d].replays /\ e.number <= row[d].attempts
        /\ NumberInv(d)
    BY DEF DeliveryInv, DeliveryTables, AttemptInv
  <2>3. \A e \in evidence[d] :
          e.replay = row[d].replays => e.number \in 1..row[d].attempts
    BY <2>1, <2>2
  <2>4. \A n \in 1..row[d].attempts :
          n \in {e.number : e \in {f \in evidence[d] : f.replay = row[d].replays}}
    BY <2>2 DEF NumberInv
  <2>5. {e.number : e \in {f \in evidence[d] : f.replay = row[d].replays}}
          = 1..row[d].attempts
    BY <2>3, <2>4
  <2>6. \A e \in evidence[d] : e.replay <= row[d].replays
    BY <2>1, <2>2
  <2>7. ASSUME NEW e \in evidence[d], NEW f \in evidence[d]
        PROVE  \/ e = f
               \/ /\ e.lease # f.lease
                  /\ <<e.replay, e.number>> # <<f.replay, f.number>>
    <3>1. e = f \/ (e.lease # f.lease /\ (e.replay # f.replay \/ e.number # f.number))
      BY <2>2 DEF NumberInv
    <3> QED BY <3>1
  <2> QED BY <2>5, <2>6, <2>7
<1> QED BY <1>1, DeliveryInvariant, PTL

\* The throw after the re-check of a recovery is unreachable.
THEOREM RecoveryConsistentHolds == Spec => []RecoveryConsistent
<1>1. DeliveryInv => RecoveryConsistent
  BY DEF DeliveryInv, JobInv, RecoveryConsistent, StillExpired
<1> QED BY <1>1, DeliveryInvariant, PTL

\* A waiting row can be claimed once it is due.
THEOREM WaitingIsClaimableHolds == Spec => []WaitingIsClaimable
<1>1. DeliveryInv => WaitingIsClaimable
  <2> SUFFICES ASSUME DeliveryInv, NEW d \in Delivery,
                      row[d].status \in {"pending", "retry"}
               PROVE  Claimable([row[d] EXCEPT !.next = "due"])
    BY DEF WaitingIsClaimable
  <2>1. row[d] \in Row /\ row[d].attempts < MaxAttempts /\ row[d].uri
    BY DEF DeliveryInv, TypeOK, DeliveryTables, RowInv
  <2> QED BY <2>1 DEF Claimable, Row
<1> QED BY <1>1, DeliveryInvariant, PTL

-------------------------------------------------------------------------------
(* The relying party and the outcomes                                      *)

\* The jti names the event once a first claim was made, and only it reaches the
\* relying party.
JtiInv(d) ==
    /\ row[d].jti # None => row[d].attempts > 0 \/ row[d].replays > 0
    /\ row[d].status = "processing" => row[d].jti # None
    /\ receipts[d] \subseteq {row[d].jti} \ {None}
    /\ row[d].status = "delivered" => row[d].jti \in receipts[d]

Justified(d, e) ==
    /\ e.replay = row[d].replays /\ e.number = row[d].attempts
    /\ e.resulting = "dead"
    /\ e.outcome = "lease_expired" => e.number = MaxAttempts

\* The final states and the evidence for them.
OutcomeInv(d) ==
    /\ row[d].status = "delivered" =>
         \E e \in evidence[d] : /\ e.replay = row[d].replays
                                /\ e.number = row[d].attempts
                                /\ e.outcome = "delivered"
    /\ row[d].status # "delivered" =>
         \A e \in evidence[d] : e.outcome # "delivered"
    /\ row[d].status = "dead" =>
         \/ ~row[d].uri /\ row[d].attempts = 0
         \/ \E e \in evidence[d] : Justified(d, e)

\* A consumer that posts uses the event's jti, and hears "ok" only from a
\* relying party that has accepted it.
PosterInv(w) ==
    LET j == job[w] IN
      /\ j.at \in {"post", "persist"} =>
           j.jti # None /\ j.jti = row[j.key].jti
      /\ j.at = "persist" /\ j.result = "ok" => j.jti \in receipts[j.key]

PromiseInv ==
    /\ \A d \in Delivery : JtiInv(d) /\ OutcomeInv(d)
    /\ \A w \in Worker : PosterInv(w)

\* What every step does to a jti, seen from a consumer that posts it.
LEMMA OtherPoster ==
  ASSUME TypeOK, NEW w \in Worker, PosterInv(w), job'[w] = job[w],
         \A d \in Delivery : /\ row[d].jti # None => row'[d].jti = row[d].jti
                             /\ receipts[d] \subseteq receipts'[d]
  PROVE  PosterInv(w)'
<1>1. job[w].at # "idle" => job[w].key \in Delivery
  BY DEF TypeOK, Job
<1> QED BY <1>1 DEF PosterInv

\* The counterpart of LocalStep.
LEMMA LocalPromise ==
  ASSUME TypeOK, PromiseInv,
         \A d \in Delivery :
           \/ row'[d] = row[d] /\ evidence'[d] = evidence[d]
              /\ receipts'[d] = receipts[d]
           \/ /\ JtiInv(d)' /\ OutcomeInv(d)'
              /\ row[d].jti # None => row'[d].jti = row[d].jti
              /\ receipts[d] \subseteq receipts'[d],
         \A w \in Worker : job'[w] = job[w] \/ PosterInv(w)'
  PROVE  PromiseInv'
<1>1. ASSUME NEW d \in Delivery PROVE JtiInv(d)' /\ OutcomeInv(d)'
  <2>1. CASE row'[d] = row[d] /\ evidence'[d] = evidence[d]
             /\ receipts'[d] = receipts[d]
    BY <2>1 DEF PromiseInv, JtiInv, OutcomeInv, Justified
  <2> QED BY <2>1
<1>2. ASSUME NEW w \in Worker PROVE PosterInv(w)'
  BY <1>2, OtherPoster DEF PromiseInv
<1> QED BY <1>1, <1>2 DEF PromiseInv

LEMMA PromiseInit == Init => PromiseInv
  BY DEF Init, AbsentRow, IdleJob, PromiseInv, JtiInv, OutcomeInv, PosterInv,
         None

\* A closing batch that hits: the outcome of the row is that of its attempt.
LEMMA ClosedOutcome ==
  ASSUME TypeOK, NEW d \in Delivery, JtiInv(d), OutcomeInv(d),
         row[d].status = "processing",
         NEW s \in {"delivered", "retry", "dead"},
         NEW o \in {"delivered", "retry", "dead", "lease_expired"},
         s = "delivered" <=> o = "delivered",
         s = "delivered" => row[d].jti \in receipts[d],
         s = "dead" /\ o = "lease_expired" => row[d].attempts = MaxAttempts,
         NEW next,
         evidence'[d] = Completed(d, {Flight(row[d])}, o, s),
         row'[d] = Released(row[d], s, next),
         receipts'[d] = receipts[d]
  PROVE  JtiInv(d)' /\ OutcomeInv(d)'
<1>g. PICK g : g = [Flight(row[d]) EXCEPT !.outcome = o, !.resulting = s]
  OBVIOUS
<1>1. /\ g.outcome = o /\ g.resulting = s
      /\ g.replay = row[d].replays /\ g.number = row[d].attempts
  BY <1>g DEF Flight
<1>2. evidence'[d] = (evidence[d] \ {Flight(row[d])}) \cup {g}
  BY <1>g DEF Completed
<1>3. /\ row'[d].status = s /\ row'[d].attempts = row[d].attempts
      /\ row'[d].replays = row[d].replays /\ row'[d].jti = row[d].jti
  BY DEF Released
<1>4. JtiInv(d)'
  BY <1>3 DEF JtiInv
<1>5. \A e \in evidence[d] : e.outcome # "delivered"
  BY DEF OutcomeInv
<1>6. s = "dead" => Justified(d, g)'
  BY <1>1, <1>3 DEF Justified
<1>7. OutcomeInv(d)'
  BY <1>1, <1>2, <1>3, <1>5, <1>6 DEF OutcomeInv
<1> QED BY <1>4, <1>7

LEMMA PromiseStep == DeliveryInv /\ PromiseInv /\ [Next]_vars => PromiseInv'
<1> SUFFICES ASSUME DeliveryInv, PromiseInv, [Next]_vars PROVE PromiseInv'
  OBVIOUS
<1>t. TypeOK
  BY DEF DeliveryInv
<1>k. \A w \in Worker : job[w].at # "idle" => job[w].key \in Delivery
  BY <1>t DEF TypeOK, Job
<1>p. \A d \in Delivery : JtiInv(d) /\ OutcomeInv(d)
  BY DEF PromiseInv
<1>1. ASSUME UNCHANGED <<row, evidence, receipts>>,
             \A w \in Worker : job'[w] = job[w] \/ PosterInv(w)'
      PROVE  PromiseInv'
  BY <1>1, <1>t, LocalPromise
<1>2. ASSUME NEW d \in Delivery, Snapshot(d) PROVE PromiseInv'
  <2>1. /\ row' = [row EXCEPT ![d] = Recorded(clientUri[d])]
        /\ UNCHANGED <<evidence, job, receipts>>
        /\ row[d].jti = None /\ evidence[d] = {}
    BY <1>2 DEF Snapshot, DeliveryInv, DeliveryTables, RowInv
  <2>2. row'[d] = Recorded(clientUri[d]) /\ clientUri[d] \in BOOLEAN
    BY <2>1, <1>t DEF TypeOK
  <2>3. JtiInv(d)' /\ OutcomeInv(d)'
    BY <2>1, <2>2, <1>p DEF Recorded, JtiInv, OutcomeInv, None
  <2> QED BY <2>1, <2>3, <1>t, LocalPromise DEF TypeOK
<1>3. ASSUME NEW d \in Delivery, LeaseLapses(d) \/ FallsDue(d) PROVE PromiseInv'
  <2>1. /\ \A k \in Delivery \ {d} : row'[k] = row[k]
        /\ UNCHANGED <<evidence, job, receipts>>
        /\ row'[d].status = row[d].status /\ row'[d].attempts = row[d].attempts
        /\ row'[d].replays = row[d].replays /\ row'[d].jti = row[d].jti
        /\ row'[d].uri = row[d].uri
    BY <1>3, <1>t DEF LeaseLapses, FallsDue, TypeOK, Row
  <2>2. JtiInv(d)' /\ OutcomeInv(d)'
    BY <2>1, <1>p DEF JtiInv, OutcomeInv, Justified
  <2> QED BY <2>1, <2>2, <1>t, LocalPromise
<1>4. ASSUME NEW w \in Worker, NEW d \in Delivery, Receive(w, d)
      PROVE  PromiseInv'
  <2>1. /\ UNCHANGED <<row, evidence, receipts>>
        /\ \A v \in Worker \ {w} : job'[v] = job[v]
        /\ job'[w].at \in {"reclaim", "claim"}
    BY <1>4, <1>t DEF Receive, Goto, TypeOK, WithRow, At
  <2> QED BY <2>1, <1>1 DEF PosterInv
<1>5. ASSUME NEW w \in Worker, Recheck(w) \/ Abort(w) PROVE PromiseInv'
  <2>1. /\ UNCHANGED <<row, evidence, receipts>>
        /\ \A v \in Worker \ {w} : job'[v] = job[v]
        /\ job'[w].at \in {"idle", "claim"}
    BY <1>5, <1>t DEF Recheck, Abort, Goto, TypeOK, Job, IdleJob
  <2> QED BY <2>1, <1>1 DEF PosterInv
<1>6. ASSUME NEW w \in Worker, Reread(w) PROVE PromiseInv'
  <2>1. PICK d \in Delivery : d = job[w].key
    BY <1>6, <1>k DEF Reread
  <2>2. /\ UNCHANGED <<row, evidence, receipts>>
        /\ \A v \in Worker \ {w} : job'[v] = job[v]
        /\ \/ job'[w].at = "idle"
           \/ row[d].status = "processing" /\ job'[w] = WithRow(d, row[d], "post")
    BY <1>6, <2>1, <1>t DEF Reread, Goto, TypeOK, IdleJob
  <2>3. PosterInv(w)'
    BY <2>2, <1>p DEF PosterInv, WithRow, JtiInv
  <2> QED BY <2>2, <2>3, <1>1
<1>7. ASSUME NEW w \in Worker, Post(w) PROVE PromiseInv'
  <2>1. PICK d \in Delivery : d = job[w].key
    BY <1>7, <1>k DEF Post
  <2>2. PICK result \in Result, heard \in BOOLEAN :
          /\ result = "ok" => heard
          /\ job' = [job EXCEPT ![w] =
                       [job[w] EXCEPT !.at = "persist", !.result = result]]
          /\ receipts' = IF heard
                         THEN [receipts EXCEPT ![d] = @ \cup {job[w].jti}]
                         ELSE receipts
    BY <1>7, <2>1 DEF Post, Goto
  <2>3. /\ UNCHANGED <<row, evidence>> /\ job[w].at = "post"
        /\ \A v \in Worker \ {w} : job'[v] = job[v]
        /\ job'[w].at = "persist" /\ job'[w].key = d
        /\ job'[w].jti = job[w].jti /\ job'[w].result = result
    BY <1>7, <2>1, <2>2, <1>t DEF Post, TypeOK, Job
  <2>4. job[w].jti # None /\ job[w].jti = row[d].jti
    BY <2>1, <2>3 DEF PromiseInv, PosterInv
  <2>5. /\ \A k \in Delivery \ {d} : receipts'[k] = receipts[k]
        /\ receipts'[d] = IF heard THEN receipts[d] \cup {row[d].jti}
                                   ELSE receipts[d]
    BY <2>2, <2>4, <1>t DEF TypeOK
  <2>6. JtiInv(d)' /\ OutcomeInv(d)'
    BY <2>3, <2>4, <2>5, <1>p DEF JtiInv, OutcomeInv, Justified
  <2>7. PosterInv(w)'
    BY <2>2, <2>3, <2>4, <2>5 DEF PosterInv
  <2> QED BY <2>3, <2>5, <2>6, <2>7, <1>t, LocalPromise
<1>8. ASSUME NEW o \in Operator, ReplayCommit(o) PROVE PromiseInv'
  <2>1. PICK d \in Delivery : d = op[o].key
    BY <1>8, <1>t DEF ReplayCommit, TypeOK, Op
  <2>2. CASE ~ReplayGuard(row[d], op[o].replays)
    BY <1>8, <2>1, <2>2, <1>1 DEF ReplayCommit
  <2>3. CASE ReplayGuard(row[d], op[o].replays)
    <3>1. /\ \A k \in Delivery \ {d} : row'[k] = row[k]
          /\ row'[d] = Reopened(row[d], row[d].replays + 1)
          /\ UNCHANGED <<evidence, job, receipts>>
          /\ row[d].status \in {"dead", "retry"} /\ row[d].replays \in Nat
      BY <1>8, <2>1, <2>3, <1>t
         DEF ReplayCommit, ReplayGuard, Replayable, TypeOK, Row
    <3>2. JtiInv(d)' /\ OutcomeInv(d)'
      BY <3>1, <1>p DEF Reopened, JtiInv, OutcomeInv
    <3>3. row'[d].jti = row[d].jti
      BY <3>1 DEF Reopened
    <3> QED BY <3>1, <3>2, <3>3, <1>t, LocalPromise
  <2> QED BY <2>2, <2>3
<1>9. ASSUME NEW w \in Worker, Claim(w) PROVE PromiseInv'
  <2>1. PICK d \in Delivery : d = job[w].key
    BY <1>9, <1>k DEF Claim
  <2>2. CASE ~Claimable(row[d])
    <3>1. /\ UNCHANGED <<row, evidence, receipts>>
          /\ \A v \in Worker \ {w} : job'[v] = job[v]
          /\ job'[w].at = "idle"
      BY <1>9, <2>1, <2>2, <1>t DEF Claim, Goto, TypeOK, IdleJob
    <3> QED BY <3>1, <1>1 DEF PosterInv
  <2>3. CASE Claimable(row[d])
    <3>1. /\ \A k \in Delivery \ {d} :
               row'[k] = row[k] /\ evidence'[k] = evidence[k]
          /\ row'[d] = Leased(row[d], uuids + 1)
          /\ evidence'[d] = evidence[d] \cup {Flight(Leased(row[d], uuids + 1))}
          /\ UNCHANGED receipts
          /\ \A v \in Worker \ {w} : job'[v] = job[v]
          /\ job'[w].at = "reread"
          /\ row[d].status \in {"pending", "retry"}
          /\ row[d].attempts \in Nat /\ uuids \in Nat
      BY <1>9, <2>1, <2>3, <1>t, MaxAttemptsAssumption
         DEF Claim, Goto, TypeOK, At, Claimable, Row
    <3>2. /\ row'[d].status = "processing"
          /\ row'[d].attempts = row[d].attempts + 1
          /\ row'[d].jti # None
          /\ row[d].jti # None => row'[d].jti = row[d].jti
      BY <3>1 DEF Leased, EventJti, None
    <3>3. JtiInv(d)'
      BY <3>1, <3>2, <1>p DEF JtiInv
    <3>4. OutcomeInv(d)'
      <4>1. \A e \in evidence[d] : e.outcome # "delivered"
        BY <3>1, <1>p DEF OutcomeInv
      <4>2. Flight(Leased(row[d], uuids + 1)).outcome = "in_flight"
        BY DEF Flight
      <4> QED BY <3>1, <3>2, <4>1, <4>2 DEF OutcomeInv
    <3> QED BY <3>1, <3>2, <3>3, <3>4, <1>t, LocalPromise DEF PosterInv
  <2> QED BY <2>2, <2>3
<1>10. ASSUME NEW w \in Worker, Terminalize(w) PROVE PromiseInv'
  <2>1. PICK d \in Delivery : TerminalizeStep(w, d)
    BY <1>10, TerminalizeEffect
  <2>2. job'[w].at \in {"claim", "recheck"}
    BY <2>1, <1>t DEF TerminalizeStep, TypeOK, Job
  <2>3. CASE row[d].lease # job[w].lease
    BY <2>1, <2>2, <2>3, <1>1 DEF TerminalizeStep, PosterInv
  <2>4. CASE row[d].lease = job[w].lease
    <3>1. PICK s \in {"retry", "dead"} : s = ExpiredDisposition(row[d].attempts)
      BY DEF ExpiredDisposition
    <3>2. s = "dead" => row[d].attempts = MaxAttempts
      <4>1. row[d].attempts \in 0..MaxAttempts
        BY <1>t DEF TypeOK, Row
      <4>2. s = "dead" => row[d].attempts >= MaxAttempts
        BY <3>1 DEF ExpiredDisposition
      <4> QED BY <4>1, <4>2, MaxAttemptsAssumption
    <3>3. /\ row[d].status = "processing"
          /\ evidence'[d] = Completed(d, {Flight(row[d])}, "lease_expired", s)
          /\ row'[d] = Released(row[d], s, NextAfterExpiry(s))
          /\ receipts'[d] = receipts[d]
      BY <2>1, <2>4, <3>1, <1>t DEF TerminalizeStep, TypeOK
    <3>4. JtiInv(d)' /\ OutcomeInv(d)'
      BY <3>2, <3>3, <1>p, <1>t, ClosedOutcome
    <3> QED BY <2>1, <2>2, <2>4, <3>3, <3>4, <1>t, LocalPromise
            DEF TerminalizeStep, TypeOK, PosterInv, Released
  <2> QED BY <2>3, <2>4
<1>11. ASSUME NEW w \in Worker, Persist(w) PROVE PromiseInv'
  <2>1. PICK d \in Delivery, s \in {"delivered", "retry", "dead"} :
          PersistStep(w, d, s)
    BY <1>11, PersistEffect
  <2>2. PosterInv(w)'
    BY <2>1 DEF PersistStep, PosterInv, IdleJob
  <2>3. CASE row[d].lease # job[w].lease
    BY <2>1, <2>2, <2>3, <1>1 DEF PersistStep
  <2>4. CASE row[d].lease = job[w].lease
    <3>1. s = "delivered" => row[d].jti \in receipts[d]
      <4>1. job[w].at = "persist" /\ job[w].result \in Result
        BY <1>11, <1>t DEF Persist, TypeOK, Job
      <4>2. s = "delivered" => job[w].result = "ok"
        BY <2>1, <4>1 DEF PersistStep, Disposition, Result
      <4> QED BY <2>1, <4>1, <4>2 DEF PersistStep, PromiseInv, PosterInv
    <3>2. /\ row[d].status = "processing"
          /\ evidence'[d] = Completed(d, {Flight(row[d])}, s, s)
          /\ row'[d] = Released(row[d], s, NextAfterAnswer(s))
          /\ receipts'[d] = receipts[d]
      BY <2>1, <2>4, <1>t DEF PersistStep, TypeOK
    <3>3. JtiInv(d)' /\ OutcomeInv(d)'
      BY <3>1, <3>2, <1>p, <1>t, ClosedOutcome
    <3> QED BY <2>1, <2>2, <2>4, <3>2, <3>3, <1>t, LocalPromise
            DEF PersistStep, TypeOK, Released
  <2> QED BY <2>3, <2>4
<1>12. CASE UNCHANGED vars
  BY <1>12, <1>1 DEF vars
<1>13. ASSUME NEW d \in Delivery, EditClient(d) \/ LoseMessage(d)
       PROVE  PromiseInv'
  BY <1>13, <1>1 DEF EditClient, LoseMessage
<1>14. ASSUME Dispatch PROVE PromiseInv'
  BY <1>14, <1>1 DEF Dispatch
<1>15. ASSUME NEW o \in Operator,
              ReplaySend(o) \/ ReplayAbort(o) \/ \E d \in Delivery : ReplayRead(o, d)
       PROVE  PromiseInv'
  BY <1>15, <1>1 DEF ReplaySend, ReplayAbort, ReplayRead
<1> QED
  BY <1>2, <1>3, <1>4, <1>5, <1>6, <1>7, <1>8, <1>9, <1>10, <1>11, <1>12,
     <1>13, <1>14, <1>15
     DEF Next, Advance

\* The second half of the inductive invariant: jtis, receipts and outcomes.
THEOREM PromiseInvariant == Spec => []PromiseInv
BY PromiseInit, PromiseStep, DeliveryInvariant, PTL DEF Spec

\* All retries and replays of one logout event carry one jti.
THEOREM OneJtiHolds == Spec => []OneJti
<1>1. PromiseInv => OneJti
  BY DEF PromiseInv, JtiInv, OneJti
<1> QED BY <1>1, PromiseInvariant, PTL

\* A row is delivered only after the relying party has accepted the event, exactly
\* the delivered rows have an attempt that says so, and the relying party has met
\* the event under one jti only.
THEOREM DeliveredWasHeardHolds == Spec => []DeliveredWasHeard
<1>1. PromiseInv => OneJti
  BY DEF PromiseInv, JtiInv, OneJti
<1>2. PromiseInv /\ OneJti => DeliveredWasHeard
  BY DEF PromiseInv, JtiInv, OutcomeInv, DeliveredWasHeard, LastAttempt
<1> QED BY <1>1, <1>2, PromiseInvariant, PTL

\* A dead row was never routable or its last attempt failed for good.
THEOREM DeadIsJustifiedHolds == Spec => []DeadIsJustified
<1>1. PromiseInv => DeadIsJustified
  BY DEF PromiseInv, OutcomeInv, Justified, DeadIsJustified, LastAttempt
<1> QED BY <1>1, PromiseInvariant, PTL

-------------------------------------------------------------------------------
(* The outbox implements DeliveryContract                                  *)

\* The mapping at one delivery.
LEMMA ContractAt ==
  ASSUME NEW d \in Delivery
  PROVE  /\ WorkOf[d] = Work(row[d])
         /\ GenerationOf[d] = row[d].replays
         /\ TriesOf[d] = row[d].attempts
         /\ ToldOf[d] <=> receipts[d] # {}
  BY DEF WorkOf, GenerationOf, TriesOf, ToldOf

\* A step that changes neither rows nor receipts.
LEMMA ContractSame ==
  ASSUME TRUE
  PROVE  /\ row' = row => /\ WorkOf' = WorkOf
                          /\ GenerationOf' = GenerationOf
                          /\ TriesOf' = TriesOf
         /\ receipts' = receipts => ToldOf' = ToldOf
  BY DEF WorkOf, GenerationOf, TriesOf, ToldOf

\* A step that changes one row: the functions of the mapping change there only,
\* and a function whose value there stays the same does not change at all.
LEMMA ContractPoint ==
  ASSUME NEW d \in Delivery, \A k \in Delivery \ {d} : row'[k] = row[k]
  PROVE  /\ WorkOf' = [WorkOf EXCEPT ![d] = Work(row'[d])]
         /\ Work(row'[d]) = Work(row[d]) => WorkOf' = WorkOf
         /\ GenerationOf' = [GenerationOf EXCEPT ![d] = row'[d].replays]
         /\ row'[d].replays = row[d].replays => GenerationOf' = GenerationOf
         /\ TriesOf' = [TriesOf EXCEPT ![d] = row'[d].attempts]
         /\ row'[d].attempts = row[d].attempts => TriesOf' = TriesOf
<1>1. ASSUME NEW k \in Delivery \ {d}
      PROVE  /\ Work(row'[k]) = Work(row[k])
             /\ row'[k].replays = row[k].replays
             /\ row'[k].attempts = row[k].attempts
  BY <1>1
<1>2. /\ WorkOf' = [WorkOf EXCEPT ![d] = Work(row'[d])]
      /\ Work(row'[d]) = Work(row[d]) => WorkOf' = WorkOf
  BY <1>1 DEF WorkOf
<1>3. /\ GenerationOf' = [GenerationOf EXCEPT ![d] = row'[d].replays]
      /\ row'[d].replays = row[d].replays => GenerationOf' = GenerationOf
  BY <1>1 DEF GenerationOf
<1>4. /\ TriesOf' = [TriesOf EXCEPT ![d] = row'[d].attempts]
      /\ row'[d].attempts = row[d].attempts => TriesOf' = TriesOf
  BY <1>1 DEF TriesOf
<1> QED BY <1>2, <1>3, <1>4

LEMMA ContractInit == Init => Contract!Init
<1> SUFFICES ASSUME Init PROVE Contract!Init
  OBVIOUS
<1>1. \A d \in Delivery : /\ Work(row[d]) = "none" /\ row[d].replays = 0
                          /\ row[d].attempts = 0 /\ receipts[d] = {}
  BY DEF Init, AbsentRow, Work
<1>2. WorkOf = [d \in Delivery |-> "none"]
  BY <1>1 DEF WorkOf
<1>3. ToldOf = [d \in Delivery |-> FALSE]
  BY <1>1 DEF ToldOf
<1>4. GenerationOf = [d \in Delivery |-> 0] /\ TriesOf = [d \in Delivery |-> 0]
  BY <1>1 DEF GenerationOf, TriesOf
<1> QED BY <1>2, <1>3, <1>4 DEF Contract!Init

LEMMA ContractStep ==
  DeliveryInv /\ PromiseInv /\ [Next]_vars => [Contract!Next]_Contract!vars
<1> SUFFICES ASSUME DeliveryInv, PromiseInv, [Next]_vars
             PROVE  Contract!Next \/ UNCHANGED Contract!vars
  OBVIOUS
<1>t. TypeOK
  BY DEF DeliveryInv
<1>k. \A w \in Worker : job[w].at # "idle" => job[w].key \in Delivery
  BY <1>t DEF TypeOK, Job
<1>a. ASSUME NEW d \in Delivery, row[d].status = "processing"
      PROVE  row[d].attempts > 0
  <2>1. Flight(row[d]) \in Attempt
    BY <1>t, <1>a DEF DeliveryInv, DeliveryTables, OpenInv, TypeOK
  <2>2. Flight(row[d]).number = row[d].attempts
    BY DEF Flight
  <2> QED BY <2>1, <2>2, MaxAttemptsAssumption DEF Attempt
<1>1. ASSUME UNCHANGED <<row, receipts>> PROVE UNCHANGED Contract!vars
  BY <1>1, ContractSame DEF Contract!vars
<1>2. ASSUME NEW d \in Delivery, Snapshot(d) PROVE Contract!Record(d)
  <2>1. /\ row[d].status = "absent" /\ receipts' = receipts
        /\ row'[d] = Recorded(clientUri[d])
        /\ \A k \in Delivery \ {d} : row'[k] = row[k]
        /\ clientUri[d] \in BOOLEAN
    BY <1>2, <1>t DEF Snapshot, TypeOK
  <2>2. row[d].attempts = 0 /\ row[d].replays = 0
    BY <2>1 DEF DeliveryInv, DeliveryTables, RowInv
  <2>3. /\ Work(row[d]) = "none"
        /\ Work(row'[d]) \in {"owed", "abandoned"}
        /\ row'[d].attempts = row[d].attempts
        /\ row'[d].replays = row[d].replays
    BY <2>1, <2>2 DEF Work, Recorded
  <2>4. /\ WorkOf' = [WorkOf EXCEPT ![d] = Work(row'[d])]
        /\ GenerationOf' = GenerationOf /\ TriesOf' = TriesOf
    BY <2>1, <2>3, ContractPoint
  <2>5. ToldOf' = ToldOf /\ WorkOf[d] = "none"
    BY <2>1, <2>3, ContractAt, ContractSame
  <2> QED BY <2>3, <2>4, <2>5 DEF Contract!Record
<1>3. ASSUME NEW d \in Delivery, LeaseLapses(d) \/ FallsDue(d)
      PROVE  UNCHANGED Contract!vars
  <2>0. row[d] \in Row /\ row \in [Delivery -> Row]
    BY <1>t DEF TypeOK
  <2>a. \/ row' = [row EXCEPT ![d] = [row[d] EXCEPT !.clock = "expired"]]
        \/ row' = [row EXCEPT ![d] = [row[d] EXCEPT !.next = "due"]]
    BY <1>3 DEF LeaseLapses, FallsDue
  <2>b. /\ row'[d].status = row[d].status
        /\ row'[d].replays = row[d].replays
        /\ row'[d].attempts = row[d].attempts
    BY <2>0, <2>a DEF Row
  <2>c. \A k \in Delivery \ {d} : row'[k] = row[k]
    BY <2>0, <2>a
  <2>1. \A k \in Delivery : /\ row'[k].status = row[k].status
                            /\ row'[k].replays = row[k].replays
                            /\ row'[k].attempts = row[k].attempts
    BY <2>b, <2>c
  <2>2. WorkOf' = WorkOf
    BY <2>1 DEF WorkOf, Work
  <2>3. GenerationOf' = GenerationOf /\ TriesOf' = TriesOf
    BY <2>1 DEF GenerationOf, TriesOf
  <2> QED BY <1>3, <2>2, <2>3, ContractSame
          DEF LeaseLapses, FallsDue, Contract!vars
<1>4. ASSUME NEW w \in Worker, Claim(w)
      PROVE  Contract!Next \/ UNCHANGED Contract!vars
  <2>1. PICK d \in Delivery : d = job[w].key
    BY <1>4, <1>k DEF Claim
  <2>2. CASE ~Claimable(row[d])
    BY <1>4, <2>1, <2>2, <1>1 DEF Claim
  <2>3. CASE Claimable(row[d])
    <3>1. /\ row'[d] = Leased(row[d], uuids + 1)
          /\ \A k \in Delivery \ {d} : row'[k] = row[k]
          /\ receipts' = receipts
      BY <1>4, <2>1, <2>3, <1>t DEF Claim, TypeOK
    <3>2. /\ Work(row[d]) = "owed" /\ row[d].attempts < MaxAttempts
          /\ Work(row'[d]) = Work(row[d])
          /\ row'[d].attempts = row[d].attempts + 1
          /\ row'[d].replays = row[d].replays
      BY <2>3, <3>1 DEF Claimable, Work, Leased
    <3>3. /\ WorkOf' = WorkOf /\ GenerationOf' = GenerationOf
          /\ TriesOf' = [TriesOf EXCEPT ![d] = row[d].attempts + 1]
      BY <3>1, <3>2, ContractPoint
    <3>4. /\ ToldOf' = ToldOf /\ WorkOf[d] = "owed"
          /\ TriesOf[d] = row[d].attempts
      BY <3>1, <3>2, ContractAt, ContractSame
    <3>5. Contract!Try(d)
      BY <3>2, <3>3, <3>4 DEF Contract!Try
    <3> QED BY <3>5 DEF Contract!Next
  <2> QED BY <2>2, <2>3
<1>5. ASSUME NEW w \in Worker, Post(w)
      PROVE  Contract!Next \/ UNCHANGED Contract!vars
  <2>1. PICK d \in Delivery : d = job[w].key
    BY <1>5, <1>k DEF Post
  <2>2. row[d].attempts > 0 \/ row[d].replays > 0
    BY <1>5, <2>1 DEF Post, PromiseInv, PosterInv, JtiInv
  <2>3. PICK heard \in BOOLEAN :
          receipts' = IF heard THEN [receipts EXCEPT ![d] = @ \cup {job[w].jti}]
                               ELSE receipts
    BY <1>5, <2>1 DEF Post
  <2>4. CASE ~heard
    BY <1>5, <2>3, <2>4, <1>1 DEF Post
  <2>5. CASE heard
    <3>1. /\ receipts'[d] # {} /\ row' = row
          /\ \A k \in Delivery \ {d} : receipts'[k] = receipts[k]
      BY <1>5, <2>3, <2>5, <1>t DEF Post, TypeOK
    <3>2. ToldOf' = [ToldOf EXCEPT ![d] = TRUE]
      BY <3>1 DEF ToldOf
    <3>3. Contract!Hear(d)
      BY <2>2, <3>1, <3>2, ContractAt, ContractSame DEF Contract!Hear
    <3> QED BY <3>3 DEF Contract!Next
  <2> QED BY <2>4, <2>5
<1>6. ASSUME NEW w \in Worker, Terminalize(w)
      PROVE  Contract!Next \/ UNCHANGED Contract!vars
  <2>1. PICK d \in Delivery : TerminalizeStep(w, d)
    BY <1>6, TerminalizeEffect
  <2>2. CASE row[d].lease # job[w].lease
    BY <2>1, <2>2, <1>1 DEF TerminalizeStep
  <2>3. CASE row[d].lease = job[w].lease
    <3>1. PICK s \in {"retry", "dead"} : s = ExpiredDisposition(row[d].attempts)
      BY DEF ExpiredDisposition
    <3>2. /\ row'[d] = Released(row[d], s, NextAfterExpiry(s))
          /\ \A k \in Delivery \ {d} : row'[k] = row[k]
          /\ receipts' = receipts /\ row[d].status = "processing"
      BY <2>1, <2>3, <3>1, <1>t DEF TerminalizeStep, TypeOK
    <3>3. /\ row'[d].replays = row[d].replays
          /\ row'[d].attempts = row[d].attempts
          /\ Work(row[d]) = "owed"
          /\ Work(row'[d]) = IF s = "dead" THEN "abandoned" ELSE "owed"
      BY <3>2 DEF Released, Work
    <3>4. row[d].attempts > 0
      BY <3>2, <1>a
    <3>5. /\ GenerationOf' = GenerationOf /\ TriesOf' = TriesOf
          /\ ToldOf' = ToldOf
      BY <3>2, <3>3, ContractPoint, ContractSame
    <3>6. CASE s = "dead"
      <4>1. /\ WorkOf' = [WorkOf EXCEPT ![d] = "abandoned"]
            /\ WorkOf[d] = "owed" /\ TriesOf[d] > 0
        BY <3>2, <3>3, <3>4, <3>6, ContractPoint, ContractAt
      <4>2. Contract!Abandon(d)
        BY <3>5, <4>1 DEF Contract!Abandon
      <4> QED BY <4>2 DEF Contract!Next
    <3>7. CASE s = "retry"
      <4>1. WorkOf' = WorkOf
        BY <3>2, <3>3, <3>7, ContractPoint
      <4> QED BY <3>5, <4>1 DEF Contract!vars
    <3> QED BY <3>6, <3>7
  <2> QED BY <2>2, <2>3
<1>7. ASSUME NEW w \in Worker, Persist(w)
      PROVE  Contract!Next \/ UNCHANGED Contract!vars
  <2>1. PICK d \in Delivery, s \in {"delivered", "retry", "dead"} :
          PersistStep(w, d, s)
    BY <1>7, PersistEffect
  <2>2. CASE row[d].lease # job[w].lease
    BY <2>1, <2>2, <1>1 DEF PersistStep
  <2>3. CASE row[d].lease = job[w].lease
    <3>1. /\ row'[d] = Released(row[d], s, NextAfterAnswer(s))
          /\ \A k \in Delivery \ {d} : row'[k] = row[k]
          /\ receipts' = receipts /\ row[d].status = "processing"
      BY <2>1, <2>3, <1>t DEF PersistStep, TypeOK
    <3>2. /\ row'[d].replays = row[d].replays
          /\ row'[d].attempts = row[d].attempts
          /\ Work(row[d]) = "owed"
          /\ Work(row'[d]) = CASE s = "dead" -> "abandoned"
                               [] s = "delivered" -> "acknowledged"
                               [] OTHER -> "owed"
      BY <3>1 DEF Released, Work
    <3>3. row[d].attempts > 0
      BY <3>1, <1>a
    <3>4. /\ GenerationOf' = GenerationOf /\ TriesOf' = TriesOf
          /\ ToldOf' = ToldOf
      BY <3>1, <3>2, ContractPoint, ContractSame
    <3>5. /\ WorkOf' = [WorkOf EXCEPT ![d] = Work(row'[d])]
          /\ WorkOf[d] = "owed" /\ TriesOf[d] > 0
      BY <3>1, <3>2, <3>3, ContractPoint, ContractAt
    <3>6. CASE s = "dead"
      <4>1. WorkOf' = [WorkOf EXCEPT ![d] = "abandoned"]
        BY <3>2, <3>5, <3>6
      <4>2. Contract!Abandon(d)
        BY <3>4, <3>5, <4>1 DEF Contract!Abandon
      <4> QED BY <4>2 DEF Contract!Next
    <3>7. CASE s = "retry"
      <4>1. WorkOf' = WorkOf
        BY <3>1, <3>2, <3>7, ContractPoint
      <4> QED BY <3>4, <4>1 DEF Contract!vars
    <3>8. CASE s = "delivered"
      <4>1. receipts[d] # {}
        <5>1. job[w].at = "persist" /\ job[w].result \in Result
          BY <1>7, <1>t DEF Persist, TypeOK, Job
        <5>2. job[w].result = "ok"
          BY <2>1, <3>8, <5>1 DEF PersistStep, Disposition, Result
        <5> QED BY <2>1, <5>1, <5>2 DEF PersistStep, PromiseInv, PosterInv
      <4>2. WorkOf' = [WorkOf EXCEPT ![d] = "acknowledged"]
        BY <3>2, <3>5, <3>8
      <4>3. Contract!Acknowledge(d)
        BY <3>4, <3>5, <4>1, <4>2, ContractAt DEF Contract!Acknowledge
      <4> QED BY <4>3 DEF Contract!Next
    <3> QED BY <3>6, <3>7, <3>8
  <2> QED BY <2>2, <2>3
<1>8. ASSUME NEW o \in Operator, ReplayCommit(o)
      PROVE  Contract!Next \/ UNCHANGED Contract!vars
  <2>1. PICK d \in Delivery : d = op[o].key
    BY <1>8, <1>t DEF ReplayCommit, TypeOK, Op
  <2>2. CASE ~ReplayGuard(row[d], op[o].replays)
    BY <1>8, <2>1, <2>2, <1>1 DEF ReplayCommit
  <2>3. CASE ReplayGuard(row[d], op[o].replays)
    <3>1. /\ row'[d] = Reopened(row[d], row[d].replays + 1)
          /\ \A k \in Delivery \ {d} : row'[k] = row[k]
          /\ receipts' = receipts /\ row[d].status \in {"dead", "retry"}
      BY <1>8, <2>1, <2>3, <1>t DEF ReplayCommit, ReplayGuard, Replayable, TypeOK
    <3>2. /\ Work(row[d]) \in {"owed", "abandoned"}
          /\ Work(row'[d]) = "owed"
          /\ row'[d].attempts = 0
          /\ row'[d].replays = row[d].replays + 1
      BY <3>1 DEF Work, Reopened
    <3>3. /\ WorkOf' = [WorkOf EXCEPT ![d] = "owed"]
          /\ GenerationOf' = [GenerationOf EXCEPT ![d] = row[d].replays + 1]
          /\ TriesOf' = [TriesOf EXCEPT ![d] = 0]
          /\ ToldOf' = ToldOf
      BY <3>1, <3>2, ContractPoint, ContractSame
    <3>4. /\ WorkOf[d] \in {"owed", "abandoned"}
          /\ GenerationOf[d] = row[d].replays
      BY <3>2, ContractAt
    <3>5. Contract!Reopen(d)
      BY <3>3, <3>4 DEF Contract!Reopen
    <3> QED BY <3>5 DEF Contract!Next
  <2> QED BY <2>2, <2>3
<1>9. CASE UNCHANGED vars
  BY <1>9, <1>1 DEF vars
<1>10. ASSUME NEW d \in Delivery, EditClient(d) \/ LoseMessage(d)
       PROVE  UNCHANGED Contract!vars
  BY <1>10, <1>1 DEF EditClient, LoseMessage
<1>11. ASSUME Dispatch PROVE UNCHANGED Contract!vars
  BY <1>11, <1>1 DEF Dispatch
<1>12. ASSUME NEW o \in Operator,
              ReplaySend(o) \/ ReplayAbort(o) \/ \E d \in Delivery : ReplayRead(o, d)
       PROVE  UNCHANGED Contract!vars
  BY <1>12, <1>1 DEF ReplaySend, ReplayAbort, ReplayRead
<1>13. ASSUME NEW w \in Worker,
              \/ Recheck(w) \/ Reread(w) \/ Abort(w)
              \/ \E d \in Delivery : Receive(w, d)
       PROVE  UNCHANGED Contract!vars
  BY <1>13, <1>1 DEF Recheck, Reread, Abort, Receive
<1>14. ASSUME NEW d \in Delivery, Contract!Record(d) PROVE Contract!Next
  BY <1>14 DEF Contract!Next
<1> QED
  BY <1>2, <1>3, <1>4, <1>5, <1>6, <1>7, <1>8, <1>9, <1>10, <1>11, <1>12,
     <1>13, <1>14
     DEF Next, Advance

\* Every behaviour of the outbox is one that DeliveryContract allows: whatever
\* consumers, queue and operators do, a notice is acknowledged only when the
\* relying party was told, stays acknowledged, and each generation of attempts
\* is bounded.
THEOREM OutboxImplementsContract == Spec => ImplementsContract
BY ContractInit, ContractStep, DeliveryInvariant, PromiseInvariant, PTL
   DEF Spec, ImplementsContract, Contract!Spec

-------------------------------------------------------------------------------
(* What a step may do to a lease and to an attempt                         *)

\* Who may end the lease of a row in processing.
LeaseEnds(d) ==
    row[d].status = "processing" /\ row'[d].lease # row[d].lease =>
      \/ row[d].clock = "expired"
      \/ \E w \in Worker : /\ job[w].at = "persist"
                           /\ job[w].key = d
                           /\ job[w].lease = row[d].lease
                           /\ job'[w].at = "idle"

\* What may become of an attempt.
AttemptKept(d, e) ==
    \/ e \in evidence'[d]
    \/ /\ e.outcome = "in_flight"
       /\ \E f \in evidence'[d] : f.lease = e.lease /\ f.outcome # "in_flight"

\* A step that leaves the leases of the rows in processing, and the evidence, alone.
LEMMA NothingEnds ==
  ASSUME \A d \in Delivery : row[d].status = "processing"
                             => row'[d].lease = row[d].lease,
         \A d \in Delivery : evidence[d] \subseteq evidence'[d]
  PROVE  \A d \in Delivery : LeaseEnds(d) /\ \A e \in evidence[d] : AttemptKept(d, e)
BY DEF LeaseEnds, AttemptKept

\* The attempt that a closing batch completes was open, and all others stay.
LEMMA CompletionKeeps ==
  ASSUME TypeOK, NEW d \in Delivery,
         NEW o \in {"delivered", "retry", "dead", "lease_expired"},
         NEW s \in {"delivered", "retry", "dead"},
         evidence' = [evidence EXCEPT ![d] = Completed(d, {Flight(row[d])}, o, s)]
  PROVE  \A k \in Delivery : \A e \in evidence[k] : AttemptKept(k, e)
<1> SUFFICES ASSUME NEW e \in evidence[d], e \notin evidence'[d] PROVE AttemptKept(d, e)
  BY DEF TypeOK, AttemptKept
<1>1. e = Flight(row[d])
  BY DEF TypeOK, Completed
<1> DEFINE f == [e EXCEPT !.outcome = o, !.resulting = s]
<1>2. e.outcome = "in_flight"
  BY <1>1 DEF Flight
<1>3. f \in evidence'[d]
  BY <1>1 DEF TypeOK, Completed
<1>4. f.lease = e.lease /\ f.outcome = o
  BY <1>1 DEF Flight
<1> HIDE DEF f
<1> QED BY <1>2, <1>3, <1>4 DEF AttemptKept

\* Every step respects the leases and keeps the evidence.
LEMMA EndsStep ==
  DeliveryInv /\ [Next]_vars =>
    \A d \in Delivery : LeaseEnds(d) /\ \A e \in evidence[d] : AttemptKept(d, e)
<1> SUFFICES ASSUME DeliveryInv, [Next]_vars
             PROVE  \A d \in Delivery :
                      LeaseEnds(d) /\ \A e \in evidence[d] : AttemptKept(d, e)
  OBVIOUS
<1>t. TypeOK
  BY DEF DeliveryInv
<1>1. CASE UNCHANGED <<row, evidence>>
  BY <1>1, NothingEnds
<1>2. ASSUME NEW d \in Delivery, Snapshot(d) \/ LeaseLapses(d) \/ FallsDue(d)
      PROVE  \A k \in Delivery : /\ row[k].status = "processing"
                                    => row'[k].lease = row[k].lease
                                 /\ evidence'[k] = evidence[k]
  <2>1. UNCHANGED evidence
    BY <1>2 DEF Snapshot, LeaseLapses, FallsDue
  <2>2. CASE Snapshot(d)
    BY <1>t, <2>1, <2>2 DEF Snapshot, TypeOK
  <2>3. CASE LeaseLapses(d)
    BY <1>t, <2>1, <2>3 DEF LeaseLapses, TypeOK, Row
  <2>4. CASE FallsDue(d)
    BY <1>t, <2>1, <2>4 DEF FallsDue, TypeOK, Row
  <2> QED BY <1>2, <2>2, <2>3, <2>4
<1>3. ASSUME NEW w \in Worker, Claim(w)
      PROVE  \A d \in Delivery : LeaseEnds(d) /\ \A e \in evidence[d] : AttemptKept(d, e)
  <2>1. job[w].key \in Delivery
    BY <1>3, <1>t DEF Claim, TypeOK, Job
  <2>2. \A d \in Delivery : row[d].status = "processing" => row'[d] = row[d]
    BY <1>3, <1>t, <2>1 DEF Claim, TypeOK, Claimable
  <2>3. \A d \in Delivery : evidence[d] \subseteq evidence'[d]
    BY <1>3, <1>t, <2>1 DEF Claim, TypeOK
  <2> QED BY <2>2, <2>3, NothingEnds
<1>4. ASSUME NEW w \in Worker, Terminalize(w)
      PROVE  \A d \in Delivery : LeaseEnds(d) /\ \A e \in evidence[d] : AttemptKept(d, e)
  <2>1. PICK d \in Delivery : TerminalizeStep(w, d)
    BY <1>4, TerminalizeEffect
  <2>2. CASE row[d].lease # job[w].lease
    BY <2>1, <2>2, NothingEnds DEF TerminalizeStep
  <2>3. CASE row[d].lease = job[w].lease
    <3>1. /\ row[d].clock = "expired"
          /\ \A k \in Delivery \ {d} : row'[k] = row[k]
      BY <1>t, <2>1, <2>3 DEF TerminalizeStep, TypeOK
    <3>2. \A k \in Delivery : LeaseEnds(k)
      BY <3>1 DEF LeaseEnds
    <3>3. PICK s \in {"delivered", "retry", "dead"} :
            evidence' = [evidence EXCEPT ![d] =
                           Completed(d, {Flight(row[d])}, "lease_expired", s)]
      BY <2>1, <2>3 DEF TerminalizeStep, ExpiredDisposition
    <3>4. \A k \in Delivery : \A e \in evidence[k] : AttemptKept(k, e)
      BY <1>t, <3>3, CompletionKeeps
    <3> QED BY <3>2, <3>4
  <2> QED BY <2>2, <2>3
<1>5. ASSUME NEW w \in Worker, Persist(w)
      PROVE  \A d \in Delivery : LeaseEnds(d) /\ \A e \in evidence[d] : AttemptKept(d, e)
  <2>1. PICK d \in Delivery, s \in {"delivered", "retry", "dead"} : PersistStep(w, d, s)
    BY <1>5, PersistEffect
  <2>2. CASE row[d].lease # job[w].lease
    BY <2>1, <2>2, NothingEnds DEF PersistStep
  <2>3. CASE row[d].lease = job[w].lease
    <3>1. /\ job[w].at = "persist" /\ job[w].key = d /\ job'[w].at = "idle"
          /\ \A k \in Delivery \ {d} : row'[k] = row[k]
      BY <1>5, <1>t, <2>1, <2>3 DEF Persist, PersistStep, TypeOK, IdleJob
    <3>2. \A k \in Delivery : LeaseEnds(k)
      BY <2>3, <3>1 DEF LeaseEnds
    <3>3. evidence' = [evidence EXCEPT ![d] = Completed(d, {Flight(row[d])}, s, s)]
      BY <2>1, <2>3 DEF PersistStep
    <3>4. \A k \in Delivery : \A e \in evidence[k] : AttemptKept(k, e)
      BY <1>t, <3>3, CompletionKeeps
    <3> QED BY <3>2, <3>4
  <2> QED BY <2>2, <2>3
<1>6. ASSUME NEW o \in Operator, ReplayCommit(o)
      PROVE  \A d \in Delivery : /\ row[d].status = "processing"
                                    => row'[d].lease = row[d].lease
                                 /\ evidence'[d] = evidence[d]
  <2>1. op[o].key \in Delivery
    BY <1>6, <1>t DEF ReplayCommit, TypeOK, Op
  <2> QED BY <1>6, <1>t, <2>1 DEF ReplayCommit, ReplayGuard, Replayable, TypeOK
<1>7. CASE \/ \E d \in Delivery : EditClient(d) \/ LoseMessage(d)
           \/ Dispatch \/ UNCHANGED vars
           \/ \E w \in Worker, d \in Delivery : Receive(w, d)
  BY <1>1, <1>7 DEF EditClient, LoseMessage, Dispatch, Receive, vars
<1>8. CASE \E w \in Worker : Recheck(w) \/ Reread(w) \/ Post(w) \/ Abort(w)
  BY <1>1, <1>8 DEF Recheck, Reread, Post, Abort
<1>9. CASE \/ \E o \in Operator, d \in Delivery : ReplayRead(o, d)
           \/ \E o \in Operator : ReplaySend(o) \/ ReplayAbort(o)
  BY <1>1, <1>9 DEF ReplayRead, ReplaySend, ReplayAbort
<1>10. CASE \/ \E d \in Delivery : Snapshot(d) \/ LeaseLapses(d) \/ FallsDue(d)
            \/ \E o \in Operator : ReplayCommit(o)
  BY <1>2, <1>6, <1>10, NothingEnds
<1> QED BY <1>3, <1>4, <1>5, <1>7, <1>8, <1>9, <1>10 DEF Next, Advance

\* No consumer takes a delivery away from the one that is posting it: a live lease is
\* ended by its holder.
THEOREM LeaseRespectedHolds == Spec => LeaseRespected
<1> DEFINE Ends == \A d \in Delivery :
             row[d].status = "processing" /\ row'[d].lease # row[d].lease =>
               \/ row[d].clock = "expired"
               \/ \E w \in Worker : /\ job[w].at = "persist"
                                    /\ job[w].key = d
                                    /\ job[w].lease = row[d].lease
                                    /\ job'[w].at = "idle"
<1>1. DeliveryInv /\ [Next]_vars => [Ends]_vars
  BY EndsStep DEF LeaseEnds
<1> QED BY <1>1, DeliveryInvariant, PTL DEF Spec, LeaseRespected

\* A completed attempt is never rewritten, whichever consumer comes late.
THEOREM EvidenceIsFinalHolds == Spec => EvidenceIsFinal
<1> DEFINE Kept == \A d \in Delivery : \A e \in evidence[d] :
             \/ e \in evidence'[d]
             \/ /\ e.outcome = "in_flight"
                /\ \E f \in evidence'[d] : /\ f.lease = e.lease
                                           /\ f.outcome # "in_flight"
<1>1. DeliveryInv /\ [Next]_vars => [Kept]_vars
  BY EndsStep DEF AttemptKept
<1> QED BY <1>1, DeliveryInvariant, PTL DEF Spec, EvidenceIsFinal
===============================================================================
