--------------------------- MODULE AuditArchiveProofs ---------------------------
(***************************************************************************)
(* What AuditArchive promises, for any number of writers, events, batches  *)
(* and attempts, and for clocks that are apart by any skew: ArchiveIsComplete, *)
(* ReportsAreTrue, EndsAreAccepted and AttemptsEndOnce. The inductive      *)
(* invariant has three parts: what has been archived and what the batch    *)
(* after the checkpoint holds (Log), what the row of that batch may say    *)
(* (Rows), and what a writer knows of the batch its lease is for (Writers).*)
(***************************************************************************)
EXTENDS AuditArchive, FiniteSetTheorems, FunctionTheorems, SequenceTheorems,
        WellFoundedInduction, TLAPS

Who == {"named", "anonymous", "compensated"}
Manifests == [generation : 1..MaxBatches, from : Nat, first : Nat, last : Nat,
              count : Nat, created : Nat]
Items == [sequence : Nat, who : Who]
Drafts == [manifest : Manifests, items : SUBSET Items]
Statuses == {"pending", "processing", "retry", "dead", "corrupt"}
Batches == [revision : 0..(MaxBatches - 1), manifest : Manifests, items : SUBSET Items,
            sound : BOOLEAN, status : Statuses, generation : Nat, attempts : 0..MaxAttempts,
            due : Nat, started : Nat, touched : Nat, expires : Nat, updated : Nat]
Sealed == [revision : 0..(MaxBatches - 1), manifest : Manifests, items : SUBSET Items,
           sound : BOOLEAN, time : Nat]
Attempts == (0..(MaxBatches - 1)) \X Nat \X (1..MaxAttempts)
Leases == [revision : 0..(MaxBatches - 1), generation : Nat, attempt : 1..MaxAttempts,
           touched : Nat, expires : Nat]
Outcomes == {"archived", "retry", "dead", "corrupt", "lease_expired"}
Whys == {"none", "transient", "crypto_integrity", "r2_object_conflict",
         "r2_readback_mismatch", "lease_expired"}
Ends == [outcome : Outcomes, why : Whys, seen : {"full", "partial", "nothing"}]
Receipts == [attempt : Attempts, outcome : Outcomes]
Puts == {"none", "created", "uncertain", "precondition_failed"}
Objects == {"none", "exact", "relabelled", "different"}

Resting == [at : {"idle"}, said : SUBSET Receipts]
Working == [at : {"start", "read", "put", "get"}, lease : Leases, put : Puts]
Extending == [at : {"renew", "beaten", "unsure"}, lease : Leases, next : {"read", "put", "get"},
              put : Puts, time : Nat, tries : 0..2, adoptions : 0..1]
Settling == [at : {"settle"}, lease : Leases, end : Ends, time : Nat, tries : 1..2,
             applied : BOOLEAN]
States == Resting \cup Working \cup Extending \cup Settling

TypeOK ==
    /\ event \in Seq(Who)
    /\ sentinel \in BOOLEAN
    /\ drafts \subseteq Drafts
    /\ batch \in {NoBatch} \cup Batches
    /\ archived \in Seq(Sealed)
    /\ ledger \subseteq Receipts
    /\ bucket \in [0..MaxBatches -> Objects]
    /\ writer \in [Writer -> States]
    /\ clock \in Nat /\ faults \in Nat

-----------------------------------------------------------------------------
(* The log                                                                 *)

\* b has the live events of its range, each as it was or as it is, and its records
\* are those of its manifest.
Faithful(b) ==
    /\ b.manifest.last <= Len(event)
    /\ \A i \in b.items : i.who \in {"named", event[i.sequence]}
    /\ Sequences(b.items) = {s \in Live : b.manifest.from < s /\ s <= b.manifest.last}
    /\ WellFormed(b.manifest) /\ Fits(Sequences(b.items)) /\ Describes(b.manifest, b.items)

\* The archived batches are whole, exact in the bucket, and follow one another.
ArchivedOK ==
    /\ \A n \in DOMAIN archived :
          /\ archived[n].revision = n - 1
          /\ bucket[n - 1] = "exact"
          /\ archived[n].sound
          /\ Faithful(archived[n])
          /\ archived[n].manifest.last <= Checkpoint.last
    /\ \A m, n \in DOMAIN archived :
          m < n => archived[m].manifest.last <= archived[n].manifest.from
    /\ \A s \in 1..Checkpoint.last : \E n \in DOMAIN archived :
          archived[n].manifest.from < s /\ s <= archived[n].manifest.last

\* The batch comes next.
BatchFollows ==
    batch # NoBatch =>
        /\ batch.revision = Len(archived)
        /\ batch.manifest.from = Checkpoint.last
        /\ Faithful(batch)

Log == ArchivedOK /\ BatchFollows

-----------------------------------------------------------------------------
(* The row                                                                 *)

\* Whatever happens to the batch happens after it was sealed.
Rows ==
    batch # NoBatch =>
        /\ BatchCheck(batch)
        /\ batch.status \in {"pending", "retry"} => batch.due >= batch.manifest.created
        /\ Held => batch.started >= batch.manifest.created
                   /\ batch.expires >= batch.manifest.created

-----------------------------------------------------------------------------
(* The writers                                                             *)

\* The object that a writer uploads, reads back or reports: its envelope opened.
HasOpened(me) ==
    \/ me.at \in {"put", "get"}
    \/ me.at \in {"renew", "beaten", "unsure"} /\ me.next \in {"put", "get"}
    \/ me.at = "settle" /\ me.end.outcome = "archived"

\* A lease is for the batch after the checkpoint, or for one that was archived.
LeaseIsKnown(l) == l.revision < Len(archived) \/ (batch # NoBatch /\ l.revision = batch.revision)
ForBatch(l) == batch # NoBatch /\ l.revision = batch.revision

WriterOK(w) ==
    LET me == writer[w]
    IN  me.at # "idle" =>
          /\ LeaseIsKnown(me.lease)
          /\ ForBatch(me.lease) => /\ Now(w) >= batch.manifest.created
                                   /\ HasOpened(me) => batch.sound
          /\ me.at \in {"renew", "beaten", "unsure", "settle"} /\ ForBatch(me.lease)
                => me.time >= batch.manifest.created
          /\ me.at = "settle" =>
                /\ Valid(me.end, me.lease, me.time) /\ AttemptCheck(me.end, me.lease)
                /\ me.end.outcome = "archived" => bucket[me.lease.revision] = "exact"
                /\ me.applied => Receipt(w) \in ledger
Reports(w) ==
    writer[w].at = "idle" =>
        \A said \in writer[w].said :
            \E r \in ledger : r.attempt = said.attempt /\ r.outcome = said.outcome
Writers == \A w \in Writer : WriterOK(w) /\ Reports(w)

IInv == TypeOK /\ Log /\ Rows /\ Writers

-----------------------------------------------------------------------------
(* Numbers                                                                 *)

\* The sealer's prefix of the window, and the records of a manifest, have a first
\* and a last: every nonempty set of naturals has a least element.
LEMMA Least ==
  ASSUME NEW S, S \subseteq Nat, S # {}
  PROVE  \E m \in S : \A k \in S : m <= k
<1> DEFINE R == OpToRel(<, Nat)
<1>1. IsWellFoundedOn(R, Nat)
  BY NatLessThanWellFounded
<1>2. \A x, y \in Nat : x < y => <<x, y>> \in R
  BY DEF OpToRel
<1> HIDE DEF R
<1>3. PICK x \in S : \A y \in S : ~ (<<y, x>> \in R)
  BY <1>1, WFMin
<1>4. ASSUME NEW y \in S PROVE x <= y
  <2>1. ~(y < x)
    BY <1>2, <1>3
  <2>2. x \in Nat /\ y \in Nat
    OBVIOUS
  <2> QED
    BY <2>1, <2>2
<1> QED
  BY <1>4

\* A bounded one has a greatest.
LEMMA Greatest ==
  ASSUME NEW N \in Nat, NEW S, S \subseteq 0..N, S # {}
  PROVE  \E m \in S : \A k \in S : m >= k
<1> DEFINE T == {N - s : s \in S}
<1>1. PICK m \in T : \A k \in T : m <= k
  <2>1. T \subseteq Nat
    OBVIOUS
  <2>2. T # {}
    OBVIOUS
  <2> HIDE DEF T
  <2> QED
    BY <2>1, <2>2, Least
<1>2. PICK s \in S : m = N - s
  OBVIOUS
<1>3. \A k \in S : N - s <= N - k
  BY <1>1, <1>2
<1>4. \A k \in S : s >= k
  BY <1>3
<1> QED
  BY <1>4

\* What Manifest and Describes say of the sequence numbers of a batch.
LEMMA Extremes ==
  ASSUME NEW N \in Nat, NEW S, S \subseteq 1..N
  PROVE  /\ IsFiniteSet(S) /\ Cardinality(S) \in Nat
         /\ S # {} => /\ Min(S) \in S /\ Max(S) \in S
                      /\ \A k \in S : Min(S) <= k /\ k <= Max(S)
<1>1. IsFiniteSet(1..N)
  BY FS_Interval
<1>2. IsFiniteSet(S) /\ Cardinality(S) \in Nat
  BY <1>1, FS_Subset, FS_CardinalityType
<1>3. ASSUME S # {}
      PROVE  /\ Min(S) \in S /\ Max(S) \in S
             /\ \A k \in S : Min(S) <= k /\ k <= Max(S)
  <2> S \subseteq Nat /\ S \subseteq 0..N
    OBVIOUS
  <2>1. \E m \in S : \A k \in S : m <= k
    BY <1>3, Least
  <2>2. \E m \in S : \A k \in S : m >= k
    BY <1>3, Greatest
  <2>3. Min(S) \in S /\ \A k \in S : Min(S) <= k
    BY <2>1 DEF Min
  <2>4. Max(S) \in S /\ \A k \in S : Max(S) >= k
    BY <2>2 DEF Max
  <2> QED
    BY <2>3, <2>4
<1> QED
  BY <1>2, <1>3

-----------------------------------------------------------------------------
(* Ends                                                                    *)

\* What the writer intends; Ended then looks at the clock and at the attempt.
Intended ==
    {Transient, Exact, Expired, Corrupt("crypto_integrity", "nothing"),
     Corrupt("r2_readback_mismatch", "full"), Corrupt("r2_object_conflict", "full"),
     Corrupt("r2_object_conflict", "partial")}

\* The readback never reports a mismatch it has no evidence for.
LEMMA MismatchIntended ==
  ASSUME NEW created \in BOOLEAN, NEW seen \in {"full", "partial"}
  PROVE  /\ Mismatch(created, seen) \in Intended
         /\ Mismatch(created, seen) # Expired /\ Mismatch(created, seen) # Exact
  BY DEF Mismatch, Intended, Transient, Corrupt, Expired, Exact, End

\* Whatever the clock says by then, the end is one that is accepted.
LEMMA EndedSound ==
  ASSUME NEW l \in Leases, NEW end \in Intended, NEW time \in Nat,
         end = Expired => time >= l.expires
  PROVE  /\ Ended(l, end, time) \in Ends
         /\ Valid(Ended(l, end, time), l, time)
         /\ AttemptCheck(Ended(l, end, time), l)
         /\ Ended(l, end, time).outcome = "archived" => end = Exact
<1> USE DEF Ended, Ends, Valid, AttemptCheck, Outcomes, Whys, Leases, Intended, Transient,
            Exact, Expired, Corrupt, End
<1>1. l.attempt \in 1..MaxAttempts /\ l.expires \in Nat /\ MaxAttempts \in Nat
  BY ArchiveAssumption
<1>2. CASE time >= l.expires
  BY <1>1, <1>2
<1>3. CASE ~(time >= l.expires) /\ end = Transient
  BY <1>1, <1>3
<1>4. CASE ~(time >= l.expires) /\ end # Transient
  BY <1>1, <1>4
<1> QED
  BY <1>2, <1>3, <1>4

-----------------------------------------------------------------------------
(* The log: what a step may do to what it is made of                       *)

\* Events are only added, or lose the name of their actor.
Grows ==
    /\ Len(event) <= Len(event')
    /\ \A s \in 1..Len(event) :
          event'[s] = event[s] \/ (event[s] = "named" /\ event'[s] = "anonymous")
\* The batch is the same batch, whatever its row says now.
SameBatch ==
    \/ batch' = batch
    \/ /\ batch # NoBatch /\ batch' # NoBatch
       /\ batch'.revision = batch.revision /\ batch'.manifest = batch.manifest
       /\ batch'.items = batch.items /\ batch'.sound = batch.sound
\* An exact object stays: every upload is create-only.
BucketKept == \A r \in 0..MaxBatches : bucket[r] = "exact" => bucket'[r] = "exact"

LEMMA FaithfulKept ==
  ASSUME NEW b, b.items \subseteq Items, b.manifest \in Manifests,
         event \in Seq(Who), event' \in Seq(Who), Grows, Faithful(b)
  PROVE  Faithful(b)'
<1>1. Len(event) \in Nat /\ Len(event') \in Nat /\ b.manifest.last \in Nat
      /\ DOMAIN event = 1..Len(event) /\ DOMAIN event' = 1..Len(event')
  BY DEF Manifests
<1>2. \A s \in 1..Len(event) : s \in Live <=> s \in Live'
  BY <1>1 DEF Grows, Live
<1>3. Sequences(b.items)' = Sequences(b.items)
  BY DEF Sequences
<1>4. Live \subseteq 1..Len(event) /\ Live' \subseteq 1..Len(event')
  BY <1>1 DEF Live
<1>5. b.manifest.last <= Len(event)
  BY DEF Faithful
<1>6. {s \in Live : b.manifest.from < s /\ s <= b.manifest.last}
        = {s \in Live' : b.manifest.from < s /\ s <= b.manifest.last}
  <2>1. ASSUME NEW s, s <= b.manifest.last, s \in Live \/ s \in Live'
        PROVE  s \in Live <=> s \in Live'
    <3>1. s \in 1..Len(event) \/ s \in 1..Len(event')
      BY <1>4, <2>1
    <3>2. s \in 1..Len(event)
      BY <1>1, <1>5, <2>1, <3>1
    <3> QED
      BY <1>2, <3>2
  <2> QED
    BY <2>1
<1>7. ASSUME NEW i \in b.items PROVE i.who \in {"named", event'[i.sequence]}
  <2>1. i.sequence \in Sequences(b.items)
    BY DEF Sequences
  <2>2. i.sequence \in 1..Len(event)
    BY <2>1, <1>4 DEF Faithful
  <2>3. i.who \in {"named", event[i.sequence]}
    BY DEF Faithful
  <2> QED
    BY <2>2, <2>3 DEF Grows
<1>8. WellFormed(b.manifest)' /\ Fits(Sequences(b.items))' /\ Describes(b.manifest, b.items)'
  BY DEF Faithful
<1>9. b.manifest.last <= Len(event')
  BY <1>1, <1>5 DEF Grows
<1>10. Sequences(b.items)' = {s \in Live' : b.manifest.from < s /\ s <= b.manifest.last}
  BY <1>3, <1>6 DEF Faithful
<1> QED
  BY <1>7, <1>8, <1>9, <1>10 DEF Faithful

\* Most steps leave the checkpoint and the batch where they are.
LEMMA LogKept ==
  ASSUME TypeOK, TypeOK', Log, Grows, SameBatch, BucketKept, archived' = archived
  PROVE  Log'
<1> USE DEF TypeOK
<1>1. Checkpoint' = Checkpoint
  BY DEF Checkpoint
<1>2. ASSUME NEW n \in DOMAIN archived PROVE Faithful(archived[n])'
  <2>1. archived[n] \in Sealed
    BY ElementOfSeq
  <2>2. archived[n].items \subseteq Items /\ archived[n].manifest \in Manifests
    BY <2>1 DEF Sealed
  <2>3. Faithful(archived[n])
    BY DEF Log, ArchivedOK
  <2> DEFINE b == archived[n]
  <2>4. Faithful(b)' <=> Faithful(archived[n])'
    BY DEF Faithful, Live, WellFormed, Fits, Describes, Sequences
  <2> QED
    BY <2>2, <2>3, FaithfulKept
<1>3. ArchivedOK'
  <2>1. ASSUME NEW n \in DOMAIN archived'
        PROVE  /\ archived'[n].revision = n - 1 /\ bucket'[n - 1] = "exact"
               /\ archived'[n].sound /\ archived'[n].manifest.last <= Checkpoint'.last
    <3>1. n \in 1..Len(archived) /\ archived[n] \in Sealed
      BY ElementOfSeq
    <3>2. archived[n].revision = n - 1 /\ n - 1 \in 0..MaxBatches
      BY <3>1, ArchiveAssumption DEF Log, ArchivedOK, Sealed
    <3> QED
      BY <1>1, <3>2 DEF Log, ArchivedOK, BucketKept
  <2> QED
    BY <1>1, <1>2, <2>1 DEF Log, ArchivedOK
<1>4. BatchFollows'
  <2> SUFFICES ASSUME batch' # NoBatch PROVE BatchFollows'
    BY DEF BatchFollows
  <2>1. /\ batch # NoBatch /\ batch \in Batches /\ batch' \in Batches
        /\ batch'.revision = batch.revision /\ batch'.manifest = batch.manifest
        /\ batch'.items = batch.items
    BY DEF SameBatch
  <2>2. Faithful(batch)
    BY <2>1 DEF Log, BatchFollows
  <2>3. ASSUME NEW b, b = batch PROVE Faithful(b)'
    <3>1. b.items \subseteq Items /\ b.manifest \in Manifests
      BY <2>1, <2>3 DEF Batches
    <3>2. Faithful(b)
      BY <2>2, <2>3
    <3> QED
      BY <3>1, <3>2, FaithfulKept
  <2>4. Faithful(batch)'
    BY <2>1, <2>3 DEF Faithful, Live, WellFormed, Fits, Describes, Sequences
  <2> QED
    BY <1>1, <2>1, <2>4 DEF Log, BatchFollows
<1> QED
  BY <1>3, <1>4 DEF Log

\* A batch that is queued comes next, and covers what follows the checkpoint.
LEMMA LogQueued ==
  ASSUME TypeOK, TypeOK', Log, NEW d \in drafts, NEW sound \in BOOLEAN,
         Queueable(d), batch' = NewBatch(d, sound), event' = event,
         archived' = archived, bucket' = bucket
  PROVE  Log'
<1> USE DEF TypeOK
<1>1. Checkpoint' = Checkpoint /\ Checkpoint.last \in Nat
  <2>1. archived # <<>> => archived[Len(archived)] \in Sealed
    BY EmptySeq, ElementOfSeq
  <2> QED
    BY <2>1 DEF Checkpoint, Sealed, Manifests
<1>2. ArchivedOK'
  BY <1>1 DEF Log, ArchivedOK, Faithful, Live, WellFormed, Describes, Sequences
<1>3. d \in Drafts /\ d.manifest \in Manifests /\ d.manifest.generation \in 1..MaxBatches
  BY DEF Drafts, Manifests
<1>4. /\ batch'.revision = d.manifest.generation - 1 /\ batch'.manifest = d.manifest
      /\ batch'.items = d.items /\ batch'.sound = sound
  BY DEF NewBatch, Unleased
<1>5. /\ Candidate(d) /\ Complete(d)
      /\ d.manifest.generation = Len(archived) + 1 /\ d.manifest.from = Checkpoint.last
  BY DEF Queueable, Checkpoint
<1> DEFINE S == {s \in Live : d.manifest.from < s /\ s <= d.manifest.last}
<1>6. d.items = Snapshot(S)
  BY <1>5 DEF Complete
<1>7. Sequences(d.items) = S
  <2> HIDE DEF S
  <2>1. \A s \in S : Item(s) \in d.items /\ Item(s).sequence = s
    BY <1>6 DEF Snapshot, Item
  <2>2. \A i \in d.items : i.sequence \in S
    BY <1>6 DEF Snapshot, Item
  <2> QED
    BY <2>1, <2>2 DEF Sequences
<1>8. d.manifest.last <= Len(event)
  <2>1. Len(event) \in Nat /\ S \subseteq 1..Len(event)
    BY DEF Live
  <2>2. d.manifest.count = Cardinality(S) /\ d.manifest.last = Max(S)
        /\ d.manifest.count \in 1..MaxRecords
    BY <1>5, <1>7 DEF Candidate, Describes, WellFormed
  <2> HIDE DEF S
  <2>3. S # {}
    <3>1. Cardinality({}) = 0
      BY FS_EmptySet
    <3>2. Cardinality(S) # 0
      BY <2>2, ArchiveAssumption
    <3> QED
      BY <3>1, <3>2
  <2>4. Max(S) \in S
    BY <2>1, <2>3, Extremes
  <2> QED
    BY <2>1, <2>2, <2>4
<1>9. \A i \in d.items : i.who \in {"named", event[i.sequence]}
  BY <1>6 DEF Snapshot, Item
<1>10. Faithful(d)
  BY <1>5, <1>7, <1>8, <1>9 DEF Faithful, Candidate
<1>11. Faithful(batch)'
  BY <1>4, <1>10 DEF Faithful, Live
<1>12. BatchFollows'
  BY <1>1, <1>3, <1>4, <1>5, <1>11 DEF BatchFollows
<1> QED
  BY <1>2, <1>12 DEF Log

\* An archived batch moves the checkpoint over its range.
LEMMA LogAdvanced ==
  ASSUME TypeOK, TypeOK', Log, NEW time \in Nat, Advance(batch, time), batch # NoBatch,
         batch.sound, bucket[batch.revision] = "exact", event' = event, bucket' = bucket
  PROVE  Log'
<1> USE DEF TypeOK
<1>0. PICK n \in Nat : n = Len(archived) + 1
  OBVIOUS
<1>e. PICK e : e = [revision |-> batch.revision, manifest |-> batch.manifest,
                    items |-> batch.items, sound |-> batch.sound, time |-> time]
  OBVIOUS
<1>1. /\ batch \in Batches /\ batch.manifest \in Manifests /\ e \in Sealed
      /\ batch.manifest.last \in Nat /\ batch.manifest.from \in Nat
      /\ e.manifest = batch.manifest /\ e.items = batch.items
      /\ e.sound = batch.sound /\ e.revision = batch.revision
  BY <1>e DEF Batches, Sealed, Manifests
<1>2. /\ archived' = Append(archived, e) /\ batch' = NoBatch
      /\ Len(archived) \in Nat /\ Len(archived') = n /\ DOMAIN archived = 1..Len(archived)
      /\ DOMAIN archived' = 1..n /\ archived'[n] = e
      /\ \A m \in 1..Len(archived) : archived'[m] = archived[m]
  BY <1>0, <1>1, <1>e, AppendProperties DEF Advance
<1>3. /\ Checkpoint'.last = batch.manifest.last
      /\ batch.manifest.from = Checkpoint.last /\ batch.revision = n - 1
      /\ Faithful(batch)
  BY <1>0, <1>1, <1>2 DEF Log, BatchFollows, Checkpoint
<1>4. Checkpoint.last <= batch.manifest.last
  <2>1. batch.manifest.first \in Nat
    BY <1>1 DEF Manifests
  <2> QED
    BY <1>1, <1>3, <2>1 DEF Faithful, WellFormed
<1>5. Faithful(archived[n])'
  <2>1. Faithful(e)
    BY <1>1, <1>3 DEF Faithful
  <2>2. Faithful(e)'
    BY <2>1 DEF Faithful, Live
  <2> QED
    BY <1>2, <2>2 DEF Faithful
<1>6. ASSUME NEW m \in 1..Len(archived)
      PROVE  /\ archived[m] \in Sealed
             /\ archived[m].manifest.last \in Nat /\ archived[m].manifest.from \in Nat
             /\ archived[m].manifest.last <= Checkpoint.last
             /\ Faithful(archived[m])
  <2>1. archived[m] \in Sealed
    BY ElementOfSeq
  <2> QED
    BY <1>2, <2>1 DEF Sealed, Manifests, Log, ArchivedOK
<1>7. ASSUME NEW m \in DOMAIN archived'
      PROVE  /\ archived'[m].revision = m - 1 /\ bucket'[m - 1] = "exact"
             /\ archived'[m].sound /\ Faithful(archived[m])'
             /\ archived'[m].manifest.last <= Checkpoint'.last
  <2>1. CASE m = n
    <3>1. Faithful(archived[m])'
      BY <1>5, <2>1
    <3>2. archived'[m] = e /\ e.revision = m - 1 /\ bucket'[m - 1] = "exact"
      BY <1>1, <1>2, <1>3, <2>1
    <3>3. e.sound /\ e.manifest.last <= Checkpoint'.last
      BY <1>1, <1>3
    <3> QED
      BY <3>1, <3>2, <3>3
  <2>2. CASE m # n
    <3>1. m \in 1..Len(archived)
      BY <1>2, <1>7, <2>2
    <3>2. /\ archived[m].revision = m - 1 /\ bucket[m - 1] = "exact" /\ archived[m].sound
      BY <1>2, <3>1 DEF Log, ArchivedOK
    <3>3. Faithful(archived[m])'
      <4>1. PICK b : b = archived[m]
        OBVIOUS
      <4>2. Faithful(b)
        BY <1>6, <3>1, <4>1
      <4>3. Faithful(b)'
        BY <4>2 DEF Faithful, Live
      <4>4. archived'[m] = b
        BY <1>2, <3>1, <4>1
      <4> QED
        BY <4>3, <4>4 DEF Faithful
    <3>4. archived[m].manifest.last <= Checkpoint'.last
      BY <1>1, <1>3, <1>4, <1>6, <3>1, Checkpoint.last \in Nat
    <3>5. archived'[m] = archived[m]
      BY <1>2, <3>1
    <3> QED
      BY <3>2, <3>3, <3>4, <3>5
  <2> QED
    BY <2>1, <2>2
<1>8. ASSUME NEW m \in DOMAIN archived', NEW k \in DOMAIN archived', m < k
      PROVE  archived'[m].manifest.last <= archived'[k].manifest.from
  <2>1. m \in 1..Len(archived) /\ (k \in 1..Len(archived) \/ k = n)
    BY <1>2, <1>8
  <2>2. CASE k = n
    <3>1. m \in 1..Len(archived)
      BY <1>2, <1>8, <2>1, <2>2
    <3>2. archived'[m] = archived[m] /\ archived'[k] = e
      BY <1>2, <2>2, <3>1
    <3> QED
      BY <1>1, <1>3, <1>6, <3>1, <3>2
  <2>3. CASE k \in 1..Len(archived)
    <3>1. archived'[m] = archived[m] /\ archived'[k] = archived[k]
      BY <1>2, <2>1, <2>3
    <3>2. archived[m].manifest.last <= archived[k].manifest.from
      BY <1>2, <1>8, <2>1, <2>3 DEF Log, ArchivedOK
    <3> QED
      BY <3>1, <3>2
  <2> QED
    BY <2>1, <2>2, <2>3
<1>9. ASSUME NEW s \in 1..Checkpoint'.last
      PROVE  \E m \in DOMAIN archived' :
                archived'[m].manifest.from < s /\ s <= archived'[m].manifest.last
  <2>1. CASE s <= Checkpoint.last
    <3>1. s \in 1..Checkpoint.last
      BY <1>1, <1>3, <2>1
    <3>2. PICK m \in DOMAIN archived :
             archived[m].manifest.from < s /\ s <= archived[m].manifest.last
      BY <3>1 DEF Log, ArchivedOK
    <3> QED
      BY <1>2, <3>2
  <2>2. CASE ~(s <= Checkpoint.last)
    <3>1. n \in DOMAIN archived' /\ archived'[n] = e
      BY <1>2
    <3>2. e.manifest.from < s /\ s <= e.manifest.last
      BY <1>1, <1>3, <2>2
    <3> QED
      BY <3>1, <3>2
  <2> QED
    BY <2>1, <2>2
<1> QED
  BY <1>2, <1>7, <1>8, <1>9 DEF Log, ArchivedOK, BatchFollows

-----------------------------------------------------------------------------
(* The writers: what each may become                                       *)

\* The lease suits the batch as a step leaves it; its envelope has been opened.
Suits(w, l) ==
    /\ LeaseIsKnown(l)'
    /\ ForBatch(l)' => Now(w)' >= batch'.manifest.created
OpenedFor(l) == ForBatch(l)' => batch'.sound

\* A step of w leaves it well, and the others alone.
Good(w) ==
    /\ writer' \in [Writer -> States]
    /\ \A v \in Writer \ {w} : writer'[v] = writer[v]
    /\ WriterOK(w)' /\ Reports(w)'

LEMMA Clocks == ASSUME TypeOK, NEW w \in Writer PROVE Now(w) \in Nat
  BY ArchiveAssumption DEF TypeOK, Now

LEMMA Becoming ==
  ASSUME TypeOK, NEW w \in Writer, NEW me \in States, Becomes(w, me)
  PROVE  /\ writer' \in [Writer -> States] /\ writer'[w] = me
         /\ \A v \in Writer \ {w} : writer'[v] = writer[v]
  BY DEF TypeOK, Becomes

LEMMA BusyGood ==
  ASSUME TypeOK, NEW w \in Writer, NEW step \in {"start", "read", "put", "get"},
         NEW l \in Leases, NEW put \in Puts, Becomes(w, Busy(step, l, put)),
         Suits(w, l), step \in {"put", "get"} => OpenedFor(l)
  PROVE  Good(w)
<1> DEFINE me == Busy(step, l, put)
<1>1. me \in States /\ me.at = step /\ me.lease = l
  BY DEF Busy, States, Working
<1>2. /\ writer' \in [Writer -> States] /\ writer'[w] = me
      /\ \A v \in Writer \ {w} : writer'[v] = writer[v]
  BY <1>1, Becoming
<1>3. WriterOK(w)'
  BY <1>1, <1>2 DEF WriterOK, HasOpened, Suits, OpenedFor
<1>4. Reports(w)'
  BY <1>1, <1>2 DEF Reports
<1> QED
  BY <1>2, <1>3, <1>4 DEF Good

LEMMA RenewingGood ==
  ASSUME TypeOK, NEW w \in Writer, NEW step \in {"renew", "beaten", "unsure"},
         NEW l \in Leases, NEW next \in {"read", "put", "get"}, NEW put \in Puts,
         NEW time \in Nat, NEW tries \in 0..2, NEW adoptions \in 0..1,
         Becomes(w, Renewing(step, l, next, put, time, tries, adoptions)),
         Suits(w, l), ForBatch(l)' => time >= batch'.manifest.created,
         next \in {"put", "get"} => OpenedFor(l)
  PROVE  Good(w)
<1> DEFINE me == Renewing(step, l, next, put, time, tries, adoptions)
<1>1. me \in States /\ me.at = step /\ me.lease = l /\ me.next = next /\ me.time = time
  BY DEF Renewing, States, Extending
<1>2. /\ writer' \in [Writer -> States] /\ writer'[w] = me
      /\ \A v \in Writer \ {w} : writer'[v] = writer[v]
  BY <1>1, Becoming
<1>3. WriterOK(w)'
  BY <1>1, <1>2 DEF WriterOK, HasOpened, Suits, OpenedFor
<1>4. Reports(w)'
  BY <1>1, <1>2 DEF Reports
<1> QED
  BY <1>2, <1>3, <1>4 DEF Good

LEMMA EndingGood ==
  ASSUME TypeOK, NEW w \in Writer, NEW l \in Leases, NEW end \in Ends, NEW time \in Nat,
         NEW tries \in 1..2, NEW applied \in BOOLEAN,
         Becomes(w, Ending(l, end, time, tries, applied)),
         Suits(w, l), ForBatch(l)' => time >= batch'.manifest.created,
         Valid(end, l, time), AttemptCheck(end, l),
         end.outcome = "archived" => OpenedFor(l) /\ bucket'[l.revision] = "exact",
         applied = TRUE => [attempt |-> Attempt(l), outcome |-> end.outcome] \in ledger'
  PROVE  Good(w)
<1> DEFINE me == Ending(l, end, time, tries, applied)
<1>1. /\ me \in States /\ me.at = "settle" /\ me.lease = l /\ me.end = end
      /\ me.time = time /\ me.applied = applied
  BY DEF Ending, States, Settling
<1>2. /\ writer' \in [Writer -> States] /\ writer'[w] = me
      /\ \A v \in Writer \ {w} : writer'[v] = writer[v]
  BY <1>1, Becoming
<1>3. Receipt(w)' = [attempt |-> Attempt(l), outcome |-> end.outcome]
  BY <1>1, <1>2 DEF Receipt, Attempt
<1>4. Valid(writer[w].end, writer[w].lease, writer[w].time)'
      /\ AttemptCheck(writer[w].end, writer[w].lease)'
  BY <1>1, <1>2 DEF Valid, AttemptCheck
<1>5. WriterOK(w)'
  BY <1>1, <1>2, <1>3, <1>4 DEF WriterOK, HasOpened, Suits, OpenedFor
<1>6. Reports(w)'
  BY <1>1, <1>2 DEF Reports
<1> QED
  BY <1>2, <1>5, <1>6 DEF Good

LEMMA SilentGood ==
  ASSUME TypeOK, NEW w \in Writer, Silent(w)
  PROVE  Good(w)
<1>1. Idle \in States /\ Idle.at = "idle" /\ Idle.said = {}
  BY DEF Idle, States, Resting
<1>2. /\ writer' \in [Writer -> States] /\ writer'[w] = Idle
      /\ \A v \in Writer \ {w} : writer'[v] = writer[v]
  BY <1>1, Becoming DEF Silent
<1> QED
  BY <1>1, <1>2 DEF Good, WriterOK, Reports

\* A writer tells its caller what the ledger has of its attempt.
LEMMA ToldGood ==
  ASSUME TypeOK, NEW w \in Writer, NEW outcome \in Outcomes, Told(w, outcome),
         writer[w].lease \in Leases,
         [attempt |-> Attempt(writer[w].lease), outcome |-> outcome] \in ledger'
  PROVE  Good(w)
<1> DEFINE r == [attempt |-> Attempt(writer[w].lease), outcome |-> outcome]
<1> DEFINE me == [at |-> "idle", said |-> {r}]
<1>1. r \in Receipts
  BY DEF Receipts, Attempts, Attempt, Leases
<1>2. me \in States /\ me.at = "idle" /\ me.said = {r}
  BY <1>1 DEF States, Resting
<1>3. Becomes(w, me)
  BY DEF Told, Outcomes
<1>4. /\ writer' \in [Writer -> States] /\ writer'[w] = me
      /\ \A v \in Writer \ {w} : writer'[v] = writer[v]
  BY <1>2, <1>3, Becoming
<1>5. Reports(w)'
  BY <1>2, <1>4 DEF Reports
<1> QED
  BY <1>2, <1>4, <1>5 DEF Good, WriterOK

LEMMA IntendsGood ==
  ASSUME TypeOK, NEW w \in Writer, NEW l \in Leases, NEW end \in Intended,
         Intends(w, l, end), clock' = clock, Suits(w, l),
         end = Expired => Now(w) >= l.expires,
         end = Exact => OpenedFor(l) /\ bucket'[l.revision] = "exact"
  PROVE  Good(w)
<1>1. Now(w) \in Nat /\ Now(w)' = Now(w)
  BY Clocks DEF Now
<1> DEFINE e == Ended(l, end, Now(w))
<1>2. /\ e \in Ends /\ Valid(e, l, Now(w)) /\ AttemptCheck(e, l)
      /\ e.outcome = "archived" => end = Exact
  BY <1>1, EndedSound
<1>3. Becomes(w, Ending(l, e, Now(w), 2, FALSE))
  BY DEF Intends
<1>4. ForBatch(l)' => Now(w) >= batch'.manifest.created
  BY <1>1 DEF Suits
<1>5. e.outcome = "archived" => OpenedFor(l) /\ bucket'[l.revision] = "exact"
  BY <1>2
<1> HIDE DEF e
<1>6. 2 \in 1..2 /\ FALSE \in BOOLEAN /\ FALSE # TRUE
  OBVIOUS
<1> QED
  BY <1>1, <1>2, <1>3, <1>4, <1>5, <1>6, EndingGood

LEMMA ReadyGood ==
  ASSUME TypeOK, NEW w \in Writer, NEW l \in Leases, NEW next \in {"read", "put", "get"},
         NEW put \in Puts, NEW left \in 0..1,
         Ready(w, l, next, put, left), clock' = clock, Suits(w, l),
         next \in {"put", "get"} => OpenedFor(l)
  PROVE  Good(w)
<1>1. Now(w) \in Nat /\ Now(w)' = Now(w)
  BY Clocks DEF Now
<1>2. CASE Now(w) >= l.expires
  <2>1. Intends(w, l, Expired)
    BY <1>2 DEF Ready
  <2>2. Expired \in Intended /\ Expired # Exact
    BY DEF Intended, Expired, Exact, End
  <2> QED
    BY <1>2, <2>1, <2>2, IntendsGood
<1>3. CASE ~(Now(w) >= l.expires) /\ l.expires - Now(w) >= RenewBelow
  <2>1. Becomes(w, Busy(next, l, put))
    BY <1>3 DEF Ready
  <2>2. next \in {"start", "read", "put", "get"}
    OBVIOUS
  <2> QED
    BY <2>1, <2>2, BusyGood
<1>4. CASE ~(Now(w) >= l.expires) /\ ~(l.expires - Now(w) >= RenewBelow)
  <2>1. Becomes(w, Renewing("renew", l, next, put, Now(w), 2, left))
    BY <1>4 DEF Ready
  <2>2. ForBatch(l)' => Now(w) >= batch'.manifest.created
    BY <1>1 DEF Suits
  <2> QED
    BY <1>1, <2>1, <2>2, RenewingGood
<1> QED
  BY <1>2, <1>3, <1>4

-----------------------------------------------------------------------------
(* The writers: what the others may do meanwhile                           *)

\* The batch stays, comes to be, or is archived.
BatchMoves ==
    \/ SameBatch /\ archived' = archived
    \/ /\ batch = NoBatch /\ batch' # NoBatch
       /\ batch'.revision = Len(archived) /\ archived' = archived
    \/ batch # NoBatch /\ batch' = NoBatch /\ Len(archived') = Len(archived) + 1

\* A lease of an archived batch is never one of a later batch.
LEMMA LeaseKept ==
  ASSUME TypeOK, Log, BatchMoves, NEW l \in Leases, LeaseIsKnown(l)
  PROVE  /\ LeaseIsKnown(l)'
         /\ ForBatch(l)' => /\ ForBatch(l)
                            /\ batch'.manifest = batch.manifest /\ batch'.sound = batch.sound
<1>1. Len(archived) \in Nat /\ l.revision \in Nat
  BY ArchiveAssumption DEF TypeOK, Leases
<1>2. batch # NoBatch => batch.revision = Len(archived)
  BY DEF Log, BatchFollows
<1>3. CASE SameBatch /\ archived' = archived
  BY <1>1, <1>3 DEF SameBatch, LeaseIsKnown, ForBatch
<1>4. CASE /\ batch = NoBatch /\ batch' # NoBatch
           /\ batch'.revision = Len(archived) /\ archived' = archived
  BY <1>1, <1>4 DEF LeaseIsKnown, ForBatch
<1>5. CASE batch # NoBatch /\ batch' = NoBatch /\ Len(archived') = Len(archived) + 1
  BY <1>1, <1>2, <1>5 DEF LeaseIsKnown, ForBatch
<1> QED
  BY <1>3, <1>4, <1>5 DEF BatchMoves

\* What a writer that is at work knows of its own lease.
LEMMA OwnLease ==
  ASSUME TypeOK, Log, Writers, BatchMoves, clock' \in Nat, clock <= clock',
         NEW w \in Writer, writer[w].at # "idle", NEW l, l = writer[w].lease
  PROVE  /\ l \in Leases
         /\ Suits(w, l)
         /\ HasOpened(writer[w]) => OpenedFor(l)
         /\ writer[w].at \in {"renew", "beaten", "unsure", "settle"} =>
               /\ writer[w].time \in Nat
               /\ ForBatch(l)' => writer[w].time >= batch'.manifest.created
<1>1. writer[w] \in States
  BY DEF TypeOK
<1>2. l \in Leases /\ (writer[w].at \in {"renew", "beaten", "unsure", "settle"} => writer[w].time \in Nat)
  BY <1>1 DEF States, Resting, Working, Extending, Settling
<1>3. WriterOK(w)
  BY DEF Writers
<1>4. LeaseIsKnown(l)
  BY <1>3 DEF WriterOK
<1>5. /\ LeaseIsKnown(l)'
      /\ ForBatch(l)' => /\ ForBatch(l)
                         /\ batch'.manifest = batch.manifest /\ batch'.sound = batch.sound
  BY <1>2, <1>4, LeaseKept
<1>6. Now(w) \in Nat /\ Now(w)' \in Nat /\ Now(w) <= Now(w)'
  BY ArchiveAssumption DEF TypeOK, Now
<1>7. ForBatch(l) => batch.manifest.created \in Nat
  BY DEF ForBatch, TypeOK, Batches, Manifests
<1>8. ForBatch(l)' => /\ Now(w)' >= batch'.manifest.created
                      /\ (HasOpened(writer[w]) => batch'.sound)
                      /\ (writer[w].at \in {"renew", "beaten", "unsure", "settle"}
                            => writer[w].time >= batch'.manifest.created)
  BY <1>3, <1>5, <1>6, <1>7 DEF WriterOK
<1>9. Suits(w, l) /\ (HasOpened(writer[w]) => OpenedFor(l))
  BY <1>5, <1>8 DEF Suits, OpenedFor
<1> QED
  BY <1>2, <1>8, <1>9

\* Nobody takes from a writer what it knows.
LEMMA OthersKept ==
  ASSUME TypeOK, Log, Writers, BatchMoves, BucketKept, ledger \subseteq ledger',
         clock' \in Nat, clock <= clock', NEW v \in Writer, writer'[v] = writer[v]
  PROVE  WriterOK(v)' /\ Reports(v)'
<1>1. WriterOK(v) /\ Reports(v) /\ writer[v] \in States
  BY DEF Writers, TypeOK
<1>2. Reports(v)'
  BY <1>1 DEF Reports
<1>3. PICK me : me = writer[v]
  OBVIOUS
<1>4. ASSUME me.at # "idle"
      PROVE  WriterOK(v)'
  <2>1. PICK l : l = me.lease
    OBVIOUS
  <2>2. /\ l \in Leases /\ Suits(v, l) /\ (HasOpened(me) => OpenedFor(l))
        /\ me.at \in {"renew", "beaten", "unsure", "settle"} /\ ForBatch(l)'
              => me.time >= batch'.manifest.created
    BY <1>3, <1>4, <2>1, OwnLease
  <2>3. ASSUME me.at = "settle"
        PROVE  /\ Valid(me.end, l, me.time) /\ AttemptCheck(me.end, l)
               /\ me.end.outcome = "archived" => bucket'[l.revision] = "exact"
               /\ me.applied => Receipt(v)' \in ledger'
    <3>1. /\ Valid(me.end, l, me.time) /\ AttemptCheck(me.end, l)
          /\ me.end.outcome = "archived" => bucket[l.revision] = "exact"
          /\ me.applied => Receipt(v) \in ledger
      BY <1>1, <1>3, <2>1, <2>3 DEF WriterOK
    <3>2. l.revision \in 0..MaxBatches
      BY <2>2, ArchiveAssumption DEF Leases
    <3>3. Receipt(v)' = Receipt(v)
      BY DEF Receipt, Attempt
    <3> QED
      BY <3>1, <3>2, <3>3 DEF BucketKept
  <2>4. writer'[v] = me /\ me.lease = l
    BY <1>3, <2>1
  <2> QED
    BY <1>3, <2>1, <2>2, <2>3, <2>4 DEF WriterOK, Suits, OpenedFor, HasOpened
<1>5. CASE me.at = "idle"
  BY <1>2, <1>3, <1>5 DEF WriterOK
<1> QED
  BY <1>2, <1>4, <1>5

LEMMA WritersKept ==
  ASSUME TypeOK, Log, Writers, BatchMoves, BucketKept, ledger \subseteq ledger',
         clock' \in Nat, clock <= clock', writer' = writer
  PROVE  Writers'
  BY OthersKept DEF Writers

LEMMA WritersStep ==
  ASSUME TypeOK, Log, Writers, BatchMoves, BucketKept, ledger \subseteq ledger',
         clock' \in Nat, clock <= clock', NEW w \in Writer, Good(w)
  PROVE  Writers' /\ writer' \in [Writer -> States]
<1>1. ASSUME NEW v \in Writer PROVE WriterOK(v)' /\ Reports(v)'
  <2>1. CASE v = w
    BY <2>1 DEF Good
  <2>2. CASE v # w
    <3>1. writer'[v] = writer[v]
      BY <2>2 DEF Good
    <3> QED
      BY <3>1, OthersKept
  <2> QED
    BY <2>1, <2>2
<1> QED
  BY <1>1 DEF Writers, Good

-----------------------------------------------------------------------------
(* Steps that leave the row of the batch alone                             *)

LEMMA FaultType == ASSUME TypeOK, Fault \/ NoFault PROVE faults' \in Nat
  BY DEF TypeOK, Fault, NoFault

\* The log, the bucket or the clock moves, or a writer.
LEMMA StillStep ==
  ASSUME IInv, TypeOK', Grows, BucketKept, UNCHANGED <<batch, archived, ledger>>,
         clock <= clock', writer' = writer \/ \E w \in Writer : Good(w)
  PROVE  IInv'
<1> USE DEF IInv
<1>1. SameBatch /\ BatchMoves
  BY DEF SameBatch, BatchMoves
<1>2. Log'
  BY <1>1, LogKept
<1>3. Rows'
  BY DEF Rows, BatchCheck, Held, WellFormed
<1>4. clock' \in Nat
  BY DEF TypeOK
<1>5. Writers'
  BY <1>1, <1>4, WritersKept, WritersStep
<1> QED
  BY <1>2, <1>3, <1>5

LEMMA SourceStep ==
  ASSUME IInv, Tick \/ Record \/ Forget \/ Initialize \/ Prepare \/ Intrude
  PROVE  IInv'
<1> USE DEF IInv
<1>0. /\ Len(event) \in Nat /\ event \in [1..Len(event) -> Who] /\ DOMAIN event = 1..Len(event)
      /\ clock \in Nat
  BY DEF TypeOK
<1>1. CASE Tick
  <2>1. TypeOK'
    BY <1>1 DEF Tick, TypeOK, source
  <2>2. Grows /\ BucketKept
    BY <1>0, <1>1 DEF Tick, source, Grows, BucketKept
  <2>3. clock <= clock'
    BY <1>0, <1>1 DEF Tick
  <2> QED
    BY <1>1, <2>1, <2>2, <2>3, StillStep DEF Tick
<1>2. CASE Record
  <2>1. PICK who \in {"named", "compensated"} : event' = Append(event, who)
    BY <1>2 DEF Record
  <2>2. who \in Who
    BY DEF Who
  <2>3. /\ event' \in Seq(Who) /\ Len(event') = Len(event) + 1
        /\ \A s \in 1..Len(event) : event'[s] = event[s]
    BY <2>1, <2>2, AppendProperties DEF TypeOK
  <2>4. TypeOK'
    BY <1>2, <2>3 DEF Record, TypeOK
  <2>5. Grows /\ BucketKept
    BY <1>0, <1>2, <2>3 DEF Record, Grows, BucketKept
  <2>6. UNCHANGED <<batch, archived, ledger>> /\ clock' = clock /\ writer' = writer
    BY <1>2 DEF Record
  <2> QED
    BY <1>0, <2>4, <2>5, <2>6, StillStep
<1>3. CASE Forget
  <2>1. PICK s \in DOMAIN event :
           event[s] = "named" /\ event' = [event EXCEPT ![s] = "anonymous"]
    BY <1>3 DEF Forget
  <2>2. /\ event' \in Seq(Who) /\ Len(event') = Len(event)
        /\ \A t \in 1..Len(event) : event'[t] = IF t = s THEN "anonymous" ELSE event[t]
    <3>1. "anonymous" \in Who /\ s \in 1..Len(event) /\ event \in Seq(Who)
      BY <1>0 DEF Who, TypeOK
    <3> QED
      BY <2>1, <3>1, ExceptSeq
  <2>3. TypeOK'
    BY <1>3, <2>2, FaultType DEF Forget, TypeOK
  <2>4. Grows /\ BucketKept
    BY <1>0, <1>3, <2>1, <2>2 DEF Forget, Grows, BucketKept
  <2>5. UNCHANGED <<batch, archived, ledger>> /\ clock' = clock /\ writer' = writer
    BY <1>3 DEF Forget
  <2> QED
    BY <1>0, <2>3, <2>4, <2>5, StillStep
<1>4. CASE Initialize
  <2>1. TypeOK'
    BY <1>4 DEF Initialize, TypeOK
  <2>2. Grows /\ BucketKept
    BY <1>0, <1>4 DEF Initialize, Grows, BucketKept
  <2>3. UNCHANGED <<batch, archived, ledger>> /\ clock' = clock /\ writer' = writer
    BY <1>4 DEF Initialize
  <2> QED
    BY <1>0, <2>1, <2>2, <2>3, StillStep
<1>5. CASE Prepare
  <2>1. Live \subseteq 1..Len(event) /\ Largest \subseteq 1..Len(event)
    BY <1>0 DEF Largest, Window, Following, Live
  <2>2. Largest # {}
    BY <1>5 DEF Prepare
  <2>3. Min(Largest) \in Nat /\ Max(Largest) \in Nat /\ Cardinality(Largest) \in Nat
    <3> HIDE DEF IInv
    <3>1. Min(Largest) \in Largest /\ Max(Largest) \in Largest /\ Cardinality(Largest) \in Nat
      BY <1>0, <2>1, <2>2, Extremes
    <3>2. Min(Largest) \in 1..Len(event) /\ Max(Largest) \in 1..Len(event)
      BY <2>1, <3>1, Zenon
    <3> QED
      BY <1>0, <3>1, <3>2
  <2>4. Checkpoint.revision + 1 \in 1..MaxBatches /\ Checkpoint.last \in Nat
    <3>1. archived # <<>> => archived[Len(archived)] \in Sealed
      BY EmptySeq, ElementOfSeq DEF TypeOK
    <3>2. Len(archived) \in Nat /\ Len(archived) < MaxBatches
      BY <1>5 DEF Prepare, TypeOK
    <3> QED
      BY <3>1, <3>2, ArchiveAssumption DEF Checkpoint, Sealed, Manifests
  <2>5. Manifest(Largest, clock) \in Manifests
    BY <1>0, <2>3, <2>4 DEF Manifest, Manifests
  <2>6. Snapshot(Largest) \in SUBSET Items
    <3>1. ASSUME NEW s \in 1..Len(event) PROVE Item(s) \in Items
      BY <1>0 DEF Item, Items
    <3> QED
      BY <2>1, <3>1 DEF Snapshot
  <2>7. [manifest |-> Manifest(Largest, clock), items |-> Snapshot(Largest)] \in Drafts
    BY <2>5, <2>6 DEF Drafts
  <2>8. TypeOK'
    BY <1>5, <2>7 DEF Prepare, TypeOK
  <2>9. Grows /\ BucketKept
    BY <1>0, <1>5 DEF Prepare, Grows, BucketKept
  <2>10. UNCHANGED <<batch, archived, ledger>> /\ clock' = clock /\ writer' = writer
    BY <1>5 DEF Prepare
  <2> QED
    BY <1>0, <2>8, <2>9, <2>10, StillStep
<1>6. CASE Intrude
  <2>1. PICK o \in {"relabelled", "different"} : bucket' = [bucket EXCEPT ![batch.revision] = o]
    BY <1>6 DEF Intrude
  <2>2. bucket[batch.revision] = "none" /\ event' = event
    BY <1>6 DEF Intrude, source
  <2>3. bucket' \in [0..MaxBatches -> Objects] /\ BucketKept
    BY <2>1, <2>2 DEF TypeOK, Objects, BucketKept
  <2>4. TypeOK'
    BY <1>6, <2>3, FaultType DEF Intrude, TypeOK, source
  <2>5. Grows
    BY <1>0, <2>2 DEF Grows
  <2>6. UNCHANGED <<batch, archived, ledger>> /\ clock' = clock /\ writer' = writer
    BY <1>6 DEF Intrude
  <2> QED
    BY <1>0, <2>3, <2>4, <2>5, <2>6, StillStep
<1> QED
  BY <1>1, <1>2, <1>3, <1>4, <1>5, <1>6

\* Most calls of a writer move only the writer.
LEMMA WriterStep ==
  ASSUME IInv, NEW w \in Writer, Good(w), faults' \in Nat,
         UNCHANGED <<source, batch, archived, ledger, bucket, clock>>
  PROVE  IInv'
<1>1. TypeOK'
  BY DEF IInv, TypeOK, source, Good
<1>2. Grows /\ BucketKept /\ clock <= clock'
  BY DEF IInv, TypeOK, source, Grows, BucketKept
<1> QED
  BY <1>1, <1>2, StillStep DEF source

-----------------------------------------------------------------------------
(* Calls of a writer that leave the row of the batch alone                 *)

LEMMA EndsIntended ==
  /\ Transient \in Intended /\ Transient # Expired /\ Transient # Exact
  /\ Exact \in Intended /\ Exact # Expired
  /\ Corrupt("crypto_integrity", "nothing") \in Intended
  /\ Corrupt("crypto_integrity", "nothing") # Expired
  /\ Corrupt("crypto_integrity", "nothing") # Exact
  BY DEF Intended, Transient, Expired, Exact, Corrupt, End

\* The lease of the row, as it is and as it was acquired.
LEMMA HeldFacts ==
  ASSUME TypeOK, Rows, Held
  PROVE  /\ batch # NoBatch /\ batch \in Batches /\ batch.attempts \in 1..MaxAttempts
         /\ LeaseOf(batch) \in Leases /\ LeaseOf(batch).revision = batch.revision
         /\ Acquired(batch) \in Leases /\ Acquired(batch).revision = batch.revision
         /\ batch.started >= batch.manifest.created /\ batch.expires >= batch.manifest.created
         /\ batch.manifest.created \in Nat
<1>1. batch # NoBatch /\ batch \in Batches
  BY DEF Held, NoBatch, TypeOK
<1>2. batch.attempts \in 1..MaxAttempts
  BY <1>1 DEF Held, Rows, BatchCheck
<1>3. batch.started >= batch.manifest.created /\ batch.expires >= batch.manifest.created
  BY <1>1 DEF Rows
<1>4. batch.manifest.created \in Nat
  BY <1>1 DEF Batches, Manifests
<1>5. LeaseOf(batch) \in Leases /\ LeaseOf(batch).revision = batch.revision
  BY <1>1, <1>2 DEF LeaseOf, Lease, Leases, Batches
<1>6. Acquired(batch) \in Leases /\ Acquired(batch).revision = batch.revision
  BY <1>1, <1>2, ArchiveAssumption DEF Acquired, Lease, Leases, Batches
<1> QED
  BY <1>1, <1>2, <1>3, <1>4, <1>5, <1>6

\* A lease of the row suits whoever has a clock that is not before it.
LEMMA RowSuits ==
  ASSUME batch' # NoBatch, NEW w, NEW l, l.revision = batch'.revision,
         Now(w)' >= batch'.manifest.created
  PROVE  Suits(w, l)
  BY DEF Suits, LeaseIsKnown, ForBatch

LEMMA ResumeSweepStep ==
  ASSUME IInv, NEW w \in Writer, Resume(w) \/ Sweep(w)
  PROVE  IInv'
<1> USE DEF IInv
<1>1. /\ Held /\ UNCHANGED <<source, batch, archived, ledger, bucket, clock>> /\ faults' \in Nat
      /\ Now(w) \in Nat /\ Now(w)' = Now(w)
  BY Clocks DEF Resume, Sweep, TypeOK, Now
<1>2. Good(w)
  <2>1. CASE Resume(w)
    <3>1. PICK l : l = Acquired(batch)
      OBVIOUS
    <3>2. l \in Leases /\ l.revision = batch.revision
      BY <1>1, <3>1, HeldFacts
    <3>3. Now(w)' >= batch'.manifest.created /\ batch' # NoBatch
      BY <1>1, <2>1, HeldFacts DEF Resume, Batches
    <3>4. Suits(w, l)
      BY <1>1, <3>2, <3>3, RowSuits
    <3>5. Becomes(w, Busy("start", l, "none"))
      BY <2>1, <3>1 DEF Resume
    <3>6. "none" \in Puts /\ "start" \in {"start", "read", "put", "get"}
      BY DEF Puts
    <3> QED
      BY <3>2, <3>4, <3>5, <3>6, BusyGood
  <2>2. CASE Sweep(w)
    <3>1. PICK l : l = LeaseOf(batch)
      OBVIOUS
    <3>2. l \in Leases /\ l.revision = batch.revision /\ l.expires = batch.expires
      BY <1>1, <3>1, HeldFacts DEF LeaseOf, Lease
    <3>3. Now(w) >= l.expires /\ Now(w)' >= batch'.manifest.created /\ batch' # NoBatch
      BY <1>1, <2>2, <3>2, HeldFacts DEF Sweep, Batches
    <3>4. Suits(w, l)
      BY <1>1, <3>2, <3>3, RowSuits
    <3>5. Becomes(w, Ending(l, Expired, Now(w), 2, FALSE))
      BY <2>2, <3>1 DEF Sweep
    <3>6. Intends(w, l, Expired)
      BY <3>3, <3>5 DEF Intends, Ended
    <3>7. Expired \in Intended /\ Expired # Exact
      BY EndsIntended DEF Intended
    <3> QED
      BY <1>1, <3>2, <3>3, <3>4, <3>6, <3>7, IntendsGood
  <2> QED
    BY <2>1, <2>2
<1> QED
  BY <1>1, <1>2, WriterStep

\* A writer at work whose call leaves the row alone.
LEMMA AtWork ==
  ASSUME IInv, NEW w \in Writer, writer[w].at # "idle", NEW l, l = writer[w].lease,
         UNCHANGED <<batch, archived, clock>>
  PROVE  /\ l \in Leases /\ Suits(w, l)
         /\ HasOpened(writer[w]) => OpenedFor(l)
  BY OwnLease DEF IInv, TypeOK, BatchMoves, SameBatch

\* It may take over the lease of the row when that is of its own attempt.
LEMMA TakenOver ==
  ASSUME IInv, NEW w \in Writer, NEW l, NEW k, SameFence(l), k = LeaseOf(batch),
         batch' = batch, clock' = clock, Suits(w, l)
  PROVE  k \in Leases /\ Suits(w, k) /\ (OpenedFor(l) => OpenedFor(k))
<1> USE DEF IInv
<1>1. k \in Leases /\ k.revision = batch.revision /\ batch # NoBatch /\ Held
  BY HeldFacts DEF SameFence
<1>2. l.revision = batch.revision
  BY <1>1 DEF SameFence, Attempt
<1>3. ForBatch(l)' /\ Now(w)' >= batch'.manifest.created
  BY <1>1, <1>2 DEF Suits, ForBatch
<1>4. Suits(w, k)
  BY <1>1, <1>3, RowSuits
<1> QED
  BY <1>1, <1>3, <1>4 DEF OpenedFor

LEMMA AdoptStep ==
  ASSUME IInv, NEW w \in Writer, Adopt(w)
  PROVE  IInv'
<1> USE DEF IInv
<1>1. /\ writer[w].at = "start" /\ faults' \in Nat
      /\ UNCHANGED <<source, batch, archived, ledger, bucket, clock>>
  BY FaultType DEF Adopt
<1>2. PICK l : l = writer[w].lease
  OBVIOUS
<1>3. l \in Leases /\ Suits(w, l)
  BY <1>1, <1>2, AtWork
<1>4. CASE Intends(w, l, Transient)
  BY <1>1, <1>3, <1>4, IntendsGood, EndsIntended, WriterStep
<1>5. CASE Told(w, "lease_lost")
  BY <1>1, <1>5, SilentGood, WriterStep DEF Told
<1>6. CASE Adoptable(l, Now(w)) /\ Ready(w, LeaseOf(batch), "read", "none", 1)
  <2>1. PICK k : k = LeaseOf(batch)
    OBVIOUS
  <2>2. k \in Leases /\ Suits(w, k)
    BY <1>1, <1>3, <1>6, <2>1, TakenOver DEF Adoptable
  <2>3. Ready(w, k, "read", "none", 1) /\ "none" \in Puts /\ 1 \in 0..1
        /\ "read" \in {"read", "put", "get"} /\ "read" \notin {"put", "get"}
    BY <1>6, <2>1 DEF Puts
  <2> QED
    BY <1>1, <2>2, <2>3, ReadyGood, WriterStep
<1> QED
  BY <1>2, <1>4, <1>5, <1>6 DEF Adopt

LEMMA ReadLeaseStep ==
  ASSUME IInv, NEW w \in Writer, ReadLease(w)
  PROVE  IInv'
<1> USE DEF IInv
<1>1. /\ writer[w].at \in {"beaten", "unsure"} /\ faults' \in Nat
      /\ UNCHANGED <<source, batch, archived, ledger, bucket, clock>>
  BY FaultType DEF ReadLease
<1>2. PICK l : l = writer[w].lease
  OBVIOUS
<1>3. l \in Leases /\ Suits(w, l) /\ (HasOpened(writer[w]) => OpenedFor(l))
  BY <1>1, <1>2, AtWork
<1>4. CASE Intends(w, l, Transient)
  BY <1>1, <1>3, <1>4, IntendsGood, EndsIntended, WriterStep
<1>5. CASE Told(w, "lease_lost")
  BY <1>1, <1>5, SilentGood, WriterStep DEF Told
<1>6. CASE Adoptable(l, writer[w].time)
           /\ Ready(w, LeaseOf(batch), writer[w].next, writer[w].put, 0)
  <2>1. PICK k : k = LeaseOf(batch)
    OBVIOUS
  <2>2. k \in Leases /\ Suits(w, k) /\ (OpenedFor(l) => OpenedFor(k))
    BY <1>1, <1>3, <1>6, <2>1, TakenOver DEF Adoptable
  <2>3. PICK next, put : next = writer[w].next /\ put = writer[w].put
    OBVIOUS
  <2>4. next \in {"read", "put", "get"} /\ put \in Puts
    <3>1. writer[w] \in States
      BY DEF TypeOK
    <3> QED
      BY <1>1, <2>3, <3>1 DEF States, Resting, Working, Extending, Settling
  <2>5. next \in {"put", "get"} => OpenedFor(k)
    BY <1>1, <1>3, <2>2, <2>3 DEF HasOpened
  <2>6. Ready(w, k, next, put, 0) /\ 0 \in 0..1
    BY <1>6, <2>1, <2>3
  <2> QED
    BY <1>1, <2>2, <2>4, <2>5, <2>6, ReadyGood, WriterStep
<1> QED
  BY <1>2, <1>4, <1>5, <1>6 DEF ReadLease

LEMMA ReadStep ==
  ASSUME IInv, NEW w \in Writer, Read(w)
  PROVE  IInv'
<1> USE DEF IInv
<1>1. /\ writer[w].at = "read" /\ faults' \in Nat
      /\ UNCHANGED <<source, batch, archived, ledger, bucket, clock>>
  BY FaultType DEF Read
<1>2. PICK l : l = writer[w].lease
  OBVIOUS
<1>3. l \in Leases /\ Suits(w, l)
  BY <1>1, <1>2, AtWork
<1>4. CASE Intends(w, l, Transient)
  BY <1>1, <1>3, <1>4, IntendsGood, EndsIntended, WriterStep
<1>5. CASE Told(w, "lease_lost")
  BY <1>1, <1>5, SilentGood, WriterStep DEF Told
<1>6. CASE Intends(w, l, Corrupt("crypto_integrity", "nothing"))
  BY <1>1, <1>3, <1>6, IntendsGood, EndsIntended, WriterStep
<1>7. CASE Verified(batch) /\ Ready(w, l, "put", "none", 1)
  <2>1. OpenedFor(l)
    BY <1>1, <1>7 DEF OpenedFor, Verified, Opens
  <2>2. "none" \in Puts /\ 1 \in 0..1 /\ "put" \in {"read", "put", "get"}
    BY DEF Puts
  <2> QED
    BY <1>1, <1>3, <1>7, <2>1, <2>2, ReadyGood, WriterStep
<1> QED
  BY <1>2, <1>4, <1>5, <1>6, <1>7 DEF Read

LEMMA GetStep ==
  ASSUME IInv, NEW w \in Writer, Get(w)
  PROVE  IInv'
<1> USE DEF IInv
<1>1. /\ writer[w].at = "get" /\ faults' \in Nat
      /\ UNCHANGED <<source, batch, archived, ledger, bucket, clock>>
  BY FaultType DEF Get
<1>2. PICK l : l = writer[w].lease
  OBVIOUS
<1>3. l \in Leases /\ Suits(w, l) /\ OpenedFor(l)
  BY <1>1, <1>2, AtWork DEF HasOpened
<1>4. CASE Intends(w, l, Transient)
  BY <1>1, <1>3, <1>4, IntendsGood, EndsIntended, WriterStep
<1>5. CASE \E seen \in Readable(bucket[l.revision]) :
              Intends(w, l, Mismatch(writer[w].put = "created", seen))
  <2>1. PICK seen \in {"full", "partial"} :
           Intends(w, l, Mismatch(writer[w].put = "created", seen))
    BY <1>5 DEF Readable
  <2>2. PICK created \in BOOLEAN : created = (writer[w].put = "created")
    OBVIOUS
  <2>3. PICK end : end = Mismatch(created, seen)
    OBVIOUS
  <2>4. end \in Intended /\ end # Expired /\ end # Exact
    BY <2>3, MismatchIntended
  <2>5. Intends(w, l, end)
    BY <2>1, <2>2, <2>3
  <2> QED
    BY <1>1, <1>3, <2>4, <2>5, IntendsGood, WriterStep
<1>6. CASE ExactReadback(bucket[l.revision]) /\ Intends(w, l, Exact)
  <2>1. l.revision \in 0..MaxBatches
    BY <1>3, ArchiveAssumption DEF Leases
  <2>2. bucket'[l.revision] = "exact"
    BY <1>1, <1>6, <2>1 DEF ExactReadback, SameBytes, SameMetadata
  <2> QED
    BY <1>1, <1>3, <1>6, <2>2, IntendsGood, EndsIntended, WriterStep
<1> QED
  BY <1>2, <1>4, <1>5, <1>6 DEF Get

LEMMA PutStep ==
  ASSUME IInv, NEW w \in Writer, Put(w)
  PROVE  IInv'
<1> USE DEF IInv
<1>1. /\ writer[w].at = "put" /\ faults' \in Nat
      /\ UNCHANGED <<source, batch, archived, ledger, clock>>
  BY FaultType DEF Put
<1>2. PICK l : l = writer[w].lease
  OBVIOUS
<1>3. l \in Leases /\ Suits(w, l) /\ OpenedFor(l)
  BY <1>1, <1>2, AtWork DEF HasOpened
<1>4. bucket' \in [0..MaxBatches -> Objects] /\ BucketKept
  <2>1. \/ bucket' = bucket
        \/ /\ bucket[l.revision] = "none"
           /\ \E o \in {"exact", "different"} : bucket' = [bucket EXCEPT ![l.revision] = o]
    BY <1>2 DEF Put
  <2> QED
    BY <2>1 DEF TypeOK, Objects, BucketKept
<1>5. PICK put \in Puts : Ready(w, l, "get", put, 1)
  BY <1>2 DEF Put, Puts
<1>6. Good(w)
  <2>1. 1 \in 0..1 /\ "get" \in {"read", "put", "get"}
    OBVIOUS
  <2> QED
    BY <1>1, <1>3, <1>5, <2>1, ReadyGood
<1>7. TypeOK'
  BY <1>1, <1>4, <1>6 DEF TypeOK, source, Good
<1>8. Grows /\ clock <= clock'
  BY <1>1 DEF TypeOK, source, Grows
<1> QED
  BY <1>1, <1>4, <1>6, <1>7, <1>8, StillStep

-----------------------------------------------------------------------------
(* Steps that change the row of the batch                                  *)

\* A row that is leased or renewed keeps its batch, and its times are in order.
LEMMA LeasedRow ==
  ASSUME TypeOK, Rows, batch # NoBatch, NEW attempts \in 1..MaxAttempts,
         NEW started \in Nat, NEW touched \in Nat, NEW expires \in Nat, NEW updated \in Nat,
         started >= batch.manifest.created, expires >= batch.manifest.created,
         updated >= batch.manifest.created, expires > 0,
         batch' = Leased(batch, attempts, started, touched, expires, updated)
  PROVE  batch' \in Batches /\ SameBatch /\ Rows'
<1>1. batch \in Batches /\ batch.manifest \in Manifests
  BY DEF TypeOK, Batches
<1>2. /\ batch'.revision = batch.revision /\ batch'.manifest = batch.manifest
      /\ batch'.items = batch.items /\ batch'.sound = batch.sound
      /\ batch'.status = "processing" /\ batch'.attempts = attempts
      /\ batch'.started = started /\ batch'.expires = expires /\ batch'.updated = updated
  BY DEF Leased
<1>3. batch' \in Batches
  BY <1>1, ArchiveAssumption DEF Leased, Batches, Statuses
<1>4. batch' # NoBatch
  BY <1>2 DEF NoBatch
<1>5. BatchCheck(batch)'
  BY <1>2 DEF Rows, BatchCheck, WellFormed
<1> QED
  BY <1>2, <1>3, <1>4, <1>5 DEF Rows, SameBatch

\* So does one that is not, when it has the attempts of its status.
LEMMA UnleasedRow ==
  ASSUME TypeOK, Rows, batch # NoBatch, NEW status \in {"pending", "retry", "dead", "corrupt"},
         NEW generation \in Nat, NEW attempts \in 0..MaxAttempts, NEW due \in Nat,
         NEW updated \in Nat,
         status = "pending" => attempts = 0,
         status = "retry" => attempts \in 1..(MaxAttempts - 1),
         status = "dead" => attempts = MaxAttempts,
         status = "corrupt" => attempts \in 1..MaxAttempts,
         status \in {"pending", "retry"} => due >= batch.manifest.created,
         updated >= batch.manifest.created,
         batch' = Unleased(batch, status, generation, attempts, due, updated)
  PROVE  batch' \in Batches /\ SameBatch /\ Rows'
<1>1. batch \in Batches /\ batch.manifest \in Manifests
  BY DEF TypeOK, Batches
<1>2. /\ batch'.revision = batch.revision /\ batch'.manifest = batch.manifest
      /\ batch'.items = batch.items /\ batch'.sound = batch.sound
      /\ batch'.status = status /\ batch'.attempts = attempts /\ batch'.due = due
      /\ batch'.expires = 0 /\ batch'.updated = updated
  BY DEF Unleased
<1>3. batch' \in Batches
  BY <1>1 DEF Unleased, Batches, Statuses
<1>4. batch' # NoBatch
  BY <1>2 DEF NoBatch
<1>5. BatchCheck(batch)'
  BY <1>2 DEF Rows, BatchCheck, WellFormed
<1> QED
  BY <1>2, <1>3, <1>4, <1>5 DEF Rows, SameBatch, Held

LEMMA QueueStep ==
  ASSUME IInv, Queue
  PROVE  IInv'
<1> USE DEF IInv
<1>1. PICK d \in drafts :
         /\ drafts' \in {drafts, drafts \ {d}}
         /\ IF Queueable(d) THEN \E sound \in BOOLEAN : batch' = NewBatch(d, sound)
                            ELSE UNCHANGED batch
         /\ UNCHANGED <<event, sentinel, archived, ledger, bucket, writer, clock, faults>>
  BY DEF Queue
<1>2. d \in Drafts /\ d.manifest \in Manifests /\ drafts' \subseteq Drafts
  BY <1>1 DEF TypeOK, Drafts
<1>3. CASE ~Queueable(d)
  <2>1. TypeOK'
    BY <1>1, <1>2, <1>3 DEF TypeOK
  <2>2. Grows /\ BucketKept /\ clock <= clock'
    BY <1>1 DEF TypeOK, Grows, BucketKept
  <2> QED
    BY <1>1, <1>3, <2>1, <2>2, StillStep
<1>4. CASE Queueable(d)
  <2>1. PICK sound \in BOOLEAN : batch' = NewBatch(d, sound)
    BY <1>1, <1>4
  <2>2. /\ batch = NoBatch /\ WellFormed(d.manifest)
        /\ d.manifest.generation = Len(archived) + 1
    BY <1>4 DEF Queueable, Candidate, Checkpoint
  <2>3. /\ batch'.manifest = d.manifest /\ batch'.status = "pending" /\ batch'.attempts = 0
        /\ batch'.due = d.manifest.created /\ batch'.updated = d.manifest.created
        /\ batch'.expires = 0 /\ batch'.revision = d.manifest.generation - 1
    BY <2>1 DEF NewBatch, Unleased
  <2>4. batch' \in Batches
    BY <1>2, <2>1, ArchiveAssumption DEF NewBatch, Unleased, Batches, Drafts, Manifests, Statuses
  <2>5. batch' # NoBatch
    BY <2>3 DEF NoBatch
  <2>6. TypeOK'
    BY <1>1, <1>2, <2>4 DEF TypeOK
  <2>7. Log'
    BY <1>1, <1>4, <2>1, <2>6, LogQueued
  <2>8. d.manifest.created \in Nat /\ d.manifest.generation \in Nat
    BY <1>2 DEF Manifests
  <2>9. Rows'
    BY <2>2, <2>3, <2>8 DEF Rows, BatchCheck, Held, WellFormed
  <2>10. BatchMoves /\ BucketKept /\ clock <= clock' /\ clock' \in Nat
    <3>1. batch'.revision = Len(archived)
      BY <2>2, <2>3, <2>8, LenProperties DEF TypeOK
    <3> QED
      BY <1>1, <2>2, <2>5, <3>1 DEF TypeOK, BatchMoves, BucketKept
  <2>11. Writers'
    BY <1>1, <2>10, WritersKept
  <2> QED
    BY <2>6, <2>7, <2>9, <2>11
<1> QED
  BY <1>3, <1>4

\* The batch keeps its place when only its row changes.
LEMMA RowStep ==
  ASSUME IInv, batch' \in Batches, SameBatch, Rows', Grows, event' \in Seq(Who),
         UNCHANGED <<sentinel, drafts, archived, bucket, clock>>, ledger \subseteq ledger',
         ledger' \subseteq Receipts, faults' \in Nat,
         writer' = writer \/ \E w \in Writer : Good(w)
  PROVE  IInv'
<1> USE DEF IInv
<1>1. TypeOK'
  BY DEF TypeOK, Good
<1>2. BucketKept /\ BatchMoves /\ clock' \in Nat /\ clock <= clock'
  BY DEF BucketKept, BatchMoves, TypeOK
<1>3. Log'
  BY <1>1, <1>2, LogKept
<1>4. Writers'
  BY <1>2, WritersKept, WritersStep
<1> QED
  BY <1>1, <1>3, <1>4

LEMMA ClaimStep ==
  ASSUME IInv, NEW w \in Writer, Claim(w)
  PROVE  IInv'
<1> USE DEF IInv
<1>1. /\ batch.status \in {"pending", "retry"} /\ batch.due <= Now(w)
      /\ batch.attempts < MaxAttempts
      /\ batch' = Leased(batch, batch.attempts + 1, Now(w), 0, Now(w) + LeaseTime, Now(w))
      /\ UNCHANGED <<source, archived, ledger, bucket, clock>> /\ faults' \in Nat
      /\ Now(w) \in Nat /\ Now(w)' = Now(w)
  BY Clocks, FaultType DEF Claim, Claimable, Now
<1>2. batch # NoBatch /\ batch \in Batches
  BY <1>1 DEF NoBatch, TypeOK
<1>3. /\ batch.attempts + 1 \in 1..MaxAttempts /\ LeaseTime \in Nat \ {0}
      /\ batch.manifest.created \in Nat /\ batch.due \in Nat
      /\ Now(w) >= batch.manifest.created
  BY <1>1, <1>2, ArchiveAssumption DEF Batches, Manifests, Rows
<1>4. batch' \in Batches /\ SameBatch /\ Rows'
  BY <1>1, <1>2, <1>3, LeasedRow
<1>5. writer' = writer \/ Good(w)
  <2>1. PICK l : l = LeaseOf(batch')
    OBVIOUS
  <2>2. l \in Leases /\ l.revision = batch'.revision
    BY <1>1, <1>2, <1>3, <2>1, ArchiveAssumption DEF LeaseOf, Lease, Leased, Leases, Batches
  <2>3. batch'.manifest = batch.manifest /\ batch'.status = "processing"
    BY <1>1 DEF Leased
  <2>4. Suits(w, l)
    BY <1>1, <1>3, <2>2, <2>3, RowSuits DEF NoBatch
  <2>5. CASE Becomes(w, Busy("start", l, "none"))
    <3>1. "none" \in Puts /\ "start" \in {"start", "read", "put", "get"}
      BY DEF Puts
    <3> QED
      BY <2>2, <2>4, <2>5, <3>1, BusyGood
  <2> QED
    BY <2>1, <2>5 DEF Claim
<1>6. Grows /\ event' \in Seq(Who)
  BY <1>1 DEF Grows, source, TypeOK
<1> QED
  BY <1>1, <1>4, <1>5, <1>6, RowStep DEF source, TypeOK

LEMMA ReplayStep ==
  ASSUME IInv, NEW w \in Writer, Replay(w)
  PROVE  IInv'
<1> USE DEF IInv
<1>1. /\ batch.status = "dead" /\ batch.updated <= Now(w)
      /\ event' = Append(event, "named")
      /\ batch' = Unleased(batch, "pending", batch.generation + 1, 0, Now(w), Now(w))
      /\ UNCHANGED <<sentinel, drafts, archived, ledger, bucket, writer, clock, faults>>
      /\ Now(w) \in Nat
  BY Clocks DEF Replay
<1>2. batch # NoBatch /\ batch \in Batches
  BY <1>1 DEF NoBatch, TypeOK
<1>3. /\ batch.generation + 1 \in Nat /\ 0 \in 0..MaxAttempts
      /\ batch.manifest.created \in Nat /\ batch.updated \in Nat
      /\ Now(w) >= batch.manifest.created
  <2>1. /\ batch.generation + 1 \in Nat /\ 0 \in 0..MaxAttempts
        /\ batch.manifest.created \in Nat /\ batch.updated \in Nat
    BY <1>2, ArchiveAssumption DEF Batches, Manifests
  <2>2. batch.updated >= batch.manifest.created
    BY <1>2 DEF Rows, BatchCheck
  <2> QED
    BY <1>1, <2>1, <2>2
<1>4. batch' \in Batches /\ SameBatch /\ Rows'
  <2>1. "pending" \in {"pending", "retry", "dead", "corrupt"}
    OBVIOUS
  <2> QED
    BY <1>1, <1>2, <1>3, <2>1, UnleasedRow
<1>5. /\ event' \in Seq(Who) /\ Len(event') = Len(event) + 1 /\ Len(event) \in Nat
      /\ \A s \in 1..Len(event) : event'[s] = event[s]
  <2>1. "named" \in Who /\ event \in Seq(Who)
    BY DEF Who, TypeOK
  <2> QED
    BY <1>1, <2>1, AppendProperties
<1>6. Grows
  BY <1>5 DEF Grows
<1> QED
  BY <1>1, <1>4, <1>5, <1>6, RowStep DEF TypeOK

LEMMA RenewStep ==
  ASSUME IInv, NEW w \in Writer, Renew(w)
  PROVE  IInv'
<1> USE DEF IInv
<1>0. /\ writer[w].at = "renew" /\ UNCHANGED <<source, archived, ledger, bucket, clock>>
      /\ faults' \in Nat
  BY FaultType DEF Renew
<1>1. PICK l, time, next, put, tries, adoptions :
         /\ l = writer[w].lease /\ time = writer[w].time /\ next = writer[w].next
         /\ put = writer[w].put /\ tries = writer[w].tries /\ adoptions = writer[w].adoptions
  OBVIOUS
<1>2. /\ l \in Leases /\ time \in Nat /\ next \in {"read", "put", "get"} /\ put \in Puts
      /\ tries \in 0..2 /\ adoptions \in 0..1
  <2>1. writer[w] \in States
    BY DEF TypeOK
  <2> QED
    BY <1>0, <1>1, <2>1 DEF States, Resting, Working, Extending, Settling
<1>3. PICK target : target = Renewed(l, time)
  OBVIOUS
<1>4. /\ target \in Leases /\ target.revision = l.revision /\ target.touched \in Nat
      /\ target.expires = time + LeaseTime /\ target.expires \in Nat /\ target.expires > 0
  BY <1>2, <1>3, ArchiveAssumption DEF Renewed, Lease, Leases
<1>5. \/ UNCHANGED batch
      \/ /\ Fenced(l)
         /\ batch' = Leased(batch, batch.attempts, batch.started, target.touched,
                            target.expires, time)
  BY <1>1, <1>3 DEF Renew
<1>6. batch' = batch \/ (batch' \in Batches /\ SameBatch /\ Rows')
  <2> SUFFICES ASSUME Fenced(l),
                      batch' = Leased(batch, batch.attempts, batch.started, target.touched,
                                      target.expires, time)
               PROVE  batch' \in Batches /\ SameBatch /\ Rows'
    BY <1>5
  <2>1. Held /\ l.revision = batch.revision
    BY DEF Fenced, LeaseOf, Lease
  <2>2. /\ batch # NoBatch /\ batch \in Batches /\ batch.attempts \in 1..MaxAttempts
        /\ batch.started >= batch.manifest.created /\ batch.manifest.created \in Nat
        /\ batch.started \in Nat
    BY <2>1, HeldFacts DEF Batches
  <2>3. time >= batch.manifest.created
    <3>1. WriterOK(w)
      BY DEF Writers
    <3> QED
      BY <1>0, <1>1, <2>1, <2>2, <3>1 DEF WriterOK, ForBatch
  <2>4. target.expires >= batch.manifest.created
    BY <1>2, <1>4, <2>2, <2>3, ArchiveAssumption
  <2> QED
    BY <1>2, <1>4, <2>2, <2>3, <2>4, LeasedRow
<1>7. SameBatch /\ BatchMoves
  BY <1>0, <1>6 DEF SameBatch, BatchMoves
<1>8. /\ Suits(w, l) /\ (ForBatch(l)' => time >= batch'.manifest.created)
      /\ (next \in {"put", "get"} => OpenedFor(l))
  <2>1. clock' \in Nat /\ clock <= clock'
    BY <1>0 DEF TypeOK
  <2> QED
    BY <1>0, <1>1, <1>7, <2>1, OwnLease DEF HasOpened
<1>9. Suits(w, target) /\ (next \in {"put", "get"} => OpenedFor(target))
  BY <1>4, <1>8 DEF Suits, OpenedFor, LeaseIsKnown, ForBatch
<1>10. Good(w)
  <2>1. ASSUME NEW step \in {"renew", "beaten", "unsure"}, NEW left \in 0..2,
               Becomes(w, Renewing(step, l, next, put, time, left, adoptions))
        PROVE  Good(w)
    BY <1>2, <1>8, <2>1, RenewingGood
  <2>2. ASSUME Becomes(w, Busy(next, target, put))
        PROVE  Good(w)
    <3>1. next \in {"start", "read", "put", "get"}
      BY <1>2
    <3> QED
      BY <1>2, <1>4, <1>9, <2>2, <3>1, BusyGood
  <2>3. ASSUME NEW left \in 0..(tries - 1),
               Becomes(w, Renewing(IF left = 0 THEN "unsure" ELSE "renew", l, next, put, time,
                                   left, adoptions))
        PROVE  Good(w)
    <3>1. left \in 0..2
      BY <1>2
    <3>2. PICK step \in {"renew", "unsure"} : step = IF left = 0 THEN "unsure" ELSE "renew"
      OBVIOUS
    <3> QED
      BY <2>1, <2>3, <3>1, <3>2
  <2>4. 0 \in 0..2
    OBVIOUS
  <2>5. \/ Becomes(w, Busy(next, target, put))
        \/ Becomes(w, Renewing("beaten", l, next, put, time, 0, adoptions))
        \/ \E left \in 0..(tries - 1) :
              Becomes(w, Renewing(IF left = 0 THEN "unsure" ELSE "renew", l, next, put, time,
                                  left, adoptions))
    BY <1>1, <1>3 DEF Renew
  <2> QED
    BY <2>1, <2>2, <2>3, <2>4, <2>5
<1>11. Grows /\ event' \in Seq(Who)
  BY <1>0 DEF Grows, source, TypeOK
<1>12. CASE batch' = batch
  BY <1>0, <1>10, <1>12, WriterStep
<1>13. CASE batch' \in Batches /\ SameBatch /\ Rows'
  BY <1>0, <1>10, <1>11, <1>13, RowStep DEF source, TypeOK
<1> QED
  BY <1>6, <1>12, <1>13

-----------------------------------------------------------------------------
(* The end of an attempt                                                   *)

\* What a writer that ends its attempt has in hand.
LEMMA SettlerFacts ==
  ASSUME IInv, NEW w \in Writer, writer[w].at = "settle",
         NEW l, l = writer[w].lease, NEW end, end = writer[w].end,
         NEW time, time = writer[w].time
  PROVE  /\ l \in Leases /\ end \in Ends /\ time \in Nat /\ writer[w].tries \in 1..2
         /\ writer[w].applied \in BOOLEAN
         /\ Valid(end, l, time) /\ AttemptCheck(end, l)
         /\ end.outcome = "archived" => bucket[l.revision] = "exact"
         /\ writer[w].applied => Receipt(w) \in ledger
         /\ ForBatch(l) => /\ time >= batch.manifest.created
                           /\ end.outcome = "archived" => batch.sound
         /\ Receipt(w) = [attempt |-> Attempt(l), outcome |-> end.outcome]
<1>1. writer[w] \in States /\ WriterOK(w)
  BY DEF IInv, TypeOK, Writers
<1>2. /\ l \in Leases /\ end \in Ends /\ time \in Nat /\ writer[w].tries \in 1..2
      /\ writer[w].applied \in BOOLEAN
  BY <1>1 DEF States, Resting, Working, Extending, Settling
<1>3. /\ Valid(end, l, time) /\ AttemptCheck(end, l)
      /\ end.outcome = "archived" => bucket[l.revision] = "exact"
      /\ writer[w].applied => Receipt(w) \in ledger
      /\ ForBatch(l) => /\ time >= batch.manifest.created
                        /\ end.outcome = "archived" => batch.sound
  BY <1>1 DEF WriterOK, HasOpened
<1> QED
  BY <1>2, <1>3 DEF Receipt

\* It stops, waits to ask again, or tells its caller.
LEMMA SettlerGood ==
  ASSUME IInv, NEW w \in Writer, writer[w].at = "settle", BatchMoves,
         UNCHANGED <<bucket, clock>>, ledger \subseteq ledger',
         \/ Silent(w)
         \/ \E applied \in BOOLEAN :
               /\ Becomes(w, Ending(writer[w].lease, writer[w].end, writer[w].time, 1, applied))
               /\ applied = TRUE => Receipt(w) \in ledger'
         \/ Told(w, "lease_lost")
         \/ Told(w, writer[w].end.outcome) /\ Receipt(w) \in ledger'
  PROVE  Good(w)
<1> USE DEF IInv
<1>1. PICK l, end, time : l = writer[w].lease /\ end = writer[w].end /\ time = writer[w].time
  OBVIOUS
<1>2. /\ l \in Leases /\ end \in Ends /\ time \in Nat
      /\ Valid(end, l, time) /\ AttemptCheck(end, l)
      /\ end.outcome = "archived" => bucket[l.revision] = "exact"
      /\ Receipt(w) = [attempt |-> Attempt(l), outcome |-> end.outcome]
  BY <1>1, SettlerFacts
<1>3. /\ Suits(w, l) /\ (ForBatch(l)' => time >= batch'.manifest.created)
      /\ (end.outcome = "archived" => OpenedFor(l))
  <2>1. clock' \in Nat /\ clock <= clock'
    BY DEF TypeOK
  <2> QED
    BY <1>1, <2>1, OwnLease DEF HasOpened
<1>4. CASE Silent(w) \/ Told(w, "lease_lost")
  BY <1>4, SilentGood DEF Told
<1>5. ASSUME NEW applied \in BOOLEAN, Becomes(w, Ending(l, end, time, 1, applied)),
             applied = TRUE => Receipt(w) \in ledger'
      PROVE  Good(w)
  <2>1. 1 \in 1..2 /\ (end.outcome = "archived" => bucket'[l.revision] = "exact")
    BY <1>2
  <2> QED
    BY <1>2, <1>3, <1>5, <2>1, EndingGood
<1>6. ASSUME Told(w, end.outcome), Receipt(w) \in ledger'
      PROVE  Good(w)
  <2>1. end.outcome \in Outcomes
    BY <1>2 DEF Ends
  <2> QED
    BY <1>1, <1>2, <1>6, <2>1, ToldGood
<1> QED
  BY <1>1, <1>4, <1>5, <1>6

\* The one update and its triggers.
LEMMA ApplyStep ==
  ASSUME IInv, NEW w \in Writer, writer[w].at = "settle", Fenced(writer[w].lease),
         Apply(w), UNCHANGED <<source, bucket, clock>>, faults' \in Nat,
         BatchMoves => Good(w)
  PROVE  IInv'
<1> USE DEF IInv
<1>1. PICK l, end, time : l = writer[w].lease /\ end = writer[w].end /\ time = writer[w].time
  OBVIOUS
<1>2. /\ l \in Leases /\ end \in Ends /\ time \in Nat
      /\ Valid(end, l, time) /\ AttemptCheck(end, l)
      /\ end.outcome = "archived" => bucket[l.revision] = "exact"
      /\ ForBatch(l) => /\ time >= batch.manifest.created
                        /\ end.outcome = "archived" => batch.sound
      /\ Receipt(w) = [attempt |-> Attempt(l), outcome |-> end.outcome]
  BY <1>1, SettlerFacts
<1>3. /\ Held /\ LeaseOf(batch) = l /\ batch # NoBatch /\ batch \in Batches
      /\ batch.revision = l.revision /\ batch.attempts = l.attempt
      /\ batch.manifest.created \in Nat
  <2>1. Held /\ LeaseOf(batch) = l
    BY <1>1 DEF Fenced
  <2> QED
    BY <2>1, HeldFacts DEF LeaseOf, Lease
<1>4. ForBatch(l)
  BY <1>3 DEF ForBatch
<1>5. PICK status : status = Result(end.outcome, l.attempt)
  OBVIOUS
<1>6. /\ status \in {"archived", "retry", "dead", "corrupt"}
      /\ status = "archived" <=> end.outcome = "archived"
      /\ status = "retry" => l.attempt \in 1..(MaxAttempts - 1)
      /\ status = "dead" => l.attempt = MaxAttempts
  <2>1. end.outcome \in Outcomes /\ l.attempt \in 1..MaxAttempts
    BY <1>2 DEF Ends, Leases
  <2>2. end.outcome = "retry" => l.attempt < MaxAttempts
    BY <1>2 DEF AttemptCheck
  <2>3. end.outcome = "dead" => l.attempt = MaxAttempts
    BY <1>2 DEF Valid
  <2> QED
    BY <1>5, <2>1, <2>2, <2>3, ArchiveAssumption DEF Result, Outcomes
<1>7. ledger' = ledger \cup {Receipt(w)} /\ ledger' \subseteq Receipts
  <2>1. Receipt(w) \in Receipts
    BY <1>2 DEF Receipts, Attempts, Attempt, Leases, Ends
  <2> QED
    BY <2>1 DEF Apply, TypeOK
<1>8. CASE status = "archived"
  <2>1. Advance(batch, time)
    BY <1>1, <1>5, <1>8 DEF Apply
  <2>2. [revision |-> batch.revision, manifest |-> batch.manifest, items |-> batch.items,
         sound |-> batch.sound, time |-> time] \in Sealed
    BY <1>2, <1>3 DEF Batches, Sealed
  <2>3. /\ archived' \in Seq(Sealed) /\ Len(archived') = Len(archived) + 1 /\ batch' = NoBatch
    BY <2>1, <2>2, AppendProperties DEF Advance, TypeOK
  <2>4. BatchMoves /\ BucketKept
    BY <1>3, <2>3 DEF BatchMoves, BucketKept
  <2>5. Good(w)
    BY <2>4
  <2>6. TypeOK'
    BY <1>7, <2>3, <2>5 DEF TypeOK, source, Good
  <2>7. batch.sound /\ bucket[batch.revision] = "exact"
    BY <1>2, <1>3, <1>4, <1>6, <1>8
  <2>8. Log'
    BY <1>2, <1>3, <2>1, <2>6, <2>7, LogAdvanced DEF source
  <2>9. Rows'
    BY <2>3 DEF Rows
  <2>10. clock' \in Nat /\ clock <= clock' /\ ledger \subseteq ledger'
    BY <1>7 DEF TypeOK
  <2>11. Writers'
    BY <2>4, <2>5, <2>10, WritersStep
  <2> QED
    BY <2>6, <2>8, <2>9, <2>11
<1>9. CASE status # "archived"
  <2>1. PICK due : due = IF status = "retry" THEN RetryAt(l, time) ELSE 0
    OBVIOUS
  <2>2. due \in Nat /\ (status = "retry" => due >= batch.manifest.created)
    <3>1. CASE status = "retry"
      <4>1. Backoff[l.attempt] \in Nat
        BY <1>6, <3>1, ArchiveAssumption
      <4>2. due = time + Backoff[l.attempt]
        BY <2>1, <3>1 DEF RetryAt
      <4> QED
        BY <1>2, <1>3, <1>4, <4>1, <4>2
    <3>2. CASE status # "retry"
      BY <2>1, <3>2
    <3> QED
      BY <3>1, <3>2
  <2>3. batch' = Unleased(batch, status, batch.generation, batch.attempts, due, time)
        /\ archived' = archived
    BY <1>1, <1>5, <1>9, <2>1 DEF Apply
  <2>4. /\ status \in {"pending", "retry", "dead", "corrupt"} /\ status # "pending"
        /\ batch.generation \in Nat /\ batch.attempts \in 0..MaxAttempts
        /\ batch.attempts \in 1..MaxAttempts
    <3>1. l.attempt \in 1..MaxAttempts
      BY <1>2 DEF Leases
    <3> QED
      BY <1>3, <1>6, <1>9, <3>1 DEF Batches
  <2>5. batch' \in Batches /\ SameBatch /\ Rows'
    BY <1>2, <1>3, <1>4, <1>6, <2>2, <2>3, <2>4, UnleasedRow
  <2>6. Good(w)
    BY <2>3, <2>5 DEF BatchMoves
  <2>7. Grows /\ event' \in Seq(Who) /\ ledger \subseteq ledger'
    BY <1>7 DEF Grows, source, TypeOK
  <2> QED
    BY <1>7, <2>3, <2>5, <2>6, <2>7, RowStep DEF source
<1> QED
  BY <1>8, <1>9

LEMMA SettleStep ==
  ASSUME IInv, NEW w \in Writer, Settle(w)
  PROVE  IInv'
<1> USE DEF IInv
<1>1. writer[w].at = "settle" /\ UNCHANGED <<source, bucket, clock>> /\ faults' \in Nat
  BY FaultType DEF Settle
<1>2. /\ writer[w].applied \in BOOLEAN /\ (writer[w].applied = TRUE => Receipt(w) \in ledger)
  BY <1>1, SettlerFacts
<1>3. CASE Fenced(writer[w].lease) /\ Apply(w)
           /\ \/ Told(w, writer[w].end.outcome)
              \/ Silent(w)
              \/ Becomes(w, Ending(writer[w].lease, writer[w].end, writer[w].time, 1, TRUE))
  <2>1. Receipt(w) \in ledger' /\ ledger \subseteq ledger'
    BY <1>3 DEF Apply
  <2>2. ASSUME BatchMoves PROVE Good(w)
    BY <1>1, <1>3, <2>1, <2>2, SettlerGood
  <2> QED
    BY <1>1, <1>3, <2>2, ApplyStep
<1>4. CASE UNCHANGED <<ledger, batch, archived>>
           /\ \/ Told(w, "lease_lost")
              \/ Told(w, writer[w].end.outcome) /\ Receipt(w) \in ledger
              \/ Silent(w)
              \/ Becomes(w, Ending(writer[w].lease, writer[w].end, writer[w].time, 1,
                                   writer[w].applied))
  <2>1. BatchMoves /\ ledger \subseteq ledger' /\ ledger' = ledger
    BY <1>4 DEF BatchMoves, SameBatch
  <2>2. PICK applied \in BOOLEAN : applied = writer[w].applied
    BY <1>2
  <2>3. Good(w)
    BY <1>1, <1>2, <1>4, <2>1, <2>2, SettlerGood
  <2> QED
    BY <1>1, <1>4, <2>3, WriterStep
<1>5. ASSUME NEW a \in Answers(w) PROVE a = "conflict" \/ (a = "duplicate" /\ Receipt(w) \in ledger)
  BY <1>2, <1>5 DEF Answers
<1> QED
  BY <1>3, <1>4, <1>5 DEF Settle

-----------------------------------------------------------------------------
(* Theorems                                                                *)

\* The inductive invariant: what has been archived and what comes next (Log), the
\* row of the batch (Rows) and the knowledge of every writer (Writers) agree, after
\* every call, lost answer and takeover of audit-archive-repository.ts and
\* audit-archive-r2-writer.ts.
THEOREM ArchiveInvariant == Spec => []IInv
<1>1. Init => IInv
  <2> SUFFICES ASSUME Init PROVE IInv
    OBVIOUS
  <2>1. /\ event = <<>> /\ archived = <<>> /\ batch = NoBatch /\ drafts = {} /\ ledger = {}
        /\ Len(event) = 0 /\ Len(archived) = 0
        /\ event \in Seq(Who) /\ archived \in Seq(Sealed)
    BY EmptySeq DEF Init
  <2>2. Idle \in States /\ Idle.at = "idle" /\ Idle.said = {}
    BY DEF Idle, States, Resting
  <2>3. \A w \in Writer : writer[w] = Idle
    BY DEF Init
  <2>4. TypeOK
    BY <2>1, <2>2 DEF Init, TypeOK, Objects
  <2>5. Log
    BY <2>1 DEF Log, ArchivedOK, BatchFollows, Checkpoint
  <2>6. Rows
    BY <2>1 DEF Rows
  <2>7. Writers
    BY <2>2, <2>3 DEF Writers, WriterOK, Reports
  <2> QED
    BY <2>4, <2>5, <2>6, <2>7 DEF IInv
<1>2. IInv /\ [Next]_vars => IInv'
  <2> SUFFICES ASSUME IInv, [Next]_vars PROVE IInv'
    OBVIOUS
  <2>1. CASE UNCHANGED vars
    <3>1. TypeOK' /\ Grows /\ BucketKept /\ clock <= clock'
      BY <2>1 DEF vars, source, IInv, TypeOK, Grows, BucketKept
    <3> QED
      BY <2>1, <3>1, StillStep DEF vars
  <2>2. CASE Tick \/ Record \/ Forget \/ Initialize \/ Prepare \/ Intrude
    BY <2>2, SourceStep
  <2>3. CASE Queue
    BY <2>3, QueueStep
  <2>4. ASSUME NEW w \in Writer, Claim(w) \/ Resume(w) \/ Sweep(w) \/ Works(w) \/ Replay(w)
        PROVE  IInv'
    <3>1. CASE Claim(w) \/ Replay(w)
      BY <3>1, ClaimStep, ReplayStep
    <3>2. CASE Resume(w) \/ Sweep(w)
      BY <3>2, ResumeSweepStep
    <3>3. CASE Adopt(w) \/ Renew(w) \/ ReadLease(w) \/ Read(w)
      BY <3>3, AdoptStep, RenewStep, ReadLeaseStep, ReadStep
    <3>4. CASE Put(w) \/ Get(w) \/ Settle(w)
      BY <3>4, PutStep, GetStep, SettleStep
    <3> QED
      BY <2>4, <3>1, <3>2, <3>3, <3>4 DEF Works
  <2> QED
    BY <2>1, <2>2, <2>3, <2>4 DEF Next
<1> QED
  BY <1>1, <1>2, PTL DEF Spec

\* Every table, the bucket and what every invocation knows keep their types.
THEOREM TypeCorrect == Spec => []TypeOK
<1>1. IInv => TypeOK
  BY DEF IInv
<1> QED
  BY <1>1, ArchiveInvariant, PTL

\* A restore of an archived batch yields its records.
LEMMA ArchivedRestores ==
  ASSUME IInv, NEW n \in DOMAIN archived
  PROVE  /\ Restored(archived[n]) = archived[n].items
         /\ Faithful(archived[n])
         /\ archived[n].manifest.from \in Nat /\ archived[n].manifest.last \in Nat
<1>1. /\ archived[n].revision = n - 1 /\ bucket[n - 1] = "exact" /\ archived[n].sound
      /\ Faithful(archived[n])
  BY DEF IInv, Log, ArchivedOK
<1>2. /\ WellFormed(archived[n].manifest) /\ Fits(Sequences(archived[n].items))
      /\ Describes(archived[n].manifest, archived[n].items)
  BY <1>1 DEF Faithful
<1>3. archived[n] \in Sealed
  BY ElementOfSeq DEF IInv, TypeOK
<1> QED
  BY <1>1, <1>2, <1>3 DEF Restored, Labelled, Whole, Opens, Detached, Sealed, Manifests

\* What the checkpoint has passed can be restored from R2: every event that was not
\* compensated is in exactly one object that verifyAndOpenAuditArchiveObjectV1
\* accepts, as it was written or as it was once its actor's account was gone.
THEOREM ArchiveIsCompleteHolds == Spec => []ArchiveIsComplete
<1>1. ASSUME IInv, NEW s \in 1..Checkpoint.last, event[s] # "compensated"
      PROVE  /\ Cardinality({n \in DOMAIN archived :
                   \E i \in Restored(archived[n]) : i.sequence = s}) = 1
             /\ \A n \in DOMAIN archived : \A i \in Restored(archived[n]) :
                   i.sequence = s => i.who \in {"named", event[s]}
  <2>1. PICK m \in DOMAIN archived :
           archived[m].manifest.from < s /\ s <= archived[m].manifest.last
    BY <1>1 DEF IInv, Log, ArchivedOK
  <2>2. DOMAIN archived = 1..Len(archived) /\ Len(archived) \in Nat
        /\ DOMAIN event = 1..Len(event) /\ Len(event) \in Nat
    BY <1>1 DEF IInv, TypeOK
  <2>3. s \in Nat
    <3>1. archived # <<>> => archived[Len(archived)] \in Sealed
      BY <1>1, EmptySeq, ElementOfSeq DEF IInv, TypeOK
    <3>2. Checkpoint.last \in Nat
      BY <3>1 DEF Checkpoint, Sealed, Manifests
    <3> QED
      BY <3>2
  <2>4. s \in Live
    <3>1. archived[m].manifest.last <= Len(event) /\ archived[m].manifest.last \in Nat
      BY <1>1, ArchivedRestores DEF Faithful
    <3>2. s \in 1..Len(event)
      BY <2>1, <2>2, <2>3, <3>1
    <3> QED
      BY <1>1, <2>2, <3>2 DEF Live
  <2>5. ASSUME NEW n \in DOMAIN archived
        PROVE  (\E i \in Restored(archived[n]) : i.sequence = s)
                 <=> archived[n].manifest.from < s /\ s <= archived[n].manifest.last
    <3>1. Restored(archived[n]) = archived[n].items
          /\ Sequences(archived[n].items)
               = {t \in Live : archived[n].manifest.from < t /\ t <= archived[n].manifest.last}
      BY <1>1, ArchivedRestores DEF Faithful
    <3> QED
      BY <2>4, <3>1 DEF Sequences
  <2>6. ASSUME NEW n \in DOMAIN archived,
               archived[n].manifest.from < s, s <= archived[n].manifest.last
        PROVE  n = m
    <3>1. /\ archived[n].manifest.from \in Nat /\ archived[n].manifest.last \in Nat
          /\ archived[m].manifest.from \in Nat /\ archived[m].manifest.last \in Nat
      BY <1>1, ArchivedRestores
    <3>2. ~(n < m)
      <4>1. n < m => archived[n].manifest.last <= archived[m].manifest.from
        BY <1>1 DEF IInv, Log, ArchivedOK
      <4> QED
        BY <2>1, <2>3, <2>6, <3>1, <4>1
    <3>3. ~(m < n)
      <4>1. m < n => archived[m].manifest.last <= archived[n].manifest.from
        BY <1>1 DEF IInv, Log, ArchivedOK
      <4> QED
        BY <2>1, <2>3, <2>6, <3>1, <4>1
    <3> QED
      BY <2>2, <3>2, <3>3
  <2> DEFINE N == {n \in DOMAIN archived : \E i \in Restored(archived[n]) : i.sequence = s}
  <2>7. N = {m}
    BY <2>1, <2>5, <2>6
  <2>8. Cardinality(N) = 1
    BY <2>7, FS_Singleton
  <2>9. ASSUME NEW n \in DOMAIN archived, NEW i \in Restored(archived[n]), i.sequence = s
        PROVE  i.who \in {"named", event[s]}
    BY <1>1, <2>9, ArchivedRestores DEF Faithful
  <2> QED
    BY <2>8, <2>9
<1>2. IInv => ArchiveIsComplete
  BY <1>1 DEF ArchiveIsComplete
<1> QED
  BY <1>2, ArchiveInvariant, PTL

\* What writeClaimedAuditArchive tells its caller is what the ledger says of its
\* attempt, whoever ended it and however many answers were lost.
THEOREM ReportsAreTrueHolds == Spec => []ReportsAreTrue
<1>1. IInv => ReportsAreTrue
  BY DEF IInv, Writers, Reports, ReportsAreTrue
<1> QED
  BY <1>1, ArchiveInvariant, PTL

\* Neither the functions that end an attempt nor the CHECKs of the tables refuse an
\* end that a writer has come to, at any clock and attempt.
THEOREM EndsAreAcceptedHolds == Spec => []EndsAreAccepted
<1>1. IInv => EndsAreAccepted
  BY DEF IInv, Writers, WriterOK, Rows, EndsAreAccepted
<1> QED
  BY <1>1, ArchiveInvariant, PTL

\* AttemptsEndOnce, of one step.
AttemptStep ==
    /\ ledger \subseteq ledger'
    /\ \A r \in ledger' \ ledger :
          /\ Held /\ r.attempt = Attempt(LeaseOf(batch))
          /\ \E w \in Writer :
                /\ writer[w].at = "settle" /\ writer'[w] # writer[w]
                /\ (r.outcome = "lease_expired") = (writer[w].time >= batch.expires)
    /\ batch # NoBatch /\ batch' # NoBatch /\ batch.revision = batch'.revision
          /\ batch'.attempts > batch.attempts => ~Held

LEMMA SettleEnds ==
  ASSUME IInv, NEW w \in Writer, Settle(w)
  PROVE  AttemptStep
<1> USE DEF IInv
<1>1. PICK l, end, time : l = writer[w].lease /\ end = writer[w].end /\ time = writer[w].time
  OBVIOUS
<1>2. writer[w].at = "settle" /\ writer \in [Writer -> States]
  BY DEF Settle, TypeOK
<1>3. /\ l \in Leases /\ end \in Ends /\ time \in Nat /\ Valid(end, l, time)
      /\ Receipt(w) = [attempt |-> Attempt(l), outcome |-> end.outcome]
  BY <1>1, <1>2, SettlerFacts
<1>4. CASE ledger' = ledger /\ batch' = batch
  <2>1. batch # NoBatch => batch.attempts \in Nat
    BY ArchiveAssumption DEF TypeOK, Batches
  <2> QED
    BY <1>4, <2>1 DEF AttemptStep
<1>5. CASE /\ Fenced(l) /\ Apply(w)
           /\ \/ Told(w, end.outcome)
              \/ Silent(w)
              \/ writer[w].tries = 2 /\ Becomes(w, Ending(l, end, time, 1, TRUE))
  <2>1. Held /\ LeaseOf(batch) = l /\ batch.expires = l.expires
    BY <1>5 DEF Fenced, LeaseOf, Lease
  <2>2. batch' # NoBatch => batch'.attempts = batch.attempts
    BY <1>5 DEF Apply, Advance, Unleased
  <2>3. batch # NoBatch /\ batch.attempts \in Nat
    BY <2>1, HeldFacts, ArchiveAssumption DEF Batches
  <2>4. writer'[w] # writer[w]
    <3>1. writer'[w].at = "idle" \/ (writer'[w].tries = 1 /\ writer[w].tries = 2)
      BY <1>2, <1>5 DEF Told, Silent, Becomes, Ending, Idle
    <3> QED
      BY <1>2, <3>1
  <2>5. (end.outcome = "lease_expired") = (time >= batch.expires)
    BY <1>3, <2>1 DEF Valid
  <2>6. ledger' = ledger \cup {Receipt(w)}
    BY <1>5 DEF Apply
  <2>7. Receipt(w).attempt = Attempt(LeaseOf(batch)) /\ Receipt(w).outcome = end.outcome
    BY <1>3, <2>1
  <2> QED
    BY <1>1, <1>2, <2>1, <2>2, <2>3, <2>4, <2>5, <2>6, <2>7 DEF AttemptStep
<1> QED
  BY <1>1, <1>4, <1>5 DEF Settle

\* An attempt ends once, while it is the open one; as expired only when the lease it
\* then has is over, and otherwise only before. No attempt starts over another: the
\* fence of terminalizeAuditArchiveAttempt and of acquireAuditArchiveLease.
THEOREM AttemptsEndOnceHolds == Spec => AttemptsEndOnce
<1>1. IInv /\ [Next]_vars => AttemptStep
  <2> SUFFICES ASSUME IInv, [Next]_vars PROVE AttemptStep
    OBVIOUS
  <2>1. batch # NoBatch => batch.attempts \in Nat /\ batch \in Batches
    BY ArchiveAssumption DEF IInv, TypeOK, Batches
  <2>2. ASSUME ledger' = ledger, batch' = batch PROVE AttemptStep
    BY <2>1, <2>2 DEF AttemptStep
  <2>3. CASE UNCHANGED vars
    BY <2>2, <2>3 DEF vars
  <2>4. CASE Tick \/ Record \/ Forget \/ Initialize \/ Prepare \/ Intrude
    BY <2>2, <2>4 DEF Tick, Record, Forget, Initialize, Prepare, Intrude
  <2>5. CASE Queue
    <3>1. ledger' = ledger /\ (batch' = batch \/ batch = NoBatch)
      BY <2>5 DEF Queue, Queueable
    <3> QED
      BY <2>2, <3>1 DEF AttemptStep
  <2>6. ASSUME NEW w \in Writer, Claim(w) \/ Resume(w) \/ Sweep(w) \/ Works(w) \/ Replay(w)
        PROVE  AttemptStep
    <3>1. CASE Claim(w)
      <4>1. ledger' = ledger /\ ~Held
        BY <3>1 DEF Claim, Claimable, Held
      <4> QED
        BY <4>1 DEF AttemptStep
    <3>2. CASE Replay(w)
      <4>1. ledger' = ledger /\ batch'.attempts = 0
        BY <3>2 DEF Replay, Unleased
      <4> QED
        BY <2>1, <4>1 DEF AttemptStep
    <3>3. CASE Renew(w)
      <4>1. ledger' = ledger /\ (batch' = batch \/ batch'.attempts = batch.attempts)
        BY <3>3 DEF Renew, Leased
      <4> QED
        BY <2>1, <2>2, <4>1 DEF AttemptStep
    <3>4. CASE Resume(w) \/ Sweep(w) \/ Adopt(w) \/ ReadLease(w) \/ Read(w) \/ Put(w) \/ Get(w)
      BY <2>2, <3>4 DEF Resume, Sweep, Adopt, ReadLease, Read, Put, Get
    <3>5. CASE Settle(w)
      BY <3>5, SettleEnds
    <3> QED
      BY <2>6, <3>1, <3>2, <3>3, <3>4, <3>5 DEF Works
  <2> QED
    BY <2>3, <2>4, <2>5, <2>6 DEF Next
<1>2. Spec => [][AttemptStep]_vars
  BY <1>1, ArchiveInvariant, PTL DEF Spec
<1> QED
  BY <1>2 DEF AttemptStep, AttemptsEndOnce
=============================================================================
