------------------------------ MODULE AuditArchive ------------------------------
(***************************************************************************)
(* The archive of the audit log. Every audit event gets the next sequence  *)
(* number. The events after the checkpoint are sealed into one encrypted   *)
(* batch, which D1 keeps until a writer has put it into R2, has read it    *)
(* back and has found it to be exact; then one statement archives the      *)
(* batch, drops D1's copy and moves the checkpoint. The checkpoint has one *)
(* batch at a time: the next one follows it.                               *)
(*                                                                         *)
(* A writer holds the batch by a lease, which it may renew. It may stop for*)
(* good, lose the answer to a call that took effect, or be started twice on*)
(* one lease; its clock may be ahead. `touched` counts the renewals: it    *)
(* stands for the instant of the last, of which the code's logical clock   *)
(* never uses one twice.                                                   *)
(*                                                                         *)
(* None of it is imported by the worker's entry point yet. Who calls it is *)
(* modelled from the repository's own operations and their tests.          *)
(***************************************************************************)
EXTENDS Integers, Sequences, FiniteSets, FiniteSetsExt

CONSTANTS Writer,         \* invocations that may be under way together
          Skew,           \* how far the clock of each is ahead
          Bytes,          \* size of each event, by sequence number
          Malformed,      \* sequence numbers of events no archive accepts
          MaxRecords,     \* events in a batch (100)
          MaxBytes,       \* plaintext of a batch (384 KiB)
          MaxAttempts,    \* claims of one dispatch generation (5)
          LeaseTime,      \* length of a lease (300 seconds)
          RenewBelow,     \* renewed when less than this is left (60 seconds)
          Backoff,        \* delay after each attempt but the last (30/120/480/900 s)
          Compensable,    \* bound: numbers that a step-up may spend for nothing
          MaxRecorded,    \* bound: audit events but those of replays
          MaxEvents,      \* bound: audit events
          MaxDrafts,      \* bound: sealed batches not yet queued
          MaxBatches,     \* bound: batches
          MaxGeneration,  \* bound: dispatch generations of a batch
          MaxTime,        \* bound: ticks
          MaxFaults       \* bound: lost answers, failures of others, accounts that go

ASSUME ArchiveAssumption ==
    /\ Skew \in [Writer -> Nat]
    /\ Malformed \subseteq 1..MaxEvents /\ MaxRecorded \in 0..MaxEvents
    /\ \A s \in 1..MaxEvents : Bytes[s] \in 1..MaxBytes
    /\ MaxRecords \in Nat \ {0} /\ MaxAttempts \in Nat \ {0}
    /\ LeaseTime \in Nat \ {0} /\ RenewBelow \in 0..LeaseTime
    /\ MaxEvents \in Nat /\ MaxBatches \in Nat
    /\ \A a \in 1..(MaxAttempts - 1) : Backoff[a] \in Nat

VARIABLES event,      \* audit_event, by audit_archive_source.sequence
          sentinel,   \* whether the key version has its sentinel
          drafts,     \* batches sealed by a caller and not yet queued
          batch,      \* the batch after the checkpoint
          archived,   \* the batches up to the checkpoint
          ledger,     \* ended attempts (audit_archive_attempt)
          bucket,     \* R2, by the batch whose name the object has
          writer,     \* what an invocation knows
          clock,
          faults

source == <<event, sentinel, drafts>>
vars == <<event, sentinel, drafts, batch, archived, ledger, bucket, writer, clock, faults>>

NoBatch == [status |-> "none"]
Idle == [at |-> "idle", said |-> {}]

Init ==
    /\ event = <<>> /\ sentinel = FALSE /\ drafts = {}
    /\ batch = NoBatch /\ archived = <<>> /\ ledger = {}
    /\ bucket = [r \in 0..MaxBatches |-> "none"]
    /\ writer = [w \in Writer |-> Idle]
    /\ clock = 0 /\ faults = 0

Tick == clock < MaxTime /\ clock' = clock + 1
        /\ UNCHANGED <<source, batch, archived, ledger, bucket, writer, faults>>

Now(w) == clock + Skew[w]
Fault == faults < MaxFaults /\ faults' = faults + 1
NoFault == UNCHANGED faults

-----------------------------------------------------------------------------
(* Events, the checkpoint, and the batch that follows it                   *)

\* The step-up of a passkey may delete its event in the batch that inserts it:
\* the number is spent, no event has it.
Record ==
    /\ Len(event) < MaxRecorded
    /\ \E who \in {"named", "compensated"} :
          /\ who = "compensated" => Len(event) + 1 \in Compensable
          /\ event' = Append(event, who)
    /\ UNCHANGED <<sentinel, drafts, batch, archived, ledger, bucket, writer, clock, faults>>

\* The account of the actor is deleted: ON DELETE SET NULL.
Forget ==
    /\ Fault
    /\ \E s \in DOMAIN event :
          /\ event[s] = "named"
          /\ event' = [event EXCEPT ![s] = "anonymous"]
    /\ UNCHANGED <<sentinel, drafts, batch, archived, ledger, bucket, writer, clock>>

Initialize ==
    /\ ~sentinel /\ sentinel' = TRUE
    /\ UNCHANGED <<event, drafts, batch, archived, ledger, bucket, writer, clock, faults>>

Checkpoint ==
    [revision |-> Len(archived),
     last |-> IF archived = <<>> THEN 0 ELSE archived[Len(archived)].manifest.last,
     at |-> IF archived = <<>> THEN 0 ELSE archived[Len(archived)].time]

Live == {s \in DOMAIN event : event[s] # "compensated"}
Following == {s \in Live : s > Checkpoint.last}
UpTo(S, n) == {s \in S : s <= n}
Window == {s \in Following : Cardinality(UpTo(Following, s)) <= MaxRecords + 1}

\* An event that the sealer accepts as a record.
Acceptable(s) == s \notin Malformed
Fits(S) == Cardinality(S) <= MaxRecords /\ MapThenSumSet(LAMBDA s : Bytes[s], S) <= MaxBytes

\* The largest prefix within the bounds.
Largest == {s \in Window : Fits(UpTo(Window, s))}

Item(s) == [sequence |-> s, who |-> event[s]]
Snapshot(S) == {Item(s) : s \in S}
Sequences(items) == {i.sequence : i \in items}

Manifest(S, time) ==
    [generation |-> Checkpoint.revision + 1, from |-> Checkpoint.last, first |-> Min(S),
     last |-> Max(S), count |-> Cardinality(S), created |-> time]

\* The caller seals the head of the log.
Prepare ==
    /\ Cardinality(drafts) < MaxDrafts /\ Len(archived) < MaxBatches
    /\ Window # {} /\ (\A s \in Window : Acceptable(s)) /\ Largest # {}
    /\ drafts' = drafts \cup {[manifest |-> Manifest(Largest, clock), items |-> Snapshot(Largest)]}
    /\ UNCHANGED <<event, sentinel, batch, archived, ledger, bucket, writer, clock, faults>>

\* What a manifest says of itself, and of the records it comes with.
WellFormed(m) == m.from < m.first /\ m.first <= m.last /\ m.count \in 1..MaxRecords
Describes(m, items) ==
    LET S == Sequences(items)
    IN  m.count = Cardinality(S) /\ m.first = Min(S) /\ m.last = Max(S)
Candidate(d) == WellFormed(d.manifest) /\ Fits(Sequences(d.items)) /\ Describes(d.manifest, d.items)

\* The items equal the live rows between the checkpoint and the last of them, row
\* by row and both ways.
Complete(d) ==
    d.items = Snapshot({s \in Live : s > Checkpoint.last /\ s <= d.manifest.last})

KeyKnown == sentinel

Queueable(d) ==
    /\ KeyKnown /\ batch = NoBatch /\ Candidate(d)
    /\ d.manifest.generation = Checkpoint.revision + 1 /\ d.manifest.from = Checkpoint.last
    /\ d.manifest.created >= Checkpoint.at
    /\ Complete(d)

\* Rows of audit_archive_batch: one that waits or is over, and one under a lease.
Unleased(b, status, generation, attempts, due, updated) ==
    [revision |-> b.revision, manifest |-> b.manifest, items |-> b.items, sound |-> b.sound,
     status |-> status, generation |-> generation, attempts |-> attempts, due |-> due,
     started |-> 0, touched |-> 0, expires |-> 0, updated |-> updated]
Leased(b, attempts, started, touched, expires, updated) ==
    [revision |-> b.revision, manifest |-> b.manifest, items |-> b.items, sound |-> b.sound,
     status |-> "processing", generation |-> b.generation, attempts |-> attempts, due |-> 0,
     started |-> started, touched |-> touched, expires |-> expires, updated |-> updated]

\* Nothing proves to the repository that the envelope holds these records under the
\* key of the sentinel: sound says whether it does.
NewBatch(d, sound) ==
    LET b == [revision |-> d.manifest.generation - 1, manifest |-> d.manifest,
              items |-> d.items, sound |-> sound]
    IN  Unleased(b, "pending", 1, 0, d.manifest.created, d.manifest.created)

\* Queued, refused as a conflict, or aborted by the trigger. A caller that gets no
\* answer asks again.
Queue ==
    \E d \in drafts :
        /\ drafts' \in {drafts, drafts \ {d}}
        /\ IF Queueable(d) THEN \E sound \in BOOLEAN : batch' = NewBatch(d, sound)
                           ELSE UNCHANGED batch
        /\ UNCHANGED <<event, sentinel, archived, ledger, bucket, writer, clock, faults>>

-----------------------------------------------------------------------------
(* Leases                                                                  *)

Held == batch.status = "processing"
Lease(revision, generation, attempt, touched, expires) ==
    [revision |-> revision, generation |-> generation, attempt |-> attempt,
     touched |-> touched, expires |-> expires]
LeaseOf(b) == Lease(b.revision, b.generation, b.attempts, b.touched, b.expires)

\* The lease as acquired, which is what the caller of a writer has.
Acquired(b) == Lease(b.revision, b.generation, b.attempts, 0, b.started + LeaseTime)

\* The lease as it will be once it is renewed.
Renewed(l, time) == Lease(l.revision, l.generation, l.attempt, l.touched + 1, time + LeaseTime)

Attempt(l) == <<l.revision, l.generation, l.attempt>>
SameFence(l) == Held /\ Attempt(LeaseOf(batch)) = Attempt(l)

\* WHERE of every write of a holder; the triggers ask the same of the attempt.
BugFenceByAttempt(l) == SameFence(l)
Fenced(l) == Held /\ LeaseOf(batch) = l

\* How an attempt ends, why, and what was seen of the object: its body (full), its
\* attributes only (partial), or nothing.
End(outcome, why, seen) == [outcome |-> outcome, why |-> why, seen |-> seen]
Transient == End("transient", "transient", "nothing")
Corrupt(why, seen) == End("corrupt", why, seen)
Exact == End("archived", "none", "full")
Expired == End("lease_expired", "lease_expired", "nothing")

\* What a writer knows: before an upload, a readback or a lease is taken over (busy),
\* while a renewal is under way, and when it ends the attempt.
Busy(step, l, put) == [at |-> step, lease |-> l, put |-> put]
Renewing(step, l, next, put, time, tries, adoptions) ==
    [at |-> step, lease |-> l, next |-> next, put |-> put, time |-> time,
     tries |-> tries, adoptions |-> adoptions]
Ending(l, end, time, tries, applied) ==
    [at |-> "settle", lease |-> l, end |-> end, time |-> time, tries |-> tries,
     applied |-> applied]
Becomes(w, me) == writer' = [writer EXCEPT ![w] = me]

Claimable(w) == batch.status \in {"pending", "retry"} /\ batch.due <= Now(w)

\* The answer may be lost: the attempt is open, and no writer has it.
Claim(w) ==
    /\ writer[w].at = "idle" /\ Claimable(w) /\ batch.attempts < MaxAttempts
    /\ batch' = Leased(batch, batch.attempts + 1, Now(w), 0, Now(w) + LeaseTime, Now(w))
    /\ \/ Becomes(w, Busy("start", LeaseOf(batch'), "none")) /\ NoFault
       \/ Fault /\ UNCHANGED writer
    /\ UNCHANGED <<source, archived, ledger, bucket, clock>>

\* A caller that has the lease starts a writer on it, perhaps once more. A writer
\* whose clock is before the lease gives up at once.
Resume(w) ==
    /\ writer[w].at = "idle" /\ Held /\ batch.started <= Now(w)
    /\ Becomes(w, Busy("start", Acquired(batch), "none"))
    /\ UNCHANGED <<source, batch, archived, ledger, bucket, clock, faults>>

-----------------------------------------------------------------------------
(* Ends of an attempt, as the writer intends them                          *)

Silent(w) == Becomes(w, Idle)
Told(w, outcome) ==
    IF outcome = "lease_lost" THEN Silent(w)
    ELSE Becomes(w, [at |-> "idle",
                     said |-> {[attempt |-> Attempt(writer[w].lease), outcome |-> outcome]}])

\* Past the lease, whatever happened is an expiry.
Ended(l, end, time) ==
    IF time >= l.expires THEN Expired
    ELSE IF end # Transient THEN end
    ELSE End(IF l.attempt >= MaxAttempts THEN "dead" ELSE "retry", end.why, end.seen)

Intends(w, l, end) == Becomes(w, Ending(l, Ended(l, end, Now(w)), Now(w), 2, FALSE))

\* ensureLeaseForIo: expire, go on, or renew first.
Ready(w, l, next, put, left) ==
    IF Now(w) >= l.expires THEN Intends(w, l, Expired)
    ELSE IF l.expires - Now(w) >= RenewBelow THEN Becomes(w, Busy(next, l, put))
    ELSE Becomes(w, Renewing("renew", l, next, put, Now(w), 2, left))

\* adoptAuditArchiveLease
Adoptable(l, time) ==
    /\ SameFence(l)
    /\ \/ LeaseOf(batch) = l
       \/ /\ batch.touched > l.touched /\ batch.expires > l.expires
          /\ batch.updated <= time /\ batch.expires > time

Adopt(w) ==
    LET l == writer[w].lease
    IN  /\ writer[w].at = "start"
        /\ \/ Fault /\ Intends(w, l, Transient)
           \/ NoFault /\ ~Adoptable(l, Now(w)) /\ Told(w, "lease_lost")
           \/ NoFault /\ Adoptable(l, Now(w)) /\ Ready(w, LeaseOf(batch), "read", "none", 1)
        /\ UNCHANGED <<source, batch, archived, ledger, bucket, clock>>

\* A renewal whose first answer was lost is sent again as it was. One fault may
\* outlast both tries.
Renew(w) ==
    LET me == writer[w]
        l == me.lease
        target == Renewed(l, me.time)
        applies == Fenced(l) /\ me.time < l.expires /\ target.expires > l.expires
        write == batch' = Leased(batch, batch.attempts, batch.started, target.touched,
                                 target.expires, me.time)
        Step(step, left) ==
            Becomes(w, Renewing(step, l, me.next, me.put, me.time, left, me.adoptions))
        Lost == \E left \in 0..(me.tries - 1) : Step(IF left = 0 THEN "unsure" ELSE "renew", left)
        Holds == Becomes(w, Busy(me.next, target, me.put))
        Beaten == Step("beaten", 0)
    IN  /\ me.at = "renew"
        /\ \/ applies /\ write /\ Holds /\ NoFault
           \/ applies /\ write /\ Lost /\ Fault
           \/ UNCHANGED batch /\ Lost /\ Fault
           \/ ~applies /\ UNCHANGED batch /\ NoFault /\ IF Fenced(target) THEN Holds ELSE Beaten
        /\ UNCHANGED <<source, archived, ledger, bucket, clock>>

\* After a renewal that was refused (beaten) or whose fate is unknown (unsure).
ReadLease(w) ==
    LET me == writer[w]
        l == me.lease
        descends == Adoptable(l, me.time) /\ LeaseOf(batch) # l
    IN  /\ me.at \in {"beaten", "unsure"}
        /\ \/ Fault /\ Intends(w, l, Transient)
           \/ /\ NoFault /\ descends
              /\ IF me.adoptions = 0 THEN Told(w, "lease_lost")
                 ELSE Ready(w, LeaseOf(batch), me.next, me.put, 0)
           \/ NoFault /\ ~descends /\ me.at = "unsure" /\ Intends(w, l, Transient)
           \/ NoFault /\ ~descends /\ me.at = "beaten" /\ Told(w, "lease_lost")
        /\ UNCHANGED <<source, batch, archived, ledger, bucket, clock>>

-----------------------------------------------------------------------------
(* One write                                                               *)

\* The envelope is read under the exact lease, and opened before it is uploaded.
Opens(b) == b.sound /\ Describes(b.manifest, b.items)
Verified(b) == Opens(b)

Read(w) ==
    LET l == writer[w].lease
    IN  /\ writer[w].at = "read"
        /\ \/ Fault /\ Intends(w, l, Transient)
           \/ NoFault /\ ~Fenced(l) /\ Told(w, "lease_lost")
           \/ NoFault /\ Fenced(l) /\ ~Verified(batch) /\ Intends(w, l, Corrupt("crypto_integrity", "nothing"))
           \/ NoFault /\ Fenced(l) /\ Verified(batch) /\ Ready(w, l, "put", "none", 1)
        /\ UNCHANGED <<source, batch, archived, ledger, bucket, clock>>

\* Someone else writes an object of this name: the same bytes with other metadata,
\* or other bytes.
Intrude ==
    /\ batch # NoBatch /\ bucket[batch.revision] = "none" /\ Fault
    /\ \E o \in {"relabelled", "different"} : bucket' = [bucket EXCEPT ![batch.revision] = o]
    /\ UNCHANGED <<source, batch, archived, ledger, writer, clock>>

\* If-None-Match: *. An answer may be lost after or instead of the upload, and a
\* store at fault may keep other bytes than it was given.
Put(w) ==
    LET r == writer[w].lease.revision
        Go(outcome) == Ready(w, writer[w].lease, "get", outcome, 1)
        Store(o) == bucket' = [bucket EXCEPT ![r] = o]
    IN  /\ writer[w].at = "put"
        /\ \/ bucket[r] = "none" /\ Store("exact") /\ Go("created") /\ NoFault
           \/ bucket[r] = "none" /\ Store("exact") /\ Go("uncertain") /\ Fault
           \/ bucket[r] = "none" /\ Store("different") /\ Go("created") /\ Fault
           \/ bucket[r] # "none" /\ UNCHANGED bucket /\ Go("precondition_failed") /\ NoFault
           \/ UNCHANGED bucket /\ Go("uncertain") /\ Fault
        /\ UNCHANGED <<source, batch, archived, ledger, clock>>

\* Other bytes may be of any size, and it is not known what of them can be read.
Readable(o) == IF o = "different" THEN {"full", "partial"} ELSE {"full"}
SameBytes(o) == o \in {"exact", "relabelled"}
SameMetadata(o) == o # "relabelled"

BugBytesOnly(o) == SameBytes(o)
ExactReadback(o) == SameBytes(o) /\ SameMetadata(o)

\* Read back and compared. (It is also opened once more, with the answer that the
\* same bytes had before.) What cannot be read in full is a conflict, unless the
\* writer itself has just created the object.
BugReadAnyway(created, seen) == Corrupt(IF created THEN "r2_readback_mismatch" ELSE "r2_object_conflict", seen)
Mismatch(created, seen) ==
    IF created /\ seen = "partial" THEN Transient
    ELSE Corrupt(IF created THEN "r2_readback_mismatch" ELSE "r2_object_conflict", seen)

Get(w) ==
    LET me == writer[w]
        l == me.lease
        o == bucket[l.revision]
    IN  /\ me.at = "get"
        /\ \/ Fault /\ Intends(w, l, Transient)
           \/ NoFault /\ o = "none" /\ Intends(w, l, Transient)
           \/ /\ NoFault /\ o # "none" /\ ~ExactReadback(o)
              /\ \E seen \in Readable(o) : Intends(w, l, Mismatch(me.put = "created", seen))
           \/ NoFault /\ ExactReadback(o) /\ Intends(w, l, Exact)
        /\ UNCHANGED <<source, batch, archived, ledger, bucket, clock>>

\* The runtime reads the leases that are over, and ends one of them.
Sweep(w) ==
    /\ writer[w].at = "idle" /\ Held /\ batch.expires <= Now(w)
    /\ Becomes(w, Ending(LeaseOf(batch), Expired, Now(w), 2, FALSE))
    /\ UNCHANGED <<source, batch, archived, ledger, bucket, clock, faults>>

-----------------------------------------------------------------------------
(* terminalizeAuditArchiveAttempt                                          *)

Result(outcome, attempt) ==
    IF outcome # "lease_expired" THEN outcome
    ELSE IF attempt >= MaxAttempts THEN "dead" ELSE "retry"

Receipt(w) ==
    [attempt |-> Attempt(writer[w].lease), outcome |-> writer[w].end.outcome]

\* The digests and the size of what was read back are those of the batch.
Evident(w) ==
    writer[w].end.outcome = "archived" => SameBytes(bucket[writer[w].lease.revision])

RetryAt(l, time) == time + Backoff[l.attempt]

Advance(b, time) ==
    /\ archived' = Append(archived, [revision |-> b.revision, manifest |-> b.manifest,
                                     items |-> b.items, sound |-> b.sound, time |-> time])
    /\ batch' = NoBatch

\* One update ends the attempt; its triggers settle the batch and, for an archived
\* one, drop the envelope and move the checkpoint.
Apply(w) ==
    LET me == writer[w]
        status == Result(me.end.outcome, me.lease.attempt)
        due == IF status = "retry" THEN RetryAt(me.lease, me.time) ELSE 0
    IN  /\ ledger' = ledger \cup {Receipt(w)}
        /\ IF status = "archived"
           THEN Advance(batch, me.time)
           ELSE /\ batch' = Unleased(batch, status, batch.generation, batch.attempts, due, me.time)
                /\ UNCHANGED archived

\* The receipt found is that of the same end: this writer's, whose answer was lost,
\* or by chance another's at the same instant with the same evidence.
BugAnyReceipt(w) == {"duplicate"}
Answers(w) ==
    IF writer[w].applied THEN {"duplicate"}
    ELSE IF Receipt(w) \in ledger THEN {"duplicate", "conflict"} ELSE {"conflict"}

Settle(w) ==
    LET me == writer[w]
        applies == Fenced(me.lease) /\ Evident(w)
        Unanswered(applied) ==
            /\ Fault
            /\ \/ Silent(w)
               \/ me.tries = 2 /\ Becomes(w, Ending(me.lease, me.end, me.time, 1, applied))
    IN  /\ me.at = "settle"
        /\ \/ applies /\ Apply(w) /\ Told(w, me.end.outcome) /\ NoFault
           \/ applies /\ Apply(w) /\ Unanswered(TRUE)
           \/ UNCHANGED <<ledger, batch, archived>> /\ Unanswered(me.applied)
           \/ /\ ~applies /\ UNCHANGED <<ledger, batch, archived>> /\ NoFault
              /\ \E a \in Answers(w) : Told(w, IF a = "conflict" THEN "lease_lost" ELSE me.end.outcome)
        /\ UNCHANGED <<source, bucket, clock>>

\* An operator sends a dead batch again; the replay is itself an audit event.
Replay(w) ==
    /\ batch.status = "dead" /\ batch.generation < MaxGeneration /\ batch.updated <= Now(w)
    /\ Len(event) < MaxEvents
    /\ event' = Append(event, "named")
    /\ batch' = Unleased(batch, "pending", batch.generation + 1, 0, Now(w), Now(w))
    /\ UNCHANGED <<sentinel, drafts, archived, ledger, bucket, writer, clock, faults>>

Works(w) == Adopt(w) \/ Renew(w) \/ ReadLease(w) \/ Read(w) \/ Put(w) \/ Get(w) \/ Settle(w)

Next ==
    \/ Tick \/ Record \/ Forget \/ Initialize \/ Prepare \/ Queue \/ Intrude
    \/ \E w \in Writer : Claim(w) \/ Resume(w) \/ Sweep(w) \/ Works(w) \/ Replay(w)

Spec == Init /\ [][Next]_vars

-----------------------------------------------------------------------------
(* What the archive promises                                               *)

\* verifyAndOpenAuditArchiveObjectV1: an object that is not the one of the manifest,
\* in its metadata or its bytes, or that does not open, restores nothing.
Labelled(o) == o # "relabelled"
Whole(o) == o \in {"exact", "relabelled"}
Detached(b) == IF Fits(Sequences(b.items)) /\ Describes(b.manifest, b.items) THEN b.items ELSE {}
Restored(b) ==
    IF WellFormed(b.manifest) /\ Labelled(bucket[b.revision]) /\ Whole(bucket[b.revision]) /\ Opens(b)
    THEN Detached(b) ELSE {}

\* What the checkpoint has passed can be restored from R2: every event that was not
\* compensated is in exactly one archived object, as it was written or as it was
\* once its actor's account was gone.
ArchiveIsComplete ==
    \A s \in 1..Checkpoint.last :
        event[s] # "compensated" =>
            /\ Cardinality({n \in DOMAIN archived :
                  \E i \in Restored(archived[n]) : i.sequence = s}) = 1
            /\ \A n \in DOMAIN archived : \A i \in Restored(archived[n]) :
                  i.sequence = s => i.who \in {"named", event[s]}

\* What the functions that end an attempt ask of their arguments ...
Valid(end, l, time) ==
    /\ (end.outcome = "lease_expired") = (time >= l.expires)
    /\ end.outcome = "archived" => end.seen = "full"
    /\ end.outcome \in {"retry", "dead"} => end.why = "transient" /\ end.seen = "nothing"
    /\ end.outcome = "dead" => l.attempt = MaxAttempts
    /\ end.why = "r2_object_conflict" => end.seen # "nothing"
    /\ end.why = "r2_readback_mismatch" => end.seen = "full"
    /\ end.why = "crypto_integrity" => end.seen # "partial"

\* ... the tables of their rows.
AttemptCheck(end, l) ==
    \/ end.outcome = "archived" /\ end.seen = "full" /\ end.why = "none"
    \/ end.outcome = "retry" /\ l.attempt < MaxAttempts /\ end.seen = "nothing" /\ end.why # "none"
    \/ end.outcome = "dead" /\ l.attempt = MaxAttempts /\ end.seen = "nothing" /\ end.why # "none"
    \/ end.outcome = "corrupt" /\ (end.why = "crypto_integrity" => end.seen # "partial")
                               /\ (end.why = "r2_object_conflict" => end.seen # "nothing")
                               /\ (end.why = "r2_readback_mismatch" => end.seen = "full")
                               /\ end.why \in {"crypto_integrity", "r2_object_conflict", "r2_readback_mismatch"}
    \/ end.outcome = "lease_expired" /\ end.seen = "nothing" /\ end.why = "lease_expired"
BatchCheck(b) ==
    /\ CASE b.status = "pending" -> b.attempts = 0
         [] b.status = "retry" -> b.attempts \in 1..(MaxAttempts - 1)
         [] b.status = "dead" -> b.attempts = MaxAttempts
         [] OTHER -> b.attempts \in 1..MaxAttempts
    /\ b.expires > 0 <=> b.status = "processing"
    /\ b.updated >= b.manifest.created
    /\ WellFormed(b.manifest) /\ b.manifest.generation = b.revision + 1

\* Neither those functions nor the tables refuse an end that a writer has come to:
\* the attempt would stay open until its lease is over, and every later attempt
\* would come to the same end.
EndsAreAccepted ==
    /\ \A w \in Writer : LET me == writer[w] IN
          me.at = "settle" => Valid(me.end, me.lease, me.time) /\ AttemptCheck(me.end, me.lease)
    /\ batch # NoBatch => BatchCheck(batch)

\* What a writer tells its caller is what the ledger says of its attempt, whoever
\* ended it and however many answers were lost. (That the last attempt expired is
\* told as the "dead" it makes of the batch; it is "lease_expired" here.)
ReportsAreTrue ==
    \A w \in Writer : writer[w].at = "idle" =>
        \A said \in writer[w].said :
            \E r \in ledger : r.attempt = said.attempt /\ r.outcome = said.outcome

\* An attempt ends once, while it is the open one; as expired only when the lease
\* it then has is over, and otherwise only before. No attempt starts over another.
AttemptsEndOnce ==
    [][/\ ledger \subseteq ledger'
       /\ \A r \in ledger' \ ledger :
             /\ Held /\ r.attempt = Attempt(LeaseOf(batch))
             /\ \E w \in Writer :
                   /\ writer[w].at = "settle" /\ writer'[w] # writer[w]
                   /\ (r.outcome = "lease_expired") = (writer[w].time >= batch.expires)
       /\ batch # NoBatch /\ batch' # NoBatch /\ batch.revision = batch'.revision
             /\ batch'.attempts > batch.attempts => ~Held]_vars
=============================================================================
