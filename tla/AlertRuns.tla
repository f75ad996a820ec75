-------------------------------- MODULE AlertRuns --------------------------------
(***************************************************************************)
(* The evaluator of the alerts as a run: the cron starts a worker, which   *)
(* takes the lease, binds the moment it evaluates, reads its sources, caps *)
(* and plans its work, seals the plan, decides alert after alert, and      *)
(* closes the run as a success (which moves the watermark) or a failure.   *)
(* A worker may die anywhere; the next cron takes the expired lease over   *)
(* while the first one may still be running. Every write carries the       *)
(* worker's fence: generation, lease revision and expiry.                  *)
(*                                                                         *)
(* There is no common clock: each worker stamps with its own, which only   *)
(* moves forward. Stamps of one run differ by at least a tick too small to *)
(* count, so comparisons within a run are not modelled. Writes whose       *)
(* answer is lost are read back and count as written.                      *)
(***************************************************************************)
EXTENDS AlertLifecycle, AlertSources, Sequences, SequencesExt

CONSTANTS Worker,          \* invocations that may be under way together
          Key,             \* alerts: rule and dimension
          Place,           \* Key -> its place in the canonical order
          GroupOf,         \* Key -> its rule and kind of dimension
          Observed,        \* Key -> evaluations its observations may lead to
          Lease,           \* length of a lease (240 seconds)
          RenewThreshold,  \* renewed when no more than this is left (120 seconds)
          MaxWork,         \* observations that one run can afford
          RenewEvery,      \* decisions between two looks at the lease (25)
          Occurrence,      \* scheduled times of the cron
          MaxTime,         \* bound: stamps
          MaxRuns,         \* bound: runs
          MaxActs          \* bound: what operators do to each alert

ASSUME RunsAssumption ==
    /\ IsFiniteSet(Key) /\ GroupOf \in [Key -> Group]
    /\ Place \in [Key -> Nat] /\ \A j, k \in Key : Place[j] = Place[k] => j = k
    /\ Lease \in Nat /\ RenewThreshold \in 0..(Lease - 1)
    /\ MaxWork >= Cardinality(Source) /\ RenewEvery \in Nat \ {0}
    /\ Occurrence \subseteq Nat /\ MaxTime \in Nat /\ MaxRuns \in Nat /\ MaxActs \in [Key -> Nat]
    /\ \A k \in Key : \A e \in Observed[k] :
         /\ e.severity \in Severities /\ e.known \in BOOLEAN /\ e.immediate \in BOOLEAN
         /\ e.evidence.severity = e.severity

VARIABLES runtime,   \* alert_runtime_status of the evaluator
          run,       \* alert_evaluator_run, by generation
          proofs,    \* what the newest run has bound, sealed and recorded
          row,       \* alert_state and the current incident, for each alert
          worker     \* what an invocation knows

vars == <<runtime, run, proofs, row, worker>>

Runtime(generation, revision, lease, expires, updated, status, watermark) ==
    [generation |-> generation, revision |-> revision, lease |-> lease,
     expires |-> expires, updated |-> updated, status |-> status, watermark |-> watermark]

NoLease == 0
NoRun == 0
NoRuntime == Runtime(-1, 0, NoLease, 0, 0, "none", 0)

\* life is the state as of `at`; `by` the run that wrote it, NoRun for an operator;
\* `acts` counts what operators did to its incidents, `revision` every write.
Row(life, at, by, revision, acts) ==
    [life |-> life, at |-> at, by |-> by, revision |-> revision, acts |-> acts]

NoRow == Row(Inactive(0), 0, NoRun, 0, 0)
Present(r) == r.revision > 0

Idle == [at |-> "idle"]

\* The proofs of earlier runs stay in the tables and are never read again: they
\* are left out. decided carries the run that recorded each decision.
NoProofs == [asOf |-> 0, sources |-> [s \in Source |-> "unread"], planned |-> <<>>,
             decided |-> <<>>]

Init ==
    /\ runtime = NoRuntime /\ run = <<>> /\ proofs = NoProofs
    /\ row = [k \in Key |-> NoRow]
    /\ worker = [w \in Worker |-> Idle]

Stamps(w) == worker[w].clock..MaxTime
At(w, step) == worker[w].at = step
Goes(w, step, t) == [worker EXCEPT ![w] = [@ EXCEPT !.at = step, !.clock = t,
                                                    !.checked = FALSE]]
Leaves(w) == [worker EXCEPT ![w] = Idle]

-------------------------------------------------------------------------------
(* Starting: initializeAlertEvaluatorRuntime, acquireAlertEvaluatorRun     *)

Initialize(w, t) ==
    /\ At(w, "idle")
    /\ runtime = NoRuntime
    /\ runtime' = Runtime(0, 0, NoLease, 0, t, "disabled", 0)
    /\ UNCHANGED <<run, proofs, row, worker>>

\* (slip: a clock that lags behind the last run is not noticed)
BugSlowClock(r, t) == r.lease = NoLease \/ r.expires <= t

\* The lease is free, or has expired on the clock of who wants it.
Vacant(r, t) == r.updated < t /\ (r.lease = NoLease \/ r.expires <= t)

Ran(occurrence) == \E g \in DOMAIN run : run[g].occurrence = occurrence

\* The occurrence and the runtime are read; who finds a run or a holder leaves.
Start(w, occurrence, t) ==
    /\ At(w, "idle")
    /\ occurrence <= t
    /\ runtime # NoRuntime /\ ~Ran(occurrence) /\ Vacant(runtime, t)
    /\ Len(run) < MaxRuns
    /\ worker' = [worker EXCEPT ![w] =
         [at |-> "acquire", clock |-> t, checked |-> FALSE, occurrence |-> occurrence,
          generation |-> runtime.generation, revision |-> runtime.revision,
          expires |-> t + Lease, asOf |-> 0, status |-> [s \in Source |-> "unread"],
          plan |-> <<>>, next |-> 1, again |-> FALSE]]
    /\ UNCHANGED <<runtime, run, proofs, row>>

NewRun(w) == [status |-> "running", occurrence |-> worker[w].occurrence]

\* The insertion of the run takes the lease in its triggers, if the runtime is
\* still the one that was read, and abandons the run it takes it from.
Acquire(w) ==
    /\ At(w, "acquire")
    /\ LET t == worker[w].clock
           g == worker[w].generation + 1
           v == worker[w].revision + 1
           old == [h \in DOMAIN run |->
                     IF h = g - 1 /\ run[h].status \in {"running", "sealed"}
                     THEN [run[h] EXCEPT !.status = "abandoned"] ELSE run[h]]
       IN  IF /\ ~Ran(worker[w].occurrence) /\ Vacant(runtime, t)
              /\ runtime.generation = g - 1 /\ runtime.revision = v - 1
           THEN /\ run' = Append(old, NewRun(w))
                /\ proofs' = NoProofs
                /\ runtime' = Runtime(g, v, g, worker[w].expires, t, runtime.status,
                                      runtime.watermark)
                /\ worker' = [worker EXCEPT ![w] = [@ EXCEPT !.at = "bind", !.generation = g,
                                                             !.revision = v]]
           ELSE worker' = Leaves(w) /\ UNCHANGED <<runtime, run, proofs>>
    /\ UNCHANGED row

-------------------------------------------------------------------------------
(* The fence                                                               *)

Run(w) == run[worker[w].generation]

\* (slip: a write is not compared with the lease)
BugUnfenced(w, status) == Run(w).status \in {"running", "sealed", "abandoned"}

\* The worker holds the lease: no one has taken it over.
Fenced(w, status) ==
    /\ Run(w).status = status
    /\ runtime.lease = worker[w].generation /\ runtime.revision = worker[w].revision

\* On its own clock the lease has not expired.
InTime(w, t) == t < worker[w].expires

Becomes(w, status) == [run EXCEPT ![worker[w].generation].status = status]

\* maybeRenew: before every stage, and every RenewEvery decisions.
CheckedSteps == {"collect", "record", "plan", "seal", "decide", "close"}

\* A look at the lease is due at each stage, and in the list of decisions.
CheckDue(w) ==
    /\ worker[w].at \in CheckedSteps /\ ~worker[w].checked
    /\ At(w, "decide") =>
         \/ worker[w].again
         \/ worker[w].next > 1 /\ (worker[w].next - 1) % RenewEvery = 0

CheckLease(w, t) ==
    /\ CheckDue(w)
    /\ IF worker[w].expires - t > RenewThreshold
       THEN /\ worker' = [worker EXCEPT ![w] = [@ EXCEPT !.clock = t, !.checked = TRUE]]
            /\ UNCHANGED runtime
       ELSE IF ~InTime(w, t)
       THEN worker' = Goes(w, "fail", t) /\ UNCHANGED runtime
       ELSE IF \E status \in {"running", "sealed"} : Fenced(w, status)
       THEN /\ runtime' = [runtime EXCEPT !.revision = @ + 1, !.expires = t + Lease,
                                          !.updated = t]
            /\ worker' = [worker EXCEPT ![w] = [@ EXCEPT !.clock = t, !.checked = TRUE,
                                                 !.revision = worker[w].revision + 1,
                                                 !.expires = t + Lease]]
       ELSE worker' = Leaves(w) /\ UNCHANGED runtime
    /\ UNCHANGED <<run, proofs, row>>

Ready(w, step) == At(w, step) /\ ~CheckDue(w)

-------------------------------------------------------------------------------
(* Binding the moment and reading the sources                              *)

\* collectQueueMetricBarrier, bindAlertEvaluatorRunAsOf: the moment is stamped
\* when the Queues have answered, and bound a moment later.
Bind(w, asOf, t) ==
    /\ At(w, "bind")
    /\ asOf <= t
    /\ IF ~InTime(w, t)
       THEN worker' = Goes(w, "fail", t) /\ UNCHANGED proofs
       ELSE IF Fenced(w, "running")
       THEN /\ proofs' = [proofs EXCEPT !.asOf = asOf]
            /\ worker' = [worker EXCEPT ![w] = [@ EXCEPT !.at = "collect", !.clock = t,
                                                         !.asOf = asOf]]
       ELSE worker' = Leaves(w) /\ UNCHANGED proofs
    /\ UNCHANGED <<runtime, run, row>>

\* Rows that a reader asks for even when nothing happened: they get an
\* observation of zeros.
Tracked(k) ==
    LET s == row[k].life
    IN  s.status # "none" \/ s.breaches > 0 \/ s.clears > 0 \/ s.cooldown > 0

KeysOf(s) == {k \in Key : SourceOf[GroupOf[k]] = s}

\* The alerts a reader answers for: global ones always, hashed ones when they are
\* tracked; others when something has happened.
Due(groups) == {k \in Key : GroupOf[k] \in groups /\ (GroupOf[k] \notin Hashed \/ Tracked(k))}

Found(groups) ==
    LET keys == {k \in Key : GroupOf[k] \in groups}
    IN  UNION {{f \in [S -> UNION {Observed[k] : k \in S}] : \A k \in S : f[k] \in Observed[k]} :
                 S \in {S \in SUBSET keys : Due(groups) \subseteq S}}

Succeeded == \E g \in DOMAIN run : run[g].status = "succeeded"

Readings(s) ==
    UNION {{[status |-> r.status, gaps |-> r.gaps, found |-> f] : f \in Found(r.kept)} :
             r \in Results[s][Succeeded]}

\* The alerts in canonical order.
Ordered(S) ==
    {q \in [1..Cardinality(S) -> S] :
       ToSet(q) = S /\ \A i, j \in DOMAIN q : i < j => Place[q[i]] < Place[q[j]]}

Before(S, k) == {j \in S : Place[j] < Place[k]}

\* applyWorkCap: the first observation of every source, then the others in
\* order, as far as the budget reaches.
Retained(keys) ==
    LET firsts == {k \in keys : Before(keys \cap KeysOf(SourceOf[GroupOf[k]]), k) = {}}
        others == keys \ firsts
    IN  firsts \cup {k \in others : Cardinality(firsts) + Cardinality(Before(others, k)) < MaxWork}

\* (slip: what the budget left out is not reported)
BugCapUnreported(status, keys, kept) == status

\* A source of which something was left out is partial, and all of it counts as
\* known in part.
Capped(status, keys, kept) ==
    IF status = "complete" /\ keys \ kept # {} THEN "partial" ELSE status

Item(k, evaluation, partial) == [key |-> k, evaluation |-> evaluation, partial |-> partial]

\* observationIsPartial
KnownInPart(k, reading, kept) ==
    DOMAIN reading.found \ kept # {} \/ GroupOf[k] \in reading.gaps

\* A worker has one reading for each source.
AllOf(reading) == UNION {DOMAIN reading[s].found : s \in Source}

StatusOf(reading, kept) ==
    [s \in Source |-> Capped(reading[s].status, DOMAIN reading[s].found, kept)]

WorkOf(reading, kept, order) ==
    [i \in 1..Cardinality(kept) |->
       LET k == order[i]
           of == reading[SourceOf[GroupOf[k]]]
       IN  Item(k, of.found[k], KnownInPart(k, of, kept))]

\* collectQueueSources, collectD1Sources, applyWorkCap. The readers run one
\* after the other and read disjoint rows: they are one step.
Collect(w, t) ==
    /\ Ready(w, "collect")
    /\ \E reading \in [Source -> UNION {Readings(s) : s \in Source}] :
         /\ \A s \in Source : reading[s] \in Readings(s)
         /\ LET kept == Retained(AllOf(reading))
            IN  \E order \in Ordered(kept) :
                  worker' = [worker EXCEPT ![w] = [@ EXCEPT
                    !.at = "record", !.clock = t, !.checked = FALSE,
                    !.status = StatusOf(reading, kept),
                    !.plan = WorkOf(reading, kept, order)]]
    /\ UNCHANGED <<runtime, run, proofs, row>>

\* recordAlertEvaluatorRunSource, for one source after the other.
RecordSources(w, t) ==
    /\ Ready(w, "record")
    /\ IF Fenced(w, "running") /\ InTime(w, t)
       THEN /\ proofs' = [proofs EXCEPT !.sources = worker[w].status]
            /\ worker' = Goes(w, "plan", t)
       ELSE worker' = Leaves(w) /\ UNCHANGED proofs
    /\ UNCHANGED <<runtime, run, row>>

-------------------------------------------------------------------------------
(* Planning and sealing                                                    *)

Rank(severity) == CASE severity = "none" -> 0 [] severity = "warning" -> 1
                    [] severity = "critical" -> 2
Higher(m, n) == IF m >= n THEN m ELSE n
Standing(s) == Higher(Rank(s.status), Rank(s.breach.severity))

\* (slip: a recovery is not held back)
BugPartialAllowed(e, s) == e.known /\ (e.severity = "none" \/ Rank(e.severity) >= Standing(s))

\* partialDecisionAllowed
PartialAllowed(e, s) == e.known /\ e.severity # "none" /\ Rank(e.severity) >= Standing(s)

LongestReminder == Higher(WarningReminder, CriticalReminder)
Left(n, passed) == IF n > passed THEN n - passed ELSE 0
Earlier(m, n) == IF m <= n THEN m ELSE n

\* The state of the row, aged to the moment of the run.
Aged(r, asOf) ==
    LET s == r.life
        passed == asOf - r.at
    IN  State(s.status, s.active, s.breach, s.breaches, s.clears, Left(s.cooldown, passed),
              IF s.status = "none" THEN 0 ELSE Earlier(s.quiet + passed, LongestReminder))

\* An alert without a row stays without one unless it is breached.
Nothing(r, e) == ~Present(r) /\ e.severity = "none"

\* What planDecisions makes of one observation.
Planned(w, item) ==
    LET r == row[item.key]
        e == item.evaluation
        result == Advance(Aged(r, worker[w].asOf), e, "automatic")
        disposition == IF item.partial /\ ~PartialAllowed(e, r.life) THEN "suppressed_partial"
                       ELSE IF Nothing(r, e) THEN "no_state_change" ELSE "applied"
    IN  [key |-> item.key, evaluation |-> e, partial |-> item.partial,
         disposition |-> disposition, result |-> result, revision |-> r.revision, acts |-> r.acts]

\* The alert was evaluated at this moment or later: advanceAlertLifecycle throws.
Evaluated(w, k) == Present(row[k]) /\ row[k].at >= worker[w].asOf

PlanDecisions(w, t) ==
    /\ Ready(w, "plan")
    /\ LET items == worker[w].plan
       IN  IF \E i \in 1..Len(items) : Evaluated(w, items[i].key)
           THEN worker' = Goes(w, "fail", t)
           ELSE worker' = [worker EXCEPT ![w] = [@ EXCEPT
                             !.at = "seal", !.clock = t, !.checked = FALSE,
                             !.plan = [i \in 1..Len(items) |-> Planned(w, items[i])]]]
    /\ UNCHANGED <<runtime, run, proofs, row>>

\* decisionProof: what is sealed, and later recorded, of a decision.
Proof(w, item) == [by |-> worker[w].generation, key |-> item.key,
                   disposition |-> item.disposition, result |-> item.result]

\* sealAlertEvaluatorRunPlan
Seal(w, t) ==
    /\ Ready(w, "seal")
    /\ IF Fenced(w, "running") /\ InTime(w, t)
       THEN /\ run' = Becomes(w, "sealed")
            /\ proofs' = [proofs EXCEPT
                 !.planned = [i \in 1..Len(worker[w].plan) |-> Proof(w, worker[w].plan[i])]]
            /\ worker' = Goes(w, IF worker[w].plan = <<>> THEN "close" ELSE "decide", t)
       ELSE worker' = Leaves(w) /\ UNCHANGED <<run, proofs>>
    /\ UNCHANGED <<runtime, row>>

-------------------------------------------------------------------------------
(* Deciding                                                                *)

Now(w) == worker[w].plan[worker[w].next]

\* (slip: the retry compares only how the alert is disposed of)
BugSameDisposition(a, b) == a.disposition = b.disposition

\* A decision that is computed again must be the one that was sealed.
SameProof(a, b) == a.disposition = b.disposition /\ a.result = b.result

\* Revision, status and time of row and incident are those of the snapshot.
Unchanged(item) ==
    item.revision = row[item.key].revision /\ item.acts = row[item.key].acts

NextItem(w, t) ==
    IF worker[w].next = Len(worker[w].plan)
    THEN Goes(w, "close", t)
    ELSE [worker EXCEPT ![w] = [@ EXCEPT !.clock = t, !.checked = FALSE, !.again = FALSE,
                                         !.next = worker[w].next + 1]]

DecisionRecorded(w) == [proofs EXCEPT !.decided = Append(@, Proof(w, Now(w)))]

Applied(w) ==
    [row EXCEPT ![Now(w).key] =
       Row(Now(w).result.state, worker[w].asOf, worker[w].generation, @.revision + 1, @.acts)]

\* recordStatelessAlertEvaluatorDecision: an alert that is left alone.
DecideStateless(w, t) ==
    /\ Ready(w, "decide")
    /\ Now(w).disposition # "applied"
    /\ IF /\ Fenced(w, "sealed") /\ InTime(w, t)
          /\ Now(w).disposition = "no_state_change" => ~Present(row[Now(w).key])
       THEN proofs' = DecisionRecorded(w) /\ worker' = NextItem(w, t)
       ELSE worker' = Leaves(w) /\ UNCHANGED proofs
    /\ UNCHANGED <<runtime, run, row>>

\* persistAlertLifecycleDecision: row, incident, mail and proof in one batch.
DecideApplied(w, t) ==
    /\ Ready(w, "decide")
    /\ Now(w).disposition = "applied"
    /\ InTime(w, t) /\ Fenced(w, "sealed") /\ Unchanged(Now(w))
    /\ row' = Applied(w)
    /\ proofs' = DecisionRecorded(w)
    /\ worker' = NextItem(w, t)
    /\ UNCHANGED <<runtime, run>>

\* A conflict: the alert is read and decided once more, and must come out as it
\* was sealed; a second conflict, or another decision, ends the run.
DecideAgain(w, t) ==
    /\ Ready(w, "decide")
    /\ Now(w).disposition = "applied"
    /\ ~(InTime(w, t) /\ Fenced(w, "sealed") /\ Unchanged(Now(w)))
    /\ LET again == Planned(w, Now(w))
       IN  IF /\ InTime(w, t) /\ ~worker[w].again
              /\ ~Evaluated(w, Now(w).key) /\ SameProof(again, Now(w))
           THEN worker' = [worker EXCEPT ![w] = [@ EXCEPT
                             !.clock = t, !.checked = FALSE, !.again = TRUE,
                             !.plan = [worker[w].plan EXCEPT ![worker[w].next] = again]]]
           ELSE worker' = Goes(w, "fail", t)
    /\ UNCHANGED <<runtime, run, proofs, row>>

-------------------------------------------------------------------------------
(* Closing                                                                 *)

\* failureDisposition
Outcome(w) ==
    LET has(status) == \E s \in Source : worker[w].status[s] = status
    IN  CASE has("invalid") -> "failing"
          [] has("unavailable") /\ ~has("invalid") -> "unavailable"
          [] has("partial") /\ ~has("invalid") /\ ~has("unavailable") -> "degraded"
          [] OTHER -> "healthy"

Closed(w, t, status, watermark) ==
    Runtime(runtime.generation, runtime.revision + 1, NoLease, 0, t, status, watermark)

\* verifySealedProof: everything that was planned has been decided.
Complete(w) ==
    /\ \A s \in Source : proofs.sources[s] = "complete"
    /\ proofs.decided = proofs.planned

\* recordAlertEvaluatorRunSuccess, recordAlertEvaluatorRunFailure
Close(w, t) ==
    /\ Ready(w, "close")
    /\ IF Fenced(w, "sealed") /\ InTime(w, t) /\ (Outcome(w) = "healthy" => Complete(w))
       THEN IF Outcome(w) = "healthy"
            THEN /\ runtime' = Closed(w, t, "healthy", proofs.asOf)
                 /\ run' = Becomes(w, "succeeded")
            ELSE /\ runtime' = Closed(w, t, Outcome(w), runtime.watermark)
                 /\ run' = Becomes(w, "failed")
       ELSE UNCHANGED <<runtime, run>>
    /\ worker' = Leaves(w)
    /\ UNCHANGED <<proofs, row>>

\* The catch of runAlertEvaluator: one attempt to close the run as failing.
Fail(w, t) ==
    /\ At(w, "fail")
    /\ IF InTime(w, t) /\ \E status \in {"running", "sealed"} : Fenced(w, status)
       THEN /\ runtime' = Closed(w, t, "failing", runtime.watermark)
            /\ run' = Becomes(w, "failed")
       ELSE UNCHANGED <<runtime, run>>
    /\ worker' = Leaves(w)
    /\ UNCHANGED <<proofs, row>>

\* The invocation ends where it stands.
Crash(w) ==
    /\ ~At(w, "idle")
    /\ worker' = Leaves(w)
    /\ UNCHANGED <<runtime, run, proofs, row>>

-------------------------------------------------------------------------------
(* The operator (external)                                                 *)

\* An acknowledgement touches the incident only.
Acknowledge(k) ==
    /\ row[k].life.status # "none" /\ row[k].acts < MaxActs[k]
    /\ row' = [row EXCEPT ![k] = Row(@.life, @.at, @.by, @.revision, @.acts + 1)]
    /\ UNCHANGED <<runtime, run, proofs, worker>>

OperatorResolve(k) ==
    /\ row[k].life.status # "none" /\ row[k].acts < MaxActs[k]
    /\ row' = [row EXCEPT ![k] = Row(Inactive(Cooldown), @.at, NoRun, @.revision + 1,
                                     @.acts + 1)]
    /\ UNCHANGED <<runtime, run, proofs, worker>>

Works(w) ==
    /\ ~At(w, "idle")
    /\ \E t \in Stamps(w) :
         \/ CheckLease(w, t) \/ Collect(w, t) \/ RecordSources(w, t)
         \/ PlanDecisions(w, t) \/ Seal(w, t)
         \/ DecideStateless(w, t) \/ DecideApplied(w, t) \/ DecideAgain(w, t)
         \/ Close(w, t) \/ Fail(w, t)
         \/ \E asOf \in worker[w].clock..t : Bind(w, asOf, t)

Next ==
    \/ \E w \in Worker :
         \/ \E t \in 0..MaxTime : Initialize(w, t) \/ \E o \in Occurrence : Start(w, o, t)
         \/ Acquire(w) \/ Works(w) \/ Crash(w)
    \/ \E k \in Key : Acknowledge(k) \/ OperatorResolve(k)

Spec == Init /\ [][Next]_vars

-------------------------------------------------------------------------------
(* Properties                                                              *)

TypeOK ==
    /\ runtime.generation \in -1..MaxRuns /\ runtime.watermark \in 0..MaxTime
    /\ Len(run) = IF runtime.generation < 0 THEN 0 ELSE runtime.generation
    /\ \A g \in DOMAIN run :
         run[g].status \in {"running", "sealed", "succeeded", "failed", "abandoned"}
    /\ proofs.asOf \in 0..MaxTime
    /\ \A k \in Key : row[k].at \in 0..MaxTime /\ row[k].by \in 0..Len(run)

\* Whatever the clocks of the workers say: the run that holds the lease
\* evaluates at a later moment than every run that left a state behind, so no
\* alert is taken back to an older moment and no run finds itself too late.
EvaluatesForward ==
    \A k \in Key \ {p.key : p \in ToSet(proofs.decided)} :
      runtime.lease # NoLease /\ proofs.asOf > 0 /\ Present(row[k]) => row[k].at < proofs.asOf

\* Once a run is taken over it is over, even if its worker goes on: states and
\* proofs are written only for the run that holds the lease at that moment.
TakenOverIsOver ==
    [][/\ \A k \in Key :
            /\ row'[k].by # NoRun
            /\ <<row'[k].by, row'[k].at, row'[k].life>> # <<row[k].by, row[k].at, row[k].life>>
            => runtime.lease = row'[k].by
       /\ \A p \in ToSet(proofs'.decided) \ ToSet(proofs.decided) : runtime.lease = p.by]_vars

\* The watermark tells the truth: every alert that is active, or has a breach
\* pending, was evaluated at that moment or later.
WatermarkIsComplete ==
    \A k \in Key : row[k].life.status # "none" \/ row[k].life.breaches > 0 =>
                     row[k].at >= runtime.watermark

\* What is known in part raises an alert but never calms it: its standing does
\* not fall, and no clear is counted.
PartialNeverCalms ==
    [][\A w \in Worker, k \in Key :
         LET old == row[k].life
             new == row'[k].life
         IN  /\ At(w, "decide") /\ Now(w).key = k /\ Now(w).partial
             /\ row'[k].revision # row[k].revision /\ row'[k].by = worker[w].generation
             => Standing(new) >= Standing(old) /\ new.clears <= old.clears]_vars

\* A run writes what it had sealed before it wrote anything, also where an
\* operator came in between and the decision was computed again.
SealedPlanHolds ==
    [][\A k \in Key :
         row'[k].by # NoRun /\ row'[k].life # row[k].life =>
           \E p \in ToSet(proofs.planned) : p.key = k /\ p.result.state = row'[k].life]_vars
===============================================================================
