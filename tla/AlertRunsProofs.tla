---------------------------- MODULE AlertRunsProofs ----------------------------
(***************************************************************************)
(* Proofs about the runs of the evaluator, for every number of workers,    *)
(* sources, alerts and runs. The invariant has a part about each worker    *)
(* (Local: the clocks of the one that holds the lease, what it planned     *)
(* against what is sealed and stored, and that every live alert is behind  *)
(* it or ahead of it when its sources are complete) and parts about what   *)
(* the workers share: Types, Generations (a worker past the acquisition    *)
(* has a generation of its own, and the lease belongs to the newest),      *)
(* Shared and Health.                                                      *)
(***************************************************************************)
EXTENDS AlertRuns, TLAPS, FiniteSetTheorems, SequenceTheorems

-------------------------------------------------------------------------------
(* The invariant                                                           *)

Evaluations == UNION {Observed[k] : k \in Key}
Evidence == {NoBreach} \cup {e.evidence : e \in Evaluations}

Lives == [status : Severities, active : Evidence, breach : Evidence, breaches : Nat,
          clears : Nat, cooldown : Int, quiet : Int]
Rows == [life : Lives, at : 0..MaxTime, by : Nat, revision : Nat, acts : Nat]

Statuses == {"unread", "complete", "partial", "invalid", "unavailable"}
Dispositions == {"suppressed_partial", "no_state_change", "applied"}
Intents == {"silent", "remind", "open", "escalate", "resolve"}
Decisions == [intent : Intents, state : Lives]
Raw == [key : Key, evaluation : Evaluations, partial : BOOLEAN]
Full == [key : Key, evaluation : Evaluations, partial : BOOLEAN, disposition : Dispositions,
         result : Decisions, revision : Nat, acts : Nat]
ProofSet == [by : Nat, key : Key, disposition : Dispositions, result : Decisions]

\* The steps of a worker that has a run.
Steps == {"bind", "collect", "record", "plan", "seal", "decide", "close", "fail"}

Running == [at : Steps \cup {"acquire"}, clock : 0..MaxTime, checked : BOOLEAN,
            occurrence : Occurrence, generation : Nat, revision : Nat, expires : Nat,
            asOf : 0..MaxTime, status : [Source -> Statuses], plan : Seq(Raw) \cup Seq(Full),
            next : Nat \ {0}, again : BOOLEAN]

RuntimeStatuses == {"none", "disabled", "healthy", "degraded", "failing", "unavailable"}
RunStatuses == {"running", "sealed", "succeeded", "failed", "abandoned"}

Types ==
    /\ runtime \in [generation : -1..MaxRuns, revision : Nat, lease : Nat, expires : Nat,
                    updated : 0..MaxTime, status : RuntimeStatuses, watermark : 0..MaxTime]
    /\ run \in Seq([status : RunStatuses, occurrence : Occurrence])
    /\ proofs \in [asOf : 0..MaxTime, sources : [Source -> Statuses],
                   planned : Seq(ProofSet), decided : Seq(ProofSet)]
    /\ row \in [Key -> Rows]
    /\ worker \in [Worker -> {Idle} \cup Running]

Past(w) == worker[w].at \in Steps
Holds(w) == Past(w) /\ runtime.lease = worker[w].generation

Generations ==
    /\ Len(run) = IF runtime.generation < 0 THEN 0 ELSE runtime.generation
    /\ runtime.generation < 0 => runtime = NoRuntime
    /\ runtime.lease \in {NoLease, runtime.generation}
    /\ \A k \in Key : row[k].by <= Len(run)
    /\ \A w \in Worker : worker[w].at = "acquire" => worker[w].generation < MaxRuns
    /\ \A w \in Worker : Past(w) => worker[w].generation \in 1..Len(run)
    /\ \A v, w \in Worker : Past(v) /\ Past(w) /\ v # w =>
                              worker[v].generation # worker[w].generation

\* Bound: the worker has fixed the moment it evaluates.
Bound(w) == worker[w].at \in Steps \ {"bind", "fail"}

HolderTimes(w) ==
    Holds(w) =>
      /\ worker[w].expires = runtime.expires
      /\ runtime.watermark <= worker[w].clock
      /\ \A k \in Key : row[k].at <= worker[w].clock
      /\ worker[w].at = "bind" =>
           /\ proofs.asOf = 0 /\ proofs.decided = <<>>
           /\ \A k \in Key : row[k].at = 0 \/ row[k].at < worker[w].clock
      /\ Bound(w) =>
           /\ worker[w].asOf = proofs.asOf
           /\ runtime.watermark <= worker[w].asOf /\ worker[w].asOf <= worker[w].clock

\* As long as the row is the one of the snapshot, the decision follows from it.
Snapshot(r, asOf, item) ==
    /\ item.revision <= r.revision
    /\ item.disposition = "suppressed_partial" => item.partial
    /\ item.disposition = "applied" /\ item.revision = r.revision =>
         /\ item.result = Advance(Aged(r, asOf), item.evaluation, "automatic")
         /\ item.partial => PartialAllowed(item.evaluation, r.life)

PlanOK(w) ==
    /\ worker[w].at = "acquire" => worker[w].expires = worker[w].clock + Lease
    /\ worker[w].at \in {"acquire", "bind", "collect", "record", "plan", "seal"} =>
         worker[w].next = 1
    /\ worker[w].at \in {"record", "plan"} => worker[w].plan \in Seq(Raw)
    /\ worker[w].at \in {"seal", "decide", "close"} => worker[w].plan \in Seq(Full)
    /\ worker[w].at = "decide" => worker[w].next <= Len(worker[w].plan)
    /\ worker[w].at \in {"seal", "decide"} =>
         \A i \in 1..Len(worker[w].plan) :
           Snapshot(row[worker[w].plan[i].key], worker[w].asOf, worker[w].plan[i])

SealedPlan(w) ==
    Holds(w) /\ worker[w].at = "decide" =>
      /\ Len(proofs.planned) = Len(worker[w].plan)
      /\ \A i \in 1..Len(worker[w].plan) :
           /\ proofs.planned[i].key = worker[w].plan[i].key
           /\ proofs.planned[i].result = worker[w].plan[i].result

Alive(life) == life.status # "none" \/ life.breaches > 0
Whole(w) == \A s \in Source : worker[w].status[s] = "complete"
Planning(w) == worker[w].at \in {"record", "plan", "seal", "decide", "close"}
Ahead(w, k) ==
    /\ worker[w].at # "close"
    /\ \E i \in 1..Len(worker[w].plan) : worker[w].next <= i /\ worker[w].plan[i].key = k

Covered(w) ==
    /\ Holds(w) /\ worker[w].at \in {"plan", "seal", "decide", "close"} =>
         proofs.sources = worker[w].status
    /\ Planning(w) /\ Whole(w) =>
         \A i \in 1..Len(worker[w].plan) : ~worker[w].plan[i].partial
    /\ Holds(w) /\ Planning(w) /\ Whole(w) =>
         \A k \in Key : Alive(row[k].life) => row[k].at >= worker[w].asOf \/ Ahead(w, k)

Local(w) == HolderTimes(w) /\ PlanOK(w) /\ SealedPlan(w) /\ Covered(w)

LeaseTimes ==
    IF runtime.lease = NoLease
    THEN runtime.watermark <= runtime.updated /\ \A k \in Key : row[k].at <= runtime.updated
    ELSE runtime.watermark < runtime.expires /\ \A k \in Key : row[k].at < runtime.expires

Absent == \A k \in Key : ~Present(row[k]) => row[k].life = Inactive(0)

Shared == LeaseTimes /\ EvaluatesForward /\ Absent /\ WatermarkIsComplete

OfHealth(k) == ReaderOf[SourceOf[GroupOf[k]]] = "health"
Expects(w, k) == Planning(w) /\ \E i \in 1..Len(worker[w].plan) : worker[w].plan[i].key = k

Health ==
    ~Succeeded => \A k \in Key : OfHealth(k) =>
                    ~Present(row[k]) /\ \A w \in Worker : ~Expects(w, k)

IInv == Types /\ Generations /\ Shared /\ Health /\ \A w \in Worker : Local(w)

-------------------------------------------------------------------------------
(* What one evaluation does to the state of an alert                       *)

LEMMA EvaluationIs ==
  ASSUME NEW e \in Evaluations
  PROVE  /\ e.severity \in Severities /\ e.known \in BOOLEAN
         /\ e.evidence \in Evidence /\ e.evidence.severity = e.severity
<1>1. PICK k \in Key : e \in Observed[k]  BY DEF Evaluations
<1> QED  BY <1>1, RunsAssumption DEF Evidence

LEMMA EvidenceSeverity ==
  ASSUME NEW x \in Evidence
  PROVE  x.severity \in Severities
<1>1. CASE x = NoBreach  BY <1>1 DEF NoBreach, Severities
<1>2. CASE \E e \in Evaluations : x = e.evidence  BY <1>2, EvaluationIs
<1> QED  BY <1>1, <1>2 DEF Evidence

LEMMA NaturalPolicy ==
  /\ ClearConsecutive \in Nat /\ Cooldown \in Nat
  /\ CriticalReminder \in Nat /\ WarningReminder \in Nat
BY PolicyAssumption

LEMMA StateType ==
  ASSUME NEW status \in Severities, NEW active \in Evidence, NEW breach \in Evidence,
         NEW breaches \in Nat, NEW clears \in Nat, NEW cooldown \in Int, NEW quiet \in Int
  PROVE  State(status, active, breach, breaches, clears, cooldown, quiet) \in Lives
BY DEF State, Lives

LEMMA InactiveType ==
  ASSUME NEW cooldown \in Int
  PROVE  Inactive(cooldown) \in Lives /\ ~Alive(Inactive(cooldown))
<1>1. NoBreach \in Evidence  BY DEF Evidence
<1> QED  BY <1>1, StateType DEF Inactive, Alive, State, Severities

LEMMA ResultType ==
  ASSUME NEW s \in Lives, NEW intent \in Intents
  PROVE  Result(intent, s) \in Decisions /\ Result(intent, s).state = s
BY DEF Result, Decisions

\* What each case of an evaluation makes of the state.
LEMMA StableType ==
  ASSUME NEW s \in Lives, NEW x \in Evidence
  PROVE  /\ Stable(s, x) \in Decisions
         /\ Stable(s, x).state.status = s.status /\ Stable(s, x).state.clears = 0
<1> DEFINE a(q) == State(s.status, x, NoBreach, 0, 0, s.cooldown, q)
<1>1. NoBreach \in Evidence /\ s.quiet \in Int  BY DEF Evidence, Lives
<1>2. ASSUME NEW q \in Int
      PROVE  a(q) \in Lives /\ a(q).status = s.status /\ a(q).clears = 0
  <2>1. a(q) \in Lives  BY <1>1, StateType DEF Lives
  <2> QED  BY <2>1 DEF State
<1>3. Stable(s, x) \in {Result("remind", a(0)), Result("silent", a(s.quiet))}
  BY DEF Stable
<1> HIDE DEF a
<1> QED  BY <1>1, <1>2, <1>3, ResultType DEF Intents

LEMMA CandidateType ==
  ASSUME NEW s \in Lives, NEW e \in Evaluations, e.severity # "none"
  PROVE  /\ Candidate(s, e) \in Decisions
         /\ Candidate(s, e).state.clears = 0
         /\ \/ Candidate(s, e).state.status = "critical"
            \/ Candidate(s, e).state.status = e.severity
            \/ Candidate(s, e).state.breach = e.evidence
<1> DEFINE a == State(s.status, s.active, e.evidence, Breaches(s, e), 0, s.cooldown, s.quiet)
           b == State("critical", e.evidence, NoBreach, 0, 0, s.cooldown, 0)
           c == State("none", NoBreach, e.evidence, Required(e) - 1, 0, s.cooldown, s.quiet)
           d == State(e.severity, e.evidence, NoBreach, 0, 0, 0, 0)
<1>1. NoBreach \in Evidence /\ e.evidence \in Evidence /\ e.severity \in Severities
  BY EvaluationIs DEF Evidence
<1>2. Breaches(s, e) \in Nat /\ Required(e) - 1 \in Nat
  BY DEF Breaches, Required, Lives
<1>3. s.status \in Severities /\ s.active \in Evidence /\ s.cooldown \in Int /\ s.quiet \in Int
  BY DEF Lives
<1>4. "critical" \in Severities /\ "none" \in Severities  BY DEF Severities
<1>5. a \in Lives  BY <1>1, <1>2, <1>3, StateType
<1>6. b \in Lives /\ c \in Lives /\ d \in Lives  BY <1>1, <1>2, <1>3, <1>4, StateType
<1>7. /\ a.clears = 0 /\ b.clears = 0 /\ c.clears = 0 /\ d.clears = 0
      /\ a.breach = e.evidence /\ b.status = "critical" /\ c.breach = e.evidence
      /\ d.status = e.severity
  BY DEF State
<1>8. Candidate(s, e) \in {Result("silent", a), Result("escalate", b), Result("silent", c),
                           Result("open", d)}
  BY DEF Candidate
<1> HIDE DEF a, b, c, d
<1> QED  BY <1>5, <1>6, <1>7, <1>8, ResultType DEF Intents

LEMMA ClearType ==
  ASSUME NEW s \in Lives
  PROVE  Clear(s, "automatic") \in Decisions
<1> DEFINE a == State(s.status, s.active, NoBreach, 0, s.clears + 1, s.cooldown, s.quiet)
<1>1. NoBreach \in Evidence /\ s.cooldown \in Int  BY DEF Evidence, Lives
<1>2. a \in Lives  BY <1>1, StateType DEF Lives
<1>3. Inactive(s.cooldown) \in Lives /\ Inactive(Cooldown) \in Lives
  BY <1>1, InactiveType, NaturalPolicy
<1>4. Clear(s, "automatic") \in {Result("silent", Inactive(s.cooldown)), Result("silent", a),
                           Result("resolve", Inactive(Cooldown))}
  BY DEF Clear
<1> HIDE DEF a
<1> QED  BY <1>2, <1>3, <1>4, ResultType DEF Intents

LEMMA AdvanceType ==
  ASSUME NEW s \in Lives, NEW e \in Evaluations
  PROVE  Advance(s, e, "automatic") \in Decisions
<1> DEFINE a == State(s.status, s.active, NoBreach, 0, 0, s.cooldown, s.quiet)
           x == IF e.severity = "critical" THEN e.evidence ELSE s.active
<1>1. e.evidence \in Evidence /\ x \in Evidence  BY EvaluationIs DEF Lives
<1>2. a \in Lives
  <2>1. NoBreach \in Evidence  BY DEF Evidence
  <2> QED  BY <2>1, StateType DEF Lives
<1>3. Gap(s) \in Decisions  BY <1>2, ResultType DEF Gap, Intents
<1>4. Stable(s, x) \in Decisions /\ Stable(s, e.evidence) \in Decisions
  BY <1>1, StableType
<1>5. e.severity # "none" => Candidate(s, e) \in Decisions  BY CandidateType
<1>6. Clear(s, "automatic") \in Decisions  BY ClearType
<1> QED  BY <1>3, <1>4, <1>5, <1>6 DEF Advance

\* What a breach that is known can become.
LEMMA BreachIs ==
  ASSUME NEW s \in Lives, NEW e \in Evaluations, e.known, e.severity # "none"
  PROVE  \/ Advance(s, e, "automatic") = Candidate(s, e)
         \/ \E x \in Evidence : Advance(s, e, "automatic") = Stable(s, x)
              /\ (s.status = "critical" \/ s.status = e.severity)
<1>1. e.evidence \in Evidence /\ s.active \in Evidence  BY EvaluationIs DEF Lives
<1> QED  BY <1>1 DEF Advance

LEMMA RankIs ==
  ASSUME NEW x \in Severities
  PROVE  /\ Rank(x) \in 0..2 /\ Rank("critical") = 2
         /\ Rank("warning") = 1 /\ Rank("none") = 0
BY DEF Rank, Severities

LEMMA StandingIs ==
  ASSUME NEW s \in Lives
  PROVE  /\ Standing(s) \in 0..2
         /\ Standing(s) >= Rank(s.status) /\ Standing(s) >= Rank(s.breach.severity)
         /\ Standing(s) = Rank(s.status) \/ Standing(s) = Rank(s.breach.severity)
<1>1. s.status \in Severities /\ s.breach.severity \in Severities
  BY EvidenceSeverity DEF Lives
<1> QED  BY <1>1, RankIs DEF Standing, Higher

LEMMA AgedIs ==
  ASSUME NEW r \in Rows, NEW asOf \in 0..MaxTime
  PROVE  /\ Aged(r, asOf) \in Lives
         /\ Aged(r, asOf).status = r.life.status /\ Aged(r, asOf).breach = r.life.breach
         /\ Aged(r, asOf).clears = r.life.clears
<1>1. r.life \in Lives /\ r.at \in Int  BY RunsAssumption DEF Rows
<1>2. /\ r.life.status \in Severities /\ r.life.active \in Evidence /\ r.life.breach \in Evidence
      /\ r.life.breaches \in Nat /\ r.life.clears \in Nat /\ r.life.cooldown \in Int
      /\ r.life.quiet \in Int
  BY <1>1 DEF Lives
<1>3. Left(r.life.cooldown, asOf - r.at) \in Int
  BY <1>1, <1>2 DEF Left
<1>4. Earlier(r.life.quiet + (asOf - r.at), LongestReminder) \in Int
  BY <1>1, <1>2, NaturalPolicy DEF Earlier, LongestReminder, Higher
<1>5. (IF r.life.status = "none" THEN 0
       ELSE Earlier(r.life.quiet + (asOf - r.at), LongestReminder)) \in Int
  BY <1>4
<1> QED  BY <1>2, <1>3, <1>5, StateType DEF Aged, State

\* A breach that may be decided from a part does not calm the alert.
LEMMA BreachNeverCalms ==
  ASSUME NEW r \in Rows, NEW asOf \in 0..MaxTime, NEW e \in Evaluations,
         PartialAllowed(e, r.life),
         NEW s, s = Advance(Aged(r, asOf), e, "automatic").state
  PROVE  Standing(s) >= Standing(r.life) /\ s.clears <= r.life.clears
<1> DEFINE o == Aged(r, asOf)
<1>1. /\ o \in Lives /\ o.status = r.life.status /\ o.breach = r.life.breach
      /\ r.life \in Lives /\ r.life.clears \in Nat
  BY AgedIs DEF Rows, Lives
<1>2. /\ e.severity # "none" /\ Rank(e.severity) >= Standing(r.life)
      /\ e.severity \in Severities /\ e.evidence.severity = e.severity
  BY EvaluationIs DEF PartialAllowed
<1>7. e.known  BY DEF PartialAllowed
<1> HIDE DEF o
<1>3. s \in Lives  BY <1>1, AdvanceType DEF Decisions, o
<1>4. /\ s.clears = 0
      /\ s.status = "critical" \/ s.status = e.severity \/ s.breach = e.evidence
  <2>1. CASE Advance(o, e, "automatic") = Candidate(o, e)
    BY <1>1, <1>2, <2>1, CandidateType DEF o
  <2>2. CASE \E x \in Evidence : Advance(o, e, "automatic") = Stable(o, x)
               /\ (o.status = "critical" \/ o.status = e.severity)
    BY <1>1, <2>2, StableType DEF o
  <2> QED  BY <1>1, <1>2, <1>7, <2>1, <2>2, BreachIs
<1>5. Standing(s) >= Rank(e.severity)
  <2>1. Rank("critical") = 2 /\ Rank(e.severity) \in 0..2  BY <1>2, RankIs
  <2>2. /\ Standing(s) \in 0..2 /\ Standing(s) >= Rank(s.status)
        /\ Standing(s) >= Rank(s.breach.severity)
    BY <1>3, StandingIs
  <2> QED  BY <1>2, <1>4, <2>1, <2>2
<1>6. Standing(s) \in Int /\ Standing(r.life) \in Int /\ Rank(e.severity) \in Int
  <2>1. Standing(s) \in Int  BY <1>3, StandingIs
  <2>2. Standing(r.life) \in Int  BY <1>1, StandingIs
  <2>3. Rank(e.severity) \in 0..2  BY <1>2, RankIs
  <2> QED  BY <2>1, <2>2, <2>3
<1> QED  BY <1>1, <1>2, <1>4, <1>5, <1>6

-------------------------------------------------------------------------------
(* What a step leaves alone                                                *)

LEMMA ASequence ==
  ASSUME NEW S, NEW n \in Nat, NEW f \in [1..n -> S]
  PROVE  f \in Seq(S) /\ Len(f) = n /\ DOMAIN f = 1..n
<1>1. f \in Seq(S)  BY SeqDef
<1>2. DOMAIN f = 1..Len(f) /\ Len(f) \in Nat  BY <1>1, LenProperties
<1> QED  BY <1>1, <1>2

LEMMA Clocks ==
  /\ MaxTime \in Nat /\ Lease \in Nat /\ Lease > 0 /\ MaxRuns \in Nat
  /\ RenewThreshold \in Nat /\ Occurrence \subseteq Nat
BY RunsAssumption

LEMMA Me ==
  ASSUME Types, NEW w \in Worker, worker[w].at # "idle"
  PROVE  worker[w] \in Running
BY DEF Types, Idle

LEMMA Moves ==
  ASSUME Types, NEW w \in Worker, NEW me, worker' = [worker EXCEPT ![w] = me]
  PROVE  /\ worker'[w] = me /\ \A v \in Worker \ {w} : worker'[v] = worker[v]
         /\ me \in {Idle} \cup Running => worker' \in [Worker -> {Idle} \cup Running]
BY DEF Types

LEMMA HolderIs ==
  ASSUME Types, Generations, NEW v \in Worker, NEW w \in Worker, Holds(v), Holds(w)
  PROVE  v = w
BY DEF Holds, Generations

LEMMA LeaseIsTaken ==
  ASSUME Types, Generations, NEW w \in Worker, Holds(w)
  PROVE  /\ runtime.lease # NoLease /\ runtime.lease = runtime.generation
         /\ worker[w].generation = Len(run) /\ runtime.generation = Len(run)
         /\ worker[w].generation \in Nat \ {0}
BY DEF Holds, Generations, NoLease, Types

\* A row that is written gets a new revision, unless only its incident is touched.
RowKeeps(k) == row'[k] = row[k] \/ row'[k].revision = row[k].revision + 1
               \/ /\ row'[k].life = row[k].life /\ row'[k].at = row[k].at
                  /\ row'[k].revision = row[k].revision

LEMMA SnapshotKeeps ==
  ASSUME Types, NEW k \in Key, RowKeeps(k), NEW asOf, NEW item \in Full,
         Snapshot(row[k], asOf, item)
  PROVE  Snapshot(row'[k], asOf, item)
<1>1. row[k] \in Rows /\ item.revision \in Nat  BY DEF Types, Full
<1>2. CASE row'[k] = row[k]  BY <1>2
<1>3. CASE row'[k].revision = row[k].revision + 1
  BY <1>1, <1>3 DEF Snapshot, Rows
<1>4. CASE /\ row'[k].life = row[k].life /\ row'[k].at = row[k].at
           /\ row'[k].revision = row[k].revision
  <2>1. Aged(row'[k], asOf) = Aged(row[k], asOf)  BY <1>4 DEF Aged
  <2> QED  BY <1>4, <2>1 DEF Snapshot
<1> QED  BY <1>2, <1>3, <1>4 DEF RowKeeps

\* A worker that does nothing: whoever still holds the lease afterwards has seen
\* no change, and for the others a row is at most rewritten.
LEMMA OthersKeep ==
  ASSUME IInv, NEW w \in Worker, worker'[w] = worker[w],
         \A k \in Key : RowKeeps(k),
         Holds(w)' => UNCHANGED <<runtime, proofs, row>>
  PROVE  Local(w)'
<1>1. Types /\ Local(w)  BY DEF IInv
<1>2. PlanOK(w)'
  <2>1. \A i \in 1..Len(worker[w].plan) : worker[w].at \in {"seal", "decide"} =>
          Snapshot(row'[worker[w].plan[i].key], worker[w].asOf, worker[w].plan[i])
    <3> SUFFICES ASSUME NEW i \in 1..Len(worker[w].plan), worker[w].at \in {"seal", "decide"}
                 PROVE  Snapshot(row'[worker[w].plan[i].key], worker[w].asOf, worker[w].plan[i])
      OBVIOUS
    <3>1. worker[w].plan \in Seq(Full)  BY <1>1 DEF Local, PlanOK
    <3>4. worker[w].plan[i] \in Full  BY <3>1, ElementOfSeq
    <3>2. worker[w].plan[i] \in Full /\ worker[w].plan[i].key \in Key
      BY <3>4 DEF Full
    <3>3. Snapshot(row[worker[w].plan[i].key], worker[w].asOf, worker[w].plan[i])
      BY <1>1 DEF Local, PlanOK
    <3> QED  BY <1>1, <3>2, <3>3, SnapshotKeeps
  <2> QED  BY <1>1, <2>1 DEF Local, PlanOK
<1>3. CASE ~Holds(w)'
  <2>1. Planning(w)' /\ Whole(w)' => \A i \in 1..Len(worker'[w].plan) : ~worker'[w].plan[i].partial
    BY <1>1 DEF Local, Covered, Planning, Whole
  <2> QED  BY <1>2, <1>3, <2>1 DEF Local, HolderTimes, SealedPlan, Covered
<1>4. CASE Holds(w)' /\ UNCHANGED <<runtime, proofs, row>>
  <2>1. Holds(w)  BY <1>4 DEF Holds, Past
  <2>2. HolderTimes(w)'
    BY <1>1, <1>4, <2>1 DEF Local, HolderTimes, Bound
  <2>3. SealedPlan(w)'
    BY <1>1, <1>4, <2>1 DEF Local, SealedPlan
  <2>4. Covered(w)'
    BY <1>1, <1>4, <2>1 DEF Local, Covered, Planning, Whole, Ahead
  <2> QED  BY <1>2, <2>2, <2>3, <2>4 DEF Local
<1> QED  BY <1>3, <1>4

\* The runs go on, and no generation is given away.
LEMMA GenerationsKeep ==
  ASSUME Types, Generations, NEW w \in Worker, NEW me, worker' = [worker EXCEPT ![w] = me],
         me = Idle \/ (Past(w) /\ me.generation = worker[w].generation /\ me.at \in Steps),
         Len(run') = Len(run),
         runtime' = runtime \/ (/\ runtime'.generation = runtime.generation
                                /\ runtime.generation >= 0
                                /\ runtime'.lease \in {NoLease, runtime.lease}),
         \A k \in Key : row'[k].by <= Len(run)
  PROVE  Generations'
<1>1. /\ worker'[w] = me /\ \A v \in Worker \ {w} : worker'[v] = worker[v]
  BY Moves
<1>2. ~(me.at = "acquire") /\ (me.at \in Steps => Past(w) /\ me.generation = worker[w].generation)
  BY DEF Idle, Steps
<1>3. \A v \in Worker : Past(v)' => Past(v) /\ worker'[v].generation = worker[v].generation
  BY <1>1, <1>2 DEF Past
<1>4. \A v \in Worker : worker'[v].at = "acquire" => worker[v] = worker'[v]
  BY <1>1, <1>2
<1>5. Len(run') = IF runtime'.generation < 0 THEN 0 ELSE runtime'.generation
  BY DEF Generations
<1>6. runtime'.generation < 0 => runtime' = NoRuntime  BY DEF Generations, Types
<1>7. runtime'.lease \in {NoLease, runtime'.generation}  BY DEF Generations
<1> QED  BY <1>3, <1>4, <1>5, <1>6, <1>7 DEF Generations

\* No run that succeeded is taken back.
RunsKeep ==
    /\ run' \in Seq([status : RunStatuses, occurrence : Occurrence]) /\ Len(run') = Len(run)
    /\ Succeeded => Succeeded'

\* Health, where a row appears only for an alert that was planned.
LEMMA HealthKeeps ==
  ASSUME IInv, NEW w \in Worker, \A v \in Worker \ {w} : worker'[v] = worker[v],
         Succeeded => Succeeded',
         \A k \in Key : Present(row[k])' => Present(row[k]) \/ Expects(w, k) \/ ~OfHealth(k),
         \A k \in Key : Expects(w, k)' => Expects(w, k) \/ Succeeded \/ ~OfHealth(k)
  PROVE  Health'
<1> SUFFICES ASSUME ~Succeeded', NEW k \in Key, OfHealth(k)'
             PROVE  ~Present(row[k])' /\ \A v \in Worker : ~Expects(v, k)'
  BY DEF Health
<1>1. OfHealth(k)  BY DEF OfHealth
<1>2. ~Present(row[k]) /\ \A v \in Worker : ~Expects(v, k)
  BY <1>1 DEF IInv, Health
<1>3. ASSUME NEW v \in Worker, v # w
      PROVE  ~Expects(v, k)'
  <2>1. worker'[v] = worker[v]  BY <1>3
  <2>2. Expects(v, k)' => Expects(v, k)  BY <2>1 DEF Expects, Planning
  <2> QED  BY <1>2, <2>2
<1> QED  BY <1>1, <1>2, <1>3

\* A worker that writes neither the rows nor the lease.
LEMMA Quiet ==
  ASSUME IInv, NEW w \in Worker, NEW me, worker' = [worker EXCEPT ![w] = me],
         me = Idle \/ (/\ Past(w) /\ me \in Running /\ me.at \in Steps
                       /\ me.generation = worker[w].generation),
         UNCHANGED <<runtime, row>>, RunsKeep,
         proofs' = proofs \/ (/\ Holds(w)
                              /\ proofs' \in [asOf : 0..MaxTime, sources : [Source -> Statuses],
                                              planned : Seq(ProofSet), decided : Seq(ProofSet)]
                              /\ proofs'.asOf = proofs.asOf
                              /\ ToSet(proofs.decided) \subseteq ToSet(proofs'.decided)),
         \A k \in Key : Expects(w, k)' => Expects(w, k) \/ Succeeded \/ ~OfHealth(k),
         Local(w)'
  PROVE  IInv'
<1> USE DEF RunsKeep
<1>1. Types /\ Generations /\ Shared  BY DEF IInv
<1>2. worker'[w] = me /\ \A v \in Worker \ {w} : worker'[v] = worker[v]
  BY <1>1, Moves
<1>3. Types'
  <2>1. worker' \in [Worker -> {Idle} \cup Running]  BY <1>1, Moves
  <2> QED  BY <1>1, <2>1 DEF Types
<1>4. Generations'
  <2>1. \A k \in Key : row'[k].by <= Len(run)  BY <1>1 DEF Generations
  <2> QED  BY <1>1, <2>1, GenerationsKeep
<1>5. Shared'
  <2>1. EvaluatesForward'
    <3>1. ASSUME NEW k \in Key \ {p.key : p \in ToSet(proofs'.decided)}
          PROVE  k \in Key \ {p.key : p \in ToSet(proofs.decided)}
      BY <3>1
    <3> QED  BY <1>1, <3>1 DEF Shared, EvaluatesForward, Present
  <2> QED  BY <1>1, <2>1 DEF Shared, LeaseTimes, Absent, WatermarkIsComplete, Present
<1>6. Health'
  BY <1>2, HealthKeeps DEF Present
<1>7. \A v \in Worker : Local(v)'
  <2> SUFFICES ASSUME NEW v \in Worker, v # w  PROVE Local(v)'  OBVIOUS
  <2>1. worker'[v] = worker[v]  BY <1>2
  <2>2. Holds(v)' => UNCHANGED <<runtime, proofs, row>>
    <3>1. Holds(v)' => Holds(v)  BY <2>1 DEF Holds, Past
    <3> QED  BY <1>1, <3>1, HolderIs
  <2>3. \A k \in Key : RowKeeps(k)  BY DEF RowKeeps
  <2> QED  BY <2>1, <2>2, <2>3, OthersKeep
<1> QED  BY <1>3, <1>4, <1>5, <1>6, <1>7 DEF IInv

LEMMA IdleLocal ==
  ASSUME NEW w \in Worker, worker'[w] = Idle
  PROVE  Local(w)' /\ \A k \in Key : ~Expects(w, k)'
BY DEF Idle, Local, HolderTimes, PlanOK, SealedPlan, Covered, Holds, Past, Steps, Planning, Expects

\* A worker that goes away, from wherever it was.
LEMMA LeavesQuietly ==
  ASSUME IInv, NEW w \in Worker, worker' = Leaves(w), UNCHANGED <<runtime, run, proofs, row>>
  PROVE  IInv'
<1>1. worker' = [worker EXCEPT ![w] = Idle]  BY DEF Leaves
<1>2. worker'[w] = Idle  BY <1>1, Moves DEF IInv
<1>3. RunsKeep  BY DEF RunsKeep, Succeeded, IInv, Types
<1> QED  BY <1>1, <1>2, <1>3, IdleLocal, Quiet

\* What a worker that moves on keeps.
KeepsWork(w) ==
    /\ worker'[w].generation = worker[w].generation /\ worker'[w].expires = worker[w].expires
    /\ worker'[w].asOf = worker[w].asOf /\ worker'[w].status = worker[w].status
    /\ worker'[w].plan = worker[w].plan /\ worker'[w].next = worker[w].next

LEMMA GoesIs ==
  ASSUME Types, NEW w \in Worker, worker[w] \in Running, NEW step \in Steps,
         NEW t \in 0..MaxTime, worker' = Goes(w, step, t)
  PROVE  /\ worker'[w] \in Running /\ worker' = [worker EXCEPT ![w] = worker'[w]]
         /\ worker'[w].at = step /\ worker'[w].clock = t
         /\ worker'[w].checked = FALSE /\ KeepsWork(w)
BY DEF Goes, Types, Running, KeepsWork

\* The clock of a worker that holds the lease goes on.
LEMMA FailsQuietly ==
  ASSUME IInv, NEW w \in Worker, Past(w), NEW t \in Stamps(w), worker' = Goes(w, "fail", t),
         UNCHANGED <<runtime, run, proofs, row>>
  PROVE  IInv'
<1>1. worker[w] \in Running /\ Types  BY Me DEF IInv, Past, Steps
<1>2. t \in 0..MaxTime /\ worker[w].clock \in Int /\ t >= worker[w].clock
  BY <1>1, Clocks DEF Stamps, Running
<1>3. /\ worker'[w] \in Running /\ worker' = [worker EXCEPT ![w] = worker'[w]]
      /\ worker'[w].at = "fail" /\ worker'[w].clock = t /\ KeepsWork(w)
  BY <1>1, <1>2, GoesIs DEF Steps
<1>4. RunsKeep  BY DEF RunsKeep, Succeeded, IInv, Types
<1>5. Local(w)'
  <2>1. HolderTimes(w)'
    <3> SUFFICES ASSUME Holds(w)'  PROVE HolderTimes(w)'  BY DEF HolderTimes
    <3>1. Holds(w)  BY <1>3 DEF Holds, Past, KeepsWork
    <3>2. /\ worker[w].expires = runtime.expires /\ runtime.watermark <= worker[w].clock
          /\ \A k \in Key : row[k].at <= worker[w].clock
      BY <3>1 DEF IInv, Local, HolderTimes
    <3>3. runtime.watermark \in Int /\ \A k \in Key : row[k].at \in Int
      BY <1>1 DEF Types, Rows
    <3> QED  BY <1>2, <1>3, <3>2, <3>3 DEF HolderTimes, Bound, KeepsWork
  <2> QED  BY <1>3, <2>1 DEF Local, PlanOK, SealedPlan, Covered, Planning
<1>6. \A k \in Key : ~Expects(w, k)'  BY <1>3 DEF Expects, Planning
<1> QED  BY <1>3, <1>4, <1>5, <1>6, Quiet DEF KeepsWork, Steps

-------------------------------------------------------------------------------
(* The first state, and the steps before a run                             *)

LEMMA AtFirst ==
  ASSUME Init
  PROVE  IInv
<1> USE Clocks
<1>1. \A w \in Worker : worker[w] = Idle /\ ~Past(w)  BY DEF Init, Past, Idle, Steps
<1>2. NoRow \in Rows
  <2>1. Inactive(0) \in Lives  BY InactiveType
  <2> QED  BY <2>1 DEF NoRow, Row, Rows, NoRun
<1>3. Types
  <2>1. runtime \in [generation : -1..MaxRuns, revision : Nat, lease : Nat, expires : Nat,
                     updated : 0..MaxTime, status : RuntimeStatuses, watermark : 0..MaxTime]
    BY DEF Init, NoRuntime, Runtime, RuntimeStatuses, NoLease
  <2>2. run \in Seq([status : RunStatuses, occurrence : Occurrence])  BY DEF Init
  <2>3. proofs \in [asOf : 0..MaxTime, sources : [Source -> Statuses],
                    planned : Seq(ProofSet), decided : Seq(ProofSet)]
    BY DEF Init, NoProofs, Statuses
  <2>4. row \in [Key -> Rows]  BY <1>2 DEF Init
  <2>5. worker \in [Worker -> {Idle} \cup Running]  BY DEF Init
  <2> QED  BY <2>1, <2>2, <2>3, <2>4, <2>5 DEF Types
<1>4. Generations
  BY <1>1 DEF Generations, Init, NoRuntime, Runtime, NoLease, NoRow, Row, NoRun, Idle
<1>5. Shared
  BY DEF Shared, Init, LeaseTimes, EvaluatesForward, Absent, WatermarkIsComplete, NoRuntime,
         Runtime, NoLease, NoRow, Row, Present, Inactive, State
<1>6. Health /\ \A w \in Worker : Local(w)
  <2>1. \A w \in Worker : worker[w].at = "idle"  BY <1>1 DEF Idle
  <2> QED  BY <2>1 DEF Health, Init, Local, HolderTimes, PlanOK, SealedPlan, Covered, Holds,
               Past, Steps, Planning, Expects, NoRow, Row, Present
<1> QED  BY <1>3, <1>4, <1>5, <1>6 DEF IInv

\* Nothing has happened before the evaluator exists.
LEMMA InitializeKeeps ==
  ASSUME IInv, NEW w \in Worker, NEW t \in 0..MaxTime, Initialize(w, t)
  PROVE  IInv'
<1>1. Types /\ Generations /\ Shared  BY DEF IInv
<1>2. /\ runtime = NoRuntime /\ runtime.generation = -1 /\ runtime.lease = NoLease
      /\ runtime.updated = 0 /\ runtime.watermark = 0
      /\ runtime' = Runtime(0, 0, NoLease, 0, t, "disabled", 0)
      /\ UNCHANGED <<run, proofs, row, worker>>
  BY DEF Initialize, NoRuntime, Runtime
<1>3. /\ runtime'.generation = 0 /\ runtime'.lease = NoLease /\ runtime'.updated = t
      /\ runtime'.watermark = 0
  BY <1>2 DEF Runtime
<1>4. Types'
  <2>1. runtime' \in [generation : -1..MaxRuns, revision : Nat, lease : Nat, expires : Nat,
                      updated : 0..MaxTime, status : RuntimeStatuses, watermark : 0..MaxTime]
    BY <1>2, Clocks DEF Runtime, RuntimeStatuses, NoLease
  <2> QED  BY <1>1, <1>2, <2>1 DEF Types
<1>5. Len(run) = 0  BY <1>1, <1>2 DEF Generations
<1>6. Generations'
  BY <1>1, <1>2, <1>3, <1>5 DEF Generations, Past
<1>7. \A k \in Key : row[k].at \in 0..MaxTime /\ row[k].at <= t
  BY <1>1, <1>2 DEF Shared, LeaseTimes, Types, Rows
<1>8. Shared'
  BY <1>1, <1>2, <1>3, <1>7
  DEF Shared, LeaseTimes, EvaluatesForward, Absent, WatermarkIsComplete, Present
<1>9. Health'
  BY <1>2 DEF IInv, Health, Expects, Planning, Succeeded, Present, OfHealth
<1>10. \A v \in Worker : Local(v)'
  <2> SUFFICES ASSUME NEW v \in Worker  PROVE Local(v)'  OBVIOUS
  <2>1. ~Past(v)  BY <1>1, <1>5 DEF Generations
  <2>2. ~Holds(v)'  BY <1>2, <2>1 DEF Holds, Past
  <2>3. \A k \in Key : RowKeeps(k)  BY <1>2 DEF RowKeeps
  <2> QED  BY <1>2, <2>2, <2>3, OthersKeep
<1> QED  BY <1>4, <1>6, <1>8, <1>9, <1>10 DEF IInv

LEMMA StartKeeps ==
  ASSUME IInv, NEW w \in Worker, NEW o \in Occurrence, NEW t \in 0..MaxTime, Start(w, o, t)
  PROVE  IInv'
<1> DEFINE me == [at |-> "acquire", clock |-> t, checked |-> FALSE, occurrence |-> o,
                  generation |-> runtime.generation, revision |-> runtime.revision,
                  expires |-> t + Lease, asOf |-> 0, status |-> [s \in Source |-> "unread"],
                  plan |-> <<>>, next |-> 1, again |-> FALSE]
<1> USE Clocks
<1>1. Types /\ Generations /\ Shared  BY DEF IInv
<1>2. worker' = [worker EXCEPT ![w] = me] /\ UNCHANGED <<runtime, run, proofs, row>>
  BY DEF Start
<1>3. runtime.generation \in Nat /\ runtime.generation < MaxRuns /\ runtime.generation = Len(run)
  BY <1>1 DEF Start, Generations, Types
<1>4. me \in Running
  <2>1. [s \in Source |-> "unread"] \in [Source -> Statuses]  BY DEF Statuses
  <2>2. <<>> \in Seq(Raw) \cup Seq(Full)  OBVIOUS
  <2>3. runtime.revision \in Nat /\ t + Lease \in Nat  BY <1>1 DEF Types
  <2> QED  BY <1>3, <2>1, <2>2, <2>3 DEF Running
<1>5. /\ me.at = "acquire" /\ me.generation < MaxRuns /\ me.expires = me.clock + Lease
      /\ me.next = 1
  BY <1>3
<1> HIDE DEF me
<1>6. worker'[w] = me /\ \A v \in Worker \ {w} : worker'[v] = worker[v]
  BY <1>1, <1>2, Moves
<1>7. Types'
  <2>1. worker' \in [Worker -> {Idle} \cup Running]  BY <1>1, <1>2, <1>4, Moves
  <2> QED  BY <1>1, <1>2, <2>1 DEF Types
<1>8. ~Past(w)' /\ \A v \in Worker \ {w} : Past(v)' => Past(v)
  BY <1>5, <1>6 DEF Past, Steps
<1>9. Generations'
  BY <1>1, <1>2, <1>5, <1>6, <1>8 DEF Generations
<1>10. Shared'
  BY <1>1, <1>2 DEF Shared, LeaseTimes, EvaluatesForward, Absent, WatermarkIsComplete, Present
<1>11. Health'
  <2>1. \A k \in Key : ~Expects(w, k)'  BY <1>5, <1>6 DEF Expects, Planning
  <2> QED  BY <1>2, <1>6, <2>1, HealthKeeps DEF Present, Succeeded
<1>12. \A v \in Worker : Local(v)'
  <2> SUFFICES ASSUME NEW v \in Worker  PROVE Local(v)'  OBVIOUS
  <2>1. CASE v = w
    BY <1>5, <1>6, <1>8, <2>1
    DEF Local, HolderTimes, PlanOK, SealedPlan, Covered, Holds, Planning
  <2>2. CASE v # w
    <3>1. \A k \in Key : RowKeeps(k)  BY <1>2 DEF RowKeeps
    <3> QED  BY <1>2, <1>6, <2>2, <3>1, OthersKeep
  <2> QED  BY <2>1, <2>2
<1> QED  BY <1>7, <1>9, <1>10, <1>11, <1>12 DEF IInv

\* The run that takes the lease is the newest, and every stamp lies behind it.
LEMMA AcquireKeeps ==
  ASSUME IInv, NEW w \in Worker, Acquire(w)
  PROVE  IInv'
<1> DEFINE t == worker[w].clock
           g == worker[w].generation + 1
           v == worker[w].revision + 1
           old == [h \in DOMAIN run |->
                     IF h = g - 1 /\ run[h].status \in {"running", "sealed"}
                     THEN [run[h] EXCEPT !.status = "abandoned"] ELSE run[h]]
           me == [worker[w] EXCEPT !.at = "bind", !.generation = g, !.revision = v]
<1> USE Clocks
<1>1. Types /\ Generations /\ Shared /\ Local(w)  BY DEF IInv
<1>2. worker[w].at = "acquire" /\ worker[w] \in Running  BY <1>1, Me DEF Acquire, At
<1>3. CASE worker' = Leaves(w) /\ UNCHANGED <<runtime, run, proofs, row>>
  BY <1>3, LeavesQuietly
<1>4. CASE /\ Vacant(runtime, t) /\ runtime.generation = g - 1 /\ runtime.revision = v - 1
           /\ run' = Append(old, NewRun(w)) /\ proofs' = NoProofs
           /\ runtime' = Runtime(g, v, g, worker[w].expires, t, runtime.status,
                                 runtime.watermark)
           /\ worker' = [worker EXCEPT ![w] = me] /\ row' = row
  <2>1. /\ g \in Nat \ {0} /\ v \in Nat /\ t \in 0..MaxTime /\ worker[w].expires = t + Lease
        /\ g - 1 < MaxRuns /\ worker[w].next = 1
    <3>1. worker[w].generation \in Nat /\ worker[w].revision \in Nat /\ t \in 0..MaxTime
      BY <1>2 DEF Running
    <3>2. worker[w].generation < MaxRuns  BY <1>1, <1>2 DEF Generations
    <3>3. PlanOK(w)  BY <1>1 DEF Local
    <3>4. worker[w].expires = t + Lease /\ worker[w].next = 1  BY <1>2, <3>3 DEF PlanOK
    <3> QED  BY <3>1, <3>2, <3>4
  <2>2. runtime.generation = Len(run) /\ Len(run) = g - 1 /\ Len(run) \in Nat
    <3>1. Len(run) \in Nat  BY <1>1, LenProperties DEF Types
    <3>2. runtime.generation = worker[w].generation /\ worker[w].generation \in Nat
      BY <1>2, <1>4 DEF Running
    <3>3. Len(run) = runtime.generation  BY <1>1, <3>2 DEF Generations
    <3> QED  BY <3>1, <3>2, <3>3
  <2>3. /\ runtime'.generation = g /\ runtime'.lease = g /\ runtime'.expires = t + Lease
        /\ runtime'.watermark = runtime.watermark
    BY <1>4, <2>1 DEF Runtime
  <2>4. /\ me \in Running /\ me.at = "bind" /\ me.generation = g /\ me.clock = t
        /\ me.expires = t + Lease /\ me.next = 1
    BY <1>2, <2>1 DEF Running, Steps
  <2>5. worker'[w] = me /\ \A u \in Worker \ {w} : worker'[u] = worker[u]
    BY <1>1, <1>4, Moves
  <2>6. old \in Seq([status : RunStatuses, occurrence : Occurrence]) /\ Len(old) = Len(run)
    <3>1. old = [h \in 1..Len(run) |-> old[h]]  BY <1>1 DEF Types
    <3>2. ASSUME NEW h \in 1..Len(run)
          PROVE  old[h] \in [status : RunStatuses, occurrence : Occurrence]
      <4>1. run[h] \in [status : RunStatuses, occurrence : Occurrence] /\ h \in DOMAIN run
        BY <1>1, LenProperties, ElementOfSeq DEF Types
      <4> QED  BY <4>1 DEF RunStatuses
    <3> HIDE DEF old
    <3>3. old \in [1..Len(run) -> [status : RunStatuses, occurrence : Occurrence]]
      BY <3>1, <3>2
    <3> QED  BY <2>2, <3>3, ASequence
  <2>7. NewRun(w) \in [status : RunStatuses, occurrence : Occurrence]
    BY <1>2 DEF NewRun, RunStatuses, Running
  <2>8. Succeeded => Succeeded'
    <3> SUFFICES ASSUME NEW h \in DOMAIN run, run[h].status = "succeeded"
                 PROVE  Succeeded'
      BY DEF Succeeded
    <3>1. old[h] = run[h]  OBVIOUS
    <3> HIDE DEF old
    <3>0. run \in Seq([status : RunStatuses, occurrence : Occurrence])  BY <1>1 DEF Types
    <3>3. h \in 1..Len(run)  BY <3>0, LenProperties
    <3>4. run' = Append(old, NewRun(w)) /\ Len(old) = Len(run)  BY <1>4, <2>6
    <3>2. h \in DOMAIN run' /\ run'[h] = old[h]  BY <2>2, <2>6, <2>7, <3>3, <3>4
    <3> QED  BY <3>1, <3>2 DEF Succeeded
  <2>9. run' \in Seq([status : RunStatuses, occurrence : Occurrence]) /\ Len(run') = g
    <3>1. run' = Append(old, NewRun(w))  BY <1>4
    <3>2. Len(old) + 1 = g  BY <2>1, <2>2, <2>6
    <3> HIDE DEF old, g
    <3> QED  BY <2>6, <2>7, <3>1, <3>2
  <2> HIDE DEF me, old
  <2>10. Types'
    <3>1. worker' \in [Worker -> {Idle} \cup Running]  BY <1>1, <1>4, <2>4, Moves
    <3>2. proofs' \in [asOf : 0..MaxTime, sources : [Source -> Statuses],
                       planned : Seq(ProofSet), decided : Seq(ProofSet)]
      BY <1>4 DEF NoProofs, Statuses
    <3>3. runtime' \in [generation : -1..MaxRuns, revision : Nat, lease : Nat, expires : Nat,
                        updated : 0..MaxTime, status : RuntimeStatuses, watermark : 0..MaxTime]
      <4>1. runtime.status \in RuntimeStatuses /\ runtime.watermark \in 0..MaxTime
        BY <1>1 DEF Types
      <4>2. g \in -1..MaxRuns /\ g \in Nat /\ worker[w].expires \in Nat
        BY <2>1
      <4> QED  BY <1>4, <2>1, <4>1, <4>2 DEF Runtime
    <3> QED  BY <1>1, <1>4, <2>9, <3>1, <3>2, <3>3 DEF Types
  <2>11. \A u \in Worker \ {w} : Past(u)' => Past(u) /\ worker'[u].generation < g
    <3> SUFFICES ASSUME NEW u \in Worker \ {w}, Past(u)'
                 PROVE  Past(u) /\ worker'[u].generation < g
      OBVIOUS
    <3>1. Past(u) /\ worker'[u] = worker[u]  BY <2>5 DEF Past
    <3> QED  BY <1>1, <2>1, <2>2, <3>1 DEF Generations
  <2>12. Generations'
    <3>1. /\ Len(run') = IF runtime'.generation < 0 THEN 0 ELSE runtime'.generation
          /\ runtime'.generation < 0 => runtime' = NoRuntime
          /\ runtime'.lease \in {NoLease, runtime'.generation}
      BY <2>1, <2>3, <2>9
    <3>2. \A k \in Key : row'[k].by <= Len(run')
      <4> SUFFICES ASSUME NEW k \in Key  PROVE row[k].by <= Len(run')  BY <1>4
      <4>1. row[k].by <= Len(run) /\ row[k].by \in Nat  BY <1>1 DEF Generations, Types, Rows
      <4> QED  BY <2>1, <2>2, <2>9, <4>1
    <3>3. \A u \in Worker : worker'[u].at = "acquire" => worker'[u].generation < MaxRuns
      BY <1>1, <2>4, <2>5 DEF Generations
    <3>4. \A u \in Worker : Past(u)' => worker'[u].generation \in 1..Len(run')
      <4>1. ASSUME NEW u \in Worker \ {w}, Past(u)'
            PROVE  worker'[u].generation \in 1..Len(run')
        BY <1>1, <2>1, <2>2, <2>5, <2>9, <2>11, <4>1 DEF Generations
      <4> QED  BY <2>1, <2>4, <2>5, <2>9, <4>1
    <3>5. ASSUME NEW a \in Worker, NEW b \in Worker, Past(a)', Past(b)', a # b
          PROVE  worker'[a].generation # worker'[b].generation
      <4>1. CASE a = w  BY <2>1, <2>4, <2>5, <2>11, <3>4, <3>5, <4>1
      <4>2. CASE b = w  BY <2>1, <2>4, <2>5, <2>11, <3>4, <3>5, <4>2
      <4>3. CASE a # w /\ b # w  BY <1>1, <2>5, <2>11, <3>5, <4>3 DEF Generations
      <4> QED  BY <4>1, <4>2, <4>3
    <3> QED  BY <3>1, <3>2, <3>3, <3>4, <3>5 DEF Generations
  <2>13. \A k \in Key : row[k].at \in Int /\ row[k].at < t
    <3>1. \A k \in Key : row[k].at \in Int  BY <1>1 DEF Types, Rows
    <3>2. runtime.updated \in Int /\ runtime.expires \in Int  BY <1>1 DEF Types
    <3>3. runtime.updated < t /\ (runtime.lease # NoLease => runtime.expires <= t)
      BY <1>4 DEF Vacant
    <3>4. \A k \in Key : IF runtime.lease = NoLease THEN row[k].at <= runtime.updated
                                                   ELSE row[k].at < runtime.expires
      BY <1>1 DEF Shared, LeaseTimes
    <3> QED  BY <2>1, <3>1, <3>2, <3>3, <3>4
  <2>14. runtime.watermark \in Int /\ runtime.watermark < t
    <3>1. /\ runtime.watermark \in Int /\ runtime.updated \in Int
          /\ runtime.expires \in Int
      BY <1>1 DEF Types
    <3>2. runtime.updated < t /\ (runtime.lease # NoLease => runtime.expires <= t)
      BY <1>4 DEF Vacant
    <3>3. IF runtime.lease = NoLease THEN runtime.watermark <= runtime.updated
                                    ELSE runtime.watermark < runtime.expires
      BY <1>1 DEF Shared, LeaseTimes
    <3>4. t \in Int  BY <2>1
    <3> HIDE DEF t
    <3> QED  BY <3>1, <3>2, <3>3, <3>4
  <2>15. Shared'
    <3>1. LeaseTimes'
      <4>1. runtime'.lease # NoLease  BY <2>1, <2>3 DEF NoLease
      <4>2. t \in Int /\ t <= t + Lease  BY <2>1, RunsAssumption
      <4> HIDE DEF t
      <4>3. runtime'.watermark < runtime'.expires  BY <2>3, <2>14, <4>2, RunsAssumption
      <4>4. \A k \in Key : row'[k].at < runtime'.expires
        BY <1>4, <2>3, <2>13, <4>2, RunsAssumption
      <4> QED  BY <4>1, <4>3, <4>4 DEF LeaseTimes
    <3>2. EvaluatesForward'  BY <1>4 DEF EvaluatesForward, NoProofs
    <3>3. Absent' /\ WatermarkIsComplete'
      BY <1>1, <1>4, <2>3 DEF Shared, Absent, WatermarkIsComplete, Present
    <3> QED  BY <3>1, <3>2, <3>3 DEF Shared
  <2>16. Health'
    <3>1. \A k \in Key : ~Expects(w, k)'  BY <2>4, <2>5 DEF Expects, Planning
    <3> QED  BY <1>4, <2>5, <2>8, <3>1, HealthKeeps DEF Present
  <2>17. Local(w)'
    <3>1. proofs' = NoProofs /\ row' = row  BY <1>4
    <3>2. HolderTimes(w)'
      BY <2>1, <2>3, <2>4, <2>5, <2>13, <2>14, <3>1 DEF HolderTimes, Bound, NoProofs
    <3> QED  BY <2>4, <2>5, <3>2 DEF Local, PlanOK, SealedPlan, Covered, Planning
  <2>18. \A u \in Worker : Local(u)'
    <3> SUFFICES ASSUME NEW u \in Worker, u # w  PROVE Local(u)'  BY <2>17
    <3>1. ~Holds(u)'  BY <2>1, <2>3, <2>11 DEF Holds
    <3>2. \A k \in Key : RowKeeps(k)  BY <1>4 DEF RowKeeps
    <3> QED  BY <2>5, <3>1, <3>2, OthersKeep
  <2> QED  BY <2>10, <2>12, <2>15, <2>16, <2>18 DEF IInv
<1> QED  BY <1>3, <1>4 DEF Acquire

-------------------------------------------------------------------------------
(* The lease and the moment                                                *)

\* A worker whose clock goes on, with nothing else about its lease.
LEMMA TimesKeep ==
  ASSUME IInv, NEW w \in Worker, Past(w), KeepsWork(w), worker'[w].clock \in 0..MaxTime,
         worker[w].clock <= worker'[w].clock, worker'[w].at # "bind",
         Bound(w)' => Bound(w), UNCHANGED runtime, proofs'.asOf = proofs.asOf,
         row' = row \/ \A k \in Key : row'[k].at <= worker'[w].clock
  PROVE  HolderTimes(w)'
<1> SUFFICES ASSUME Holds(w)'  PROVE HolderTimes(w)'  BY DEF HolderTimes
<1>1. Types /\ worker[w] \in Running  BY Me DEF IInv, Past, Steps
<1>2. worker[w].clock \in Int /\ worker'[w].clock \in Int /\ worker[w].asOf \in Int
  BY <1>1, Clocks DEF Running
<1>3. Holds(w)  BY DEF Holds, KeepsWork
<1>4. /\ worker[w].expires = runtime.expires /\ runtime.watermark <= worker[w].clock
      /\ \A k \in Key : row[k].at <= worker[w].clock
      /\ Bound(w) => /\ worker[w].asOf = proofs.asOf
                     /\ runtime.watermark <= worker[w].asOf /\ worker[w].asOf <= worker[w].clock
  BY <1>3 DEF IInv, Local, HolderTimes
<1>5. runtime.watermark \in Int /\ \A k \in Key : row[k].at \in Int
  BY <1>1 DEF Types, Rows
<1>6. \A k \in Key : row'[k].at <= worker'[w].clock  BY <1>2, <1>4, <1>5
<1>7. runtime.watermark <= worker'[w].clock  BY <1>2, <1>4, <1>5
<1>8. Bound(w)' => worker[w].asOf <= worker'[w].clock  BY <1>2, <1>4
<1> QED  BY <1>3, <1>4, <1>6, <1>7, <1>8 DEF HolderTimes, KeepsWork

\* What a worker has read and planned stays with it.
LEMMA WorkKeeps ==
  ASSUME NEW w \in Worker, Local(w), KeepsWork(w), worker'[w].at = worker[w].at,
         worker[w].at # "acquire", UNCHANGED <<row, proofs>>, runtime'.lease = runtime.lease
  PROVE  (PlanOK(w) /\ SealedPlan(w) /\ Covered(w))'
<1>1. Holds(w)' => Holds(w)  BY DEF Holds, Past, KeepsWork
<1>2. PlanOK(w)'  BY DEF Local, PlanOK, KeepsWork
<1>3. SealedPlan(w)'  BY <1>1 DEF Local, SealedPlan, KeepsWork
<1>4. Covered(w)'  BY <1>1 DEF Local, Covered, KeepsWork, Planning, Whole, Ahead
<1> QED  BY <1>2, <1>3, <1>4

LEMMA StampIs ==
  ASSUME Types, NEW w \in Worker, worker[w].at # "idle", NEW t \in Stamps(w)
  PROVE  t \in 0..MaxTime /\ worker[w].clock \in 0..MaxTime /\ worker[w].clock <= t
BY Me, Clocks DEF Stamps, Running

LEMMA CheckLeaseKeeps ==
  ASSUME IInv, NEW w \in Worker, NEW t \in Stamps(w), CheckLease(w, t)
  PROVE  IInv'
<1> DEFINE me == [worker[w] EXCEPT !.clock = t, !.checked = TRUE,
                                   !.revision = worker[w].revision + 1, !.expires = t + Lease]
<1> USE Clocks
<1>1. Types /\ Generations /\ Shared /\ Local(w)  BY DEF IInv
<1>2. /\ Past(w) /\ worker[w].at # "acquire" /\ worker[w].at # "bind" /\ worker[w].at # "fail"
      /\ UNCHANGED <<run, proofs, row>>
  BY DEF CheckLease, CheckDue, CheckedSteps, Past, Steps
<1>3. worker[w] \in Running  BY <1>1, <1>2, Me DEF Past, Steps
<1>4. t \in 0..MaxTime /\ worker[w].clock \in 0..MaxTime /\ worker[w].clock <= t
  BY <1>1, <1>2, StampIs DEF Past, Steps
<1>5. RunsKeep  BY <1>1, <1>2 DEF RunsKeep, Succeeded, Types
<1>6. CASE /\ worker' = [worker EXCEPT ![w] = [@ EXCEPT !.clock = t, !.checked = TRUE]]
           /\ UNCHANGED runtime
  <2>1. /\ worker'[w] \in Running /\ worker' = [worker EXCEPT ![w] = worker'[w]]
        /\ worker'[w].at = worker[w].at /\ worker'[w].clock = t /\ KeepsWork(w)
    BY <1>1, <1>3, <1>4, <1>6 DEF Types, Running, KeepsWork
  <2>2. HolderTimes(w)'
    BY <1>2, <1>4, <1>6, <2>1, TimesKeep DEF Bound
  <2>3. Local(w)'
    BY <1>1, <1>2, <1>6, <2>1, <2>2, WorkKeeps DEF Local
  <2>4. \A k \in Key : Expects(w, k)' => Expects(w, k)
    BY <2>1 DEF Expects, Planning, KeepsWork
  <2> QED  BY <1>2, <1>5, <1>6, <2>1, <2>3, <2>4, Quiet DEF Past, KeepsWork
<1>7. CASE worker' = Goes(w, "fail", t) /\ UNCHANGED runtime
  BY <1>2, <1>7, FailsQuietly
<1>8. CASE worker' = Leaves(w) /\ UNCHANGED runtime
  BY <1>2, <1>8, LeavesQuietly
<1>9. CASE /\ InTime(w, t) /\ \E status \in {"running", "sealed"} : Fenced(w, status)
           /\ runtime' = [runtime EXCEPT !.revision = @ + 1, !.expires = t + Lease,
                                         !.updated = t]
           /\ worker' = [worker EXCEPT ![w] = me]
  <2>13. t + Lease \in Nat /\ worker[w].revision + 1 \in Nat /\ runtime.revision + 1 \in Nat
    <3>1. worker[w].revision \in Nat  BY <1>3 DEF Running
    <3>2. runtime.revision \in Nat  BY <1>1 DEF Types
    <3> QED  BY <1>4, <3>1, <3>2
  <2>1. /\ me \in Running /\ worker' = [worker EXCEPT ![w] = me]
        /\ me.at = worker[w].at /\ me.clock = t /\ me.expires = t + Lease
        /\ me.generation = worker[w].generation /\ me.asOf = worker[w].asOf
        /\ me.status = worker[w].status /\ me.plan = worker[w].plan /\ me.next = worker[w].next
    BY <1>3, <1>4, <1>9, <2>13 DEF Running
  <2>2. /\ runtime' \in [generation : -1..MaxRuns, revision : Nat, lease : Nat, expires : Nat,
                         updated : 0..MaxTime, status : RuntimeStatuses,
                         watermark : 0..MaxTime]
        /\ runtime'.generation = runtime.generation /\ runtime'.lease = runtime.lease
        /\ runtime'.expires = t + Lease /\ runtime'.watermark = runtime.watermark
    BY <1>1, <1>4, <1>9, <2>13 DEF Types
  <2> HIDE DEF me
  <2>3. worker'[w] = me /\ \A v \in Worker \ {w} : worker'[v] = worker[v]
    BY <1>1, <2>1, Moves
  <2>4. Holds(w)  BY <1>2, <1>9 DEF Holds, Fenced
  <2>5. runtime.lease # NoLease /\ runtime.generation = Len(run) /\ Len(run) \in Nat
    BY <1>1, <2>4, LeaseIsTaken, LenProperties DEF Types
  <2>6. Types'
    <3>1. worker' \in [Worker -> {Idle} \cup Running]  BY <1>1, <2>1, Moves
    <3> QED  BY <1>1, <1>2, <2>2, <3>1 DEF Types
  <2>7. Generations'
    <3>1. \A k \in Key : row'[k].by <= Len(run)  BY <1>1, <1>2 DEF Generations
    <3>2. Past(w) /\ me.generation = worker[w].generation /\ me.at \in Steps
      BY <1>2, <2>1 DEF Past
    <3>3. /\ runtime'.generation = runtime.generation /\ runtime.generation >= 0
          /\ runtime'.lease \in {NoLease, runtime.lease} /\ Len(run') = Len(run)
      BY <1>2, <2>2, <2>5
    <3> QED  BY <1>1, <2>1, <3>1, <3>2, <3>3, GenerationsKeep
  <2>8. /\ runtime.watermark \in Int /\ runtime.watermark <= t
        /\ \A k \in Key : row[k].at \in Int /\ row[k].at <= t
    <3>1. runtime.watermark \in Int /\ \A k \in Key : row[k].at \in Int
      BY <1>1 DEF Types, Rows
    <3>2. runtime.watermark <= worker[w].clock /\ \A k \in Key : row[k].at <= worker[w].clock
      BY <1>1, <2>4 DEF Local, HolderTimes
    <3> QED  BY <1>4, <3>1, <3>2
  <2>9. Shared'
    <3>1. LeaseTimes'
      <4>1. UNCHANGED row  BY <1>2
      <4>2. /\ runtime'.lease # NoLease /\ runtime'.expires = t + Lease
            /\ runtime'.watermark = runtime.watermark
        BY <2>2, <2>5
      <4>3. t \in Int /\ t + Lease \in Int /\ t < t + Lease  BY <1>4
      <4> QED  BY <2>8, <4>1, <4>2, <4>3 DEF LeaseTimes
    <3> QED  BY <1>1, <1>2, <2>2, <3>1
             DEF Shared, EvaluatesForward, Absent, WatermarkIsComplete, Present
  <2>10. Health'
    <3>1. \A k \in Key : Expects(w, k)' => Expects(w, k)
      BY <2>1, <2>3 DEF Expects, Planning
    <3> QED  BY <1>2, <1>5, <2>3, <3>1, HealthKeeps DEF Present, RunsKeep
  <2>11. Local(w)'
    <3>1. HolderTimes(w)'
      <4>1. worker[w].asOf \in Int  BY <1>3 DEF Running
      <4>2. Bound(w) /\ worker[w].asOf = proofs.asOf /\ runtime.watermark <= worker[w].asOf
            /\ worker[w].asOf <= worker[w].clock
        BY <1>1, <1>2, <2>4 DEF Local, HolderTimes, Bound, Past
      <4>3. Bound(w)' /\ worker'[w].asOf = worker[w].asOf /\ UNCHANGED proofs
        BY <1>2, <2>1, <2>3, <4>2 DEF Bound
      <4>4. /\ worker'[w].clock = t /\ worker'[w].expires = t + Lease
            /\ worker'[w].at # "bind" /\ UNCHANGED row
            /\ runtime'.expires = t + Lease /\ runtime'.watermark = runtime.watermark
        BY <1>2, <2>1, <2>2, <2>3
      <4>5. /\ runtime'.watermark <= worker'[w].clock
            /\ \A k \in Key : row'[k].at <= worker'[w].clock
        BY <2>8, <4>4
      <4>6. /\ worker'[w].asOf = proofs'.asOf /\ runtime'.watermark <= worker'[w].asOf
            /\ worker'[w].asOf <= worker'[w].clock
        BY <1>4, <4>1, <4>2, <4>3, <4>4
      <4> QED  BY <4>4, <4>5, <4>6 DEF HolderTimes
    <3>2. PlanOK(w)'  BY <1>1, <1>2, <2>1, <2>3 DEF Local, PlanOK
    <3>3. SealedPlan(w)'  BY <1>1, <1>2, <2>1, <2>3, <2>4 DEF Local, SealedPlan
    <3>4. Covered(w)'
      BY <1>1, <1>2, <2>1, <2>3, <2>4 DEF Local, Covered, Planning, Whole, Ahead
    <3> QED  BY <3>1, <3>2, <3>3, <3>4 DEF Local
  <2>12. \A v \in Worker : Local(v)'
    <3> SUFFICES ASSUME NEW v \in Worker, v # w  PROVE Local(v)'  BY <2>11
    <3>1. ~Holds(v)'
      <4>1. Holds(v)' => Holds(v)  BY <2>2, <2>3 DEF Holds, Past
      <4> QED  BY <1>1, <2>4, <4>1, HolderIs
    <3>2. \A k \in Key : RowKeeps(k)  BY <1>2 DEF RowKeeps
    <3> QED  BY <2>3, <3>1, <3>2, OthersKeep
  <2> QED  BY <2>6, <2>7, <2>9, <2>10, <2>12 DEF IInv
<1>10. \/ /\ worker' = [worker EXCEPT ![w] = [@ EXCEPT !.clock = t, !.checked = TRUE]]
          /\ UNCHANGED runtime
       \/ worker' = Goes(w, "fail", t) /\ UNCHANGED runtime
       \/ worker' = Leaves(w) /\ UNCHANGED runtime
       \/ /\ InTime(w, t) /\ \E status \in {"running", "sealed"} : Fenced(w, status)
          /\ runtime' = [runtime EXCEPT !.revision = @ + 1, !.expires = t + Lease,
                                        !.updated = t]
          /\ worker' = [worker EXCEPT ![w] = me]
  BY Zenon DEF CheckLease
<1> QED  BY <1>6, <1>7, <1>8, <1>9, <1>10

\* Every row and the watermark lie before the moment that is bound.
LEMMA BindKeeps ==
  ASSUME IInv, NEW w \in Worker, NEW t \in Stamps(w), NEW asOf \in worker[w].clock..t,
         Bind(w, asOf, t)
  PROVE  IInv'
<1> DEFINE me == [worker[w] EXCEPT !.at = "collect", !.clock = t, !.asOf = asOf]
<1> USE Clocks
<1>1. Types /\ Generations /\ Shared /\ Local(w)  BY DEF IInv
<1>2. /\ Past(w) /\ worker[w].at = "bind" /\ UNCHANGED <<runtime, run, row>>
  BY DEF Bind, At, Past, Steps
<1>3. worker[w] \in Running  BY <1>1, <1>2, Me DEF Past, Steps
<1>4. /\ t \in 0..MaxTime /\ worker[w].clock \in 0..MaxTime /\ worker[w].clock <= t
      /\ asOf \in 0..MaxTime /\ worker[w].clock <= asOf /\ asOf <= t
  <2>1. t \in 0..MaxTime /\ worker[w].clock \in 0..MaxTime /\ worker[w].clock <= t
    BY <1>1, <1>2, StampIs
  <2> QED  BY <2>1
<1>5. CASE worker' = Goes(w, "fail", t) /\ UNCHANGED proofs
  BY <1>2, <1>5, FailsQuietly
<1>6. CASE worker' = Leaves(w) /\ UNCHANGED proofs
  BY <1>2, <1>6, LeavesQuietly
<1>7. CASE /\ Fenced(w, "running") /\ proofs' = [proofs EXCEPT !.asOf = asOf]
           /\ worker' = [worker EXCEPT ![w] = me]
  <2>1. /\ me \in Running /\ me.at = "collect" /\ me.clock = t /\ me.asOf = asOf
        /\ me.generation = worker[w].generation /\ me.expires = worker[w].expires
        /\ me.next = worker[w].next
    BY <1>3, <1>4 DEF Running, Steps
  <2> HIDE DEF me
  <2>2. worker'[w] = me /\ \A v \in Worker \ {w} : worker'[v] = worker[v]
    BY <1>1, <1>7, Moves
  <2>3. Holds(w)  BY <1>2, <1>7 DEF Holds, Fenced
  <2>4. /\ proofs' \in [asOf : 0..MaxTime, sources : [Source -> Statuses],
                        planned : Seq(ProofSet), decided : Seq(ProofSet)]
        /\ proofs'.asOf = asOf /\ proofs'.decided = proofs.decided
    BY <1>1, <1>4, <1>7 DEF Types
  <2>5. Types'
    <3>1. worker' \in [Worker -> {Idle} \cup Running]  BY <1>1, <1>7, <2>1, Moves
    <3> QED  BY <1>1, <1>2, <2>4, <3>1 DEF Types
  <2>6. Generations'
    <3>1. \A k \in Key : row'[k].by <= Len(run)  BY <1>1, <1>2 DEF Generations
    <3>2. Past(w) /\ me.generation = worker[w].generation /\ me.at \in Steps
      BY <1>2, <2>1 DEF Steps
    <3> QED  BY <1>1, <1>2, <1>7, <3>1, <3>2, GenerationsKeep
  <2>7. /\ worker[w].expires = runtime.expires
        /\ runtime.watermark \in Int /\ runtime.watermark <= worker[w].clock
        /\ \A k \in Key : /\ row[k].at \in 0..MaxTime /\ row[k].at <= worker[w].clock
                          /\ row[k].at = 0 \/ row[k].at < worker[w].clock
    BY <1>1, <1>2, <2>3 DEF Local, HolderTimes, Types, Rows
  <2>8. Shared'
    <3>1. \A k \in Key : proofs'.asOf > 0 => row[k].at < proofs'.asOf
      BY <1>4, <2>4, <2>7
    <3> QED  BY <1>1, <1>2, <3>1
             DEF Shared, LeaseTimes, EvaluatesForward, Absent, WatermarkIsComplete, Present
  <2>9. Health'
    <3>1. \A k \in Key : ~Expects(w, k)'  BY <2>1, <2>2 DEF Expects, Planning
    <3> QED  BY <1>2, <2>2, <3>1, HealthKeeps DEF Present, Succeeded
  <2>10. Local(w)'
    <3>1. \A k \in Key : row[k].at <= t  BY <1>4, <2>7
    <3>2. runtime.watermark <= asOf /\ runtime.watermark <= t  BY <1>4, <2>7
    <3>3. HolderTimes(w)'
      BY <1>2, <1>4, <2>1, <2>2, <2>4, <2>7, <3>1, <3>2 DEF HolderTimes, Bound
    <3>4. me.next = 1  BY <1>1, <1>2, <2>1 DEF Local, PlanOK
    <3> QED  BY <2>1, <2>2, <3>3, <3>4 DEF Local, PlanOK, SealedPlan, Covered, Planning
  <2>11. \A v \in Worker : Local(v)'
    <3> SUFFICES ASSUME NEW v \in Worker, v # w  PROVE Local(v)'  BY <2>10
    <3>1. ~Holds(v)'
      <4>1. Holds(v)' => Holds(v)  BY <1>2, <2>2 DEF Holds, Past
      <4> QED  BY <1>1, <2>3, <4>1, HolderIs
    <3>2. \A k \in Key : RowKeeps(k)  BY <1>2 DEF RowKeeps
    <3> QED  BY <2>2, <3>1, <3>2, OthersKeep
  <2> QED  BY <2>5, <2>6, <2>8, <2>9, <2>11 DEF IInv
<1> QED  BY <1>2, <1>5, <1>6, <1>7 DEF Bind

LEMMA RecordSourcesKeeps ==
  ASSUME IInv, NEW w \in Worker, NEW t \in Stamps(w), RecordSources(w, t)
  PROVE  IInv'
<1>1. Types /\ Generations /\ Shared /\ Local(w)  BY DEF IInv
<1>2. /\ Past(w) /\ worker[w].at = "record" /\ UNCHANGED <<runtime, run, row>>
  BY DEF RecordSources, Ready, At, Past, Steps
<1>3. worker[w] \in Running  BY <1>1, <1>2, Me
<1>4. t \in 0..MaxTime /\ worker[w].clock \in 0..MaxTime /\ worker[w].clock <= t
  BY <1>1, <1>2, StampIs
<1>5. CASE worker' = Leaves(w) /\ UNCHANGED proofs
  BY <1>2, <1>5, LeavesQuietly
<1>6. CASE /\ Fenced(w, "running") /\ proofs' = [proofs EXCEPT !.sources = worker[w].status]
           /\ worker' = Goes(w, "plan", t)
  <2>1. Holds(w)  BY <1>2, <1>6 DEF Holds, Fenced
  <2>2. /\ worker'[w] \in Running /\ worker' = [worker EXCEPT ![w] = worker'[w]]
        /\ worker'[w].at = "plan" /\ worker'[w].clock = t /\ KeepsWork(w)
    BY <1>1, <1>3, <1>4, <1>6, GoesIs DEF Steps
  <2>3. worker[w].status \in [Source -> Statuses]  BY <1>3 DEF Running
  <2>4. /\ proofs' \in [asOf : 0..MaxTime, sources : [Source -> Statuses],
                        planned : Seq(ProofSet), decided : Seq(ProofSet)]
        /\ proofs'.asOf = proofs.asOf /\ proofs'.decided = proofs.decided
        /\ proofs'.sources = worker[w].status
    BY <1>1, <1>6, <2>3 DEF Types
  <2>5. RunsKeep  BY <1>1, <1>2 DEF RunsKeep, Succeeded, Types
  <2>6. HolderTimes(w)'
    BY <1>2, <1>4, <2>2, <2>4, TimesKeep DEF Bound, Steps
  <2>7. PlanOK(w)' /\ SealedPlan(w)'
    BY <1>1, <1>2, <2>2 DEF Local, PlanOK, SealedPlan, KeepsWork
  <2>8. Covered(w)'
    BY <1>1, <1>2, <2>1, <2>2, <2>4 DEF Local, Covered, KeepsWork, Planning, Whole, Ahead
  <2>9. \A k \in Key : Expects(w, k)' => Expects(w, k)
    BY <1>2, <2>2 DEF Expects, Planning, KeepsWork
  <2> QED  BY <1>2, <2>1, <2>2, <2>4, <2>5, <2>6, <2>7, <2>8, <2>9, Quiet
           DEF Local, KeepsWork, Steps
<1> QED  BY <1>2, <1>5, <1>6 DEF RecordSources

-------------------------------------------------------------------------------
(* The plan                                                                *)

LEMMA PlannedIs ==
  ASSUME Types, NEW w \in Worker, worker[w] \in Running, NEW item,
         item.key \in Key, item.evaluation \in Evaluations, item.partial \in BOOLEAN
  PROVE  /\ Planned(w, item) \in Full /\ Planned(w, item).key = item.key
         /\ Planned(w, item).partial = item.partial
         /\ Snapshot(row[item.key], worker[w].asOf, Planned(w, item))
<1> DEFINE r == row[item.key]
           e == item.evaluation
           result == Advance(Aged(r, worker[w].asOf), e, "automatic")
           disposition == IF item.partial /\ ~PartialAllowed(e, r.life) THEN "suppressed_partial"
                          ELSE IF Nothing(r, e) THEN "no_state_change" ELSE "applied"
<1>1. r \in Rows /\ r.revision \in Nat /\ r.acts \in Nat  BY DEF Types, Rows
<1>2. worker[w].asOf \in 0..MaxTime  BY DEF Running
<1>3. result \in Decisions  BY <1>1, <1>2, AgedIs, AdvanceType
<1>4. disposition \in Dispositions  BY DEF Dispositions
<1>5. /\ disposition = "suppressed_partial" => item.partial
      /\ disposition = "applied" /\ item.partial => PartialAllowed(e, r.life)
  OBVIOUS
<1>6. Planned(w, item) = [key |-> item.key, evaluation |-> e, partial |-> item.partial,
                          disposition |-> disposition, result |-> result,
                          revision |-> r.revision, acts |-> r.acts]
  BY DEF Planned
<1> HIDE DEF r, e, result, disposition
<1>7. /\ Planned(w, item).key = item.key /\ Planned(w, item).partial = item.partial
      /\ Planned(w, item).evaluation = e /\ Planned(w, item).revision = r.revision
      /\ Planned(w, item).result = result /\ Planned(w, item).disposition = disposition
  BY <1>6
<1>8. Planned(w, item) \in Full  BY <1>1, <1>3, <1>4, <1>6 DEF Full, e
<1>9. Snapshot(r, worker[w].asOf, Planned(w, item))
  BY <1>1, <1>5, <1>7 DEF Snapshot, result
<1> QED  BY <1>7, <1>8, <1>9 DEF r

LEMMA PlanDecisionsKeeps ==
  ASSUME IInv, NEW w \in Worker, NEW t \in Stamps(w), PlanDecisions(w, t)
  PROVE  IInv'
<1> DEFINE items == worker[w].plan
           plan == [i \in 1..Len(items) |-> Planned(w, items[i])]
           me == [worker[w] EXCEPT !.at = "seal", !.clock = t, !.checked = FALSE, !.plan = plan]
<1>1. Types /\ Generations /\ Shared /\ Local(w)  BY DEF IInv
<1>2. /\ Past(w) /\ worker[w].at = "plan" /\ UNCHANGED <<runtime, run, proofs, row>>
  BY DEF PlanDecisions, Ready, At, Past, Steps
<1>3. worker[w] \in Running  BY <1>1, <1>2, Me
<1>4. t \in 0..MaxTime /\ worker[w].clock \in 0..MaxTime /\ worker[w].clock <= t
  BY <1>1, <1>2, StampIs
<1>5. CASE worker' = Goes(w, "fail", t)
  BY <1>2, <1>5, FailsQuietly
<1>6. CASE worker' = [worker EXCEPT ![w] = me]
  <2>1. items \in Seq(Raw) /\ worker[w].next = 1 /\ Len(items) \in Nat
    BY <1>1, <1>2, LenProperties DEF Local, PlanOK
  <2>2. ASSUME NEW i \in 1..Len(items)
        PROVE  /\ plan[i] \in Full /\ plan[i].key = items[i].key
               /\ plan[i].partial = items[i].partial
               /\ Snapshot(row[plan[i].key], worker[w].asOf, plan[i])
    <3>1. items[i] \in Raw  BY <2>1, ElementOfSeq
    <3>2. items[i].key \in Key /\ items[i].evaluation \in Evaluations /\ items[i].partial \in BOOLEAN
      BY <3>1 DEF Raw
    <3>3. plan[i] = Planned(w, items[i])  OBVIOUS
    <3> HIDE DEF items, plan
    <3> QED  BY <1>1, <1>3, <3>2, <3>3, PlannedIs
  <2>3. plan \in Seq(Full) /\ Len(plan) = Len(items)
    <3>1. plan = [i \in 1..Len(items) |-> plan[i]]  OBVIOUS
    <3> HIDE DEF plan
    <3>2. plan \in [1..Len(items) -> Full]  BY <2>2, <3>1
    <3> QED  BY <2>1, <3>2, ASequence
  <2> HIDE DEF plan
  <2>4. /\ me \in Running /\ me.at = "seal" /\ me.clock = t /\ me.plan = plan
        /\ me.generation = worker[w].generation /\ me.expires = worker[w].expires
        /\ me.asOf = worker[w].asOf /\ me.status = worker[w].status /\ me.next = 1
    BY <1>3, <1>4, <2>1, <2>3 DEF Running, Steps
  <2> HIDE DEF me
  <2>5. worker'[w] = me  BY <1>1, <1>6, Moves
  <2>6. RunsKeep  BY <1>1, <1>2 DEF RunsKeep, Succeeded, Types
  <2>7. Holds(w)' => Holds(w)  BY <1>2, <2>4, <2>5 DEF Holds
  <2>8. HolderTimes(w)'
    <3> SUFFICES ASSUME Holds(w)'  PROVE HolderTimes(w)'  BY DEF HolderTimes
    <3>1. /\ worker[w].expires = runtime.expires /\ runtime.watermark <= worker[w].clock
          /\ \A k \in Key : row[k].at <= worker[w].clock
          /\ worker[w].asOf = proofs.asOf
          /\ runtime.watermark <= worker[w].asOf /\ worker[w].asOf <= worker[w].clock
      BY <1>1, <1>2, <2>7 DEF Local, HolderTimes, Bound, Steps
    <3>2. /\ runtime.watermark \in Int /\ worker[w].asOf \in Int
          /\ \A k \in Key : row[k].at \in Int
      BY <1>1, <1>3 DEF Types, Rows, Running
    <3> QED  BY <1>2, <1>4, <2>4, <2>5, <3>1, <3>2 DEF HolderTimes
  <2>9. PlanOK(w)' /\ SealedPlan(w)'
    BY <1>2, <2>2, <2>3, <2>4, <2>5 DEF PlanOK, SealedPlan
  <2>10. \A k \in Key : Expects(w, k)' => Expects(w, k)
    BY <1>2, <2>2, <2>3, <2>4, <2>5 DEF Expects, Planning
  <2>11. Covered(w)'
    <3>1. \A k \in Key : Ahead(w, k) => Ahead(w, k)'
      BY <1>2, <2>1, <2>2, <2>3, <2>4, <2>5 DEF Ahead
    <3>2. Planning(w) /\ Planning(w)' /\ (Whole(w)' => Whole(w))
      BY <1>2, <2>4, <2>5 DEF Planning, Whole
    <3>3. Whole(w) => \A i \in 1..Len(items) : ~items[i].partial
      BY <1>1, <3>2 DEF Local, Covered
    <3>4. Whole(w)' => \A i \in 1..Len(worker'[w].plan) : ~worker'[w].plan[i].partial
      BY <2>2, <2>3, <2>4, <2>5, <3>2, <3>3
    <3>5. Holds(w)' => proofs'.sources = worker'[w].status
      BY <1>1, <1>2, <2>4, <2>5, <2>7 DEF Local, Covered
    <3>6. Holds(w)' /\ Whole(w)' =>
            \A k \in Key : Alive(row'[k].life) => row'[k].at >= worker'[w].asOf \/ Ahead(w, k)'
      BY <1>1, <1>2, <2>4, <2>5, <2>7, <3>1, <3>2 DEF Local, Covered
    <3> QED  BY <3>4, <3>5, <3>6 DEF Covered
  <2> QED
    BY <1>2, <1>6, <2>4, <2>6, <2>8, <2>9, <2>10, <2>11, Quiet DEF Local, Steps
<1> QED  BY <1>5, <1>6 DEF PlanDecisions

LEMMA BecomesIs ==
  ASSUME Types, Generations, NEW w \in Worker, Past(w), NEW status \in RunStatuses,
         \E now \in {"running", "sealed"} : Fenced(w, now), run' = Becomes(w, status)
  PROVE  RunsKeep
<1> DEFINE g == worker[w].generation
           R == [status : RunStatuses, occurrence : Occurrence]
<1>1. run \in Seq(R) /\ Len(run) \in Nat /\ DOMAIN run = 1..Len(run) /\ run \in [1..Len(run) -> R]
  BY LenProperties DEF Types
<1>2. g \in 1..Len(run) /\ run[g] \in R  BY <1>1 DEF Generations
<1>3. [run[g] EXCEPT !.status = status] \in R  BY <1>2
<1>4. run' = [run EXCEPT ![g] = [run[g] EXCEPT !.status = status]]  BY DEF Becomes
<1> HIDE DEF R, g
<1>5. run' \in [1..Len(run) -> R]  BY <1>1, <1>2, <1>3, <1>4
<1>6. run' \in Seq(R) /\ Len(run') = Len(run) /\ DOMAIN run' = 1..Len(run)
  BY <1>1, <1>5, ASequence
<1>7. Succeeded => Succeeded'
  <2> SUFFICES ASSUME NEW h \in DOMAIN run, run[h].status = "succeeded"  PROVE Succeeded'
    BY DEF Succeeded
  <2>1. h # g  BY DEF Fenced, Run, g
  <2>2. run'[h] = run[h]  BY <1>1, <1>4, <2>1
  <2> QED  BY <1>1, <1>6, <2>2 DEF Succeeded
<1> QED  BY <1>6, <1>7 DEF RunsKeep, R

LEMMA ProofIs ==
  ASSUME NEW w \in Worker, worker[w] \in Running, NEW item \in Full
  PROVE  /\ Proof(w, item) \in ProofSet /\ Proof(w, item).key = item.key
         /\ Proof(w, item).by = worker[w].generation /\ Proof(w, item).result = item.result
<1>1. /\ worker[w].generation \in Nat /\ item.key \in Key /\ item.disposition \in Dispositions
      /\ item.result \in Decisions
  BY DEF Running, Full
<1> QED  BY <1>1 DEF Proof, ProofSet

LEMMA SealKeeps ==
  ASSUME IInv, NEW w \in Worker, NEW t \in Stamps(w), Seal(w, t)
  PROVE  IInv'
<1> DEFINE items == worker[w].plan
           planned == [i \in 1..Len(items) |-> Proof(w, items[i])]
           step == IF items = <<>> THEN "close" ELSE "decide"
<1>1. Types /\ Generations /\ Shared /\ Local(w)  BY DEF IInv
<1>2. /\ Past(w) /\ worker[w].at = "seal" /\ UNCHANGED <<runtime, row>>
  BY DEF Seal, Ready, At, Past, Steps
<1>3. worker[w] \in Running  BY <1>1, <1>2, Me
<1>4. t \in 0..MaxTime /\ worker[w].clock \in 0..MaxTime /\ worker[w].clock <= t
  BY <1>1, <1>2, StampIs
<1>5. CASE worker' = Leaves(w) /\ UNCHANGED <<run, proofs>>
  BY <1>2, <1>5, LeavesQuietly
<1>6. CASE /\ Fenced(w, "running") /\ run' = Becomes(w, "sealed")
           /\ proofs' = [proofs EXCEPT !.planned = planned] /\ worker' = Goes(w, step, t)
  <2>1. Holds(w)  BY <1>2, <1>6 DEF Holds, Fenced
  <2>2. RunsKeep
    <3>1. "sealed" \in RunStatuses /\ \E now \in {"running", "sealed"} : Fenced(w, now)
      BY <1>6 DEF RunStatuses
    <3> QED  BY <1>1, <1>2, <1>6, <3>1, BecomesIs
  <2>3. items \in Seq(Full) /\ worker[w].next = 1 /\ Len(items) \in Nat
    BY <1>1, <1>2, LenProperties DEF Local, PlanOK
  <2>4. step \in {"close", "decide"} /\ (step = "decide" => Len(items) >= 1)
        /\ (step = "close" => Len(items) = 0)
    BY <2>3
  <2>5. ASSUME NEW i \in 1..Len(items)
        PROVE  /\ planned[i] \in ProofSet /\ planned[i].key = items[i].key
               /\ planned[i].result = items[i].result
    <3>1. items[i] \in Full  BY <2>3, ElementOfSeq
    <3>2. planned[i] = Proof(w, items[i])  OBVIOUS
    <3> HIDE DEF items, planned
    <3> QED  BY <1>3, <3>1, <3>2, ProofIs
  <2>6. planned \in Seq(ProofSet) /\ Len(planned) = Len(items)
    <3>1. planned = [i \in 1..Len(items) |-> planned[i]]  OBVIOUS
    <3> HIDE DEF planned
    <3>2. planned \in [1..Len(items) -> ProofSet]  BY <2>5, <3>1
    <3> QED  BY <2>3, <3>2, ASequence
  <2> HIDE DEF planned, step
  <2>7. /\ proofs' \in [asOf : 0..MaxTime, sources : [Source -> Statuses],
                        planned : Seq(ProofSet), decided : Seq(ProofSet)]
        /\ proofs'.asOf = proofs.asOf /\ proofs'.decided = proofs.decided
        /\ proofs'.sources = proofs.sources /\ proofs'.planned = planned
    BY <1>1, <1>6, <2>6 DEF Types
  <2>8. /\ worker'[w] \in Running /\ worker' = [worker EXCEPT ![w] = worker'[w]]
        /\ worker'[w].at = step /\ worker'[w].clock = t /\ KeepsWork(w)
    BY <1>1, <1>3, <1>4, <1>6, <2>4, GoesIs DEF Steps
  <2>9. HolderTimes(w)'
    BY <1>2, <1>4, <2>4, <2>7, <2>8, TimesKeep DEF Bound, Steps
  <2>10. PlanOK(w)'
    <3>1. worker[w].next <= Len(items) \/ step = "close"  BY <2>3, <2>4
    <3>2. \A i \in 1..Len(items) : Snapshot(row[items[i].key], worker[w].asOf, items[i])
      BY <1>1, <1>2 DEF Local, PlanOK
    <3> QED  BY <1>2, <2>3, <2>4, <2>8, <3>1, <3>2 DEF PlanOK, KeepsWork
  <2>11. SealedPlan(w)'
    BY <2>5, <2>6, <2>7, <2>8 DEF SealedPlan, KeepsWork
  <2>12. Covered(w)'
    <3>1. Planning(w) /\ Planning(w)' /\ (Whole(w)' => Whole(w)) /\ (Holds(w)' => Holds(w))
      BY <1>2, <2>1, <2>4, <2>8 DEF Planning, Whole, KeepsWork
    <3>2. \A k \in Key : Ahead(w, k) => Ahead(w, k)'
      BY <1>2, <2>3, <2>4, <2>8 DEF Ahead, KeepsWork
    <3> QED  BY <1>1, <1>2, <2>7, <2>8, <3>1, <3>2 DEF Local, Covered, KeepsWork
  <2>13. \A k \in Key : Expects(w, k)' => Expects(w, k)
    BY <1>2, <2>8 DEF Expects, Planning, KeepsWork
  <2>14. step \in Steps  BY <2>4 DEF Steps
  <2> QED  BY <1>2, <2>1, <2>2, <2>7, <2>8, <2>9, <2>10, <2>11, <2>12, <2>13, <2>14, Quiet
           DEF Local, KeepsWork
<1> QED  BY <1>2, <1>5, <1>6 DEF Seal

-------------------------------------------------------------------------------
(* The decisions                                                           *)

LEMMA AppendIs ==
  ASSUME NEW S, NEW q \in Seq(S), NEW e \in S
  PROVE  /\ Append(q, e) \in Seq(S) /\ ToSet(Append(q, e)) = ToSet(q) \cup {e}
<1>1. /\ Len(q) \in Nat /\ DOMAIN q = 1..Len(q) /\ Append(q, e) \in Seq(S)
      /\ Len(Append(q, e)) = Len(q) + 1 /\ DOMAIN Append(q, e) = 1..(Len(q) + 1)
      /\ Append(q, e)[Len(q) + 1] = e /\ \A i \in 1..Len(q) : Append(q, e)[i] = q[i]
  BY LenProperties, AppendProperties
<1>2. ASSUME NEW x \in ToSet(Append(q, e))  PROVE x \in ToSet(q) \cup {e}
  <2>1. PICK i \in 1..(Len(q) + 1) : x = Append(q, e)[i]  BY <1>1 DEF ToSet
  <2>2. CASE i = Len(q) + 1  BY <1>1, <2>1, <2>2
  <2>3. CASE i \in 1..Len(q)  BY <1>1, <2>1, <2>3 DEF ToSet
  <2> QED  BY <1>1, <2>2, <2>3
<1>3. ASSUME NEW x \in ToSet(q) \cup {e}  PROVE x \in ToSet(Append(q, e))
  <2>1. CASE x = e
    <3>1. Len(q) + 1 \in 1..(Len(q) + 1)  BY <1>1
    <3> QED  BY <1>1, <2>1, <3>1 DEF ToSet
  <2>2. CASE x \in ToSet(q)
    <3>1. PICK i \in 1..Len(q) : x = q[i]  BY <1>1, <2>2 DEF ToSet
    <3>2. i \in 1..(Len(q) + 1) /\ x = Append(q, e)[i]  BY <1>1, <3>1
    <3> QED  BY <1>1, <3>2 DEF ToSet
  <2> QED  BY <2>1, <2>2
<1> QED  BY <1>1, <1>2, <1>3

\* A worker that decides, and the item it is at.
LEMMA Deciding ==
  ASSUME IInv, NEW w \in Worker, worker[w].at = "decide"
  PROVE  /\ Past(w) /\ worker[w] \in Running /\ worker[w].plan \in Seq(Full)
         /\ Len(worker[w].plan) \in Nat /\ worker[w].next \in 1..Len(worker[w].plan)
         /\ Now(w) = worker[w].plan[worker[w].next] /\ Now(w) \in Full /\ Now(w).key \in Key
         /\ Snapshot(row[Now(w).key], worker[w].asOf, Now(w))
<1>1. Types /\ Local(w)  BY DEF IInv
<1>2. Past(w)  BY DEF Past, Steps
<1>3. worker[w] \in Running  BY <1>1, Me
<1>4. worker[w].plan \in Seq(Full) /\ Len(worker[w].plan) \in Nat
  BY <1>1, LenProperties DEF Local, PlanOK
<1>5. worker[w].next \in 1..Len(worker[w].plan)
  BY <1>1, <1>3, <1>4 DEF Local, PlanOK, Running
<1>6. Now(w) \in Full  BY <1>4, <1>5, ElementOfSeq DEF Now
<1>7. Now(w).key \in Key  BY <1>6 DEF Full
<1>8. Snapshot(row[Now(w).key], worker[w].asOf, Now(w))
  BY <1>1, <1>5 DEF Local, PlanOK, Now
<1> QED  BY <1>2, <1>3, <1>4, <1>5, <1>6, <1>7, <1>8 DEF Now

LEMMA NextItemIs ==
  ASSUME IInv, NEW w \in Worker, worker[w].at = "decide", NEW t \in 0..MaxTime,
         worker' = NextItem(w, t)
  PROVE  /\ worker'[w] \in Running /\ worker' = [worker EXCEPT ![w] = worker'[w]]
         /\ worker'[w].clock = t /\ worker'[w].generation = worker[w].generation
         /\ worker'[w].expires = worker[w].expires /\ worker'[w].asOf = worker[w].asOf
         /\ worker'[w].status = worker[w].status /\ worker'[w].plan = worker[w].plan
         /\ \/ worker'[w].at = "close" /\ worker[w].next = Len(worker[w].plan)
            \/ /\ worker'[w].at = "decide" /\ worker'[w].next = worker[w].next + 1
               /\ worker'[w].next <= Len(worker[w].plan)
<1>1. Types /\ worker[w] \in Running /\ worker[w].next \in 1..Len(worker[w].plan)
      /\ Len(worker[w].plan) \in Nat
  BY Deciding DEF IInv
<1>2. CASE worker[w].next = Len(worker[w].plan)
  <2>1. worker' = Goes(w, "close", t)  BY <1>2 DEF NextItem
  <2> QED  BY <1>1, <1>2, <2>1, GoesIs DEF Steps, KeepsWork
<1>3. CASE worker[w].next # Len(worker[w].plan)
  <2> DEFINE me == [worker[w] EXCEPT !.clock = t, !.checked = FALSE, !.again = FALSE,
                                     !.next = worker[w].next + 1]
  <2>1. worker' = [worker EXCEPT ![w] = me]  BY <1>3 DEF NextItem
  <2>2. worker[w].next + 1 \in Nat \ {0} /\ worker[w].next + 1 <= Len(worker[w].plan)
    BY <1>1, <1>3
  <2>3. /\ me \in Running /\ me.at = "decide" /\ me.clock = t
        /\ me.generation = worker[w].generation /\ me.expires = worker[w].expires
        /\ me.asOf = worker[w].asOf /\ me.status = worker[w].status
        /\ me.plan = worker[w].plan /\ me.next = worker[w].next + 1
    BY <1>1, <2>2 DEF Running
  <2> HIDE DEF me
  <2>4. worker'[w] = me  BY <1>1, <2>1, Moves
  <2> QED  BY <2>1, <2>2, <2>3, <2>4
<1> QED  BY <1>2, <1>3

\* The work that is left once the item has been dealt with.
LEMMA AheadAfter ==
  ASSUME IInv, NEW w \in Worker, worker[w].at = "decide", NEW t \in 0..MaxTime,
         worker' = NextItem(w, t)
  PROVE  /\ \A k \in Key : Ahead(w, k) => k = Now(w).key \/ Ahead(w, k)'
         /\ \A k \in Key : Expects(w, k)' => Expects(w, k)
<1>1. /\ worker[w].next \in 1..Len(worker[w].plan) /\ Len(worker[w].plan) \in Nat
  BY Deciding
<1>2. /\ worker'[w].plan = worker[w].plan
      /\ \/ worker'[w].at = "close" /\ worker[w].next = Len(worker[w].plan)
         \/ worker'[w].at = "decide" /\ worker'[w].next = worker[w].next + 1
  BY NextItemIs
<1>3. ASSUME NEW k \in Key, Ahead(w, k), k # Now(w).key
      PROVE  Ahead(w, k)'
  <2>1. PICK i \in 1..Len(worker[w].plan) : worker[w].next <= i /\ worker[w].plan[i].key = k
    BY <1>3 DEF Ahead
  <2>2. i # worker[w].next  BY <1>3, <2>1 DEF Now
  <2>3. worker'[w].at = "decide" /\ worker'[w].next <= i  BY <1>1, <1>2, <2>1, <2>2
  <2> QED  BY <1>2, <2>1, <2>3 DEF Ahead
<1>4. \A k \in Key : Expects(w, k)' => Expects(w, k)
  BY <1>2 DEF Expects, Planning
<1> QED  BY <1>3, <1>4

\* What stays of the plan when the worker goes to the next item: the rows that
\* were planned are the same, or have a new revision.
LEMMA NextItemKeeps ==
  ASSUME IInv, NEW w \in Worker, worker[w].at = "decide", NEW t \in Stamps(w),
         worker' = NextItem(w, t), UNCHANGED runtime,
         proofs'.asOf = proofs.asOf, proofs'.planned = proofs.planned,
         proofs'.sources = proofs.sources, \A k \in Key : RowKeeps(k),
         row' = row \/ \A k \in Key : row'[k].at <= t
  PROVE  HolderTimes(w)' /\ PlanOK(w)' /\ SealedPlan(w)'
<1>1. Types /\ Local(w)  BY DEF IInv
<1>2. t \in 0..MaxTime /\ worker[w].clock \in 0..MaxTime /\ worker[w].clock <= t
  BY <1>1, StampIs
<1>3. /\ Past(w) /\ worker[w] \in Running /\ worker[w].plan \in Seq(Full)
      /\ Len(worker[w].plan) \in Nat
  BY Deciding
<1>4. /\ worker'[w] \in Running /\ worker'[w].clock = t
      /\ worker'[w].generation = worker[w].generation
      /\ worker'[w].expires = worker[w].expires /\ worker'[w].asOf = worker[w].asOf
      /\ worker'[w].plan = worker[w].plan /\ worker'[w].at \in {"decide", "close"}
      /\ worker'[w].at = "decide" => worker'[w].next <= Len(worker[w].plan)
  BY <1>2, NextItemIs
<1>5. Holds(w)' => Holds(w)  BY <1>3, <1>4 DEF Holds
<1>6. HolderTimes(w)'
  <2> SUFFICES ASSUME Holds(w)'  PROVE HolderTimes(w)'  BY DEF HolderTimes
  <2>1. /\ worker[w].expires = runtime.expires /\ runtime.watermark <= worker[w].clock
        /\ \A k \in Key : row[k].at <= worker[w].clock
        /\ worker[w].asOf = proofs.asOf
        /\ runtime.watermark <= worker[w].asOf /\ worker[w].asOf <= worker[w].clock
    BY <1>1, <1>5 DEF Local, HolderTimes, Bound, Steps
  <2>2. /\ runtime.watermark \in Int /\ worker[w].asOf \in Int /\ \A k \in Key : row[k].at \in Int
    BY <1>1, <1>3 DEF Types, Rows, Running
  <2>3. \A k \in Key : row'[k].at <= t  BY <1>2, <2>1, <2>2
  <2>4. runtime.watermark <= t /\ worker[w].asOf <= t  BY <1>2, <2>1, <2>2
  <2> QED  BY <1>4, <2>1, <2>3, <2>4 DEF HolderTimes
<1>7. PlanOK(w)'
  <2>1. \A i \in 1..Len(worker[w].plan) :
          Snapshot(row'[worker[w].plan[i].key], worker[w].asOf, worker[w].plan[i])
    <3> SUFFICES ASSUME NEW i \in 1..Len(worker[w].plan)
                 PROVE  Snapshot(row'[worker[w].plan[i].key], worker[w].asOf, worker[w].plan[i])
      OBVIOUS
    <3>1. worker[w].plan[i] \in Full  BY <1>3, ElementOfSeq
    <3>2. worker[w].plan[i].key \in Key  BY <3>1 DEF Full
    <3>3. Snapshot(row[worker[w].plan[i].key], worker[w].asOf, worker[w].plan[i])
      BY <1>1 DEF Local, PlanOK
    <3> QED  BY <1>1, <3>1, <3>2, <3>3, SnapshotKeeps
  <2> QED  BY <1>3, <1>4, <2>1 DEF PlanOK
<1>8. SealedPlan(w)'
  BY <1>1, <1>4, <1>5 DEF Local, SealedPlan
<1> QED  BY <1>6, <1>7, <1>8

LEMMA DecisionIsRecorded ==
  ASSUME IInv, NEW w \in Worker, worker[w].at = "decide", proofs' = DecisionRecorded(w)
  PROVE  /\ proofs' \in [asOf : 0..MaxTime, sources : [Source -> Statuses],
                         planned : Seq(ProofSet), decided : Seq(ProofSet)]
         /\ proofs'.asOf = proofs.asOf /\ proofs'.planned = proofs.planned
         /\ proofs'.sources = proofs.sources
         /\ ToSet(proofs'.decided) = ToSet(proofs.decided) \cup {Proof(w, Now(w))}
<1>1. Types  BY DEF IInv
<1>2. Proof(w, Now(w)) \in ProofSet  BY Deciding, ProofIs
<1>3. proofs.decided \in Seq(ProofSet)  BY <1>1 DEF Types
<1>4. /\ Append(proofs.decided, Proof(w, Now(w))) \in Seq(ProofSet)
      /\ ToSet(Append(proofs.decided, Proof(w, Now(w))))
           = ToSet(proofs.decided) \cup {Proof(w, Now(w))}
  BY <1>2, <1>3, AppendIs
<1>5. proofs' = [proofs EXCEPT !.decided = Append(proofs.decided, Proof(w, Now(w)))]
  BY DEF DecisionRecorded
<1> QED  BY <1>1, <1>4, <1>5 DEF Types

LEMMA DecideStatelessKeeps ==
  ASSUME IInv, NEW w \in Worker, NEW t \in Stamps(w), DecideStateless(w, t)
  PROVE  IInv'
<1>1. Types /\ Generations /\ Shared /\ Local(w)  BY DEF IInv
<1>2. /\ worker[w].at = "decide" /\ Now(w).disposition # "applied"
      /\ UNCHANGED <<runtime, run, row>>
  BY DEF DecideStateless, Ready, At
<1>3. t \in 0..MaxTime  BY <1>1, <1>2, StampIs
<1>4. CASE worker' = Leaves(w) /\ UNCHANGED proofs
  BY <1>2, <1>4, LeavesQuietly
<1>5. CASE /\ Fenced(w, "sealed") /\ proofs' = DecisionRecorded(w) /\ worker' = NextItem(w, t)
           /\ Now(w).disposition = "no_state_change" => ~Present(row[Now(w).key])
  <2>1. Past(w) /\ Holds(w)  BY <1>2, <1>5, Deciding DEF Holds, Fenced
  <2>2. /\ proofs' \in [asOf : 0..MaxTime, sources : [Source -> Statuses],
                        planned : Seq(ProofSet), decided : Seq(ProofSet)]
        /\ proofs'.asOf = proofs.asOf /\ proofs'.planned = proofs.planned
        /\ proofs'.sources = proofs.sources
        /\ ToSet(proofs.decided) \subseteq ToSet(proofs'.decided)
    BY <1>2, <1>5, DecisionIsRecorded
  <2>3. RunsKeep  BY <1>1, <1>2 DEF RunsKeep, Succeeded, Types
  <2>4. \A k \in Key : RowKeeps(k)  BY <1>2 DEF RowKeeps
  <2>5. /\ worker'[w] \in Running /\ worker' = [worker EXCEPT ![w] = worker'[w]]
        /\ worker'[w].generation = worker[w].generation /\ worker'[w].asOf = worker[w].asOf
        /\ worker'[w].status = worker[w].status /\ worker'[w].plan = worker[w].plan
        /\ worker'[w].at \in {"decide", "close"}
    BY <1>2, <1>3, <1>5, NextItemIs
  <2>6. HolderTimes(w)' /\ PlanOK(w)' /\ SealedPlan(w)'
    BY <1>2, <1>5, <2>2, <2>4, NextItemKeeps
  <2>7. \A k \in Key : Expects(w, k)' => Expects(w, k)
    BY <1>2, <1>3, <1>5, AheadAfter
  <2>8. Covered(w)'
    <3>1. Planning(w) /\ (Whole(w)' => Whole(w))  BY <1>2, <2>5 DEF Planning, Whole
    <3>2. Whole(w) => \A i \in 1..Len(worker[w].plan) : ~worker[w].plan[i].partial
      BY <1>1, <3>1 DEF Local, Covered
    <3>3. proofs.sources = worker[w].status  BY <1>1, <1>2, <2>1 DEF Local, Covered
    <3>4. ASSUME Whole(w), NEW k \in Key, Alive(row[k].life)
          PROVE  row[k].at >= worker[w].asOf \/ Ahead(w, k)'
      <4>1. row[k].at >= worker[w].asOf \/ Ahead(w, k)
        BY <1>1, <2>1, <3>1, <3>4 DEF Local, Covered
      <4>2. CASE k = Now(w).key
        <5>1. ~Now(w).partial /\ Now(w).disposition \in Dispositions
          BY <1>2, <3>2, <3>4, Deciding DEF Full
        <5>2. Now(w).disposition # "suppressed_partial"
          BY <1>2, <5>1, Deciding DEF Snapshot
        <5>3. ~Present(row[k])  BY <1>2, <1>5, <4>2, <5>1, <5>2 DEF Dispositions
        <5>4. row[k].life = Inactive(0)  BY <1>1, <5>3 DEF Shared, Absent
        <5> QED  BY <3>4, <5>4, InactiveType
      <4> QED  BY <1>2, <1>3, <1>5, <4>1, <4>2, AheadAfter
    <3> QED  BY <1>2, <2>2, <2>5, <3>1, <3>2, <3>3, <3>4 DEF Covered
  <2> QED  BY <1>2, <1>5, <2>1, <2>2, <2>3, <2>5, <2>6, <2>7, <2>8, Quiet DEF Local, Steps
<1> QED  BY <1>2, <1>4, <1>5 DEF DecideStateless

LEMMA DecideAppliedKeeps ==
  ASSUME IInv, NEW w \in Worker, NEW t \in Stamps(w), DecideApplied(w, t)
  PROVE  IInv'
<1> DEFINE n == Now(w).key
           new == Row(Now(w).result.state, worker[w].asOf, worker[w].generation,
                      row[n].revision + 1, row[n].acts)
<1> USE Clocks
<1>1. Types /\ Generations /\ Shared /\ Local(w)  BY DEF IInv
<1>2. /\ worker[w].at = "decide" /\ Fenced(w, "sealed") /\ InTime(w, t)
      /\ row' = [row EXCEPT ![n] = new]
      /\ proofs' = DecisionRecorded(w) /\ worker' = NextItem(w, t)
      /\ UNCHANGED <<runtime, run>>
  BY DEF DecideApplied, Ready, At, Applied
<1>3. /\ t \in 0..MaxTime /\ worker[w].clock \in 0..MaxTime /\ worker[w].clock <= t
  BY <1>1, <1>2, StampIs
<1>4. /\ Past(w) /\ Holds(w) /\ worker[w] \in Running /\ n \in Key /\ Now(w) \in Full
  BY <1>2, Deciding DEF Holds, Fenced
<1>5. /\ worker[w].asOf \in 0..MaxTime /\ worker[w].generation \in Nat
      /\ Now(w).result.state \in Lives /\ row[n] \in Rows
  BY <1>1, <1>4 DEF Running, Full, Decisions, Types
<1>6. /\ new \in Rows /\ new.at = worker[w].asOf /\ new.by = worker[w].generation
      /\ new.revision = row[n].revision + 1 /\ Present(new)
  BY <1>5 DEF Row, Rows, Present
<1> HIDE DEF new, n
<1>7. /\ row' \in [Key -> Rows] /\ row'[n] = new
      /\ \A k \in Key \ {n} : row'[k] = row[k]
  BY <1>1, <1>2, <1>4, <1>6 DEF Types
<1>8. /\ worker[w].expires = runtime.expires /\ worker[w].asOf = proofs.asOf
      /\ runtime.watermark <= worker[w].asOf /\ worker[w].asOf <= worker[w].clock
      /\ \A k \in Key : row[k].at <= worker[w].clock
  BY <1>1, <1>2, <1>4 DEF Local, HolderTimes, Bound, Steps
<1>9. t < runtime.expires  BY <1>2, <1>8 DEF InTime
<1>10. /\ proofs' \in [asOf : 0..MaxTime, sources : [Source -> Statuses],
                       planned : Seq(ProofSet), decided : Seq(ProofSet)]
       /\ proofs'.asOf = proofs.asOf /\ proofs'.planned = proofs.planned
       /\ proofs'.sources = proofs.sources
       /\ ToSet(proofs'.decided) = ToSet(proofs.decided) \cup {Proof(w, Now(w))}
  BY <1>2, DecisionIsRecorded
<1>11. /\ worker'[w] \in Running /\ worker' = [worker EXCEPT ![w] = worker'[w]]
       /\ worker'[w].generation = worker[w].generation /\ worker'[w].asOf = worker[w].asOf
       /\ worker'[w].status = worker[w].status /\ worker'[w].plan = worker[w].plan
       /\ worker'[w].at \in {"decide", "close"}
  BY <1>2, <1>3, NextItemIs
<1>12. \A v \in Worker \ {w} : worker'[v] = worker[v]  BY <1>1, <1>11, Moves
<1>13. \A k \in Key : RowKeeps(k)  BY <1>6, <1>7 DEF RowKeeps
<1>14. runtime.lease # NoLease /\ runtime.generation = Len(run) /\ Len(run) \in Nat
       /\ worker[w].generation = Len(run)
  BY <1>1, <1>4, LeaseIsTaken, LenProperties DEF Types
<1>15. Types'
  <2>1. worker' \in [Worker -> {Idle} \cup Running]  BY <1>1, <1>11, Moves
  <2> QED  BY <1>1, <1>2, <1>7, <1>10, <2>1 DEF Types
<1>16. Generations'
  <2>1. \A k \in Key : row'[k].by <= Len(run)
    BY <1>1, <1>6, <1>7, <1>14 DEF Generations
  <2>2. worker'[w].at \in Steps  BY <1>11 DEF Steps
  <2> QED  BY <1>1, <1>2, <1>4, <1>11, <2>1, <2>2, GenerationsKeep
<1>17. \A k \in Key : row[k].at \in Int /\ row'[k].at <= t
  <2>1. \A k \in Key : row[k].at \in Int  BY <1>1 DEF Types, Rows
  <2> QED  BY <1>3, <1>5, <1>6, <1>7, <1>8, <2>1
<1>18. Shared'
  <2>1. runtime.watermark \in Int /\ runtime.expires \in Int  BY <1>1 DEF Types
  <2>2. LeaseTimes'
    <3>1. runtime.watermark < runtime.expires
      BY <1>1, <1>14 DEF Shared, LeaseTimes
    <3>2. \A k \in Key : row'[k].at \in Int  BY <1>7 DEF Rows
    <3>3. \A k \in Key : row'[k].at < runtime.expires  BY <1>3, <1>9, <1>17, <2>1, <3>2
    <3> QED  BY <1>2, <1>14, <3>1, <3>3 DEF LeaseTimes
  <2>3. EvaluatesForward'
    <3> SUFFICES ASSUME NEW k \in Key \ {p.key : p \in ToSet(proofs'.decided)},
                        runtime.lease # NoLease, proofs'.asOf > 0, Present(row'[k])
                 PROVE  row'[k].at < proofs'.asOf
      BY <1>2 DEF EvaluatesForward, Present
    <3>1. Proof(w, Now(w)).key = n  BY <1>4, ProofIs DEF n
    <3>2. k # n  BY <1>10, <3>1
    <3>3. k \in Key \ {p.key : p \in ToSet(proofs.decided)}  BY <1>10
    <3> QED  BY <1>1, <1>7, <1>10, <3>2, <3>3 DEF Shared, EvaluatesForward
  <2>4. Absent'
    <3>1. ASSUME NEW k \in Key, ~Present(row'[k])  PROVE row'[k].life = Inactive(0)
      <4>1. k # n  BY <1>6, <1>7, <3>1
      <4> QED  BY <1>1, <1>7, <3>1, <4>1 DEF Shared, Absent
    <3> QED  BY <3>1 DEF Absent, Present
  <2>5. WatermarkIsComplete'
    <3> SUFFICES ASSUME NEW k \in Key,
                        row'[k].life.status # "none" \/ row'[k].life.breaches > 0
                 PROVE  row'[k].at >= runtime.watermark
      BY <1>2 DEF WatermarkIsComplete
    <3>1. CASE k = n  BY <1>5, <1>6, <1>7, <1>8, <2>1, <3>1
    <3>2. CASE k # n  BY <1>1, <1>7, <3>2 DEF Shared, WatermarkIsComplete
    <3> QED  BY <3>1, <3>2
  <2> QED  BY <2>2, <2>3, <2>4, <2>5 DEF Shared
<1>19. Health'
  <2>1. Expects(w, n)  BY <1>2, Deciding DEF Expects, Planning, n
  <2>2. \A k \in Key : Present(row[k])' => Present(row[k]) \/ Expects(w, k)
    BY <1>7, <2>1 DEF Present
  <2>3. \A k \in Key : Expects(w, k)' => Expects(w, k)  BY <1>2, <1>3, AheadAfter
  <2>4. Succeeded => Succeeded'  BY <1>2 DEF Succeeded
  <2> QED  BY <1>12, <2>2, <2>3, <2>4, HealthKeeps
<1>20. Local(w)'
  <2>1. HolderTimes(w)' /\ PlanOK(w)' /\ SealedPlan(w)'
    BY <1>2, <1>10, <1>13, <1>17, NextItemKeeps
  <2>2. Covered(w)'
    <3>1. Planning(w) /\ (Whole(w)' => Whole(w))  BY <1>2, <1>11 DEF Planning, Whole
    <3>2. Whole(w) => \A i \in 1..Len(worker[w].plan) : ~worker[w].plan[i].partial
      BY <1>1, <3>1 DEF Local, Covered
    <3>3. proofs.sources = worker[w].status  BY <1>1, <1>2, <1>4 DEF Local, Covered
    <3>4. ASSUME Whole(w), NEW k \in Key, Alive(row'[k].life)
          PROVE  row'[k].at >= worker[w].asOf \/ Ahead(w, k)'
      <4>1. CASE k = n  BY <1>5, <1>6, <1>7, <4>1
      <4>2. CASE k # n
        <5>1. row'[k] = row[k]  BY <1>7, <4>2
        <5>2. row[k].at >= worker[w].asOf \/ Ahead(w, k)
          BY <1>1, <1>4, <3>1, <3>4, <5>1 DEF Local, Covered
        <5> QED  BY <1>2, <1>3, <4>2, <5>1, <5>2, AheadAfter DEF n
      <4> QED  BY <4>1, <4>2
    <3> QED  BY <1>10, <1>11, <3>1, <3>2, <3>3, <3>4 DEF Covered
  <2> QED  BY <2>1, <2>2 DEF Local
<1>21. \A v \in Worker : Local(v)'
  <2> SUFFICES ASSUME NEW v \in Worker, v # w  PROVE Local(v)'  BY <1>20
  <2>1. ~Holds(v)'
    <3>1. Holds(v)' => Holds(v)  BY <1>2, <1>12 DEF Holds, Past
    <3> QED  BY <1>1, <1>4, <3>1, HolderIs
  <2> QED  BY <1>12, <1>13, <2>1, OthersKeep
<1> QED  BY <1>15, <1>16, <1>18, <1>19, <1>21 DEF IInv

\* The decision that is computed again comes out as it was sealed.
LEMMA DecideAgainKeeps ==
  ASSUME IInv, NEW w \in Worker, NEW t \in Stamps(w), DecideAgain(w, t)
  PROVE  IInv'
<1> DEFINE n == worker[w].next
           items == worker[w].plan
           again == Planned(w, Now(w))
           plan == [items EXCEPT ![n] = again]
           me == [worker[w] EXCEPT !.clock = t, !.checked = FALSE, !.again = TRUE, !.plan = plan]
<1>1. Types /\ Generations /\ Shared /\ Local(w)  BY DEF IInv
<1>2. worker[w].at = "decide" /\ UNCHANGED <<runtime, run, proofs, row>>
  BY DEF DecideAgain, Ready, At
<1>3. /\ Past(w) /\ worker[w] \in Running /\ items \in Seq(Full) /\ Len(items) \in Nat
      /\ n \in 1..Len(items) /\ Now(w) = items[n] /\ Now(w) \in Full
  BY <1>2, Deciding
<1>4. t \in 0..MaxTime /\ worker[w].clock \in 0..MaxTime /\ worker[w].clock <= t
  BY <1>1, <1>2, StampIs
<1>5. CASE worker' = Goes(w, "fail", t)
  BY <1>2, <1>3, <1>5, FailsQuietly
<1>6. CASE SameProof(again, Now(w)) /\ worker' = [worker EXCEPT ![w] = me]
  <2>1. /\ again \in Full /\ again.key = items[n].key /\ again.partial = items[n].partial
        /\ Snapshot(row[again.key], worker[w].asOf, again)
    <3>1. /\ Now(w).key \in Key /\ Now(w).evaluation \in Evaluations
          /\ Now(w).partial \in BOOLEAN
      BY <1>3 DEF Full
    <3> QED  BY <1>1, <1>3, <3>1, PlannedIs
  <2>2. again.result = items[n].result  BY <1>3, <1>6 DEF SameProof
  <2> HIDE DEF again
  <2>3. plan \in Seq(Full) /\ Len(plan) = Len(items)  BY <1>3, <2>1, ExceptSeq
  <2>4. \A i \in 1..Len(items) :
          /\ plan[i].key = items[i].key /\ plan[i].partial = items[i].partial
          /\ plan[i].result = items[i].result
          /\ Snapshot(row[plan[i].key], worker[w].asOf, plan[i])
    <3> SUFFICES ASSUME NEW i \in 1..Len(items)
                 PROVE  /\ plan[i].key = items[i].key /\ plan[i].partial = items[i].partial
                        /\ plan[i].result = items[i].result
                        /\ Snapshot(row[plan[i].key], worker[w].asOf, plan[i])
      OBVIOUS
    <3>1. Snapshot(row[items[i].key], worker[w].asOf, items[i])
      BY <1>1, <1>2 DEF Local, PlanOK
    <3>2. DOMAIN items = 1..Len(items)  BY <1>3, LenProperties
    <3>3. plan[i] = IF i = n THEN again ELSE items[i]  BY <1>3, <3>2
    <3> HIDE DEF plan, items, n
    <3> QED  BY <2>1, <2>2, <3>1, <3>3
  <2> HIDE DEF plan
  <2>5. /\ me \in Running /\ me.at = "decide" /\ me.clock = t /\ me.plan = plan
        /\ me.generation = worker[w].generation /\ me.expires = worker[w].expires
        /\ me.asOf = worker[w].asOf /\ me.status = worker[w].status /\ me.next = n
    BY <1>2, <1>3, <1>4, <2>3 DEF Running, Steps
  <2> HIDE DEF me
  <2>6. worker'[w] = me  BY <1>1, <1>6, Moves
  <2>7. RunsKeep  BY <1>1, <1>2 DEF RunsKeep, Succeeded, Types
  <2>8. Holds(w)' => Holds(w)  BY <1>2, <1>3, <2>5, <2>6 DEF Holds
  <2>9. HolderTimes(w)'
    <3> SUFFICES ASSUME Holds(w)'  PROVE HolderTimes(w)'  BY DEF HolderTimes
    <3>1. /\ worker[w].expires = runtime.expires /\ runtime.watermark <= worker[w].clock
          /\ \A k \in Key : row[k].at <= worker[w].clock
          /\ worker[w].asOf = proofs.asOf
          /\ runtime.watermark <= worker[w].asOf /\ worker[w].asOf <= worker[w].clock
      BY <1>1, <1>2, <2>8 DEF Local, HolderTimes, Bound, Steps
    <3>2. /\ runtime.watermark \in Int /\ worker[w].asOf \in Int
          /\ \A k \in Key : row[k].at \in Int
      BY <1>1, <1>3 DEF Types, Rows, Running
    <3> QED  BY <1>2, <1>4, <2>5, <2>6, <3>1, <3>2 DEF HolderTimes
  <2>10. PlanOK(w)'
    BY <1>2, <1>3, <2>3, <2>4, <2>5, <2>6 DEF PlanOK
  <2>11. SealedPlan(w)'
    <3> SUFFICES ASSUME Holds(w)
                 PROVE  /\ Len(proofs.planned) = Len(plan)
                        /\ \A i \in 1..Len(plan) : /\ proofs.planned[i].key = plan[i].key
                                                   /\ proofs.planned[i].result = plan[i].result
      BY <1>2, <2>5, <2>6, <2>8 DEF SealedPlan
    <3>1. /\ Len(proofs.planned) = Len(items)
          /\ \A i \in 1..Len(items) : /\ proofs.planned[i].key = items[i].key
                                      /\ proofs.planned[i].result = items[i].result
      BY <1>1, <1>2 DEF Local, SealedPlan
    <3> QED  BY <2>3, <2>4, <3>1
  <2>12. \A k \in Key : (Expects(w, k)' => Expects(w, k)) /\ (Ahead(w, k) => Ahead(w, k)')
    BY <1>2, <2>3, <2>4, <2>5, <2>6 DEF Expects, Planning, Ahead
  <2>13. Covered(w)'
    <3>1. Planning(w) /\ (Whole(w)' => Whole(w))  BY <1>2, <2>5, <2>6 DEF Planning, Whole
    <3>2. Whole(w) => \A i \in 1..Len(items) : ~items[i].partial
      BY <1>1, <3>1 DEF Local, Covered
    <3>3. Whole(w)' => \A i \in 1..Len(worker'[w].plan) : ~worker'[w].plan[i].partial
      BY <2>3, <2>4, <2>5, <2>6, <3>1, <3>2
    <3>4. Holds(w)' => proofs'.sources = worker'[w].status
      BY <1>1, <1>2, <2>5, <2>6, <2>8 DEF Local, Covered
    <3>5. Holds(w)' /\ Whole(w)' =>
            \A k \in Key : Alive(row'[k].life) => row'[k].at >= worker'[w].asOf \/ Ahead(w, k)'
      BY <1>1, <1>2, <2>5, <2>6, <2>8, <2>12, <3>1 DEF Local, Covered
    <3> QED  BY <3>3, <3>4, <3>5 DEF Covered
  <2> QED
    BY <1>2, <1>3, <1>6, <2>5, <2>7, <2>9, <2>10, <2>11, <2>12, <2>13, Quiet DEF Local, Steps
<1> QED  BY <1>5, <1>6 DEF DecideAgain

-------------------------------------------------------------------------------
(* The end of a run, and the operator                                      *)

\* Who closes the run gives the lease back; the watermark moves only when every
\* live alert is behind it.
LEMMA ClosingKeeps ==
  ASSUME IInv, NEW w \in Worker, NEW t \in Stamps(w), Holds(w), worker' = Leaves(w),
         RunsKeep, UNCHANGED <<proofs, row>>, NEW status \in RuntimeStatuses,
         NEW watermark \in 0..MaxTime, runtime' = Closed(w, t, status, watermark),
         watermark <= worker[w].clock,
         \A k \in Key : Alive(row[k].life) => row[k].at >= watermark
  PROVE  IInv'
<1> USE Clocks
<1>1. Types /\ Generations /\ Shared /\ Local(w)  BY DEF IInv
<1>2. t \in 0..MaxTime /\ worker[w].clock \in 0..MaxTime /\ worker[w].clock <= t
  BY <1>1, StampIs DEF Holds, Past, Steps
<1>3. /\ runtime.lease # NoLease /\ runtime.generation = Len(run) /\ Len(run) \in Nat
  BY <1>1, LeaseIsTaken, LenProperties DEF Types
<1>4. /\ runtime' \in [generation : -1..MaxRuns, revision : Nat, lease : Nat, expires : Nat,
                       updated : 0..MaxTime, status : RuntimeStatuses,
                       watermark : 0..MaxTime]
      /\ runtime'.generation = runtime.generation /\ runtime'.lease = NoLease
      /\ runtime'.updated = t /\ runtime'.watermark = watermark
  <2>1. runtime.generation \in -1..MaxRuns /\ runtime.revision \in Nat  BY <1>1 DEF Types
  <2> QED  BY <1>2, <2>1 DEF Closed, Runtime, NoLease
<1>5. worker' = [worker EXCEPT ![w] = Idle]  BY DEF Leaves
<1>6. worker'[w] = Idle /\ \A v \in Worker \ {w} : worker'[v] = worker[v]
  BY <1>1, <1>5, Moves
<1>7. Types'
  <2>1. worker' \in [Worker -> {Idle} \cup Running]  BY <1>1, <1>5, Moves
  <2> QED  BY <1>1, <1>4, <2>1 DEF Types, RunsKeep
<1>8. Generations'
  <2>1. \A k \in Key : row'[k].by <= Len(run)  BY <1>1 DEF Generations
  <2>2. \A k \in Key : row'[k].by <= Len(run)  BY <2>1
  <2>3. Len(run') = Len(run)  BY DEF RunsKeep
  <2>4. /\ runtime'.generation = runtime.generation /\ runtime.generation >= 0
        /\ runtime'.lease \in {NoLease, runtime.lease}
    BY <1>3, <1>4
  <2> QED  BY <1>1, <1>5, <2>2, <2>3, <2>4, GenerationsKeep
<1>9. Shared'
  <2>1. \A k \in Key : row[k].at \in Int /\ row[k].at <= t
    <3>1. \A k \in Key : row[k].at \in Int  BY <1>1 DEF Types, Rows
    <3>2. \A k \in Key : row[k].at <= worker[w].clock  BY <1>1 DEF Local, HolderTimes
    <3> QED  BY <1>2, <3>1, <3>2
  <2>2. LeaseTimes'  BY <1>2, <1>4, <2>1 DEF LeaseTimes
  <2>3. EvaluatesForward'  BY <1>4 DEF EvaluatesForward
  <2>4. WatermarkIsComplete'  BY <1>4 DEF WatermarkIsComplete, Alive
  <2> QED  BY <1>1, <2>2, <2>3, <2>4 DEF Shared, Absent, Present
<1>10. Health'
  BY <1>6, IdleLocal, HealthKeeps DEF Present, RunsKeep
<1>11. \A v \in Worker : Local(v)'
  <2> SUFFICES ASSUME NEW v \in Worker, v # w  PROVE Local(v)'  BY <1>6, IdleLocal
  <2>1. ~Holds(v)'
    <3>1. Past(v)' => Past(v) /\ worker'[v].generation = worker[v].generation
      BY <1>6 DEF Past
    <3>2. Past(v) => worker[v].generation # NoLease  BY <1>1 DEF Generations, NoLease
    <3> QED  BY <1>4, <3>1, <3>2 DEF Holds
  <2>2. \A k \in Key : RowKeeps(k)  BY DEF RowKeeps
  <2> QED  BY <1>6, <2>1, <2>2, OthersKeep
<1> QED  BY <1>7, <1>8, <1>9, <1>10, <1>11 DEF IInv

LEMMA OutcomeIs ==
  ASSUME NEW w \in Worker
  PROVE  Outcome(w) \in RuntimeStatuses
BY DEF Outcome, RuntimeStatuses

LEMMA CloseKeeps ==
  ASSUME IInv, NEW w \in Worker, NEW t \in Stamps(w), Close(w, t)
  PROVE  IInv'
<1>1. Types /\ Generations /\ Shared /\ Local(w)  BY DEF IInv
<1>2. /\ Past(w) /\ worker[w].at = "close" /\ worker' = Leaves(w) /\ UNCHANGED <<proofs, row>>
  BY DEF Close, Ready, At, Past, Steps
<1>3. CASE UNCHANGED <<runtime, run>>
  BY <1>2, <1>3, LeavesQuietly
<1>4. CASE /\ Fenced(w, "sealed") /\ Complete(w)
           /\ runtime' = Closed(w, t, "healthy", proofs.asOf) /\ run' = Becomes(w, "succeeded")
  <2>1. Holds(w)  BY <1>2, <1>4 DEF Holds, Fenced
  <2>2. RunsKeep
    <3>1. "succeeded" \in RunStatuses /\ \E now \in {"running", "sealed"} : Fenced(w, now)
      BY <1>4 DEF RunStatuses
    <3> QED  BY <1>1, <1>2, <1>4, <3>1, BecomesIs
  <2>3. worker[w].asOf = proofs.asOf /\ worker[w].asOf <= worker[w].clock
    BY <1>1, <1>2, <2>1 DEF Local, HolderTimes, Bound, Steps
  <2>4. Planning(w) /\ Whole(w)
    BY <1>1, <1>2, <1>4, <2>1 DEF Local, Covered, Planning, Whole, Complete
  <2>5. \A k \in Key : Alive(row[k].life) => row[k].at >= proofs.asOf
    BY <1>1, <1>2, <2>1, <2>3, <2>4 DEF Local, Covered, Ahead
  <2>6. proofs.asOf \in 0..MaxTime /\ "healthy" \in RuntimeStatuses
    BY <1>1 DEF Types, RuntimeStatuses
  <2> QED  BY <1>2, <1>4, <2>1, <2>2, <2>3, <2>5, <2>6, ClosingKeeps
<1>5. CASE /\ Fenced(w, "sealed") /\ runtime' = Closed(w, t, Outcome(w), runtime.watermark)
           /\ run' = Becomes(w, "failed")
  <2>1. Holds(w)  BY <1>2, <1>5 DEF Holds, Fenced
  <2>2. RunsKeep
    <3>1. "failed" \in RunStatuses /\ \E now \in {"running", "sealed"} : Fenced(w, now)
      BY <1>5 DEF RunStatuses
    <3> QED  BY <1>1, <1>2, <1>5, <3>1, BecomesIs
  <2>3. runtime.watermark \in 0..MaxTime /\ runtime.watermark <= worker[w].clock
    BY <1>1, <2>1 DEF Types, Local, HolderTimes
  <2>4. \A k \in Key : Alive(row[k].life) => row[k].at >= runtime.watermark
    BY <1>1 DEF Shared, WatermarkIsComplete, Alive
  <2> QED  BY <1>2, <1>5, <2>1, <2>2, <2>3, <2>4, OutcomeIs, ClosingKeeps
<1> QED  BY <1>2, <1>3, <1>4, <1>5 DEF Close

LEMMA FailKeeps ==
  ASSUME IInv, NEW w \in Worker, NEW t \in Stamps(w), Fail(w, t)
  PROVE  IInv'
<1>1. Types /\ Generations /\ Shared /\ Local(w)  BY DEF IInv
<1>2. /\ Past(w) /\ worker' = Leaves(w) /\ UNCHANGED <<proofs, row>>
  BY DEF Fail, At, Past, Steps
<1>3. CASE UNCHANGED <<runtime, run>>
  BY <1>2, <1>3, LeavesQuietly
<1>4. CASE /\ \E status \in {"running", "sealed"} : Fenced(w, status)
           /\ runtime' = Closed(w, t, "failing", runtime.watermark)
           /\ run' = Becomes(w, "failed")
  <2>1. Holds(w)  BY <1>2, <1>4 DEF Holds, Fenced
  <2>2. RunsKeep
    <3>1. "failed" \in RunStatuses  BY DEF RunStatuses
    <3> QED  BY <1>1, <1>2, <1>4, <3>1, BecomesIs
  <2>3. runtime.watermark \in 0..MaxTime /\ runtime.watermark <= worker[w].clock
    BY <1>1, <2>1 DEF Types, Local, HolderTimes
  <2>4. \A k \in Key : Alive(row[k].life) => row[k].at >= runtime.watermark
    BY <1>1 DEF Shared, WatermarkIsComplete, Alive
  <2>5. "failing" \in RuntimeStatuses  BY DEF RuntimeStatuses
  <2> QED  BY <1>2, <1>4, <2>1, <2>2, <2>3, <2>4, <2>5, ClosingKeeps
<1> QED  BY <1>2, <1>3, <1>4 DEF Fail

\* The operator writes no stamp, and only calms.
LEMMA OperatorKeeps ==
  ASSUME IInv, NEW n \in Key, Acknowledge(n) \/ OperatorResolve(n)
  PROVE  IInv'
<1>1. Types /\ Generations /\ Shared /\ Health  BY DEF IInv
<1>2. /\ row[n].life.status # "none" /\ row[n] \in Rows
      /\ UNCHANGED <<runtime, run, proofs, worker>>
  BY <1>1 DEF Acknowledge, OperatorResolve, Types
<1>3. Present(row[n])
  <2>1. Inactive(0).status = "none"  BY DEF Inactive, State
  <2> QED  BY <1>1, <1>2, <2>1 DEF Shared, Absent
<1>4. /\ row' \in [Key -> Rows] /\ \A k \in Key \ {n} : row'[k] = row[k]
      /\ row'[n].at = row[n].at /\ Present(row'[n])
      /\ row'[n].by \in {NoRun, row[n].by}
      /\ \/ row'[n].life = row[n].life /\ row'[n].revision = row[n].revision
         \/ ~Alive(row'[n].life) /\ row'[n].revision = row[n].revision + 1
  <2>1. CASE Acknowledge(n)
    <3> DEFINE new == Row(row[n].life, row[n].at, row[n].by, row[n].revision, row[n].acts + 1)
    <3>1. row' = [row EXCEPT ![n] = new]  BY <2>1 DEF Acknowledge
    <3>2. /\ new \in Rows /\ new.at = row[n].at /\ new.by = row[n].by
          /\ new.life = row[n].life /\ new.revision = row[n].revision
      BY <1>2 DEF Row, Rows
    <3> HIDE DEF new
    <3> QED  BY <1>1, <1>3, <3>1, <3>2 DEF Types, Present
  <2>2. CASE OperatorResolve(n)
    <3> DEFINE new == Row(Inactive(Cooldown), row[n].at, NoRun, row[n].revision + 1,
                          row[n].acts + 1)
    <3>1. row' = [row EXCEPT ![n] = new]  BY <2>2 DEF OperatorResolve
    <3>2. Inactive(Cooldown) \in Lives /\ ~Alive(Inactive(Cooldown))
      BY InactiveType, NaturalPolicy
    <3>3. /\ new \in Rows /\ new.at = row[n].at /\ new.by = NoRun
          /\ new.life = Inactive(Cooldown) /\ new.revision = row[n].revision + 1
      BY <1>2, <3>2 DEF Row, Rows, NoRun
    <3>4. row[n].revision \in Nat  BY <1>2 DEF Rows
    <3> HIDE DEF new
    <3> QED  BY <1>1, <3>1, <3>2, <3>3, <3>4 DEF Types, Present
  <2> QED  BY <2>1, <2>2
<1>5. \A k \in Key : row'[k].at = row[k].at /\ (Present(row'[k]) <=> Present(row[k]))
  BY <1>3, <1>4
<1>6. \A k \in Key : Alive(row'[k].life) => row'[k].life = row[k].life
  BY <1>4
<1>7. Types'  BY <1>1, <1>2, <1>4 DEF Types
<1>8. Generations'
  <2>1. \A k \in Key : row'[k].by <= Len(run)
    <3>1. Len(run) \in Nat  BY <1>1, LenProperties DEF Types
    <3> QED  BY <1>1, <1>4, <3>1 DEF Generations, NoRun
  <2> QED  BY <1>1, <1>2, <2>1 DEF Generations, Past
<1>9. Shared'
  <2>1. LeaseTimes' /\ EvaluatesForward'
    BY <1>1, <1>2, <1>5 DEF Shared, LeaseTimes, EvaluatesForward
  <2>2. Absent'
    BY <1>1, <1>4, <1>5 DEF Shared, Absent
  <2>3. WatermarkIsComplete'
    <3>1. \A k \in Key : Alive(row'[k].life) => Alive(row[k].life)  BY <1>6
    <3> QED  BY <1>1, <1>2, <1>5, <3>1 DEF Shared, WatermarkIsComplete, Alive
  <2> QED  BY <2>1, <2>2, <2>3 DEF Shared
<1>10. Health'
  BY <1>1, <1>2, <1>5 DEF Health, Expects, Planning, Succeeded, OfHealth
<1>11. \A v \in Worker : Local(v)'
  <2> SUFFICES ASSUME NEW v \in Worker  PROVE Local(v)'  OBVIOUS
  <2>1. Local(v)  BY DEF IInv
  <2>2. \A k \in Key : RowKeeps(k)  BY <1>4 DEF RowKeeps
  <2>3. HolderTimes(v)'
    BY <1>2, <1>5, <2>1 DEF Local, HolderTimes, Holds, Past, Bound
  <2>4. PlanOK(v)'
    <3>1. \A i \in 1..Len(worker[v].plan) : worker[v].at \in {"seal", "decide"} =>
            Snapshot(row'[worker[v].plan[i].key], worker[v].asOf, worker[v].plan[i])
      <4> SUFFICES ASSUME NEW i \in 1..Len(worker[v].plan), worker[v].at \in {"seal", "decide"}
                   PROVE  Snapshot(row'[worker[v].plan[i].key], worker[v].asOf, worker[v].plan[i])
        OBVIOUS
      <4>1. worker[v].plan \in Seq(Full)  BY <2>1 DEF Local, PlanOK
      <4>2. worker[v].plan[i] \in Full  BY <4>1, ElementOfSeq
      <4>3. worker[v].plan[i].key \in Key  BY <4>2 DEF Full
      <4>4. Snapshot(row[worker[v].plan[i].key], worker[v].asOf, worker[v].plan[i])
        BY <2>1 DEF Local, PlanOK
      <4> QED  BY <1>1, <2>2, <4>2, <4>3, <4>4, SnapshotKeeps
    <3> QED  BY <1>2, <2>1, <3>1 DEF Local, PlanOK
  <2>5. SealedPlan(v)'
    BY <1>2, <2>1 DEF Local, SealedPlan, Holds, Past
  <2>6. Covered(v)'
    <3>1. \A k \in Key : Alive(row'[k].life) => Alive(row[k].life)  BY <1>6
    <3> QED  BY <1>2, <1>5, <2>1, <3>1
             DEF Local, Covered, Holds, Past, Planning, Whole, Ahead
  <2> QED  BY <2>3, <2>4, <2>5, <2>6 DEF Local
<1> QED  BY <1>7, <1>8, <1>9, <1>10, <1>11 DEF IInv

-------------------------------------------------------------------------------
(* What the readers answer                                                 *)

LEMMA FailedIs ==
  ASSUME NEW s \in Source, NEW status \in {"invalid", "unavailable"}, NEW r, r = Failed(status)
  PROVE  /\ r.status \in Statuses /\ r.status # "complete" /\ r.kept \subseteq GroupsOf(s)
         /\ r.kept = {}
BY DEF Failed, Statuses

LEMMA ReadIs ==
  ASSUME NEW gaps, NEW kept, NEW r, r = Read(gaps, kept)
  PROVE  /\ r.status \in Statuses /\ r.gaps = gaps /\ r.kept = kept
         /\ r.status = "complete" => gaps = {}
BY DEF Read, Statuses

\* A reading that is complete has no gap, and has kept every group; only the
\* reader of the health keeps none, before the first success.
LEMMA ReadingIs ==
  ASSUME NEW s \in Source, NEW b \in BOOLEAN, NEW f \in Facts, NEW r, r = Reading(s, f, b)
  PROVE  /\ r.status \in Statuses /\ r.kept \subseteq GroupsOf(s)
         /\ r.status = "complete" =>
              r.gaps = {} /\ (r.kept = GroupsOf(s) \/ (ReaderOf[s] = "health" /\ ~b))
         /\ ReaderOf[s] = "health" /\ ~b => r.kept = {}
<1> DEFINE Good == /\ r.status \in Statuses /\ r.kept \subseteq GroupsOf(s)
                   /\ r.status = "complete" =>
                        r.gaps = {} /\ (r.kept = GroupsOf(s) \/ (ReaderOf[s] = "health" /\ ~b))
                   /\ ReaderOf[s] = "health" /\ ~b => r.kept = {}
<1> SUFFICES Good  OBVIOUS
<1>1. ASSUME NEW status \in {"invalid", "unavailable"}, r = Failed(status)  PROVE Good
  BY <1>1, FailedIs
<1>2. ASSUME NEW gaps, r = Read(gaps, GroupsOf(s) \ gaps), ReaderOf[s] # "health"  PROVE Good
  <2>1. /\ r.status \in Statuses /\ r.gaps = gaps /\ r.kept = GroupsOf(s) \ gaps
        /\ r.status = "complete" => gaps = {}
    BY <1>2, ReadIs
  <2>2. r.kept \subseteq GroupsOf(s)  BY <2>1
  <2>3. gaps = {} => r.kept = GroupsOf(s)
    <3>1. GroupsOf(s) \ {} = GroupsOf(s)  OBVIOUS
    <3> QED  BY <2>1, <3>1
  <2>4. r.status = "complete" => r.gaps = {} /\ r.kept = GroupsOf(s)
    <3>1. r.status = "complete" => gaps = {}  BY <2>1
    <3>2. r.gaps = gaps  BY <2>1
    <3> QED  BY <3>1, <3>2, <2>3
  <2>5. r.status \in Statuses  BY <2>1
  <2>6. ReaderOf[s] # "health"  BY <1>2
  <2> HIDE DEF Statuses
  <2> QED  BY <2>5, <2>2, <2>4, <2>6
<1>3. ASSUME r = Read(GroupsOf(s), {}), ~(ReaderOf[s] = "health" /\ ~b)  PROVE Good
  <2>1. /\ r.status \in Statuses /\ r.gaps = GroupsOf(s) /\ r.kept = {}
        /\ r.status = "complete" => GroupsOf(s) = {}
    BY <1>3, ReadIs
  <2> HIDE DEF Statuses
  <2> QED  BY <1>3, <2>1
<1>4. ASSUME r = Read({}, GroupsOf(s)), ~(ReaderOf[s] = "health" /\ ~b)  PROVE Good
  BY <1>4, ReadIs
<1>5. ASSUME r = Read({}, {}), ReaderOf[s] = "health", ~b  PROVE Good
  BY <1>5, ReadIs
<1>6. ASSUME r = Read(OAuthGaps(s, f), OAuthKept(s, f)), ReaderOf[s] # "health"  PROVE Good
  <2>1. /\ r.status \in Statuses /\ r.gaps = OAuthGaps(s, f) /\ r.kept = OAuthKept(s, f)
        /\ r.status = "complete" => OAuthGaps(s, f) = {}
    BY <1>6, ReadIs
  <2>2. OAuthGaps(s, f) = {} => OAuthKept(s, f) = GroupsOf(s)
    BY DEF OAuthGaps, OAuthKept, Uncounted
  <2>3. OAuthKept(s, f) \subseteq GroupsOf(s)  BY DEF OAuthKept
  <2> QED  BY <1>6, <2>1, <2>2, <2>3
<1> HIDE DEF Good
<1>7. CASE ReaderOf[s] = "audit"
  <2>1. r = AuditReading(s, f)  BY <1>7 DEF Reading
  <2> QED  BY <1>1, <1>2, <1>7, <2>1 DEF AuditReading
<1>8. CASE ReaderOf[s] = "oauth"
  <2>1. r = OAuthReading(s, f)  BY <1>8 DEF Reading
  <2> QED  BY <1>1, <1>8, <1>6, <2>1 DEF OAuthReading
<1>9. CASE ReaderOf[s] = "logout"
  <2>1. r = LogoutReading(s, f)  BY <1>9 DEF Reading
  <2>2. \/ r = Failed("unavailable") \/ r = Failed("invalid")
        \/ r = Read(LogoutGaps(s, f), GroupsOf(s) \ LogoutGaps(s, f))
    BY <2>1 DEF LogoutReading
  <2> QED  BY <1>1, <1>2, <1>9, <2>2
<1>10. CASE ReaderOf[s] = "fanout"
  <2>1. r = FanoutReading(s, f)  BY <1>10 DEF Reading
  <2> QED  BY <1>1, <1>3, <1>4, <1>10, <2>1 DEF FanoutReading
<1>11. CASE ReaderOf[s] = "health"
  <2>1. r = HealthReading(s, f, b)  BY <1>11 DEF Reading
  <2>2. CASE ~b
    <3>1. \/ r \in {Failed("unavailable"), Failed("invalid")} \/ r = Read({}, {})
      BY <2>1, <2>2 DEF HealthReading
    <3> QED  BY <1>1, <1>11, <1>5, <2>2, <3>1
  <2>3. CASE b
    <3>1. \/ r \in {Failed("unavailable"), Failed("invalid")}
          \/ r = Read(GroupsOf(s), {}) \/ r = Read({}, GroupsOf(s))
      BY <2>1, <2>3 DEF HealthReading
    <3> QED  BY <1>1, <1>3, <1>4, <2>3, <3>1
  <2> QED  BY <2>2, <2>3
<1>12. CASE ReaderOf[s] = "queue"
  <2>1. r = QueueReading(s, f)  BY <1>12 DEF Reading
  <2> QED  BY <1>1, <1>4, <1>12, <2>1 DEF QueueReading
<1>13. ReaderOf[s] \in Readers  BY SourcesAssumption
<1> QED  BY <1>7, <1>8, <1>9, <1>10, <1>11, <1>12, <1>13 DEF Readers

LEMMA FoundIs ==
  ASSUME NEW groups, NEW f \in Found(groups)
  PROVE  /\ DOMAIN f \subseteq {k \in Key : GroupOf[k] \in groups}
         /\ Due(groups) \subseteq DOMAIN f
         /\ \A k \in DOMAIN f : f[k] \in Observed[k]
<1>1. PICK S \in SUBSET {k \in Key : GroupOf[k] \in groups} :
        /\ Due(groups) \subseteq S /\ f \in [S -> UNION {Observed[k] : k \in S}]
        /\ \A k \in S : f[k] \in Observed[k]
  BY DEF Found
<1> QED  BY <1>1

LEMMA ReadingsAre ==
  ASSUME NEW s \in Source, NEW x \in Readings(s)
  PROVE  /\ x.status \in Statuses /\ DOMAIN x.found \subseteq KeysOf(s)
         /\ \A k \in DOMAIN x.found : x.found[k] \in Observed[k]
         /\ x.status = "complete" =>
              /\ x.gaps = {}
              /\ \A k \in KeysOf(s) : Alive(row[k].life) =>
                   k \in DOMAIN x.found \/ (OfHealth(k) /\ ~Succeeded)
         /\ ReaderOf[s] = "health" /\ ~Succeeded => DOMAIN x.found = {}
<1>1. Succeeded \in BOOLEAN  BY DEF Succeeded
<1>2. PICK r \in Results[s][Succeeded] : \E f \in Found(r.kept) :
        x = [status |-> r.status, gaps |-> r.gaps, found |-> f]
  BY DEF Readings
<1>3. PICK h \in Found(r.kept) : x = [status |-> r.status, gaps |-> r.gaps, found |-> h]
  BY <1>2
<1>4. \E f \in Facts : r = Reading(s, f, Succeeded)
  BY <1>1, <1>2 DEF Results
<1>5. /\ r.status \in Statuses /\ r.kept \subseteq GroupsOf(s)
      /\ r.status = "complete" =>
           r.gaps = {} /\ (r.kept = GroupsOf(s) \/ (ReaderOf[s] = "health" /\ ~Succeeded))
      /\ ReaderOf[s] = "health" /\ ~Succeeded => r.kept = {}
  BY <1>1, <1>4, ReadingIs
<1>6. /\ DOMAIN h \subseteq {k \in Key : GroupOf[k] \in r.kept} /\ Due(r.kept) \subseteq DOMAIN h
      /\ \A k \in DOMAIN h : h[k] \in Observed[k]
  BY FoundIs
<1>7. x.status = r.status /\ x.gaps = r.gaps /\ x.found = h  BY <1>3
<1>8. {k \in Key : GroupOf[k] \in r.kept} \subseteq KeysOf(s)  BY <1>5 DEF KeysOf, GroupsOf
<1>9. ASSUME r.kept = GroupsOf(s), NEW k \in KeysOf(s), Alive(row[k].life)
      PROVE  k \in DOMAIN h
  <2>1. k \in Key /\ GroupOf[k] \in r.kept
    BY <1>9, RunsAssumption DEF KeysOf, GroupsOf
  <2>2. Tracked(k)  BY <1>9 DEF Alive, Tracked
  <2> QED  BY <1>6, <2>1, <2>2 DEF Due
<1>10. \A k \in KeysOf(s) : ReaderOf[s] = "health" => OfHealth(k)  BY DEF KeysOf, OfHealth
<1> QED  BY <1>5, <1>6, <1>7, <1>8, <1>9, <1>10

\* What a worker has collected, of every source.
LEMMA CollectedIs ==
  ASSUME NEW reading, \A s \in Source : reading[s] \in Readings(s),
         NEW kept, kept = Retained(AllOf(reading)), NEW order \in Ordered(kept),
         NEW status, status = StatusOf(reading, kept),
         NEW plan, plan = WorkOf(reading, kept, order)
  PROVE  /\ plan \in Seq(Raw) /\ status \in [Source -> Statuses]
         /\ \A i \in 1..Len(plan) : Succeeded \/ ~OfHealth(plan[i].key)
         /\ (\A s \in Source : status[s] = "complete") =>
              /\ \A i \in 1..Len(plan) : ~plan[i].partial
              /\ \A k \in Key : Alive(row[k].life) =>
                   \/ \E i \in 1..Len(plan) : plan[i].key = k
                   \/ OfHealth(k) /\ ~Succeeded
<1> DEFINE of(k) == reading[SourceOf[GroupOf[k]]]
           n == Cardinality(kept)
           keys == AllOf(reading)
<1>1. kept \subseteq keys  BY DEF Retained
<1>2. ASSUME NEW k \in keys
      PROVE  /\ k \in Key /\ SourceOf[GroupOf[k]] \in Source /\ k \in DOMAIN of(k).found
             /\ of(k).found[k] \in Evaluations
             /\ Succeeded \/ ~OfHealth(k)
  <2>1. PICK s \in Source : k \in DOMAIN reading[s].found  BY DEF AllOf
  <2>2. reading[s] \in Readings(s)  OBVIOUS
  <2>3. /\ k \in KeysOf(s) /\ reading[s].found[k] \in Observed[k]
        /\ ReaderOf[s] = "health" => Succeeded
    BY <2>1, <2>2, ReadingsAre
  <2>4. k \in Key /\ SourceOf[GroupOf[k]] = s  BY <2>3 DEF KeysOf
  <2> QED  BY <2>1, <2>3, <2>4 DEF Evaluations, OfHealth
<1>3. n \in Nat
  <2>1. kept \subseteq Key  BY <1>1, <1>2
  <2>2. IsFiniteSet(kept)  BY <2>1, FS_Subset, RunsAssumption
  <2> QED  BY <2>2, FS_CardinalityType
<1>4. order \in [1..n -> kept] /\ ToSet(order) = kept  BY DEF Ordered
<1>5. ASSUME NEW i \in 1..n
      PROVE  /\ plan[i] \in Raw /\ plan[i].key = order[i] /\ order[i] \in keys
             /\ plan[i].partial = KnownInPart(order[i], of(order[i]), kept)
  <2>1. order[i] \in keys  BY <1>1, <1>4
  <2>2. KnownInPart(order[i], of(order[i]), kept) \in BOOLEAN  BY DEF KnownInPart
  <2>3. plan[i] = Item(order[i], of(order[i]).found[order[i]],
                       KnownInPart(order[i], of(order[i]), kept))
    BY DEF WorkOf
  <2> HIDE DEF of
  <2> QED  BY <1>2, <2>1, <2>2, <2>3 DEF Item, Raw
<1>6. plan \in Seq(Raw) /\ Len(plan) = n
  <2>1. plan \in [1..n -> Raw]
    <3>1. plan = [i \in 1..n |-> plan[i]]  BY DEF WorkOf
    <3> QED  BY <1>5, <3>1
  <2> QED  BY <1>3, <2>1, ASequence
<1>7. ASSUME NEW s \in Source
      PROVE  /\ status[s] \in Statuses
             /\ status[s] = "complete" =>
                  reading[s].status = "complete" /\ DOMAIN reading[s].found \ kept = {}
  <2>1. reading[s].status \in Statuses  BY ReadingsAre
  <2>2. status[s] = Capped(reading[s].status, DOMAIN reading[s].found, kept)  BY DEF StatusOf
  <2> QED  BY <2>1, <2>2 DEF Capped, Statuses
<1>8. status \in [Source -> Statuses]  BY <1>7 DEF StatusOf
<1>9. \A i \in 1..Len(plan) : Succeeded \/ ~OfHealth(plan[i].key)
  BY <1>2, <1>5, <1>6
<1>10. ASSUME \A s \in Source : status[s] = "complete", NEW i \in 1..Len(plan)
       PROVE  ~plan[i].partial
  <2> DEFINE s == SourceOf[GroupOf[order[i]]]
  <2>1. i \in 1..n /\ s \in Source  BY <1>2, <1>5, <1>6
  <2>2. reading[s].status = "complete" /\ DOMAIN reading[s].found \ kept = {}
    BY <1>7, <1>10, <2>1
  <2>3. reading[s].gaps = {}  BY <2>1, <2>2, ReadingsAre
  <2>4. ~KnownInPart(order[i], reading[s], kept)  BY <2>2, <2>3 DEF KnownInPart
  <2> QED  BY <1>5, <2>1, <2>4
<1>11. ASSUME \A s \in Source : status[s] = "complete", NEW k \in Key, Alive(row[k].life),
              ~(OfHealth(k) /\ ~Succeeded)
       PROVE  \E i \in 1..Len(plan) : plan[i].key = k
  <2> DEFINE s == SourceOf[GroupOf[k]]
  <2>1. s \in Source /\ k \in KeysOf(s)
    BY RunsAssumption, SourcesAssumption DEF KeysOf
  <2>2. reading[s].status = "complete" /\ DOMAIN reading[s].found \ kept = {}
    BY <1>7, <1>11, <2>1
  <2>3. k \in DOMAIN reading[s].found  BY <1>11, <2>1, <2>2, ReadingsAre
  <2>4. k \in kept  BY <2>2, <2>3
  <2>5. PICK i \in 1..n : order[i] = k  BY <1>3, <1>4, <2>4 DEF ToSet
  <2> QED  BY <1>5, <1>6, <2>5
<1> QED  BY <1>6, <1>8, <1>9, <1>10, <1>11

LEMMA CollectKeeps ==
  ASSUME IInv, NEW w \in Worker, NEW t \in Stamps(w), Collect(w, t)
  PROVE  IInv'
<1>1. Types /\ Generations /\ Shared /\ Local(w)  BY DEF IInv
<1>2. /\ Past(w) /\ worker[w].at = "collect" /\ UNCHANGED <<runtime, run, proofs, row>>
  BY DEF Collect, Ready, At, Past, Steps
<1>3. worker[w] \in Running  BY <1>1, <1>2, Me
<1>4. t \in 0..MaxTime /\ worker[w].clock \in 0..MaxTime /\ worker[w].clock <= t
  BY <1>1, <1>2, StampIs
<1>a. PICK reading, order :
         /\ \A s \in Source : reading[s] \in Readings(s)
         /\ order \in Ordered(Retained(AllOf(reading)))
         /\ worker' = [worker EXCEPT ![w] = [worker[w] EXCEPT
              !.at = "record", !.clock = t, !.checked = FALSE,
              !.status = StatusOf(reading, Retained(AllOf(reading))),
              !.plan = WorkOf(reading, Retained(AllOf(reading)), order)]]
  BY DEF Collect
<1>b. PICK kept, status, plan :
         /\ kept = Retained(AllOf(reading)) /\ status = StatusOf(reading, kept)
         /\ plan = WorkOf(reading, kept, order)
  OBVIOUS
<1>c. /\ order \in Ordered(kept)
      /\ worker' = [worker EXCEPT ![w] = [worker[w] EXCEPT
           !.at = "record", !.clock = t, !.checked = FALSE, !.status = status,
           !.plan = plan]]
  BY ONLY <1>a, <1>b
<1>5. /\ plan \in Seq(Raw) /\ status \in [Source -> Statuses]
      /\ \A i \in 1..Len(plan) : Succeeded \/ ~OfHealth(plan[i].key)
      /\ (\A s \in Source : status[s] = "complete") =>
           /\ \A i \in 1..Len(plan) : ~plan[i].partial
           /\ \A k \in Key : Alive(row[k].life) =>
                \/ \E i \in 1..Len(plan) : plan[i].key = k
                \/ OfHealth(k) /\ ~Succeeded
  BY <1>a, <1>b, <1>c, CollectedIs
<1> DEFINE me == [worker[w] EXCEPT !.at = "record", !.clock = t, !.checked = FALSE,
                                   !.status = status, !.plan = plan]
<1>6. worker' = [worker EXCEPT ![w] = me]  BY <1>c
<1>7. worker[w].next = 1  BY <1>1, <1>2 DEF Local, PlanOK
<1>8. /\ me \in Running /\ me.at = "record" /\ me.clock = t /\ me.plan = plan
      /\ me.generation = worker[w].generation /\ me.expires = worker[w].expires
      /\ me.asOf = worker[w].asOf /\ me.status = status /\ me.next = 1
  BY <1>3, <1>4, <1>5, <1>7 DEF Running, Steps
<1> HIDE DEF me
<1>9. worker'[w] = me  BY <1>1, <1>6, Moves
<1>10. RunsKeep  BY <1>1, <1>2 DEF RunsKeep, Succeeded, Types
<1>11. Holds(w)' => Holds(w)  BY <1>2, <1>8, <1>9 DEF Holds
<1>12. HolderTimes(w)'
  <2> SUFFICES ASSUME Holds(w)'  PROVE HolderTimes(w)'  BY DEF HolderTimes
  <2>1. /\ worker[w].expires = runtime.expires /\ runtime.watermark <= worker[w].clock
        /\ \A k \in Key : row[k].at <= worker[w].clock
        /\ worker[w].asOf = proofs.asOf
        /\ runtime.watermark <= worker[w].asOf /\ worker[w].asOf <= worker[w].clock
    BY <1>1, <1>2, <1>11 DEF Local, HolderTimes, Bound, Steps
  <2>2. /\ runtime.watermark \in Int /\ worker[w].asOf \in Int
        /\ \A k \in Key : row[k].at \in Int
    BY <1>1, <1>3 DEF Types, Rows, Running
  <2> QED  BY <1>2, <1>4, <1>8, <1>9, <2>1, <2>2 DEF HolderTimes
<1>13. PlanOK(w)' /\ SealedPlan(w)'
  BY <1>5, <1>8, <1>9 DEF PlanOK, SealedPlan
<1>14. \A k \in Key : Expects(w, k)' => Succeeded \/ ~OfHealth(k)
  BY <1>5, <1>8, <1>9 DEF Expects
<1>15. Covered(w)'
  <2>1. Whole(w)' => \A s \in Source : status[s] = "complete"
    BY <1>8, <1>9 DEF Whole
  <2>2. Whole(w)' => \A i \in 1..Len(worker'[w].plan) : ~worker'[w].plan[i].partial
    BY <1>5, <1>8, <1>9, <2>1
  <2>3. ASSUME Whole(w)', NEW k \in Key, Alive(row'[k].life)
        PROVE  Ahead(w, k)'
    <3>1. ~(OfHealth(k) /\ ~Succeeded)
      <4> SUFFICES ASSUME OfHealth(k), ~Succeeded  PROVE FALSE  OBVIOUS
      <4>1. ~Present(row[k])  BY DEF IInv, Health
      <4>2. row[k].life = Inactive(0)  BY <1>1, <4>1 DEF Shared, Absent
      <4>3. ~Alive(Inactive(0))  BY InactiveType
      <4> QED  BY <1>2, <2>3, <4>2, <4>3
    <3>2. PICK i \in 1..Len(plan) : plan[i].key = k
      BY <1>2, <1>5, <2>1, <2>3, <3>1
    <3>3. Len(plan) \in Nat  BY <1>5, LenProperties
    <3> QED  BY <1>8, <1>9, <3>2, <3>3 DEF Ahead
  <2> QED  BY <1>8, <1>9, <2>2, <2>3 DEF Covered
<1> QED
  BY <1>2, <1>6, <1>8, <1>10, <1>12, <1>13, <1>14, <1>15, Quiet DEF Local, Steps

-------------------------------------------------------------------------------
(* All steps                                                               *)

\* Every step of the system keeps the invariant.
LEMMA NextKeeps ==
  ASSUME IInv, [Next]_vars
  PROVE  IInv'
<1>1. CASE UNCHANGED vars
  <2> USE <1>1 DEF vars
  <2>1. Types' /\ Generations' BY DEF IInv, Types, Generations, Past
  <2>2. Shared'
    BY DEF IInv, Shared, LeaseTimes, EvaluatesForward, Absent, WatermarkIsComplete, Present
  <2>3. Health'  BY DEF IInv, Health, Succeeded, Present, Expects, Planning, OfHealth
  <2>4. ASSUME NEW w \in Worker  PROVE Local(w)'
    <3>1. \A k \in Key : RowKeeps(k)  BY DEF RowKeeps
    <3> QED  BY <3>1, OthersKeep
  <2> QED  BY <2>1, <2>2, <2>3, <2>4 DEF IInv
<1>2. ASSUME NEW w \in Worker, NEW t \in 0..MaxTime, Initialize(w, t)  PROVE IInv'
  BY <1>2, InitializeKeeps
<1>3. ASSUME NEW w \in Worker, NEW t \in 0..MaxTime, NEW o \in Occurrence, Start(w, o, t)
      PROVE  IInv'
  BY <1>3, StartKeeps
<1>4. ASSUME NEW w \in Worker, Acquire(w)  PROVE IInv'
  BY <1>4, AcquireKeeps
<1>5. ASSUME NEW w \in Worker, Works(w)  PROVE IInv'
  <2>1. PICK t \in Stamps(w) :
          \/ CheckLease(w, t) \/ Collect(w, t) \/ RecordSources(w, t)
          \/ PlanDecisions(w, t) \/ Seal(w, t)
          \/ DecideStateless(w, t) \/ DecideApplied(w, t) \/ DecideAgain(w, t)
          \/ Close(w, t) \/ Fail(w, t)
          \/ \E asOf \in worker[w].clock..t : Bind(w, asOf, t)
    BY <1>5 DEF Works
  <2>2. CASE CheckLease(w, t)  BY <2>2, CheckLeaseKeeps
  <2>3. CASE Collect(w, t)  BY <2>3, CollectKeeps
  <2>4. CASE RecordSources(w, t)  BY <2>4, RecordSourcesKeeps
  <2>5. CASE PlanDecisions(w, t)  BY <2>5, PlanDecisionsKeeps
  <2>6. CASE Seal(w, t)  BY <2>6, SealKeeps
  <2>7. CASE DecideStateless(w, t)  BY <2>7, DecideStatelessKeeps
  <2>8. CASE DecideApplied(w, t)  BY <2>8, DecideAppliedKeeps
  <2>9. CASE DecideAgain(w, t)  BY <2>9, DecideAgainKeeps
  <2>10. CASE Close(w, t)  BY <2>10, CloseKeeps
  <2>11. CASE Fail(w, t)  BY <2>11, FailKeeps
  <2>12. CASE \E asOf \in worker[w].clock..t : Bind(w, asOf, t)  BY <2>12, BindKeeps
  <2> QED
    BY <2>1, <2>2, <2>3, <2>4, <2>5, <2>6, <2>7, <2>8, <2>9, <2>10, <2>11, <2>12
<1>6. ASSUME NEW w \in Worker, Crash(w)  PROVE IInv'
  BY <1>6, LeavesQuietly DEF Crash
<1>7. ASSUME NEW k \in Key, Acknowledge(k) \/ OperatorResolve(k)  PROVE IInv'
  BY <1>7, OperatorKeeps
<1> QED  BY <1>1, <1>2, <1>3, <1>4, <1>5, <1>6, <1>7 DEF Next

\* Only a decision, and the operator, write a row; only a decision is recorded.
LEMMA WritersAre ==
  ASSUME IInv, [Next]_vars
  PROVE  \/ UNCHANGED row /\ ToSet(proofs'.decided) \subseteq ToSet(proofs.decided)
         \/ \E w \in Worker, t \in Nat : DecideStateless(w, t)
         \/ \E w \in Worker, t \in Nat : DecideApplied(w, t)
         \/ \E k \in Key : Acknowledge(k) \/ OperatorResolve(k)
<1> DEFINE Silent == UNCHANGED row /\ ToSet(proofs'.decided) \subseteq ToSet(proofs.decided)
<1>1. CASE UNCHANGED vars  BY <1>1 DEF vars
<1>2. ASSUME NEW w \in Worker, NEW t \in 0..MaxTime,
             Initialize(w, t) \/ \E o \in Occurrence : Start(w, o, t)
      PROVE  Silent
  BY <1>2 DEF Initialize, Start
<1>3. ASSUME NEW w \in Worker, Acquire(w)  PROVE Silent
  <2>1. UNCHANGED row /\ (proofs' = NoProofs \/ UNCHANGED proofs)  BY <1>3 DEF Acquire
  <2>2. ToSet(NoProofs.decided) = {}  BY DEF NoProofs, ToSet
  <2> QED  BY <2>1, <2>2
<1>4. ASSUME NEW w \in Worker, Works(w),
             ~\E t \in Nat : DecideStateless(w, t) \/ DecideApplied(w, t)
      PROVE  Silent
  <2>1. PICK t \in Stamps(w) :
          \/ CheckLease(w, t) \/ Collect(w, t) \/ RecordSources(w, t)
          \/ PlanDecisions(w, t) \/ Seal(w, t)
          \/ DecideStateless(w, t) \/ DecideApplied(w, t) \/ DecideAgain(w, t)
          \/ Close(w, t) \/ Fail(w, t)
          \/ \E asOf \in worker[w].clock..t : Bind(w, asOf, t)
    BY <1>4 DEF Works
  <2>2. t \in Nat
    <3>1. Types /\ worker[w].at # "idle"  BY <1>4 DEF IInv, Works, At
    <3> QED  BY <3>1, StampIs
  <2>3. CASE CheckLease(w, t) \/ Collect(w, t) \/ PlanDecisions(w, t) \/ DecideAgain(w, t)
             \/ Close(w, t) \/ Fail(w, t)
    BY <2>3 DEF CheckLease, Collect, PlanDecisions, DecideAgain, Close, Fail
  <2>4. CASE RecordSources(w, t) \/ Seal(w, t)
             \/ \E asOf \in worker[w].clock..t : Bind(w, asOf, t)
    <3>1. Types  BY DEF IInv
    <3>2. /\ UNCHANGED row
          /\ \/ UNCHANGED proofs
             \/ \E x : proofs' = [proofs EXCEPT !.sources = x]
             \/ \E x : proofs' = [proofs EXCEPT !.planned = x]
             \/ \E x : proofs' = [proofs EXCEPT !.asOf = x]
      BY <2>4 DEF RecordSources, Seal, Bind
    <3>3. proofs'.decided = proofs.decided  BY <3>1, <3>2 DEF Types
    <3> QED  BY <3>2, <3>3
  <2> QED  BY <1>4, <2>1, <2>2, <2>3, <2>4
<1>5. ASSUME NEW w \in Worker, Crash(w)  PROVE Silent
  BY <1>5 DEF Crash
<1> HIDE DEF Silent
<1>6. ASSUME Next
      PROVE  \/ Silent
             \/ \E w \in Worker, t \in Nat : DecideStateless(w, t)
             \/ \E w \in Worker, t \in Nat : DecideApplied(w, t)
             \/ \E k \in Key : Acknowledge(k) \/ OperatorResolve(k)
  BY <1>2, <1>3, <1>4, <1>5, <1>6 DEF Next
<1> QED  BY <1>1, <1>6 DEF Silent

-------------------------------------------------------------------------------
(* The theorems                                                            *)

\* The invariant holds in every state of the evaluator's runs, whatever the
\* workers' clocks say, wherever they die, and whatever the operator does.
THEOREM RunsInvariant == Spec => []IInv
<1>1. Init => IInv  BY AtFirst
<1>2. IInv /\ [Next]_vars => IInv'  BY NextKeeps
<1> QED  BY <1>1, <1>2, PTL DEF Spec

\* Runs are numbered as they take the lease, and no row names a run there never
\* was (acquireAlertEvaluatorRun).
THEOREM TypeCorrect == Spec => []TypeOK
<1>1. ASSUME IInv  PROVE TypeOK
  <2>1. Types /\ Generations  BY <1>1 DEF IInv
  <2>2. /\ Len(run) \in Nat /\ DOMAIN run = 1..Len(run)
        /\ \A g \in DOMAIN run : run[g] \in [status : RunStatuses, occurrence : Occurrence]
    <3>1. run \in Seq([status : RunStatuses, occurrence : Occurrence])  BY <2>1 DEF Types
    <3>2. Len(run) \in Nat /\ DOMAIN run = 1..Len(run)  BY <3>1, LenProperties
    <3>3. \A g \in 1..Len(run) : run[g] \in [status : RunStatuses, occurrence : Occurrence]
      BY <3>1, ElementOfSeq
    <3> QED  BY <3>2, <3>3
  <2>3. \A g \in DOMAIN run :
          run[g].status \in {"running", "sealed", "succeeded", "failed", "abandoned"}
    BY <2>2 DEF RunStatuses
  <2>4. \A k \in Key : row[k].at \in 0..MaxTime /\ row[k].by \in 0..Len(run)
    <3>1. \A k \in Key : row[k].at \in 0..MaxTime /\ row[k].by \in Nat  BY <2>1 DEF Types, Rows
    <3> QED  BY <2>1, <2>2, <3>1 DEF Generations
  <2>5. /\ runtime.generation \in -1..MaxRuns /\ runtime.watermark \in 0..MaxTime
        /\ proofs.asOf \in 0..MaxTime
    BY <2>1 DEF Types
  <2>6. Len(run) = IF runtime.generation < 0 THEN 0 ELSE runtime.generation
    BY <2>1 DEF Generations
  <2> QED  BY <2>3, <2>4, <2>5, <2>6 DEF TypeOK
<1> QED  BY <1>1, RunsInvariant, PTL

\* The run that holds the lease evaluates at a later moment than any run before
\* it, although no two workers share a clock (advanceAlertLifecycle never throws
\* for the one that holds the lease).
THEOREM EvaluatesForwardHolds == Spec => []EvaluatesForward
<1>1. IInv => EvaluatesForward  BY DEF IInv, Shared
<1> QED  BY <1>1, RunsInvariant, PTL

\* An alert that is active or has a breach pending was evaluated at the watermark
\* or later (recordAlertEvaluatorRunSuccess).
THEOREM WatermarkIsCompleteHolds == Spec => []WatermarkIsComplete
<1>1. IInv => WatermarkIsComplete  BY DEF IInv, Shared
<1> QED  BY <1>1, RunsInvariant, PTL

\* The row that a decision writes.
LEMMA AppliedIs ==
  ASSUME IInv, NEW w \in Worker, NEW t \in Nat, DecideApplied(w, t)
  PROVE  /\ row' \in [Key -> Rows] /\ \A k \in Key \ {Now(w).key} : row'[k] = row[k]
         /\ row'[Now(w).key].life = Now(w).result.state
         /\ row'[Now(w).key].by = worker[w].generation
<1> DEFINE n == Now(w).key
           new == Row(Now(w).result.state, worker[w].asOf, worker[w].generation,
                      row[n].revision + 1, row[n].acts)
<1>1. Types  BY DEF IInv
<1>2. worker[w].at = "decide" /\ row' = [row EXCEPT ![n] = new]
  BY DEF DecideApplied, Ready, At, Applied
<1>3. worker[w] \in Running /\ n \in Key /\ Now(w) \in Full  BY <1>2, Deciding
<1>4. /\ worker[w].asOf \in 0..MaxTime /\ worker[w].generation \in Nat
      /\ Now(w).result.state \in Lives /\ row[n] \in Rows
  BY <1>1, <1>3 DEF Running, Full, Decisions, Types
<1>5. /\ new \in Rows /\ new.life = Now(w).result.state /\ new.by = worker[w].generation
  BY <1>4, Clocks DEF Row, Rows
<1> HIDE DEF new
<1> QED  BY <1>1, <1>2, <1>3, <1>5 DEF Types

\* What the operator leaves alone: nothing it writes is written by a run.
LEMMA ActsAre ==
  ASSUME IInv, NEW n \in Key, Acknowledge(n) \/ OperatorResolve(n)
  PROVE  /\ UNCHANGED proofs /\ \A k \in Key \ {n} : row'[k] = row[k]
         /\ row'[n].by = NoRun \/ /\ row'[n].by = row[n].by /\ row'[n].at = row[n].at
                                  /\ row'[n].life = row[n].life
                                  /\ row'[n].revision = row[n].revision
<1>1. Types  BY DEF IInv
<1>2. CASE Acknowledge(n)
  <2>1. row' = [row EXCEPT ![n] = Row(row[n].life, row[n].at, row[n].by, row[n].revision,
                                      row[n].acts + 1)]
    BY <1>2 DEF Acknowledge
  <2> QED  BY <1>1, <1>2, <2>1 DEF Types, Row, Acknowledge
<1>3. CASE OperatorResolve(n)
  <2>1. row' = [row EXCEPT ![n] = Row(Inactive(Cooldown), row[n].at, NoRun,
                                      row[n].revision + 1, row[n].acts + 1)]
    BY <1>3 DEF OperatorResolve
  <2> QED  BY <1>1, <1>3, <2>1 DEF Types, Row, OperatorResolve
<1> QED  BY <1>2, <1>3

\* Once a run is taken over it is over: states and proofs are written only for
\* the run that holds the lease (the fence of every batch).
THEOREM TakenOverIsOverHolds == Spec => TakenOverIsOver
<1> DEFINE Kept == /\ \A k \in Key :
                        /\ row'[k].by # NoRun
                        /\ <<row'[k].by, row'[k].at, row'[k].life>>
                             # <<row[k].by, row[k].at, row[k].life>>
                        => runtime.lease = row'[k].by
                   /\ \A p \in ToSet(proofs'.decided) \ ToSet(proofs.decided) :
                        runtime.lease = p.by
<1>1. ASSUME IInv, [Next]_vars  PROVE Kept
  <2>1. CASE UNCHANGED row /\ ToSet(proofs'.decided) \subseteq ToSet(proofs.decided)
    BY <2>1
  <2>2. ASSUME NEW w \in Worker, NEW t \in Nat, DecideStateless(w, t)  PROVE Kept
    <3>1. /\ worker[w].at = "decide" /\ UNCHANGED row
          /\ (Fenced(w, "sealed") /\ proofs' = DecisionRecorded(w)) \/ UNCHANGED proofs
      BY <2>2 DEF DecideStateless, Ready, At
    <3>2. Proof(w, Now(w)).by = worker[w].generation  BY DEF Proof
    <3>3. CASE Fenced(w, "sealed") /\ proofs' = DecisionRecorded(w)
      <4>1. ToSet(proofs'.decided) = ToSet(proofs.decided) \cup {Proof(w, Now(w))}
        BY <1>1, <3>1, <3>3, DecisionIsRecorded
      <4> QED  BY <3>1, <3>2, <3>3, <4>1 DEF Fenced
    <3> QED  BY <3>1, <3>3
  <2>3. ASSUME NEW w \in Worker, NEW t \in Nat, DecideApplied(w, t)  PROVE Kept
    <3>1. /\ worker[w].at = "decide" /\ runtime.lease = worker[w].generation
          /\ proofs' = DecisionRecorded(w)
      BY <2>3 DEF DecideApplied, Ready, At, Fenced
    <3>2. ToSet(proofs'.decided) = ToSet(proofs.decided) \cup {Proof(w, Now(w))}
      BY <1>1, <3>1, DecisionIsRecorded
    <3>3. Proof(w, Now(w)).by = worker[w].generation  BY DEF Proof
    <3>4. \A k \in Key : row'[k] = row[k] \/ row'[k].by = worker[w].generation
      BY <1>1, <2>3, AppliedIs
    <3> QED  BY <3>1, <3>2, <3>3, <3>4
  <2>4. ASSUME NEW n \in Key, Acknowledge(n) \/ OperatorResolve(n)  PROVE Kept
    BY <1>1, <2>4, ActsAre
  <2> HIDE DEF Kept
  <2> QED  BY <1>1, <2>1, <2>2, <2>3, <2>4, WritersAre DEF Kept
<1> QED  BY <1>1, RunsInvariant, PTL DEF Spec, TakenOverIsOver

\* A run writes only what it had sealed before, also when an alert was read and
\* decided once more (persistAlertLifecycleDecision).
THEOREM SealedPlanAlwaysHolds == Spec => SealedPlanHolds
<1> DEFINE Kept == \A k \in Key :
                     row'[k].by # NoRun /\ row'[k].life # row[k].life =>
                       \E p \in ToSet(proofs.planned) : p.key = k /\ p.result.state = row'[k].life
<1>1. ASSUME IInv, [Next]_vars  PROVE Kept
  <2>1. CASE UNCHANGED row  BY <2>1
  <2>2. ASSUME NEW w \in Worker, NEW t \in Nat, DecideStateless(w, t)  PROVE Kept
    BY <2>2 DEF DecideStateless
  <2>3. ASSUME NEW w \in Worker, NEW t \in Nat, DecideApplied(w, t)  PROVE Kept
    <3>1. worker[w].at = "decide" /\ Fenced(w, "sealed")
      BY <2>3 DEF DecideApplied, Ready, At
    <3>2. /\ Past(w) /\ Len(worker[w].plan) \in Nat /\ worker[w].next \in 1..Len(worker[w].plan)
          /\ Now(w) = worker[w].plan[worker[w].next]
      BY <1>1, <3>1, Deciding
    <3>3. /\ Len(proofs.planned) = Len(worker[w].plan)
          /\ proofs.planned[worker[w].next].key = Now(w).key
          /\ proofs.planned[worker[w].next].result = Now(w).result
      BY <1>1, <3>1, <3>2 DEF IInv, Local, SealedPlan, Holds, Fenced
    <3>4. DOMAIN proofs.planned = 1..Len(proofs.planned)
      BY <1>1, LenProperties DEF IInv, Types
    <3>5. proofs.planned[worker[w].next] \in ToSet(proofs.planned)
      BY <3>2, <3>3, <3>4 DEF ToSet
    <3> QED  BY <1>1, <2>3, <3>3, <3>5, AppliedIs
  <2>4. ASSUME NEW n \in Key, Acknowledge(n) \/ OperatorResolve(n)  PROVE Kept
    BY <1>1, <2>4, ActsAre
  <2> QED  BY <1>1, <2>1, <2>2, <2>3, <2>4, WritersAre
<1> QED  BY <1>1, RunsInvariant, PTL DEF Spec, SealedPlanHolds

\* What is known in part never calms an alert: the standing it had when the run
\* planned is the one it has when the run writes (partialDecisionAllowed, and the
\* revision of the row in the batch).
THEOREM PartialNeverCalmsHolds == Spec => PartialNeverCalms
<1> DEFINE Raised(w, k) ==
             LET old == row[k].life
                 new == row'[k].life
             IN  /\ At(w, "decide") /\ Now(w).key = k /\ Now(w).partial
                 /\ row'[k].revision # row[k].revision /\ row'[k].by = worker[w].generation
                 => Standing(new) >= Standing(old) /\ new.clears <= old.clears
<1>1. ASSUME IInv, [Next]_vars, NEW w \in Worker, NEW k \in Key  PROVE Raised(w, k)
  <2> SUFFICES ASSUME worker[w].at = "decide", Now(w).key = k, Now(w).partial,
                      row'[k].revision # row[k].revision, row'[k].by = worker[w].generation
               PROVE  /\ Standing(row'[k].life) >= Standing(row[k].life)
                      /\ row'[k].life.clears <= row[k].life.clears
    BY DEF At
  <2>1. /\ Past(w) /\ worker[w] \in Running /\ Now(w) \in Full
        /\ Snapshot(row[k], worker[w].asOf, Now(w))
    BY <1>1, Deciding
  <2>2. worker[w].generation # NoRun
    BY <1>1, <2>1 DEF IInv, Generations, NoRun
  <2>3. ~UNCHANGED row  OBVIOUS
  <2>4. \A n \in Key : ~(Acknowledge(n) \/ OperatorResolve(n))
    BY <1>1, <2>2, ActsAre
  <2>5. \A v \in Worker, t \in Nat : ~DecideStateless(v, t)
    BY <2>3 DEF DecideStateless
  <2>6. PICK v \in Worker, t \in Nat : DecideApplied(v, t)
    BY <1>1, <2>3, <2>4, <2>5, WritersAre
  <2>7. /\ row'[Now(v).key].by = worker[v].generation
        /\ row'[Now(v).key].life = Now(v).result.state
        /\ \A j \in Key \ {Now(v).key} : row'[j] = row[j]
    BY <1>1, <2>6, AppliedIs
  <2>8. v = w
    <3>1. Now(v).key = k  BY <2>7
    <3>2. worker[v].at = "decide"  BY <2>6 DEF DecideApplied, Ready, At
    <3>3. Past(v)  BY <3>2 DEF Past, Steps
    <3> QED  BY <1>1, <2>1, <2>7, <3>1, <3>3 DEF IInv, Generations
  <2>9. Now(w).disposition = "applied" /\ Now(w).revision = row[k].revision
    BY <2>6, <2>8 DEF DecideApplied, Unchanged
  <2>10. /\ Now(w).result = Advance(Aged(row[k], worker[w].asOf), Now(w).evaluation, "automatic")
         /\ PartialAllowed(Now(w).evaluation, row[k].life)
    BY <2>1, <2>9 DEF Snapshot
  <2>11. /\ row[k] \in Rows /\ worker[w].asOf \in 0..MaxTime
         /\ Now(w).evaluation \in Evaluations
    BY <1>1, <2>1 DEF IInv, Types, Running, Full
  <2>12. row'[k].life = Advance(Aged(row[k], worker[w].asOf), Now(w).evaluation, "automatic").state
    BY <2>7, <2>8, <2>10
  <2> QED  BY <2>10, <2>11, <2>12, BreachNeverCalms
<1>2. ASSUME IInv, [Next]_vars  PROVE \A w \in Worker, k \in Key : Raised(w, k)
  BY <1>1, <1>2
<1> QED  BY <1>2, RunsInvariant, PTL DEF Spec, PartialNeverCalms
=============================================================================
