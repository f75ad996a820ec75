------------------------------- MODULE AlertRules -------------------------------
(***************************************************************************)
(* What an observation says: the threshold tables of the fifteen alert     *)
(* rules, their evaluation over the nested windows of 5, 15 and 60         *)
(* minutes, the evidence that is selected, and the two gates that evidence *)
(* has to pass later (the parser of persisted evidence and the CHECKs of   *)
(* the tables). A metric that could not be observed is missing from the    *)
(* bag of metrics; nothing may be concluded from its absence.              *)
(***************************************************************************)
EXTENDS Integers, Sequences, FiniteSets

Window == <<"5m", "15m", "60m">>
Windows == {"5m", "15m", "60m"}

CountRules == {"registration.rate_limited", "registration.denied",
               "registration.restricted_created", "admin.directory_volume"}
RatioRules == {"registration.challenge_unavailable", "recovery.passkey_failure",
               "passkey.step_up_failure"}
Rules == CountRules \cup RatioRules \cup
         {"restricted.sensitive_denied", "recovery.entry_abuse", "oauth.client_report",
          "admin.sensitive_activity", "security.fanout_gap", "logout.delivery_health",
          "alert.runtime_health", "queue.dlq_approximate"}

\* Only the fan-out detector is resolved by hand.
ResolutionMode(rule) == IF rule = "security.fanout_gap" THEN "manual" ELSE "automatic"

-------------------------------------------------------------------------------
(* Thresholds: a sequence of alternatives (anyOf), each a sequence of      *)
(* leaves (allOf); <<>> stands for null.                                   *)

AtLeast(metric, value) == [metric |-> metric, value |-> value, samples |-> 0, hits |-> 0]
RatioAtLeast(minDenominator, minNumerator, basisPoints) ==
    [metric |-> "ratio", value |-> basisPoints, samples |-> minDenominator,
     hits |-> minNumerator]

One(leaf) == <<<<leaf>>>>
Null == <<>>

\* One (warning, critical) pair per window.
Table(w5, c5, w15, c15, w60, c60) ==
    [w \in Windows |->
       CASE w = "5m" -> [warning |-> w5, critical |-> c5]
         [] w = "15m" -> [warning |-> w15, critical |-> c15]
         [] w = "60m" -> [warning |-> w60, critical |-> c60]]

\* Most rules warn in the short windows and are critical in the hour.
Rising(w5, w15, c60) == Table(w5, Null, w15, Null, Null, c60)
Counts(w5, w15, c60) ==
    Rising(One(AtLeast("count", w5)), One(AtLeast("count", w15)), One(AtLeast("count", c60)))

RegistrationThresholds(rule) ==
    CASE rule = "registration.rate_limited" -> Counts(5, 10, 40)
      [] rule = "registration.denied" -> Counts(10, 25, 100)
      [] rule = "registration.restricted_created" -> Counts(7, 20, 80)
      [] rule = "registration.challenge_unavailable" ->
           Rising(One(RatioAtLeast(5, 2, 2000)), One(RatioAtLeast(15, 2, 2000)),
                  One(RatioAtLeast(30, 5, 5000)))

AccountThresholds(rule) ==
    CASE rule = "restricted.sensitive_denied" ->
           Rising(One(AtLeast("count", 3)), One(AtLeast("count", 5)),
                  <<<<AtLeast("count", 20)>>,
                    <<AtLeast("count", 5), AtLeast("known_surfaces", 2)>>>>)
      [] rule = "recovery.entry_abuse" ->
           Rising(<<<<AtLeast("rate_limited", 5)>>, <<RatioAtLeast(5, 5, 8000)>>>>,
                  <<<<AtLeast("rate_limited", 10)>>, <<RatioAtLeast(15, 10, 8000)>>>>,
                  <<<<AtLeast("rate_limited", 40)>>, <<RatioAtLeast(30, 40, 9000)>>>>)
      [] rule = "recovery.passkey_failure" ->
           Rising(One(RatioAtLeast(3, 3, 6000)), One(RatioAtLeast(5, 5, 6000)),
                  One(RatioAtLeast(10, 10, 8000)))
      [] rule = "passkey.step_up_failure" ->
           Rising(One(RatioAtLeast(5, 3, 3000)), One(RatioAtLeast(15, 5, 3000)),
                  One(RatioAtLeast(30, 10, 6000)))

ActivityThresholds(rule) ==
    CASE rule = "oauth.client_report" ->
           Rising(One(AtLeast("high_risk_count", 1)), One(AtLeast("count", 3)),
                  <<<<AtLeast("high_risk_count", 3), AtLeast("distinct_reporters", 2)>>,
                    <<AtLeast("count", 10)>>>>)
      [] rule = "admin.sensitive_activity" ->
           Table(<<<<AtLeast("successes", 1)>>, <<AtLeast("protected_denials", 1)>>>>, Null,
                 Null, One(AtLeast("count", 3)), Null, One(AtLeast("count", 10)))
      [] rule = "admin.directory_volume" -> Counts(20, 50, 200)

DeliveryThresholds(rule) ==
    CASE rule = "security.fanout_gap" ->
           Table(One(AtLeast("missing_5m", 1)), Null, Null, One(AtLeast("missing_15m", 1)),
                 Null, One(AtLeast("missing_5m", 10)))
      [] rule = "logout.delivery_health" ->
           Table(<<<<AtLeast("oldest_unresolved_age_seconds", 120)>>,
                   <<AtLeast("lease_expired", 1)>>, <<RatioAtLeast(5, 1, 2000)>>>>,
                 <<<<AtLeast("dead", 1)>>, <<RatioAtLeast(5, 1, 5000)>>>>,
                 One(RatioAtLeast(10, 1, 2000)),
                 <<<<AtLeast("dead", 1)>>, <<AtLeast("oldest_unresolved_age_seconds", 300)>>,
                   <<AtLeast("lease_expired", 3)>>, <<RatioAtLeast(10, 1, 5000)>>>>,
                 One(RatioAtLeast(20, 1, 2000)),
                 <<<<AtLeast("dead", 1)>>, <<AtLeast("lease_expired", 5)>>,
                   <<RatioAtLeast(20, 1, 5000)>>>>)

HealthThresholds(rule) ==
    CASE rule = "alert.runtime_health" ->
           Table(<<<<AtLeast("evaluator_age_seconds", 181)>>,
                   <<AtLeast("outbox_due_age_seconds", 121)>>>>, Null,
                 Null, <<<<AtLeast("evaluator_missing", 1)>>,
                         <<AtLeast("evaluator_age_seconds", 301)>>,
                         <<AtLeast("outbox_due_age_seconds", 301)>>>>,
                 Null, One(AtLeast("dead_outbox", 1)))
      [] rule = "queue.dlq_approximate" ->
           Table(One(AtLeast("depth", 1)), Null,
                 Null, <<<<AtLeast("depth", 10)>>,
                         <<AtLeast("consecutive_nonzero_samples", 15)>>>>, Null, Null)

Thresholds(rule) ==
    CASE rule \in {"registration.rate_limited", "registration.denied",
                   "registration.restricted_created", "registration.challenge_unavailable"} ->
           RegistrationThresholds(rule)
      [] rule \in {"restricted.sensitive_denied", "recovery.entry_abuse",
                   "recovery.passkey_failure", "passkey.step_up_failure"} ->
           AccountThresholds(rule)
      [] rule \in {"oauth.client_report", "admin.sensitive_activity",
                   "admin.directory_volume"} -> ActivityThresholds(rule)
      [] rule \in {"security.fanout_gap", "logout.delivery_health"} -> DeliveryThresholds(rule)
      [] OTHER -> HealthThresholds(rule)

-------------------------------------------------------------------------------
(* Metrics: an observation o has a record of counters per window (o.windows) *)
(* or one snapshot (o.now), or both.                                         *)

\* The Queue's counters, or nothing: a sample is used only if it is of this
\* very moment and its streak agrees with the time since the Queue was empty.
\* Fifteen samples are fifteen minutes only when fifteen minutes have passed.
FullMinutes(seconds) == seconds \div 60

KnownQueue(q) ==
    /\ q.sampled
    /\ IF q.depth = 0
       THEN q.samples = 0 /\ q.elapsed = 0 /\ ~q.oldest
       ELSE /\ q.samples >= 1 /\ q.oldest
            /\ q.elapsed >= (q.samples - 1) * 60 /\ q.elapsed <= q.samples * 60

Streak(q) ==
    IF q.samples <= FullMinutes(q.elapsed) THEN q.samples ELSE FullMinutes(q.elapsed)

Unobserved == -1
Or0(n) == IF n = Unobserved THEN 0 ELSE n

Without(bag, metric) == [m \in (DOMAIN bag) \ {metric} |-> bag[m]]

\* metricsForObservation, for one window; a metric that is not in the domain
\* has not been observed.
Metrics(rule, o, w) ==
    CASE rule \in CountRules \cup RatioRules \cup {"restricted.sensitive_denied"} ->
           o.windows[w]
      [] rule = "oauth.client_report" ->
           IF o.windows[w].distinct_reporters = Unobserved
           THEN Without(o.windows[w], "distinct_reporters")
           ELSE o.windows[w]
      [] rule = "recovery.entry_abuse" ->
           [numerator |-> o.windows[w].denied,
            denominator |-> o.windows[w].denied + o.windows[w].started,
            rate_limited |-> o.windows[w].rate_limited]
      [] rule = "admin.sensitive_activity" ->
           [count |-> o.windows[w].successes + o.windows[w].protected_denials,
            successes |-> o.windows[w].successes,
            protected_denials |-> o.windows[w].protected_denials]
      [] rule = "logout.delivery_health" ->
           [dead |-> o.now.dead,
            oldest_unresolved_age_seconds |-> Or0(o.now.oldest),
            lease_expired |-> o.windows[w].lease_expired,
            numerator |-> o.windows[w].unresolved,
            denominator |-> o.windows[w].eligible]
      [] rule = "security.fanout_gap" ->
           IF w = "15m" THEN [missing_15m |-> o.now.missing_15m]
                        ELSE [missing_5m |-> o.now.missing_5m]
      [] rule = "alert.runtime_health" ->
           [dead_outbox |-> o.now.dead_outbox,
            evaluator_age_seconds |-> Or0(o.now.evaluator_age),
            evaluator_missing |-> IF o.now.evaluator_age = Unobserved THEN 1 ELSE 0,
            outbox_due_age_seconds |-> Or0(o.now.outbox_due_age)]
      [] rule = "queue.dlq_approximate" ->
           [depth |-> o.now.depth, consecutive_nonzero_samples |-> Streak(o.now)]

-------------------------------------------------------------------------------
(* Evaluation                                                              *)

\* The name under which a metric is persisted.
MetricName(metric) == IF metric \in {"missing_5m", "missing_15m"} THEN "missing" ELSE metric

Scalar(leaf, observed) ==
    [metric |-> MetricName(leaf.metric), observed |-> observed, threshold |-> leaf.value,
     samples |-> 0, hits |-> 0, numerator |-> 0, denominator |-> 0]

RatioOf(leaf, bag) ==
    [metric |-> "ratio", observed |-> (bag.numerator * 10000) \div bag.denominator,
     threshold |-> leaf.value, samples |-> leaf.samples, hits |-> leaf.hits,
     numerator |-> bag.numerator, denominator |-> bag.denominator]

Observed(leaf, bag) ==
    IF leaf.metric = "ratio" THEN {"numerator", "denominator"} \subseteq DOMAIN bag
                             ELSE leaf.metric \in DOMAIN bag

RatioReached(leaf, bag) ==
    /\ bag.numerator >= leaf.hits
    /\ bag.denominator >= leaf.samples /\ bag.denominator # 0
    /\ bag.numerator * 10000 >= bag.denominator * leaf.value

\* gte and ratio_gte: a component, unless it is clear or unknown.
Leaf(leaf, bag) ==
    IF ~Observed(leaf, bag) THEN "unknown"
    ELSE IF IF leaf.metric = "ratio" THEN RatioReached(leaf, bag)
                                     ELSE bag[leaf.metric] >= leaf.value
    THEN "breached" ELSE "clear"

Component(leaf, bag) ==
    IF leaf.metric = "ratio" THEN RatioOf(leaf, bag) ELSE Scalar(leaf, bag[leaf.metric])

LeavesIn(status, clause, bag) == {i \in DOMAIN clause : Leaf(clause[i], bag) = status}

\* (slip: an unknown leaf settles the conjunction)
BugUnknownFirst(clause, bag) ==
    IF LeavesIn("unknown", clause, bag) # {} THEN "clear"
    ELSE IF LeavesIn("clear", clause, bag) # {} THEN "clear" ELSE "breached"

\* allOf: one clear leaf settles it, whatever else is unknown.
AllOf(clause, bag) ==
    IF LeavesIn("clear", clause, bag) # {} THEN "clear"
    ELSE IF LeavesIn("unknown", clause, bag) # {} THEN "unknown" ELSE "breached"

ClausesIn(status, expression, bag) ==
    {i \in DOMAIN expression : AllOf(expression[i], bag) = status}

\* anyOf: one breached clause settles it.
AnyOf(expression, bag) ==
    IF ClausesIn("breached", expression, bag) # {} THEN "breached"
    ELSE IF ClausesIn("unknown", expression, bag) # {} THEN "unknown" ELSE "clear"

Least(S) == CHOOSE i \in S : \A j \in S : i <= j

\* The components of the first clause that is breached.
Components(expression, bag) ==
    LET clause == expression[Least(ClausesIn("breached", expression, bag))]
    IN  [i \in DOMAIN clause |-> Component(clause[i], bag)]

\* evaluateWindowThresholds: the positions of the windows with a given answer.
WindowsIn(status, rule, o, severity) ==
    {k \in 1..3 : LET expression == Thresholds(rule)[Window[k]][severity]
                  IN  expression # Null /\ AnyOf(expression, Metrics(rule, o, Window[k])) = status}

Match(rule, o, severity, k) ==
    Components(Thresholds(rule)[Window[k]][severity], Metrics(rule, o, Window[k]))

\* A breach that needs no second evaluation.
ImmediateMetric(rule, metric) ==
    \/ rule = "logout.delivery_health" /\ metric = "dead"
    \/ rule = "alert.runtime_health" /\ metric \in {"evaluator_missing", "dead_outbox"}

ImmediateWindows(rule, o) ==
    {k \in WindowsIn("breached", rule, o, "critical") :
        ImmediateMetric(rule, Match(rule, o, "critical", k)[1].metric)}

\* (slip: the first window that matches gives the evidence in every case)
BugFirstWindow(rule, o) == Least(WindowsIn("breached", rule, o, "critical"))

\* The window whose evidence is selected: an immediate one goes first.
CriticalWindow(rule, o) ==
    IF ImmediateWindows(rule, o) # {}
    THEN Least(ImmediateWindows(rule, o))
    ELSE Least(WindowsIn("breached", rule, o, "critical"))

Selected(rule, o, severity, k) ==
    LET components == Match(rule, o, severity, k)
    IN  [primary |-> components[1], secondary |-> Tail(components),
         severity |-> severity, window |-> Window[k]]

NoEvidence == [primary |-> Scalar(AtLeast("none", 0), 0), secondary |-> <<>>,
               severity |-> "none", window |-> "none"]

Evaluation(known, severity, immediate, evidence) ==
    [known |-> known, severity |-> severity, immediate |-> immediate, evidence |-> evidence]

\* evaluateAlertRule.
Evaluate(rule, o) ==
    IF rule = "queue.dlq_approximate" /\ ~KnownQueue(o.now)
    THEN Evaluation(FALSE, "none", FALSE, NoEvidence)
    ELSE IF WindowsIn("breached", rule, o, "critical") # {}
    THEN Evaluation(TRUE, "critical", ImmediateWindows(rule, o) # {},
                    Selected(rule, o, "critical", CriticalWindow(rule, o)))
    ELSE IF WindowsIn("breached", rule, o, "warning") # {}
    THEN Evaluation(TRUE, "warning", FALSE,
                    Selected(rule, o, "warning", Least(WindowsIn("breached", rule, o, "warning"))))
    ELSE Evaluation(WindowsIn("unknown", rule, o, "critical") = {}
                      /\ WindowsIn("unknown", rule, o, "warning") = {},
                    "none", FALSE, NoEvidence)

-------------------------------------------------------------------------------
(* Evidence, when it is read back                                          *)

\* parseMetricEvidence.
RatioConsistent(c) ==
    /\ c.denominator >= 1 /\ c.hits >= 1 /\ c.threshold <= 10000
    /\ c.numerator <= c.denominator
    /\ c.denominator >= c.samples /\ c.numerator >= c.hits
    /\ c.observed = (c.numerator * 10000) \div c.denominator

ComponentOK(c) ==
    /\ c.threshold >= 1 /\ c.observed >= c.threshold
    /\ c.metric = "ratio" => RatioConsistent(c)
    /\ c.metric = "evaluator_missing" => c.observed <= 1

Pairs == {<<"count", "known_surfaces">>, <<"high_risk_count", "distinct_reporters">>}

\* evidenceMatchesContract: the components are the leaves of one alternative.
MeetsClause(e, clause) ==
    LET actual == <<e.primary>> \o e.secondary
    IN  /\ Len(actual) = Len(clause)
        /\ \A i \in DOMAIN clause :
             /\ actual[i].metric = MetricName(clause[i].metric)
             /\ actual[i].threshold = clause[i].value
             /\ actual[i].samples = clause[i].samples /\ actual[i].hits = clause[i].hits

\* parseAlertSelectedEvidenceForRule.
Canonical(rule, e) ==
    /\ ComponentOK(e.primary)
    /\ e.primary.metric \notin {"known_surfaces", "distinct_reporters"}
    /\ \A i \in DOMAIN e.secondary :
         ComponentOK(e.secondary[i]) /\ <<e.primary.metric, e.secondary[i].metric>> \in Pairs
    /\ LET expression == Thresholds(rule)[e.window][e.severity]
       IN  \E i \in DOMAIN expression : MeetsClause(e, expression[i])

\* The primary metrics that the tables admit for a rule.
StoredMetrics(rule) ==
    CASE rule \in CountRules \cup {"restricted.sensitive_denied"} -> {"count"}
      [] rule \in RatioRules -> {"ratio"}
      [] rule = "recovery.entry_abuse" -> {"rate_limited", "ratio"}
      [] rule = "oauth.client_report" -> {"count", "high_risk_count"}
      [] rule = "admin.sensitive_activity" -> {"count", "successes", "protected_denials"}
      [] rule = "logout.delivery_health" ->
           {"dead", "oldest_unresolved_age_seconds", "lease_expired", "ratio"}
      [] rule = "alert.runtime_health" ->
           {"evaluator_missing", "evaluator_age_seconds", "outbox_due_age_seconds",
            "dead_outbox"}
      [] rule = "security.fanout_gap" -> {"missing"}
      [] rule = "queue.dlq_approximate" -> {"depth", "consecutive_nonzero_samples"}

\* The CHECKs of alert_state on its evidence columns.
Storable(rule, e) ==
    /\ e.primary.metric \in StoredMetrics(rule)
    /\ e.primary.observed >= e.primary.threshold
    /\ e.primary.metric = "ratio" => RatioConsistent(e.primary)
    /\ e.primary.metric = "evaluator_missing" => e.primary.observed \in {0, 1}
    /\ \A i \in DOMAIN e.secondary :
         /\ <<rule, e.primary.metric, e.secondary[i].metric>> \in
              {<<"restricted.sensitive_denied", "count", "known_surfaces">>,
               <<"oauth.client_report", "high_risk_count", "distinct_reporters">>}
         /\ e.secondary[i].observed >= e.secondary[i].threshold
         /\ e.secondary[i].metric = "known_surfaces" =>
              e.secondary[i].observed <= e.primary.observed /\ e.secondary[i].observed <= 7

-------------------------------------------------------------------------------
(* Observations the sources can produce (parseAlertObservation)            *)

\* What is counted in each window, and what is sampled at the moment of the run.
\* A counter is an integer and not negative; some may be unknown.
Count == Nat
Known == Nat \cup {Unobserved}

WindowCounters(rule) ==
    CASE rule \in CountRules -> [count : Count]
      [] rule \in RatioRules -> [numerator : Count, denominator : Count]
      [] rule = "restricted.sensitive_denied" -> [count : Count, known_surfaces : Count]
      [] rule = "recovery.entry_abuse" ->
           [denied : Count, started : Count, rate_limited : Count]
      [] rule = "oauth.client_report" ->
           [count : Count, high_risk_count : Count, distinct_reporters : Known]
      [] rule = "admin.sensitive_activity" -> [successes : Count, protected_denials : Count]
      [] rule = "logout.delivery_health" ->
           [eligible : Count, unresolved : Count, lease_expired : Count]

SnapshotCounters(rule) ==
    CASE rule = "logout.delivery_health" -> [unresolved : Count, dead : Count, oldest : Known]
      [] rule = "security.fanout_gap" -> [missing_5m : Count, missing_15m : Count]
      [] rule = "alert.runtime_health" ->
           [dead_outbox : Count, evaluator_age : Known, outbox_due_age : Known]
      [] rule = "queue.dlq_approximate" ->
           [sampled : BOOLEAN, depth : Count, samples : Count, elapsed : Int, oldest : BOOLEAN]

SnapshotRules == {"security.fanout_gap", "alert.runtime_health", "queue.dlq_approximate"}

\* The keys of an observation are those of its rule, and no others.
Shaped(rule, o) ==
    /\ rule \notin SnapshotRules => o.windows \in [Windows -> WindowCounters(rule)]
    /\ rule \in SnapshotRules => o.windows = <<>>
    /\ rule \in SnapshotRules \cup {"logout.delivery_health"} => o.now \in SnapshotCounters(rule)

Nested(a, b, metric) == a[metric] <= b[metric]

\* Counters do not decrease from a window to the next wider one. The number of
\* reporters may be unknown, and then stays unknown.
NestedWindows(ws) ==
    \A m \in DOMAIN ws["5m"] :
        IF m = "distinct_reporters"
        THEN \A p \in {<<"5m", "15m">>, <<"15m", "60m">>} :
               IF ws[p[1]][m] = Unobserved THEN ws[p[2]][m] = Unobserved
               ELSE ws[p[2]][m] = Unobserved \/ Nested(ws[p[1]], ws[p[2]], m)
        ELSE Nested(ws["5m"], ws["15m"], m) /\ Nested(ws["15m"], ws["60m"], m)

SubsetsAgree(rule, c) ==
    CASE rule \in RatioRules -> c.numerator <= c.denominator
      [] rule = "restricted.sensitive_denied" ->
           c.known_surfaces <= c.count /\ c.known_surfaces <= 7
      [] rule = "oauth.client_report" ->
           c.distinct_reporters <= c.count /\ c.high_risk_count <= c.count
      [] rule = "logout.delivery_health" -> c.unresolved <= c.eligible
      [] OTHER -> TRUE

SnapshotAgrees(rule, n) ==
    CASE rule = "logout.delivery_health" ->
           n.dead <= n.unresolved /\ (n.unresolved = 0) = (n.oldest = Unobserved)
      [] rule = "security.fanout_gap" -> n.missing_15m <= n.missing_5m
      [] OTHER -> TRUE

Parsed(rule, o) ==
    /\ Shaped(rule, o)
    /\ SnapshotAgrees(rule, o.now)
    /\ o.windows # <<>> => NestedWindows(o.windows)
    /\ \A w \in DOMAIN o.windows : SubsetsAgree(rule, o.windows[w])

\* The observations that o stands for: every value the unknown metric can have.
Completions(rule, o) ==
    IF rule = "oauth.client_report"
    THEN {p \in [windows : {[w \in Windows |-> [count |-> o.windows[w].count,
                                high_risk_count |-> o.windows[w].high_risk_count,
                                distinct_reporters |-> IF o.windows[w].distinct_reporters = Unobserved
                                                       THEN n ELSE o.windows[w].distinct_reporters]] :
                             n \in 0..o.windows["60m"].count}, now : {o.now}] : Parsed(rule, p)}
    ELSE {o}
===============================================================================
