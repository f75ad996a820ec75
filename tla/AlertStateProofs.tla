---------------------------- MODULE AlertStateProofs ----------------------------
(***************************************************************************)
(* Proofs about one alert in the database, for every policy (five clears   *)
(* or two, any cooldown and reminders) and every set of observations that  *)
(* the parser accepts. Three parts: what an evaluation selects as evidence *)
(* can be stored and read back, whatever the observation (the tables of    *)
(* thresholds are those of the CHECKs); a decision is one of four, and the *)
(* tables accept each, but for a pending escalation that is given up; the  *)
(* invariant Inv of the row, its incident, its mails and what was heard.   *)
(***************************************************************************)
EXTENDS AlertState, TLAPS

-------------------------------------------------------------------------------
(* The tables of thresholds                                                *)

\* A leaf with a threshold that a CHECK admits.
GoodLeaf(leaf) ==
    /\ leaf.value \in Nat \ {0} /\ leaf.samples \in Nat /\ leaf.hits \in Nat
    /\ IF leaf.metric = "ratio"
       THEN leaf.samples >= 1 /\ leaf.hits >= 1 /\ leaf.value <= 10000
       ELSE leaf.samples = 0 /\ leaf.hits = 0

\* The two pairs of metrics that make a conjunction.
Secondary == {<<"restricted.sensitive_denied", "count", "known_surfaces">>,
              <<"oauth.client_report", "high_risk_count", "distinct_reporters">>}

\* The leaf that opens a clause, and the one that may follow it.
First(rule, leaf) == GoodLeaf(leaf) /\ MetricName(leaf.metric) \in StoredMetrics(rule)
Second(rule, first, leaf) ==
    GoodLeaf(leaf) /\ <<rule, first.metric, leaf.metric>> \in Secondary

\* A clause has one leaf or two, an expression no more than four clauses.
GoodClause(rule, c) ==
    /\ \/ Len(c) = 1
       \/ Len(c) = 2 /\ Second(rule, c[1], c[2])
    /\ DOMAIN c = 1..Len(c)
    /\ First(rule, c[1])

GoodExpression(rule, x) ==
    /\ Len(x) \in 0..4 /\ DOMAIN x = 1..Len(x)
    /\ \A i \in DOMAIN x : GoodClause(rule, x[i])

\* No expression is a good one: the window has no threshold.
LEMMA NullGood == ASSUME NEW rule PROVE GoodExpression(rule, Null)
  BY DEF GoodExpression, Null

\* A clause of one leaf.
LEMMA ClauseOne ==
    ASSUME NEW rule, NEW l, First(rule, l) PROVE GoodClause(rule, <<l>>)
  BY DEF GoodClause

\* A clause of two leaves.
LEMMA ClauseTwo ==
    ASSUME NEW rule, NEW l, NEW m, First(rule, l), Second(rule, l, m)
    PROVE  GoodClause(rule, <<l, m>>)
  BY DEF GoodClause

\* Expressions of one alternative,
LEMMA OneGood ==
    ASSUME NEW rule, NEW l, First(rule, l) PROVE GoodExpression(rule, One(l))
  BY ClauseOne DEF GoodExpression, One

\* of two,
LEMMA TwoGood ==
    ASSUME NEW rule, NEW c, NEW d, GoodClause(rule, c), GoodClause(rule, d)
    PROVE  GoodExpression(rule, <<c, d>>)
  BY DEF GoodExpression

\* three,
LEMMA ThreeGood ==
    ASSUME NEW rule, NEW c, NEW d, NEW e,
           GoodClause(rule, c), GoodClause(rule, d), GoodClause(rule, e)
    PROVE  GoodExpression(rule, <<c, d, e>>)
  BY DEF GoodExpression

\* and four.
LEMMA FourGood ==
    ASSUME NEW rule, NEW c, NEW d, NEW e, NEW f, GoodClause(rule, c), GoodClause(rule, d),
           GoodClause(rule, e), GoodClause(rule, f)
    PROVE  GoodExpression(rule, <<c, d, e, f>>)
  BY DEF GoodExpression

\* Every window and severity of a rule has a good expression.
GoodTable(rule) ==
    \A w \in Windows : \A s \in {"warning", "critical"} :
      GoodExpression(rule, Thresholds(rule)[w][s])

\* A table of good expressions is good.
LEMMA TableGood ==
    ASSUME NEW rule, NEW a, NEW b, NEW c, NEW d, NEW e, NEW f,
           GoodExpression(rule, a), GoodExpression(rule, b), GoodExpression(rule, c),
           GoodExpression(rule, d), GoodExpression(rule, e), GoodExpression(rule, f),
           Thresholds(rule) = Table(a, b, c, d, e, f)
    PROVE  GoodTable(rule)
  BY DEF GoodTable, Table, Windows

\* The leaves that a rule's table is made of.
LEMMA FirstRatio ==
    ASSUME NEW rule, "ratio" \in StoredMetrics(rule), NEW d \in Nat, NEW n \in Nat,
           NEW b \in Nat, d > 0, n > 0, b > 0, b <= 10000
    PROVE  First(rule, RatioAtLeast(d, n, b))
  BY DEF First, MetricName, RatioAtLeast, GoodLeaf

\* A counter that is stored under its own name can open a clause,
LEMMA FirstCount ==
    ASSUME NEW rule, NEW metric \in StoredMetrics(rule), NEW n \in Nat, n > 0,
           metric \notin {"ratio", "missing_5m", "missing_15m"}
    PROVE  First(rule, AtLeast(metric, n))
  BY DEF First, MetricName, AtLeast, GoodLeaf

\* and one of a pair can follow.
LEMMA SecondCount ==
    ASSUME NEW rule, NEW a, NEW b, NEW n, NEW m \in Nat, m > 0, b # "ratio",
           <<rule, a, b>> \in Secondary
    PROVE  Second(rule, AtLeast(a, n), AtLeast(b, m))
  BY DEF Second, AtLeast, GoodLeaf

\* A rule that counts events has a good table.
LEMMA CountsGood ==
    ASSUME NEW rule, NEW a \in Nat, NEW b \in Nat, NEW c \in Nat, a > 0, b > 0, c > 0,
           Thresholds(rule) = Counts(a, b, c), "count" \in StoredMetrics(rule)
    PROVE  GoodTable(rule)
  <1>1. \A n \in Nat : n > 0 => GoodExpression(rule, One(AtLeast("count", n)))
    BY FirstCount, OneGood
  <1>2. QED
    BY <1>1, NullGood, TableGood DEF Counts, Rising

\* So has a rule with one ratio for each window.
LEMMA RatiosGood ==
    ASSUME NEW rule, NEW a, NEW b, NEW c,
           First(rule, a), First(rule, b), First(rule, c),
           Thresholds(rule) = Rising(One(a), One(b), One(c))
    PROVE  GoodTable(rule)
  BY OneGood, NullGood, TableGood DEF Rising

\* The rules about registrations.
LEMMA RegistrationGood ==
    /\ GoodTable("registration.rate_limited") /\ GoodTable("registration.denied")
    /\ GoodTable("registration.restricted_created")
    /\ GoodTable("registration.challenge_unavailable")
  <1>1. \A rule \in CountRules : StoredMetrics(rule) = {"count"}
    BY DEF StoredMetrics, CountRules, RatioRules
  <1>2. ASSUME NEW rule, rule = "registration.rate_limited" PROVE GoodTable(rule)
    <2>1. Thresholds(rule) = Counts(5, 10, 40)
      BY <1>2 DEF Thresholds, RegistrationThresholds
    <2>2. QED
      BY <1>1, <1>2, <2>1, CountsGood DEF CountRules
  <1>3. ASSUME NEW rule, rule = "registration.denied" PROVE GoodTable(rule)
    <2>1. Thresholds(rule) = Counts(10, 25, 100)
      BY <1>3 DEF Thresholds, RegistrationThresholds
    <2>2. QED
      BY <1>1, <1>3, <2>1, CountsGood DEF CountRules
  <1>4. ASSUME NEW rule, rule = "registration.restricted_created" PROVE GoodTable(rule)
    <2>1. Thresholds(rule) = Counts(7, 20, 80)
      BY <1>4 DEF Thresholds, RegistrationThresholds
    <2>2. QED
      BY <1>1, <1>4, <2>1, CountsGood DEF CountRules
  <1>5. ASSUME NEW rule, rule = "registration.challenge_unavailable" PROVE GoodTable(rule)
    <2>1. Thresholds(rule) = Rising(One(RatioAtLeast(5, 2, 2000)),
                                    One(RatioAtLeast(15, 2, 2000)),
                                    One(RatioAtLeast(30, 5, 5000)))
      BY <1>5 DEF Thresholds, RegistrationThresholds
    <2>2. "ratio" \in StoredMetrics(rule)
      BY <1>5 DEF StoredMetrics, CountRules, RatioRules
    <2>3. /\ First(rule, RatioAtLeast(5, 2, 2000)) /\ First(rule, RatioAtLeast(15, 2, 2000))
          /\ First(rule, RatioAtLeast(30, 5, 5000))
      BY <2>2, FirstRatio
    <2>4. QED
      BY <2>1, <2>3, RatiosGood
  <1>6. QED
    BY <1>2, <1>3, <1>4, <1>5

\* The rules about accounts.
LEMMA AccountGood ==
    /\ GoodTable("restricted.sensitive_denied") /\ GoodTable("recovery.entry_abuse")
    /\ GoodTable("recovery.passkey_failure") /\ GoodTable("passkey.step_up_failure")
  <1>1. ASSUME NEW rule, rule = "restricted.sensitive_denied" PROVE GoodTable(rule)
    <2>1. "count" \in StoredMetrics(rule)
      BY <1>1 DEF StoredMetrics, CountRules, RatioRules
    <2>2. \A n \in Nat : n > 0 => First(rule, AtLeast("count", n))
      BY <2>1, FirstCount
    <2>3. Second(rule, AtLeast("count", 5), AtLeast("known_surfaces", 2))
      BY <1>1, SecondCount DEF Secondary
    <2>4. GoodExpression(rule, <<<<AtLeast("count", 20)>>,
                                 <<AtLeast("count", 5), AtLeast("known_surfaces", 2)>>>>)
      BY <2>2, <2>3, ClauseOne, ClauseTwo, TwoGood
    <2>5. Thresholds(rule) =
            Rising(One(AtLeast("count", 3)), One(AtLeast("count", 5)),
                   <<<<AtLeast("count", 20)>>,
                     <<AtLeast("count", 5), AtLeast("known_surfaces", 2)>>>>)
      BY <1>1 DEF Thresholds, AccountThresholds
    <2>6. GoodExpression(rule, One(AtLeast("count", 3)))
          /\ GoodExpression(rule, One(AtLeast("count", 5)))
      BY <2>2, OneGood
    <2>7. QED
      BY <2>4, <2>5, <2>6, NullGood, TableGood DEF Rising
  <1>2. ASSUME NEW rule, rule = "recovery.entry_abuse" PROVE GoodTable(rule)
    <2>1. "rate_limited" \in StoredMetrics(rule) /\ "ratio" \in StoredMetrics(rule)
      BY <1>2 DEF StoredMetrics, CountRules, RatioRules
    <2>2. \A n \in Nat : n > 0 => First(rule, AtLeast("rate_limited", n))
      BY <2>1, FirstCount
    <2>3. /\ First(rule, RatioAtLeast(5, 5, 8000)) /\ First(rule, RatioAtLeast(15, 10, 8000))
          /\ First(rule, RatioAtLeast(30, 40, 9000))
      BY <2>1, FirstRatio
    <2>4. /\ GoodExpression(rule, <<<<AtLeast("rate_limited", 5)>>,
                                    <<RatioAtLeast(5, 5, 8000)>>>>)
          /\ GoodExpression(rule, <<<<AtLeast("rate_limited", 10)>>,
                                    <<RatioAtLeast(15, 10, 8000)>>>>)
          /\ GoodExpression(rule, <<<<AtLeast("rate_limited", 40)>>,
                                    <<RatioAtLeast(30, 40, 9000)>>>>)
      BY <2>2, <2>3, ClauseOne, TwoGood
    <2>5. Thresholds(rule) =
           Rising(<<<<AtLeast("rate_limited", 5)>>, <<RatioAtLeast(5, 5, 8000)>>>>,
                  <<<<AtLeast("rate_limited", 10)>>, <<RatioAtLeast(15, 10, 8000)>>>>,
                  <<<<AtLeast("rate_limited", 40)>>, <<RatioAtLeast(30, 40, 9000)>>>>)
      BY <1>2 DEF Thresholds, AccountThresholds
    <2>6. QED
      BY <2>4, <2>5, NullGood, TableGood DEF Rising
  <1>3. ASSUME NEW rule, rule = "recovery.passkey_failure" PROVE GoodTable(rule)
    <2>1. Thresholds(rule) =
            Rising(One(RatioAtLeast(3, 3, 6000)), One(RatioAtLeast(5, 5, 6000)),
                   One(RatioAtLeast(10, 10, 8000)))
      BY <1>3 DEF Thresholds, AccountThresholds
    <2>2. "ratio" \in StoredMetrics(rule)
      BY <1>3 DEF StoredMetrics, CountRules, RatioRules
    <2>3. /\ First(rule, RatioAtLeast(3, 3, 6000)) /\ First(rule, RatioAtLeast(5, 5, 6000))
          /\ First(rule, RatioAtLeast(10, 10, 8000))
      BY <2>2, FirstRatio
    <2>4. QED
      BY <2>1, <2>3, RatiosGood
  <1>4. ASSUME NEW rule, rule = "passkey.step_up_failure" PROVE GoodTable(rule)
    <2>1. Thresholds(rule) =
            Rising(One(RatioAtLeast(5, 3, 3000)), One(RatioAtLeast(15, 5, 3000)),
                   One(RatioAtLeast(30, 10, 6000)))
      BY <1>4 DEF Thresholds, AccountThresholds
    <2>2. "ratio" \in StoredMetrics(rule)
      BY <1>4 DEF StoredMetrics, CountRules, RatioRules
    <2>3. /\ First(rule, RatioAtLeast(5, 3, 3000)) /\ First(rule, RatioAtLeast(15, 5, 3000))
          /\ First(rule, RatioAtLeast(30, 10, 6000))
      BY <2>2, FirstRatio
    <2>4. QED
      BY <2>1, <2>3, RatiosGood
  <1>5. QED
    BY <1>1, <1>2, <1>3, <1>4

\* The rules about what clients and administrators do.
LEMMA ActivityGood ==
    /\ GoodTable("oauth.client_report") /\ GoodTable("admin.sensitive_activity")
    /\ GoodTable("admin.directory_volume")
  <1>1. ASSUME NEW rule, rule = "oauth.client_report" PROVE GoodTable(rule)
    <2>1. "count" \in StoredMetrics(rule) /\ "high_risk_count" \in StoredMetrics(rule)
      BY <1>1 DEF StoredMetrics, CountRules, RatioRules
    <2>2. \A n \in Nat : n > 0 => /\ First(rule, AtLeast("count", n))
                                  /\ First(rule, AtLeast("high_risk_count", n))
      BY <2>1, FirstCount
    <2>3. Second(rule, AtLeast("high_risk_count", 3), AtLeast("distinct_reporters", 2))
      BY <1>1, SecondCount DEF Secondary
    <2>4. GoodExpression(rule, <<<<AtLeast("high_risk_count", 3),
                                   AtLeast("distinct_reporters", 2)>>,
                                 <<AtLeast("count", 10)>>>>)
      BY <2>2, <2>3, ClauseOne, ClauseTwo, TwoGood
    <2>5. Thresholds(rule) =
            Rising(One(AtLeast("high_risk_count", 1)), One(AtLeast("count", 3)),
                   <<<<AtLeast("high_risk_count", 3), AtLeast("distinct_reporters", 2)>>,
                     <<AtLeast("count", 10)>>>>)
      BY <1>1 DEF Thresholds, ActivityThresholds
    <2>6. GoodExpression(rule, One(AtLeast("high_risk_count", 1)))
          /\ GoodExpression(rule, One(AtLeast("count", 3)))
      BY <2>2, OneGood
    <2>7. QED
      BY <2>4, <2>5, <2>6, NullGood, TableGood DEF Rising
  <1>2. ASSUME NEW rule, rule = "admin.sensitive_activity" PROVE GoodTable(rule)
    <2>1. {"count", "successes", "protected_denials"} = StoredMetrics(rule)
      BY <1>2 DEF StoredMetrics, CountRules, RatioRules
    <2>2. \A n \in Nat : n > 0 => /\ First(rule, AtLeast("count", n))
                                  /\ First(rule, AtLeast("successes", n))
                                  /\ First(rule, AtLeast("protected_denials", n))
      BY <2>1, FirstCount
    <2>3. GoodExpression(rule, <<<<AtLeast("successes", 1)>>,
                                 <<AtLeast("protected_denials", 1)>>>>)
      BY <2>2, ClauseOne, TwoGood
    <2>4. GoodExpression(rule, One(AtLeast("count", 3)))
          /\ GoodExpression(rule, One(AtLeast("count", 10)))
      BY <2>2, OneGood
    <2>5. Thresholds(rule) =
            Table(<<<<AtLeast("successes", 1)>>, <<AtLeast("protected_denials", 1)>>>>, Null,
                  Null, One(AtLeast("count", 3)), Null, One(AtLeast("count", 10)))
      BY <1>2 DEF Thresholds, ActivityThresholds
    <2>6. QED
      BY <2>3, <2>4, <2>5, NullGood, TableGood
  <1>3. ASSUME NEW rule, rule = "admin.directory_volume" PROVE GoodTable(rule)
    <2>1. Thresholds(rule) = Counts(20, 50, 200)
      BY <1>3 DEF Thresholds, ActivityThresholds
    <2>2. "count" \in StoredMetrics(rule)
      BY <1>3 DEF StoredMetrics, CountRules, RatioRules
    <2>3. QED
      BY <2>1, <2>2, CountsGood
  <1>4. QED
    BY <1>1, <1>2, <1>3

\* The rules about the delivery of logouts.
LEMMA DeliveryGood ==
    GoodTable("security.fanout_gap") /\ GoodTable("logout.delivery_health")
  <1>1. ASSUME NEW rule, rule = "security.fanout_gap" PROVE GoodTable(rule)
    <2>1. "missing" \in StoredMetrics(rule)
      BY <1>1 DEF StoredMetrics, CountRules, RatioRules
    <2>2. \A n \in Nat : n > 0 => /\ First(rule, AtLeast("missing_5m", n))
                                  /\ First(rule, AtLeast("missing_15m", n))
      BY <2>1 DEF First, MetricName, AtLeast, GoodLeaf
    <2>3. /\ GoodExpression(rule, One(AtLeast("missing_5m", 1)))
          /\ GoodExpression(rule, One(AtLeast("missing_15m", 1)))
          /\ GoodExpression(rule, One(AtLeast("missing_5m", 10)))
      BY <2>2, OneGood
    <2>4. Thresholds(rule) =
            Table(One(AtLeast("missing_5m", 1)), Null, Null, One(AtLeast("missing_15m", 1)),
                  Null, One(AtLeast("missing_5m", 10)))
      BY <1>1 DEF Thresholds, DeliveryThresholds
    <2>5. GoodExpression(rule, Null)
      BY NullGood
    <2>6. QED
      BY <2>3, <2>4, <2>5 DEF GoodTable, Table, Windows
  <1>2. ASSUME NEW rule, rule = "logout.delivery_health" PROVE GoodTable(rule)
    <2>1. {"dead", "oldest_unresolved_age_seconds", "lease_expired", "ratio"}
            = StoredMetrics(rule)
      BY <1>2 DEF StoredMetrics, CountRules, RatioRules
    <2> DEFINE C(metric, n) == <<AtLeast(metric, n)>>
               Q(d, n, b) == <<RatioAtLeast(d, n, b)>>
    <2>2. \A n \in Nat : n > 0 =>
            /\ GoodClause(rule, C("dead", n)) /\ GoodClause(rule, C("lease_expired", n))
            /\ GoodClause(rule, C("oldest_unresolved_age_seconds", n))
      BY <2>1, FirstCount, ClauseOne
    <2>3. /\ First(rule, RatioAtLeast(5, 1, 2000)) /\ First(rule, RatioAtLeast(5, 1, 5000))
          /\ First(rule, RatioAtLeast(10, 1, 2000)) /\ First(rule, RatioAtLeast(10, 1, 5000))
          /\ First(rule, RatioAtLeast(20, 1, 2000)) /\ First(rule, RatioAtLeast(20, 1, 5000))
      BY <2>1, FirstRatio
    <2>4. /\ GoodClause(rule, Q(5, 1, 2000)) /\ GoodClause(rule, Q(5, 1, 5000))
          /\ GoodClause(rule, Q(10, 1, 5000)) /\ GoodClause(rule, Q(20, 1, 5000))
      BY <2>3, ClauseOne
    <2>5. /\ GoodExpression(rule, One(RatioAtLeast(10, 1, 2000)))
          /\ GoodExpression(rule, One(RatioAtLeast(20, 1, 2000)))
      BY <2>3, OneGood
    <2>6. Thresholds(rule) =
            Table(<<C("oldest_unresolved_age_seconds", 120), C("lease_expired", 1),
                    Q(5, 1, 2000)>>, <<C("dead", 1), Q(5, 1, 5000)>>,
                  One(RatioAtLeast(10, 1, 2000)),
                  <<C("dead", 1), C("oldest_unresolved_age_seconds", 300),
                    C("lease_expired", 3), Q(10, 1, 5000)>>,
                  One(RatioAtLeast(20, 1, 2000)),
                  <<C("dead", 1), C("lease_expired", 5), Q(20, 1, 5000)>>)
      BY <1>2 DEF Thresholds, DeliveryThresholds
    <2> HIDE DEF C, Q
    <2>7. /\ GoodExpression(rule, <<C("oldest_unresolved_age_seconds", 120),
                                    C("lease_expired", 1), Q(5, 1, 2000)>>)
          /\ GoodExpression(rule, <<C("dead", 1), C("lease_expired", 5), Q(20, 1, 5000)>>)
          /\ GoodExpression(rule, <<C("dead", 1), C("oldest_unresolved_age_seconds", 300),
                                    C("lease_expired", 3), Q(10, 1, 5000)>>)
      BY <2>2, <2>4, ThreeGood, FourGood
    <2>8. GoodExpression(rule, <<C("dead", 1), Q(5, 1, 5000)>>)
      BY <2>2, <2>4, TwoGood
    <2>9. QED
      BY <2>5, <2>6, <2>7, <2>8, TableGood
  <1>3. QED
    BY <1>1, <1>2

\* The rules about the evaluator and its queue.
LEMMA HealthGood == GoodTable("alert.runtime_health") /\ GoodTable("queue.dlq_approximate")
  <1>1. ASSUME NEW rule, rule = "alert.runtime_health" PROVE GoodTable(rule)
    <2>1. {"evaluator_missing", "evaluator_age_seconds", "outbox_due_age_seconds",
           "dead_outbox"} = StoredMetrics(rule)
      BY <1>1 DEF StoredMetrics, CountRules, RatioRules
    <2>2. \A n \in Nat : n > 0 =>
            /\ First(rule, AtLeast("evaluator_missing", n))
            /\ First(rule, AtLeast("evaluator_age_seconds", n))
            /\ First(rule, AtLeast("outbox_due_age_seconds", n))
            /\ First(rule, AtLeast("dead_outbox", n))
      BY <2>1, FirstCount
    <2>3. GoodExpression(rule, <<<<AtLeast("evaluator_age_seconds", 181)>>,
                                 <<AtLeast("outbox_due_age_seconds", 121)>>>>)
      BY <2>2, ClauseOne, TwoGood
    <2>4. GoodExpression(rule, <<<<AtLeast("evaluator_missing", 1)>>,
                                 <<AtLeast("evaluator_age_seconds", 301)>>,
                                 <<AtLeast("outbox_due_age_seconds", 301)>>>>)
      BY <2>2, ClauseOne, ThreeGood
    <2>5. GoodExpression(rule, One(AtLeast("dead_outbox", 1)))
      BY <2>2, OneGood
    <2>6. Thresholds(rule) =
            Table(<<<<AtLeast("evaluator_age_seconds", 181)>>,
                    <<AtLeast("outbox_due_age_seconds", 121)>>>>, Null,
                  Null, <<<<AtLeast("evaluator_missing", 1)>>,
                          <<AtLeast("evaluator_age_seconds", 301)>>,
                          <<AtLeast("outbox_due_age_seconds", 301)>>>>,
                  Null, One(AtLeast("dead_outbox", 1)))
      BY <1>1 DEF Thresholds, HealthThresholds
    <2>7. GoodExpression(rule, Null)
      BY NullGood
    <2>8. QED
      BY <2>3, <2>4, <2>5, <2>6, <2>7 DEF GoodTable, Table, Windows
  <1>2. ASSUME NEW rule, rule = "queue.dlq_approximate" PROVE GoodTable(rule)
    <2>1. {"depth", "consecutive_nonzero_samples"} = StoredMetrics(rule)
      BY <1>2 DEF StoredMetrics, CountRules, RatioRules
    <2>2. \A n \in Nat : n > 0 => /\ First(rule, AtLeast("depth", n))
                                  /\ First(rule, AtLeast("consecutive_nonzero_samples", n))
      BY <2>1, FirstCount
    <2>3. GoodExpression(rule, <<<<AtLeast("depth", 10)>>,
                                 <<AtLeast("consecutive_nonzero_samples", 15)>>>>)
      BY <2>2, ClauseOne, TwoGood
    <2>4. GoodExpression(rule, One(AtLeast("depth", 1)))
      BY <2>2, OneGood
    <2>5. Thresholds(rule) =
            Table(One(AtLeast("depth", 1)), Null,
                  Null, <<<<AtLeast("depth", 10)>>,
                          <<AtLeast("consecutive_nonzero_samples", 15)>>>>, Null, Null)
      BY <1>2 DEF Thresholds, HealthThresholds
    <2>6. QED
      BY <2>3, <2>4, <2>5, NullGood, TableGood
  <1>3. QED
    BY <1>1, <1>2

\* Every alternative of every rule is one that evidence of it can be stored under.
LEMMA TablesGood == \A rule \in Rules : GoodTable(rule)
  BY RegistrationGood, AccountGood, ActivityGood, DeliveryGood, HealthGood
  DEF Rules, CountRules, RatioRules

-------------------------------------------------------------------------------
(* What was measured, and what is made of it                               *)

\* A ratio that is reached is reached by its integer quotient.
LEMMA Quotient ==
    ASSUME NEW a \in Nat, NEW d \in Nat, d > 0, NEW v \in Nat, a >= d * v
    PROVE  a \div d \in Int /\ a \div d >= v
  <1> DEFINE q == a \div d
             r == a % d
  <1>1. q \in Int /\ r \in 0..(d - 1) /\ a = d * q + r
    OBVIOUS
  <1> HIDE DEF q, r
  <1>2. SUFFICES ASSUME q + 1 <= v PROVE FALSE
    BY <1>1 DEF q
  <1>3. d * (q + 1) <= d * v
    BY <1>1, <1>2
  <1>4. d * (q + 1) = d * q + d
    BY <1>1
  <1>5. QED
    BY <1>1, <1>3, <1>4

\* Counters are not negative, and parts are no larger than their whole.
BagOK(bag) ==
    /\ \A m \in DOMAIN bag : bag[m] \in Nat
    /\ {"numerator", "denominator"} \subseteq DOMAIN bag => bag.numerator <= bag.denominator
    /\ "evaluator_missing" \in DOMAIN bag => bag["evaluator_missing"] <= 1
    /\ "known_surfaces" \in DOMAIN bag => /\ "count" \in DOMAIN bag
                                          /\ bag["known_surfaces"] <= bag["count"]
                                          /\ bag["known_surfaces"] <= 7

\* The metrics of an observation that was parsed are such a bag.
LEMMA BagsOK ==
    ASSUME NEW rule \in Rules, NEW o, Parsed(rule, o), NEW w \in Windows,
           rule = "queue.dlq_approximate" => KnownQueue(o.now)
    PROVE  BagOK(Metrics(rule, o, w))
  <1> USE DEF Parsed, Shaped, WindowCounters, SnapshotCounters, SubsetsAgree, SnapshotAgrees,
      Count, Known, Unobserved, SnapshotRules
  <1> DEFINE c == o.windows[w]
  <1>1. CASE rule \in CountRules
    <2>1. c \in [count : Nat] /\ Metrics(rule, o, w) = c
      BY <1>1 DEF CountRules, RatioRules, Metrics
    <2>2. QED
      BY <2>1 DEF BagOK
  <1>2. CASE rule \in RatioRules
    <2>1. c \in [numerator : Nat, denominator : Nat] /\ Metrics(rule, o, w) = c
      BY <1>2 DEF CountRules, RatioRules, Metrics
    <2>2. c.numerator <= c.denominator
      BY <1>2 DEF CountRules, RatioRules
    <2>3. QED
      BY <2>1, <2>2 DEF BagOK
  <1>3. CASE rule = "restricted.sensitive_denied"
    <2>1. c \in [count : Nat, known_surfaces : Nat] /\ Metrics(rule, o, w) = c
      BY <1>3 DEF CountRules, RatioRules, Metrics
    <2>2. c.known_surfaces <= c.count /\ c.known_surfaces <= 7
      BY <1>3 DEF CountRules, RatioRules
    <2>3. QED
      BY <2>1, <2>2 DEF BagOK
  <1>4. CASE rule = "recovery.entry_abuse"
    <2>1. c \in [denied : Nat, started : Nat, rate_limited : Nat]
      BY <1>4 DEF CountRules, RatioRules
    <2>2. Metrics(rule, o, w) =
            [numerator |-> c.denied, denominator |-> c.denied + c.started,
             rate_limited |-> c.rate_limited]
      BY <1>4 DEF CountRules, RatioRules, Metrics
    <2>3. QED
      BY <2>1, <2>2 DEF BagOK
  <1>5. CASE rule = "oauth.client_report"
    <2>1. c \in [count : Nat, high_risk_count : Nat, distinct_reporters : Nat \cup {-1}]
      BY <1>5 DEF CountRules, RatioRules
    <2>2. Metrics(rule, o, w) =
            IF c.distinct_reporters = -1 THEN Without(c, "distinct_reporters") ELSE c
      BY <1>5 DEF CountRules, RatioRules, Metrics
    <2>3. CASE c.distinct_reporters = -1
      BY <2>1, <2>2, <2>3 DEF BagOK, Without
    <2>4. CASE c.distinct_reporters # -1
      BY <2>1, <2>2, <2>4 DEF BagOK
    <2>5. QED
      BY <2>3, <2>4
  <1>6. CASE rule = "admin.sensitive_activity"
    <2>1. c \in [successes : Nat, protected_denials : Nat]
      BY <1>6 DEF CountRules, RatioRules
    <2>2. Metrics(rule, o, w) =
           [count |-> c.successes + c.protected_denials, successes |-> c.successes,
            protected_denials |-> c.protected_denials]
      BY <1>6 DEF CountRules, RatioRules, Metrics
    <2>3. QED
      BY <2>1, <2>2 DEF BagOK
  <1>7. CASE rule = "logout.delivery_health"
    <2>1. /\ c \in [eligible : Nat, unresolved : Nat, lease_expired : Nat]
          /\ o.now \in [unresolved : Nat, dead : Nat, oldest : Nat \cup {-1}]
          /\ c.unresolved <= c.eligible
      BY <1>7 DEF CountRules, RatioRules
    <2>2. Metrics(rule, o, w) =
           [dead |-> o.now.dead,
            oldest_unresolved_age_seconds |-> Or0(o.now.oldest),
            lease_expired |-> c.lease_expired,
            numerator |-> c.unresolved, denominator |-> c.eligible]
      BY <1>7 DEF CountRules, RatioRules, Metrics
    <2>3. Or0(o.now.oldest) \in Nat
      BY <2>1 DEF Or0
    <2>4. QED
      BY <2>1, <2>2, <2>3 DEF BagOK
  <1>8. CASE rule = "security.fanout_gap"
    <2>1. o.now \in [missing_5m : Nat, missing_15m : Nat]
      BY <1>8 DEF CountRules, RatioRules
    <2>2. Metrics(rule, o, w) =
           IF w = "15m" THEN [missing_15m |-> o.now.missing_15m]
                        ELSE [missing_5m |-> o.now.missing_5m]
      BY <1>8 DEF CountRules, RatioRules, Metrics
    <2>3. QED
      BY <2>1, <2>2 DEF BagOK
  <1>9. CASE rule = "alert.runtime_health"
    <2>1. o.now \in [dead_outbox : Nat, evaluator_age : Nat \cup {-1},
                     outbox_due_age : Nat \cup {-1}]
      BY <1>9 DEF CountRules, RatioRules
    <2>2. Metrics(rule, o, w) =
           [dead_outbox |-> o.now.dead_outbox,
            evaluator_age_seconds |-> Or0(o.now.evaluator_age),
            evaluator_missing |-> IF o.now.evaluator_age = Unobserved THEN 1 ELSE 0,
            outbox_due_age_seconds |-> Or0(o.now.outbox_due_age)]
      BY <1>9 DEF CountRules, RatioRules, Metrics
    <2>3. Or0(o.now.evaluator_age) \in Nat /\ Or0(o.now.outbox_due_age) \in Nat
      BY <2>1 DEF Or0
    <2>4. QED
      BY <2>1, <2>2, <2>3 DEF BagOK
  <1>10. CASE rule = "queue.dlq_approximate"
    <2>1. /\ o.now \in [sampled : BOOLEAN, depth : Nat, samples : Nat, elapsed : Int,
                        oldest : BOOLEAN]
          /\ KnownQueue(o.now)
      BY <1>10 DEF CountRules, RatioRules
    <2>2. Metrics(rule, o, w) =
           [depth |-> o.now.depth, consecutive_nonzero_samples |-> Streak(o.now)]
      BY <1>10 DEF CountRules, RatioRules, Metrics
    <2>3. Streak(o.now) \in Nat
      <3>1. o.now.elapsed \in Nat
        BY <2>1 DEF KnownQueue
      <3>2. o.now.elapsed \div 60 \in Nat
        BY <3>1
      <3>3. QED
        BY <2>1, <3>2 DEF Streak, FullMinutes
    <2>4. QED
      BY <2>1, <2>2, <2>3 DEF BagOK
  <1>11. QED
    BY <1>1, <1>2, <1>3, <1>4, <1>5, <1>6, <1>7, <1>8, <1>9, <1>10 DEF Rules

\* A scalar leaf that is breached gives a component that is in order.
LEMMA BreachedScalar ==
    ASSUME NEW leaf, GoodLeaf(leaf), leaf.metric # "ratio", NEW bag, BagOK(bag),
           Leaf(leaf, bag) = "breached"
    PROVE  LET c == Component(leaf, bag)
           IN  /\ ComponentOK(c) /\ c.metric = MetricName(leaf.metric) /\ c.metric # "ratio"
               /\ c.threshold = leaf.value /\ c.samples = leaf.samples /\ c.hits = leaf.hits
               /\ leaf.metric \in DOMAIN bag /\ c.observed = bag[leaf.metric]
  <1> DEFINE c == Component(leaf, bag)
  <1>1. leaf.metric \in DOMAIN bag /\ bag[leaf.metric] >= leaf.value
    BY DEF Leaf, Observed
  <1>2. c = [metric |-> MetricName(leaf.metric), observed |-> bag[leaf.metric],
             threshold |-> leaf.value, samples |-> 0, hits |-> 0, numerator |-> 0,
             denominator |-> 0]
    BY DEF Component, Scalar
  <1>3. bag[leaf.metric] \in Nat
    BY <1>1 DEF BagOK
  <1>4. MetricName(leaf.metric) # "ratio"
        /\ (MetricName(leaf.metric) = "evaluator_missing" => leaf.metric = "evaluator_missing")
    BY DEF MetricName
  <1> HIDE DEF c
  <1>5. ComponentOK(c)
    BY <1>1, <1>2, <1>3, <1>4 DEF ComponentOK, GoodLeaf, BagOK
  <1>6. QED
    BY <1>1, <1>2, <1>4, <1>5 DEF GoodLeaf, c

\* And so does a ratio.
LEMMA BreachedRatio ==
    ASSUME NEW leaf, GoodLeaf(leaf), leaf.metric = "ratio", NEW bag, BagOK(bag),
           Leaf(leaf, bag) = "breached"
    PROVE  LET c == Component(leaf, bag)
           IN  /\ ComponentOK(c) /\ c.metric = "ratio"
               /\ c.threshold = leaf.value /\ c.samples = leaf.samples /\ c.hits = leaf.hits
  <1> DEFINE c == Component(leaf, bag)
             n == bag.numerator
             d == bag.denominator
  <1>1. {"numerator", "denominator"} \subseteq DOMAIN bag /\ RatioReached(leaf, bag)
    BY DEF Leaf, Observed
  <1>2. n \in Nat /\ d \in Nat /\ n <= d
    BY <1>1 DEF BagOK
  <1>3. n >= leaf.hits /\ d >= leaf.samples /\ d > 0 /\ n * 10000 >= d * leaf.value
    BY <1>1, <1>2 DEF RatioReached
  <1>4. c = [metric |-> "ratio", observed |-> (n * 10000) \div d, threshold |-> leaf.value,
             samples |-> leaf.samples, hits |-> leaf.hits, numerator |-> n,
             denominator |-> d]
    BY DEF Component, RatioOf
  <1>5. n * 10000 \in Nat /\ leaf.value \in Nat
    BY <1>2 DEF GoodLeaf
  <1> HIDE DEF c, n, d
  <1>6. (n * 10000) \div d >= leaf.value
    BY <1>2, <1>3, <1>5, Quotient
  <1>7. RatioConsistent(c) /\ c.threshold >= 1 /\ c.observed >= c.threshold
    BY <1>2, <1>3, <1>4, <1>6 DEF RatioConsistent, GoodLeaf
  <1>8. QED
    BY <1>4, <1>7 DEF ComponentOK, c

-------------------------------------------------------------------------------
(* The evidence that is selected                                           *)

\* The least of a set of positions is one of them.
LEMMA LeastIn == ASSUME NEW S, S \subseteq 1..4, S # {} PROVE Least(S) \in S
  <1>0. \A j \in S : j \in Int /\ (j = 1 \/ j = 2 \/ j = 3 \/ j = 4)
    OBVIOUS
  <1>1. \E i \in S : \A j \in S : i <= j
    <2>1. CASE 1 \in S
      BY <2>1, <1>0
    <2>2. CASE 1 \notin S /\ 2 \in S
      BY <2>2, <1>0
    <2>3. CASE 1 \notin S /\ 2 \notin S /\ 3 \in S
      BY <2>3, <1>0
    <2>4. CASE 1 \notin S /\ 2 \notin S /\ 3 \notin S
      <3>1. S = {4}
        BY <1>0, <2>4
      <3>2. QED
        BY <3>1
    <2>5. QED
      BY <2>1, <2>2, <2>3, <2>4
  <1>2. QED
    BY <1>1 DEF Least

\* A clause is breached only if all its leaves are.
LEMMA AllBreached ==
    ASSUME NEW c, NEW bag, AllOf(c, bag) = "breached"
    PROVE  \A i \in DOMAIN c : Leaf(c[i], bag) = "breached"
  <1>1. \A leaf : Leaf(leaf, bag) \in {"breached", "clear", "unknown"}
    BY DEF Leaf
  <1>2. LeavesIn("clear", c, bag) = {} /\ LeavesIn("unknown", c, bag) = {}
    BY DEF AllOf
  <1>3. QED
    BY <1>1, <1>2 DEF LeavesIn

\* Evidence that is stored and can be read back.
EvidenceOK(rule, e, severity) ==
    e.severity = severity /\ Canonical(rule, e) /\ Storable(rule, e)

\* A second component has a metric of its own.
LEMMA StoredNames ==
    ASSUME NEW rule \in Rules
    PROVE  "known_surfaces" \notin StoredMetrics(rule)
           /\ "distinct_reporters" \notin StoredMetrics(rule)
  BY DEF Rules, StoredMetrics, CountRules, RatioRules

\* The expression of a window that is breached has a breached alternative.
LEMMA Breached ==
    ASSUME NEW rule \in Rules, NEW o, NEW severity \in {"warning", "critical"},
           NEW k \in WindowsIn("breached", rule, o, severity)
    PROVE  LET x == Thresholds(rule)[Window[k]][severity]
               bag == Metrics(rule, o, Window[k])
               b == Least(ClausesIn("breached", x, bag))
           IN  /\ k \in 1..3 /\ Window[k] \in Windows
               /\ b \in DOMAIN x /\ GoodClause(rule, x[b])
               /\ \A i \in DOMAIN x[b] : Leaf(x[b][i], bag) = "breached"
  <1> DEFINE x == Thresholds(rule)[Window[k]][severity]
             bag == Metrics(rule, o, Window[k])
             C == ClausesIn("breached", x, bag)
  <1>1. k \in 1..3 /\ AnyOf(x, bag) = "breached"
    BY DEF WindowsIn
  <1>2. Window[k] \in Windows
    BY <1>1 DEF Window, Windows
  <1>3. GoodExpression(rule, x)
    BY <1>2, TablesGood DEF GoodTable
  <1> HIDE DEF x, bag
  <1>4. C # {}
    BY <1>1 DEF AnyOf
  <1>5. C \subseteq DOMAIN x /\ \A i \in C : AllOf(x[i], bag) = "breached"
    BY DEF ClausesIn
  <1>6. DOMAIN x \subseteq 1..4
    BY <1>3 DEF GoodExpression
  <1> HIDE DEF C
  <1>7. Least(C) \in C
    BY <1>4, <1>5, <1>6, LeastIn
  <1>8. Least(C) \in DOMAIN x /\ GoodClause(rule, x[Least(C)])
    BY <1>3, <1>5, <1>7 DEF GoodExpression
  <1>9. QED
    BY <1>1, <1>2, <1>5, <1>7, <1>8, AllBreached DEF x, bag, C

\* The component of a leaf that opens a clause.
LEMMA PrimaryOK ==
    ASSUME NEW rule \in Rules, NEW leaf, First(rule, leaf), NEW bag, BagOK(bag),
           Leaf(leaf, bag) = "breached"
    PROVE  LET p == Component(leaf, bag)
           IN  /\ ComponentOK(p) /\ p.metric = MetricName(leaf.metric)
               /\ p.threshold = leaf.value /\ p.samples = leaf.samples /\ p.hits = leaf.hits
               /\ p.metric \in StoredMetrics(rule)
               /\ p.metric \notin {"known_surfaces", "distinct_reporters"}
               /\ p.metric = "evaluator_missing" => p.observed \in {0, 1}
  <1> DEFINE p == Component(leaf, bag)
  <1>1. CASE leaf.metric = "ratio"
    <2>1. MetricName("ratio") = "ratio"
      BY DEF MetricName
    <2>2. QED
      BY <1>1, <2>1, BreachedRatio DEF First
  <1>2. CASE leaf.metric # "ratio"
    <2>1. /\ ComponentOK(p) /\ p.metric = MetricName(leaf.metric)
          /\ p.threshold = leaf.value /\ p.samples = leaf.samples /\ p.hits = leaf.hits
          /\ leaf.metric \in DOMAIN bag /\ p.observed = bag[leaf.metric]
      BY <1>2, BreachedScalar DEF First
    <2>2. p.observed \in Nat
      BY <2>1 DEF BagOK
    <2>3. p.metric = "evaluator_missing" => p.observed <= 1
      BY <2>1 DEF ComponentOK
    <2>4. p.metric \in StoredMetrics(rule)
      BY <2>1 DEF First
    <2>5. p.metric \notin {"known_surfaces", "distinct_reporters"}
      BY <2>4, StoredNames
    <2>6. QED
      BY <2>1, <2>2, <2>3, <2>4, <2>5
  <1>3. QED
    BY <1>1, <1>2

\* Evidence of a primary component p and the others.
Evidence(p, s, severity, window) ==
    [primary |-> p, secondary |-> s, severity |-> severity, window |-> window]

\* Evidence of a clause with one leaf.
LEMMA OneComponent ==
    ASSUME NEW rule \in Rules, NEW c, GoodClause(rule, c), Len(c) = 1, NEW bag, BagOK(bag),
           \A i \in DOMAIN c : Leaf(c[i], bag) = "breached", NEW severity, NEW window,
           NEW b, b \in DOMAIN Thresholds(rule)[window][severity],
           c = Thresholds(rule)[window][severity][b]
    PROVE  EvidenceOK(rule, Evidence(Component(c[1], bag), <<>>, severity, window), severity)
  <1> DEFINE p == Component(c[1], bag)
             e == Evidence(p, <<>>, severity, window)
  <1>1. DOMAIN c = 1..1 /\ First(rule, c[1]) /\ Leaf(c[1], bag) = "breached"
    BY DEF GoodClause
  <1>2. /\ ComponentOK(p) /\ p.metric = MetricName(c[1].metric)
        /\ p.threshold = c[1].value /\ p.samples = c[1].samples /\ p.hits = c[1].hits
        /\ p.metric \in StoredMetrics(rule)
        /\ p.metric \notin {"known_surfaces", "distinct_reporters"}
        /\ p.metric = "evaluator_missing" => p.observed \in {0, 1}
    BY <1>1, PrimaryOK
  <1> HIDE DEF p
  <1>3. e.primary = p /\ e.secondary = <<>> /\ e.severity = severity /\ e.window = window
    BY DEF Evidence
  <1> HIDE DEF e
  <1>4. MeetsClause(e, c)
    <2> DEFINE s == <<e.primary>> \o e.secondary
    <2>1. Len(s) = 1 /\ s[1] = p
      BY <1>3
    <2> HIDE DEF s
    <2>2. \A i \in DOMAIN c : i = 1
      BY <1>1
    <2>3. \A i \in DOMAIN c : /\ s[i].metric = MetricName(c[i].metric)
                              /\ s[i].threshold = c[i].value
                              /\ s[i].samples = c[i].samples /\ s[i].hits = c[i].hits
      BY <1>2, <2>1, <2>2
    <2>4. QED
      BY <2>1, <2>3 DEF MeetsClause, s
  <1>5. Canonical(rule, e)
    BY <1>2, <1>3, <1>4 DEF Canonical
  <1>6. Storable(rule, e)
    BY <1>2, <1>3 DEF Storable, ComponentOK
  <1>7. QED
    BY <1>3, <1>5, <1>6 DEF EvidenceOK, e, p

\* Evidence of a clause with two.
LEMMA TwoComponents ==
    ASSUME NEW rule \in Rules, NEW c, GoodClause(rule, c), Len(c) = 2, NEW bag, BagOK(bag),
           \A i \in DOMAIN c : Leaf(c[i], bag) = "breached", NEW severity, NEW window,
           NEW b, b \in DOMAIN Thresholds(rule)[window][severity],
           c = Thresholds(rule)[window][severity][b]
    PROVE  EvidenceOK(rule, Evidence(Component(c[1], bag), <<Component(c[2], bag)>>,
                                     severity, window), severity)
  <1> DEFINE p == Component(c[1], bag)
             q == Component(c[2], bag)
             e == Evidence(p, <<q>>, severity, window)
  <1>1. /\ DOMAIN c = 1..2 /\ First(rule, c[1]) /\ Second(rule, c[1], c[2])
        /\ Leaf(c[1], bag) = "breached" /\ Leaf(c[2], bag) = "breached"
    BY DEF GoodClause
  <1>2. /\ ComponentOK(p) /\ p.metric = MetricName(c[1].metric)
        /\ p.threshold = c[1].value /\ p.samples = c[1].samples /\ p.hits = c[1].hits
        /\ p.metric \in StoredMetrics(rule)
        /\ p.metric \notin {"known_surfaces", "distinct_reporters"}
        /\ p.metric = "evaluator_missing" => p.observed \in {0, 1}
    BY <1>1, PrimaryOK
  <1>3. GoodLeaf(c[2]) /\ <<rule, c[1].metric, c[2].metric>> \in Secondary
    BY <1>1 DEF Second
  <1>4. /\ c[1].metric \in {"count", "high_risk_count"}
        /\ c[2].metric \in {"known_surfaces", "distinct_reporters"}
        /\ c[2].metric = "known_surfaces" => c[1].metric = "count"
        /\ <<c[1].metric, c[2].metric>> \in Pairs
    BY <1>3 DEF Secondary, Pairs
  <1>5. p.metric = c[1].metric /\ MetricName(c[2].metric) = c[2].metric
    BY <1>2, <1>4 DEF MetricName
  <1>6. /\ ComponentOK(q) /\ q.metric = c[2].metric
        /\ q.threshold = c[2].value /\ q.samples = c[2].samples /\ q.hits = c[2].hits
        /\ c[2].metric \in DOMAIN bag /\ q.observed = bag[c[2].metric]
    <2> DEFINE l == c[2]
    <2>1. GoodLeaf(l) /\ Leaf(l, bag) = "breached" /\ l.metric # "ratio"
      BY <1>1, <1>3, <1>4
    <2>2. MetricName(l.metric) = l.metric
      BY <1>5
    <2>3. q = Component(l, bag)
      OBVIOUS
    <2> HIDE DEF l, q
    <2>4. /\ ComponentOK(q) /\ q.metric = MetricName(l.metric)
          /\ q.threshold = l.value /\ q.samples = l.samples /\ q.hits = l.hits
          /\ l.metric \in DOMAIN bag /\ q.observed = bag[l.metric]
      BY <2>1, <2>3, BreachedScalar
    <2>5. QED
      BY <2>2, <2>4 DEF l
  <1>7. c[1].metric \in DOMAIN bag /\ p.observed = bag[c[1].metric]
    BY <1>1, <1>4, BreachedScalar DEF First
  <1>8. q.metric = "known_surfaces" => q.observed <= p.observed /\ q.observed <= 7
    BY <1>4, <1>6, <1>7 DEF BagOK
  <1> HIDE DEF p, q
  <1>9. e.primary = p /\ e.secondary = <<q>> /\ e.severity = severity /\ e.window = window
    BY DEF Evidence
  <1> HIDE DEF e
  <1>10. DOMAIN e.secondary = {1} /\ e.secondary[1] = q
    BY <1>9
  <1>11. MeetsClause(e, c)
    <2> DEFINE s == <<e.primary>> \o e.secondary
    <2>1. Len(s) = 2 /\ s[1] = p /\ s[2] = q
      BY <1>9
    <2> HIDE DEF s
    <2> DEFINE Same(i) == /\ s[i].metric = MetricName(c[i].metric)
                          /\ s[i].threshold = c[i].value
                          /\ s[i].samples = c[i].samples /\ s[i].hits = c[i].hits
    <2>2. Same(1)
      BY <1>2, <2>1
    <2>3. Same(2)
      BY <1>5, <1>6, <2>1
    <2> HIDE DEF Same
    <2>4. \A i \in DOMAIN c : Same(i)
      BY <1>1, <2>2, <2>3
    <2>5. QED
      BY <2>1, <2>4 DEF MeetsClause, s, Same
  <1>12. Canonical(rule, e)
    <2>1. ComponentOK(e.primary) /\ e.primary.metric \notin {"known_surfaces", "distinct_reporters"}
      BY <1>2, <1>9
    <2>2. \A i \in DOMAIN e.secondary :
             ComponentOK(e.secondary[i]) /\ <<e.primary.metric, e.secondary[i].metric>> \in Pairs
      <3>1. ComponentOK(q) /\ <<p.metric, q.metric>> \in Pairs
        BY <1>4, <1>5, <1>6
      <3>2. QED
        BY <1>9, <1>10, <3>1
    <2>3. \E i \in DOMAIN Thresholds(rule)[e.window][e.severity] :
             MeetsClause(e, Thresholds(rule)[e.window][e.severity][i])
      BY <1>9, <1>11
    <2>4. QED
      BY <2>1, <2>2, <2>3 DEF Canonical
  <1>13. Storable(rule, e)
    <2>1. <<rule, p.metric, q.metric>> \in Secondary /\ q.observed >= q.threshold
      BY <1>3, <1>5, <1>6 DEF ComponentOK
    <2>2. QED
      BY <1>2, <1>8, <1>9, <1>10, <2>1 DEF Storable, ComponentOK, Secondary
  <1>14. QED
    BY <1>9, <1>12, <1>13 DEF EvidenceOK, e, p, q

\* The first of one is the whole.
LEMMA TailOne == ASSUME NEW p, NEW m, m = <<p>> PROVE m[1] = p /\ Tail(m) = <<>>
  OBVIOUS
\* The second of two is the tail.
LEMMA TailTwo ==
    ASSUME NEW p, NEW q, NEW m, m = <<p, q>> PROVE m[1] = p /\ Tail(m) = <<q>>
  OBVIOUS

\* What is selected from a breached window is evidence that the parser accepts when
\* it is read back and that the tables store.
LEMMA SelectedOK ==
    ASSUME NEW rule \in Rules, NEW o, Parsed(rule, o),
           rule = "queue.dlq_approximate" => KnownQueue(o.now),
           NEW severity \in {"warning", "critical"},
           NEW k \in WindowsIn("breached", rule, o, severity)
    PROVE  LET e == Selected(rule, o, severity, k)
           IN  /\ EvidenceOK(rule, e, severity)
               /\ e.primary = Match(rule, o, severity, k)[1]
  <1> DEFINE x == Thresholds(rule)[Window[k]][severity]
             bag == Metrics(rule, o, Window[k])
             b == Least(ClausesIn("breached", x, bag))
             c == x[b]
             m == [j \in DOMAIN c |-> Component(c[j], bag)]
             e == Selected(rule, o, severity, k)
  <1>1. /\ k \in 1..3 /\ Window[k] \in Windows /\ b \in DOMAIN x /\ GoodClause(rule, c)
        /\ \A i \in DOMAIN c : Leaf(c[i], bag) = "breached"
    BY Breached
  <1>2. BagOK(bag)
    BY <1>1, BagsOK
  <1>3. Match(rule, o, severity, k) = m
    BY DEF Match, Components
  <1>4. e = Evidence(m[1], Tail(m), severity, Window[k]) /\ e.primary = m[1]
    BY <1>3 DEF Selected, Evidence
  <1>5. CASE Len(c) = 1
    <2>1. DOMAIN c = 1..1
      BY <1>1, <1>5 DEF GoodClause
    <2>2. m = <<Component(c[1], bag)>>
      BY <2>1
    <2>3. m[1] = Component(c[1], bag) /\ Tail(m) = <<>>
      BY <2>2, TailOne
    <2> HIDE DEF bag, m, b, e
    <2>4. EvidenceOK(rule, Evidence(Component(c[1], bag), <<>>, severity, Window[k]), severity)
      BY <1>1, <1>2, <1>5, OneComponent
    <2>5. QED
      BY <1>3, <1>4, <2>3, <2>4 DEF e
  <1>6. CASE Len(c) = 2
    <2>1. DOMAIN c = 1..2
      BY <1>1, <1>6 DEF GoodClause
    <2>2. m = <<Component(c[1], bag), Component(c[2], bag)>>
      BY <2>1
    <2>3. m[1] = Component(c[1], bag) /\ Tail(m) = <<Component(c[2], bag)>>
      BY <2>2, TailTwo
    <2> HIDE DEF bag, m, b, e
    <2>4. EvidenceOK(rule, Evidence(Component(c[1], bag), <<Component(c[2], bag)>>, severity,
                                    Window[k]), severity)
      BY <1>1, <1>2, <1>6, TwoComponents
    <2>5. QED
      BY <1>3, <1>4, <2>3, <2>4 DEF e
  <1>7. QED
    BY <1>1, <1>5, <1>6 DEF GoodClause

\* What an evaluation says, of an alert of the rule.
EvaluationOK(rule, e) ==
    /\ e.known \in BOOLEAN /\ e.immediate \in BOOLEAN /\ e.severity \in Severities
    /\ ~e.known => e.severity = "none"
    /\ e.immediate => /\ e.severity = "critical"
                      /\ ImmediateMetric(rule, e.evidence.primary.metric)
    /\ e.severity # "none" => EvidenceOK(rule, e.evidence, e.severity)

\* And the first window of some.
LEMMA WindowOf ==
    ASSUME NEW S, S \subseteq 1..3, S # {}
    PROVE  Least(S) \in S
  <1>1. S \subseteq 1..4
    OBVIOUS
  <1>2. QED
    BY <1>1, LeastIn

\* An evaluation is known unless its severity is none, immediate only when critical,
\* and its evidence is of its own severity.
LEMMA EvaluateOK ==
    ASSUME NEW rule \in Rules, NEW o, Parsed(rule, o)
    PROVE  EvaluationOK(rule, Evaluate(rule, o))
  <1> DEFINE C == WindowsIn("breached", rule, o, "critical")
             W == WindowsIn("breached", rule, o, "warning")
             I == ImmediateWindows(rule, o)
             e == Evaluate(rule, o)
  <1>1. C \subseteq 1..3 /\ W \subseteq 1..3 /\ I \subseteq C
    BY DEF WindowsIn, ImmediateWindows
  <1>2. CASE rule = "queue.dlq_approximate" /\ ~KnownQueue(o.now)
    BY <1>2 DEF Evaluate, Evaluation, EvaluationOK, Severities
  <1>3. CASE ~(rule = "queue.dlq_approximate" /\ ~KnownQueue(o.now)) /\ C # {}
    <2> DEFINE k == CriticalWindow(rule, o)
    <2>1. k \in C /\ (I # {} => k \in I)
      BY <1>1, <1>3, WindowOf DEF CriticalWindow
    <2>2. e = Evaluation(TRUE, "critical", I # {}, Selected(rule, o, "critical", k))
      BY <1>3 DEF Evaluate
    <2> HIDE DEF k, C, I, W
    <2>3. /\ EvidenceOK(rule, Selected(rule, o, "critical", k), "critical")
          /\ Selected(rule, o, "critical", k).primary = Match(rule, o, "critical", k)[1]
      BY <1>3, <2>1, SelectedOK DEF C
    <2>4. I # {} => ImmediateMetric(rule, Match(rule, o, "critical", k)[1].metric)
      BY <2>1 DEF I, ImmediateWindows
    <2> HIDE DEF e
    <2>5. /\ e.known = TRUE /\ e.severity = "critical" /\ e.immediate = (I # {})
          /\ e.evidence = Selected(rule, o, "critical", k)
      BY <2>2 DEF Evaluation
    <2>6. QED
      BY <2>3, <2>4, <2>5 DEF EvaluationOK, Severities, e
  <1>4. CASE ~(rule = "queue.dlq_approximate" /\ ~KnownQueue(o.now)) /\ C = {} /\ W # {}
    <2> DEFINE k == Least(W)
    <2>1. k \in W
      BY <1>1, <1>4, WindowOf
    <2>2. e = Evaluation(TRUE, "warning", FALSE, Selected(rule, o, "warning", k))
      BY <1>4 DEF Evaluate
    <2> HIDE DEF k, C, I, W
    <2>3. EvidenceOK(rule, Selected(rule, o, "warning", k), "warning")
      BY <1>4, <2>1, SelectedOK DEF W
    <2>4. QED
      BY <2>2, <2>3 DEF Evaluation, EvaluationOK, Severities
  <1>5. CASE ~(rule = "queue.dlq_approximate" /\ ~KnownQueue(o.now)) /\ C = {} /\ W = {}
    BY <1>5 DEF Evaluate, Evaluation, EvaluationOK, Severities
  <1>6. QED
    BY <1>2, <1>3, <1>4, <1>5

-------------------------------------------------------------------------------
(* The invariant                                                           *)

\* A row as the tables leave it: its counters are in range, its CHECKs hold, and a
\* breach that waits is evidence that can be read back. There is no row before the
\* first breach.
RowGood(r) ==
    /\ r.severity \in Severities /\ r.breach \in Severities
    /\ r.breaches \in 0..1 /\ r.clears \in 0..(ClearConsecutive - 1)
    /\ r.generation \in Int /\ r.generation >= -1
    /\ r.cooldown \in 0..Cooldown /\ r.quiet \in 0..Longest
    /\ r.severity = "none" => r.quiet = 0
    /\ ~Present(r) => r = NoRow
    /\ Present(r) => StateChecks(r)
    /\ r.breach # "none" => Canonical(alert, r.evidence)

\* The incident of a row: the two agree, and while it is active its evidence can be
\* read back.
IncidentGood(r, i) ==
    /\ i.status \in {"open", "acknowledged", "resolved"} /\ i.severity \in Severities
    /\ Consistent(r, i)
    /\ r.severity # "none" => EvidenceOK(alert, i.evidence, r.severity)

\* What the accepted evaluations said accounts for the counters of a row.
HistoryGood(r, h) ==
    /\ h.last \in Severities \cup {"unknown"}
    /\ r.breach # "none" => h.last = r.breach
    /\ r.clears > 0 => h.last = "none"
    /\ h.clears \in 0..ClearConsecutive /\ r.clears <= h.clears
    /\ h.calm \in 0..Cooldown
    /\ r.severity = "none" => r.cooldown + h.calm = Cooldown

\* The mails of an incident, as its row and status stand.
MailGood(r, i, m) ==
    /\ m.opened \in 0..1 /\ m.escalated \in 0..1 /\ m.resolved \in 0..1
    /\ m.last.kind \in {"none", "opened", "reminder", "escalated", "resolved"}
    /\ r.severity # "none" => m # NoMail
    /\ m # NoMail =>
         /\ m.opened = 1
         /\ m.escalated = 1 => i.severity = "critical"
         /\ m.last.severity = i.severity
         /\ m.resolved = 1 => m.last.kind = "resolved" /\ i.status = "resolved"

\* A plan was made of a row of the same generation.
PlanGood ==
    /\ plan.ready \in BOOLEAN
    /\ plan.ready => /\ plan.evaluation \in Evaluations(alert)
                     /\ plan.row.generation = row.generation

HistoryRecord == hist = [last |-> hist.last, clears |-> hist.clears, calm |-> hist.calm]

Inv == /\ alert \in DOMAIN Observations /\ HistoryRecord
       /\ RowGood(row) /\ IncidentGood(row, incident) /\ HistoryGood(row, hist)
       /\ MailGood(row, incident, mail) /\ PlanGood /\ row.generation <= MaxGeneration

\* The four things a decision can do to a state. It keeps the severity, and forgets a
\* breach that was waiting;
Keeps(s, e, d, mode) ==
    /\ d.intent \in {"silent", "remind"} /\ d.state.status = s.status
    /\ d.intent = "remind" => s.status # "none"
    /\ d.state.breach = NoBreach /\ d.state.breaches = 0 /\ d.state.cooldown = s.cooldown
    /\ d.state.quiet \in {0, s.quiet}
    /\ e.severity # "none" => s.status # "none"
    /\ e.severity = "critical" => s.status = "critical"
    /\ d.state.active = IF e.severity # "none" /\ e.severity = s.status
                        THEN e.evidence ELSE s.active
    /\ \/ d.state.clears = 0
       \/ /\ d.state.clears = s.clears + 1 /\ s.clears + 1 < ClearConsecutive
          /\ e.known /\ e.severity = "none" /\ mode # "manual" /\ s.status # "none"

\* it lets a breach wait for a second one;
Pends(s, e, d) ==
    /\ e.severity # "none" /\ s.status # "critical"
    /\ e.severity = "warning" => s.status = "none"
    /\ d.intent = "silent" /\ d.state.status = s.status /\ d.state.active = s.active
    /\ d.state.breach = e.evidence /\ d.state.breaches = 1 /\ d.state.clears = 0
    /\ d.state.cooldown = s.cooldown /\ d.state.quiet = s.quiet

\* it raises the severity to the one that was confirmed;
Raises(s, e, d) ==
    /\ e.severity # "none" /\ s.status # "critical"
    /\ \/ d.intent = "open" /\ s.status = "none"
       \/ d.intent = "escalate" /\ s.status = "warning" /\ e.severity = "critical"
    /\ s.breach.severity = e.severity \/ e.immediate
    /\ e.severity = "warning" => s.cooldown = 0
    /\ d.state.status = e.severity /\ d.state.active = e.evidence
    /\ d.state.breach = NoBreach /\ d.state.breaches = 0 /\ d.state.clears = 0
    /\ d.state.cooldown = (IF d.intent = "open" THEN 0 ELSE s.cooldown) /\ d.state.quiet = 0

\* or it resolves.
Resolves(s, e, d, mode) ==
    /\ d.intent = "resolve" /\ e.known /\ e.severity = "none" /\ mode # "manual"
    /\ s.status # "none" /\ s.clears + 1 >= ClearConsecutive
    /\ d.state = Inactive(Cooldown)

\* advanceAlertLifecycle does one of the four, of every state that is readable.
LEMMA FourDecisions ==
    ASSUME NEW s, NEW e, NEW mode, e.severity \in Severities, EvaluationOK(alert, e),
           s.status \in Severities, s.breaches \in 0..1, s.clears \in Nat, s.cooldown \in Nat,
           s.quiet \in Nat, (s.breach.severity = "none") = (s.breaches = 0),
           s.status = "none" => s.active = NoBreach /\ s.quiet = 0 /\ s.clears = 0,
           s.status = "warning" => s.active.severity = "warning" /\ s.cooldown = 0
    PROVE  LET d == Advance(s, e, mode)
           IN  Keeps(s, e, d, mode) \/ Pends(s, e, d) \/ Raises(s, e, d) \/ Resolves(s, e, d, mode)
  <1> DEFINE d == Advance(s, e, mode)
  <1> USE PolicyAssumption
  <1>1. e.known \in BOOLEAN /\ e.immediate \in BOOLEAN /\ (~e.known => e.severity = "none")
        /\ (e.immediate => e.severity = "critical")
    BY DEF EvaluationOK
  <1>2. \A ev :
          LET k == Stable(s, ev)
          IN  /\ k.intent \in {"silent", "remind"} /\ k.state.status = s.status
              /\ k.state.breach = NoBreach /\ k.state.breaches = 0 /\ k.state.clears = 0
              /\ k.state.cooldown = s.cooldown /\ k.state.quiet \in {0, s.quiet}
              /\ k.state.active = ev
    BY DEF Stable, Result, State
  <1>3. CASE ~e.known
    <2>1. d = Gap(s) /\ e.severity = "none"
      BY <1>1, <1>3 DEF Advance
    <2>2. Keeps(s, e, d, mode)
      BY <2>1 DEF Keeps, Gap, Result, State
    <2>3. QED
      BY <2>2
  <1>4. CASE e.known /\ e.severity = "none"
    <2>1. d = Clear(s, mode)
      BY <1>4 DEF Advance
    <2>2. CASE s.status = "none"
      <3>1. Keeps(s, e, d, mode)
        BY <1>4, <2>1, <2>2 DEF Keeps, Clear, Result, State, Inactive
      <3>2. QED
        BY <3>1
    <2>3. CASE s.status # "none" /\ mode = "manual"
      <3>1. Keeps(s, e, d, mode)
        BY <1>2, <1>4, <2>1, <2>3 DEF Keeps, Clear
      <3>2. QED
        BY <3>1
    <2>4. CASE s.status # "none" /\ mode # "manual" /\ s.clears + 1 < ClearConsecutive
      <3>1. Keeps(s, e, d, mode)
        BY <1>4, <2>1, <2>4 DEF Keeps, Clear, Result, State
      <3>2. QED
        BY <3>1
    <2>5. CASE s.status # "none" /\ mode # "manual" /\ ~(s.clears + 1 < ClearConsecutive)
      <3>1. Resolves(s, e, d, mode)
        BY <1>4, <2>1, <2>5 DEF Resolves, Clear, Result
      <3>2. QED
        BY <3>1
    <2>6. QED
      BY <2>2, <2>3, <2>4, <2>5
  <1>5. CASE e.known /\ e.severity # "none" /\ s.status = "critical"
    <2>1. d = Stable(s, IF e.severity = "critical" THEN e.evidence ELSE s.active)
      BY <1>5 DEF Advance
    <2>2. Keeps(s, e, d, mode)
      BY <1>2, <1>5, <2>1 DEF Keeps
    <2>3. QED
      BY <2>2
  <1>6. CASE e.known /\ e.severity = "warning" /\ s.status = "warning"
    <2>1. d = Stable(s, e.evidence)
      BY <1>6 DEF Advance
    <2>2. Keeps(s, e, d, mode)
      BY <1>2, <1>6, <2>1 DEF Keeps
    <2>3. QED
      BY <2>2
  <1>7. CASE e.known /\ e.severity # "none" /\ s.status # "critical"
             /\ ~(e.severity = "warning" /\ s.status = "warning")
    <2>1. d = Candidate(s, e) /\ e.severity \in {"warning", "critical"}
          /\ s.status \in {"none", "warning"} /\ (e.severity = "warning" => s.status = "none")
      BY <1>7 DEF Advance, Severities
    <2>2. Breaches(s, e) \in 1..2 /\ (Breaches(s, e) = 2 => s.breach.severity = e.severity)
          /\ Required(e) \in 1..2 /\ (Required(e) = 1 => e.immediate)
          /\ (e.severity = "warning" => Required(e) = 2)
      BY <1>1, <2>1 DEF Breaches, Required
    <2>3. CASE Breaches(s, e) < Required(e)
      <3>1. Pends(s, e, d)
        BY <2>1, <2>2, <2>3 DEF Pends, Candidate, Result, State
      <3>2. QED
        BY <3>1
    <2>4. CASE ~(Breaches(s, e) < Required(e)) /\ s.status = "warning"
      <3>1. Raises(s, e, d)
        BY <2>1, <2>2, <2>4 DEF Raises, Candidate, Result, State
      <3>2. QED
        BY <3>1
    <2>5. CASE ~(Breaches(s, e) < Required(e)) /\ s.status = "none"
               /\ s.cooldown > 0 /\ e.severity = "warning"
      <3>1. Pends(s, e, d)
        BY <2>1, <2>2, <2>5 DEF Pends, Candidate, Result, State
      <3>2. QED
        BY <3>1
    <2>6. CASE ~(Breaches(s, e) < Required(e)) /\ s.status = "none"
               /\ ~(s.cooldown > 0 /\ e.severity = "warning")
      <3>1. Raises(s, e, d)
        BY <2>1, <2>2, <2>6 DEF Raises, Candidate, Result, State
      <3>2. QED
        BY <3>1
    <2>7. QED
      BY <2>1, <2>3, <2>4, <2>5, <2>6
  <1>8. QED
    BY <1>1, <1>3, <1>4, <1>5, <1>6, <1>7

-------------------------------------------------------------------------------
(* The row of a decision                                                   *)

\* A resolution mode is one of two, and a row that is good can be read.
LEMMA SnapshotGood ==
    ASSUME NEW r, NEW i, RowGood(r), IncidentGood(r, i)
    PROVE  LET s == Snapshot(r, i)
           IN  /\ s.status = r.severity /\ s.breaches = r.breaches /\ s.clears = r.clears
               /\ s.cooldown = r.cooldown /\ s.quiet = r.quiet /\ s.breach.severity = r.breach
               /\ s.active = IF r.severity = "none" THEN NoBreach ELSE i.evidence
               /\ s.status \in Severities /\ s.breaches \in 0..1 /\ s.clears \in Nat
               /\ s.cooldown \in Nat /\ s.quiet \in Nat
               /\ (s.breach.severity = "none") = (s.breaches = 0)
               /\ s.status = "none" => s.active = NoBreach /\ s.quiet = 0 /\ s.clears = 0
               /\ s.status = "warning" => s.active.severity = "warning" /\ s.cooldown = 0
               /\ Readable(s)
  <1> DEFINE s == Snapshot(r, i)
  <1> USE PolicyAssumption
  <1>1. /\ s.status = r.severity /\ s.breaches = r.breaches /\ s.clears = r.clears
        /\ s.cooldown = r.cooldown /\ s.quiet = r.quiet
        /\ s.active = (IF r.severity = "none" THEN NoBreach ELSE i.evidence)
        /\ s.breach = (IF r.breach = "none" THEN NoBreach ELSE r.evidence)
    BY DEF Snapshot, State, Projected
  <1>2. CASE ~Present(r)
    <2>1. /\ r.severity = "none" /\ r.breach = "none" /\ r.breaches = 0 /\ r.clears = 0
          /\ r.cooldown = 0 /\ r.quiet = 0
      BY <1>2 DEF RowGood, NoRow, Row
    <2>2. s.active = NoBreach /\ s.breach = NoBreach
      BY <1>1, <2>1
    <2> HIDE DEF s
    <2>3. QED
      BY <1>1, <2>1, <2>2 DEF Severities, NoBreach, Readable, s
  <1>3. CASE Present(r)
    <2>1. /\ (r.breaches = 0) = (r.breach = "none")
          /\ r.breach # "none" => r.evidence.severity = r.breach
          /\ r.severity = "critical" => r.breach = "none"
          /\ r.severity = "warning" => r.breach \in {"none", "critical"}
          /\ r.breaches = 0 \/ r.clears = 0
          /\ r.severity = "none" => r.clears = 0
          /\ r.severity # "none" => r.cooldown = 0
      BY <1>3 DEF RowGood, StateChecks
    <2>2. r.severity # "none" => i.evidence.severity = r.severity
      BY DEF IncidentGood, EvidenceOK
    <2>3. /\ r.severity \in Severities /\ r.breach \in Severities /\ r.breaches \in 0..1
          /\ r.clears \in 0..(ClearConsecutive - 1) /\ r.cooldown \in 0..Cooldown
          /\ r.quiet \in 0..Longest
          /\ r.severity = "none" => r.quiet = 0
      BY DEF RowGood
    <2>4. Longest \in Nat
      BY DEF Longest
    <2>5. NoBreach.severity = "none"
      BY DEF NoBreach
    <2>6. s.breach.severity = r.breach
      BY <1>1, <2>1, <2>5
    <2>7. r.breach # "none" => s.breach # NoBreach
      BY <2>5, <2>6
    <2>8. r.severity # "none" => s.active # NoBreach
      BY <1>1, <2>2, <2>5
    <2> HIDE DEF s
    <2>9. (s.breach = NoBreach) = (s.breaches = 0)
      BY <1>1, <2>1, <2>7
    <2>10. (s.breach.severity = "none") = (s.breaches = 0)
      BY <1>1, <2>1, <2>6
    <2>11. /\ s.breaches \in 0..1 /\ s.clears \in 0..(ClearConsecutive - 1)
           /\ s.cooldown <= Cooldown
      BY <1>1, <2>3
    <2>12. s.breaches > 0 => s.clears = 0 /\ s.breach.severity \in {"warning", "critical"}
      BY <1>1, <2>1, <2>3, <2>6 DEF Severities
    <2>13. s.status = "none" => s.active = NoBreach /\ s.clears = 0 /\ s.quiet = 0
      BY <1>1, <2>1, <2>3
    <2>14. s.status # "none" => /\ s.active # NoBreach /\ s.active.severity = s.status
                               /\ s.cooldown = 0
      BY <1>1, <2>1, <2>2, <2>8
    <2>15. s.breaches > 0 /\ s.status # "none" =>
             s.status = "warning" /\ s.breach.severity = "critical"
      BY <1>1, <2>1, <2>3, <2>6 DEF Severities
    <2>16. Readable(s)
      BY <2>9, <2>11, <2>12, <2>13, <2>14, <2>15 DEF Readable
    <2>17. s.cooldown \in Nat /\ s.quiet \in Nat /\ s.clears \in Nat /\ s.status \in Severities
      BY <1>1, <2>3, <2>4
    <2>18. QED
      BY <1>1, <2>6, <2>10, <2>11, <2>13, <2>14, <2>16, <2>17 DEF s
  <1>4. QED
    BY <1>2, <1>3

\* An active severity is of a row that is there, whose incident is not resolved.
LEMMA Active ==
    ASSUME NEW r, NEW i, RowGood(r), IncidentGood(r, i), r.severity # "none"
    PROVE  /\ Present(r) /\ StateChecks(r) /\ r.generation >= 1
           /\ i.generation = r.generation /\ i.severity = r.severity /\ i.status # "resolved"
           /\ r.breach = "none" => r.evidence = i.evidence
           /\ EvidenceOK(alert, i.evidence, r.severity)
  <1>1. Present(r)
    BY DEF RowGood, NoRow, Row
  <1>2. QED
    BY <1>1 DEF RowGood, IncidentGood, Consistent, StateChecks, Projected

\* The one decision that the tables refuse: a pending escalation given up.
GivenUp(r, e) == r.severity = "warning" /\ r.breach = "critical" /\ e.severity = "none"

\* The columns of the row that is written, of the four decisions.
LEMMA KeepsRow ==
    ASSUME NEW r, NEW i, NEW e, NEW d, NEW mode, RowGood(r), IncidentGood(r, i),
           EvaluationOK(alert, e), Present(r) \/ e.severity # "none",
           Keeps(Snapshot(r, i), e, d, mode)
    PROVE  LET n == NextRow(r, e, d)
           IN  /\ n.severity = r.severity /\ n.breach = "none" /\ n.breaches = 0
               /\ n.generation = r.generation /\ Present(r) /\ n.cooldown = r.cooldown
               /\ n.quiet \in {0, r.quiet}
               /\ n.clears = 0 \/ /\ n.clears = r.clears + 1 /\ n.clears < ClearConsecutive
                                  /\ e.known /\ e.severity = "none" /\ mode # "manual"
                                  /\ r.severity # "none"
               /\ r.severity = "none" => n.evidence = r.evidence
               /\ e.severity # "none" => r.severity # "none"
               /\ r.severity # "none" /\ e.severity = r.severity => n.evidence = e.evidence
               /\ r.severity # "none" /\ e.severity # r.severity /\ ~GivenUp(r, e) =>
                    n.evidence = i.evidence
               /\ GivenUp(r, e) => n.evidence = r.evidence
  <1> DEFINE s == Snapshot(r, i)
             n == NextRow(r, e, d)
  <1>1. /\ s.status = r.severity /\ s.breaches = r.breaches /\ s.clears = r.clears
        /\ s.cooldown = r.cooldown /\ s.quiet = r.quiet /\ s.breach.severity = r.breach
        /\ s.active = (IF r.severity = "none" THEN NoBreach ELSE i.evidence)
    BY SnapshotGood
  <1> HIDE DEF s
  <1>2. /\ d.intent \in {"silent", "remind"} /\ d.state.status = r.severity
        /\ d.state.breach = NoBreach /\ d.state.breaches = 0 /\ d.state.cooldown = r.cooldown
        /\ d.state.quiet \in {0, r.quiet} /\ (e.severity # "none" => r.severity # "none")
        /\ e.severity = "critical" => r.severity = "critical"
        /\ d.state.active = (IF e.severity # "none" /\ e.severity = r.severity
                             THEN e.evidence ELSE s.active)
        /\ \/ d.state.clears = 0
           \/ /\ d.state.clears = r.clears + 1 /\ r.clears + 1 < ClearConsecutive
              /\ e.known /\ e.severity = "none" /\ mode # "manual" /\ r.severity # "none"
    BY <1>1 DEF Keeps, s
  <1>3. Present(r)
    BY <1>2, Active
  <1>4. /\ n.severity = d.state.status /\ n.breach = d.state.breach.severity
        /\ n.breaches = d.state.breaches /\ n.clears = d.state.clears
        /\ n.cooldown = d.state.cooldown /\ n.quiet = d.state.quiet
        /\ n.evidence = PersistedEvidence(r, e, d.state)
        /\ n.generation = (IF Present(r) THEN r.generation ELSE 0)
                            + IF d.intent = "open" THEN 1 ELSE 0
    BY DEF NextRow, Row
  <1>5. n.generation = r.generation
    BY <1>2, <1>3, <1>4 DEF RowGood
  <1>6. n.evidence = IF e.severity = "none" THEN r.evidence ELSE d.state.active
    BY <1>2, <1>4 DEF PersistedEvidence
  <1>7. r.severity # "none" /\ e.severity = "none" /\ ~GivenUp(r, e) => r.evidence = i.evidence
    BY Active DEF GivenUp, StateChecks, RowGood, Severities
  <1>8. NoBreach.severity = "none"
    BY DEF NoBreach
  <1> HIDE DEF n
  <1>9. /\ n.severity = r.severity /\ n.breach = "none" /\ n.breaches = 0
        /\ n.cooldown = r.cooldown /\ n.quiet \in {0, r.quiet}
    BY <1>2, <1>4, <1>8
  <1>10. n.clears = 0 \/ /\ n.clears = r.clears + 1 /\ n.clears < ClearConsecutive
                         /\ e.known /\ e.severity = "none" /\ mode # "manual"
                         /\ r.severity # "none"
    BY <1>2, <1>4
  <1>11. /\ r.severity = "none" => n.evidence = r.evidence
         /\ r.severity # "none" /\ e.severity = r.severity => n.evidence = e.evidence
    BY <1>2, <1>6
  <1>12. r.severity # "none" /\ e.severity # r.severity /\ ~GivenUp(r, e) =>
           n.evidence = i.evidence
    BY <1>1, <1>2, <1>6, <1>7
  <1>13. GivenUp(r, e) => n.evidence = r.evidence
    BY <1>6 DEF GivenUp
  <1>14. QED
    BY <1>2, <1>3, <1>5, <1>9, <1>10, <1>11, <1>12, <1>13 DEF n

\* A breach that waits is stored with its own evidence.
LEMMA PendsRow ==
    ASSUME NEW r, NEW i, NEW e, NEW d, RowGood(r), IncidentGood(r, i), EvaluationOK(alert, e),
           Pends(Snapshot(r, i), e, d)
    PROVE  LET n == NextRow(r, e, d)
           IN  /\ d.intent = "silent"
               /\ e.severity \in {"warning", "critical"} /\ r.severity # "critical"
               /\ e.severity = "warning" => r.severity = "none"
               /\ n.severity = r.severity /\ n.breach = e.severity /\ n.breaches = 1
               /\ n.clears = 0 /\ n.cooldown = r.cooldown /\ n.quiet = r.quiet
               /\ n.generation = IF Present(r) THEN r.generation ELSE 0
               /\ n.evidence = e.evidence /\ EvidenceOK(alert, e.evidence, e.severity)
  <1> DEFINE s == Snapshot(r, i)
             n == NextRow(r, e, d)
  <1>1. s.status = r.severity /\ s.cooldown = r.cooldown /\ s.quiet = r.quiet
    BY SnapshotGood
  <1> HIDE DEF s
  <1>2. /\ d.intent = "silent" /\ e.severity # "none" /\ r.severity # "critical"
        /\ e.severity = "warning" => r.severity = "none"
    BY <1>1 DEF Pends, s
  <1>3. /\ d.state.status = r.severity /\ d.state.breach = e.evidence /\ d.state.breaches = 1
        /\ d.state.clears = 0 /\ d.state.cooldown = r.cooldown /\ d.state.quiet = r.quiet
    BY <1>1 DEF Pends, s
  <1>4. EvidenceOK(alert, e.evidence, e.severity) /\ e.severity \in Severities
    BY <1>2 DEF EvaluationOK
  <1>5. e.evidence.severity = e.severity /\ e.evidence # NoBreach
    BY <1>2, <1>4 DEF EvidenceOK, NoBreach
  <1>6. /\ n.severity = d.state.status /\ n.breach = d.state.breach.severity
        /\ n.breaches = d.state.breaches /\ n.clears = d.state.clears
        /\ n.cooldown = d.state.cooldown /\ n.quiet = d.state.quiet
        /\ n.evidence = PersistedEvidence(r, e, d.state)
        /\ n.generation = (IF Present(r) THEN r.generation ELSE 0)
                            + IF d.intent = "open" THEN 1 ELSE 0
    BY DEF NextRow, Row
  <1>7. n.evidence = e.evidence
    BY <1>2, <1>3, <1>5, <1>6 DEF PersistedEvidence
  <1>8. n.generation = IF Present(r) THEN r.generation ELSE 0
    BY <1>2, <1>6 DEF RowGood
  <1> HIDE DEF n
  <1>9. QED
    BY <1>2, <1>3, <1>4, <1>5, <1>6, <1>7, <1>8 DEF n, Severities

\* An incident that is raised has the evidence of the confirming evaluation.
LEMMA RaisesRow ==
    ASSUME NEW r, NEW i, NEW e, NEW d, RowGood(r), IncidentGood(r, i), EvaluationOK(alert, e),
           Raises(Snapshot(r, i), e, d)
    PROVE  LET n == NextRow(r, e, d)
           IN  /\ e.severity \in {"warning", "critical"}
               /\ \/ d.intent = "open" /\ r.severity = "none"
                  \/ d.intent = "escalate" /\ r.severity = "warning" /\ e.severity = "critical"
               /\ r.breach = e.severity \/ e.immediate
               /\ e.severity = "warning" => r.cooldown = 0
               /\ n.severity = e.severity /\ n.breach = "none" /\ n.breaches = 0
               /\ n.clears = 0 /\ n.cooldown = 0 /\ n.quiet = 0
               /\ n.generation = (IF Present(r) THEN r.generation ELSE 0)
                                   + IF d.intent = "open" THEN 1 ELSE 0
               /\ n.evidence = e.evidence /\ EvidenceOK(alert, e.evidence, e.severity)
  <1> DEFINE s == Snapshot(r, i)
             n == NextRow(r, e, d)
  <1>1. /\ s.status = r.severity /\ s.cooldown = r.cooldown /\ s.breach.severity = r.breach
        /\ s.status = "warning" => s.cooldown = 0
    BY SnapshotGood
  <1> HIDE DEF s
  <1>2. /\ e.severity # "none" /\ r.severity # "critical"
        /\ \/ d.intent = "open" /\ r.severity = "none"
           \/ d.intent = "escalate" /\ r.severity = "warning" /\ e.severity = "critical"
        /\ r.breach = e.severity \/ e.immediate
        /\ e.severity = "warning" => r.cooldown = 0
    BY <1>1 DEF Raises, s
  <1>3. /\ d.state.status = e.severity /\ d.state.active = e.evidence
        /\ d.state.breach = NoBreach /\ d.state.breaches = 0 /\ d.state.clears = 0
        /\ d.state.cooldown = 0 /\ d.state.quiet = 0
    BY <1>1 DEF Raises, s
  <1>4. EvidenceOK(alert, e.evidence, e.severity) /\ e.severity \in Severities
    BY <1>2 DEF EvaluationOK
  <1>5. NoBreach.severity = "none"
    BY DEF NoBreach
  <1>6. /\ n.severity = d.state.status /\ n.breach = d.state.breach.severity
        /\ n.breaches = d.state.breaches /\ n.clears = d.state.clears
        /\ n.cooldown = d.state.cooldown /\ n.quiet = d.state.quiet
        /\ n.evidence = PersistedEvidence(r, e, d.state)
        /\ n.generation = (IF Present(r) THEN r.generation ELSE 0)
                            + IF d.intent = "open" THEN 1 ELSE 0
    BY DEF NextRow, Row
  <1>7. n.evidence = e.evidence
    BY <1>2, <1>3, <1>6 DEF PersistedEvidence
  <1> HIDE DEF n
  <1>8. QED
    BY <1>2, <1>3, <1>4, <1>5, <1>6, <1>7 DEF n, Severities

\* A resolution was due: the row had all clears but one.
LEMMA ResolvesRow ==
    ASSUME NEW r, NEW i, NEW e, NEW d, NEW mode, RowGood(r), IncidentGood(r, i),
           Resolves(Snapshot(r, i), e, d, mode)
    PROVE  LET n == NextRow(r, e, d)
           IN  /\ d.intent = "resolve" /\ e.known /\ e.severity = "none" /\ mode # "manual"
               /\ r.severity # "none" /\ r.clears = ClearConsecutive - 1 /\ r.clears > 0
               /\ n.severity = "none" /\ n.breach = "none" /\ n.breaches = 0
               /\ n.clears = 0 /\ n.cooldown = Cooldown /\ n.quiet = 0
               /\ Present(r) /\ n.generation = r.generation /\ n.evidence = r.evidence
  <1> DEFINE s == Snapshot(r, i)
             n == NextRow(r, e, d)
  <1>1. s.status = r.severity /\ s.clears = r.clears
    BY SnapshotGood
  <1> HIDE DEF s
  <1>2. /\ d.intent = "resolve" /\ e.known /\ e.severity = "none" /\ mode # "manual"
        /\ r.severity # "none" /\ r.clears + 1 >= ClearConsecutive
        /\ d.state = Inactive(Cooldown)
    BY <1>1 DEF Resolves, s
  <1>3. r.clears = ClearConsecutive - 1 /\ r.clears > 0
    BY <1>2, PolicyAssumption DEF RowGood
  <1>4. /\ d.state.status = "none" /\ d.state.breach = NoBreach /\ d.state.breaches = 0
        /\ d.state.clears = 0 /\ d.state.cooldown = Cooldown /\ d.state.quiet = 0
    BY <1>2 DEF Inactive, State
  <1>5. NoBreach.severity = "none"
    BY DEF NoBreach
  <1>6. /\ n.severity = d.state.status /\ n.breach = d.state.breach.severity
        /\ n.breaches = d.state.breaches /\ n.clears = d.state.clears
        /\ n.cooldown = d.state.cooldown /\ n.quiet = d.state.quiet
        /\ n.evidence = PersistedEvidence(r, e, d.state)
        /\ n.generation = (IF Present(r) THEN r.generation ELSE 0)
                            + IF d.intent = "open" THEN 1 ELSE 0
    BY DEF NextRow, Row
  <1>7. n.evidence = r.evidence
    BY <1>2, <1>6 DEF PersistedEvidence
  <1>8. Present(r)
    BY <1>2, Active
  <1>9. n.generation = r.generation
    BY <1>2, <1>6, <1>8 DEF RowGood
  <1> HIDE DEF n
  <1>10. QED
    BY <1>2, <1>3, <1>4, <1>5, <1>6, <1>7, <1>8, <1>9 DEF n

-------------------------------------------------------------------------------
(* The batch of a decision                                                 *)

\* What the batch of a decision leaves.
Persists(r, i, e, d) ==
    LET n == NextRow(r, e, d)
        j == NextIncident(i, n, e, d)
    IN  Accepted(r, i, e, n, j, NextEvent(j, d)) /\ RowGood(n) /\ IncidentGood(n, j)

\* The intents are different, and so are their events.
LEMMA EventOf ==
    ASSUME NEW j, NEW d
    PROVE  LET v == NextEvent(j, d)
           IN  /\ d.intent = "silent" => v = NoMail.last
               /\ d.intent = "remind" => v = Event("reminder", j.severity, j.status)
               /\ d.intent = "open" => v = Event("opened", j.severity, "open")
               /\ d.intent = "escalate" => v = Event("escalated", "critical", j.status)
               /\ d.intent = "resolve" => v = Event("resolved", j.severity, "resolved")
  BY DEF NextEvent

\* Every intent has its incident.
LEMMA IncidentOf ==
    ASSUME NEW i, NEW n, NEW e, NEW d
    PROVE  LET j == NextIncident(i, n, e, d)
           IN  /\ d.intent = "open" => j = Incident(n.generation, n.severity, n.evidence, "open")
               /\ d.intent = "escalate" =>
                    j = Incident(i.generation, "critical", n.evidence, i.status)
               /\ d.intent = "resolve" =>
                    j = Incident(i.generation, i.severity, i.evidence, "resolved")
               /\ d.intent \in {"silent", "remind"} =>
                    j = IF n.severity # "none" /\ e.severity = n.severity
                        THEN Incident(i.generation, i.severity, n.evidence, i.status) ELSE i
  BY DEF NextIncident

\* A decision that keeps the severity is accepted, and leaves a good row and incident.
LEMMA KeepsBatch ==
    ASSUME NEW r, NEW i, NEW e, NEW d, NEW mode, RowGood(r), IncidentGood(r, i),
           alert \in Rules, mode = ResolutionMode(alert), ~GivenUp(r, e),
           EvaluationOK(alert, e), Present(r) \/ e.severity # "none",
           Keeps(Snapshot(r, i), e, d, mode)
    PROVE  Persists(r, i, e, d)
  <1> DEFINE n == NextRow(r, e, d)
             j == NextIncident(i, n, e, d)
             v == NextEvent(j, d)
  <1>1. /\ n.severity = r.severity /\ n.breach = "none" /\ n.breaches = 0
        /\ n.generation = r.generation /\ Present(r) /\ n.cooldown = r.cooldown
        /\ n.quiet \in {0, r.quiet}
        /\ n.clears = 0 \/ /\ n.clears = r.clears + 1 /\ n.clears < ClearConsecutive
                           /\ e.known /\ e.severity = "none" /\ mode # "manual"
                           /\ r.severity # "none"
        /\ r.severity = "none" => n.evidence = r.evidence
        /\ r.severity # "none" /\ e.severity = r.severity => n.evidence = e.evidence
        /\ r.severity # "none" /\ e.severity # r.severity => n.evidence = i.evidence
    BY KeepsRow
  <1>2. d.intent \in {"silent", "remind"} /\ (d.intent = "remind" => r.severity # "none")
    BY SnapshotGood DEF Keeps
  <1> HIDE DEF n
  <1>3. StateChecks(r) /\ Present(n)
    BY <1>1 DEF RowGood, Present
  <1>4. r.severity # "none" => EvidenceOK(alert, n.evidence, r.severity)
    BY <1>1, Active DEF EvaluationOK
  <1>5. r.severity # "none" =>
          /\ r.generation >= 1 /\ i.generation = r.generation /\ i.severity = r.severity
          /\ i.status # "resolved"
    BY Active
  <1>6. j = IF n.severity # "none" /\ e.severity = n.severity
            THEN Incident(i.generation, i.severity, n.evidence, i.status) ELSE i
    BY <1>2, IncidentOf
  <1>7. /\ j.generation = i.generation /\ j.severity = i.severity /\ j.status = i.status
        /\ n.severity = "none" => j = i
        /\ n.severity # "none" => j.evidence = n.evidence
    BY <1>1, <1>6 DEF Incident
  <1>8. \/ v = NoMail.last
        \/ v = Event("reminder", j.severity, j.status) /\ r.severity # "none"
    BY <1>2, EventOf
  <1> HIDE DEF j, v
  <1>9. StateChecks(n)
    BY <1>1, <1>3, <1>4, <1>5 DEF StateChecks, EvidenceOK, Manual
  <1>10. RowGood(n)
    <2>1. /\ r.severity \in Severities /\ r.clears \in 0..(ClearConsecutive - 1)
          /\ r.generation \in Int /\ r.generation >= -1 /\ r.cooldown \in 0..Cooldown
          /\ r.quiet \in 0..Longest
          /\ r.severity = "none" => r.quiet = 0
      BY DEF RowGood
    <2>2. n.clears \in 0..(ClearConsecutive - 1)
      BY <1>1, <2>1, PolicyAssumption
    <2>3. n.quiet \in 0..Longest
      BY <1>1, <2>1, PolicyAssumption DEF Longest
    <2>4. QED
      BY <1>1, <1>3, <1>9, <2>1, <2>2, <2>3 DEF RowGood, Severities
  <1>11. IncidentGood(n, j)
    <2>1. CASE n.severity = "none"
      BY <1>1, <1>7, <2>1 DEF IncidentGood, Consistent
    <2>2. CASE n.severity # "none"
      BY <1>1, <1>4, <1>5, <1>7, <2>2 DEF IncidentGood, Consistent, Projected
    <2>3. QED
      BY <2>1, <2>2
  <1>12. TransitionGuard(r, n, i)
    BY <1>1 DEF TransitionGuard, RowGood, Severities
  <1>13. CounterGuard(r, n)
    <2>1. CASE n.clears = 0
      BY <1>1, <2>1 DEF CounterGuard
    <2>2. CASE n.clears # 0
      <3>1. r.breach = "none"
        BY <1>1, <1>3, <2>2 DEF GivenUp, StateChecks, RowGood, Severities
      <3>2. r.breaches = 0
        BY <1>3, <3>1 DEF StateChecks
      <3>3. ~Manual
        BY <1>1, <2>2 DEF Manual
      <3>4. QED
        BY <1>1, <2>2, <3>2, <3>3 DEF CounterGuard
    <2>3. QED
      BY <2>1, <2>2
  <1>14. j # i => IncidentChecks(i, j) /\ IncidentGuard(n, j) /\ IncidentTransition(i, j)
    <2>1. SUFFICES ASSUME j # i
                   PROVE  IncidentChecks(i, j) /\ IncidentGuard(n, j) /\ IncidentTransition(i, j)
      OBVIOUS
    <2>2. n.severity # "none" /\ j.evidence = n.evidence /\ i.status # "resolved"
      BY <1>1, <1>5, <1>7, <2>1
    <2>3. Storable(alert, j.evidence)
      BY <1>1, <1>4, <2>2 DEF EvidenceOK
    <2>4. QED
      BY <1>1, <1>5, <1>7, <2>2, <2>3 DEF IncidentChecks, IncidentGuard, IncidentTransition
  <1>15. v # NoMail.last => EventGuard(n, j, v)
    BY <1>1, <1>5, <1>7, <1>8 DEF EventGuard, Event
  <1>16. Accepted(r, i, e, n, j, v)
    BY <1>1, <1>9, <1>12, <1>13, <1>14, <1>15 DEF Accepted
  <1>17. QED
    BY <1>10, <1>11, <1>16 DEF Persists, n, j, v

\* So is one that lets a breach wait, of a row that is there or not;
LEMMA PendsBatch ==
    ASSUME NEW r, NEW i, NEW e, NEW d, RowGood(r), IncidentGood(r, i), alert \in Rules,
           EvaluationOK(alert, e), Pends(Snapshot(r, i), e, d)
    PROVE  Persists(r, i, e, d)
  <1> DEFINE n == NextRow(r, e, d)
             j == NextIncident(i, n, e, d)
             v == NextEvent(j, d)
  <1>1. /\ d.intent = "silent"
        /\ e.severity \in {"warning", "critical"} /\ r.severity # "critical"
        /\ e.severity = "warning" => r.severity = "none"
        /\ n.severity = r.severity /\ n.breach = e.severity /\ n.breaches = 1
        /\ n.clears = 0 /\ n.cooldown = r.cooldown /\ n.quiet = r.quiet
        /\ n.generation = IF Present(r) THEN r.generation ELSE 0
        /\ n.evidence = e.evidence /\ EvidenceOK(alert, e.evidence, e.severity)
    BY PendsRow
  <1> HIDE DEF n
  <1>2. r.severity # "none" =>
          /\ Present(r) /\ r.generation >= 1 /\ i.generation = r.generation
          /\ i.severity = r.severity /\ i.status # "resolved" /\ r.cooldown = 0
          /\ EvidenceOK(alert, i.evidence, r.severity)
    BY Active DEF StateChecks
  <1>3. e.severity # r.severity
    BY <1>1
  <1>4. j = i
    BY <1>1, <1>3, IncidentOf
  <1>5. v = NoMail.last
    BY <1>1, EventOf
  <1> HIDE DEF j, v
  <1>6. ~Present(r) => r = NoRow
    BY DEF RowGood
  <1>7. r.generation \in Int
    BY DEF RowGood
  <1>8. Present(n) /\ n.generation \in Int /\ n.generation >= 0
    BY <1>1, <1>7 DEF Present
  <1>9. StateChecks(n)
    BY <1>1, <1>2 DEF StateChecks, EvidenceOK, Manual
  <1>10. RowGood(n)
    BY <1>1, <1>8, <1>9, PolicyAssumption DEF RowGood, EvidenceOK, Severities
  <1>11. IncidentGood(n, i)
    <2>1. CASE Present(r)
      BY <1>1, <1>2, <2>1 DEF IncidentGood, Consistent
    <2>2. CASE ~Present(r)
      <3>1. r.severity = "none" /\ r.generation = -1
        BY <1>6, <2>2 DEF NoRow, Row
      <3>2. QED
        BY <1>1, <2>2, <3>1 DEF IncidentGood, Consistent
    <2>3. QED
      BY <2>1, <2>2
  <1>12. CASE Present(r)
    <2>1. TransitionGuard(r, n, i)
      BY <1>1, <1>7, <1>12 DEF TransitionGuard, RowGood, Severities
    <2>2. CounterGuard(r, n)
      BY <1>1 DEF CounterGuard
    <2>3. Accepted(r, i, e, n, j, v)
      BY <1>4, <1>5, <1>9, <1>12, <2>1, <2>2 DEF Accepted
    <2>4. QED
      BY <1>4, <1>10, <1>11, <2>3 DEF Persists, n, j, v
  <1>13. CASE ~Present(r)
    <2>1. r.severity = "none"
      BY <1>6, <1>13 DEF NoRow, Row
    <2>2. StateChecks(Inserted(n, e)) /\ InsertGuard(Inserted(n, e))
      BY <1>1 DEF StateChecks, InsertGuard, Inserted, Row, EvidenceOK
    <2>3. Accepted(r, i, e, n, j, v)
      BY <1>1, <1>4, <1>5, <1>9, <1>13, <2>1, <2>2 DEF Accepted
    <2>4. QED
      BY <1>4, <1>10, <1>11, <2>3 DEF Persists, n, j, v
  <1>14. QED
    BY <1>12, <1>13

\* one that opens or escalates;
LEMMA RaisesBatch ==
    ASSUME NEW r, NEW i, NEW e, NEW d, RowGood(r), IncidentGood(r, i), alert \in Rules,
           EvaluationOK(alert, e), Raises(Snapshot(r, i), e, d)
    PROVE  Persists(r, i, e, d)
  <1> DEFINE n == NextRow(r, e, d)
             j == NextIncident(i, n, e, d)
             v == NextEvent(j, d)
  <1>1. /\ e.severity \in {"warning", "critical"}
        /\ \/ d.intent = "open" /\ r.severity = "none"
           \/ d.intent = "escalate" /\ r.severity = "warning" /\ e.severity = "critical"
        /\ r.breach = e.severity \/ e.immediate
        /\ e.severity = "warning" => r.cooldown = 0
        /\ n.severity = e.severity /\ n.breach = "none" /\ n.breaches = 0
        /\ n.clears = 0 /\ n.cooldown = 0 /\ n.quiet = 0
        /\ n.generation = (IF Present(r) THEN r.generation ELSE 0)
                            + IF d.intent = "open" THEN 1 ELSE 0
        /\ n.evidence = e.evidence /\ EvidenceOK(alert, e.evidence, e.severity)
    BY RaisesRow
  <1>2. e.immediate => e.severity = "critical" /\ ImmediateEvidence(e.evidence)
    BY DEF EvaluationOK, ImmediateEvidence
  <1> HIDE DEF n
  <1>3. r.severity # "none" =>
          /\ Present(r) /\ r.generation >= 1 /\ i.generation = r.generation
          /\ i.severity = r.severity /\ i.status # "resolved"
    BY Active
  <1>4. ~Present(r) => r = NoRow
    BY DEF RowGood
  <1>5. r.generation \in Int /\ (Present(r) => r.generation >= 0)
    BY DEF RowGood, Present
  <1>6. n.generation \in Int /\ n.generation >= 1 /\ Present(n)
    BY <1>1, <1>3, <1>5 DEF Present
  <1>7. IF d.intent = "open"
        THEN j = Incident(n.generation, n.severity, n.evidence, "open")
        ELSE j = Incident(i.generation, "critical", n.evidence, i.status)
    BY <1>1, IncidentOf
  <1>8. IF d.intent = "open" THEN v = Event("opened", j.severity, "open")
                             ELSE v = Event("escalated", "critical", j.status)
    BY <1>1, EventOf
  <1>9. d.intent = "escalate" => n.generation = r.generation /\ i.generation = n.generation
    BY <1>1, <1>3, <1>5
  <1>10. /\ j.generation = n.generation /\ j.severity = n.severity /\ j.evidence = n.evidence
         /\ j.status # "resolved" /\ j.status \in {"open", "acknowledged", "resolved"}
         /\ d.intent = "open" => j.status = "open"
         /\ d.intent = "escalate" => j.status = i.status /\ j.severity = "critical"
    BY <1>1, <1>3, <1>7, <1>9 DEF Incident, IncidentGood
  <1> HIDE DEF j, v
  <1>11. StateChecks(n)
    BY <1>1, <1>6 DEF StateChecks, EvidenceOK
  <1>12. RowGood(n)
    BY <1>1, <1>6, <1>11, PolicyAssumption DEF RowGood, Severities, Longest
  <1>13. IncidentGood(n, j)
    BY <1>1, <1>10 DEF IncidentGood, Consistent, Projected, Severities
  <1>14. IncidentChecks(i, j) /\ IncidentGuard(n, j)
    BY <1>1, <1>10 DEF IncidentChecks, IncidentGuard, EvidenceOK
  <1>15. IncidentTransition(i, j)
    <2>1. CASE d.intent = "open"
      <3>1. i.generation # n.generation
        <4>1. CASE Present(r) /\ r.generation >= 1
          BY <1>1, <1>5, <2>1, <4>1 DEF IncidentGood, Consistent
        <4>2. CASE ~(Present(r) /\ r.generation >= 1)
          <5>1. r.generation <= 0 /\ r.severity = "none"
            BY <1>1, <1>4, <1>5, <2>1, <4>2 DEF NoRow, Row
          <5>2. i = NoIncident
            BY <5>1 DEF IncidentGood, Consistent
          <5>3. QED
            BY <1>6, <5>2 DEF NoIncident, Incident
        <4>3. QED
          BY <4>1, <4>2
      <3>2. QED
        BY <1>10, <3>1 DEF IncidentTransition
    <2>2. CASE d.intent = "escalate"
      BY <1>1, <1>3, <1>10, <2>2 DEF IncidentTransition
    <2>3. QED
      BY <1>1, <2>1, <2>2
  <1>16. EventGuard(n, j, v)
    BY <1>1, <1>8, <1>10 DEF EventGuard, Event
  <1>17. CASE Present(r)
    <2>1. r.breach = e.severity => r.breaches = 1
      BY <1>1, <1>17 DEF RowGood, StateChecks
    <2>2. n.generation = r.generation
            + IF r.severity = "none" /\ n.severity # "none" THEN 1 ELSE 0
      BY <1>1, <1>17
    <2>3. TransitionGuard(r, n, i)
      <3>1. CASE e.severity = "warning"
        BY <1>1, <1>2, <2>1, <2>2, <3>1 DEF TransitionGuard
      <3>2. CASE e.severity = "critical"
        <4>1. r.severity # "critical" /\ n.severity = "critical"
          BY <1>1, <3>2
        <4>2. \/ r.breach = "critical" /\ r.breaches = 1
              \/ ImmediateEvidence(n.evidence)
          BY <1>1, <1>2, <2>1, <3>2
        <4>3. QED
          BY <1>1, <2>2, <4>1, <4>2 DEF TransitionGuard
      <3>3. QED
        BY <1>1, <3>1, <3>2
    <2>4. CounterGuard(r, n)
      BY <1>1 DEF CounterGuard
    <2>5. Accepted(r, i, e, n, j, v)
      BY <1>11, <1>14, <1>15, <1>16, <1>17, <2>3, <2>4 DEF Accepted
    <2>6. QED
      BY <1>12, <1>13, <2>5 DEF Persists, n, j, v
  <1>18. CASE ~Present(r)
    <2>1. r.severity = "none" /\ r.breach = "none" /\ d.intent = "open" /\ e.immediate
      BY <1>1, <1>4, <1>18 DEF NoRow, Row
    <2>2. n.severity = "critical" /\ e.severity = "critical" /\ n.generation = 1
      BY <1>1, <1>2, <1>18, <2>1
    <2>3. StateChecks(Inserted(n, e)) /\ InsertGuard(Inserted(n, e))
      BY <1>1 DEF StateChecks, InsertGuard, Inserted, Row, EvidenceOK
    <2>4. TransitionGuard(Inserted(n, e), n, i)
      BY <1>1, <2>2 DEF TransitionGuard, Inserted, Row
    <2>5. Accepted(r, i, e, n, j, v)
      BY <1>11, <1>14, <1>15, <1>16, <1>18, <2>3, <2>4 DEF Accepted
    <2>6. QED
      BY <1>12, <1>13, <2>5 DEF Persists, n, j, v
  <1>19. QED
    BY <1>17, <1>18

\* and one that resolves.
LEMMA ResolvesBatch ==
    ASSUME NEW r, NEW i, NEW e, NEW d, NEW mode, RowGood(r), IncidentGood(r, i),
           alert \in Rules, mode = ResolutionMode(alert), Resolves(Snapshot(r, i), e, d, mode)
    PROVE  Persists(r, i, e, d)
  <1> DEFINE n == NextRow(r, e, d)
             j == NextIncident(i, n, e, d)
             v == NextEvent(j, d)
  <1>1. /\ d.intent = "resolve" /\ e.known /\ e.severity = "none" /\ mode # "manual"
        /\ r.severity # "none" /\ r.clears = ClearConsecutive - 1 /\ r.clears > 0
        /\ n.severity = "none" /\ n.breach = "none" /\ n.breaches = 0
        /\ n.clears = 0 /\ n.cooldown = Cooldown /\ n.quiet = 0
        /\ Present(r) /\ n.generation = r.generation /\ n.evidence = r.evidence
    BY ResolvesRow
  <1> HIDE DEF n
  <1>2. /\ StateChecks(r) /\ r.generation >= 1
        /\ i.generation = r.generation /\ i.severity = r.severity /\ i.status # "resolved"
        /\ EvidenceOK(alert, i.evidence, r.severity)
    BY <1>1, Active
  <1>3. j = Incident(i.generation, i.severity, i.evidence, "resolved")
    BY <1>1, IncidentOf
  <1>4. v = Event("resolved", j.severity, "resolved")
    BY <1>1, EventOf
  <1>5. /\ j.generation = i.generation /\ j.severity = i.severity /\ j.evidence = i.evidence
        /\ j.status = "resolved"
    BY <1>3 DEF Incident
  <1> HIDE DEF j, v
  <1>6. ~Manual
    BY <1>1 DEF Manual
  <1>7. StateChecks(n)
    BY <1>1, <1>2 DEF StateChecks
  <1>8. Present(n) /\ r.generation \in Int
    BY <1>1 DEF Present, RowGood
  <1>9. RowGood(n)
    BY <1>1, <1>2, <1>7, <1>8, PolicyAssumption DEF RowGood, Severities, Longest
  <1>10. IncidentGood(n, j)
    BY <1>1, <1>2, <1>5, <1>8 DEF IncidentGood, Consistent
  <1>11. IncidentChecks(i, j) /\ IncidentGuard(n, j) /\ IncidentTransition(i, j)
    BY <1>2, <1>5, <1>6 DEF IncidentChecks, IncidentGuard, IncidentTransition, EvidenceOK
  <1>12. EventGuard(n, j, v)
    BY <1>1, <1>4, <1>5 DEF EventGuard, Event
  <1>13. TransitionGuard(r, n, i)
    BY <1>1, <1>6, <1>8 DEF TransitionGuard
  <1>14. CounterGuard(r, n)
    BY <1>1 DEF CounterGuard
  <1>15. Accepted(r, i, e, n, j, v)
    BY <1>1, <1>7, <1>11, <1>12, <1>13, <1>14 DEF Accepted
  <1>16. QED
    BY <1>9, <1>10, <1>15 DEF Persists, n, j, v

-------------------------------------------------------------------------------
(* Every decision                                                          *)

\* The decision of a row, and which of the four it is.
LEMMA Decided ==
    ASSUME NEW r, NEW i, NEW e, NEW mode, RowGood(r), IncidentGood(r, i), EvaluationOK(alert, e)
    PROVE  LET s == Snapshot(r, i)
               d == Advance(s, e, mode)
           IN  /\ Keeps(s, e, d, mode) \/ Pends(s, e, d) \/ Raises(s, e, d)
                    \/ Resolves(s, e, d, mode)
               /\ GivenUp(r, e) => Keeps(s, e, d, mode)
  <1> DEFINE s == Snapshot(r, i)
             d == Advance(s, e, mode)
  <1>1. e.severity \in Severities
    BY DEF EvaluationOK
  <1>2. Keeps(s, e, d, mode) \/ Pends(s, e, d) \/ Raises(s, e, d) \/ Resolves(s, e, d, mode)
    <2> HIDE DEF s
    <2>1. /\ s.status \in Severities /\ s.breaches \in 0..1 /\ s.clears \in Nat
          /\ s.cooldown \in Nat /\ s.quiet \in Nat
          /\ (s.breach.severity = "none") = (s.breaches = 0)
          /\ s.status = "none" => s.active = NoBreach /\ s.quiet = 0 /\ s.clears = 0
          /\ s.status = "warning" => s.active.severity = "warning" /\ s.cooldown = 0
      BY SnapshotGood DEF s
    <2>2. QED
      BY <1>1, <2>1, FourDecisions
  <1> HIDE DEF s, d
  <1>3. ASSUME GivenUp(r, e), ~Keeps(s, e, d, mode) PROVE FALSE
    <2>1. Resolves(s, e, d, mode)
      BY <1>2, <1>3 DEF GivenUp, Pends, Raises
    <2>2. r.clears > 0
      BY <2>1, ResolvesRow DEF s
    <2>3. StateChecks(r)
      BY <1>3, Active DEF GivenUp
    <2>4. QED
      BY <1>3, <2>2, <2>3 DEF GivenUp, StateChecks
  <1>4. QED
    BY <1>2, <1>3 DEF s, d

\* What the repository is ready to persist is every decision there is.
LEMMA DecisionsWellFormed ==
    ASSUME NEW r, NEW i, NEW e, NEW d, NEW mode, RowGood(r), IncidentGood(r, i),
           EvaluationOK(alert, e),
           \/ Keeps(Snapshot(r, i), e, d, mode) \/ Pends(Snapshot(r, i), e, d)
           \/ Raises(Snapshot(r, i), e, d) \/ Resolves(Snapshot(r, i), e, d, mode)
    PROVE  WellFormed(d)
  <1> DEFINE s == Snapshot(r, i)
             t == d.state
  <1> USE PolicyAssumption
  <1>1. /\ s.status \in Severities /\ s.breaches \in 0..1 /\ s.clears \in Nat
        /\ s.cooldown \in Nat /\ s.quiet \in Nat /\ Readable(s)
        /\ s.status = r.severity
        /\ s.active = IF r.severity = "none" THEN NoBreach ELSE i.evidence
    BY SnapshotGood
  <1>2. r.severity # "none" => i.evidence.severity = r.severity
    BY DEF IncidentGood, EvidenceOK
  <1>3. /\ e.severity \in Severities
        /\ e.severity # "none" => e.evidence.severity = e.severity
    BY DEF EvaluationOK, EvidenceOK
  <1>4. NoBreach.severity = "none"
    BY DEF NoBreach
  <1>5. s.cooldown <= Cooldown /\ (s.status # "none" => s.cooldown = 0)
    BY <1>1 DEF Readable
  <1>6. s.status = "none" => s.active = NoBreach /\ s.clears = 0 /\ s.quiet = 0
    BY <1>1 DEF Readable
  <1>7. s.status # "none" => s.active.severity = s.status
    BY <1>1, <1>2
  <1>8. 0 \in 0..(ClearConsecutive - 1) /\ s.clears \in 0..(ClearConsecutive - 1)
    BY <1>1 DEF Readable
  <1> HIDE DEF s
  <1>9. CASE Keeps(s, e, d, mode)
    <2>1. /\ t.status = s.status /\ t.breach = NoBreach /\ t.breaches = 0
          /\ t.cooldown = s.cooldown /\ t.quiet \in {0, s.quiet}
          /\ \/ t.clears = 0
             \/ /\ t.clears = s.clears + 1 /\ s.clears + 1 < ClearConsecutive
                /\ s.status # "none"
          /\ t.active = (IF e.severity # "none" /\ e.severity = s.status
                         THEN e.evidence ELSE s.active)
          /\ e.severity # "none" => s.status # "none"
          /\ d.intent \in {"silent", "remind"}
          /\ d.intent = "remind" => s.status # "none"
      BY <1>9 DEF Keeps
    <2> HIDE DEF t
    <2>2. t.clears \in 0..(ClearConsecutive - 1)
      BY <1>8, <2>1
    <2>3. t.status # "none" => t.active # NoBreach /\ t.active.severity = t.status
      BY <1>3, <1>4, <1>7, <2>1
    <2>4. t.status = "none" => t.active = NoBreach /\ t.clears = 0 /\ t.quiet = 0
      BY <1>6, <2>1
    <2>5. Readable(t)
      BY <1>1, <1>5, <2>1, <2>2, <2>3, <2>4 DEF Readable
    <2>6. QED
      BY <2>1, <2>5 DEF WellFormed, t
  <1>10. CASE Pends(s, e, d)
    <2>1. /\ t.status = s.status /\ t.active = s.active /\ t.breach = e.evidence
          /\ t.breaches = 1 /\ t.clears = 0 /\ t.cooldown = s.cooldown /\ t.quiet = s.quiet
          /\ e.severity # "none" /\ s.status # "critical"
          /\ e.severity = "warning" => s.status = "none"
          /\ d.intent = "silent"
      BY <1>10 DEF Pends
    <2> HIDE DEF t
    <2>2. t.breach # NoBreach /\ t.breach.severity \in {"warning", "critical"}
      BY <1>3, <1>4, <2>1 DEF Severities
    <2>3. t.status # "none" => t.active # NoBreach /\ t.active.severity = t.status
      BY <1>4, <1>7, <2>1
    <2>4. t.status # "none" => t.status = "warning" /\ t.breach.severity = "critical"
      BY <1>1, <1>3, <2>1 DEF Severities
    <2>5. Readable(t)
      BY <1>5, <1>6, <1>8, <2>1, <2>2, <2>3, <2>4 DEF Readable
    <2>6. QED
      BY <2>1, <2>5 DEF WellFormed, t
  <1>11. CASE Raises(s, e, d)
    <2>1. /\ t.status = e.severity /\ t.active = e.evidence /\ t.breach = NoBreach
          /\ t.breaches = 0 /\ t.clears = 0 /\ t.cooldown = 0 /\ t.quiet = 0
          /\ e.severity # "none" /\ d.intent \in {"open", "escalate"}
          /\ d.intent = "escalate" => e.severity = "critical"
      BY <1>5, <1>11 DEF Raises
    <2> HIDE DEF t
    <2>2. t.active # NoBreach /\ t.active.severity = t.status
      BY <1>3, <1>4, <2>1
    <2>3. Readable(t)
      BY <1>8, <2>1, <2>2 DEF Readable
    <2>4. QED
      BY <2>1, <2>3 DEF WellFormed, t
  <1>12. CASE Resolves(s, e, d, mode)
    <2>1. d.intent = "resolve" /\ t = Inactive(Cooldown)
      BY <1>12 DEF Resolves
    <2>2. Readable(t) /\ t.status = "none"
      BY <1>8, <2>1 DEF Readable, Inactive, State
    <2> HIDE DEF t
    <2>3. QED
      BY <2>1, <2>2 DEF WellFormed, t
  <1>13. QED
    BY <1>9, <1>10, <1>11, <1>12 DEF s

\* A pending escalation that is given up leaves the evidence of the breach in a row
\* that has none: the CHECK on its thresholds refuses it.
LEMMA GivenUpRefused ==
    ASSUME NEW r, NEW i, NEW e, NEW d, NEW mode, RowGood(r), IncidentGood(r, i),
           EvaluationOK(alert, e), GivenUp(r, e), Keeps(Snapshot(r, i), e, d, mode)
    PROVE  ~StateChecks(NextRow(r, e, d))
  <1> DEFINE n == NextRow(r, e, d)
  <1>1. Present(r) /\ StateChecks(r)
    BY Active DEF GivenUp
  <1>2. n.severity = r.severity /\ n.breach = "none" /\ n.evidence = r.evidence
    BY <1>1, KeepsRow
  <1> HIDE DEF n
  <1>3. r.evidence.severity = "critical" /\ r.severity = "warning"
    BY <1>1 DEF GivenUp, StateChecks
  <1>4. ~StateChecks(n)
    BY <1>2, <1>3 DEF StateChecks
  <1>5. QED
    BY <1>4 DEF n

\* The tables accept every decision but that one, and what they accept is good.
LEMMA Persisted ==
    ASSUME NEW r, NEW i, NEW e, RowGood(r), IncidentGood(r, i), alert \in Rules,
           EvaluationOK(alert, e), Present(r) \/ e.severity # "none"
    PROVE  LET d == Advance(Snapshot(r, i), e, ResolutionMode(alert))
           IN  /\ ~GivenUp(r, e) => WellFormed(d) /\ Persists(r, i, e, d)
               /\ GivenUp(r, e) => ~StateChecks(NextRow(r, e, d))
  <1> DEFINE mode == ResolutionMode(alert)
             s == Snapshot(r, i)
             d == Advance(s, e, mode)
  <1>1. /\ Keeps(s, e, d, mode) \/ Pends(s, e, d) \/ Raises(s, e, d)
             \/ Resolves(s, e, d, mode)
        /\ GivenUp(r, e) => Keeps(s, e, d, mode)
    BY Decided
  <1> HIDE DEF d, mode
  <1>2. WellFormed(d)
    BY <1>1, DecisionsWellFormed
  <1>3. ~GivenUp(r, e) => Persists(r, i, e, d)
    BY <1>1, KeepsBatch, PendsBatch, RaisesBatch, ResolvesBatch DEF mode
  <1>4. GivenUp(r, e) => ~StateChecks(NextRow(r, e, d))
    BY <1>1, GivenUpRefused
  <1>5. QED
    BY <1>2, <1>3, <1>4 DEF d, mode

-------------------------------------------------------------------------------
(* What was heard, and what was mailed                                     *)

\* What was noted of an evaluation that was persisted accounts for the row it wrote.
LEMMA HistoryKept ==
    ASSUME NEW r, NEW i, NEW e, NEW h, RowGood(r), IncidentGood(r, i), HistoryGood(r, h),
           EvaluationOK(alert, e), Present(r) \/ e.severity # "none"
    PROVE  LET d == Advance(Snapshot(r, i), e, ResolutionMode(alert))
           IN  HistoryGood(NextRow(r, e, d), Noted(h, e, TRUE, d.intent = "resolve"))
  <1> DEFINE mode == ResolutionMode(alert)
             s == Snapshot(r, i)
             d == Advance(s, e, mode)
             n == NextRow(r, e, d)
             k == Noted(h, e, TRUE, d.intent = "resolve")
  <1> USE PolicyAssumption
  <1>1. Keeps(s, e, d, mode) \/ Pends(s, e, d) \/ Raises(s, e, d) \/ Resolves(s, e, d, mode)
    BY Decided
  <1> HIDE DEF d, mode
  <1>2. /\ k.last = Heard(e)
        /\ k.clears = IF Heard(e) = "none" THEN Minimum(h.clears + 1, ClearConsecutive) ELSE 0
        /\ k.calm = IF d.intent = "resolve" THEN 0 ELSE h.calm
    BY DEF Noted
  <1> HIDE DEF k
  <1>3. Heard(e) = IF e.known THEN e.severity ELSE "unknown"
    BY DEF Heard
  <1>4. /\ k.clears \in 0..ClearConsecutive /\ k.calm \in 0..Cooldown
        /\ k.last \in Severities \cup {"unknown"}
    BY <1>2, <1>3 DEF HistoryGood, Minimum, EvaluationOK
  <1>5. r.clears \in 0..(ClearConsecutive - 1) /\ r.clears <= h.clears /\ h.clears \in Nat
    BY DEF RowGood, HistoryGood
  <1>6. r.severity = "none" => r.cooldown + h.calm = Cooldown
    BY DEF HistoryGood
  <1>7. ASSUME Keeps(s, e, d, mode) PROVE HistoryGood(n, k)
    <2>1. /\ n.severity = r.severity /\ n.breach = "none" /\ n.cooldown = r.cooldown
          /\ n.clears = 0 \/ /\ n.clears = r.clears + 1 /\ n.clears < ClearConsecutive
                             /\ e.known /\ e.severity = "none" /\ mode # "manual"
                             /\ r.severity # "none"
      BY <1>7, KeepsRow
    <2>2. d.intent # "resolve"
      BY <1>7 DEF Keeps
    <2> HIDE DEF n
    <2>3. n.clears <= k.clears /\ (n.clears > 0 => k.last = "none")
      BY <1>2, <1>3, <1>4, <1>5, <2>1 DEF Minimum
    <2>4. QED
      BY <1>2, <1>4, <1>6, <2>1, <2>2, <2>3 DEF HistoryGood
  <1>8. ASSUME Pends(s, e, d) PROVE HistoryGood(n, k)
    <2>1. /\ d.intent = "silent" /\ e.severity # "none"
          /\ n.severity = r.severity /\ n.breach = e.severity /\ n.clears = 0
          /\ n.cooldown = r.cooldown
      BY <1>8, PendsRow
    <2>2. e.known
      BY <2>1 DEF EvaluationOK
    <2> HIDE DEF n
    <2>3. QED
      BY <1>2, <1>3, <1>4, <1>6, <2>1, <2>2 DEF HistoryGood
  <1>9. ASSUME Raises(s, e, d) PROVE HistoryGood(n, k)
    <2>1. n.severity # "none" /\ n.breach = "none" /\ n.clears = 0
      BY <1>9, RaisesRow
    <2> HIDE DEF n
    <2>2. QED
      BY <1>4, <2>1 DEF HistoryGood
  <1>10. ASSUME Resolves(s, e, d, mode) PROVE HistoryGood(n, k)
    <2>1. /\ d.intent = "resolve" /\ n.severity = "none" /\ n.breach = "none"
          /\ n.clears = 0 /\ n.cooldown = Cooldown
      BY <1>10, ResolvesRow
    <2> HIDE DEF n
    <2>2. QED
      BY <1>2, <1>4, <2>1 DEF HistoryGood
  <1>11. QED
    BY <1>1, <1>7, <1>8, <1>9, <1>10 DEF d, mode, k

\* An evaluation that was refused or found nothing changes no more than what was noted.
LEMMA HistoryOfRefused ==
    ASSUME NEW r, NEW e, NEW h, RowGood(r), HistoryGood(r, h), GivenUp(r, e), Present(r)
    PROVE  HistoryGood(r, Noted(h, e, FALSE, FALSE))
  <1> DEFINE k == Noted(h, e, FALSE, FALSE)
  <1> USE PolicyAssumption
  <1>1. r.clears = 0
    BY DEF GivenUp, RowGood, StateChecks
  <1>2. /\ k.last = h.last /\ k.calm = h.calm
        /\ k.clears = IF Heard(e) = "none" THEN Minimum(h.clears + 1, ClearConsecutive) ELSE 0
    BY DEF Noted
  <1> HIDE DEF k
  <1>3. k.clears \in 0..ClearConsecutive
    BY <1>2 DEF HistoryGood, Minimum
  <1>4. HistoryGood(r, k)
    BY <1>1, <1>2, <1>3 DEF HistoryGood
  <1>5. QED
    BY <1>4 DEF k

\* An alert that has no row is as good after an evaluation that finds nothing.
LEMMA HistoryOfNothing ==
    ASSUME NEW e, NEW h, HistoryGood(NoRow, h), EvaluationOK(alert, e)
    PROVE  HistoryGood(NoRow, Noted(h, e, TRUE, FALSE))
  <1> DEFINE k == Noted(h, e, TRUE, FALSE)
  <1> USE PolicyAssumption
  <1>1. /\ k.calm = h.calm /\ k.last = Heard(e)
        /\ k.clears = IF Heard(e) = "none" THEN Minimum(h.clears + 1, ClearConsecutive) ELSE 0
    BY DEF Noted
  <1> HIDE DEF k
  <1>2. k.clears \in 0..ClearConsecutive /\ k.last \in Severities \cup {"unknown"}
    BY <1>1 DEF HistoryGood, Minimum, Heard, EvaluationOK
  <1>3. HistoryGood(NoRow, k)
    BY <1>1, <1>2 DEF HistoryGood, NoRow, Row
  <1>4. QED
    BY <1>3 DEF k

\* What an event adds to the mails of an incident.
LEMMA CountedAs ==
    ASSUME NEW m, NEW v, NEW kind, v.kind = kind,
           kind \in {"opened", "reminder", "escalated", "resolved"},
           m.opened \in Nat, m.escalated \in Nat, m.resolved \in Nat
    PROVE  LET c == Counted(m, v)
           IN  /\ c.last = v /\ c # NoMail
               /\ kind = "opened" => c.opened = 1 /\ c.escalated = 0 /\ c.resolved = 0
               /\ kind # "opened" => c.opened = m.opened
               /\ kind = "reminder" => c.escalated = m.escalated /\ c.resolved = m.resolved
               /\ kind = "escalated" => c.escalated = m.escalated + 1 /\ c.resolved = m.resolved
               /\ kind = "resolved" => c.escalated = m.escalated /\ c.resolved = m.resolved + 1
  <1>1. NoMail.last.kind = "none"
    BY DEF NoMail, Event
  <1>2. v # NoMail.last
    BY <1>1
  <1>3. NoMail.opened = 0 /\ NoMail.escalated = 0 /\ NoMail.resolved = 0
    BY DEF NoMail
  <1>4. Counted(m, v).last = v
    BY <1>2 DEF Counted
  <1>5. Counted(m, v) # NoMail
    BY <1>1, <1>4
  <1>6. QED
    BY <1>2, <1>3, <1>4, <1>5 DEF Counted

\* The mails of an incident stay its story.
LEMMA MailKept ==
    ASSUME NEW r, NEW i, NEW e, NEW m, RowGood(r), IncidentGood(r, i), MailGood(r, i, m),
           EvaluationOK(alert, e), Present(r) \/ e.severity # "none"
    PROVE  LET d == Advance(Snapshot(r, i), e, ResolutionMode(alert))
               n == NextRow(r, e, d)
               j == NextIncident(i, n, e, d)
           IN  MailGood(n, j, Counted(m, NextEvent(j, d)))
  <1> DEFINE mode == ResolutionMode(alert)
             s == Snapshot(r, i)
             d == Advance(s, e, mode)
             n == NextRow(r, e, d)
             j == NextIncident(i, n, e, d)
             v == NextEvent(j, d)
             c == Counted(m, v)
  <1>1. Keeps(s, e, d, mode) \/ Pends(s, e, d) \/ Raises(s, e, d) \/ Resolves(s, e, d, mode)
    BY Decided
  <1> HIDE DEF d, mode
  <1>2. /\ m.opened \in 0..1 /\ m.escalated \in 0..1 /\ m.resolved \in 0..1
        /\ r.severity # "none" => m # NoMail
        /\ m # NoMail =>
             /\ m.opened = 1
             /\ m.escalated = 1 => i.severity = "critical"
             /\ m.last.severity = i.severity
             /\ m.resolved = 1 => m.last.kind = "resolved" /\ i.status = "resolved"
    BY DEF MailGood
  <1>3. r.severity # "none" =>
          /\ i.severity = r.severity /\ i.status # "resolved" /\ m.opened = 1
          /\ m.resolved = 0
          /\ m.escalated = 1 => i.severity = "critical"
    BY <1>2, Active
  <1>4. ASSUME d.intent = "silent", n.severity = r.severity PROVE MailGood(n, j, c)
    <2>1. v = NoMail.last
      BY <1>4, EventOf
    <2>2. c = m
      BY <2>1 DEF Counted
    <2>3. j.severity = i.severity /\ j.status = i.status
      BY <1>4, IncidentOf DEF Incident
    <2> HIDE DEF n, j, v, c
    <2>4. QED
      BY <1>2, <1>4, <2>2, <2>3 DEF MailGood
  <1>5. ASSUME Keeps(s, e, d, mode) PROVE MailGood(n, j, c)
    <2>1. /\ d.intent \in {"silent", "remind"} /\ n.severity = r.severity
          /\ d.intent = "remind" => r.severity # "none"
      <3>1. n.severity = r.severity
        BY <1>5, KeepsRow
      <3>2. s.status = r.severity
        BY SnapshotGood
      <3> HIDE DEF s
      <3>3. d.intent \in {"silent", "remind"} /\ (d.intent = "remind" => s.status # "none")
        BY <1>5 DEF Keeps
      <3>4. QED
        BY <3>1, <3>2, <3>3
    <2>2. CASE d.intent = "silent"
      BY <1>4, <2>1, <2>2
    <2>3. CASE d.intent = "remind"
      <3>1. v = Event("reminder", j.severity, j.status)
        BY <2>3, EventOf
      <3>2. j.severity = i.severity /\ j.status = i.status
        BY <2>3, IncidentOf DEF Incident
      <3>3. v.kind = "reminder" /\ v.severity = i.severity
        BY <3>1, <3>2 DEF Event
      <3> HIDE DEF n, j, v
      <3>4. /\ c.last = v /\ c # NoMail /\ c.opened = m.opened
            /\ c.escalated = m.escalated /\ c.resolved = m.resolved
        BY <1>2, <3>3, CountedAs
      <3> HIDE DEF c
      <3>5. QED
        BY <1>2, <1>3, <2>1, <2>3, <3>2, <3>3, <3>4 DEF MailGood
    <2>4. QED
      BY <2>1, <2>2, <2>3
  <1>6. ASSUME Pends(s, e, d) PROVE MailGood(n, j, c)
    BY <1>4, <1>6, PendsRow
  <1>7. ASSUME Raises(s, e, d) PROVE MailGood(n, j, c)
    <2>1. /\ \/ d.intent = "open" /\ r.severity = "none"
             \/ d.intent = "escalate" /\ r.severity = "warning" /\ e.severity = "critical"
          /\ n.severity = e.severity
      BY <1>7, RaisesRow
    <2>2. CASE d.intent = "open"
      <3>1. v = Event("opened", j.severity, "open")
        BY <2>2, EventOf
      <3>2. v.kind = "opened" /\ v.severity = j.severity
        BY <3>1 DEF Event
      <3> HIDE DEF n, j, v
      <3>3. /\ c.last = v /\ c # NoMail
            /\ c.opened = 1 /\ c.escalated = 0 /\ c.resolved = 0
        BY <1>2, <3>2, CountedAs
      <3> HIDE DEF c
      <3>4. QED
        BY <3>2, <3>3 DEF MailGood
    <2>3. CASE d.intent = "escalate"
      <3>1. v = Event("escalated", "critical", j.status)
        BY <2>3, EventOf
      <3>2. j.severity = "critical"
        BY <2>3, IncidentOf DEF Incident
      <3>3. v.kind = "escalated" /\ v.severity = "critical"
        BY <3>1 DEF Event
      <3>4. r.severity = "warning" /\ m.escalated = 0
        BY <1>2, <1>3, <2>1, <2>3
      <3> HIDE DEF n, j, v
      <3>5. /\ c.last = v /\ c # NoMail /\ c.opened = m.opened
            /\ c.escalated = m.escalated + 1 /\ c.resolved = m.resolved
        BY <1>2, <3>3, CountedAs
      <3> HIDE DEF c
      <3>6. QED
        BY <1>2, <1>3, <3>2, <3>3, <3>4, <3>5 DEF MailGood
    <2>4. QED
      BY <2>1, <2>2, <2>3
  <1>8. ASSUME Resolves(s, e, d, mode) PROVE MailGood(n, j, c)
    <2>1. d.intent = "resolve" /\ r.severity # "none" /\ n.severity = "none"
      BY <1>8, ResolvesRow
    <2>2. v = Event("resolved", j.severity, "resolved")
      BY <2>1, EventOf
    <2>3. j.severity = i.severity /\ j.status = "resolved"
      BY <2>1, IncidentOf DEF Incident
    <2>4. v.kind = "resolved" /\ v.severity = j.severity
      BY <2>2 DEF Event
    <2> HIDE DEF n, j, v
    <2>5. /\ c.last = v /\ c # NoMail /\ c.opened = m.opened
          /\ c.escalated = m.escalated /\ c.resolved = m.resolved + 1
      BY <1>2, <2>4, CountedAs
    <2> HIDE DEF c
    <2>6. QED
      BY <1>2, <1>3, <2>1, <2>3, <2>4, <2>5 DEF MailGood
  <1>9. QED
    BY <1>1, <1>5, <1>6, <1>7, <1>8 DEF d, mode

-------------------------------------------------------------------------------
(* The invariant holds                                                     *)

\* Whatever the observations of a rule evaluate to is in order.
LEMMA PlannedOK ==
    ASSUME NEW a \in DOMAIN Observations, NEW e \in Evaluations(a)
    PROVE  EvaluationOK(a, e)
  <1>1. PICK c \in Outcomes : c.rule = a /\ e = c.evaluation
    BY DEF Evaluations
  <1>2. PICK r \in DOMAIN Observations : \E o \in Observations[r] :
          c = [rule |-> r, evaluation |-> Evaluate(r, o),
               truths |-> {Evaluate(r, p) : p \in Completions(r, o)}]
    BY <1>1 DEF Outcomes
  <1>3. PICK o \in Observations[r] :
          c = [rule |-> r, evaluation |-> Evaluate(r, o),
               truths |-> {Evaluate(r, p) : p \in Completions(r, o)}]
    BY <1>2
  <1>4. r = a /\ e = Evaluate(r, o)
    BY <1>1, <1>3
  <1>5. r \in Rules /\ Parsed(r, o)
    BY SampledAssumption
  <1>6. QED
    BY <1>4, <1>5, EvaluateOK

\* An alert that was never raised.
LEMMA InvInit == Init => Inv
  <1> SUFFICES ASSUME Init PROVE Inv
    OBVIOUS
  <1> USE PolicyAssumption
  <1>1. /\ alert \in DOMAIN Observations /\ row = NoRow /\ incident = NoIncident
        /\ mail = NoMail /\ plan = NoPlan
        /\ hist = [last |-> "none", clears |-> 0, calm |-> Cooldown]
    BY DEF Init
  <1>2. HistoryRecord
    BY <1>1 DEF HistoryRecord
  <1>3. /\ NoRow.severity = "none" /\ NoRow.breach = "none" /\ NoRow.breaches = 0
        /\ NoRow.clears = 0 /\ NoRow.generation = -1 /\ NoRow.cooldown = 0
        /\ NoRow.quiet = 0
    BY DEF NoRow, Row
  <1>4. RowGood(NoRow)
    BY <1>3 DEF RowGood, Present, Severities, Longest
  <1>5. IncidentGood(NoRow, NoIncident)
    BY <1>3 DEF IncidentGood, Consistent, NoIncident, Incident, Severities
  <1>6. HistoryGood(NoRow, hist)
    BY <1>1, <1>3 DEF HistoryGood, Severities
  <1>7. MailGood(NoRow, NoIncident, NoMail)
    BY <1>3 DEF MailGood, NoMail, Event
  <1>8. PlanGood
    BY <1>1 DEF PlanGood, NoPlan
  <1>9. QED
    BY <1>1, <1>2, <1>3, <1>4, <1>5, <1>6, <1>7, <1>8, BoundAssumption DEF Inv

\* A minute later the row is as good.
LEMMA AgedGood ==
    ASSUME NEW r, NEW i, NEW m, NEW h, NEW k, RowGood(r), IncidentGood(r, i), MailGood(r, i, m),
           HistoryGood(r, h), k.last = h.last, k.clears = h.clears,
           k.calm = Minimum(h.calm + 1, Cooldown)
    PROVE  LET n == Aged(r)
           IN  /\ RowGood(n) /\ IncidentGood(n, i) /\ MailGood(n, i, m) /\ HistoryGood(n, k)
               /\ n.generation = r.generation
  <1> DEFINE n == Aged(r)
  <1> USE PolicyAssumption
  <1>1. /\ n.evidence = r.evidence /\ n.breach = r.breach /\ n.breaches = r.breaches
        /\ n.clears = r.clears /\ n.severity = r.severity /\ n.generation = r.generation
        /\ n.cooldown = (IF r.cooldown > 0 THEN r.cooldown - 1 ELSE 0)
        /\ n.quiet = (IF r.severity = "none" THEN 0 ELSE Minimum(r.quiet + 1, Longest))
    BY DEF Aged, Row
  <1>2. r = NoRow => n = NoRow
    BY DEF Aged, NoRow, Row
  <1> HIDE DEF n
  <1>3. Longest \in Nat
    BY DEF Longest
  <1>4. r.cooldown \in 0..Cooldown /\ r.quiet \in 0..Longest
    BY DEF RowGood
  <1>5. n.cooldown \in 0..Cooldown /\ n.quiet \in 0..Longest
        /\ (n.severity = "none" => n.quiet = 0)
    BY <1>1, <1>3, <1>4 DEF Minimum
  <1>6. Present(n) <=> Present(r)
    BY <1>1 DEF Present
  <1>7. Present(r) => StateChecks(n)
    <2>1. SUFFICES ASSUME Present(r) PROVE StateChecks(n)
      OBVIOUS
    <2>2. StateChecks(r)
      BY <2>1 DEF RowGood
    <2>3. r.cooldown = 0 => n.cooldown = 0
      BY <1>1, <1>4
    <2>4. QED
      BY <1>1, <2>2, <2>3 DEF StateChecks
  <1>8. RowGood(n)
    BY <1>1, <1>2, <1>5, <1>6, <1>7 DEF RowGood
  <1>9. IncidentGood(n, i)
    BY <1>1 DEF IncidentGood, Consistent, Projected
  <1>10. MailGood(n, i, m)
    BY <1>1 DEF MailGood
  <1>11. h.calm \in 0..Cooldown /\ (r.severity = "none" => r.cooldown + h.calm = Cooldown)
    BY DEF HistoryGood
  <1>12. k.calm \in 0..Cooldown /\ (n.severity = "none" => n.cooldown + k.calm = Cooldown)
    BY <1>1, <1>4, <1>11 DEF Minimum
  <1>13. HistoryGood(n, k)
    BY <1>1, <1>12 DEF HistoryGood
  <1>14. QED
    BY <1>1, <1>8, <1>9, <1>10, <1>13 DEF n

\* What a run that decides finds: its row and incident are those it read.
LEMMA Deciding ==
    ASSUME Inv, Decides
    PROVE  /\ RowGood(plan.row) /\ IncidentGood(plan.row, incident) /\ plan.incident = incident
           /\ MailGood(plan.row, incident, mail) /\ HistoryGood(plan.row, hist)
           /\ EvaluationOK(alert, Planned) /\ plan.row = row
           /\ Present(plan.row) \/ Planned.severity # "none"
           /\ alert \in Rules
  <1>1. plan.ready /\ ~Nothing /\ plan.row = row /\ plan.incident = incident
    BY DEF Decides, Current
  <1>2. EvaluationOK(alert, Planned)
    BY <1>1, PlannedOK DEF Inv, PlanGood, Planned
  <1>3. alert \in Rules
    BY SampledAssumption DEF Inv
  <1>4. QED
    BY <1>1, <1>2, <1>3 DEF Inv, Nothing

\* The tables refuse a pending escalation that is given up, and nothing else.
LEMMA OnlyAbandoned ==
    ASSUME Inv, Decides
    PROVE  /\ ~GivenUp(plan.row, Planned) =>
                BatchAccepted /\ Persists(plan.row, incident, Planned, Decision)
           /\ GivenUp(plan.row, Planned) => ~BatchAccepted
  <1>1. /\ RowGood(plan.row) /\ IncidentGood(plan.row, incident) /\ plan.incident = incident
        /\ EvaluationOK(alert, Planned) /\ alert \in Rules
        /\ Present(plan.row) \/ Planned.severity # "none"
    BY Deciding
  <1>2. Decision = Advance(Snapshot(plan.row, incident), Planned, ResolutionMode(alert))
    BY <1>1 DEF Decision
  <1>3. /\ ~GivenUp(plan.row, Planned) =>
             WellFormed(Decision) /\ Persists(plan.row, incident, Planned, Decision)
        /\ GivenUp(plan.row, Planned) => ~StateChecks(NextRow(plan.row, Planned, Decision))
    BY <1>1, <1>2, Persisted
  <1>4. ~GivenUp(plan.row, Planned) => BatchAccepted
    BY <1>1, <1>3 DEF BatchAccepted, Persists, NewRow, NewIncident, NewEvent
  <1>5. GivenUp(plan.row, Planned) => ~BatchAccepted
    BY <1>3 DEF BatchAccepted, Accepted, NewRow
  <1>6. QED
    BY <1>3, <1>4, <1>5

\* Every action keeps the invariant. A run that reads;
LEMMA PlanKeeps == ASSUME Inv, NEW e \in Evaluations(alert), Plan(e) PROVE Inv'
  <1>1. /\ row' = Aged(row) /\ alert' = alert /\ incident' = incident /\ mail' = mail
        /\ hist' = [hist EXCEPT !.calm = Minimum(hist.calm + 1, Cooldown)]
        /\ plan' = [ready |-> TRUE, evaluation |-> e, row |-> row', incident |-> incident]
    BY DEF Plan
  <1>2. /\ hist'.last = hist.last /\ hist'.clears = hist.clears
        /\ hist'.calm = Minimum(hist.calm + 1, Cooldown) /\ HistoryRecord'
    BY <1>1 DEF Inv, HistoryRecord
  <1>3. /\ RowGood(row') /\ IncidentGood(row', incident') /\ HistoryGood(row', hist')
        /\ MailGood(row', incident', mail')
    BY <1>1, <1>2, AgedGood DEF Inv
  <1>4. RowGood(row)' /\ IncidentGood(row, incident)'
    BY <1>1, <1>3 DEF RowGood, IncidentGood, StateChecks, Manual
  <1>5. PlanGood'
    BY <1>1 DEF PlanGood
  <1>6. QED
    <2>1. row.generation <= MaxGeneration /\ row'.generation = row.generation
      BY <1>1 DEF Inv, Aged, Row
    <2>2. QED
      BY <1>1, <1>2, <1>3, <1>4, <1>5, <2>1 DEF Inv, HistoryGood, MailGood

\* one that persists, finds nothing, is refused or comes too late;
LEMMA PersistKeeps == ASSUME Inv, Persist PROVE Inv'
  <1>1. plan' = NoPlan /\ alert' = alert /\ plan.ready
    BY DEF Persist
  <1>2. PlanGood'
    BY <1>1 DEF PlanGood, NoPlan
  <1>3. \A accepted, resolved :
          LET k == Noted(hist, Planned, accepted, resolved)
          IN  k = [last |-> k.last, clears |-> k.clears, calm |-> k.calm]
    BY DEF Noted
  <1>4. CASE Nothing /\ UNCHANGED <<row, incident, mail>>
             /\ hist' = Noted(hist, Planned, TRUE, FALSE)
    <2>1. ~Present(row)
      BY <1>1, <1>4 DEF Nothing, Inv, PlanGood, Present
    <2>2. row = NoRow
      BY <2>1 DEF Inv, RowGood
    <2>3. HistoryGood(NoRow, hist')
      <3>1. EvaluationOK(alert, Planned)
        BY <1>1, PlannedOK DEF Inv, PlanGood, Planned
      <3>2. HistoryGood(NoRow, hist)
        BY <2>2 DEF Inv
      <3>3. QED
        BY <1>4, <3>1, <3>2, HistoryOfNothing
    <2>4. HistoryRecord'
      BY <1>3, <1>4 DEF HistoryRecord
    <2>5. RowGood(row)' /\ IncidentGood(row, incident)'
      BY <1>1, <1>4 DEF Inv, RowGood, IncidentGood, StateChecks, Manual
    <2>6. QED
      BY <1>1, <1>2, <1>4, <2>2, <2>3, <2>4, <2>5 DEF Inv, HistoryGood, MailGood
  <1>5. CASE Decides /\ BatchAccepted /\ row' = NewRow /\ incident' = NewIncident
             /\ mail' = Counted(mail, NewEvent)
             /\ hist' = Noted(hist, Planned, TRUE, Decision.intent = "resolve")
             /\ NewRow.generation <= MaxGeneration
    <2>1. /\ RowGood(plan.row) /\ IncidentGood(plan.row, incident) /\ plan.incident = incident
          /\ MailGood(plan.row, incident, mail) /\ HistoryGood(plan.row, hist)
          /\ EvaluationOK(alert, Planned)
          /\ Present(plan.row) \/ Planned.severity # "none"
      BY <1>5, Deciding
    <2>2. Decision = Advance(Snapshot(plan.row, incident), Planned, ResolutionMode(alert))
      BY <2>1 DEF Decision
    <2>3. Persists(plan.row, incident, Planned, Decision)
      BY <1>5, OnlyAbandoned
    <2>4. RowGood(NewRow) /\ IncidentGood(NewRow, NewIncident)
      BY <2>1, <2>3 DEF Persists, NewRow, NewIncident
    <2>5. HistoryGood(NewRow, hist')
      BY <1>5, <2>1, <2>2, HistoryKept DEF NewRow
    <2>6. MailGood(NewRow, NewIncident, mail')
      BY <1>5, <2>1, <2>2, MailKept DEF NewRow, NewIncident, NewEvent
    <2>7. HistoryRecord'
      BY <1>3, <1>5 DEF HistoryRecord
    <2> HIDE DEF NewRow, NewIncident
    <2>8. RowGood(row)' /\ IncidentGood(row, incident)'
      BY <1>1, <1>5, <2>4 DEF RowGood, IncidentGood, StateChecks, Manual
    <2>9. HistoryGood(row, hist)' /\ MailGood(row, incident, mail)'
      BY <1>5, <2>5, <2>6 DEF HistoryGood, MailGood
    <2>10. row'.generation <= MaxGeneration
      BY <1>5
    <2>11. QED
      BY <1>1, <1>2, <2>7, <2>8, <2>9, <2>10 DEF Inv
  <1>6. CASE Decides /\ ~BatchAccepted /\ UNCHANGED <<row, incident, mail>>
             /\ hist' = Noted(hist, Planned, FALSE, FALSE)
    <2>1. GivenUp(row, Planned) /\ Present(row)
      BY <1>6, Deciding, OnlyAbandoned, Active DEF GivenUp
    <2>2. HistoryGood(row, hist')
      BY <1>6, <2>1, HistoryOfRefused DEF Inv
    <2>3. HistoryRecord'
      BY <1>3, <1>6 DEF HistoryRecord
    <2>4. RowGood(row)' /\ IncidentGood(row, incident)'
      BY <1>1, <1>6 DEF Inv, RowGood, IncidentGood, StateChecks, Manual
    <2>5. QED
      BY <1>1, <1>2, <1>6, <2>2, <2>3, <2>4 DEF Inv, HistoryGood, MailGood
  <1>7. CASE UNCHANGED <<row, incident, mail, hist>>
    <2>1. RowGood(row)' /\ IncidentGood(row, incident)' /\ HistoryRecord'
      BY <1>1, <1>7 DEF Inv, RowGood, IncidentGood, StateChecks, Manual, HistoryRecord
    <2>2. QED
      BY <1>1, <1>2, <1>7, <2>1 DEF Inv, HistoryGood, MailGood
  <1>8. QED
    BY <1>4, <1>5, <1>6, <1>7 DEF Persist

\* one that ends before;
LEMMA AbandonKeeps == ASSUME Inv, Abandon PROVE Inv'
  <1>1. PlanGood'
    BY DEF Abandon, PlanGood, NoPlan
  <1>2. QED
    BY <1>1 DEF Abandon, Inv, RowGood, IncidentGood, StateChecks, Manual, HistoryRecord,
                HistoryGood, MailGood

\* the operator who acknowledges;
LEMMA AcknowledgeKeeps == ASSUME Inv, Acknowledge PROVE Inv'
  <1> DEFINE j == Incident(incident.generation, incident.severity, incident.evidence,
                           "acknowledged")
  <1>1. /\ incident.status = "open" /\ incident' = j
        /\ UNCHANGED <<alert, row, mail, plan, hist>>
    BY DEF Acknowledge
  <1>2. /\ j.generation = incident.generation /\ j.severity = incident.severity
        /\ j.evidence = incident.evidence /\ j.status = "acknowledged"
    BY DEF Incident
  <1> HIDE DEF j
  <1>3. NoIncident.status = "resolved"
    BY DEF NoIncident, Incident
  <1>4. row.severity # "none"
    BY <1>1, <1>3 DEF Inv, IncidentGood, Consistent
  <1>5. IncidentGood(row, j)
    BY <1>1, <1>2, <1>4 DEF Inv, IncidentGood, Consistent
  <1>6. MailGood(row, j, mail)
    BY <1>1, <1>2 DEF Inv, MailGood
  <1>7. RowGood(row)' /\ IncidentGood(row, incident)'
    BY <1>1, <1>5 DEF Inv, RowGood, IncidentGood, StateChecks, Manual
  <1>8. PlanGood' /\ HistoryRecord'
    BY <1>1 DEF Inv, PlanGood, HistoryRecord
  <1>9. QED
    BY <1>1, <1>6, <1>7, <1>8 DEF Inv, HistoryGood, MailGood

\* and who resolves.
LEMMA OperatorResolveKeeps == ASSUME Inv, OperatorResolve PROVE Inv'
  <1> DEFINE j == Incident(incident.generation, incident.severity, incident.evidence, "resolved")
             r == Row(row.evidence, "none", 0, 0, "none", row.generation, Cooldown, 0)
  <1> USE PolicyAssumption
  <1>1. /\ incident.status # "resolved" /\ StateChecks(r) /\ incident' = j /\ row' = r
        /\ hist' = [hist EXCEPT !.calm = 0] /\ UNCHANGED <<alert, mail, plan>>
    BY DEF OperatorResolve
  <1>2. /\ j.generation = incident.generation /\ j.severity = incident.severity
        /\ j.evidence = incident.evidence /\ j.status = "resolved"
    BY DEF Incident
  <1>3. /\ r.severity = "none" /\ r.breach = "none" /\ r.breaches = 0 /\ r.clears = 0
        /\ r.generation = row.generation /\ r.cooldown = Cooldown /\ r.quiet = 0
    BY DEF Row
  <1> HIDE DEF j, r
  <1>4. NoIncident.status = "resolved"
    BY DEF NoIncident, Incident
  <1>5. row.severity # "none"
    BY <1>1, <1>4 DEF Inv, IncidentGood, Consistent
  <1>6. /\ Present(row) /\ row.generation >= 1 /\ incident.generation = row.generation
        /\ row.generation \in Int
    BY <1>5, Active DEF Inv, RowGood
  <1>7. RowGood(r)
    BY <1>1, <1>3, <1>6 DEF RowGood, Present, Severities, Longest
  <1>8. IncidentGood(r, j)
    BY <1>2, <1>3, <1>6 DEF Inv, IncidentGood, Consistent
  <1>9. /\ hist'.last = hist.last /\ hist'.clears = hist.clears /\ hist'.calm = 0
        /\ HistoryRecord'
    BY <1>1 DEF Inv, HistoryRecord
  <1>10. HistoryGood(r, hist')
    BY <1>3, <1>9 DEF Inv, HistoryGood
  <1>11. MailGood(r, j, mail)
    BY <1>1, <1>2, <1>3 DEF Inv, MailGood
  <1>12. RowGood(row)' /\ IncidentGood(row, incident)'
    BY <1>1, <1>7, <1>8 DEF RowGood, IncidentGood, StateChecks, Manual
  <1>13. PlanGood'
    BY <1>1, <1>3 DEF Inv, PlanGood
  <1>14. QED
    BY <1>1, <1>3, <1>9, <1>10, <1>11, <1>12, <1>13 DEF Inv, HistoryGood, MailGood

\* And so does every step.
LEMMA InvNext == Inv /\ [Next]_vars => Inv'
  <1> SUFFICES ASSUME Inv, [Next]_vars PROVE Inv'
    OBVIOUS
  <1>1. ASSUME NEW e \in Evaluations(alert), Plan(e) PROVE Inv'
    BY <1>1, PlanKeeps
  <1>2. CASE Persist
    BY <1>2, PersistKeeps
  <1>3. CASE Abandon
    BY <1>3, AbandonKeeps
  <1>4. CASE Acknowledge
    BY <1>4, AcknowledgeKeeps
  <1>5. CASE OperatorResolve
    BY <1>5, OperatorResolveKeeps
  <1>6. CASE UNCHANGED vars
    BY <1>6 DEF vars, Inv, RowGood, IncidentGood, StateChecks, Manual, HistoryRecord,
                HistoryGood, MailGood, PlanGood
  <1>7. QED
    BY <1>1, <1>2, <1>3, <1>4, <1>5, <1>6 DEF Next

\* Row, incident, mails and what was heard agree at all times.
THEOREM AlertInvariant == Spec => []Inv
  BY InvInit, InvNext, PTL DEF Spec

-------------------------------------------------------------------------------
(* What follows                                                            *)

\* The counters, severities and mails stay in their ranges.
THEOREM TypeCorrect == Spec => []TypeOK
  <1>1. Inv => TypeOK
    <2> SUFFICES ASSUME Inv PROVE TypeOK
      OBVIOUS
    <2>1. /\ row.severity \in Severities /\ row.breach \in Severities
          /\ row.breaches \in 0..1 /\ row.clears \in 0..(ClearConsecutive - 1)
          /\ row.generation \in -1..MaxGeneration
          /\ row.cooldown \in 0..Cooldown /\ row.quiet \in 0..Longest
      BY BoundAssumption DEF Inv, RowGood
    <2>2. /\ incident.severity \in Severities
          /\ incident.status \in {"open", "acknowledged", "resolved"}
      BY DEF Inv, IncidentGood
    <2>3. /\ mail.opened \in 0..1 /\ mail.escalated \in 0..1 /\ mail.resolved \in 0..1
          /\ mail.last.kind \in {"none", "opened", "reminder", "escalated", "resolved"}
      BY DEF Inv, MailGood
    <2>4. /\ hist.last \in Severities \cup {"unknown"} /\ hist.clears \in 0..ClearConsecutive
          /\ hist.calm \in 0..Cooldown
      BY DEF Inv, HistoryGood
    <2>5. alert \in Rules
      BY SampledAssumption DEF Inv
    <2>6. QED
      BY <2>1, <2>2, <2>3, <2>4, <2>5 DEF TypeOK
  <1>2. QED
    BY <1>1, AlertInvariant, PTL

\* Whatever was persisted can be read again: the tables admit only rows and incidents
\* that agree (StateIsReadable).
THEOREM AlwaysReadable == Spec => []StateIsReadable
  <1>1. Inv => StateIsReadable
    BY SnapshotGood DEF Inv, StateIsReadable, IncidentGood, RowGood, EvidenceOK
  <1>2. QED
    BY <1>1, AlertInvariant, PTL

\* What was heard last is the breach that waits in the row.
LEMMA RaiseNeedsTwo == Inv => TwoBreachesRaise
  <1> SUFFICES ASSUME Inv, Decides, Decision.intent \in {"open", "escalate"}
               PROVE  \/ hist.last = Planned.severity
                      \/ Planned.severity = "critical" /\ Planned.immediate
    BY DEF TwoBreachesRaise
  <1> DEFINE s == Snapshot(plan.row, incident)
             mode == ResolutionMode(alert)
  <1>1. /\ RowGood(plan.row) /\ IncidentGood(plan.row, incident) /\ plan.incident = incident
        /\ HistoryGood(plan.row, hist) /\ EvaluationOK(alert, Planned)
    BY Deciding
  <1>2. Decision = Advance(s, Planned, mode)
    BY <1>1 DEF Decision
  <1>3. Keeps(s, Planned, Decision, mode) \/ Pends(s, Planned, Decision)
          \/ Raises(s, Planned, Decision) \/ Resolves(s, Planned, Decision, mode)
    BY <1>1, <1>2, Decided
  <1>4. Raises(s, Planned, Decision)
    BY <1>3 DEF Keeps, Pends, Resolves
  <1>5. /\ Planned.severity \in {"warning", "critical"}
        /\ plan.row.breach = Planned.severity \/ Planned.immediate
    BY <1>1, <1>4, RaisesRow
  <1>6. QED
    BY <1>1, <1>5 DEF HistoryGood, EvaluationOK

\* The clears of the row were heard in a row.
LEMMA ResolveNeedsAll == Inv => ClearsResolve
  <1> SUFFICES ASSUME Inv, Decides, Decision.intent = "resolve"
               PROVE  /\ Planned.known /\ Planned.severity = "none" /\ ~Manual
                      /\ hist.last = "none" /\ hist.clears >= ClearConsecutive - 1
    BY DEF ClearsResolve
  <1> DEFINE s == Snapshot(plan.row, incident)
             mode == ResolutionMode(alert)
  <1>1. /\ RowGood(plan.row) /\ IncidentGood(plan.row, incident) /\ plan.incident = incident
        /\ HistoryGood(plan.row, hist) /\ EvaluationOK(alert, Planned)
    BY Deciding
  <1>2. Decision = Advance(s, Planned, mode)
    BY <1>1 DEF Decision
  <1>3. Keeps(s, Planned, Decision, mode) \/ Pends(s, Planned, Decision)
          \/ Raises(s, Planned, Decision) \/ Resolves(s, Planned, Decision, mode)
    BY <1>1, <1>2, Decided
  <1>4. Resolves(s, Planned, Decision, mode)
    BY <1>3 DEF Keeps, Pends, Raises
  <1>5. /\ Planned.known /\ Planned.severity = "none" /\ mode # "manual"
        /\ plan.row.clears = ClearConsecutive - 1 /\ plan.row.clears > 0
    BY <1>1, <1>4, ResolvesRow
  <1>6. hist.last = "none" /\ hist.clears >= ClearConsecutive - 1
    BY <1>1, <1>5, PolicyAssumption DEF HistoryGood
  <1>7. QED
    BY <1>5, <1>6 DEF Manual

\* What is left of a cooldown and what has passed of it make the whole.
LEMMA CooldownKept == Inv => CooldownHolds
  <1> SUFFICES ASSUME Inv PROVE CooldownHolds
    OBVIOUS
  <1>1. Present(row) /\ row.cooldown > 0 => row.cooldown + hist.calm = Cooldown
    BY DEF Inv, RowGood, StateChecks, HistoryGood
  <1>2. ASSUME Decides, Decision.intent = "open", Planned.severity = "warning"
        PROVE  hist.calm = Cooldown
    <2> DEFINE s == Snapshot(plan.row, incident)
               mode == ResolutionMode(alert)
    <2>1. /\ RowGood(plan.row) /\ IncidentGood(plan.row, incident) /\ plan.incident = incident
          /\ HistoryGood(plan.row, hist) /\ EvaluationOK(alert, Planned)
      BY <1>2, Deciding
    <2>2. Decision = Advance(s, Planned, mode)
      BY <2>1 DEF Decision
    <2>3. Keeps(s, Planned, Decision, mode) \/ Pends(s, Planned, Decision)
            \/ Raises(s, Planned, Decision) \/ Resolves(s, Planned, Decision, mode)
      BY <2>1, <2>2, Decided
    <2>4. Raises(s, Planned, Decision)
      BY <1>2, <2>3 DEF Keeps, Pends, Resolves
    <2>5. plan.row.severity = "none" /\ plan.row.cooldown = 0
      BY <1>2, <2>1, <2>4, RaisesRow
    <2>6. QED
      BY <2>1, <2>5 DEF HistoryGood
  <1>3. QED
    BY <1>1, <1>2 DEF CooldownHolds

\* The life cycle is neither hasty nor slow, whatever was lost between two runs: two breaches
\* raise, the last of all clears resolves, and a cooldown is kept (Hysteresis).
THEOREM AlertsHaveHysteresis == Spec => []Hysteresis
  <1>1. Inv => Hysteresis
    BY RaiseNeedsTwo, ResolveNeedsAll, CooldownKept DEF Hysteresis
  <1>2. QED
    BY <1>1, AlertInvariant, PTL

\* The mails of an incident tell its story (MailTellsTheStory).
THEOREM MailsTellTheStory == Spec => []MailTellsTheStory
  <1>1. Inv => MailTellsTheStory
    BY DEF Inv, MailGood, MailTellsTheStory
  <1>2. QED
    BY <1>1, AlertInvariant, PTL

\* The evaluator and the tables agree on every decision but a pending escalation that is
\* given up (RefusedOnlyAbandoned).
THEOREM OnlyAbandonedRefused == Spec => []RefusedOnlyAbandoned
  <1>1. Inv => RefusedOnlyAbandoned
    BY OnlyAbandoned DEF GivenUp, RefusedOnlyAbandoned
  <1>2. QED
    BY <1>1, AlertInvariant, PTL

-------------------------------------------------------------------------------
\* One bag says what another does, of all the metrics that were observed for it.
Agrees(a, b) == DOMAIN a \subseteq DOMAIN b /\ \A m \in DOMAIN a : b[m] = a[m]

\* A leaf that is settled stays so when more is known,
LEMMA LeafAgrees ==
    ASSUME NEW a, NEW b, Agrees(a, b), NEW leaf, Leaf(leaf, a) # "unknown"
    PROVE  Leaf(leaf, b) = Leaf(leaf, a)
  <1>1. Observed(leaf, a)
    BY DEF Leaf
  <1>2. Observed(leaf, b)
    BY <1>1 DEF Observed, Agrees
  <1>3. CASE leaf.metric = "ratio"
    <2>1. b.numerator = a.numerator /\ b.denominator = a.denominator
      BY <1>1, <1>3 DEF Observed, Agrees
    <2>2. RatioReached(leaf, b) <=> RatioReached(leaf, a)
      BY <2>1 DEF RatioReached
    <2>3. QED
      BY <1>1, <1>2, <1>3, <2>2 DEF Leaf
  <1>4. CASE leaf.metric # "ratio"
    <2>1. b[leaf.metric] = a[leaf.metric]
      BY <1>1, <1>4 DEF Observed, Agrees
    <2>2. QED
      BY <1>1, <1>2, <1>4, <2>1 DEF Leaf
  <1>5. QED
    BY <1>3, <1>4

\* and so does a clause,
LEMMA ClauseAgrees ==
    ASSUME NEW a, NEW b, Agrees(a, b), NEW c, AllOf(c, a) # "unknown"
    PROVE  AllOf(c, b) = AllOf(c, a)
  <1>1. \A leaf : Leaf(leaf, a) # "unknown" => Leaf(leaf, b) = Leaf(leaf, a)
    BY LeafAgrees
  <1>2. CASE LeavesIn("clear", c, a) # {}
    <2>1. LeavesIn("clear", c, b) # {}
      BY <1>1, <1>2 DEF LeavesIn
    <2>2. QED
      BY <1>2, <2>1 DEF AllOf
  <1>3. CASE LeavesIn("clear", c, a) = {}
    <2>1. LeavesIn("unknown", c, a) = {}
      BY <1>3 DEF AllOf
    <2>2. \A i \in DOMAIN c : Leaf(c[i], a) = "breached"
      BY <1>3, <2>1 DEF LeavesIn, Leaf
    <2>3. \A i \in DOMAIN c : Leaf(c[i], b) = "breached"
      BY <1>1, <2>2
    <2>4. LeavesIn("clear", c, b) = {} /\ LeavesIn("unknown", c, b) = {}
      BY <2>3 DEF LeavesIn
    <2>5. QED
      BY <1>3, <2>1, <2>4 DEF AllOf
  <1>4. QED
    BY <1>2, <1>3

\* and an expression.
LEMMA ExpressionAgrees ==
    ASSUME NEW a, NEW b, Agrees(a, b), NEW x, AnyOf(x, a) # "unknown"
    PROVE  AnyOf(x, b) = AnyOf(x, a)
  <1>1. \A c : AllOf(c, a) # "unknown" => AllOf(c, b) = AllOf(c, a)
    BY ClauseAgrees
  <1>2. CASE ClausesIn("breached", x, a) # {}
    <2>1. ClausesIn("breached", x, b) # {}
      BY <1>1, <1>2 DEF ClausesIn
    <2>2. QED
      BY <1>2, <2>1 DEF AnyOf
  <1>3. CASE ClausesIn("breached", x, a) = {}
    <2>1. ClausesIn("unknown", x, a) = {}
      BY <1>3 DEF AnyOf
    <2>2. \A i \in DOMAIN x : AllOf(x[i], a) = "clear"
      BY <1>3, <2>1 DEF ClausesIn, AllOf
    <2>3. \A i \in DOMAIN x : AllOf(x[i], b) = "clear"
      BY <1>1, <2>2
    <2>4. ClausesIn("breached", x, b) = {} /\ ClausesIn("unknown", x, b) = {}
      BY <2>3 DEF ClausesIn
    <2>5. QED
      BY <1>3, <2>1, <2>4 DEF AnyOf
  <1>4. QED
    BY <1>2, <1>3

\* What an observation may be in truth agrees with it, in every window.
LEMMA CompletionAgrees ==
    ASSUME NEW rule \in Rules, NEW o, Parsed(rule, o), NEW p \in Completions(rule, o),
           rule = "oauth.client_report", NEW w \in Windows
    PROVE  Agrees(Metrics(rule, o, w), Metrics(rule, p, w))
  <1>1. PICK n \in 0..o.windows["60m"].count :
          p.windows = [v \in Windows |-> [count |-> o.windows[v].count,
                         high_risk_count |-> o.windows[v].high_risk_count,
                         distinct_reporters |-> IF o.windows[v].distinct_reporters = Unobserved
                                                THEN n ELSE o.windows[v].distinct_reporters]]
    BY DEF Completions
  <1>2. rule \notin CountRules \cup RatioRules \cup {"restricted.sensitive_denied"}
        /\ rule \notin SnapshotRules
    BY DEF CountRules, RatioRules, SnapshotRules
  <1>3. o.windows \in [Windows -> [count : Nat, high_risk_count : Nat,
                                   distinct_reporters : Nat \cup {-1}]]
    BY <1>2 DEF Parsed, Shaped, WindowCounters, Count, Known, Unobserved, CountRules, RatioRules
  <1> DEFINE a == o.windows[w]
             b == p.windows[w]
  <1>4. a \in [count : Nat, high_risk_count : Nat, distinct_reporters : Nat \cup {-1}]
    BY <1>3
  <1>5. b = [count |-> a.count, high_risk_count |-> a.high_risk_count,
             distinct_reporters |-> IF a.distinct_reporters = Unobserved
                                    THEN n ELSE a.distinct_reporters]
    BY <1>1
  <1>6. \A q : Metrics(rule, q, w) = IF q.windows[w].distinct_reporters = Unobserved
                                     THEN Without(q.windows[w], "distinct_reporters")
                                     ELSE q.windows[w]
    BY DEF Metrics, CountRules, RatioRules
  <1> HIDE DEF a, b
  <1>7. n # Unobserved /\ b.distinct_reporters # Unobserved
    BY <1>5, <1>4, <1>1 DEF Unobserved
  <1>8. Metrics(rule, p, w) = b
    BY <1>6, <1>7 DEF b
  <1>9. DOMAIN a = {"count", "high_risk_count", "distinct_reporters"}
        /\ DOMAIN b = {"count", "high_risk_count", "distinct_reporters"}
    BY <1>4, <1>5
  <1>10. CASE a.distinct_reporters = Unobserved
    <2>1. Metrics(rule, o, w) = Without(a, "distinct_reporters")
      BY <1>6, <1>10 DEF a
    <2>2. Agrees(Without(a, "distinct_reporters"), b)
      BY <1>5, <1>9 DEF Agrees, Without
    <2>3. QED
      BY <1>8, <2>1, <2>2
  <1>11. CASE a.distinct_reporters # Unobserved
    <2>1. Metrics(rule, o, w) = a
      BY <1>6, <1>11 DEF a
    <2>2. Agrees(a, b)
      BY <1>5, <1>9, <1>11 DEF Agrees
    <2>3. QED
      BY <1>8, <2>1, <2>2
  <1>12. QED
    BY <1>10, <1>11

\* What is breached or clear in an observation is so in all that it may be.
LEMMA WindowsAgree ==
    ASSUME NEW rule \in Rules, NEW o, NEW p, NEW severity,
           \A w \in Windows : Agrees(Metrics(rule, o, w), Metrics(rule, p, w))
    PROVE  /\ WindowsIn("breached", rule, o, severity) \subseteq
                WindowsIn("breached", rule, p, severity)
           /\ WindowsIn("breached", rule, o, severity) = {}
                /\ WindowsIn("unknown", rule, o, severity) = {} =>
                  WindowsIn("breached", rule, p, severity) = {}
  <1> DEFINE x(k) == Thresholds(rule)[Window[k]][severity]
             a(k) == Metrics(rule, o, Window[k])
             b(k) == Metrics(rule, p, Window[k])
  <1>1. \A k \in 1..3 : Window[k] \in Windows
    BY DEF Window, Windows
  <1>2. \A k \in 1..3 : Agrees(a(k), b(k))
    BY <1>1
  <1>3. \A status : WindowsIn(status, rule, o, severity) =
                      {k \in 1..3 : x(k) # Null /\ AnyOf(x(k), a(k)) = status}
    BY DEF WindowsIn
  <1>4. \A status : WindowsIn(status, rule, p, severity) =
                      {k \in 1..3 : x(k) # Null /\ AnyOf(x(k), b(k)) = status}
    BY DEF WindowsIn
  <1> HIDE DEF x, a, b
  <1>5. \A k \in 1..3 : AnyOf(x(k), a(k)) # "unknown" => AnyOf(x(k), b(k)) = AnyOf(x(k), a(k))
    BY <1>2, ExpressionAgrees
  <1>6. \A k \in 1..3 : AnyOf(x(k), a(k)) \in {"breached", "clear", "unknown"}
    BY DEF AnyOf
  <1>7. WindowsIn("breached", rule, o, severity) \subseteq WindowsIn("breached", rule, p, severity)
    BY <1>3, <1>4, <1>5
  <1>8. ASSUME WindowsIn("breached", rule, o, severity) = {},
               WindowsIn("unknown", rule, o, severity) = {}
        PROVE  WindowsIn("breached", rule, p, severity) = {}
    <2>1. \A k \in 1..3 : x(k) # Null => AnyOf(x(k), a(k)) = "clear"
      BY <1>3, <1>6, <1>8
    <2>2. \A k \in 1..3 : x(k) # Null => AnyOf(x(k), b(k)) = "clear"
      BY <1>5, <2>1
    <2>3. QED
      BY <1>4, <2>2
  <1>9. QED
    BY <1>7, <1>8

\* One evaluation is sound for another.
SoundFor(e, truth) ==
    /\ Rank(e.severity) <= Rank(truth.severity)
    /\ e.known /\ e.severity = "none" => truth.severity = "none"

\* The severities are ranked.
LEMMA RankOf == Rank("none") = 0 /\ Rank("warning") = 1 /\ Rank("critical") = 2
  BY DEF Rank

\* An evaluation is sound for itself.
LEMMA SoundOfItself ==
    ASSUME NEW rule, NEW e, EvaluationOK(rule, e) PROVE SoundFor(e, e)
  BY RankOf DEF SoundFor, EvaluationOK, Severities

\* An observation is rated no worse than what it may be in truth.
LEMMA CompletionSound ==
    ASSUME NEW rule \in Rules, NEW o, Parsed(rule, o), NEW p \in Completions(rule, o)
    PROVE  SoundFor(Evaluate(rule, o), Evaluate(rule, p))
  <1>1. CASE rule # "oauth.client_report"
    <2>1. p = o
      BY <1>1 DEF Completions
    <2>2. QED
      BY <2>1, EvaluateOK, SoundOfItself
  <1>2. CASE rule = "oauth.client_report"
    <2> DEFINE e == Evaluate(rule, o)
               f == Evaluate(rule, p)
               B(q, severity) == WindowsIn("breached", rule, q, severity)
               U(q, severity) == WindowsIn("unknown", rule, q, severity)
    <2>1. \A w \in Windows : Agrees(Metrics(rule, o, w), Metrics(rule, p, w))
      BY <1>2, CompletionAgrees
    <2>2. \A severity : /\ B(o, severity) \subseteq B(p, severity)
                        /\ B(o, severity) = {} /\ U(o, severity) = {} => B(p, severity) = {}
      BY <2>1, WindowsAgree
    <2>3. \A q : LET g == Evaluate(rule, q)
                 IN  /\ B(q, "critical") # {} => g.severity = "critical"
                     /\ B(q, "critical") = {} /\ B(q, "warning") # {} => g.severity = "warning"
                     /\ B(q, "critical") = {} /\ B(q, "warning") = {} =>
                          /\ g.severity = "none"
                          /\ g.known = (U(q, "critical") = {} /\ U(q, "warning") = {})
      BY <1>2 DEF Evaluate, Evaluation
    <2> HIDE DEF B, U
    <2>4. CASE B(o, "critical") # {}
      <3>1. e.severity = "critical" /\ f.severity = "critical"
        BY <2>2, <2>3, <2>4
      <3>2. QED
        BY <3>1, RankOf DEF SoundFor
    <2>5. CASE B(o, "critical") = {} /\ B(o, "warning") # {}
      <3>1. e.severity = "warning" /\ f.severity \in {"warning", "critical"}
        BY <2>2, <2>3, <2>5
      <3>2. QED
        BY <3>1, RankOf DEF SoundFor
    <2>6. CASE B(o, "critical") = {} /\ B(o, "warning") = {}
      <3>1. e.severity = "none" /\ f.severity \in {"none", "warning", "critical"}
        BY <2>3, <2>6
      <3>2. e.known => f.severity = "none"
        BY <2>2, <2>3, <2>6
      <3>3. QED
        BY <3>1, <3>2, RankOf DEF SoundFor
    <2>7. QED
      BY <2>4, <2>5, <2>6
  <1>3. QED
    BY <1>1, <1>2

\* What is not known is not counted as good (UnknownIsSound).
THEOREM UnknownNeverCountsAsGood == Spec => []UnknownIsSound
  <1>1. ASSUME NEW c \in Outcomes, NEW truth \in c.truths PROVE SoundFor(c.evaluation, truth)
    <2>1. PICK r \in DOMAIN Observations : \E o \in Observations[r] :
            c = [rule |-> r, evaluation |-> Evaluate(r, o),
                 truths |-> {Evaluate(r, p) : p \in Completions(r, o)}]
      BY DEF Outcomes
    <2>2. PICK o \in Observations[r] :
            c = [rule |-> r, evaluation |-> Evaluate(r, o),
                 truths |-> {Evaluate(r, p) : p \in Completions(r, o)}]
      BY <2>1
    <2>3. r \in Rules /\ Parsed(r, o)
      BY SampledAssumption
    <2>4. PICK p \in Completions(r, o) : truth = Evaluate(r, p)
      BY <1>1, <2>2
    <2>5. QED
      BY <2>2, <2>3, <2>4, CompletionSound
  <1>2. UnknownIsSound
    <2> SUFFICES ASSUME NEW c \in Outcomes, c.evaluation = Planned, NEW truth \in c.truths
                 PROVE  SoundFor(Planned, truth)
      BY DEF UnknownIsSound, SoundFor
    <2>1. QED
      BY <1>1
  <1>3. QED
    BY <1>2, PTL
===============================================================================
