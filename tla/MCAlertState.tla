------------------------------ MODULE MCAlertState ------------------------------
(***************************************************************************)
(* Observations for TLC: for every rule its thresholds and the values next *)
(* to them, in each window, as far as an observation is well formed.       *)
(***************************************************************************)
EXTENDS AlertState, TLC

NoWindows == <<>>
NoSnapshot == [none |-> 0]
Over(a, b, c) == [w \in Windows |-> CASE w = "5m" -> a [] w = "15m" -> b [] w = "60m" -> c]
InWindows(A, B, C, n) == {[windows |-> Over(a, b, c), now |-> n] : a \in A, b \in B, c \in C}

Counter(n) == [count |-> n]
Counters(S) == {Counter(n) : n \in S}
CountsAt(a, b, c) ==
    InWindows(Counters({0, a}), Counters({b - 1, b}), Counters({b, c - 1, c}), NoSnapshot)
      \cup InWindows(Counters({0}), Counters({0}), Counters({0}), NoSnapshot)

\* A ratio: nothing, one sample too few, one hit too few, and exactly enough.
Share(n, d) == [numerator |-> n, denominator |-> d]
Hits(leaf) ==
    LET part == (leaf.samples * leaf.value + 9999) \div 10000
    IN  IF part >= leaf.hits THEN part ELSE leaf.hits
At(leaf) == Share(Hits(leaf), leaf.samples)
Few(leaf) == Share(leaf.samples - 1, leaf.samples - 1)
Low(leaf) == Share(Hits(leaf) - 1, leaf.samples)
LeafOf(r, w, severity) == Thresholds(r)[w][severity][1][1]
RatiosAt(r) ==
    LET l5 == LeafOf(r, "5m", "warning")
        l15 == LeafOf(r, "15m", "warning")
        l60 == LeafOf(r, "60m", "critical")
    IN  InWindows({Share(0, 0), Few(l5), At(l5)}, {Few(l5), Low(l15), At(l15)},
                  {Low(l60), At(l60), Few(l60)}, NoSnapshot)

Denials(n, m) == [count |-> n, known_surfaces |-> m]
RestrictedDenials ==
    InWindows({Denials(0, 0), Denials(3, 1)}, {Denials(4, 1), Denials(5, 1)},
              {Denials(5, 1), Denials(5, 2), Denials(19, 1), Denials(20, 1)}, NoSnapshot)

Entries(d, s, l) == [denied |-> d, started |-> s, rate_limited |-> l]
RecoveryEntries ==
    InWindows({Entries(0, 0, 0), Entries(5, 1, 0), Entries(0, 0, 5)},
              {Entries(5, 1, 9), Entries(12, 3, 10)},
              {Entries(40, 4, 10), Entries(39, 4, 10), Entries(12, 4, 40)}, NoSnapshot)

\* The number of distinct reporters may be unknown.
Reports(n, h, d) == [count |-> n, high_risk_count |-> h, distinct_reporters |-> d]
ClientReports ==
    InWindows({Reports(0, 0, 0), Reports(1, 1, 1)},
              {Reports(2, 0, 1), Reports(3, 1, 1), Reports(3, 1, Unobserved)},
              {Reports(3, 3, 1), Reports(3, 3, 2), Reports(3, 3, Unobserved),
               Reports(9, 2, Unobserved), Reports(10, 2, Unobserved)}, NoSnapshot)

Acts(s, d) == [successes |-> s, protected_denials |-> d]
AdminActs ==
    InWindows({Acts(0, 0), Acts(1, 0), Acts(0, 1)}, {Acts(1, 1), Acts(2, 1)},
              {Acts(2, 1), Acts(5, 4), Acts(5, 5)}, NoSnapshot)

Snapshots(S) == {[windows |-> NoWindows, now |-> n] : n \in S}
Missing(m5, m15) == [missing_5m |-> m5, missing_15m |-> m15]
Gaps == Snapshots({Missing(0, 0), Missing(1, 0), Missing(9, 0), Missing(10, 0), Missing(1, 1),
                   Missing(10, 1)})

Work(e, u, x) == [eligible |-> e, unresolved |-> u, lease_expired |-> x]
Now(u, d, age) == [unresolved |-> u, dead |-> d, oldest |-> age]
Deliveries ==
    InWindows({Work(0, 0, 0)}, {Work(0, 0, 0)}, {Work(0, 0, 0), Work(20, 10, 4)},
              Now(0, 0, Unobserved))
      \cup InWindows({Work(0, 0, 0), Work(5, 1, 0), Work(5, 3, 1)}, {Work(5, 3, 1), Work(10, 5, 3)},
                     {Work(20, 5, 5)}, Now(1, 0, 119))
      \cup InWindows({Work(0, 0, 0)}, {Work(9, 1, 0)}, {Work(19, 1, 0)}, Now(1, 0, 120))
      \cup InWindows({Work(0, 0, 0)}, {Work(9, 1, 0)}, {Work(19, 1, 0)}, Now(1, 0, 300))
      \cup InWindows({Work(5, 3, 0)}, {Work(5, 3, 0)}, {Work(5, 3, 0)}, Now(2, 1, 300))

Health(dead, age, due) == [dead_outbox |-> dead, evaluator_age |-> age, outbox_due_age |-> due]
RuntimeHealth ==
    Snapshots({Health(0, 180, 120), Health(0, 181, 120), Health(0, 180, 121),
               Health(0, 301, 120), Health(0, 180, 301), Health(0, Unobserved, 0),
               Health(1, 180, 0), Health(1, 301, 0)})

Queue(sampled, depth, samples, elapsed, oldest) ==
    [sampled |-> sampled, depth |-> depth, samples |-> samples, elapsed |-> elapsed,
     oldest |-> oldest]
QueueSamples ==
    Snapshots({Queue(FALSE, 0, 0, 0, FALSE), Queue(TRUE, 0, 0, 0, FALSE),
               Queue(TRUE, 0, 1, 60, FALSE), Queue(TRUE, 9, 1, 0, TRUE),
               Queue(TRUE, 10, 1, 60, TRUE), Queue(TRUE, 1, 15, 899, TRUE),
               Queue(TRUE, 1, 15, 900, TRUE), Queue(TRUE, 1, 15, 120, TRUE)})

MCSamples(r) ==
    CASE r = "registration.rate_limited" -> CountsAt(5, 10, 40)
      [] r = "registration.denied" -> CountsAt(10, 25, 100)
      [] r = "registration.restricted_created" -> CountsAt(7, 20, 80)
      [] r = "admin.directory_volume" -> CountsAt(20, 50, 200)
      [] r \in RatioRules -> RatiosAt(r)
      [] r = "restricted.sensitive_denied" -> RestrictedDenials
      [] r = "recovery.entry_abuse" -> RecoveryEntries
      [] r = "oauth.client_report" -> ClientReports
      [] r = "admin.sensitive_activity" -> AdminActs
      [] r = "security.fanout_gap" -> Gaps
      [] r = "logout.delivery_health" -> Deliveries
      [] r = "alert.runtime_health" -> RuntimeHealth
      [] r = "queue.dlq_approximate" -> QueueSamples

MCObservations == [r \in Rules |-> {o \in MCSamples(r) : Parsed(r, o)}]
===============================================================================
