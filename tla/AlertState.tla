------------------------------- MODULE AlertState -------------------------------
(***************************************************************************)
(* One alert as the database keeps it: the row of alert_state, the         *)
(* incident of its current generation in security_alert, the mails of that *)
(* generation in alert_outbox. A run of the evaluator samples the source,  *)
(* reads row and incident, decides (AlertLifecycle), and persists the      *)
(* decision in one batch, which the CHECKs and triggers of the tables      *)
(* accept or refuse as a whole. Between the reading and the batch an       *)
(* operator may act, and a run may end before it has persisted.            *)
(* The database's clock is relative here: a row's `quiet` and `cooldown`   *)
(* are those of its timestamps at the moment (asOf) of the current run.    *)
(***************************************************************************)
EXTENDS AlertRules, AlertLifecycle

CONSTANTS Observations,    \* rule -> the observations of it that are explored
          MaxGeneration    \* bound: incidents of one alert

ASSUME SampledAssumption ==
    /\ DOMAIN Observations \subseteq Rules
    /\ \A r \in DOMAIN Observations : \A o \in Observations[r] : Parsed(r, o)
ASSUME BoundAssumption == MaxGeneration \in Nat

VARIABLES alert,     \* whose alert this is
          row,       \* the row of alert_state, or NoRow
          incident,  \* security_alert, current generation, or NoIncident
          mail,      \* alert_outbox, current generation: how many of each kind, the last
          plan,      \* what a run has read and decided, or NoPlan
          hist       \* history: what the accepted evaluations said

vars == <<alert, row, incident, mail, plan, hist>>

Manual == ResolutionMode(alert) = "manual"

Row(evidence, breach, breaches, clears, severity, generation, cooldown, quiet) ==
    [evidence |-> evidence, breach |-> breach, breaches |-> breaches, clears |-> clears,
     severity |-> severity, generation |-> generation, cooldown |-> cooldown,
     quiet |-> quiet]

NoRow == Row(NoEvidence, "none", 0, 0, "none", -1, 0, 0)
Present(r) == r.generation >= 0

Incident(generation, severity, evidence, status) ==
    [generation |-> generation, severity |-> severity, evidence |-> evidence,
     status |-> status]

NoIncident == Incident(0, "none", NoEvidence, "resolved")
Event(kind, severity, status) == [kind |-> kind, severity |-> severity, status |-> status]

\* Reminders are numbered without an end and are not counted here.
NoMail == [opened |-> 0, escalated |-> 0, resolved |-> 0,
           last |-> Event("none", "none", "resolved")]

\* What the observations evaluate to, and what each may be in truth.
Outcomes ==
    UNION {{[rule |-> r, evaluation |-> Evaluate(r, o),
             truths |-> {Evaluate(r, p) : p \in Completions(r, o)}] :
               o \in Observations[r]} : r \in DOMAIN Observations}
Evaluations(r) == {c.evaluation : c \in {d \in Outcomes : d.rule = r}}

NoPlan == [ready |-> FALSE]

Init ==
    /\ alert \in DOMAIN Observations
    /\ row = NoRow /\ incident = NoIncident /\ mail = NoMail /\ plan = NoPlan
    /\ hist = [last |-> "none", clears |-> 0, calm |-> Cooldown]

-------------------------------------------------------------------------------
(* readAlertLifecycleSnapshot                                              *)

\* The evidence columns with the thresholds of one severity.
Projected(r) == r.evidence

Snapshot(r, i) ==
    State(r.severity,
          IF r.severity = "none" THEN NoBreach ELSE i.evidence,
          IF r.breach = "none" THEN NoBreach ELSE Projected(r),
          r.breaches, r.clears, r.cooldown, r.quiet)

\* (slip: an incident that was acknowledged is not looked up)
BugOnlyOpen(r, i) ==
    IF r.severity = "none"
    THEN IF r.generation <= 0 THEN i = NoIncident
         ELSE i.generation = r.generation /\ i.status = "resolved"
    ELSE /\ i.generation = r.generation /\ i.status = "open"
         /\ i.severity = r.severity
         /\ r.breach = "none" => Projected(r) = i.evidence

\* Otherwise the reading fails with source_invalid.
Consistent(r, i) ==
    IF r.severity = "none"
    THEN IF r.generation <= 0 THEN i = NoIncident
         ELSE i.generation = r.generation /\ i.status = "resolved"
    ELSE /\ i.generation = r.generation /\ i.status # "resolved"
         /\ i.severity = r.severity
         /\ r.breach = "none" => Projected(r) = i.evidence

-------------------------------------------------------------------------------
(* The CHECKs and triggers of alert_state, security_alert, alert_outbox    *)

StateChecks(r) ==
    /\ Storable(alert, r.evidence)
    \* the thresholds in the row are those of the severity it stands for
    /\ IF r.breach # "none" THEN r.evidence.severity = r.breach
       ELSE r.severity # "none" => r.evidence.severity = r.severity
    /\ (r.breaches = 0) = (r.breach = "none")
    /\ r.severity = "critical" => r.breach = "none"
    /\ r.severity = "warning" => r.breach \in {"none", "critical"}
    /\ r.breaches = 0 \/ r.clears = 0
    /\ Manual => r.clears = 0
    /\ r.severity = "none" => r.clears = 0
    /\ r.severity # "none" => r.generation >= 1 /\ r.cooldown = 0

\* alert_state_initial_guard
InsertGuard(r) ==
    /\ r.severity = "none" /\ r.generation = 0 /\ r.clears = 0 /\ r.cooldown = 0
    /\ r.breach # "none" /\ r.breaches = 1

ImmediateEvidence(evidence) ==
    ImmediateMetric(alert, evidence.primary.metric)

\* alert_state_transition_guard
TransitionGuard(old, new, i) ==
    /\ new.generation = old.generation
         + IF old.severity = "none" /\ new.severity # "none" THEN 1 ELSE 0
    /\ CASE old.severity = "none" /\ new.severity = "none" -> new.cooldown = old.cooldown
         [] old.severity = "none" /\ new.severity = "warning" ->
              /\ old.breach = "warning" /\ old.breaches = 1 /\ old.cooldown = 0
              /\ new.breaches = 0 /\ new.clears = 0
         [] old.severity # "critical" /\ new.severity = "critical" ->
              /\ \/ old.breach = "critical" /\ old.breaches = 1
                 \/ ImmediateEvidence(new.evidence)
              /\ new.breaches = 0 /\ new.clears = 0
         [] old.severity # "none" /\ new.severity = "none" ->
              /\ \/ ~Manual /\ old.clears = ClearConsecutive - 1
                 \/ i.status = "resolved"
              /\ new.cooldown = Cooldown /\ new.breaches = 0 /\ new.clears = 0
         [] OTHER -> old.severity = new.severity

\* alert_state_counter_transition_guard
CounterGuard(old, new) ==
    old.severity = new.severity =>
      \/ <<new.breach, new.breaches, new.clears>> = <<old.breach, old.breaches, old.clears>>
      \/ new.breach # "none" /\ new.breaches = 1 /\ new.clears = 0
      \/ new.breach = "none" /\ new.breaches = 0 /\ new.clears = 0
      \/ /\ old.severity # "none" /\ ~Manual /\ old.breaches = 0 /\ new.breaches = 0
         /\ new.clears = old.clears + 1 /\ new.clears < ClearConsecutive

\* The CHECKs of security_alert; only an operator resolves by hand.
IncidentChecks(old, new) ==
    /\ Storable(alert, new.evidence)
    /\ new.status = "resolved" /\ old.status # "resolved" => ~Manual

\* security_alert_insert_state_guard and security_alert_update_state_guard
IncidentGuard(r, i) ==
    i.status # "resolved" =>
      /\ r.generation = i.generation /\ r.severity = i.severity /\ r.breach = "none"
      /\ r.evidence = i.evidence

\* security_alert_transition_guard
IncidentTransition(old, new) ==
    new.generation = old.generation =>
      /\ new.severity = old.severity \/ new.severity = "critical"
      /\ old.status = "resolved" => new = old
      /\ old.status = "acknowledged" => new.status # "open"
      /\ new.status = "resolved" => new.evidence = old.evidence

\* alert_outbox_incident_snapshot_guard
EventGuard(r, i, event) ==
    /\ i.status = event.status /\ i.severity = event.severity
    /\ r.severity = IF event.kind = "resolved" THEN "none" ELSE event.severity

-------------------------------------------------------------------------------
(* Planning and persisting                                                 *)

Minimum(a, b) == IF a <= b THEN a ELSE b
Longest == IF WarningReminder >= CriticalReminder THEN WarningReminder ELSE CriticalReminder

\* A minute later.
Aged(r) ==
    Row(r.evidence, r.breach, r.breaches, r.clears, r.severity, r.generation,
        IF r.cooldown > 0 THEN r.cooldown - 1 ELSE 0,
        IF r.severity = "none" THEN 0 ELSE Minimum(r.quiet + 1, Longest))

\* A run binds its moment, collects the sources, which evaluate to e, and reads
\* the state.
Plan(e) ==
    /\ ~plan.ready
    /\ row' = Aged(row)
    /\ Consistent(row, incident)
    /\ plan' = [ready |-> TRUE, evaluation |-> e, row |-> row', incident |-> incident]
    /\ hist' = [hist EXCEPT !.calm = Minimum(hist.calm + 1, Cooldown)]
    /\ UNCHANGED <<alert, incident, mail>>

\* persistedEvidence: only a breach replaces the evidence in the row.
PersistedEvidence(old, e, s) ==
    IF e.severity = "none" THEN old.evidence
    ELSE IF s.breach # NoBreach THEN s.breach ELSE s.active

\* prepareStateInsert and prepareImmediateConfirmation, or prepareStateUpdate.
NextRow(old, e, d) ==
    Row(PersistedEvidence(old, e, d.state), d.state.breach.severity, d.state.breaches,
        d.state.clears, d.state.status,
        (IF Present(old) THEN old.generation ELSE 0) + IF d.intent = "open" THEN 1 ELSE 0,
        d.state.cooldown, d.state.quiet)

\* The incident, written by an intent, or refreshed by a breach of its severity.
NextIncident(i, r, e, d) ==
    CASE d.intent = "open" -> Incident(r.generation, r.severity, r.evidence, "open")
      [] d.intent = "escalate" -> Incident(i.generation, "critical", r.evidence, i.status)
      [] d.intent = "resolve" -> Incident(i.generation, i.severity, i.evidence, "resolved")
      [] OTHER ->
           IF r.severity # "none" /\ e.severity = r.severity
           THEN Incident(i.generation, i.severity, r.evidence, i.status) ELSE i

\* (slip: an escalation is not mailed)
BugQuietEscalation(i, d) ==
    CASE d.intent = "open" -> Event("opened", i.severity, "open")
      [] d.intent = "resolve" -> Event("resolved", i.severity, "resolved")
      [] OTHER -> NoMail.last

NextEvent(i, d) ==
    CASE d.intent = "open" -> Event("opened", i.severity, "open")
      [] d.intent = "escalate" -> Event("escalated", "critical", i.status)
      [] d.intent = "resolve" -> Event("resolved", i.severity, "resolved")
      [] d.intent = "remind" -> Event("reminder", i.severity, i.status)
      [] OTHER -> NoMail.last

\* Every incident has its own mails.
Counted(box, event) ==
    IF event = NoMail.last THEN box
    ELSE LET old == IF event.kind = "opened" THEN NoMail ELSE box
             more(kind) == IF event.kind = kind THEN 1 ELSE 0
         IN  [opened |-> old.opened + more("opened"),
              escalated |-> old.escalated + more("escalated"),
              resolved |-> old.resolved + more("resolved"), last |-> event]

\* The row that an insertion writes before its confirmation.
Inserted(r, e) == Row(r.evidence, e.severity, 1, 0, "none", 0, 0, 0)

\* normalizeDecision: what the repository is ready to persist.
WellFormed(d) ==
    /\ Readable(d.state)
    /\ d.intent = "open" => d.state.status # "none"
    /\ d.intent = "escalate" => d.state.status = "critical"
    /\ d.intent = "remind" => d.state.status # "none"
    /\ d.intent = "resolve" => d.state.status = "none"

\* The whole batch passes, or none of it.
Accepted(old, i, e, r, j, event) ==
    /\ StateChecks(r)
    /\ IF Present(old)
       THEN TransitionGuard(old, r, i) /\ CounterGuard(old, r)
       ELSE /\ StateChecks(Inserted(r, e)) /\ InsertGuard(Inserted(r, e))
            /\ r.severity # "none" => TransitionGuard(Inserted(r, e), r, i)
    /\ j # i => IncidentChecks(i, j) /\ IncidentGuard(r, j) /\ IncidentTransition(i, j)
    /\ event # NoMail.last => EventGuard(r, j, event)

Heard(e) == IF e.known THEN e.severity ELSE "unknown"

Noted(h, e, accepted, resolved) ==
    [last |-> IF accepted THEN Heard(e) ELSE h.last,
     clears |-> IF Heard(e) = "none" THEN Minimum(h.clears + 1, ClearConsecutive) ELSE 0,
     calm |-> IF resolved THEN 0 ELSE h.calm]

Planned == plan.evaluation
Decision == Advance(Snapshot(plan.row, plan.incident), Planned, ResolutionMode(alert))

\* The revision of the row and the status and time of the incident are still
\* those that were read.
Current == row = plan.row /\ incident = plan.incident

Nothing == ~Present(plan.row) /\ Planned.severity = "none"
Decides == plan.ready /\ ~Nothing /\ Current

NewRow == NextRow(plan.row, Planned, Decision)
NewIncident == NextIncident(plan.incident, NewRow, Planned, Decision)
NewEvent == NextEvent(NewIncident, Decision)
BatchAccepted ==
    WellFormed(Decision)
      /\ Accepted(plan.row, incident, Planned, NewRow, NewIncident, NewEvent)

\* persistAlertLifecycleDecision: who finds another revision than was read has
\* a conflict; who is refused by the schema has a failed write; both end the run.
Persist ==
    /\ plan.ready
    /\ NewRow.generation <= MaxGeneration
    /\ plan' = NoPlan
    /\ UNCHANGED alert
    /\ \/ /\ Nothing
          /\ UNCHANGED <<row, incident, mail>>
          /\ hist' = Noted(hist, Planned, TRUE, FALSE)
       \/ /\ Decides /\ BatchAccepted
          /\ row' = NewRow /\ incident' = NewIncident
          /\ mail' = Counted(mail, NewEvent)
          /\ hist' = Noted(hist, Planned, TRUE, Decision.intent = "resolve")
       \/ /\ Decides /\ ~BatchAccepted
          /\ UNCHANGED <<row, incident, mail>>
          /\ hist' = Noted(hist, Planned, FALSE, FALSE)
       \/ /\ ~Nothing /\ ~Current
          /\ UNCHANGED <<row, incident, mail, hist>>

\* The run loses its lease, or crashes, before it has persisted.
Abandon ==
    /\ plan.ready
    /\ plan' = NoPlan
    /\ UNCHANGED <<alert, row, incident, mail, hist>>

-------------------------------------------------------------------------------
(* The operator (external: only the tables' guards are in the repository)  *)

Acknowledge ==
    /\ incident.status = "open"
    /\ LET j == Incident(incident.generation, incident.severity, incident.evidence,
                         "acknowledged")
       IN  /\ IncidentGuard(row, j) /\ IncidentTransition(incident, j)
           /\ incident' = j
    /\ UNCHANGED <<alert, row, mail, plan, hist>>

\* The row may leave an active severity once the incident of its generation is
\* resolved with an operator's reference.
OperatorResolve ==
    /\ incident.status # "resolved"
    /\ LET j == Incident(incident.generation, incident.severity, incident.evidence, "resolved")
           r == Row(row.evidence, "none", 0, 0, "none", row.generation, Cooldown, 0)
       IN  /\ IncidentTransition(incident, j)
           /\ StateChecks(r) /\ TransitionGuard(row, r, j) /\ CounterGuard(row, r)
           /\ incident' = j /\ row' = r
    /\ hist' = [hist EXCEPT !.calm = 0]
    /\ UNCHANGED <<alert, mail, plan>>

Next ==
    \/ \E e \in Evaluations(alert) : Plan(e)
    \/ Persist \/ Abandon \/ Acknowledge \/ OperatorResolve

Spec == Init /\ [][Next]_vars

-------------------------------------------------------------------------------
(* Properties                                                              *)

TypeOK ==
    /\ alert \in Rules
    /\ row.severity \in Severities /\ row.breach \in Severities
    /\ row.breaches \in 0..1 /\ row.clears \in 0..(ClearConsecutive - 1)
    /\ row.generation \in -1..MaxGeneration
    /\ row.cooldown \in 0..Cooldown /\ row.quiet \in 0..Longest
    /\ incident.severity \in Severities
    /\ incident.status \in {"open", "acknowledged", "resolved"}
    /\ mail.opened \in 0..1 /\ mail.escalated \in 0..1 /\ mail.resolved \in 0..1
    /\ mail.last.kind \in {"none", "opened", "reminder", "escalated", "resolved"}
    /\ hist.last \in Severities \cup {"unknown"} /\ hist.clears \in 0..ClearConsecutive
    /\ hist.calm \in 0..Cooldown

\* Whatever was persisted can be read again: row and incident agree, and the
\* evidence is of an alternative that the rule still has. A row that cannot
\* be read stops the evaluation of its rule for good.
StateIsReadable ==
    Present(row) =>
      /\ Consistent(row, incident)
      /\ Readable(Snapshot(row, incident))
      /\ row.severity # "none" => Canonical(alert, incident.evidence)
      /\ row.breach # "none" => Canonical(alert, row.evidence)

\* The evaluator raises an alert (opens it, or makes it critical) only on two
\* evaluations in a row of that severity, whatever was lost, refused or unknown
\* in between; a cause that is critical at once needs one.
TwoBreachesRaise ==
    Decides /\ Decision.intent \in {"open", "escalate"} =>
      \/ hist.last = Planned.severity
      \/ Planned.severity = "critical" /\ Planned.immediate

\* It resolves an incident only on the last of ClearConsecutive evaluations in a
\* row that were known to be clear, and never when the rule is manual.
ClearsResolve ==
    Decides /\ Decision.intent = "resolve" =>
      /\ Planned.known /\ Planned.severity = "none" /\ ~Manual
      /\ hist.last = "none" /\ hist.clears >= ClearConsecutive - 1

\* After a resolution, of either kind, no warning opens before the cooldown has
\* passed: the evaluations in between neither shorten it nor extend it.
CooldownHolds ==
    /\ Present(row) /\ row.cooldown > 0 => row.cooldown + hist.calm = Cooldown
    /\ Decides /\ Decision.intent = "open" /\ Planned.severity = "warning" =>
         hist.calm = Cooldown

\* The life cycle is neither hasty nor slow, whatever was lost between two runs.
Hysteresis == TwoBreachesRaise /\ ClearsResolve /\ CooldownHolds

\* The mails of an incident tell its story: it is opened once, first; becomes
\* critical once; after it is resolved there is silence; and the last mail is
\* about the severity the incident has.
MailTellsTheStory ==
    mail # NoMail =>
      /\ mail.opened = 1
      /\ mail.escalated = 1 => incident.severity = "critical"
      /\ mail.last.severity = incident.severity
      /\ mail.resolved = 1 => mail.last.kind = "resolved" /\ incident.status = "resolved"

\* The evaluator and the tables agree: a decision is refused in one case only,
\* when an escalation that was pending is given up without a breach.
RefusedOnlyAbandoned ==
    Decides => \/ BatchAccepted
               \/ /\ plan.row.severity = "warning" /\ plan.row.breach = "critical"
                  /\ Planned.severity = "none"

\* What is not known is not counted as good: an observation with a part that
\* could not be observed is never rated above what it may be in truth, and is
\* rated as clear only if it is clear in every case.
Rank(severity) == CASE severity = "none" -> 0 [] severity = "warning" -> 1
                    [] severity = "critical" -> 2
UnknownIsSound ==
    plan.ready =>
      \A c \in Outcomes : c.rule = alert /\ c.evaluation = Planned =>
        \A truth \in c.truths :
        /\ Rank(Planned.severity) <= Rank(truth.severity)
        /\ Planned.known /\ Planned.severity = "none" => truth.severity = "none"

\* Five clear evaluations in a row resolve an incident of an automatic rule.
FifthClearResolves ==
    row.severity # "none" /\ ~Manual => hist.clears < ClearConsecutive
===============================================================================
