------------------------------ MODULE AlertLifecycle ------------------------------
(***************************************************************************)
(* What one evaluation does to the state of an alert: hysteresis (two      *)
(* breaches open, ClearConsecutive clears resolve), escalation, cooldown   *)
(* and reminders. Pure: a state and an evaluation give a state and an      *)
(* intent. Times are relative to the evaluation: `cooldown` is what is     *)
(* left of it (0 when there is none), `quiet` the time since the last      *)
(* notification was scheduled.                                             *)
(***************************************************************************)
EXTENDS Integers

CONSTANTS ClearConsecutive,   \* clears in a row that resolve (5)
          Cooldown,           \* after an automatic resolution (30 minutes)
          CriticalReminder,   \* interval of reminders while critical (15 minutes)
          WarningReminder     \* and while it is a warning (60 minutes)

ASSUME PolicyAssumption ==
    /\ ClearConsecutive \in Nat \ {0, 1} /\ Cooldown \in Nat \ {0}
    /\ CriticalReminder \in Nat \ {0} /\ WarningReminder \in Nat \ {0}

Severities == {"none", "warning", "critical"}
NoBreach == [severity |-> "none"]

\* breach is NoBreach or the evidence of a breach that waits for a second one;
\* active likewise is the evidence the incident stands on.
State(status, active, breach, breaches, clears, cooldown, quiet) ==
    [status |-> status, active |-> active, breach |-> breach, breaches |-> breaches,
     clears |-> clears, cooldown |-> cooldown, quiet |-> quiet]

Inactive(cooldown) == State("none", NoBreach, NoBreach, 0, 0, cooldown, 0)

Phase(s) == IF s.status # "none" THEN "active"
            ELSE IF s.breaches > 0 THEN "pending" ELSE "inactive"

\* parseState: what the evaluator accepts as a previous state.
Readable(s) ==
    /\ (s.breach = NoBreach) = (s.breaches = 0)
    /\ s.breaches \in 0..1 /\ s.clears \in 0..(ClearConsecutive - 1)
    /\ s.breaches > 0 => s.clears = 0 /\ s.breach.severity \in {"warning", "critical"}
    /\ s.cooldown <= Cooldown
    /\ IF s.status = "none"
       THEN s.active = NoBreach /\ s.clears = 0 /\ s.quiet = 0
       ELSE /\ s.active # NoBreach /\ s.active.severity = s.status
            /\ s.cooldown = 0
            /\ s.breaches > 0 => s.status = "warning" /\ s.breach.severity = "critical"

Result(intent, s) == [intent |-> intent, state |-> s]

-------------------------------------------------------------------------------
(* The cases of advanceAlertLifecycle. s is the previous state, aged to    *)
(* the moment of the evaluation e.                                         *)

ReminderDue(s) ==
    s.quiet >= IF s.status = "critical" THEN CriticalReminder ELSE WarningReminder

\* stableActiveResult: nothing is pending any more, and a reminder goes out
\* when it is due.
Stable(s, evidence) ==
    IF ReminderDue(s)
    THEN Result("remind", State(s.status, evidence, NoBreach, 0, 0, s.cooldown, 0))
    ELSE Result("silent", State(s.status, evidence, NoBreach, 0, 0, s.cooldown, s.quiet))

\* (slip: clears count on across a gap)
BugGapKeepsClears(s) ==
    Result("silent", State(s.status, s.active, NoBreach, 0, s.clears, s.cooldown, s.quiet))

\* Evidence that is unknown is a gap: nothing is confirmed, nothing cleared.
Gap(s) ==
    Result("silent", State(s.status, s.active, NoBreach, 0, 0, s.cooldown, s.quiet))

Clear(s, mode) ==
    IF s.status = "none" THEN Result("silent", Inactive(s.cooldown))
    ELSE IF mode = "manual" THEN Stable(s, s.active)
    ELSE IF s.clears + 1 < ClearConsecutive
    THEN Result("silent", State(s.status, s.active, NoBreach, 0, s.clears + 1, s.cooldown,
                                s.quiet))
    ELSE Result("resolve", Inactive(Cooldown))

\* startOrContinueBreach.
Breaches(s, e) == IF s.breach.severity = e.severity THEN s.breaches + 1 ELSE 1

Required(e) == IF e.immediate THEN 1 ELSE 2

\* A breach above the current severity: pending until it is confirmed; then
\* it escalates a warning, or opens an incident. A warning waits for the end
\* of the cooldown, and stays one evaluation short of opening.
Candidate(s, e) ==
    IF Breaches(s, e) < Required(e)
    THEN Result("silent", State(s.status, s.active, e.evidence, Breaches(s, e), 0, s.cooldown,
                                s.quiet))
    ELSE IF s.status = "warning"
    THEN Result("escalate", State("critical", e.evidence, NoBreach, 0, 0, s.cooldown, 0))
    ELSE IF s.cooldown > 0 /\ e.severity = "warning"
    THEN Result("silent", State("none", NoBreach, e.evidence, Required(e) - 1, 0, s.cooldown,
                                s.quiet))
    ELSE Result("open", State(e.severity, e.evidence, NoBreach, 0, 0, 0, 0))

Advance(s, e, mode) ==
    IF ~e.known THEN Gap(s)
    ELSE IF e.severity = "none" THEN Clear(s, mode)
    ELSE IF s.status = "critical"
    THEN Stable(s, IF e.severity = "critical" THEN e.evidence ELSE s.active)
    ELSE IF e.severity = "warning" /\ s.status = "warning" THEN Stable(s, e.evidence)
    ELSE Candidate(s, e)
===============================================================================
