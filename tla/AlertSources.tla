------------------------------ MODULE AlertSources ------------------------------
(***************************************************************************)
(* The readers of the evaluator's sources, up to the observations          *)
(* themselves. Every reader asks the database once and judges what came    *)
(* back: it fails as a whole, or names the groups (a rule and a kind of    *)
(* dimension) it knows only in part, and returns observations of groups.   *)
(* A caller must not calm the alerts of a group that is known in part.     *)
(* Pure: the facts about the answer are the input. A broken timestamp that *)
(* the query returns itself is a fact about its rows.                      *)
(***************************************************************************)
EXTENDS Integers, FiniteSets

CONSTANTS Source,     \* where observations come from (nine)
          Group,      \* a rule and a kind of dimension
          Hashed,     \* groups whose dimensions are named by a keyed hash
          SourceOf,   \* Group -> Source
          ReaderOf    \* Source -> the reader that serves it

Readers == {"audit", "oauth", "logout", "fanout", "health", "queue"}

ASSUME SourcesAssumption ==
    /\ Hashed \subseteq Group /\ SourceOf \in [Group -> Source]
    /\ ReaderOf \in [Source -> Readers]

GroupsOf(s) == {g \in Group : SourceOf[g] = s}

\* What the rows of a group look like: counted; too many, or too large to count;
\* with a person nobody can name; or contradicting each other.
RowFacts == {"whole", "overflow", "anonymous", "contrary"}

\* The key of the run against the sentinel that was stored when keys were last
\* rotated. No sentinel is a missing key.
KeyFacts == {"matches", "missing", "malformed"}

\* answered: the batch came back; dated: no timestamp of the tables is broken;
\* agreed: what is summed over clients is what was counted globally.
Facts == [answered : BOOLEAN, dated : BOOLEAN, key : KeyFacts, agreed : BOOLEAN,
          rows : [Group -> RowFacts]]

\* A reading: its status, the groups known in part, the groups observed.
Failed(status) == [status |-> status, gaps |-> {}, kept |-> {}]

Read(gaps, kept) ==
    [status |-> IF gaps = {} THEN "complete" ELSE "partial", gaps |-> gaps, kept |-> kept]

Unkeyed(g, f) == g \in Hashed /\ f.key # "matches"

Uncounted(g, f) == f.rows[g] # "whole" \/ Unkeyed(g, f)

-------------------------------------------------------------------------------
(* One operator for each reader                                            *)

\* Rows of a hashed group are not looked at without the key.
AuditContrary(s, f) == \E g \in GroupsOf(s) : f.rows[g] = "contrary" /\ ~Unkeyed(g, f)

AuditGaps(s, f) == {g \in GroupsOf(s) : Uncounted(g, f)}

\* One contradiction makes all of the audit invalid; a gap stays in its group.
AuditReading(s, f) ==
    IF ~f.answered THEN Failed("unavailable")
    ELSE IF ~f.dated \/ f.key = "malformed" \/ AuditContrary(s, f) THEN Failed("invalid")
    ELSE Read(AuditGaps(s, f), GroupsOf(s) \ AuditGaps(s, f))

\* A reporter nobody can name leaves the count of reporters open: the clients
\* are observed all the same, as known in part. Everything else is a gap.
OAuthGaps(s, f) == {g \in GroupsOf(s) : Uncounted(g, f)}

OAuthKept(s, f) ==
    {g \in GroupsOf(s) : f.rows[g] \in {"whole", "anonymous"} /\ ~Unkeyed(g, f)}

OAuthReading(s, f) ==
    IF ~f.answered THEN Failed("unavailable")
    ELSE IF ~f.dated \/ f.key = "malformed" THEN Failed("invalid")
    ELSE Read(OAuthGaps(s, f), OAuthKept(s, f))

\* The sums over clients are compared when both sides could be counted.
LogoutDisagrees(s, f) == ~f.agreed /\ \A g \in GroupsOf(s) : ~Uncounted(g, f)

LogoutGaps(s, f) ==
    {g \in GroupsOf(s) : ~f.dated \/ Uncounted(g, f) \/ LogoutDisagrees(s, f)}

\* Here a contradiction, or a broken timestamp, is a gap and not a failure.
LogoutReading(s, f) ==
    IF ~f.answered THEN Failed("unavailable")
    ELSE IF f.key = "malformed" THEN Failed("invalid")
    ELSE Read(LogoutGaps(s, f), GroupsOf(s) \ LogoutGaps(s, f))

Wrong(s, f, fact) == \E g \in GroupsOf(s) : f.rows[g] = fact

FanoutReading(s, f) ==
    IF ~f.answered THEN Failed("unavailable")
    ELSE IF ~f.dated \/ Wrong(s, f, "contrary") THEN Failed("invalid")
    ELSE IF Wrong(s, f, "overflow") THEN Read(GroupsOf(s), {})
    ELSE Read({}, GroupsOf(s))

\* Before the first run that succeeded there is no health to speak of.
HealthReading(s, f, succeeded) ==
    IF ~f.answered THEN Failed("unavailable")
    ELSE IF Wrong(s, f, "contrary") THEN Failed("invalid")
    ELSE IF ~succeeded THEN Read({}, {})
    ELSE IF Wrong(s, f, "overflow") THEN Read(GroupsOf(s), {})
    ELSE Read({}, GroupsOf(s))

\* A sample that was not taken, is out of range or was not stored is no sample.
Sampled(s, f) == f.answered /\ \A g \in GroupsOf(s) : f.rows[g] = "whole"

QueueReading(s, f) ==
    IF Sampled(s, f) THEN Read({}, GroupsOf(s)) ELSE Failed("unavailable")

Reading(s, f, succeeded) ==
    CASE ReaderOf[s] = "audit" -> AuditReading(s, f)
      [] ReaderOf[s] = "oauth" -> OAuthReading(s, f)
      [] ReaderOf[s] = "logout" -> LogoutReading(s, f)
      [] ReaderOf[s] = "fanout" -> FanoutReading(s, f)
      [] ReaderOf[s] = "health" -> HealthReading(s, f, succeeded)
      [] ReaderOf[s] = "queue" -> QueueReading(s, f)

\* What a source may answer, before and after the first success.
Results == [s \in Source |-> [succeeded \in BOOLEAN |-> {Reading(s, f, succeeded) : f \in Facts}]]
===============================================================================
