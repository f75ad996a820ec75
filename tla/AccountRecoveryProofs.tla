------------------------ MODULE AccountRecoveryProofs ------------------------
(***************************************************************************)
(* What AccountRecovery guarantees for every number of codes, generations, *)
(* recoveries, challenges, sessions and concurrent requests.               *)
(***************************************************************************)
EXTENDS AccountRecovery, FiniteSetTheorems, TLAPS

\* The set in force is the newest or older, and whoever issued a set was signed in.
SessionInv ==
    /\ active <= newest
    /\ session \subseteq used
    /\ \A g \in Generation : issuer[g] # None => g <= newest /\ issuer[g] \in used
    /\ EndedSessionIssuesNothing

\* A code that opened a recovery is never unused again; without a set there is none.
CodeInv ==
    /\ active = 0 => unused = {}
    /\ \A o \in openings : /\ o[1] <= newest /\ o[3] \in used
                           /\ o[1] = active => o[2] \notin unused
    /\ CodeOpensOne

\* An open recovery has not ended.
OpenInv ==
    /\ closed \cup completed \subseteq used
    /\ Open => recovery.id \in used \ (closed \cup completed)
    /\ ClosedStaysClosed
    /\ RecoveryIsGrounded

\* The challenges that are outstanding or being answered have been used.
CeremonyInv ==
    /\ Open => recovery.challenge \in used \cup {None}
    /\ \A q \in Requests : request[q].kind = "complete" => request[q].challenge \in used
    /\ ChallengeServesOne

IInv == TypeOK /\ SessionInv /\ CodeInv /\ OpenInv /\ CeremonyInv

-------------------------------------------------------------------------------
(* Frames                                                                  *)

LEMMA SessionFrame ==
    ASSUME SessionInv, UNCHANGED <<session, active, newest, issuer, endedAt>>,
           used \subseteq used'
    PROVE  SessionInv'
  BY NoneAssumption DEF SessionInv, EndedSessionIssuesNothing

LEMMA CodeFrame ==
    ASSUME CodeInv, UNCHANGED <<active, newest, openings>>, unused' \subseteq unused,
           used \subseteq used'
    PROVE  CodeInv'
  BY DEF CodeInv, CodeOpensOne

LEMMA OpenFrame ==
    ASSUME OpenInv, UNCHANGED <<recovery, closed, completed, active, openings, unused>>,
           used \subseteq used', status' = status \/ status' = "active"
    PROVE  OpenInv'
  BY DEF OpenInv, ClosedStaysClosed, RecoveryIsGrounded, Open

LEMMA CeremonyFrame ==
    ASSUME CeremonyInv, UNCHANGED <<recovery, request>>, used \subseteq used'
    PROVE  CeremonyInv'
  BY DEF CeremonyInv, ChallengeServesOne, Open

\* What a request remembers next.
LEMMA GotoIs ==
    ASSUME TypeOK, NEW q \in Requests, NEW x \in Pending, Goto(q, x)
    PROVE  /\ request' \in [Requests -> Pending]
           /\ \A p \in Requests : request'[p] = IF p = q THEN x ELSE request[p]
  <1>1. request \in [Requests -> Pending]
    BY DEF TypeOK
  <1>2. request' = [request EXCEPT ![q] = x]
    BY DEF Goto
  <1>3. QED
    BY <1>1, <1>2

LEMMA IdleIs == Idle \in Pending /\ Idle.kind = "idle"
  BY DEF Idle, Pending

\* A request that does not begin to answer a challenge, while the open recovery
\* keeps its challenge or loses it.
LEMMA CeremonyGoto ==
    ASSUME TypeOK, CeremonyInv, NEW q \in Requests, NEW x \in Pending, Goto(q, x),
           x.kind # "complete", used \subseteq used',
           Open' => \/ recovery'.challenge = None
                    \/ Open /\ recovery'.challenge = recovery.challenge
    PROVE  CeremonyInv'
  <1>1. \A p \in Requests : request'[p] = IF p = q THEN x ELSE request[p]
    BY GotoIs
  <1>2. \A p \in Requests : request'[p].kind = "complete" => p # q /\ request'[p] = request[p]
    BY <1>1
  <1>3. \A p \in Requests : request[p].kind = "complete" => request[p].challenge \in used
    BY DEF CeremonyInv
  <1>4. Open' => recovery'.challenge \in used' \cup {None}
    BY DEF CeremonyInv
  <1>5. \A p \in Requests : request'[p].kind = "complete" => request'[p].challenge \in used'
    BY <1>2, <1>3
  <1>6. \A p \in Requests : request[p].kind = "complete" => request[p].challenge # None
    <2> TAKE p \in Requests
    <2>1. request[p] \in Pending
      BY DEF TypeOK
    <2>2. QED
      BY <2>1, NoneAssumption DEF Pending, Idle, StartRequest, OptionsRequest, VerifyRequest,
         CompleteRequest, ManageRequest, UnlinkRequest, RemoveRequest
  <1>7. ChallengeServesOne'
    BY <1>2, <1>6 DEF CeremonyInv, ChallengeServesOne
  <1>8. QED
    BY <1>4, <1>5, <1>7 DEF CeremonyInv

-------------------------------------------------------------------------------
(* Steps that change requests or ways to sign in only                      *)

\* A step that only remembers something.
LEMMA RequestStep ==
    ASSUME IInv, NEW q \in Requests, NEW x \in Pending, Goto(q, x), x.kind # "complete",
           UNCHANGED <<status, central, codes, recovery, used, history>>,
           accounts' \subseteq Providers, passkeys' \subseteq Passkeys
    PROVE  IInv'
  <1>1. request' \in [Requests -> Pending]
    BY GotoIs DEF IInv
  <1>2. TypeOK'
    BY <1>1 DEF IInv, TypeOK, central, codes, history
  <1>3. SessionInv' /\ CodeInv' /\ OpenInv'
    BY SessionFrame, CodeFrame, OpenFrame DEF IInv, central, codes, history
  <1>4. CeremonyInv'
    BY CeremonyGoto DEF IInv, Open
  <1>5. QED
    BY <1>2, <1>3, <1>4 DEF IInv

LEMMA ReadingStep ==
    ASSUME IInv, NEW q \in Requests, NEW x \in Pending, Reading(q, x), x.kind # "complete"
    PROVE  IInv'
  BY RequestStep DEF Reading, IInv, TypeOK, logins

\* What the handlers remember, and that it is not the answer to a challenge.
LEMMA StartReadStep ==
    ASSUME IInv, NEW q \in Requests, NEW c \in Codes, StartRead(q, c) PROVE IInv'
  <1> DEFINE x == [kind |-> "start", generation |-> active, code |-> c]
  <1>1. x \in Pending /\ x.kind # "complete"
    BY DEF Pending, StartRequest, IInv, TypeOK
  <1>2. QED
    BY <1>1, ReadingStep DEF StartRead

LEMMA OptionsReadStep ==
    ASSUME IInv, NEW q \in Requests, NEW r \in Recoveries, OptionsRead(q, r) PROVE IInv'
  <1> DEFINE x == [kind |-> "options", recovery |-> r]
  <1>1. x \in Pending /\ x.kind # "complete"
    BY DEF Pending, OptionsRequest
  <1>2. QED
    BY <1>1, ReadingStep DEF OptionsRead

\* An open recovery is a row.
LEMMA OpenRow == ASSUME TypeOK, Open PROVE recovery \in Recovery
  BY DEF TypeOK, Open

LEMMA VerifyReadStep ==
    ASSUME IInv, NEW q \in Requests, NEW r \in Recoveries, VerifyRead(q, r) PROVE IInv'
  <1> DEFINE x == [kind |-> "verify", recovery |-> r,
                   generation |-> recovery.generation, code |-> recovery.code]
  <1>1. recovery \in Recovery
    BY OpenRow DEF VerifyRead, Usable, IInv
  <1>2. recovery.generation \in Generation /\ recovery.code \in Codes
    BY <1>1 DEF Recovery
  <1>3. x \in Pending /\ x.kind # "complete"
    BY <1>2 DEF Pending, VerifyRequest
  <1>4. QED
    BY <1>3, ReadingStep DEF VerifyRead

LEMMA ManageReadStep ==
    ASSUME IInv, NEW q \in Requests, NEW s \in Sessions, NEW kind \in {"issue", "withdraw"},
           ManageRead(q, s, kind)
    PROVE  IInv'
  <1> DEFINE x == [kind |-> kind, session |-> s, active |-> active, newest |-> newest]
  <1>1. x \in Pending /\ x.kind # "complete"
    BY DEF Pending, ManageRequest, IInv, TypeOK
  <1>2. QED
    BY <1>1, ReadingStep DEF ManageRead

LEMMA UnlinkReadStep ==
    ASSUME IInv, NEW q \in Requests, NEW a \in Providers, UnlinkRead(q, a) PROVE IInv'
  <1> DEFINE x == [kind |-> "unlink", provider |-> a]
  <1>1. x \in Pending /\ x.kind # "complete"
    BY DEF Pending, UnlinkRequest
  <1>2. QED
    BY <1>1, ReadingStep DEF UnlinkRead

LEMMA RemoveReadStep ==
    ASSUME IInv, NEW q \in Requests, NEW k \in Passkeys, RemoveRead(q, k) PROVE IInv'
  <1> DEFINE x == [kind |-> "remove", passkey |-> k]
  <1>1. x \in Pending /\ x.kind # "complete"
    BY DEF Pending, RemoveRequest
  <1>2. QED
    BY <1>1, ReadingStep DEF RemoveRead

LEMMA UnlinkStep ==
    ASSUME IInv, NEW q \in Requests, Unlink(q) PROVE IInv'
  BY IdleIs, RequestStep DEF Unlink, IInv, TypeOK

LEMMA RemoveStep ==
    ASSUME IInv, NEW q \in Requests, Remove(q) PROVE IInv'
  BY IdleIs, RequestStep DEF Remove, IInv, TypeOK

LEMMA GiveUpStep ==
    ASSUME IInv, NEW q \in Requests, GiveUp(q) PROVE IInv'
  BY IdleIs, RequestStep DEF GiveUp, IInv, TypeOK, logins

\* Steps that leave codes, recoveries, requests and the rows of session alone.
LEMMA QuietStep ==
    ASSUME IInv, UNCHANGED <<session, endedAt, codes, recovery, request, used, history>>,
           accounts' \subseteq Providers, passkeys' \subseteq Passkeys,
           fresh' \subseteq session, stepped' \subseteq session,
           status' = status \/ status' = "active"
    PROVE  IInv'
  <1>1. TypeOK'
    BY DEF IInv, TypeOK, codes, history
  <1>2. SessionInv' /\ CodeInv' /\ OpenInv' /\ CeremonyInv'
    BY SessionFrame, CodeFrame, OpenFrame, CeremonyFrame DEF IInv, codes, history
  <1>3. QED
    BY <1>1, <1>2 DEF IInv

LEMMA QuietSteps ==
    ASSUME IInv, \/ \E k \in Passkeys : RegisterPasskey(k)
                 \/ \E a \in Providers : Link(a)
                 \/ \E s \in Sessions : StepUp(s) \/ SessionAges(s) \/ StepUpLapses(s)
                 \/ Reactivate
    PROVE  IInv'
  <1>1. ASSUME NEW k \in Passkeys, RegisterPasskey(k) PROVE IInv'
    BY <1>1, QuietStep DEF RegisterPasskey, IInv, TypeOK, central
  <1>2. ASSUME NEW a \in Providers, Link(a) PROVE IInv'
    BY <1>2, QuietStep DEF Link, IInv, TypeOK, central
  <1>3. ASSUME NEW s \in Sessions, StepUp(s) PROVE IInv'
    BY <1>3, QuietStep DEF StepUp, IInv, TypeOK, logins
  <1>4. ASSUME NEW s \in Sessions, SessionAges(s) PROVE IInv'
    BY <1>4, QuietStep DEF SessionAges, IInv, TypeOK, logins
  <1>5. ASSUME NEW s \in Sessions, StepUpLapses(s) PROVE IInv'
    BY <1>5, QuietStep DEF StepUpLapses, IInv, TypeOK, logins
  <1>6. CASE Reactivate
    BY <1>6, QuietStep DEF Reactivate, IInv, TypeOK, logins, central
  <1>7. QED
    BY <1>1, <1>2, <1>3, <1>4, <1>5, <1>6

-------------------------------------------------------------------------------
(* Steps that open or end sessions                                         *)

LEMMA SignInStep ==
    ASSUME IInv, NEW s \in Sessions, SignIn(s) PROVE IInv'
  <1>1. TypeOK'
    BY DEF SignIn, IInv, TypeOK, logins, codes, history
  <1>2. SessionInv'
    BY NoneAssumption DEF SignIn, IInv, SessionInv, EndedSessionIssuesNothing, codes, history
  <1>3. CodeInv' /\ OpenInv' /\ CeremonyInv'
    BY CodeFrame, OpenFrame, CeremonyFrame DEF SignIn, IInv, codes, history
  <1>4. QED
    BY <1>1, <1>2, <1>3 DEF IInv

\* Ending sessions notes the newest generation, which is that of no later set.
LEMMA EndSessionsKeeps ==
    ASSUME TypeOK, SessionInv, NEW S \in SUBSET Sessions, EndSessions(S), used' = used,
           \/ UNCHANGED <<active, newest, issuer>>
           \/ \E g \in Generation : g > newest /\ NextSet(g, None)
    PROVE  SessionInv' /\ session' \subseteq Sessions /\ fresh' \subseteq session'
           /\ stepped' \subseteq session' /\ endedAt' \in [Sessions -> Generation]
  <1>1. /\ session' = session \ S /\ fresh' = fresh \ S /\ stepped' = stepped \ S
        /\ endedAt' = [s \in Sessions |-> IF s \in S \cap session THEN newest ELSE endedAt[s]]
    BY DEF EndSessions
  <1>2. /\ endedAt \in [Sessions -> Generation] /\ newest \in Generation
        /\ session \subseteq Sessions /\ fresh \subseteq session /\ stepped \subseteq session
    BY DEF TypeOK
  <1>3. \A g \in Generation : issuer'[g] # None => issuer'[g] = issuer[g]
    BY DEF NextSet, TypeOK
  <1>4. active' <= newest' /\ newest <= newest'
    BY <1>2, GenerationAssumption DEF NextSet, SessionInv, Generation, TypeOK
  <1>5. EndedSessionIssuesNothing'
    <2> SUFFICES ASSUME NEW s \in Sessions, NEW g \in Generation,
                        s \in used \ session', issuer'[g] = s
                 PROVE  g <= endedAt'[s]
      BY DEF EndedSessionIssuesNothing
    <2>1. issuer[g] = s /\ g <= newest
      BY <1>3, NoneAssumption DEF SessionInv
    <2>2. CASE s \in S \cap session
      BY <1>1, <2>1, <2>2
    <2>3. CASE s \notin S \cap session
      BY <1>1, <2>1, <2>3 DEF SessionInv, EndedSessionIssuesNothing
    <2>4. QED
      BY <2>2, <2>3
  <1>6. \A g \in Generation : issuer'[g] # None => g <= newest' /\ issuer'[g] \in used
    <2> TAKE g \in Generation
    <2> HAVE issuer'[g] # None
    <2>1. issuer[g] # None /\ issuer'[g] = issuer[g]
      BY <1>3
    <2>2. g <= newest /\ issuer[g] \in used
      BY <2>1 DEF SessionInv
    <2>3. newest' \in Int
      BY <1>2 DEF NextSet, Generation
    <2>4. QED
      BY <1>2, <1>4, <2>1, <2>2, <2>3 DEF Generation
  <1>7. SessionInv'
    BY <1>1, <1>4, <1>5, <1>6 DEF SessionInv
  <1>8. QED
    BY <1>1, <1>2, <1>7

LEMMA SignOutStep ==
    ASSUME IInv, NEW s \in Sessions, SignOut(s) PROVE IInv'
  <1>1. /\ UNCHANGED <<active, newest, issuer, used>>
        /\ EndSessions({s})
    BY DEF SignOut, codes, history
  <1>2. SessionInv' /\ session' \subseteq Sessions /\ fresh' \subseteq session'
        /\ stepped' \subseteq session' /\ endedAt' \in [Sessions -> Generation]
    BY <1>1, EndSessionsKeeps DEF IInv
  <1>3. TypeOK'
    BY <1>2 DEF SignOut, IInv, TypeOK, logins, codes, history
  <1>4. CodeInv' /\ OpenInv' /\ CeremonyInv'
    BY CodeFrame, OpenFrame, CeremonyFrame DEF SignOut, IInv, codes, history
  <1>5. QED
    BY <1>2, <1>3, <1>4 DEF IInv

\* Closing the recovery leaves nothing open.
LEMMA CloseKeeps ==
    ASSUME TypeOK, OpenInv, CloseRecovery, UNCHANGED <<completed, used>>
    PROVE  OpenInv' /\ ~Open' /\ closed' \subseteq Recoveries
  <1>1. recovery' = NoRecovery /\ closed' = closed \cup (IF Open THEN {recovery.id} ELSE {})
    BY DEF CloseRecovery
  <1>2. ~Open'
    BY <1>1 DEF Open
  <1>3. Open => recovery.id \in Recoveries
    BY OpenRow DEF Recovery
  <1>4. closed' \subseteq Recoveries
    BY <1>1, <1>3 DEF TypeOK
  <1>5. OpenInv'
    BY <1>1, <1>2 DEF OpenInv, ClosedStaysClosed, RecoveryIsGrounded
  <1>6. QED
    BY <1>2, <1>4, <1>5

LEMMA SuspendStep ==
    ASSUME IInv, Suspend PROVE IInv'
  <1>1. /\ UNCHANGED <<active, newest, unused, issuer, used, completed, openings>>
        /\ UNCHANGED <<accounts, passkeys, request>>
        /\ EndSessions(session) /\ CloseRecovery /\ status' = "suspended"
    BY DEF Suspend, SuspensionCleanup, codes, logins
  <1>2. session \in SUBSET Sessions
    BY DEF IInv, TypeOK
  <1>3. SessionInv' /\ session' \subseteq Sessions /\ fresh' \subseteq session'
        /\ stepped' \subseteq session' /\ endedAt' \in [Sessions -> Generation]
    BY <1>1, <1>2, EndSessionsKeeps DEF IInv
  <1>4. OpenInv' /\ ~Open' /\ closed' \subseteq Recoveries
    BY <1>1, CloseKeeps DEF IInv
  <1>5. TypeOK'
    BY <1>1, <1>3, <1>4 DEF IInv, TypeOK, Open
  <1>6. CodeInv'
    BY <1>1, CodeFrame DEF IInv
  <1>7. CeremonyInv'
    BY <1>1, <1>4 DEF IInv, CeremonyInv, ChallengeServesOne
  <1>8. QED
    BY <1>3, <1>4, <1>5, <1>6, <1>7 DEF IInv

-------------------------------------------------------------------------------
(* Steps of the recovery session                                           *)

LEMMA CancelStep ==
    ASSUME IInv, NEW r \in Recoveries, Cancel(r) PROVE IInv'
  <1>1. /\ UNCHANGED <<status, accounts, passkeys, session, fresh, stepped, endedAt>>
        /\ UNCHANGED <<active, newest, unused, request, used, issuer, openings, completed>>
        /\ CloseRecovery /\ recovery' = NoRecovery
    BY DEF Cancel, CloseRecovery, logins, central, codes
  <1>2. OpenInv' /\ ~Open' /\ closed' \subseteq Recoveries
    BY <1>1, CloseKeeps DEF IInv
  <1>3. TypeOK'
    BY <1>1, <1>2 DEF IInv, TypeOK
  <1>4. SessionInv' /\ CodeInv'
    BY <1>1, SessionFrame, CodeFrame DEF IInv
  <1>5. CeremonyInv'
    BY <1>1, <1>2 DEF IInv, CeremonyInv, ChallengeServesOne
  <1>6. QED
    BY <1>2, <1>3, <1>4, <1>5 DEF IInv

\* A change of the open row that keeps its identity and either keeps the challenge
\* or drops it.
LEMMA RowStep ==
    ASSUME IInv, Open, recovery' \in Recovery,
           recovery'.id = recovery.id, recovery'.generation = recovery.generation,
           recovery'.code = recovery.code,
           UNCHANGED <<status, logins, central, codes, history>>,
           used \subseteq used', used' \subseteq Sessions \cup Recoveries \cup Challenges,
           request' \in [Requests -> Pending]
    PROVE  TypeOK' /\ SessionInv' /\ CodeInv' /\ OpenInv' /\ Open'
  <1>1. Open'
    BY NoneAssumption DEF Open, NoRecovery, Recovery
  <1>2. TypeOK'
    BY DEF IInv, TypeOK, logins, central, codes, history
  <1>3. SessionInv' /\ CodeInv'
    BY SessionFrame, CodeFrame DEF IInv, central, codes, history
  <1>4. OpenInv'
    BY <1>1 DEF IInv, OpenInv, ClosedStaysClosed, RecoveryIsGrounded, codes, history
  <1>5. QED
    BY <1>1, <1>2, <1>3, <1>4

LEMMA RecoveryExpiresStep ==
    ASSUME IInv, RecoveryExpires PROVE IInv'
  <1>1. Open /\ recovery \in Recovery
    BY OpenRow DEF RecoveryExpires, IInv
  <1>2. /\ recovery' \in Recovery /\ recovery'.id = recovery.id
        /\ recovery'.generation = recovery.generation /\ recovery'.code = recovery.code
        /\ recovery'.challenge = recovery.challenge
    BY <1>1 DEF RecoveryExpires, Recovery
  <1>3. TypeOK' /\ SessionInv' /\ CodeInv' /\ OpenInv' /\ Open'
    BY <1>1, <1>2, RowStep DEF RecoveryExpires, IInv, TypeOK
  <1>4. CeremonyInv'
    BY <1>1, <1>2, <1>3 DEF RecoveryExpires, IInv, CeremonyInv, ChallengeServesOne
  <1>5. QED
    BY <1>3, <1>4 DEF IInv

LEMMA ChallengeLapsesStep ==
    ASSUME IInv, ChallengeLapses PROVE IInv'
  <1>1. Open /\ recovery \in Recovery
    BY OpenRow DEF ChallengeLapses, IInv
  <1>2. /\ recovery' \in Recovery /\ recovery'.id = recovery.id
        /\ recovery'.generation = recovery.generation /\ recovery'.code = recovery.code
        /\ recovery'.challenge = recovery.challenge
    BY <1>1 DEF ChallengeLapses, Recovery
  <1>3. TypeOK' /\ SessionInv' /\ CodeInv' /\ OpenInv' /\ Open'
    BY <1>1, <1>2, RowStep DEF ChallengeLapses, IInv, TypeOK
  <1>4. CeremonyInv'
    BY <1>1, <1>2, <1>3 DEF ChallengeLapses, IInv, CeremonyInv, ChallengeServesOne
  <1>5. QED
    BY <1>3, <1>4 DEF IInv

\* The row with another challenge.
LEMMA WithChallengeIs ==
    ASSUME recovery \in Recovery, NEW h \in Challenges \cup {None},
           recovery' = WithChallenge(h)
    PROVE  /\ recovery' \in Recovery /\ recovery'.challenge = h
           /\ recovery'.id = recovery.id /\ recovery'.code = recovery.code
           /\ recovery'.generation = recovery.generation
  BY DEF WithChallenge, Recovery

LEMMA OptionsCommitStep ==
    ASSUME IInv, NEW q \in Requests, OptionsCommit(q) PROVE IInv'
  <1> DEFINE r == request[q].recovery
  <1>1. Goto(q, Idle) /\ request' \in [Requests -> Pending]
        /\ UNCHANGED <<status, logins, central, codes, history>>
    BY GotoIs, IdleIs DEF OptionsCommit, IInv, history
  <1>2. ASSUME NEW h \in Challenges \ used, Usable(r), recovery' = WithChallenge(h),
               used' = used \cup {h}
        PROVE  IInv'
    <2>1. Open /\ recovery \in Recovery
      BY <1>2, OpenRow DEF Usable, IInv
    <2>2. /\ recovery' \in Recovery /\ recovery'.challenge = h
          /\ recovery'.id = recovery.id /\ recovery'.code = recovery.code
          /\ recovery'.generation = recovery.generation
      BY <1>2, <2>1, WithChallengeIs
    <2>3. TypeOK' /\ SessionInv' /\ CodeInv' /\ OpenInv' /\ Open'
      BY <1>1, <1>2, <2>1, <2>2, RowStep DEF IInv, TypeOK
    <2>4. \A p \in Requests : request'[p] = IF p = q THEN Idle ELSE request[p]
      BY <1>1, GotoIs, IdleIs DEF IInv
    <2>5. \A p \in Requests : request'[p].kind = "complete" =>
            p # q /\ request'[p] = request[p]
      BY <2>4, IdleIs
    <2>6. \A p \in Requests : request[p].kind = "complete" => request[p].challenge # h
      BY <1>2 DEF IInv, CeremonyInv
    <2>7. ChallengeServesOne'
      BY <2>2, <2>5, <2>6 DEF IInv, CeremonyInv, ChallengeServesOne
    <2>8. CeremonyInv'
      BY <1>2, <2>2, <2>5, <2>7 DEF IInv, CeremonyInv
    <2>9. QED
      BY <2>3, <2>8 DEF IInv
  <1>3. ASSUME Open, recovery' = WithChallenge(None), used' = used PROVE IInv'
    <2>1. recovery \in Recovery
      BY <1>3, OpenRow DEF IInv
    <2>2. /\ recovery' \in Recovery /\ recovery'.challenge = None
          /\ recovery'.id = recovery.id /\ recovery'.code = recovery.code
          /\ recovery'.generation = recovery.generation
      BY <1>3, <2>1, WithChallengeIs
    <2>3. TypeOK' /\ SessionInv' /\ CodeInv' /\ OpenInv' /\ Open'
      BY <1>1, <1>3, <2>1, <2>2, RowStep DEF IInv, TypeOK
    <2>4. CeremonyInv'
      BY <1>1, <1>3, <2>2, CeremonyGoto, IdleIs DEF IInv
    <2>5. QED
      BY <2>3, <2>4 DEF IInv
  <1>4. ASSUME recovery' = recovery, used' = used PROVE IInv'
    BY <1>1, <1>4, RequestStep, IdleIs DEF IInv, TypeOK, logins
  <1>5. QED
    BY <1>2, <1>3, <1>4 DEF OptionsCommit

LEMMA VerifyTakeStep ==
    ASSUME IInv, NEW q \in Requests, NEW h \in Challenges, VerifyTake(q, h) PROVE IInv'
  <1> DEFINE p == request[q]
             x == [kind |-> "complete", recovery |-> p.recovery,
                   generation |-> p.generation, code |-> p.code, challenge |-> h]
  <1>1. Open /\ recovery \in Recovery /\ recovery.challenge = h
    BY OpenRow DEF VerifyTake, Usable, IInv
  <1>2. x \in Pending
    <2>1. p \in Pending /\ p.kind = "verify"
      BY DEF VerifyTake, IInv, TypeOK
    <2>2. p \in VerifyRequest
      BY <2>1 DEF Pending, Idle, StartRequest, OptionsRequest, VerifyRequest,
         CompleteRequest, ManageRequest, UnlinkRequest, RemoveRequest
    <2>3. QED
      BY <2>2 DEF VerifyRequest, CompleteRequest, Pending
  <1>3. Goto(q, x) /\ used' = used /\ recovery' = WithChallenge(None)
        /\ UNCHANGED <<status, logins, central, codes, history>>
    BY DEF VerifyTake, ChallengeTaken
  <1>4. x.kind = "complete" /\ x.challenge = h
    OBVIOUS
  <1> HIDE DEF x
  <1>5. /\ request' \in [Requests -> Pending]
        /\ \A n \in Requests : request'[n] = IF n = q THEN x ELSE request[n]
    BY <1>2, <1>3, GotoIs DEF IInv
  <1>6. /\ recovery' \in Recovery /\ recovery'.challenge = None
        /\ recovery'.id = recovery.id /\ recovery'.code = recovery.code
        /\ recovery'.generation = recovery.generation
    BY <1>1, <1>3, WithChallengeIs
  <1>7. TypeOK' /\ SessionInv' /\ CodeInv' /\ OpenInv' /\ Open'
    BY <1>1, <1>3, <1>5, <1>6, RowStep DEF IInv, TypeOK
  <1>8. h \in used /\ h # None
    BY <1>1, NoneAssumption DEF IInv, CeremonyInv
  <1>9. \A n \in Requests : request[n].kind = "complete" =>
          request[n].challenge \in used /\ request[n].challenge # h
    BY <1>1 DEF IInv, CeremonyInv, ChallengeServesOne
  <1>10. \A n \in Requests : request'[n].kind = "complete" =>
           request'[n].challenge \in used
    BY <1>4, <1>5, <1>8, <1>9
  <1>11. \A n \in Requests : request'[n].kind = "complete" => request'[n].challenge # None
    <2> TAKE n \in Requests
    <2>1. request'[n] \in Pending
      BY <1>5
    <2>2. QED
      BY <2>1, NoneAssumption DEF Pending, Idle, StartRequest, OptionsRequest, VerifyRequest,
         CompleteRequest, ManageRequest, UnlinkRequest, RemoveRequest
  <1>12. \A n \in Requests, m \in Requests : n # m /\ request'[n].kind = "complete"
           /\ request'[m].kind = "complete" => request'[m].challenge # request'[n].challenge
    BY <1>4, <1>5, <1>9 DEF IInv, CeremonyInv, ChallengeServesOne
  <1>13. CeremonyInv'
    BY <1>3, <1>6, <1>10, <1>11, <1>12 DEF CeremonyInv, ChallengeServesOne
  <1>14. QED
    BY <1>7, <1>13 DEF IInv

-------------------------------------------------------------------------------
(* Steps that consume codes or replace their set                           *)

\* The recovery that a code opens: the code leaves the set with the same batch.
LEMMA OpeningStep ==
    ASSUME IInv, NEW q \in Requests, NEW c \in unused, NEW r \in Recoveries \ used,
           status = "active", active # 0, Goto(q, Idle),
           recovery' = [id |-> r, generation |-> active, code |-> c,
                        expired |-> FALSE, challenge |-> None, lapsed |-> FALSE],
           unused' = unused \ {c}, used' = used \cup {r},
           openings' = openings \cup {<<active, c, r>>},
           closed' \subseteq closed \cup (IF Open THEN {recovery.id} ELSE {}),
           UNCHANGED <<status, logins, central, active, newest, issuer, completed>>
    PROVE  IInv'
  <1>1. request' \in [Requests -> Pending]
    BY GotoIs, IdleIs DEF IInv
  <1>2. c \in Codes /\ active \in Generation /\ newest \in Generation
    BY DEF IInv, TypeOK
  <1>3. recovery' \in Recovery /\ Open'
    BY <1>2, NoneAssumption DEF Recovery, Open, NoRecovery
  <1>4. Open => recovery.id \in Recoveries /\ recovery.id \in used
    BY OpenRow DEF IInv, OpenInv, Recovery
  <1>5. TypeOK'
    BY <1>1, <1>2, <1>3, <1>4 DEF IInv, TypeOK, logins, central
  <1>6. SessionInv'
    BY SessionFrame DEF IInv, central
  <1>7. CodeInv'
    <2>1. \A o \in openings : ~(o[1] = active /\ o[2] = c) /\ o[3] # r
      BY DEF IInv, CodeInv
    <2>2. CodeOpensOne'
      BY <2>1 DEF IInv, CodeInv, CodeOpensOne
    <2>3. \A o \in openings' : o[1] <= newest' /\ o[3] \in used'
                               /\ (o[1] = active' => o[2] \notin unused')
      BY DEF IInv, CodeInv, SessionInv
    <2>4. active' # 0
      OBVIOUS
    <2>5. QED
      BY <2>2, <2>3, <2>4 DEF CodeInv
  <1>8. OpenInv'
    <2>1. closed' \subseteq used /\ completed \subseteq used
      BY <1>4 DEF IInv, OpenInv
    <2>2. closed' \cap completed = {}
      BY DEF IInv, OpenInv, ClosedStaysClosed
    <2>3. RecoveryIsGrounded'
      BY DEF RecoveryIsGrounded
    <2>4. QED
      BY <2>1, <2>2, <2>3 DEF OpenInv, ClosedStaysClosed
  <1>9. CeremonyInv'
    BY CeremonyGoto, IdleIs DEF IInv
  <1>10. QED
    BY <1>5, <1>6, <1>7, <1>8, <1>9 DEF IInv

\* Nothing opens, but an expired recovery may have made way.
LEMMA RefusedStartStep ==
    ASSUME IInv, NEW q \in Requests, Goto(q, Idle),
           \/ UNCHANGED <<recovery, closed>>
           \/ CloseRecovery,
           UNCHANGED <<status, logins, central, codes, used, openings, issuer, completed>>
    PROVE  IInv'
  <1>1. request' \in [Requests -> Pending]
    BY GotoIs, IdleIs DEF IInv
  <1>2. CASE UNCHANGED <<recovery, closed>>
    BY <1>2, RequestStep, IdleIs DEF IInv, TypeOK, logins, history
  <1>3. CASE CloseRecovery
    <2>1. OpenInv' /\ ~Open' /\ closed' \subseteq Recoveries /\ recovery' = NoRecovery
      BY <1>3, CloseKeeps DEF IInv, CloseRecovery
    <2>2. TypeOK'
      BY <1>1, <2>1 DEF IInv, TypeOK, logins, central, codes
    <2>3. SessionInv' /\ CodeInv'
      BY SessionFrame, CodeFrame DEF IInv, central, codes
    <2>4. CeremonyInv'
      BY <2>1, CeremonyGoto, IdleIs DEF IInv
    <2>5. QED
      BY <2>1, <2>2, <2>3, <2>4 DEF IInv
  <1>4. QED
    BY <1>2, <1>3

LEMMA StartCommitStep ==
    ASSUME IInv, NEW q \in Requests, StartCommit(q) PROVE IInv'
  <1> DEFINE p == request[q]
  <1>1. Goto(q, Idle)
        /\ UNCHANGED <<status, logins, central, active, newest, issuer, completed>>
        /\ closed' = IF MakesWay THEN closed \cup {recovery.id} ELSE closed
    BY DEF StartCommit
  <1>2. CASE Startable(p)
    <2>1. PICK r \in Recoveries \ used :
            /\ recovery' = [id |-> r, generation |-> active, code |-> p.code,
                            expired |-> FALSE, challenge |-> None, lapsed |-> FALSE]
            /\ unused' = unused \ {p.code}
            /\ used' = used \cup {r}
            /\ openings' = openings \cup {<<active, p.code, r>>}
      BY <1>2 DEF StartCommit
    <2>2. p.code \in unused /\ status = "active" /\ p.generation = active
      BY <1>2 DEF Startable, CodeUnused
    <2>3. active # 0
      BY <2>2 DEF IInv, CodeInv
    <2>4. closed' \subseteq closed \cup (IF Open THEN {recovery.id} ELSE {})
      BY <1>1 DEF MakesWay
    <2>5. QED
      BY <1>1, <2>1, <2>2, <2>3, <2>4, OpeningStep
  <1>3. CASE ~Startable(p)
    <2>1. /\ recovery' = IF MakesWay THEN NoRecovery ELSE recovery
          /\ UNCHANGED <<unused, used, openings>>
      BY <1>3 DEF StartCommit
    <2>2. CASE MakesWay
      BY <1>1, <2>1, <2>2, RefusedStartStep DEF MakesWay, CloseRecovery, codes
    <2>3. CASE ~MakesWay
      BY <1>1, <2>1, <2>3, RefusedStartStep DEF codes
    <2>4. QED
      BY <2>2, <2>3
  <1>4. QED
    BY <1>2, <1>3

\* The next set of codes, which no earlier opening is about.
LEMMA NextSetKeeps ==
    ASSUME TypeOK, CodeInv, NEW g \in Generation, NEW by, g > newest, NextSet(g, by),
           UNCHANGED <<openings, used>>
    PROVE  CodeInv'
  <1>1. active' = g /\ newest' = g
    BY DEF NextSet
  <1>2. newest \in Nat /\ g \in Nat
    BY GenerationAssumption DEF TypeOK, Generation
  <1>3. \A o \in openings : o[1] \in Generation /\ o[1] <= newest
    BY DEF CodeInv, TypeOK
  <1>4. \A o \in openings : o[1] <= g /\ o[1] # g
    BY <1>2, <1>3 DEF Generation
  <1>5. g # 0
    BY <1>2
  <1>6. QED
    BY <1>1, <1>4, <1>5 DEF CodeInv, CodeOpensOne

\* What a request that is to replace or revoke the set has read.
LEMMA ManageIs ==
    ASSUME TypeOK, NEW q \in Requests, request[q].kind \in {"issue", "withdraw"}
    PROVE  request[q] \in ManageRequest
  <1>1. request[q] \in Pending
    BY DEF TypeOK
  <1>2. QED
    BY <1>1 DEF Pending, Idle, StartRequest, OptionsRequest, VerifyRequest,
       CompleteRequest, ManageRequest, UnlinkRequest, RemoveRequest

LEMMA IssueStep ==
    ASSUME IInv, NEW q \in Requests, Issue(q) PROVE IInv'
  <1> DEFINE p == request[q]
             g == p.newest + 1
  <1>1. /\ p.kind = "issue" /\ p.session \in session /\ newest = p.newest
        /\ g > newest /\ g <= MaxGeneration
        /\ NextSet(g, p.session) /\ CloseRecovery /\ Goto(q, Idle)
        /\ UNCHANGED <<status, logins, central, used, openings, completed>>
    BY DEF Issue, MayManage, SameSnapshot, Free
  <1>2. p.newest \in Generation /\ p.session \in Sessions
    BY <1>1, ManageIs DEF IInv, ManageRequest
  <1>3. g \in Generation
    BY <1>1, <1>2, GenerationAssumption DEF Generation
  <1>4. request' \in [Requests -> Pending]
    BY <1>1, GotoIs, IdleIs DEF IInv
  <1>5. OpenInv' /\ ~Open' /\ closed' \subseteq Recoveries /\ recovery' = NoRecovery
    BY <1>1, CloseKeeps DEF IInv, CloseRecovery
  <1>6. active' = g /\ newest' = g /\ unused' = Codes /\ issuer' = [issuer EXCEPT ![g] = p.session]
    BY <1>1 DEF NextSet
  <1>7. TypeOK'
    BY <1>1, <1>2, <1>3, <1>4, <1>5, <1>6 DEF IInv, TypeOK, logins, central
  <1>8. \A n \in Generation : issuer'[n] = IF n = g THEN p.session ELSE issuer[n]
    BY <1>3, <1>6 DEF IInv, TypeOK
  <1>9. \A n \in Generation : issuer'[n] # None => n <= newest' /\ issuer'[n] \in used
    <2> TAKE n \in Generation
    <2> HAVE issuer'[n] # None
    <2>1. CASE n = g
      BY <1>1, <1>3, <1>6, <1>8, <2>1 DEF IInv, SessionInv, Generation
    <2>2. CASE n # g
      <3>1. issuer[n] # None /\ issuer'[n] = issuer[n]
        BY <1>8, <2>2
      <3>2. n <= newest /\ issuer[n] \in used
        BY <3>1 DEF IInv, SessionInv
      <3>3. QED
        BY <1>1, <1>2, <1>3, <1>6, <3>1, <3>2 DEF Generation
    <2>3. QED
      BY <2>1, <2>2
  <1>10. EndedSessionIssuesNothing'
    BY <1>1, <1>8 DEF IInv, SessionInv, EndedSessionIssuesNothing, central
  <1>11. SessionInv'
    <2>1. active' <= newest'
      BY <1>3, <1>6 DEF Generation
    <2>2. QED
      BY <1>1, <1>9, <1>10, <2>1 DEF IInv, SessionInv, central
  <1>12. CodeInv'
    BY <1>1, <1>3, NextSetKeeps DEF IInv
  <1>13. CeremonyInv'
    BY <1>1, <1>5, CeremonyGoto, IdleIs DEF IInv
  <1>14. QED
    BY <1>5, <1>7, <1>11, <1>12, <1>13 DEF IInv

LEMMA WithdrawStep ==
    ASSUME IInv, NEW q \in Requests, Withdraw(q) PROVE IInv'
  <1>1. /\ active' = 0 /\ unused' = {} /\ CloseRecovery /\ Goto(q, Idle)
        /\ UNCHANGED <<status, logins, central, newest, used, issuer, openings, completed>>
    BY DEF Withdraw
  <1>2. request' \in [Requests -> Pending]
    BY <1>1, GotoIs, IdleIs DEF IInv
  <1>3. OpenInv' /\ ~Open' /\ closed' \subseteq Recoveries /\ recovery' = NoRecovery
    BY <1>1, CloseKeeps DEF IInv, CloseRecovery
  <1>4. 0 \in Generation
    BY GenerationAssumption DEF Generation
  <1>5. TypeOK'
    BY <1>1, <1>2, <1>3, <1>4 DEF IInv, TypeOK, logins, central
  <1>6. SessionInv'
    BY <1>1 DEF IInv, TypeOK, SessionInv, EndedSessionIssuesNothing, central, Generation
  <1>7. CodeInv'
    BY <1>1 DEF IInv, CodeInv, CodeOpensOne
  <1>8. CeremonyInv'
    BY <1>1, <1>3, CeremonyGoto, IdleIs DEF IInv
  <1>9. QED
    BY <1>3, <1>5, <1>6, <1>7, <1>8 DEF IInv

LEMMA CompleteStep ==
    ASSUME IInv, NEW q \in Requests, NEW k \in Passkeys, Complete(q, k) PROVE IInv'
  <1> DEFINE p == request[q]
             g == p.generation + 1
  <1>1. /\ Open /\ recovery.id = p.recovery /\ active = recovery.generation
        /\ recovery.generation = p.generation
        /\ g > newest /\ g <= MaxGeneration
        /\ passkeys' = passkeys \cup {k} /\ NextSet(g, None) /\ EndSessions(session)
        /\ recovery' = NoRecovery /\ completed' = completed \cup {p.recovery}
        /\ Goto(q, Idle) /\ UNCHANGED <<status, accounts, used, openings, closed>>
    BY DEF Complete, SameRecovery, Usable, Free
  <1>2. active \in Generation /\ p.generation = active
    BY <1>1 DEF IInv, TypeOK
  <1>3. g \in Generation
    BY <1>1, <1>2, GenerationAssumption DEF Generation
  <1>4. request' \in [Requests -> Pending]
    BY <1>1, GotoIs, IdleIs DEF IInv
  <1>5. SessionInv' /\ session' \subseteq Sessions /\ fresh' \subseteq session'
        /\ stepped' \subseteq session' /\ endedAt' \in [Sessions -> Generation]
    <2>1. session \in SUBSET Sessions
      BY DEF IInv, TypeOK
    <2>2. QED
      BY <1>1, <1>3, <2>1, EndSessionsKeeps DEF IInv
  <1>6. active' = g /\ newest' = g /\ unused' = Codes /\ issuer' = [issuer EXCEPT ![g] = None]
    BY <1>1 DEF NextSet
  <1>7. recovery.id \in Recoveries
    BY <1>1, OpenRow DEF IInv, Recovery
  <1>8. TypeOK'
    BY <1>1, <1>3, <1>4, <1>5, <1>6, <1>7 DEF IInv, TypeOK
  <1>9. CodeInv'
    BY <1>1, <1>3, NextSetKeeps DEF IInv
  <1>10. ~Open'
    BY <1>1 DEF Open
  <1>11. OpenInv'
    BY <1>1, <1>10 DEF IInv, OpenInv, ClosedStaysClosed, RecoveryIsGrounded
  <1>12. CeremonyInv'
    BY <1>1, <1>10, CeremonyGoto, IdleIs DEF IInv
  <1>13. QED
    BY <1>5, <1>8, <1>9, <1>11, <1>12 DEF IInv

-------------------------------------------------------------------------------
(* The invariant and what follows from it                                  *)

LEMMA InitInv == Init => IInv
  <1> SUFFICES ASSUME Init PROVE IInv
    OBVIOUS
  <1>1. TypeOK
    BY GenerationAssumption DEF Init, TypeOK, Generation, Pending
  <1>2. ~Open
    BY DEF Init, Open
  <1>3. SessionInv /\ CodeInv
    BY DEF Init, SessionInv, EndedSessionIssuesNothing, CodeInv, CodeOpensOne, Generation
  <1>4. OpenInv
    BY <1>2 DEF Init, OpenInv, ClosedStaysClosed, RecoveryIsGrounded
  <1>5. CeremonyInv
    BY <1>2, IdleIs DEF Init, CeremonyInv, ChallengeServesOne
  <1>6. QED
    BY <1>1, <1>3, <1>4, <1>5 DEF IInv

LEMMA StepInv == IInv /\ [Next]_vars => IInv'
  <1> SUFFICES ASSUME IInv, [Next]_vars PROVE IInv'
    OBVIOUS
  <1>1. CASE UNCHANGED vars
    BY <1>1, QuietStep DEF IInv, TypeOK, vars, logins, central
  <1>2. ASSUME NEW q \in Requests, NEW c \in Codes, StartRead(q, c) PROVE IInv'
    BY <1>2, StartReadStep
  <1>3. ASSUME NEW q \in Requests, NEW r \in Recoveries, OptionsRead(q, r) \/ VerifyRead(q, r)
        PROVE IInv'
    BY <1>3, OptionsReadStep, VerifyReadStep
  <1>4. ASSUME NEW q \in Requests, NEW h \in Challenges, VerifyTake(q, h) PROVE IInv'
    BY <1>4, VerifyTakeStep
  <1>5. ASSUME NEW q \in Requests, NEW k \in Passkeys, Complete(q, k) PROVE IInv'
    BY <1>5, CompleteStep
  <1>6. ASSUME NEW q \in Requests, NEW s \in Sessions, NEW kind \in {"issue", "withdraw"},
               ManageRead(q, s, kind)
        PROVE IInv'
    BY <1>6, ManageReadStep
  <1>7. ASSUME NEW q \in Requests, NEW a \in Providers, UnlinkRead(q, a) PROVE IInv'
    BY <1>7, UnlinkReadStep
  <1>8. ASSUME NEW q \in Requests, NEW k \in Passkeys, RemoveRead(q, k) PROVE IInv'
    BY <1>8, RemoveReadStep
  <1>9. ASSUME NEW q \in Requests,
               \/ StartCommit(q) \/ OptionsCommit(q) \/ Issue(q) \/ Withdraw(q)
               \/ Unlink(q) \/ Remove(q) \/ GiveUp(q)
        PROVE IInv'
    BY <1>9, StartCommitStep, OptionsCommitStep, IssueStep, WithdrawStep, UnlinkStep,
       RemoveStep, GiveUpStep
  <1>10. ASSUME NEW r \in Recoveries, Cancel(r) PROVE IInv'
    BY <1>10, CancelStep
  <1>11. ASSUME NEW s \in Sessions, SignIn(s) \/ SignOut(s) PROVE IInv'
    BY <1>11, SignInStep, SignOutStep
  <1>12. ASSUME NEW s \in Sessions, StepUp(s) \/ SessionAges(s) \/ StepUpLapses(s) PROVE IInv'
    BY <1>12, QuietSteps
  <1>13. ASSUME \/ \E k \in Passkeys : RegisterPasskey(k)
                \/ \E a \in Providers : Link(a)
                \/ Reactivate
         PROVE IInv'
    BY <1>13, QuietSteps
  <1>14. CASE Suspend \/ RecoveryExpires \/ ChallengeLapses
    BY <1>14, SuspendStep, RecoveryExpiresStep, ChallengeLapsesStep
  <1>15. QED
    BY <1>1, <1>2, <1>3, <1>4, <1>5, <1>6, <1>7, <1>8, <1>9, <1>10, <1>11, <1>12,
       <1>13, <1>14 DEF Next

THEOREM Invariant == Spec => []IInv
  BY InitInv, StepInv, PTL DEF Spec

\* Every variable keeps its type, so what a handler remembers between its read and
\* its write is always a complete snapshot of its kind.
THEOREM TypeCorrect == Spec => []TypeOK
  BY Invariant, PTL DEF IInv

\* recovery/start: whatever the number of requests that race with the same code, of
\* cancellations, expiries and suspensions, a code opens one recovery.
THEOREM CodeOnce == Spec => []CodeOpensOne
  <1>1. IInv => CodeOpensOne
    BY DEF IInv, CodeInv
  <1>2. QED
    BY <1>1, Invariant, PTL

\* passkey/verify: a recovery that has ended otherwise never completes.
THEOREM ClosedForGood == Spec => []ClosedStaysClosed
  <1>1. IInv => ClosedStaysClosed
    BY DEF IInv, OpenInv
  <1>2. QED
    BY <1>1, Invariant, PTL

\* The triggers of migration 0019: an open recovery belongs to an active user, the
\* set in force and a consumed code.
THEOREM Grounded == Spec => []RecoveryIsGrounded
  <1>1. IInv => RecoveryIsGrounded
    BY DEF IInv, OpenInv
  <1>2. QED
    BY <1>1, Invariant, PTL

\* passkey/verify: DELETE ... RETURNING hands a challenge to one request.
THEOREM OneCeremony == Spec => []ChallengeServesOne
  <1>1. IInv => ChallengeServesOne
    BY DEF IInv, CeremonyInv
  <1>2. QED
    BY <1>1, Invariant, PTL

\* recovery-codes/rotate: no code set is issued by a session that has ended.
THEOREM EndedIssuesNothing == Spec => []EndedSessionIssuesNothing
  <1>1. IInv => EndedSessionIssuesNothing
    BY DEF IInv, SessionInv
  <1>2. QED
    BY <1>1, Invariant, PTL

\* Unlinking alone removes providers.
LEMMA OnlyUnlinkRemoves ==
    ASSUME Next, accounts # {}, accounts' = {}
    PROVE  \E q \in Requests : Unlink(q)
  <1> USE DEF logins
  <1>1. ASSUME NEW q \in Requests, NEW x, Reading(q, x) PROVE FALSE
    BY <1>1 DEF Reading
  <1>2. ASSUME NEW q \in Requests,
               \/ StartCommit(q) \/ OptionsCommit(q) \/ Issue(q) \/ Withdraw(q)
               \/ Remove(q) \/ GiveUp(q)
        PROVE FALSE
    BY <1>2 DEF StartCommit, OptionsCommit, Issue, Withdraw, Remove, GiveUp
  <1>3. ASSUME NEW q \in Requests, NEW k \in Passkeys, Complete(q, k) PROVE FALSE
    BY <1>3 DEF Complete
  <1>4. ASSUME NEW q \in Requests, NEW h \in Challenges, VerifyTake(q, h) PROVE FALSE
    BY <1>4 DEF VerifyTake
  <1>5. ASSUME \/ \E r \in Recoveries : Cancel(r)
               \/ \E k \in Passkeys : RegisterPasskey(k)
               \/ \E a \in Providers : Link(a)
        PROVE FALSE
    BY <1>5 DEF Cancel, RegisterPasskey, Link
  <1>6. ASSUME NEW s \in Sessions,
               SignIn(s) \/ StepUp(s) \/ SignOut(s) \/ SessionAges(s) \/ StepUpLapses(s)
        PROVE FALSE
    BY <1>6 DEF SignIn, StepUp, SignOut, SessionAges, StepUpLapses
  <1>7. ASSUME Suspend \/ Reactivate \/ RecoveryExpires \/ ChallengeLapses PROVE FALSE
    BY <1>7 DEF Suspend, Reactivate, RecoveryExpires, ChallengeLapses
  <1>8. QED
    BY <1>1, <1>2, <1>3, <1>4, <1>5, <1>6, <1>7
    DEF Next, StartRead, OptionsRead, VerifyRead, ManageRead, UnlinkRead, RemoveRead

\* DELETE login-methods/:accountId: its DELETE repeats the check, so the last provider
\* goes only while a passkey and an unused code remain.
THEOREM FinalUnlink == Spec => FinalUnlinkIsCovered
  <1>1. ASSUME [Next]_vars
        PROVE  [accounts # {} /\ accounts' = {} => passkeys' # {} /\ unused' # {}]_vars
    <2> SUFFICES ASSUME Next, accounts # {}, accounts' = {}
                 PROVE  passkeys' # {} /\ unused' # {}
      BY <1>1
    <2>1. PICK q \in Requests : Unlink(q)
      BY OnlyUnlinkRemoves
    <2>2. accounts = {request[q].provider}
      BY <2>1 DEF Unlink
    <2>3. Cardinality(accounts) = 1
      BY <2>2, FS_Singleton
    <2>4. passkeys # {}
      BY <2>1, <2>3, FS_EmptySet DEF Unlink, AnotherMethod, Methods
    <2>5. unused # {}
      BY <2>1, <2>3 DEF Unlink, Covered
    <2>6. QED
      BY <2>1, <2>4, <2>5 DEF Unlink, codes
  <1>2. QED
    BY <1>1, PTL DEF Spec, FinalUnlinkIsCovered
=============================================================================
