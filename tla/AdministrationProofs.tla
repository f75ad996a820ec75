------------------------- MODULE AdministrationProofs -------------------------
(* Theorems about Administration, for all users, clients and requests.       *)
EXTENDS Administration, TLAPS

-------------------------------------------------------------------------------
(* What the statements of a batch do to the database d                     *)

DB == [user : [User -> UserRow], client : [Client -> ClientRow], grant : SUBSET Grant,
       event : BOOLEAN]

\* The audit statement of a user batch changes nothing but the event.
LEMMA AuditUserResult ==
    ASSUME NEW d \in DB, NEW q \in UserChange
    PROVE  LET e == AuditUser(d, q)
           IN  /\ e \in DB /\ e.user = d.user /\ e.client = d.client /\ e.grant = d.grant
               /\ e.event = IF q.kind = "self" THEN SelfGuard(d, q)
                            ELSE TransitionGuard(d, q) /\ CommitActor(d, q)
  BY DEF DB, AuditUser, SelfGuard, TransitionGuard, CommitActor, UserChange, UserRow

\* The guarded UPDATE of a user puts it in the next standing.
LEMMA UpdateUserResult ==
    ASSUME NEW d \in DB, NEW q \in UserChange, audited \in Nat
    PROVE  LET e == UpdateUser(d, q)
           IN  /\ e \in DB /\ e.event = d.event /\ e.client = d.client /\ e.grant = d.grant
               /\ ~d.event => e = d
               /\ d.event /\ TransitionGuard(d, q) =>
                    e.user = [d.user EXCEPT ![q.target] = InStanding(d.user[q.target], q.next)]
  <1>1. InStanding(d.user[q.target], q.next) \in UserRow
    BY DEF DB, InStanding, UserChange, UserRow, Standing, Now
  <1> QED BY <1>1 DEF DB, UpdateUser, UserChange

\* The DELETE of the sessions ends the target's.
LEMMA EndSessionsResult ==
    ASSUME NEW d \in DB, NEW q \in UserChange
    PROVE  LET e == EndSessions(d, q)
           IN  /\ e \in DB /\ e.event = d.event /\ e.client = d.client /\ e.grant = d.grant
               /\ e.user = IF d.event THEN [d.user EXCEPT ![q.target].live = FALSE] ELSE d.user
  <1> DEFINE row == [d.user[q.target] EXCEPT !.live = FALSE]
  <1>1. q.target \in User /\ d.user[q.target] \in UserRow
    BY DEF DB, UserChange
  <1>2. row \in UserRow
    BY <1>1 DEF UserRow
  <1>3. d.event => EndSessions(d, q) = [d EXCEPT !.user = [d.user EXCEPT ![q.target] = row]]
    BY <1>1 DEF EndSessions, DB
  <1> HIDE DEF row
  <1>4. d.event => EndSessions(d, q) \in DB
    BY <1>2, <1>3 DEF DB
  <1>5. d.event => [d.user EXCEPT ![q.target].live = FALSE] = [d.user EXCEPT ![q.target] = row]
    BY DEF row
  <1> QED BY <1>3, <1>4, <1>5 DEF EndSessions, DB

\* The clients of the target after their shutdown, and its row after the DELETE.
Shut(d, q) ==
    [c \in Client |->
      IF c \in Owned(d, q.target)
      THEN [row |-> d.client[c].row, owner |-> Nobody, disabled |-> TRUE, updatedAt |-> Now,
            settings |-> d.client[c].settings]
      ELSE d.client[c]]

Consents(d, q) == {g \in d.grant : g.client \notin Owned(d, q.target) \/ g.kind = "consent"}

LEMMA ShutdownResult ==
    ASSUME NEW d \in DB, NEW q \in UserChange, audited \in Nat
    PROVE  /\ Shut(d, q) \in [Client -> ClientRow]
           /\ \A c \in Client : Shut(d, q)[c].owner # q.target
           /\ Consents(d, q) \in SUBSET Grant
  <1>1. ASSUME NEW c \in Client PROVE Shut(d, q)[c] \in ClientRow /\ Shut(d, q)[c].owner # q.target
    <2>1. CASE c \in Owned(d, q.target)
      <3>1. Shut(d, q)[c] = [row |-> d.client[c].row, owner |-> Nobody, disabled |-> TRUE,
                             updatedAt |-> Now, settings |-> d.client[c].settings]
        BY <2>1 DEF Shut
      <3> QED BY <3>1, NobodyIsNoUser DEF DB, ClientRow, Now, UserChange
    <2>2. CASE c \notin Owned(d, q.target)
      BY <2>2 DEF Shut, Owned, DB
    <2> QED BY <2>1, <2>2
  <1>2. Shut(d, q) = [c \in Client |-> Shut(d, q)[c]]
    BY DEF Shut
  <1>3. Consents(d, q) \in SUBSET Grant
    BY DEF Consents, DB
  <1> QED BY <1>1, <1>2, <1>3

\* The order of the two: no client is left that ON DELETE SET NULL could orphan.
LEMMA DeletionResult ==
    ASSUME NEW d \in DB, NEW q \in UserChange, audited \in Nat
    PROVE  LET e == DeletionStatements(d, q)
           IN  /\ ~d.event => e = d
               /\ d.event /\ d.user[q.target].role = "bootadmin" => e = Database
               /\ d.event /\ d.user[q.target].role # "bootadmin" =>
                    e = [user |-> [d.user EXCEPT ![q.target] = Gone(d.user[q.target])],
                         client |-> Shut(d, q), grant |-> Consents(d, q), event |-> TRUE]
  <1> DEFINE e == ShutdownClients(d, q)
  <1>1. ~d.event => DeletionStatements(d, q) = d
    BY DEF DeletionStatements, ShutdownClients, DeleteUser
  <1>2. d.event => e = [user |-> d.user, client |-> Shut(d, q), grant |-> Consents(d, q),
                        event |-> TRUE]
    BY DEF ShutdownClients, Shut, Consents
  <1>3. d.event => Owned(e, q.target) = {}
    BY <1>2, ShutdownResult DEF Owned
  <1>4. [c \in Client |-> Shut(d, q)[c]] = Shut(d, q)
    BY DEF Shut
  <1> HIDE DEF e
  <1>5. DeletionStatements(d, q) = DeleteUser(e, q)
    BY DEF e, DeletionStatements
  <1>6. d.event /\ d.user[q.target].role = "bootadmin" => DeletionStatements(d, q) = Database
    BY <1>2, <1>5 DEF DeleteUser
  <1>7. ASSUME d.event, d.user[q.target].role # "bootadmin"
        PROVE  DeletionStatements(d, q) =
                 [user |-> [d.user EXCEPT ![q.target] = Gone(d.user[q.target])],
                  client |-> Shut(d, q), grant |-> Consents(d, q), event |-> TRUE]
    <2>1. DeleteUser(e, q) = [user |-> [e.user EXCEPT ![q.target] = Gone(@)],
                              client |-> [c \in Client |-> e.client[c]],
                              grant |-> e.grant, event |-> TRUE]
      <3>1. e.event /\ e.user[q.target].role # "bootadmin"
        BY <1>2, <1>7
      <3>2. [c \in Client |-> IF c \in Owned(e, q.target)
                             THEN [e.client[c] EXCEPT !.owner = Nobody] ELSE e.client[c]]
              = [c \in Client |-> e.client[c]]
        BY <1>3, <1>7
      <3> QED BY <3>1, <3>2, <1>2, <1>7 DEF DeleteUser
    <2>2. [e.user EXCEPT ![q.target] = Gone(@)]
            = [d.user EXCEPT ![q.target] = Gone(d.user[q.target])]
      BY <1>2, <1>7
    <2>3. e.client = Shut(d, q) /\ e.grant = Consents(d, q)
      BY <1>2, <1>7
    <2> QED BY <1>4, <1>5, <2>1, <2>2, <2>3
  <1> QED BY <1>1, <1>6, <1>7
\* A user batch as a whole: it does nothing, or it is authorized by what it finds.
Unchanged(d) == d.user = user /\ d.client = client /\ d.grant = grant /\ ~d.event

AuthorizedUser(q) ==
    IF q.kind = "self" THEN SelfGuard(Database, q)
    ELSE TransitionGuard(Database, q) /\ CommitActor(Database, q)

Deleted(d, q) ==
    /\ q.kind \in {"delete", "self"} /\ user[q.target].role # "bootadmin"
    /\ d.user = [user EXCEPT ![q.target] = Gone(user[q.target])]
    /\ d.client = Shut(Database, q) /\ d.grant = Consents(Database, q)

Transferred(d, q) ==
    /\ q.kind \in {"role", "status", "access"}
    /\ d.client = client /\ d.grant = grant
    /\ \/ d.user = [user EXCEPT ![q.target] = InStanding(user[q.target], q.next)]
       \/ d.user = [user EXCEPT ![q.target] = [InStanding(user[q.target], q.next)
                                                EXCEPT !.live = FALSE]]

LoggedOut(d, q) ==
    /\ q.kind = "revoke"
    /\ d.client = client /\ d.grant = grant
    /\ d.user = [user EXCEPT ![q.target].live = FALSE]

LEMMA UserBatchResult ==
    ASSUME TypeOK, NEW q \in UserChange
    PROVE  LET d == UserBatch(q)
           IN  /\ d \in DB
               /\ \/ Unchanged(d)
                  \/ /\ d.event /\ AuthorizedUser(q)
                     /\ Deleted(d, q) \/ Transferred(d, q) \/ LoggedOut(d, q)
  <1> DEFINE a == AuditUser(Database, q)
             d == UserBatch(q)
  <1>1. Database \in DB /\ Database.user = user /\ Database.client = client
        /\ Database.grant = grant /\ ~Database.event /\ audited \in Nat
    BY DEF Database, DB, TypeOK
  <1>2. /\ a \in DB /\ a.user = user /\ a.client = client /\ a.grant = grant
        /\ a.event = AuthorizedUser(q)
    BY <1>1, AuditUserResult DEF AuthorizedUser
  <1>3. Shut(a, q) = Shut(Database, q) /\ Consents(a, q) = Consents(Database, q)
    BY <1>1, <1>2 DEF Shut, Consents, Owned
  <1>4. TransitionGuard(a, q) = TransitionGuard(Database, q)
    BY <1>1, <1>2 DEF TransitionGuard
  <1>5. a.event /\ q.kind # "self" => TransitionGuard(a, q)
    BY <1>2, <1>4 DEF AuthorizedUser
  <1> HIDE DEF a
  <1>6. CASE q.kind \in {"delete", "self"}
    <2>1. d = DeletionStatements(a, q)
      BY <1>6 DEF UserBatch, LogsOut, a
    <2>2. CASE ~a.event
      BY <1>1, <1>2, <2>1, <2>2, DeletionResult DEF Unchanged
    <2>3. CASE a.event /\ a.user[q.target].role = "bootadmin"
      BY <1>1, <1>2, <2>1, <2>3, DeletionResult DEF Unchanged
    <2>4. CASE a.event /\ a.user[q.target].role # "bootadmin"
      <3>1. d = [user |-> [a.user EXCEPT ![q.target] = Gone(a.user[q.target])],
                 client |-> Shut(a, q), grant |-> Consents(a, q), event |-> TRUE]
        BY <1>1, <1>2, <2>1, <2>4, DeletionResult
      <3>2. Gone(a.user[q.target]) \in UserRow
        BY <1>2 DEF DB, Gone, UserRow, UserChange, Statuses
      <3>3. [a.user EXCEPT ![q.target] = Gone(a.user[q.target])] \in [User -> UserRow]
        BY <1>2, <3>2 DEF DB
      <3>4. d \in DB
        BY <1>1, <1>2, <3>1, <3>3, ShutdownResult DEF DB
      <3>5. Deleted(d, q)
        BY <1>2, <1>3, <1>6, <2>4, <3>1 DEF Deleted
      <3> QED BY <1>2, <2>4, <3>1, <3>4, <3>5
    <2> QED BY <2>2, <2>3, <2>4
  <1>7. CASE q.kind = "revoke"
    <2>1. d = EndSessions(a, q)
      BY <1>7 DEF UserBatch, LogsOut, a
    <2> QED BY <1>2, <1>7, <2>1, EndSessionsResult DEF Unchanged, LoggedOut
  <1>8. CASE q.kind \in {"role", "status", "access"}
    <2> DEFINE u == UpdateUser(a, q)
    <2>1. /\ u \in DB /\ u.event = a.event /\ u.client = client /\ u.grant = grant
          /\ ~a.event => u = a
          /\ a.event => u.user = [user EXCEPT ![q.target] = InStanding(user[q.target], q.next)]
      BY <1>1, <1>2, <1>5, <1>8, UpdateUserResult
    <2> HIDE DEF u
    <2>2. CASE LogsOut(q)
      <3>1. d = EndSessions(u, q)
        BY <1>8, <2>2 DEF UserBatch, a, u
      <3>2. a.event => u.user[q.target] = InStanding(user[q.target], q.next)
        BY <1>1, <2>1 DEF DB, UserChange, TypeOK
      <3>3. a.event => [u.user EXCEPT ![q.target].live = FALSE]
                         = [user EXCEPT ![q.target] = [InStanding(user[q.target], q.next)
                                                       EXCEPT !.live = FALSE]]
        BY <2>1, <3>2
      <3>4. d \in DB /\ d.event = a.event /\ d.client = client /\ d.grant = grant
            /\ d.user = IF a.event THEN [u.user EXCEPT ![q.target].live = FALSE] ELSE u.user
        BY <2>1, <3>1, EndSessionsResult
      <3> QED BY <1>2, <1>8, <2>1, <3>3, <3>4 DEF Unchanged, Transferred
    <2>3. CASE ~LogsOut(q)
      <3>1. d = u
        BY <1>8, <2>3 DEF UserBatch, a, u
      <3> QED BY <1>2, <1>8, <2>1, <3>1 DEF Unchanged, Transferred
    <2> QED BY <2>2, <2>3
  <1> QED BY <1>6, <1>7, <1>8 DEF UserChange, UserKinds
\* The statements of a client batch.
LEMMA AuditClientResult ==
    ASSUME NEW d \in DB, NEW q \in ClientChange
    PROVE  LET e == AuditClient(d, q)
           IN  /\ e \in DB /\ e.user = d.user /\ e.client = d.client /\ e.grant = d.grant
               /\ (e.event <=> SameClient(d, q) /\ CommitActor(d, q))
  BY DEF DB, AuditClient, SameClient, CommitActor

LEMMA PurgeResult ==
    ASSUME NEW d \in DB, NEW q \in ClientChange, NEW kinds
    PROVE  LET e == Purge(d, q, kinds)
           IN  /\ e \in DB /\ e.user = d.user /\ e.client = d.client /\ e.event = d.event
               /\ ManagedClient(d, q) =>
                    e.grant = {g \in d.grant : g.client # q.client \/ g.kind \notin kinds}
               /\ ~ManagedClient(d, q) => e = d
  BY DEF DB, Purge

LEMMA UpdateClientResult ==
    ASSUME NEW d \in DB, NEW q \in ClientChange, audited \in Nat
    PROVE  LET e == UpdateClient(d, q)
           IN  /\ e \in DB /\ e.user = d.user /\ e.grant = d.grant /\ e.event = d.event
               /\ ManagedClient(d, q) =>
                    e.client = [d.client EXCEPT ![q.client] = Updated(d.client[q.client], q)]
               /\ ~ManagedClient(d, q) => e = d
  <1>1. Updated(d.client[q.client], q) \in ClientRow
    <2> DEFINE row == d.client[q.client]
               off == q.kind = "disable" \/ (q.kind # "enable" /\ row.disabled)
               settings == IF q.kind = "patch" THEN q.next ELSE row.settings
    <2>1. row \in ClientRow /\ settings \in Settings /\ Now \in Nat
      BY DEF DB, ClientChange, ClientRow, Now
    <2>2. off \in BOOLEAN
      OBVIOUS
    <2>3. Updated(row, q) = [row |-> row.row, owner |-> row.owner, updatedAt |-> Now,
                             settings |-> settings, disabled |-> off]
      BY DEF Updated
    <2> HIDE DEF row, off, settings
    <2>4. Updated(row, q) \in ClientRow
      BY <2>1, <2>2, <2>3 DEF ClientRow
    <2> QED BY <2>4 DEF row
  <1> QED BY <1>1 DEF DB, UpdateClient, ClientChange

\* The guard of a client batch reads the users, the client, and for a PATCH the event.
LEMMA SameGuard ==
    ASSUME NEW d \in DB, NEW e \in DB, NEW q \in ClientChange,
           e.user = d.user,
           e.client[q.client].row = d.client[q.client].row,
           e.client[q.client].owner = d.client[q.client].owner,
           q.kind = "patch" => /\ e.client[q.client].updatedAt = d.client[q.client].updatedAt
                               /\ e.event = d.event
    PROVE  /\ (SameClient(e, q) <=> SameClient(d, q))
           /\ (CommitActor(e, q) <=> CommitActor(d, q))
           /\ (ManagedClient(e, q) <=> ManagedClient(d, q))
  <1>1. (SameClient(e, q) <=> SameClient(d, q))
    BY DEF SameClient
  <1>2. (CommitActor(e, q) <=> CommitActor(d, q))
    BY DEF CommitActor
  <1> QED BY <1>1, <1>2 DEF ManagedClient
\* A client batch as a whole.
Clients(q, row) == [client EXCEPT ![q.client] = row]
Without(q, kinds) == {g \in grant : g.client # q.client \/ g.kind \notin kinds}

Made(d, q) ==
    /\ q.kind = "create" /\ client[q.client].row = 0
    /\ d.client = Clients(q, Created(q)) /\ d.grant = grant

Patched(d, q) ==
    /\ q.kind = "patch"
    /\ d.client = Clients(q, Updated(client[q.client], q))
    /\ d.grant = CASE PermissionChanges(q) -> Without(q, Kinds)
                   [] RedirectChanges(q) /\ ~PermissionChanges(q)
                        -> Without(q, {"code", "consent"})
                   [] OTHER -> grant

Switched(d, q) ==
    /\ q.kind \in {"rotate", "enable", "disable"}
    /\ d.client = Clients(q, Updated(client[q.client], q))
    /\ d.grant = IF q.kind = "disable" THEN Without(q, Kinds \ {"consent"}) ELSE grant

Removed(d, q) ==
    /\ q.kind = "remove"
    /\ d.client = Clients(q, NoClient)
    /\ d.grant = {g \in grant : g.client # q.client}

ClientOutcome(d, q) ==
    /\ d \in DB
    /\ \/ Unchanged(d)
       \/ /\ d.event /\ CommitActor(Database, q) /\ d.user = user
          /\ \/ Made(d, q)
             \/ /\ SameClient(Database, q)
                /\ Patched(d, q) \/ Switched(d, q) \/ Removed(d, q)

LEMMA ClientBatchResult ==
    ASSUME TypeOK, NEW q \in ClientChange
    PROVE  ClientOutcome(ClientBatch(q), q)
  <1> DEFINE D == Database
             d == ClientBatch(q)
  <1> SUFFICES ClientOutcome(d, q)
    OBVIOUS
  <1>1. D \in DB /\ D.user = user /\ D.client = client /\ D.grant = grant /\ ~D.event
        /\ audited \in Nat /\ Unchanged(D)
    BY DEF Database, DB, TypeOK, Unchanged
  <1> HIDE DEF D, d
  <1>2. CASE q.kind = "create"
    <2>1. d = CreationBatch(q)
      BY <1>2 DEF d, ClientBatch
    <2>2. CASE CommitActor(D, q) /\ D.client[q.client].row = 0
      <3>1. d = [user |-> D.user, client |-> [D.client EXCEPT ![q.client] = Created(q)],
                 grant |-> D.grant, event |-> TRUE]
        BY <2>1, <2>2 DEF CreationBatch, D
      <3>2. Created(q) \in ClientRow
        BY <1>1 DEF Created, ClientRow, ClientChange, Now
      <3>3. [D.client EXCEPT ![q.client] = Created(q)] \in [Client -> ClientRow]
        BY <1>1, <3>2 DEF DB
      <3>4. d \in DB
        BY <1>1, <3>1, <3>3 DEF DB
      <3>5. Made(d, q)
        BY <1>1, <1>2, <2>2, <3>1 DEF Made, Clients
      <3> QED BY <1>1, <2>2, <3>1, <3>4, <3>5 DEF D, ClientOutcome
    <2>3. CASE ~(CommitActor(D, q) /\ D.client[q.client].row = 0)
      BY <1>1, <2>1, <2>3 DEF CreationBatch, D, ClientOutcome
    <2> QED BY <2>2, <2>3
  <1>3. CASE q.kind = "patch"
    <2> DEFINE a == AuditClient(D, q)
               kinds == IF PermissionChanges(q) THEN Kinds ELSE {"code", "consent"}
               p == IF PermissionChanges(q) \/ RedirectChanges(q) THEN Purge(a, q, kinds) ELSE a
    <2>1. a \in DB /\ a.user = user /\ a.client = client /\ a.grant = grant
          /\ (a.event <=> SameClient(D, q) /\ CommitActor(D, q))
      BY <1>1, AuditClientResult
    <2> HIDE DEF a
    <2>2. (SameClient(a, q) <=> SameClient(D, q))
      BY <1>1, <2>1 DEF SameClient
    <2>3. ManagedClient(a, q) <=> a.event
      BY <1>3, <2>1, <2>2 DEF ManagedClient
    <2>4. d = UpdateClient(p, q)
      BY <1>3 DEF d, ClientBatch, PatchStatements, a, D
    <2>5. /\ p \in DB /\ p.user = user /\ p.client = client /\ p.event = a.event
          /\ ~a.event => p = a
          /\ a.event => p.grant = IF PermissionChanges(q) \/ RedirectChanges(q)
                                  THEN Without(q, kinds) ELSE grant
      <3>1. CASE PermissionChanges(q) \/ RedirectChanges(q)
        <4>1. p = Purge(a, q, kinds)
          BY <3>1
        <4> HIDE DEF p, kinds
        <4>2. /\ p \in DB /\ p.user = a.user /\ p.client = a.client /\ p.event = a.event
              /\ a.event => p.grant = {g \in a.grant : g.client # q.client \/ g.kind \notin kinds}
              /\ ~a.event => p = a
          BY <2>1, <2>3, <4>1, PurgeResult
        <4> QED BY <2>1, <3>1, <4>2 DEF Without
      <3>2. CASE ~(PermissionChanges(q) \/ RedirectChanges(q))
        <4>1. p = a
          BY <3>2
        <4> HIDE DEF p, kinds
        <4> QED BY <2>1, <3>2, <4>1
      <3> QED BY <3>1, <3>2
    <2>6. a.event => p.grant = CASE PermissionChanges(q) -> Without(q, Kinds)
                                 [] RedirectChanges(q) /\ ~PermissionChanges(q)
                                      -> Without(q, {"code", "consent"})
                                 [] OTHER -> grant
      BY <2>5
    <2> HIDE DEF p, kinds
    <2>7. ManagedClient(p, q) <=> a.event
      BY <2>1, <2>3, <2>5, SameGuard
    <2>8. CASE a.event
      <3>1. d \in DB /\ d.user = user /\ d.event /\ d.grant = p.grant
            /\ d.client = Clients(q, Updated(client[q.client], q))
        <4>1. ManagedClient(p, q) /\ p.event /\ p \in DB /\ p.user = user /\ p.client = client
          BY <2>5, <2>7, <2>8
        <4>2. /\ d \in DB /\ d.user = p.user /\ d.grant = p.grant /\ d.event = p.event
              /\ d.client = [p.client EXCEPT ![q.client] = Updated(p.client[q.client], q)]
          BY <1>1, <2>4, <4>1, UpdateClientResult
        <4> QED BY <4>1, <4>2 DEF Clients
      <3>2. Patched(d, q)
        BY <1>3, <2>6, <2>8, <3>1 DEF Patched
      <3> QED BY <2>1, <2>8, <3>1, <3>2 DEF D, ClientOutcome
    <2>9. CASE ~a.event
      BY <1>1, <2>1, <2>4, <2>5, <2>7, <2>9, UpdateClientResult DEF Unchanged, ClientOutcome
    <2> QED BY <2>8, <2>9
  <1>4. CASE q.kind \in {"rotate", "enable"}
    <2> DEFINE u == UpdateClient(D, q)
    <2>1. d = AuditClient(u, q)
      BY <1>4 DEF d, ClientBatch, D
    <2>2. /\ u \in DB /\ u.user = user /\ u.grant = grant /\ ~u.event
          /\ ManagedClient(D, q) => u.client = Clients(q, Updated(client[q.client], q))
          /\ ~ManagedClient(D, q) => u = D
      BY <1>1, UpdateClientResult DEF Clients
    <2> HIDE DEF u
    <2>3. /\ u.client[q.client].row = client[q.client].row
          /\ u.client[q.client].owner = client[q.client].owner
      BY <1>1, <2>2 DEF Clients, Updated, DB, ClientChange
    <2>4. /\ (SameClient(u, q) <=> SameClient(D, q)) /\ (CommitActor(u, q) <=> CommitActor(D, q))
          /\ (ManagedClient(D, q) <=> SameClient(D, q) /\ CommitActor(D, q))
      BY <1>1, <1>4, <2>2, <2>3, SameGuard DEF ManagedClient
    <2>5. d \in DB /\ d.user = user /\ d.client = u.client /\ d.grant = grant
          /\ (d.event <=> SameClient(D, q) /\ CommitActor(D, q))
      BY <2>1, <2>2, <2>4, AuditClientResult
    <2> QED BY <1>1, <1>4, <2>2, <2>4, <2>5 DEF Unchanged, Switched, D, ClientOutcome
  <1>5. CASE q.kind = "disable"
    <2> DEFINE u == UpdateClient(D, q)
               p == Purge(u, q, Kinds \ {"consent"})
    <2>1. d = AuditClient(p, q)
      BY <1>5 DEF d, ClientBatch, D
    <2>2. /\ u \in DB /\ u.user = user /\ u.grant = grant /\ ~u.event
          /\ ManagedClient(D, q) => u.client = Clients(q, Updated(client[q.client], q))
          /\ ~ManagedClient(D, q) => u = D
      BY <1>1, UpdateClientResult DEF Clients
    <2> HIDE DEF u
    <2>3. /\ u.client[q.client].row = client[q.client].row
          /\ u.client[q.client].owner = client[q.client].owner
      BY <1>1, <2>2 DEF Clients, Updated, DB, ClientChange
    <2>4. /\ (SameClient(u, q) <=> SameClient(D, q)) /\ (CommitActor(u, q) <=> CommitActor(D, q))
          /\ (ManagedClient(u, q) <=> ManagedClient(D, q))
          /\ (ManagedClient(D, q) <=> SameClient(D, q) /\ CommitActor(D, q))
      BY <1>1, <1>5, <2>2, <2>3, SameGuard DEF ManagedClient
    <2>5. /\ p \in DB /\ p.user = user /\ p.client = u.client /\ ~p.event
          /\ ManagedClient(D, q) => p.grant = Without(q, Kinds \ {"consent"})
          /\ ~ManagedClient(D, q) => p = u
      BY <2>2, <2>4, PurgeResult DEF Without
    <2> HIDE DEF p
    <2>6. (SameClient(p, q) <=> SameClient(D, q)) /\ (CommitActor(p, q) <=> CommitActor(D, q))
      BY <1>5, <2>2, <2>4, <2>5, SameGuard
    <2>7. d \in DB /\ d.user = user /\ d.client = u.client /\ d.grant = p.grant
          /\ (d.event <=> SameClient(D, q) /\ CommitActor(D, q))
      BY <2>1, <2>5, <2>6, AuditClientResult
    <2> QED BY <1>1, <1>5, <2>2, <2>4, <2>5, <2>7 DEF Unchanged, Switched, D, ClientOutcome
  <1>6. CASE q.kind = "remove"
    <2> DEFINE p == Purge(D, q, {"code"})
               a == AuditClient(p, q)
    <2>1. d = RemoveClient(a, q)
      BY <1>6 DEF d, ClientBatch, D
    <2>2. /\ p \in DB /\ p.user = user /\ p.client = client /\ ~p.event
          /\ ManagedClient(D, q) => p.grant = Without(q, {"code"})
          /\ ~ManagedClient(D, q) => p = D
      BY <1>1, PurgeResult DEF Without
    <2> HIDE DEF p
    <2>3. /\ (SameClient(p, q) <=> SameClient(D, q)) /\ (CommitActor(p, q) <=> CommitActor(D, q))
          /\ (ManagedClient(D, q) <=> SameClient(D, q) /\ CommitActor(D, q))
      BY <1>1, <1>6, <2>2, SameGuard DEF ManagedClient
    <2>4. /\ a \in DB /\ a.user = user /\ a.client = client /\ a.grant = p.grant
          /\ (a.event <=> SameClient(D, q) /\ CommitActor(D, q))
      BY <2>2, <2>3, AuditClientResult
    <2> HIDE DEF a
    <2>5. ManagedClient(a, q) <=> ManagedClient(D, q)
      BY <1>1, <1>6, <2>3, <2>4 DEF ManagedClient, SameClient, CommitActor
    <2>6. CASE ManagedClient(D, q)
      <3>1. d = [user |-> a.user, client |-> [a.client EXCEPT ![q.client] = NoClient],
                 grant |-> {g \in a.grant : g.client # q.client \/ g.kind = "code"},
                 event |-> a.event]
        BY <2>1, <2>5, <2>6 DEF RemoveClient
      <3>2. NoClient \in ClientRow
        BY DEF NoClient, ClientRow, Blank, Settings
      <3>3. [a.client EXCEPT ![q.client] = NoClient] \in [Client -> ClientRow]
        BY <2>4, <3>2 DEF DB
      <3>4. d \in DB
        BY <2>4, <3>1, <3>3 DEF DB
      <3>5. d.grant = {g \in grant : g.client # q.client}
        BY <2>2, <2>4, <2>6, <3>1 DEF Without
      <3>6. Removed(d, q)
        BY <1>6, <2>4, <3>1, <3>5 DEF Removed, Clients
      <3> QED BY <2>3, <2>4, <2>6, <3>1, <3>4, <3>6 DEF D, ClientOutcome
    <2>7. CASE ~ManagedClient(D, q)
      BY <1>1, <2>1, <2>2, <2>3, <2>4, <2>5, <2>7 DEF RemoveClient, Unchanged, ClientOutcome
    <2> QED BY <2>6, <2>7
  <1> QED BY <1>2, <1>3, <1>4, <1>5, <1>6 DEF d, ClientChange, ClientKinds

-------------------------------------------------------------------------------
(* The inductive invariant                                                 *)

Places == {Idle} \cup Gated \cup UserChange \cup ClientChange

\* What the gate and the reads have established of the request alone: it keeps
\* for as long as the request is in flight.
Entitled(q) ==
    /\ q.at = "gated" => q.as = EffectiveRole(q.actor, q.role) /\ q.as \in ClientManagers
    /\ q.at = "user" /\ q.kind = "self" => q.target = q.actor /\ q.actor # Boot
    /\ q.at = "user" /\ q.kind # "self" =>
         /\ EffectiveRole(q.actor, q.role) \in Managers
         /\ q.target # Boot /\ q.target # q.actor /\ q.seen.role # "bootadmin"
         /\ q.next.status # "gone"
         /\ EffectiveRole(q.target, q.next.role) # EffectiveRole(q.target, q.seen.role) =>
              {EffectiveRole(q.target, q.seen.role), EffectiveRole(q.target, q.next.role)}
                \subseteq Assignable(EffectiveRole(q.actor, q.role))
    /\ q.at = "client" =>
         /\ \/ EffectiveRole(q.actor, q.role) \in Managers
            \/ EffectiveRole(q.actor, q.role) = "developer" /\ q.owner = q.actor
         /\ q.kind = "create" => q.owner \in {Nobody, q.actor}

\* The version of a PATCH stands for the settings that it has read.
FreshEdit(q) ==
    q.at = "client" /\ q.kind = "patch" =>
      /\ q.row # 0 /\ q.version <= audited
      /\ client[q.client].row # 0 /\ client[q.client].updatedAt = q.version =>
           client[q.client].settings = q.seen

RequestsAreSound == \A r \in Request : Entitled(request[r]) /\ FreshEdit(request[r])

ClientsAreSound ==
    \A c \in Client :
      /\ client[c].updatedAt <= audited
      /\ client[c].row = 0 => client[c].owner = Nobody
      /\ client[c].owner # Nobody => user[client[c].owner].status # "gone"

\* What an OAuth request in flight will issue is covered, or is late.
FlowsAreCovered ==
    \A f \in Flow :
      LET w == flow[f]
          c == client[w.client]
      IN  w.at = "issue" =>
            /\ w.kinds \in {{"consent", "code"}, {"access", "refresh"}}
            /\ \/ w.late
               \/ /\ c.row # 0 /\ ~c.disabled
                  /\ w.under.permission = c.settings.permission
                  /\ "code" \in w.kinds => w.under = c.settings

Ind == /\ TypeOK /\ RequestsAreSound /\ ClientsAreSound
       /\ FlowsAreCovered /\ GrantsFollowTheClient

\* The shape of a request tells its place.
LEMMA Placed ==
    ASSUME NEW q \in Places
    PROVE  /\ q.at = "gated" => q \in Gated
           /\ q.at = "user" => q \in UserChange
           /\ q.at = "client" => q \in ClientChange
  BY DEF Places, Idle, Gated, UserChange, ClientChange

LEMMA RolesOk ==
    ASSUME NEW u \in User, NEW role \in Roles
    PROVE  EffectiveRole(u, role) \in Roles
  BY DEF EffectiveRole, Roles

LEMMA Initially == Init => Ind
  <1> SUFFICES ASSUME Init PROVE Ind
    OBVIOUS
  <1>1. PICK role \in Stored :
          user = [u \in User |-> [role |-> role[u], status |-> "active", level |-> "standard",
                                  updatedAt |-> 0, session |-> 1, live |-> TRUE]]
    BY DEF Init
  <1>2. role \in [User -> Roles]
    BY StartIsTyped DEF Roles
  <1>3. user \in [User -> UserRow]
    BY <1>1, <1>2 DEF UserRow, Statuses, Levels
  <1>4. ASSUME NEW c \in Client
        PROVE  /\ client[c] \in ClientRow /\ client[c].updatedAt = 0
               /\ client[c].row = 0 => client[c].owner = Nobody
               /\ client[c].owner # Nobody => client[c].owner \in User
    <2>1. CASE Registered[c] = Nobody
      BY <2>1 DEF Init, NoClient, ClientRow, Blank, Settings
    <2>2. CASE Registered[c] # Nobody
      <3>1. client[c] = [row |-> 1, owner |-> Registered[c], disabled |-> FALSE, updatedAt |-> 0,
                         settings |-> Blank]
        BY <2>2 DEF Init
      <3> QED BY <2>2, <3>1, StartIsTyped DEF ClientRow, Blank, Settings
    <2> QED BY <2>1, <2>2
  <1>5. client \in [Client -> ClientRow]
    BY <1>4 DEF Init
  <1>6. TypeOK
    BY <1>3, <1>5 DEF Init, TypeOK
  <1>7. RequestsAreSound
    BY DEF Init, RequestsAreSound, Entitled, FreshEdit, Idle
  <1>8. ClientsAreSound
    <2>1. \A u \in User : user[u].status # "gone"
      BY <1>1
    <2>2. audited = 0
      BY DEF Init
    <2> QED BY <1>4, <2>1, <2>2 DEF ClientsAreSound
  <1>9. FlowsAreCovered /\ GrantsFollowTheClient
    BY DEF Init, FlowsAreCovered, GrantsFollowTheClient, Idle
  <1> QED BY <1>6, <1>7, <1>8, <1>9 DEF Ind

-------------------------------------------------------------------------------
(* The gate and the reads                                                  *)

\* A request goes on with q.
Goes(r, q) == q \in Places /\ Entitled(q) /\ FreshEdit(q) /\ Goto(r, q)

LEMMA GateResult ==
    ASSUME Ind, NEW r \in Request, NEW u \in User, Gate(r, u)
    PROVE  \E q : Goes(r, q)
  <1> DEFINE q == [at |-> "gated", actor |-> u, as |-> RoleOf(u), role |-> user[u].role,
                   session |-> user[u].session]
  <1>1. user[u] \in UserRow
    BY DEF Ind, TypeOK
  <1>2. RoleOf(u) \in Roles
    BY <1>1, RolesOk DEF RoleOf, UserRow
  <1>3. q \in Gated
    BY <1>1, <1>2 DEF Gated, UserRow
  <1>4. Entitled(q) /\ FreshEdit(q)
    BY DEF Gate, Entitled, FreshEdit, RoleOf
  <1>5. Goto(r, q)
    BY DEF Gate
  <1> HIDE DEF q
  <1> QED BY <1>3, <1>4, <1>5 DEF Goes, Places

LEMMA ReadForSelfResult ==
    ASSUME Ind, NEW r \in Request, NEW u \in User, ReadForSelf(r, u)
    PROVE  \E q : Goes(r, q)
  <1> DEFINE q == [at |-> "user", kind |-> "self", actor |-> u, role |-> user[u].role,
                   session |-> user[u].session, target |-> u, version |-> user[u].updatedAt,
                   seen |-> StandingOf(u), next |-> StandingOf(u)]
  <1>1. user[u] \in UserRow
    BY DEF Ind, TypeOK
  <1>2. StandingOf(u) \in Standing
    BY <1>1 DEF StandingOf, Standing, UserRow
  <1>3. q \in UserChange
    BY <1>1, <1>2 DEF UserChange, UserRow, UserKinds
  <1>4. Entitled(q) /\ FreshEdit(q)
    BY DEF ReadForSelf, Entitled, FreshEdit
  <1>5. Goto(r, q)
    BY DEF ReadForSelf
  <1> HIDE DEF q
  <1> QED BY <1>3, <1>4, <1>5 DEF Goes, Places

\* A gated request that reads a target which it may take to the standing next.
LEMMA ReadingResult ==
    ASSUME Ind, NEW r \in Request, NEW u \in User, NEW kind \in UserKinds \ {"self"},
           NEW next \in Standing, Targets(r, u), Reading(r, kind, u, next),
           MayManage(request[r].actor, u), next.status # "gone",
           EffectiveRole(u, next.role) # RoleOf(u) =>
             {RoleOf(u), EffectiveRole(u, next.role)} \subseteq Assignable(request[r].as)
    PROVE  \E q : Goes(r, q)
  <1> DEFINE g == request[r]
             q == [at |-> "user", kind |-> kind, actor |-> g.actor, role |-> g.role,
                   session |-> g.session, target |-> u, version |-> 0,
                   seen |-> StandingOf(u), next |-> next]
  <1>1. user[u] \in UserRow /\ g \in Places
    BY DEF Ind, TypeOK, Places
  <1>2. StandingOf(u) \in Standing /\ StandingOf(u).role = user[u].role
    BY <1>1 DEF StandingOf, Standing, UserRow
  <1>3. g \in Gated /\ g.at = "gated"
    BY <1>1, Placed DEF Targets
  <1>4. g.actor \in User /\ g.role \in Roles /\ g.session \in Nat
    BY <1>3 DEF Gated
  <1>5. q \in UserChange
    BY <1>1, <1>2, <1>4 DEF UserChange, UserRow
  <1>6. g.as = EffectiveRole(g.actor, g.role) /\ g.as \in Managers
    BY <1>3 DEF Ind, RequestsAreSound, Entitled, Targets
  <1>7. u # Boot /\ u # g.actor /\ user[u].role # "bootadmin"
    BY DEF MayManage, Protected
  <1>8. Goto(r, q)
    BY DEF Reading
  <1>9. q.at = "user" /\ q.kind # "self" /\ q.actor = g.actor /\ q.role = g.role /\ q.target = u
        /\ q.seen = StandingOf(u) /\ q.next = next
    OBVIOUS
  <1> HIDE DEF q, g
  <1>10. Entitled(q) /\ FreshEdit(q)
    BY <1>2, <1>6, <1>7, <1>9 DEF Entitled, FreshEdit, RoleOf, g
  <1> QED BY <1>5, <1>8, <1>10 DEF Goes, Places

LEMMA UserReads ==
    ASSUME Ind, NEW r \in Request, NEW u \in User,
           \/ Gate(r, u) \/ ReadForSelf(r, u)
           \/ \E x \in Roles \ {"bootadmin"} : ReadForRole(r, u, x)
           \/ \E x \in {"active", "suspended"} : ReadForStatus(r, u, x)
           \/ \E x \in Levels : ReadForAccess(r, u, x)
           \/ \E kind \in UserKinds : ReadForEnd(r, u, kind)
    PROVE  \E q : Goes(r, q)
  <1>1. user[u] \in UserRow
    BY DEF Ind, TypeOK
  <1>2. StandingOf(u) \in Standing /\ StandingOf(u).role = user[u].role
        /\ StandingOf(u).status = user[u].status /\ StandingOf(u).level = user[u].level
    BY <1>1 DEF StandingOf, Standing, UserRow
  <1>3. CASE Gate(r, u)
    BY <1>3, GateResult
  <1>4. CASE ReadForSelf(r, u)
    BY <1>4, ReadForSelfResult
  <1>5. ASSUME NEW x \in Roles \ {"bootadmin"}, ReadForRole(r, u, x) PROVE \E q : Goes(r, q)
    <2> DEFINE next == [StandingOf(u) EXCEPT !.role = x]
    <2>1. next \in Standing /\ next.role = x /\ next.status = user[u].status
      BY <1>2 DEF Standing
    <2>2. Targets(r, u) /\ Reading(r, "role", u, next)
          /\ MayAssign(request[r].actor, request[r].as, u, x)
      BY <1>5 DEF ReadForRole
    <2>3. EffectiveRole(u, next.role) = x
      BY <2>1, <2>2 DEF EffectiveRole, MayAssign, Protected
    <2> HIDE DEF next
    <2> QED BY <2>1, <2>2, <2>3, ReadingResult DEF MayAssign, MayManage, Targets, UserKinds
  <1>6. ASSUME NEW x \in {"active", "suspended"}, ReadForStatus(r, u, x) PROVE \E q : Goes(r, q)
    <2> DEFINE next == [StandingOf(u) EXCEPT !.status = x]
    <2>1. next \in Standing /\ next.role = user[u].role /\ next.status # "gone"
      BY <1>2 DEF Standing, Statuses
    <2>2. Targets(r, u) /\ Reading(r, "status", u, next) /\ MayManage(request[r].actor, u)
      BY <1>6 DEF ReadForStatus
    <2>3. EffectiveRole(u, next.role) = RoleOf(u)
      BY <2>1 DEF RoleOf
    <2> HIDE DEF next
    <2> QED BY <2>1, <2>2, <2>3, ReadingResult DEF UserKinds
  <1>7. ASSUME NEW x \in Levels, ReadForAccess(r, u, x) PROVE \E q : Goes(r, q)
    <2> DEFINE next == [role |-> IF x = "restricted" THEN "user" ELSE user[u].role,
                        status |-> user[u].status, level |-> x]
    <2>1. next \in Standing /\ next.status = user[u].status
          /\ next.role = IF x = "restricted" THEN "user" ELSE user[u].role
      BY <1>1 DEF Standing, UserRow, Roles
    <2>2. Targets(r, u) /\ Reading(r, "access", u, next) /\ MayManage(request[r].actor, u)
          /\ (x = "restricted" /\ RoleOf(u) # "user"
                => MayAssign(request[r].actor, request[r].as, u, "user"))
      BY <1>7 DEF ReadForAccess
    <2>3. EffectiveRole(u, next.role) # RoleOf(u) =>
            {RoleOf(u), EffectiveRole(u, next.role)} \subseteq Assignable(request[r].as)
      BY <2>1, <2>2 DEF EffectiveRole, RoleOf, MayAssign, MayManage, Protected
    <2> HIDE DEF next
    <2> QED BY <2>1, <2>2, <2>3, ReadingResult DEF Targets, UserKinds
  <1>8. ASSUME NEW kind \in UserKinds, ReadForEnd(r, u, kind) PROVE \E q : Goes(r, q)
    <2>1. Targets(r, u) /\ Reading(r, kind, u, StandingOf(u)) /\ MayManage(request[r].actor, u)
          /\ kind # "self"
      BY <1>8 DEF ReadForEnd
    <2>2. EffectiveRole(u, StandingOf(u).role) = RoleOf(u)
      BY <1>2 DEF RoleOf
    <2> QED BY <1>2, <2>1, <2>2, ReadingResult DEF Targets
  <1> QED BY <1>3, <1>4, <1>5, <1>6, <1>7, <1>8

\* A gated request that has read a client of its own, or that manages all of them.
LEMMA ReadingClientResult ==
    ASSUME Ind, NEW r \in Request, NEW c \in Client, NEW kind \in ClientKinds,
           NEW owner \in User \cup {Nobody}, NEW version \in Nat, NEW seen \in Settings,
           NEW next \in Settings, request[r].at = "gated",
           ReadingClient(r, kind, c, owner, version, seen, next),
           request[r].as \notin Managers => owner = request[r].actor,
           kind = "create" => owner \in {Nobody, request[r].actor},
           kind = "patch" => /\ client[c].row # 0 /\ version = client[c].updatedAt
                             /\ seen = client[c].settings
    PROVE  \E q : Goes(r, q)
  <1> DEFINE g == request[r]
             q == [at |-> "client", kind |-> kind, actor |-> g.actor, role |-> g.role,
                   session |-> g.session, client |-> c, owner |-> owner, row |-> client[c].row,
                   version |-> version, seen |-> seen, next |-> next]
  <1>1. client[c] \in ClientRow /\ g \in Places
    BY DEF Ind, TypeOK, Places
  <1>2. g \in Gated
    BY <1>1, Placed
  <1>3. g.actor \in User /\ g.role \in Roles /\ g.session \in Nat
    BY <1>2 DEF Gated
  <1>4. q \in ClientChange
    BY <1>1, <1>3 DEF ClientChange, ClientRow
  <1>5. g.as = EffectiveRole(g.actor, g.role) /\ g.as \in ClientManagers
    BY DEF Ind, RequestsAreSound, Entitled
  <1>6. Goto(r, q)
    BY DEF ReadingClient
  <1>7. q.at = "client" /\ q.kind = kind /\ q.actor = g.actor /\ q.role = g.role /\ q.client = c
        /\ q.owner = owner /\ q.row = client[c].row /\ q.version = version /\ q.seen = seen
    OBVIOUS
  <1>8. client[c].updatedAt <= audited
    BY DEF Ind, ClientsAreSound
  <1> HIDE DEF q
  <1>9. Entitled(q)
    BY <1>5, <1>7 DEF Entitled, Managers, ClientManagers
  <1>10. FreshEdit(q)
    BY <1>7, <1>8 DEF FreshEdit
  <1> QED BY <1>4, <1>6, <1>9, <1>10 DEF Goes, Places

LEMMA ClientReads ==
    ASSUME Ind, NEW r \in Request, NEW c \in Client,
           \/ \E settings \in Settings : ReadForCreate(r, c, settings) \/ ReadForPatch(r, c, settings)
           \/ \E kind \in ClientKinds : ReadForClient(r, c, kind)
    PROVE  \E q : Goes(r, q)
  <1>1. /\ client[c] \in ClientRow /\ client[c].owner \in User \cup {Nobody}
        /\ client[c].updatedAt \in Nat /\ client[c].settings \in Settings
    BY DEF Ind, TypeOK, ClientRow
  <1>2. Blank \in Settings
    BY DEF Blank, Settings
  <1>3. request[r].at = "gated" => request[r].actor \in User
    BY Placed DEF Ind, TypeOK, Places, Gated
  <1>4. ASSUME NEW settings \in Settings, ReadForCreate(r, c, settings) PROVE \E q : Goes(r, q)
    <2> DEFINE owner == IF c \in Reserved THEN Nobody ELSE request[r].actor
    <2>1. /\ request[r].at = "gated" /\ (c \in Reserved => request[r].as \in Managers)
          /\ ReadingClient(r, "create", c, owner, 0, Blank, settings)
      BY <1>4 DEF ReadForCreate
    <2>2. owner \in User \cup {Nobody} /\ owner \in {Nobody, request[r].actor}
          /\ (request[r].as \notin Managers => owner = request[r].actor)
      BY <1>3, <2>1
    <2> HIDE DEF owner
    <2> QED BY <1>2, <2>1, <2>2, ReadingClientResult DEF ClientKinds
  <1>5. Manages(r, c) =>
          /\ request[r].at = "gated" /\ client[c].row # 0
          /\ OwnerAsked(r, c) \in User \cup {Nobody}
          /\ request[r].as \notin Managers => OwnerAsked(r, c) = request[r].actor
    BY <1>1 DEF Manages, OwnerAsked
  <1>6. ASSUME NEW settings \in Settings, ReadForPatch(r, c, settings) PROVE \E q : Goes(r, q)
    <2>1. Manages(r, c) /\ ReadingClient(r, "patch", c, OwnerAsked(r, c), client[c].updatedAt,
                                         client[c].settings, settings)
      BY <1>6 DEF ReadForPatch
    <2> QED BY <1>1, <1>5, <2>1, ReadingClientResult DEF ClientKinds
  <1>7. ASSUME NEW kind \in ClientKinds, ReadForClient(r, c, kind) PROVE \E q : Goes(r, q)
    <2>1. Manages(r, c) /\ kind \notin {"create", "patch"}
          /\ ReadingClient(r, kind, c, OwnerAsked(r, c), 0, Blank, Blank)
      BY <1>7 DEF ReadForClient
    <2> QED BY <1>2, <1>5, <2>1, ReadingClientResult
  <1> QED BY <1>4, <1>6, <1>7

LEMMA GiveUpResult ==
    ASSUME NEW r \in Request, GiveUp(r)
    PROVE  \E q : Goes(r, q)
  BY DEF GiveUp, Goes, Places, Idle, Entitled, FreshEdit

LEMMA GoesKeepsInd ==
    ASSUME Ind, NEW r \in Request, NEW q, Goes(r, q)
    PROVE  Ind'
  <1>1. /\ request' = [request EXCEPT ![r] = q] /\ q \in Places /\ Entitled(q) /\ FreshEdit(q)
        /\ UNCHANGED <<user, client, grant, flow, audited>>
    BY DEF Goes, Goto
  <1>2. TypeOK'
    <2>1. request' \in [Request -> Places]
      BY <1>1 DEF Ind, TypeOK, Places
    <2> QED BY <1>1, <2>1 DEF Ind, TypeOK, Places
  <1>3. RequestsAreSound'
    <2>1. ASSUME NEW x \in Request PROVE Entitled(request'[x]) /\ FreshEdit(request'[x])
      BY <1>1 DEF Ind, RequestsAreSound, TypeOK
    <2>2. ASSUME NEW x \in Request PROVE (Entitled(request[x]) /\ FreshEdit(request[x]))'
      BY <1>1, <2>1 DEF Entitled, FreshEdit
    <2> QED BY <2>2 DEF RequestsAreSound
  <1>4. ClientsAreSound'
    BY <1>1 DEF Ind, ClientsAreSound
  <1>5. FlowsAreCovered'
    BY <1>1 DEF Ind, FlowsAreCovered
  <1>6. GrantsFollowTheClient'
    BY <1>1 DEF Ind, GrantsFollowTheClient, Covered
  <1> QED BY <1>2, <1>3, <1>4, <1>5, <1>6 DEF Ind

-------------------------------------------------------------------------------
(* Sessions and OAuth requests                                             *)

LEMMA SessionsKeepInd ==
    ASSUME Ind, NEW u \in User, SignIn(u) \/ SessionEnds(u)
    PROVE  /\ Ind' /\ UNCHANGED <<client, grant, request, flow, audited>>
           /\ \A x \in User : StandingOf(x)' = StandingOf(x)
  <1>1. user[u] \in UserRow
    BY DEF Ind, TypeOK
  <1>2. PICK row \in UserRow : /\ user' = [user EXCEPT ![u] = row]
                               /\ row.role = user[u].role /\ row.status = user[u].status
                               /\ row.level = user[u].level
    <2>1. CASE SignIn(u)
      <3> DEFINE row == [role |-> user[u].role, status |-> user[u].status,
                         level |-> user[u].level, updatedAt |-> user[u].updatedAt,
                         session |-> user[u].session + 1, live |-> TRUE]
      <3>1. row \in UserRow /\ user' = [user EXCEPT ![u] = row]
        BY <1>1, <2>1 DEF SignIn, UserRow
      <3> QED BY <3>1
    <2>2. CASE SessionEnds(u)
      <3> DEFINE row == [user[u] EXCEPT !.live = FALSE]
      <3>1. row \in UserRow /\ user' = [user EXCEPT ![u] = row]
        BY <1>1, <2>2 DEF SessionEnds, UserRow
      <3> QED BY <1>1, <3>1 DEF UserRow
    <2> QED BY <2>1, <2>2
  <1>3. UNCHANGED <<client, grant, request, flow, audited>>
    BY DEF SignIn, SessionEnds
  <1>4. user' \in [User -> UserRow]
    BY <1>2 DEF Ind, TypeOK
  <1>5. \A x \in User : /\ user'[x].role = user[x].role /\ user'[x].status = user[x].status
                        /\ user'[x].level = user[x].level
    BY <1>2 DEF Ind, TypeOK
  <1>6. TypeOK' /\ \A x \in User : StandingOf(x)' = StandingOf(x)
    BY <1>3, <1>4, <1>5 DEF Ind, TypeOK, StandingOf
  <1>7. RequestsAreSound'
    <2>1. ASSUME NEW x \in Request PROVE (Entitled(request[x]) /\ FreshEdit(request[x]))'
      BY <1>3 DEF Ind, RequestsAreSound, Entitled, FreshEdit
    <2> QED BY <2>1 DEF RequestsAreSound
  <1>8. ClientsAreSound'
    BY <1>3, <1>5 DEF Ind, ClientsAreSound, TypeOK, ClientRow
  <1>9. FlowsAreCovered' /\ GrantsFollowTheClient'
    BY <1>3 DEF Ind, FlowsAreCovered, GrantsFollowTheClient, Covered
  <1> QED BY <1>3, <1>6, <1>7, <1>8, <1>9 DEF Ind

LEMMA Flowing ==
    ASSUME TypeOK, NEW f \in Flow, flow[f].at = "issue"
    PROVE  flow[f] \in Issuing
  BY DEF TypeOK, Idle, Over, Issuing

\* Only flows and grants: the rest of the invariant stays.
LEMMA OAuthKeepsRest ==
    ASSUME Ind, UNCHANGED <<user, client, request, audited>>
    PROVE  RequestsAreSound' /\ ClientsAreSound'
  <1>1. ASSUME NEW x \in Request PROVE (Entitled(request[x]) /\ FreshEdit(request[x]))'
    BY DEF Ind, RequestsAreSound, Entitled, FreshEdit
  <1>2. ClientsAreSound'
    BY DEF Ind, ClientsAreSound
  <1> QED BY <1>1, <1>2 DEF RequestsAreSound

LEMMA AuthorizeKeepsInd ==
    ASSUME Ind, NEW f \in Flow, NEW c \in Client, Authorize(f, c)
    PROVE  Ind' /\ UNCHANGED <<user, client, request, audited>>
  <1> DEFINE w == [at |-> "issue", client |-> c, kinds |-> {"consent", "code"},
                   under |-> client[c].settings, late |-> FALSE]
  <1>1. /\ flow' = [flow EXCEPT ![f] = w] /\ Usable(c)
        /\ UNCHANGED <<user, client, grant, request, audited>>
    BY DEF Authorize
  <1>2. client[c] \in ClientRow
    BY DEF Ind, TypeOK
  <1>3. w \in Issuing /\ w.at = "issue" /\ w.client = c /\ w.kinds = {"consent", "code"}
        /\ w.under = client[c].settings /\ ~w.late
    BY <1>2 DEF Issuing, ClientRow, Kinds
  <1> HIDE DEF w
  <1>4. TypeOK'
    <2>1. flow' \in [Flow -> {Idle, Over} \cup Issuing]
      BY <1>1, <1>3 DEF Ind, TypeOK
    <2> QED BY <1>1, <2>1 DEF Ind, TypeOK
  <1>5. FlowsAreCovered'
    <2>1. ASSUME NEW x \in Flow
          PROVE  (x = f /\ flow'[x] = w) \/ flow'[x] = flow[x]
      BY <1>1 DEF Ind, TypeOK
    <2> QED BY <1>1, <1>3, <2>1 DEF Ind, FlowsAreCovered, Usable
  <1>6. GrantsFollowTheClient'
    BY <1>1 DEF Ind, GrantsFollowTheClient, Covered
  <1> QED BY <1>1, <1>4, <1>5, <1>6, OAuthKeepsRest DEF Ind

LEMMA RedeemKeepsInd ==
    ASSUME Ind, NEW f \in Flow, NEW g \in grant, Redeem(f, g)
    PROVE  Ind' /\ UNCHANGED <<user, client, request, audited>>
  <1> DEFINE w == [at |-> "issue", client |-> g.client, kinds |-> {"access", "refresh"},
                   under |-> g.under, late |-> g.late]
  <1>1. /\ flow' = [flow EXCEPT ![f] = w] /\ grant' = grant \ {g} /\ Usable(g.client)
        /\ UNCHANGED <<user, client, request, audited>>
    BY DEF Redeem
  <1>2. g \in Grant
    BY DEF Ind, TypeOK
  <1>3. w \in Issuing /\ w.at = "issue" /\ w.client = g.client
        /\ w.kinds = {"access", "refresh"} /\ w.under = g.under /\ w.late = g.late
    BY <1>2 DEF Issuing, Grant, Kinds
  <1> HIDE DEF w
  <1>4. TypeOK'
    <2>1. flow' \in [Flow -> {Idle, Over} \cup Issuing]
      BY <1>1, <1>3 DEF Ind, TypeOK
    <2> QED BY <1>1, <2>1 DEF Ind, TypeOK
  <1>5. FlowsAreCovered'
    <2>1. ASSUME NEW x \in Flow
          PROVE  (x = f /\ flow'[x] = w) \/ flow'[x] = flow[x]
      BY <1>1 DEF Ind, TypeOK
    <2>2. Covered(g) \/ g.late
      BY DEF Ind, GrantsFollowTheClient
    <2>3. \/ w.late
          \/ /\ client[w.client].row # 0 /\ ~client[w.client].disabled
             /\ w.under.permission = client[w.client].settings.permission
      BY <1>1, <1>3, <2>2 DEF Covered, Usable
    <2> QED BY <1>1, <1>3, <2>1, <2>3 DEF Ind, FlowsAreCovered
  <1>6. GrantsFollowTheClient'
    BY <1>1 DEF Ind, GrantsFollowTheClient, Covered
  <1> QED BY <1>1, <1>4, <1>5, <1>6, OAuthKeepsRest DEF Ind

LEMMA IssueKeepsInd ==
    ASSUME Ind, NEW f \in Flow, Issue(f)
    PROVE  Ind' /\ UNCHANGED <<user, client, request, audited>>
  <1> DEFINE w == flow[f]
             kinds == IF client[w.client].row = 0 THEN w.kinds \cap {"code"} ELSE w.kinds
             new == {[client |-> w.client, kind |-> k, under |-> w.under, late |-> w.late]
                       : k \in kinds}
  <1>1. /\ w.at = "issue" /\ grant' = grant \cup new /\ flow' = [flow EXCEPT ![f] = Over]
        /\ UNCHANGED <<user, client, request, audited>>
    BY DEF Issue
  <1>2. w \in Issuing
    BY <1>1, Flowing DEF Ind
  <1>3. ASSUME NEW g \in new
        PROVE  g \in Grant /\ g.client = w.client /\ g.under = w.under /\ g.late = w.late
               /\ g.kind \in kinds
    <2>1. PICK k \in kinds : g = [client |-> w.client, kind |-> k, under |-> w.under,
                                  late |-> w.late]
      OBVIOUS
    <2>2. k \in Kinds
      BY <1>2 DEF Issuing
    <2> QED BY <1>2, <2>1, <2>2 DEF Issuing, Grant
  <1> HIDE DEF new
  <1>4. TypeOK'
    <2>1. flow' \in [Flow -> {Idle, Over} \cup Issuing]
      BY <1>1 DEF Ind, TypeOK
    <2>2. grant' \subseteq Grant
      BY <1>1, <1>3 DEF Ind, TypeOK
    <2> QED BY <1>1, <2>1, <2>2 DEF Ind, TypeOK
  <1>5. FlowsAreCovered'
    <2>1. ASSUME NEW x \in Flow
          PROVE  flow'[x] = Over \/ flow'[x] = flow[x]
      BY <1>1 DEF Ind, TypeOK
    <2> QED BY <1>1, <2>1 DEF Ind, FlowsAreCovered, Over
  <1>6. GrantsFollowTheClient'
    <2>1. ASSUME NEW g \in new PROVE Covered(g) \/ g.late
      <3>1. /\ w.kinds \in {{"consent", "code"}, {"access", "refresh"}}
            /\ \/ w.late
               \/ /\ client[w.client].row # 0 /\ ~client[w.client].disabled
                  /\ w.under.permission = client[w.client].settings.permission
                  /\ "code" \in w.kinds => w.under = client[w.client].settings
        BY <1>1 DEF Ind, FlowsAreCovered
      <3>2. CASE w.late
        BY <1>3, <3>2
      <3>3. CASE ~w.late
        <4>1. kinds = w.kinds
          BY <3>1, <3>3
        <4>2. g.kind \in {"consent", "code"} => g.under = client[g.client].settings
          BY <1>3, <3>1, <3>3, <4>1
        <4> QED BY <1>3, <3>1, <3>3, <4>2 DEF Covered
      <3> QED BY <3>2, <3>3
    <2>2. ASSUME NEW g \in grant' PROVE (Covered(g) \/ g.late)'
      <3>1. Covered(g) \/ g.late
        BY <1>1, <2>1 DEF Ind, GrantsFollowTheClient
      <3> QED BY <1>1, <3>1 DEF Covered
    <2> QED BY <2>2 DEF GrantsFollowTheClient
  <1> QED BY <1>1, <1>4, <1>5, <1>6, OAuthKeepsRest DEF Ind

-------------------------------------------------------------------------------
(* Commits                                                                 *)

UserOutcome(d, q) ==
    /\ q.at = "user" /\ q \in UserChange /\ Entitled(q) /\ AuthorizedUser(q)
    /\ Deleted(d, q) \/ Transferred(d, q) \/ LoggedOut(d, q)

ClientChanged(d, q) ==
    /\ q.at = "client" /\ q \in ClientChange /\ Entitled(q) /\ FreshEdit(q)
    /\ CommitActor(Database, q) /\ d.user = user
    /\ \/ Made(d, q)
       \/ /\ SameClient(Database, q)
          /\ Patched(d, q) \/ Switched(d, q) \/ Removed(d, q)

\* What a commit leaves behind: the batch is void, or it is what one of the two
\* kinds of batch does when it is authorized.
Committed(d, q) ==
    /\ d \in DB /\ user' = d.user /\ client' = d.client /\ grant' = d.grant
    /\ \/ Unchanged(d) /\ audited' = audited
       \/ audited' = audited + 1 /\ (UserOutcome(d, q) \/ ClientChanged(d, q))

Overtaken(d) ==
    flow' = [f \in Flow |-> IF flow[f].at = "issue" /\ Overtakes(d, flow[f])
                            THEN [flow[f] EXCEPT !.late = TRUE] ELSE flow[f]]

LEMMA CommitResult ==
    ASSUME Ind, NEW r \in Request, Commit(r)
    PROVE  /\ request' = [request EXCEPT ![r] = Idle]
           /\ request[r].at \in {"user", "client"}
           /\ \E d : Committed(d, request[r]) /\ Overtaken(d)
  <1> DEFINE q == request[r]
             d == IF q.at = "user" THEN UserBatch(q) ELSE ClientBatch(q)
  <1>1. /\ q.at \in {"user", "client"}
        /\ user' = d.user /\ client' = d.client /\ grant' = d.grant
        /\ audited' = audited + (IF d.event THEN 1 ELSE 0)
        /\ request' = [request EXCEPT ![r] = Idle]
        /\ Overtaken(d)
    BY DEF Commit, Overtaken
  <1>2. q \in Places /\ Entitled(q) /\ FreshEdit(q) /\ TypeOK /\ audited \in Nat
    BY DEF Ind, TypeOK, Places, RequestsAreSound
  <1>3. CASE q.at = "user"
    <2>1. d = UserBatch(q) /\ q \in UserChange
      BY <1>2, <1>3, Placed
    <2> HIDE DEF d, q
    <2>2. d \in DB /\ (Unchanged(d) \/ (d.event /\ UserOutcome(d, q)))
      BY <1>2, <1>3, <2>1, UserBatchResult DEF UserOutcome
    <2>3. Committed(d, q)
      BY <1>1, <1>2, <2>2 DEF Committed, Unchanged
    <2> QED BY <1>1, <2>3 DEF q
  <1>4. CASE q.at = "client"
    <2>1. d = ClientBatch(q) /\ q \in ClientChange
      BY <1>2, <1>4, Placed
    <2> HIDE DEF d, q
    <2>2. d \in DB /\ (Unchanged(d) \/ (d.event /\ ClientChanged(d, q)))
      BY <1>2, <1>4, <2>1, ClientBatchResult DEF ClientOutcome, ClientChanged
    <2>3. Committed(d, q)
      BY <1>1, <1>2, <2>2 DEF Committed, Unchanged
    <2> QED BY <1>1, <2>3 DEF q
  <1> QED BY <1>1, <1>3, <1>4

\* What a commit does to one client: nothing, or it gets the new version, or it
\* goes.
LEMMA ClientAfter ==
    ASSUME Ind, NEW d, NEW q, Committed(d, q), NEW c \in Client
    PROVE  \/ client'[c] = client[c]
           \/ /\ audited' = audited + 1
              /\ \/ client'[c] = NoClient /\ q.at = "client" /\ c = q.client /\ q.kind = "remove"
                 \/ /\ q.at = "client" /\ c = q.client /\ q.kind = "create"
                    /\ client[c].row = 0 /\ client'[c] = Created(q)
                 \/ /\ q.at = "client" /\ c = q.client
                    /\ q.kind \in {"patch", "rotate", "enable", "disable"}
                    /\ client'[c] = Updated(client[c], q)
                 \/ /\ q.at = "user" /\ q.kind \in {"delete", "self"}
                    /\ client[c].owner = q.target
                    /\ client'[c] = [row |-> client[c].row, owner |-> Nobody, disabled |-> TRUE,
                                     updatedAt |-> Now, settings |-> client[c].settings]
  <1>1. client \in [Client -> ClientRow]
    BY DEF Ind, TypeOK
  <1>2. CASE Unchanged(d)
    BY <1>2 DEF Committed, Unchanged
  <1>3. CASE audited' = audited + 1 /\ UserOutcome(d, q)
    <2>1. CASE Deleted(d, q)
      <3>1. client'[c] = IF client[c].owner = q.target
                         THEN [row |-> client[c].row, owner |-> Nobody, disabled |-> TRUE,
                               updatedAt |-> Now, settings |-> client[c].settings]
                         ELSE client[c]
        BY <2>1 DEF Deleted, Committed, Shut, Owned, Database
      <3> QED BY <1>3, <2>1, <3>1 DEF Deleted, UserOutcome
    <2>2. CASE Transferred(d, q) \/ LoggedOut(d, q)
      BY <2>2 DEF Transferred, LoggedOut, Committed
    <2> QED BY <1>3, <2>1, <2>2 DEF UserOutcome
  <1>4. CASE audited' = audited + 1 /\ ClientChanged(d, q)
    <2>1. q.at = "client" /\ q.client \in Client /\ client' = d.client
      BY <1>4 DEF ClientChanged, ClientChange, Committed
    <2>2. CASE Made(d, q)
      BY <1>1, <1>4, <2>1, <2>2 DEF Made, Clients
    <2>3. CASE Patched(d, q) \/ Switched(d, q)
      BY <1>1, <1>4, <2>1, <2>3 DEF Patched, Switched, Clients
    <2>4. CASE Removed(d, q)
      BY <1>1, <1>4, <2>1, <2>4 DEF Removed, Clients
    <2> QED BY <1>4, <2>2, <2>3, <2>4 DEF ClientChanged
  <1> QED BY <1>2, <1>3, <1>4 DEF Committed

LEMMA UpdatedResult ==
    ASSUME NEW row, NEW q
    PROVE  /\ Updated(row, q).row = row.row /\ Updated(row, q).owner = row.owner
           /\ Updated(row, q).settings = IF q.kind = "patch" THEN q.next ELSE row.settings
           /\ q.kind # "disable" /\ ~row.disabled => ~Updated(row, q).disabled
  <1> DEFINE off == q.kind = "disable" \/ (q.kind # "enable" /\ row.disabled)
             settings == IF q.kind = "patch" THEN q.next ELSE row.settings
  <1>1. Updated(row, q) = [row |-> row.row, owner |-> row.owner, updatedAt |-> Now,
                           settings |-> settings, disabled |-> off]
    BY DEF Updated
  <1>2. q.kind # "disable" /\ ~row.disabled => ~off
    OBVIOUS
  <1> HIDE DEF off, settings
  <1>3. Updated(row, q).disabled = off /\ Updated(row, q).row = row.row
        /\ Updated(row, q).owner = row.owner /\ Updated(row, q).settings = settings
    BY <1>1
  <1> QED BY <1>2, <1>3 DEF settings

LEMMA Renewed ==
    ASSUME Ind, NEW d, NEW q, Committed(d, q), NEW c \in Client
    PROVE  \/ client'[c] = client[c]
           \/ /\ audited' = audited + 1
              /\ \/ client'[c] = NoClient
                 \/ client'[c].updatedAt = audited'
  <1>1. /\ Created(q).updatedAt = audited + 1
        /\ Updated(client[c], q).updatedAt = audited + 1
        /\ [row |-> client[c].row, owner |-> Nobody, disabled |-> TRUE, updatedAt |-> Now,
            settings |-> client[c].settings].updatedAt = audited + 1
    BY DEF Created, Updated, Now
  <1>2. \/ client'[c] = client[c]
        \/ /\ audited' = audited + 1
           /\ \/ client'[c] = NoClient
              \/ client'[c] = Created(q)
              \/ client'[c] = Updated(client[c], q)
              \/ client'[c] = [row |-> client[c].row, owner |-> Nobody, disabled |-> TRUE,
                               updatedAt |-> Now, settings |-> client[c].settings]
    BY ClientAfter
  <1> QED BY <1>1, <1>2

LEMMA CommitKeepsTypes ==
    ASSUME Ind, NEW r \in Request, NEW d, Committed(d, request[r]), Overtaken(d),
           request' = [request EXCEPT ![r] = Idle]
    PROVE  TypeOK'
  <1>1. user' \in [User -> UserRow] /\ client' \in [Client -> ClientRow] /\ grant' \subseteq Grant
    BY DEF Committed, DB
  <1>2. audited' \in Nat
    BY DEF Committed, Ind, TypeOK
  <1>3. request' \in [Request -> {Idle} \cup Gated \cup UserChange \cup ClientChange]
    BY DEF Ind, TypeOK
  <1>4. ASSUME NEW f \in Flow
        PROVE  (IF flow[f].at = "issue" /\ Overtakes(d, flow[f])
                THEN [flow[f] EXCEPT !.late = TRUE] ELSE flow[f]) \in {Idle, Over} \cup Issuing
    <2>1. flow[f].at = "issue" => [flow[f] EXCEPT !.late = TRUE] \in Issuing
      BY Flowing DEF Ind, Issuing
    <2> QED BY <2>1 DEF Ind, TypeOK
  <1>5. flow' \in [Flow -> {Idle, Over} \cup Issuing]
    BY <1>4 DEF Overtaken
  <1> QED BY <1>1, <1>2, <1>3, <1>5 DEF TypeOK

LEMMA CommitKeepsRequests ==
    ASSUME Ind, NEW r \in Request, NEW d, Committed(d, request[r]),
           request' = [request EXCEPT ![r] = Idle]
    PROVE  RequestsAreSound'
  <1>1. audited \in Nat /\ audited' \in Nat /\ audited <= audited'
    BY DEF Committed, Ind, TypeOK
  <1>2. ASSUME NEW x \in Request
        PROVE  (Entitled(request[x]) /\ FreshEdit(request[x]))'
    <2>1. CASE x = r
      <3>1. request'[x] = Idle
        BY <2>1 DEF Ind, TypeOK
      <3> QED BY <3>1 DEF Entitled, FreshEdit, Idle
    <2>2. CASE x # r
      <3>1. request'[x] = request[x] /\ Entitled(request[x]) /\ FreshEdit(request[x])
        BY <2>2 DEF Ind, TypeOK, RequestsAreSound
      <3>2. Entitled(request[x])'
        BY <3>1 DEF Entitled
      <3>3. ASSUME request[x].at = "client", request[x].kind = "patch"
            PROVE  LET q == request[x]
                   IN  /\ q.row # 0 /\ q.version <= audited'
                       /\ client'[q.client].row # 0 /\ client'[q.client].updatedAt = q.version =>
                            client'[q.client].settings = q.seen
        <4> DEFINE q == request[x]
        <4>1. q \in ClientChange
          BY <3>3, Placed DEF Ind, TypeOK, Places
        <4>2. /\ q.row # 0 /\ q.version <= audited /\ q.version \in Nat /\ q.client \in Client
              /\ client[q.client].row # 0 /\ client[q.client].updatedAt = q.version =>
                   client[q.client].settings = q.seen
          BY <3>1, <3>3, <4>1 DEF FreshEdit, ClientChange
        <4>3. \/ client'[q.client] = client[q.client]
              \/ /\ audited' = audited + 1
                 /\ client'[q.client].row = 0 \/ client'[q.client].updatedAt = audited'
          BY <4>2, Renewed DEF NoClient
        <4> HIDE DEF q
        <4>4. client'[q.client].updatedAt = audited' /\ audited' = audited + 1 =>
                client'[q.client].updatedAt # q.version
          BY <1>1, <4>2
        <4>5. q.version <= audited'
          BY <1>1, <4>2
        <4>6. client'[q.client].row # 0 /\ client'[q.client].updatedAt = q.version =>
                client'[q.client].settings = q.seen
          BY <4>2, <4>3, <4>4
        <4> QED BY <4>2, <4>5, <4>6 DEF q
      <3>4. FreshEdit(request[x])'
        BY <3>1, <3>3 DEF FreshEdit
      <3> QED BY <3>2, <3>4
    <2> QED BY <2>1, <2>2
  <1> QED BY <1>2 DEF RequestsAreSound

\* Nobody loses the account who owns a client: the deletion has shut all of them.
LEMMA CommitKeepsClients ==
    ASSUME Ind, NEW d, NEW q, Committed(d, q)
    PROVE  ClientsAreSound'
  <1>1. audited \in Nat /\ client \in [Client -> ClientRow] /\ user \in [User -> UserRow]
    BY DEF Ind, TypeOK
  <1>2. ASSUME NEW c \in Client
        PROVE  client'[c].updatedAt <= audited' /\ (client'[c].row = 0 => client'[c].owner = Nobody)
    <2>1. /\ client[c].updatedAt <= audited /\ client[c].updatedAt \in Nat
          /\ client[c].row = 0 => client[c].owner = Nobody
      BY <1>1 DEF Ind, ClientsAreSound, ClientRow
    <2>2. client'[c].updatedAt <= audited'
      <3>1. audited' = audited \/ audited' = audited + 1
        BY DEF Committed
      <3>2. NoClient.updatedAt = 0
        BY DEF NoClient
      <3>3. \/ client'[c] = client[c]
            \/ client'[c].updatedAt = 0
            \/ client'[c].updatedAt = audited'
        BY <3>2, Renewed
      <3> QED BY <1>1, <2>1, <3>1, <3>3
    <2>3. client'[c].row = 0 => client'[c].owner = Nobody
      <3>1. /\ NoClient.owner = Nobody /\ Created(q).row = audited + 1
            /\ Updated(client[c], q).row = client[c].row
            /\ Updated(client[c], q).owner = client[c].owner
            /\ [row |-> client[c].row, owner |-> Nobody, disabled |-> TRUE, updatedAt |-> Now,
                settings |-> client[c].settings].owner = Nobody
        BY DEF NoClient, Created, Updated, Now
      <3>2. \/ client'[c] = client[c]
            \/ client'[c] = NoClient
            \/ client'[c] = Created(q)
            \/ client'[c] = Updated(client[c], q)
            \/ client'[c] = [row |-> client[c].row, owner |-> Nobody, disabled |-> TRUE,
                             updatedAt |-> Now, settings |-> client[c].settings]
        BY ClientAfter
      <3> QED BY <1>1, <2>1, <3>1, <3>2
    <2> QED BY <2>2, <2>3
  <1>3. ASSUME NEW c \in Client, client'[c].owner # Nobody
        PROVE  user'[client'[c].owner].status # "gone"
    <2> DEFINE o == client'[c].owner
    <2>1. client[c].owner # Nobody => user[client[c].owner].status # "gone"
      BY DEF Ind, ClientsAreSound
    <2>2. o \in User
      BY <1>3 DEF Committed, DB, ClientRow
    <2>3. CASE Unchanged(d)
      BY <1>3, <2>1, <2>3 DEF Committed, Unchanged
    <2>4. CASE UserOutcome(d, q)
      <3>1. q.target \in User /\ q.next \in Standing
        BY <2>4 DEF UserOutcome, UserChange
      <3>2. CASE Deleted(d, q)
        <4>1. client'[c] = Shut(Database, q)[c]
          BY <3>2 DEF Deleted, Committed
        <4>2. Database \in DB /\ q \in UserChange
          BY <1>1, <2>4 DEF Database, DB, Ind, TypeOK, UserOutcome
        <4>3. o # q.target
          BY <1>1, <4>1, <4>2, ShutdownResult
        <4>4. o = client[c].owner
          BY <1>3, <4>1 DEF Shut, Database
        <4>5. user'[o] = user[o]
          BY <1>1, <2>2, <3>2, <4>3 DEF Deleted, Committed
        <4> QED BY <1>3, <2>1, <4>4, <4>5
      <3>3. CASE Transferred(d, q)
        <4>1. client' = client /\ q.next.status # "gone"
          BY <2>4, <3>3 DEF Transferred, Committed, UserOutcome, Entitled
        <4>2. user'[o] = user[o] \/ user'[o].status = q.next.status
          <5> DEFINE row == InStanding(user[q.target], q.next)
                     off == [row EXCEPT !.live = FALSE]
          <5>1. row.status = q.next.status /\ off.status = q.next.status
            BY DEF InStanding
          <5> HIDE DEF row, off
          <5>2. user' = [user EXCEPT ![q.target] = row] \/ user' = [user EXCEPT ![q.target] = off]
            BY <3>3 DEF Transferred, Committed, row, off
          <5> QED BY <1>1, <2>2, <3>1, <5>1, <5>2
        <4> QED BY <1>3, <2>1, <4>1, <4>2
      <3>4. CASE LoggedOut(d, q)
        <4>1. client' = client /\ user'[o].status = user[o].status
          BY <1>1, <2>2, <3>1, <3>4 DEF LoggedOut, Committed, UserRow
        <4> QED BY <1>3, <2>1, <4>1
      <3> QED BY <2>4, <3>2, <3>3, <3>4 DEF UserOutcome
    <2>5. CASE ClientChanged(d, q)
      <3>1. user' = user /\ q.actor \in User
            /\ user[q.actor].status = "active"
        BY <2>5 DEF ClientChanged, ClientChange, Committed, CommitActor, Database
      <3>2. Created(q).owner = q.owner /\ Updated(client[c], q).owner = client[c].owner
            /\ NoClient.owner = Nobody
        BY DEF Created, Updated, NoClient
      <3>3. q.kind = "create" => q.owner \in {Nobody, q.actor}
        BY <2>5 DEF ClientChanged, Entitled
      <3>4. \/ client'[c] = client[c] \/ client'[c] = NoClient
            \/ q.kind = "create" /\ client'[c] = Created(q)
            \/ client'[c] = Updated(client[c], q)
        BY <2>5, ClientAfter DEF ClientChanged
      <3> QED BY <1>3, <2>1, <3>1, <3>2, <3>3, <3>4
    <2> QED BY <2>3, <2>4, <2>5 DEF Committed
  <1> QED BY <1>2, <1>3 DEF ClientsAreSound

\* A change of a client makes the requests late that had read it before.
LEMMA CommitKeepsFlows ==
    ASSUME Ind, NEW d, NEW q, Committed(d, q), Overtaken(d)
    PROVE  FlowsAreCovered'
  <1>1. ASSUME NEW f \in Flow, flow'[f].at = "issue"
        PROVE  LET w == flow'[f]
                   c == client'[w.client]
               IN  /\ w.kinds \in {{"consent", "code"}, {"access", "refresh"}}
                   /\ \/ w.late
                      \/ /\ c.row # 0 /\ ~c.disabled
                         /\ w.under.permission = c.settings.permission
                         /\ "code" \in w.kinds => w.under = c.settings
    <2> DEFINE old == flow[f]
               w == flow'[f]
    <2>1. w = IF old.at = "issue" /\ Overtakes(d, old) THEN [old EXCEPT !.late = TRUE] ELSE old
      BY DEF Overtaken
    <2>2. old.at = "issue" /\ old \in Issuing
      <3>1. CASE old.at = "issue"
        BY <3>1, Flowing DEF Ind
      <3>2. CASE old.at # "issue"
        BY <1>1, <2>1, <3>2
      <3> QED BY <3>1, <3>2
    <2>3. /\ old.kinds \in {{"consent", "code"}, {"access", "refresh"}}
          /\ \/ old.late
             \/ /\ client[old.client].row # 0 /\ ~client[old.client].disabled
                /\ old.under.permission = client[old.client].settings.permission
                /\ "code" \in old.kinds => old.under = client[old.client].settings
      BY <2>2 DEF Ind, FlowsAreCovered
    <2>4. w.kinds = old.kinds /\ w.client = old.client /\ w.under = old.under
          /\ (Overtakes(d, old) => w.late) /\ (old.late => w.late)
      BY <2>1, <2>2 DEF Issuing
    <2>5. client' = d.client
      BY DEF Committed
    <2> HIDE DEF old, w
    <2>6. CASE w.late
      BY <2>3, <2>4, <2>6 DEF w
    <2>7. CASE ~w.late
      <3>1. ~Overtakes(d, old) /\ ~old.late
        BY <2>4, <2>7
      <3>2. /\ client'[w.client].row = client[w.client].row
            /\ client'[w.client].disabled => client[w.client].disabled
            /\ client'[w.client].settings.permission = client[w.client].settings.permission
            /\ "code" \in w.kinds => client'[w.client].settings = client[w.client].settings
        BY <2>4, <2>5, <3>1 DEF Overtakes
      <3> QED BY <2>3, <2>4, <3>1, <3>2 DEF w
    <2> QED BY <2>6, <2>7
  <1> QED BY <1>1 DEF FlowsAreCovered

\* The grants of a client that a batch leaves are worth no more than what it
\* makes of the client.
LEMMA CommitKeepsGrants ==
    ASSUME Ind, NEW d, NEW q, Committed(d, q)
    PROVE  GrantsFollowTheClient'
  <1>1. client \in [Client -> ClientRow] /\ grant \subseteq Grant
    BY DEF Ind, TypeOK
  <1>2. ASSUME NEW g \in grant', ~g.late
        PROVE  Covered(g)'
    <2> DEFINE old == client[g.client]
               new == client'[g.client]
    <2>1. g \in grant
      <3>1. CASE Unchanged(d)
        BY <3>1 DEF Committed, Unchanged
      <3>2. CASE UserOutcome(d, q)
        BY <3>2 DEF UserOutcome, Committed, Deleted, Transferred, LoggedOut, Consents, Database
      <3>3. CASE ClientChanged(d, q)
        <4>1. CASE Made(d, q) \/ Switched(d, q) \/ Removed(d, q)
          BY <4>1 DEF Committed, Made, Switched, Removed, Without
        <4>2. CASE Patched(d, q)
          BY <4>2 DEF Committed, Patched, Without
        <4> QED BY <3>3, <4>1, <4>2 DEF ClientChanged
      <3> QED BY <3>1, <3>2, <3>3 DEF Committed
    <2>2. g \in Grant /\ g.client \in Client /\ g.kind \in Kinds
      BY <1>1, <2>1 DEF Grant
    <2>3. /\ old.row # 0 /\ g.under.permission = old.settings.permission
          /\ g.kind \in {"consent", "code"} => g.under = old.settings
          /\ g.kind # "consent" => ~old.disabled
      BY <1>2, <2>1 DEF Ind, GrantsFollowTheClient, Covered
    <2> SUFFICES /\ new.row # 0 /\ g.under.permission = new.settings.permission
                 /\ g.kind \in {"consent", "code"} => g.under = new.settings
                 /\ g.kind # "consent" => ~new.disabled
      BY DEF Covered
    <2>4. CASE new = old
      BY <2>3, <2>4
    <2>5. CASE new # old /\ UserOutcome(d, q)
      <3>1. Deleted(d, q)
        BY <2>5 DEF UserOutcome, Transferred, LoggedOut, Committed
      <3>2. new = [row |-> old.row, owner |-> Nobody, disabled |-> TRUE, updatedAt |-> Now,
                   settings |-> old.settings] /\ g.client \in Owned(Database, q.target)
        BY <2>2, <2>5, <3>1 DEF Deleted, Committed, Shut, Database
      <3>3. g.kind = "consent"
        BY <3>1, <3>2 DEF Deleted, Committed, Consents
      <3> QED BY <2>3, <3>2, <3>3
    <2>6. CASE new # old /\ ClientChanged(d, q)
      <3>1. q.client \in Client /\ q.next \in Settings /\ q.seen \in Settings
        BY <2>6 DEF ClientChanged, ClientChange
      <3>2. CASE Made(d, q)
        <4>1. g.client = q.client /\ client[q.client].row = 0
          BY <1>1, <2>2, <2>6, <3>1, <3>2 DEF Made, Committed, Clients
        <4> QED BY <2>3, <4>1
      <3>3. CASE Removed(d, q)
        <4>1. g.client = q.client
          BY <1>1, <2>2, <2>6, <3>1, <3>3 DEF Removed, Committed, Clients
        <4> QED BY <3>3, <4>1 DEF Removed, Committed
      <3>4. CASE Switched(d, q)
        <4>1. g.client = q.client /\ new = Updated(old, q)
          BY <1>1, <2>2, <2>6, <3>1, <3>4 DEF Switched, Committed, Clients
        <4>2. /\ new.row = old.row /\ new.settings = old.settings
              /\ q.kind # "disable" /\ ~old.disabled => ~new.disabled
          BY <3>4, <4>1, UpdatedResult DEF Switched
        <4>3. q.kind = "disable" => g.kind = "consent"
          BY <2>2, <3>4, <4>1 DEF Switched, Committed, Without
        <4> QED BY <2>3, <4>2, <4>3
      <3>5. CASE Patched(d, q) /\ SameClient(Database, q)
        <4>1. g.client = q.client /\ new = Updated(old, q) /\ q.kind = "patch"
          BY <1>1, <2>2, <2>6, <3>1, <3>5 DEF Patched, Committed, Clients
        <4>2. /\ new.row = old.row /\ new.settings = q.next
              /\ ~old.disabled => ~new.disabled
          BY <4>1, UpdatedResult
        <4>3. old.settings = q.seen
          BY <2>3, <2>6, <3>5, <4>1 DEF ClientChanged, FreshEdit, SameClient, Database
        <4>4. CASE PermissionChanges(q)
          BY <2>2, <3>5, <4>1, <4>4 DEF Patched, Committed, Without
        <4>5. CASE ~PermissionChanges(q) /\ RedirectChanges(q)
          <5>1. g.kind \notin {"code", "consent"} /\ q.next.permission = q.seen.permission
            BY <3>5, <4>1, <4>5 DEF Patched, Committed, Without, PermissionChanges
          <5> QED BY <2>3, <4>2, <4>3, <5>1
        <4>6. CASE ~PermissionChanges(q) /\ ~RedirectChanges(q)
          <5>1. q.next = q.seen
            BY <3>1, <4>6 DEF PermissionChanges, RedirectChanges, Settings
          <5> QED BY <2>3, <4>2, <4>3, <5>1
        <4> QED BY <4>4, <4>5, <4>6
      <3> QED BY <2>6, <3>2, <3>3, <3>4, <3>5 DEF ClientChanged
    <2> QED BY <2>4, <2>5, <2>6 DEF Committed, Unchanged
  <1> QED BY <1>2 DEF GrantsFollowTheClient

-------------------------------------------------------------------------------
(* Steps                                                                   *)

Resting == /\ UNCHANGED <<client, audited>>
           /\ \A u \in User : StandingOf(u)' = StandingOf(u)

Committing(r, d) ==
    /\ request[r].at \in {"user", "client"} /\ request' = [request EXCEPT ![r] = Idle]
    /\ Committed(d, request[r])

LEMMA Steps ==
    ASSUME Ind, [Next]_vars
    PROVE  Ind' /\ (Resting \/ \E r \in Request : \E d : Committing(r, d))
  <1>1. CASE UNCHANGED vars
    <2>1. TypeOK' /\ ClientsAreSound' /\ FlowsAreCovered' /\ GrantsFollowTheClient'
      BY <1>1 DEF vars, Ind, TypeOK, ClientsAreSound, FlowsAreCovered, GrantsFollowTheClient,
                  Covered
    <2>2. RequestsAreSound'
      BY <1>1, OAuthKeepsRest DEF vars
    <2> QED BY <1>1, <2>1, <2>2 DEF vars, Ind, Resting, StandingOf
  <1>2. ASSUME NEW r \in Request, \E q : Goes(r, q)
        PROVE  Ind' /\ Resting
    BY <1>2, GoesKeepsInd DEF Goes, Goto, Resting, StandingOf
  <1>3. ASSUME NEW r \in Request, Commit(r)
        PROVE  Ind' /\ \E d : Committing(r, d)
    <2>1. PICK d : Committed(d, request[r]) /\ Overtaken(d)
      BY <1>3, CommitResult
    <2>2. /\ request' = [request EXCEPT ![r] = Idle]
          /\ request[r].at \in {"user", "client"}
      BY <1>3, CommitResult
    <2>3. Ind'
      BY <2>1, <2>2, CommitKeepsTypes, CommitKeepsRequests, CommitKeepsClients,
         CommitKeepsFlows, CommitKeepsGrants DEF Ind
    <2> QED BY <2>1, <2>2, <2>3 DEF Committing
  <1>4. ASSUME NEW u \in User, SignIn(u) \/ SessionEnds(u)
        PROVE  Ind' /\ Resting
    BY <1>4, SessionsKeepInd DEF Resting
  <1>5. ASSUME NEW f \in Flow, (\E c \in Client : Authorize(f, c))
                               \/ (\E g \in grant : Redeem(f, g)) \/ Issue(f)
        PROVE  Ind' /\ Resting
    BY <1>5, AuthorizeKeepsInd, RedeemKeepsInd, IssueKeepsInd DEF Resting, StandingOf
  <1> QED BY <1>1, <1>2, <1>3, <1>4, <1>5, UserReads, ClientReads, GiveUpResult DEF Next

\* Every reachable state satisfies Ind: what the code between a read and the
\* batch that follows it may still rely on when the batch runs.
THEOREM Inductive == Spec => []Ind
  <1>1. Init => Ind
    BY Initially
  <1>2. Ind /\ [Next]_vars => Ind'
    BY Steps
  <1> QED BY <1>1, <1>2, PTL DEF Spec

\* Every variable keeps its type, whatever the requests do to one another.
THEOREM TypeCorrect == Spec => []TypeOK
  <1>1. Ind => TypeOK
    BY DEF Ind
  <1> QED BY <1>1, Inductive, PTL

\* Grants end with what they were granted under: the cleanups of every client
\* batch reach them before the same batch changes the client.
THEOREM GrantsFollow == Spec => []GrantsFollowTheClient
  <1>1. Ind => GrantsFollowTheClient
    BY DEF Ind
  <1> QED BY <1>1, Inductive, PTL

-------------------------------------------------------------------------------
(* Authorization                                                           *)

\* The actor of a batch that has found it as it was at the gate.
LEMMA ActorIsAble ==
    ASSUME NEW q, CommitActor(Database, q)
    PROVE  Able(q.actor) /\ RoleOf(q.actor) = EffectiveRole(q.actor, q.role)
  BY DEF CommitActor, Database, Able, RoleOf

LEMMA UserOutcomeIsAuthorized ==
    ASSUME Ind, NEW d, NEW q, Committed(d, q), UserOutcome(d, q)
    PROVE  /\ \A u \in User : StandingOf(u)' # StandingOf(u) => MayChangeUser(q.actor, u)
           /\ \A c \in Client : client'[c] # client[c] => MayChangeClient(q.actor, c)
  <1>1. user \in [User -> UserRow] /\ q.target \in User /\ q.actor \in User
    BY DEF Ind, TypeOK, UserOutcome, UserChange
  <1>2. q.kind # "self" =>
          /\ Able(q.actor) /\ RoleOf(q.actor) \in Managers
          /\ RoleOf(q.actor) = EffectiveRole(q.actor, q.role)
          /\ MayManage(q.actor, q.target) /\ user[q.target].role = q.seen.role
    <2>1. q.kind # "self" => CommitActor(Database, q) /\ user[q.target].role = q.seen.role
      BY DEF UserOutcome, AuthorizedUser, TransitionGuard, Database
    <2> QED BY <2>1, ActorIsAble DEF UserOutcome, Entitled, MayManage, Protected
  <1>3. q.kind = "self" => q.target = q.actor /\ q.actor # Boot
    BY DEF UserOutcome, Entitled
  <1>4. Deleted(d, q) => user' = [user EXCEPT ![q.target] = Gone(user[q.target])]
    BY DEF Deleted, Committed
  <1>5. Gone(user[q.target]).status = "gone" /\ Gone(user[q.target]).role = user[q.target].role
    BY DEF Gone
  <1>6. Deleted(d, q) => user'[q.target].status = "gone"
                         /\ user'[q.target].role = user[q.target].role
    BY <1>1, <1>4, <1>5
  <1>7. ASSUME NEW u \in User, StandingOf(u)' # StandingOf(u)
        PROVE  MayChangeUser(q.actor, u)
    <2>1. ~LoggedOut(d, q)
      <3>1. LoggedOut(d, q) => /\ user'[u].role = user[u].role
                               /\ user'[u].status = user[u].status
                               /\ user'[u].level = user[u].level
        BY <1>1 DEF LoggedOut, Committed, UserRow
      <3> QED BY <1>7, <3>1 DEF StandingOf
    <2>2. CASE Deleted(d, q)
      <3>1. u = q.target
        <4>1. u # q.target => user'[u] = user[u]
          BY <1>1, <1>4, <2>2
        <4> QED BY <1>7, <4>1 DEF StandingOf
      <3>2. RoleOf(u)' = RoleOf(u)
        BY <1>6, <2>2, <3>1 DEF RoleOf
      <3> QED BY <1>2, <1>3, <1>6, <2>2, <3>1, <3>2 DEF MayChangeUser
    <2>3. CASE Transferred(d, q)
      <3> DEFINE row == InStanding(user[q.target], q.next)
                 off == [row EXCEPT !.live = FALSE]
      <3>1. row.role = q.next.role /\ off.role = q.next.role
        BY DEF InStanding
      <3> HIDE DEF row, off
      <3>2. user' = [user EXCEPT ![q.target] = row] \/ user' = [user EXCEPT ![q.target] = off]
        BY <2>3 DEF Transferred, Committed, row, off
      <3>3. u = q.target
        <4>1. u # q.target => user'[u] = user[u]
          BY <1>1, <3>2
        <4> QED BY <1>7, <4>1 DEF StandingOf
      <3>4. user'[u].role = q.next.role
        BY <1>1, <3>1, <3>2, <3>3
      <3>5. RoleOf(u)' = EffectiveRole(u, q.next.role)
        BY <3>4 DEF RoleOf
      <3>6. q.kind # "self"
        BY <2>3 DEF Transferred
      <3>7. RoleOf(u)' # RoleOf(u) => {RoleOf(u), RoleOf(u)'} \subseteq Assignable(RoleOf(q.actor))
        BY <1>2, <3>3, <3>5, <3>6 DEF UserOutcome, Entitled, RoleOf
      <3> QED BY <1>2, <3>3, <3>6, <3>7 DEF MayChangeUser
    <2> QED BY <2>1, <2>2, <2>3 DEF UserOutcome
  <1>8. ASSUME NEW c \in Client, client'[c] # client[c]
        PROVE  MayChangeClient(q.actor, c)
    <2>1. Deleted(d, q)
      BY <1>8 DEF UserOutcome, Transferred, LoggedOut, Committed
    <2>2. client[c].owner = q.target
      BY <1>8, <2>1 DEF Deleted, Committed, Shut, Owned, Database
    <2> QED BY <1>2, <1>3, <1>6, <2>1, <2>2 DEF MayChangeClient
  <1> QED BY <1>7, <1>8

LEMMA ClientChangeIsAuthorized ==
    ASSUME Ind, NEW d, NEW q, Committed(d, q), ClientChanged(d, q)
    PROVE  /\ \A u \in User : StandingOf(u)' = StandingOf(u)
           /\ \A c \in Client : client'[c] # client[c] => MayChangeClient(q.actor, c)
  <1>1. /\ client \in [Client -> ClientRow] /\ q.client \in Client /\ q.actor \in User
        /\ user' = user
    BY DEF Ind, TypeOK, ClientChanged, ClientChange, Committed
  <1>2. Able(q.actor) /\ RoleOf(q.actor) = EffectiveRole(q.actor, q.role)
    BY ActorIsAble DEF ClientChanged
  <1>3. \/ RoleOf(q.actor) \in Managers
        \/ RoleOf(q.actor) = "developer" /\ q.owner = q.actor
    BY <1>2 DEF ClientChanged, Entitled
  <1>4. ASSUME NEW c \in Client, client'[c] # client[c], q.owner = q.actor
        PROVE  q.actor \in {client[c].owner, client'[c].owner}
    <2>1. c = q.client
      BY <1>4, ClientAfter DEF ClientChanged
    <2>2. CASE Made(d, q)
      <3>1. client'[c] = Created(q)
        BY <1>1, <2>1, <2>2 DEF Made, Committed, Clients
      <3>2. Created(q).owner = q.owner
        BY DEF Created
      <3> QED BY <1>4, <3>1, <3>2
    <2>3. CASE SameClient(Database, q)
      BY <1>1, <1>4, <2>1, <2>3, NobodyIsNoUser DEF SameClient, Database
    <2> QED BY <2>2, <2>3 DEF ClientChanged
  <1>5. \A u \in User : StandingOf(u)' = StandingOf(u)
    BY <1>1 DEF StandingOf
  <1> QED BY <1>2, <1>3, <1>4, <1>5 DEF MayChangeClient

\* Whatever has happened between the gate, the read and the batch, whoever
\* commits a change may make it when it is committed.
THEOREM Authorized == Spec => ChangesAreAuthorized
  <1>1. ASSUME Ind, [Next]_vars, NEW u \in User, NEW c \in Client,
               StandingOf(u)' # StandingOf(u) \/ client'[c] # client[c]
        PROVE  /\ audited' = audited + 1
               /\ \E r \in Request :
                    /\ request[r].at \in {"user", "client"} /\ request'[r] = Idle
                    /\ StandingOf(u)' # StandingOf(u) => MayChangeUser(request[r].actor, u)
                    /\ client'[c] # client[c] => MayChangeClient(request[r].actor, c)
    <2>0. PICK r \in Request : \E d : Committing(r, d)
      BY <1>1, Steps DEF Resting
    <2>1. PICK d : Committing(r, d)
      BY <2>0
    <2>2. ~Unchanged(d)
      <3>1. Unchanged(d) => user' = user /\ client' = client
        BY <2>1 DEF Committing, Committed, Unchanged
      <3> QED BY <1>1, <3>1 DEF StandingOf
    <2>3. audited' = audited + 1 /\ (UserOutcome(d, request[r]) \/ ClientChanged(d, request[r]))
      BY <2>1, <2>2 DEF Committing, Committed
    <2>4. /\ StandingOf(u)' # StandingOf(u) => MayChangeUser(request[r].actor, u)
          /\ client'[c] # client[c] => MayChangeClient(request[r].actor, c)
      BY <1>1, <2>1, <2>3, UserOutcomeIsAuthorized, ClientChangeIsAuthorized DEF Committing
    <2>5. request[r].at \in {"user", "client"} /\ request'[r] = Idle
      BY <1>1, <2>1 DEF Committing, Ind, TypeOK
    <2> QED BY <2>3, <2>4, <2>5
  <1>2. Ind /\ [Next]_vars =>
          [\A u \in User, c \in Client :
             StandingOf(u)' # StandingOf(u) \/ client'[c] # client[c] =>
               /\ audited' = audited + 1
               /\ \E r \in Request :
                    /\ request[r].at \in {"user", "client"} /\ request'[r] = Idle
                    /\ StandingOf(u)' # StandingOf(u) => MayChangeUser(request[r].actor, u)
                    /\ client'[c] # client[c] => MayChangeClient(request[r].actor, c)]_vars
    BY <1>1
  <1> QED BY <1>2, Inductive, PTL DEF Spec, ChangesAreAuthorized

-------------------------------------------------------------------------------
(* Edits and orphans                                                       *)

\* The batch of a PATCH finds the version that was read, and with it the settings:
\* nothing that another request has written is overwritten.
THEOREM EditsKept == Spec => EditsAreNotLost
  <1>1. ASSUME Ind, [Next]_vars, NEW r \in Request,
               request[r].at = "client", request[r].kind = "patch", request'[r] = Idle,
               client'[request[r].client] # client[request[r].client]
        PROVE  LET q == request[r]
                   old == client[q.client]
               IN  client'[q.client] =
                     [row |-> old.row, owner |-> old.owner, disabled |-> old.disabled,
                      updatedAt |-> audited + 1,
                      settings |->
                        [redirect |-> IF RedirectChanges(q) THEN q.next.redirect
                                      ELSE old.settings.redirect,
                         permission |-> IF PermissionChanges(q) THEN q.next.permission
                                        ELSE old.settings.permission]]
    <2>0. PICK s \in Request : \E d : Committing(s, d)
      BY <1>1, Steps DEF Resting
    <2>1. PICK d : Committing(s, d)
      BY <2>0
    <2>2. s = r
      BY <1>1, <2>1 DEF Committing, Ind, TypeOK, Idle
    <2> DEFINE q == request[r]
               old == client[q.client]
               new == client'[q.client]
    <2>3. Committed(d, q) /\ q \in ClientChange /\ Entitled(q) /\ FreshEdit(q)
      BY <1>1, <2>1, <2>2, Placed DEF Committing, Ind, TypeOK, Places, RequestsAreSound
    <2>4. /\ q.client \in Client /\ q.next \in Settings /\ old \in ClientRow
          /\ client \in [Client -> ClientRow]
      <3>1. client \in [Client -> ClientRow]
        BY <1>1 DEF Ind, TypeOK
      <3> HIDE DEF q
      <3>2. q.client \in Client /\ q.next \in Settings
        BY <2>3 DEF ClientChange
      <3> QED BY <3>1, <3>2
    <2>5. ~Unchanged(d) /\ ~UserOutcome(d, q)
      BY <1>1, <2>3 DEF Committed, Unchanged, UserOutcome
    <2>6. Patched(d, q) /\ SameClient(Database, q)
      BY <1>1, <2>3, <2>5 DEF Committed, ClientChanged, Made, Switched, Removed
    <2>7. new = Updated(old, q)
      BY <2>3, <2>4, <2>6 DEF Patched, Committed, Clients
    <2>8. old.settings = q.seen
      BY <1>1, <2>3, <2>6 DEF FreshEdit, SameClient, Database
    <2>9. q.next = [redirect |-> IF RedirectChanges(q) THEN q.next.redirect
                                 ELSE old.settings.redirect,
                    permission |-> IF PermissionChanges(q) THEN q.next.permission
                                   ELSE old.settings.permission]
      BY <2>4, <2>8 DEF RedirectChanges, PermissionChanges, Settings
    <2>10. Updated(old, q) = [row |-> old.row, owner |-> old.owner, disabled |-> old.disabled,
                              updatedAt |-> audited + 1, settings |-> q.next]
      <3>1. q.kind = "patch" /\ old.disabled \in BOOLEAN
        BY <1>1, <2>4 DEF ClientRow
      <3>2. (q.kind = "disable" \/ (q.kind # "enable" /\ old.disabled)) = old.disabled
        BY <3>1
      <3> HIDE DEF q, old
      <3> QED BY <3>1, <3>2 DEF Updated, Now
    <2> QED BY <2>7, <2>9, <2>10
  <1>2. Ind /\ [Next]_vars =>
          [\A r \in Request :
             LET q == request[r]
             IN  /\ q.at = "client" /\ q.kind = "patch" /\ request'[r] = Idle
                 /\ client'[q.client] # client[q.client]
                 => LET old == client[q.client]
                    IN  client'[q.client] =
                          [row |-> old.row, owner |-> old.owner, disabled |-> old.disabled,
                           updatedAt |-> audited + 1,
                           settings |->
                             [redirect |-> IF RedirectChanges(q) THEN q.next.redirect
                                           ELSE old.settings.redirect,
                              permission |-> IF PermissionChanges(q) THEN q.next.permission
                                             ELSE old.settings.permission]]]_vars
    BY <1>1
  <1> QED BY <1>2, Inductive, PTL DEF Spec, EditsAreNotLost

\* A client that loses its owner is shut in the same batch: the shutdown goes
\* before the DELETE whose foreign key would only clear the owner.
THEOREM Orphans == Spec => OrphansAreOff
  <1>1. ASSUME Ind, [Next]_vars, NEW c \in Client
        PROVE  /\ client[c].owner # Nobody /\ client'[c].owner = Nobody /\ client'[c].row # 0
                    => /\ client'[c].disabled
                       /\ \A g \in grant' : g.client = c => g.kind = "consent"
               /\ client'[c].owner # Nobody => user'[client'[c].owner].status # "gone"
    <2>1. client'[c].owner # Nobody => user'[client'[c].owner].status # "gone"
      BY <1>1, Steps DEF Ind, ClientsAreSound
    <2>2. ASSUME client[c].owner # Nobody, client'[c].owner = Nobody, client'[c].row # 0
          PROVE  client'[c].disabled /\ \A g \in grant' : g.client = c => g.kind = "consent"
      <3>0. PICK r \in Request : \E d : Committing(r, d)
        BY <1>1, <2>2, Steps DEF Resting
      <3>1. PICK d : Committing(r, d)
        BY <3>0
      <3> DEFINE q == request[r]
      <3>2. Committed(d, q)
        BY <3>1 DEF Committing
      <3> HIDE DEF q
      <3>3. Updated(client[c], q).owner = client[c].owner /\ NoClient.row = 0
        BY UpdatedResult DEF NoClient
      <3>4. client[c].row # 0
        BY <1>1, <2>2 DEF Ind, ClientsAreSound
      <3>5. /\ q.at = "user"
            /\ client[c].owner = q.target
            /\ client'[c] = [row |-> client[c].row, owner |-> Nobody, disabled |-> TRUE,
                             updatedAt |-> Now, settings |-> client[c].settings]
        BY <1>1, <2>2, <3>2, <3>3, <3>4, ClientAfter
      <3>6. Deleted(d, q)
        BY <2>2, <3>2, <3>5 DEF Committed, Unchanged, UserOutcome, ClientChanged, Transferred,
                                LoggedOut
      <3>7. grant' = Consents(Database, q) /\ c \in Owned(Database, q.target)
        BY <3>2, <3>5, <3>6 DEF Committed, Deleted, Owned, Database
      <3> QED BY <3>5, <3>7 DEF Consents
    <2> QED BY <2>1, <2>2
  <1>2. Ind /\ [Next]_vars =>
          [\A c \in Client :
             /\ client[c].owner # Nobody /\ client'[c].owner = Nobody /\ client'[c].row # 0
                  => client'[c].disabled /\ \A g \in grant' : g.client = c => g.kind = "consent"
             /\ client'[c].owner # Nobody => user'[client'[c].owner].status # "gone"]_vars
    BY <1>1
  <1> QED BY <1>2, Inductive, PTL DEF Spec, OrphansAreOff
===============================================================================
