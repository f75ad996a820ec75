---------------------------- MODULE Administration ----------------------------
(***************************************************************************)
(* Administrators, developers and account owners change users and OAuth    *)
(* clients. A request passes the gate, reads the row that it is about, and *)
(* commits one D1 batch that carries what it has read as guards; between   *)
(* these awaits any other request may commit. The statements of a batch    *)
(* run in order, each on what the ones before it have left, and the row of *)
(* the success audit event stands for the authorization of the later ones. *)
(* Left out: the users who hold the grants (see CentralSessions), fields   *)
(* of a client that no cleanup depends on, step-up and rate limits (they   *)
(* only refuse more), and the time within a batch, which does not pass.    *)
(***************************************************************************)
EXTENDS Integers

CONSTANTS
    User,
    Boot,           \* the user whose email is BOOTSTRAP_ADMIN_EMAIL
    Client,         \* client ids that are not in TRUSTED_CLIENT_IDS
    Reserved,       \* SYSTEM_RESERVED_CLIENT_IDS among them
    Request,        \* concurrent administrative requests
    Flow,           \* requests at the OAuth endpoints
    Nobody,         \* no owner
    Stored,         \* the stored roles that users may have at first; Boot's is
                    \* bootadmin already, as every sign-in makes it
    Registered,     \* the owner of each client at first, Nobody if it has no row
    Restless,       \* bound: users whose sessions end or begin by themselves
    MaxAudited,     \* bound: changes after which no request starts
    MaxSessions     \* bound: sessions of one user; the last does not end by itself

ASSUME NobodyIsNoUser == Nobody \notin User
ASSUME StartIsTyped ==
    /\ Stored \subseteq [User -> {"bootadmin", "admin", "developer", "user"}]
    /\ Registered \in [Client -> User \cup {Nobody}]

VARIABLES
    user,       \* stored role, status ("gone" without a row), access level,
                \* updatedAt, latest session and whether it is live
    client,     \* row id (0 without a row), owner, disabled, updatedAt, settings
    grant,      \* consents, codes, access tokens and refresh tokens not revoked
    request,    \* where each administrative request is, with what it has read
    flow,       \* where each OAuth request is, with what it has read
    audited     \* success events in audit_event

vars == <<user, client, grant, request, flow, audited>>

-------------------------------------------------------------------------------
(* Roles                                                                   *)

Roles == {"bootadmin", "admin", "developer", "user"}

\* Who has clients.manage, and who has the other permissions as well.
ClientManagers == {"bootadmin", "admin", "developer"}
Managers == {"bootadmin", "admin"}

Assignable(role) ==
    CASE role = "bootadmin" -> {"admin", "developer", "user"}
      [] role = "admin" -> {"developer", "user"}
      [] OTHER -> {}

\* The configured email decides who is bootadmin; a row that still says so of
\* another account is an administrator's.
EffectiveRole(u, role) ==
    CASE u = Boot -> "bootadmin"
      [] u # Boot /\ role = "bootadmin" -> "admin"
      [] OTHER -> role

RoleOf(u) == EffectiveRole(u, user[u].role)

Protected(u) == u = Boot \/ user[u].role = "bootadmin"

MayAssign(actor, as, u, next) ==
    /\ ~Protected(u)
    /\ actor # u
    /\ {next, RoleOf(u)} \subseteq Assignable(as)

MayManage(actor, u) == ~Protected(u) /\ actor # u

-------------------------------------------------------------------------------
Statuses == {"active", "suspended", "gone"}
Levels == {"standard", "restricted"}

\* The columns of a user row that a transition sets and compares.
Standing == [role : Roles, status : Statuses, level : Levels]
Settings == [redirect : {0, 1}, permission : {0, 1}]
Kinds == {"consent", "code", "access", "refresh"}

UserRow == [role : Roles, status : Statuses, level : Levels, updatedAt : Nat,
            session : Nat, live : BOOLEAN]
ClientRow == [row : Nat, owner : User \cup {Nobody}, disabled : BOOLEAN,
              updatedAt : Nat, settings : Settings]
Grant == [client : Client, kind : Kinds, under : Settings, late : BOOLEAN]

Idle == [at |-> "idle"]
Blank == [redirect |-> 0, permission |-> 0]
Over == [at |-> "over"]
NoClient == [row |-> 0, owner |-> Nobody, disabled |-> TRUE, updatedAt |-> 0,
             settings |-> Blank]

UserKinds == {"role", "status", "access", "revoke", "delete", "self"}
ClientKinds == {"create", "patch", "rotate", "disable", "enable", "remove"}

Gated == [at : {"gated"}, actor : User, as : Roles, role : Roles, session : Nat]
UserChange == [at : {"user"}, kind : UserKinds, actor : User, role : Roles, session : Nat,
               target : User, version : Nat, seen : Standing, next : Standing]
ClientChange == [at : {"client"}, kind : ClientKinds, actor : User, role : Roles,
                 session : Nat, client : Client, owner : User \cup {Nobody}, row : Nat,
                 version : Nat, seen : Settings, next : Settings]
Issuing == [at : {"issue"}, client : Client, kinds : SUBSET Kinds, under : Settings,
            late : BOOLEAN]

TypeOK ==
    /\ user \in [User -> UserRow]
    /\ client \in [Client -> ClientRow]
    /\ grant \subseteq Grant
    /\ request \in [Request -> {Idle} \cup Gated \cup UserChange \cup ClientChange]
    /\ flow \in [Flow -> {Idle, Over} \cup Issuing]
    /\ audited \in Nat

Init ==
    /\ \E role \in Stored :
         user = [u \in User |-> [role |-> role[u], status |-> "active", level |-> "standard",
                                 updatedAt |-> 0, session |-> 1, live |-> TRUE]]
    /\ client = [c \in Client |->
         IF Registered[c] = Nobody THEN NoClient
         ELSE [row |-> 1, owner |-> Registered[c], disabled |-> FALSE, updatedAt |-> 0,
               settings |-> Blank]]
    /\ grant = {}
    /\ request = [r \in Request |-> Idle]
    /\ flow = [f \in Flow |-> Idle]
    /\ audited = 0

-------------------------------------------------------------------------------
(* The gate and the reads                                                  *)

Running == audited < MaxAudited

Goto(r, q) ==
    /\ request' = [request EXCEPT ![r] = q]
    /\ UNCHANGED <<user, client, grant, flow, audited>>

\* requireAdminPermission: active, not restricted, with a permission.
Gate(r, u) ==
    /\ request[r] = Idle
    /\ Running
    /\ user[u].live /\ user[u].status = "active" /\ user[u].level = "standard"
    /\ RoleOf(u) \in ClientManagers
    /\ Goto(r, [at |-> "gated", actor |-> u, as |-> RoleOf(u), role |-> user[u].role,
                session |-> user[u].session])

StandingOf(u) == [role |-> user[u].role, status |-> user[u].status, level |-> user[u].level]

Reading(r, kind, u, next) ==
    LET g == request[r]
    IN  Goto(r, [at |-> "user", kind |-> kind, actor |-> g.actor, role |-> g.role,
                 session |-> g.session, target |-> u, version |-> 0,
                 seen |-> StandingOf(u), next |-> next])

\* fetchTarget finds the row, and the actor manages users.
Targets(r, u) ==
    /\ request[r].at = "gated" /\ Running
    /\ request[r].as \in Managers
    /\ user[u].status # "gone"

\* /role, and the invitation of somebody who has an account
ReadForRole(r, u, x) ==
    /\ Targets(r, u)
    /\ RoleOf(u) # x
    /\ MayAssign(request[r].actor, request[r].as, u, x)
    /\ user[u].level = "restricted" => x = "user"
    /\ Reading(r, "role", u, [StandingOf(u) EXCEPT !.role = x])

\* /status
ReadForStatus(r, u, x) ==
    /\ Targets(r, u)
    /\ MayManage(request[r].actor, u)
    /\ user[u].status # x
    /\ Reading(r, "status", u, [StandingOf(u) EXCEPT !.status = x])

\* /access: a restriction takes the role away, a promotion gives none back.
ReadForAccess(r, u, x) ==
    /\ Targets(r, u)
    /\ MayManage(request[r].actor, u)
    /\ x = "restricted" /\ RoleOf(u) # "user"
         => MayAssign(request[r].actor, request[r].as, u, "user")
    /\ user[u].level # x
    /\ Reading(r, "access", u,
               [role |-> IF x = "restricted" THEN "user" ELSE user[u].role,
                status |-> user[u].status, level |-> x])

\* /revoke-sessions and DELETE
ReadForEnd(r, u, kind) ==
    /\ Targets(r, u)
    /\ MayManage(request[r].actor, u)
    /\ kind \in {"revoke", "delete"}
    /\ Reading(r, kind, u, StandingOf(u))

\* The owner of the account deletes it: no gate, but never the bootstrap admin.
ReadForSelf(r, u) ==
    /\ request[r] = Idle
    /\ Running
    /\ user[u].live /\ u # Boot
    /\ Goto(r, [at |-> "user", kind |-> "self", actor |-> u, role |-> user[u].role,
                session |-> user[u].session, target |-> u, version |-> user[u].updatedAt,
                seen |-> StandingOf(u), next |-> StandingOf(u)])

\* The owner that mutationGuard asks for: developers keep to their own clients.
OwnerAsked(r, c) ==
    IF request[r].as \in Managers THEN Nobody ELSE client[c].owner

ReadingClient(r, kind, c, owner, version, seen, next) ==
    LET g == request[r]
    IN  Goto(r, [at |-> "client", kind |-> kind, actor |-> g.actor, role |-> g.role,
                 session |-> g.session, client |-> c, owner |-> owner, row |-> client[c].row,
                 version |-> version, seen |-> seen, next |-> next])

\* loadManagedClient
Manages(r, c) ==
    /\ request[r].at = "gated" /\ Running
    /\ client[c].row # 0
    /\ \/ request[r].as \in Managers
       \/ c \notin Reserved /\ client[c].owner = request[r].actor

\* POST: the id is free. Clients of reserved ids have no owner.
ReadForCreate(r, c, settings) ==
    /\ request[r].at = "gated" /\ Running
    /\ c \in Reserved => request[r].as \in Managers
    /\ client[c].row = 0
    /\ ReadingClient(r, "create", c, IF c \in Reserved THEN Nobody ELSE request[r].actor,
                     0, Blank, settings)

\* PATCH; expectedUpdatedAt is the version that is read.
ReadForPatch(r, c, settings) ==
    /\ Manages(r, c)
    /\ ReadingClient(r, "patch", c, OwnerAsked(r, c), client[c].updatedAt,
                     client[c].settings, settings)

\* /rotate-secret, /status and DELETE
ReadForClient(r, c, kind) ==
    /\ Manages(r, c)
    /\ kind \in {"rotate", "disable", "enable", "remove"}
    /\ ReadingClient(r, kind, c, OwnerAsked(r, c), 0, Blank, Blank)

\* The request dies before its batch.
GiveUp(r) == request[r] # Idle /\ Goto(r, Idle)

-------------------------------------------------------------------------------
(* The statements of a batch: d is the database, with the event of the batch *)

Database == [user |-> user, client |-> client, grant |-> grant, event |-> FALSE]

\* updatedAt and row ids: no two changes share one.
Now == audited + 1

\* ADMIN_ACTOR_COMMIT_PREDICATE
CommitActor(d, q) ==
    LET a == d.user[q.actor]
    IN  /\ a.role = q.role
        /\ a.status = "active" /\ a.level = "standard"
        /\ a.live /\ a.session = q.session

\* (slip: the target's role is not compared)
BugTargetStatusOnly(d, q) ==
    /\ d.user[q.target].status = q.seen.status
    /\ d.user[q.target].level = q.seen.level

\* The target is as it was read.
TransitionGuard(d, q) ==
    /\ d.user[q.target].role = q.seen.role
    /\ d.user[q.target].status = q.seen.status
    /\ d.user[q.target].level = q.seen.level

\* The session and the user row that loadAccountDeleteSnapshot has joined.
SelfGuard(d, q) ==
    /\ TransitionGuard(d, q)
    /\ d.user[q.target].updatedAt = q.version
    /\ d.user[q.target].live /\ d.user[q.target].session = q.session

AuditUser(d, q) ==
    [d EXCEPT !.event = IF q.kind = "self" THEN SelfGuard(d, q)
                        ELSE TransitionGuard(d, q) /\ CommitActor(d, q)]

\* A user row in another standing.
InStanding(row, next) ==
    [role |-> next.role, status |-> next.status, level |-> next.level, updatedAt |-> Now,
     session |-> row.session, live |-> row.live]

UpdateUser(d, q) ==
    IF d.event /\ TransitionGuard(d, q)
    THEN [d EXCEPT !.user[q.target] = InStanding(@, q.next)]
    ELSE d

EndSessions(d, q) == IF d.event THEN [d EXCEPT !.user[q.target].live = FALSE] ELSE d

Owned(d, u) == {c \in Client : d.client[c].owner = u}

\* ownedClientShutdownStatements: credentials first, then the clients.
ShutdownClients(d, q) ==
    IF d.event
    THEN [user |-> d.user,
          client |-> [c \in Client |->
            IF c \in Owned(d, q.target)
            THEN [row |-> d.client[c].row, owner |-> Nobody, disabled |-> TRUE,
                  updatedAt |-> Now, settings |-> d.client[c].settings]
            ELSE d.client[c]],
          grant |-> {g \in d.grant : g.client \notin Owned(d, q.target) \/ g.kind = "consent"},
          event |-> TRUE]
    ELSE d

Gone(row) == [role |-> row.role, status |-> "gone", level |-> row.level,
              updatedAt |-> row.updatedAt, session |-> row.session, live |-> FALSE]

\* DELETE FROM user, with ON DELETE SET NULL of ownerUserId and the cascade to
\* session. A stored bootadmin row aborts the batch.
DeleteUser(d, q) ==
    IF ~d.event THEN d
    ELSE IF d.user[q.target].role = "bootadmin" THEN Database
    ELSE [user |-> [d.user EXCEPT ![q.target] = Gone(@)],
          client |-> [c \in Client |-> IF c \in Owned(d, q.target)
                                       THEN [d.client[c] EXCEPT !.owner = Nobody]
                                       ELSE d.client[c]],
          grant |-> d.grant,
          event |-> TRUE]

\* (slip: the user row goes first, and takes the ownership with it)
BugUserRowFirst(d, q) == ShutdownClients(DeleteUser(d, q), q)

DeletionStatements(d, q) == DeleteUser(ShutdownClients(d, q), q)

\* Suspension and restriction, by an administrator, log the target out.
LogsOut(q) ==
    \/ q.kind = "status" /\ q.next.status = "suspended"
    \/ q.kind = "access" /\ q.next.level = "restricted"

UserBatch(q) ==
    LET d == AuditUser(Database, q)
    IN  CASE q.kind \in {"delete", "self"} -> DeletionStatements(d, q)
          [] q.kind = "revoke" -> EndSessions(d, q)
          [] LogsOut(q) -> EndSessions(UpdateUser(d, q), q)
          [] OTHER -> UpdateUser(d, q)

\* (slip: the version is not compared)
BugAnyVersion(d, q) ==
    /\ d.client[q.client].row = q.row
    /\ q.owner # Nobody => d.client[q.client].owner = q.owner

\* The row of MANAGED_CLIENT_PREDICATE: the one that was read and no replacement,
\* still the developer's, and for a PATCH in the version that was read.
SameClient(d, q) ==
    /\ d.client[q.client].row = q.row
    /\ q.owner # Nobody => d.client[q.client].owner = q.owner
    /\ q.kind = "patch" => d.client[q.client].updatedAt = q.version

\* A PATCH shows its success event, the other batches the actor once more.
ManagedClient(d, q) ==
    /\ SameClient(d, q)
    /\ IF q.kind = "patch" THEN d.event ELSE CommitActor(d, q)

AuditClient(d, q) == [d EXCEPT !.event = SameClient(d, q) /\ CommitActor(d, q)]

\* DELETE, or UPDATE revoked, of the credentials of the client.
Purge(d, q, kinds) ==
    IF ManagedClient(d, q)
    THEN [d EXCEPT !.grant = {g \in @ : g.client # q.client \/ g.kind \notin kinds}]
    ELSE d

\* The UPDATEs: each sets the columns of its endpoint only.
Updated(row, q) ==
    [row |-> row.row, owner |-> row.owner, updatedAt |-> Now,
     settings |-> IF q.kind = "patch" THEN q.next ELSE row.settings,
     disabled |-> q.kind = "disable" \/ (q.kind # "enable" /\ row.disabled)]

UpdateClient(d, q) ==
    IF ManagedClient(d, q) THEN [d EXCEPT !.client[q.client] = Updated(@, q)] ELSE d

Created(q) == [row |-> Now, owner |-> q.owner, disabled |-> FALSE, updatedAt |-> Now,
               settings |-> q.next]

\* A free id gets a new row and its event; the insert into a taken one aborts.
CreationBatch(q) ==
    LET d == Database
    IN  IF CommitActor(d, q) /\ d.client[q.client].row = 0
        THEN [user |-> d.user, client |-> [d.client EXCEPT ![q.client] = Created(q)],
              grant |-> d.grant, event |-> TRUE]
        ELSE d

\* What of the snapshot the PATCH changes.
RedirectChanges(q) == q.next.redirect # q.seen.redirect
PermissionChanges(q) == q.next.permission # q.seen.permission

\* (slip: the client is updated before the cleanups, which then miss its version)
BugCleanedLast(d, q) ==
    LET u == UpdateClient(d, q)
    IN  CASE PermissionChanges(q) -> Purge(u, q, Kinds)
          [] RedirectChanges(q) /\ ~PermissionChanges(q) -> Purge(u, q, {"code", "consent"})
          [] OTHER -> u

\* Cleanups and update, each only on the version that was read.
PatchStatements(d, q) ==
    UpdateClient(CASE PermissionChanges(q) -> Purge(d, q, Kinds)
                   [] RedirectChanges(q) /\ ~PermissionChanges(q)
                        -> Purge(d, q, {"code", "consent"})
                   [] OTHER -> d, q)

\* DELETE FROM oauthClient cascades to all but the codes, which have no client.
RemoveClient(d, q) ==
    IF ManagedClient(d, q)
    THEN [user |-> d.user,
          client |-> [d.client EXCEPT ![q.client] = NoClient],
          grant |-> {g \in d.grant : g.client # q.client \/ g.kind = "code"},
          event |-> d.event]
    ELSE d

\* Consents survive a disabled client: enabling it asks nobody again.
ClientBatch(q) ==
    CASE q.kind = "create" -> CreationBatch(q)
      [] q.kind = "patch" -> PatchStatements(AuditClient(Database, q), q)
      [] q.kind = "disable" ->
           AuditClient(Purge(UpdateClient(Database, q), q, Kinds \ {"consent"}), q)
      [] q.kind = "remove" ->
           RemoveClient(AuditClient(Purge(Database, q, {"code"}), q), q)
      [] q.kind \in {"rotate", "enable"} -> AuditClient(UpdateClient(Database, q), q)

-------------------------------------------------------------------------------
(* Commits                                                                 *)

\* An OAuth request in flight has read the client before this change of it.
Overtakes(d, w) ==
    LET old == client[w.client]
        new == d.client[w.client]
    IN  \/ new.row # old.row
        \/ new.disabled /\ ~old.disabled
        \/ new.settings.permission # old.settings.permission
        \/ "code" \in w.kinds /\ new.settings # old.settings

Commit(r) ==
    LET q == request[r]
        d == IF q.at = "user" THEN UserBatch(q) ELSE ClientBatch(q)
    IN  /\ q.at \in {"user", "client"}
        /\ user' = d.user /\ client' = d.client /\ grant' = d.grant
        /\ audited' = audited + (IF d.event THEN 1 ELSE 0)
        /\ flow' = [f \in Flow |->
             IF flow[f].at = "issue" /\ Overtakes(d, flow[f])
             THEN [flow[f] EXCEPT !.late = TRUE] ELSE flow[f]]
        /\ request' = [request EXCEPT ![r] = Idle]

-------------------------------------------------------------------------------
(* Sessions, and the OAuth endpoints                                       *)

SignIn(u) ==
    /\ u \in Restless
    /\ user[u].status = "active"
    /\ ~user[u].live /\ user[u].session < MaxSessions
    /\ user' = [user EXCEPT ![u] = [role |-> @.role, status |-> @.status, level |-> @.level,
                                    updatedAt |-> @.updatedAt, session |-> @.session + 1,
                                    live |-> TRUE]]
    /\ UNCHANGED <<client, grant, request, flow, audited>>

SessionEnds(u) ==
    /\ u \in Restless
    /\ user[u].live /\ user[u].session < MaxSessions
    /\ user' = [user EXCEPT ![u].live = FALSE]
    /\ UNCHANGED <<client, grant, request, flow, audited>>

Usable(c) == client[c].row # 0 /\ ~client[c].disabled

\* A user consents to the client as it is.
Authorize(f, c) ==
    /\ flow[f] = Idle /\ Running
    /\ Usable(c)
    /\ flow' = [flow EXCEPT ![f] = [at |-> "issue", client |-> c, kinds |-> {"consent", "code"},
                                    under |-> client[c].settings, late |-> FALSE]]
    /\ UNCHANGED <<user, client, grant, request, audited>>

\* A code or a refresh token is used up for what it was granted under.
Redeem(f, g) ==
    /\ flow[f] = Idle /\ Running
    /\ g.kind \in {"code", "refresh"}
    /\ Usable(g.client)
    /\ grant' = grant \ {g}
    /\ flow' = [flow EXCEPT ![f] = [at |-> "issue", client |-> g.client,
                                    kinds |-> {"access", "refresh"}, under |-> g.under,
                                    late |-> g.late]]
    /\ UNCHANGED <<user, client, request, audited>>

\* The inserts; all but the code's need the row of the client. A request that
\* dies before them takes no further step.
Issue(f) ==
    LET w == flow[f]
        kinds == IF client[w.client].row = 0 THEN w.kinds \cap {"code"} ELSE w.kinds
    IN  /\ w.at = "issue"
        /\ grant' = grant \cup {[client |-> w.client, kind |-> k, under |-> w.under,
                                 late |-> w.late] : k \in kinds}
        /\ flow' = [flow EXCEPT ![f] = Over]
        /\ UNCHANGED <<user, client, request, audited>>

-------------------------------------------------------------------------------
Next ==
    \/ \E r \in Request, u \in User :
         \/ Gate(r, u) \/ ReadForSelf(r, u)
         \/ \E x \in Roles \ {"bootadmin"} : ReadForRole(r, u, x)
         \/ \E x \in {"active", "suspended"} : ReadForStatus(r, u, x)
         \/ \E x \in Levels : ReadForAccess(r, u, x)
         \/ \E kind \in UserKinds : ReadForEnd(r, u, kind)
    \/ \E r \in Request, c \in Client :
         \/ \E settings \in Settings : ReadForCreate(r, c, settings) \/ ReadForPatch(r, c, settings)
         \/ \E kind \in ClientKinds : ReadForClient(r, c, kind)
    \/ \E r \in Request : Commit(r) \/ GiveUp(r)
    \/ \E u \in User : SignIn(u) \/ SessionEnds(u)
    \/ \E f \in Flow : \/ \E c \in Client : Authorize(f, c)
                       \/ \E g \in grant : Redeem(f, g)
                       \/ Issue(f)

Spec == Init /\ [][Next]_vars

-------------------------------------------------------------------------------
(* Safety                                                                  *)

\* The actor of a commit, now: signed in, active and not restricted.
Able(a) == user[a].live /\ user[a].status = "active" /\ user[a].level = "standard"

MayChangeUser(a, u) ==
    \/ a = u /\ u # Boot /\ user'[u].status = "gone"
    \/ /\ Able(a) /\ RoleOf(a) \in Managers /\ MayManage(a, u)
       /\ RoleOf(u)' # RoleOf(u) => {RoleOf(u), RoleOf(u)'} \subseteq Assignable(RoleOf(a))

MayChangeClient(a, c) ==
    \/ client[c].owner = a /\ user'[a].status = "gone"
    \/ Able(a) /\ RoleOf(a) \in Managers
    \/ Able(a) /\ RoleOf(a) = "developer" /\ a \in {client[c].owner, client'[c].owner}

\* Who commits a change may make it at that moment, by the roles, the ownership
\* and the sessions of that moment and not of the one when it was asked for, and
\* the same transaction records it.
ChangesAreAuthorized ==
    [][\A u \in User, c \in Client :
         StandingOf(u)' # StandingOf(u) \/ client'[c] # client[c] =>
           /\ audited' = audited + 1
           /\ \E r \in Request :
                /\ request[r].at \in {"user", "client"} /\ request'[r] = Idle
                /\ StandingOf(u)' # StandingOf(u) => MayChangeUser(request[r].actor, u)
                /\ client'[c] # client[c] => MayChangeClient(request[r].actor, c)]_vars

Covered(g) ==
    LET c == client[g.client]
    IN  /\ c.row # 0
        /\ g.under.permission = c.settings.permission
        /\ g.kind \in {"consent", "code"} => g.under = c.settings
        /\ g.kind # "consent" => ~c.disabled

\* A grant is never worth more than its client: it ends in the transaction that
\* disables or removes the client or changes what was granted. Only an OAuth
\* request that had read the client before may still issue one.
GrantsFollowTheClient == \A g \in grant : Covered(g) \/ g.late

\* A PATCH writes back nothing that it has only read: no field that another
\* administrator, or the deletion of the owner, has changed meanwhile.
EditsAreNotLost ==
    [][\A r \in Request :
         LET q == request[r]
         IN  /\ q.at = "client" /\ q.kind = "patch" /\ request'[r] = Idle
             /\ client'[q.client] # client[q.client]
             => LET old == client[q.client]
                IN  client'[q.client] =
                      [row |-> old.row, owner |-> old.owner, disabled |-> old.disabled,
                       updatedAt |-> audited + 1,
                       settings |->
                         [redirect |-> IF RedirectChanges(q) THEN q.next.redirect
                                       ELSE old.settings.redirect,
                          permission |-> IF PermissionChanges(q) THEN q.next.permission
                                         ELSE old.settings.permission]]]_vars

\* A client loses its owner only disabled and without credentials, and whoever
\* owns one still has an account, though clients are created, enabled and edited
\* while their owners are deleted.
OrphansAreOff ==
    [][\A c \in Client :
         /\ client[c].owner # Nobody /\ client'[c].owner = Nobody /\ client'[c].row # 0
              => client'[c].disabled /\ \A g \in grant' : g.client = c => g.kind = "consent"
         /\ client'[c].owner # Nobody => user'[client'[c].owner].status # "gone"]_vars
===============================================================================
