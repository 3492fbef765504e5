--------------------------- MODULE PermissionCache ---------------------------
(***************************************************************************)
(* What one role grants its users, as the guards see it: PostgreSQL holds  *)
(* the truth, Redis a copy per user, filled by reads that miss and dropped *)
(* by invalidations that the role endpoints start after their commits and  *)
(* do not wait for.  A statement to PostgreSQL or Redis is one action;     *)
(* anything may happen between two.  PC is permission-cache.service.ts,    *)
(* OS owner-scope-resolver.service.ts, RS role.service.ts, MS              *)
(* permission-matrix.service.ts, GS group-role-sync.service.ts, US         *)
(* users.service.ts.                                                       *)
(***************************************************************************)
EXTENDS Naturals, FiniteSets

CONSTANTS Users,    \* users who may hold the role
          Admins,   \* requests that write a role or its links, under way
          Readers,  \* requests that ask for a user's grants
          None,     \* no user: an invalidation of the role
          Calls,    \* the endpoints called in this instance
          Faults,   \* what may fail in this instance
          MaxCalls  \* bound: calls of the role endpoints

ASSUME NoneAssumption == None \notin Users
ASSUME CallsAssumption ==
    Calls \subseteq {"create", "clone", "sync", "assign", "remove", "update", "matrix", "status", "delete", "user"}
ASSUME FaultsAssumption == Faults \subseteq {"get", "set", "unlink", "request"}
ASSUME BoundAssumption == MaxCalls \in Nat

\* The Redis keys of one user: role permission codes, owned roots, verbs the roots imply.
OwnerKinds == {"scope", "verbs"}
Kinds      == {"codes"} \cup OwnerKinds

VARIABLES members,  \* database: user_roles
          role,     \* database: the role's row, "none" before it exists, "deleted" once marked so
          active,   \* database: role.status
          granted,  \* database: roles_permissions has the permission
          owner,    \* database: the resource_owners row of role and resource
          cache,    \* Redis: the copies, "none" when the key is absent
          reader,   \* the reads under way
          admin,    \* the role requests under way
          inv,      \* the invalidations under way
          calls,    \* how many role requests have begun
          slips     \* auxiliary: what has kept an invalidation from its purpose

vars == <<members, role, active, granted, owner, cache, reader, admin, inv, calls, slips>>
rows == <<members, role, active, granted, owner>>

\* What the queries return (permission-query 20-61, OS 55-68, 103-123).
Truth(u, k) ==
    IF /\ u \in members /\ role = "live" /\ active
       /\ IF k = "codes" THEN granted ELSE owner = "live"
    THEN "yes" ELSE "no"

(***************************************************************************)
(* Reads: getPermissions, getUserOwnerScope, getUserImpliedVerbs           *)
(***************************************************************************)
\* verbs: the scope is read for the implied verbs, which are derived from it once it is cached.
Reading == {x \in [pc : {"scope", "query", "set"}, user : Users, kind : Kinds, verbs : BOOLEAN,
                   val : {"yes", "no"}] :
               /\ x.verbs => x.kind = "scope" /\ x.pc # "scope"
               /\ x.pc = "scope" => x.kind = "verbs"}
NoRead  == [pc |-> "idle"]

ReaderAt(r, pc) == reader[r].pc = pc
Read(r, rec)    == reader' = [reader EXCEPT ![r] = rec]

\* GET misses, or fails and is taken for a miss.
Miss(u, k) == cache[u][k] = "none" \/ "get" \in Faults

ReadStart(r, u, k) ==
    /\ ReaderAt(r, "idle")
    /\ Miss(u, k)
    /\ Read(r, [pc |-> IF k = "verbs" THEN "scope" ELSE "query", user |-> u, kind |-> k,
                verbs |-> FALSE, val |-> "no"])
    /\ UNCHANGED <<rows, cache, admin, inv, slips, calls>>

\* The implied verbs are derived from the scope that is cached, however old that is.
ReadScope(r) ==
    LET u == reader[r].user
    IN  /\ ReaderAt(r, "scope")
        /\ \/ /\ cache[u]["scope"] # "none"
              /\ Read(r, [reader[r] EXCEPT !.pc = "set", !.val = cache[u]["scope"]])
           \/ /\ Miss(u, "scope")
              /\ Read(r, [reader[r] EXCEPT !.pc = "query", !.kind = "scope", !.verbs = TRUE])
        /\ UNCHANGED <<rows, cache, admin, inv, slips, calls>>

ReadQuery(r) ==
    /\ ReaderAt(r, "query")
    /\ Read(r, [reader[r] EXCEPT !.pc = "set", !.val = Truth(reader[r].user, reader[r].kind)])
    /\ UNCHANGED <<rows, cache, admin, inv, slips, calls>>

AfterSet(r) == IF reader[r].verbs THEN [reader[r] EXCEPT !.kind = "verbs", !.verbs = FALSE] ELSE NoRead

ReadSet(r) ==
    LET u == reader[r].user
        k == reader[r].kind
    IN  /\ ReaderAt(r, "set")
        /\ cache' = [cache EXCEPT ![u][k] = reader[r].val]
        /\ slips' = IF reader[r].val # Truth(u, k) THEN slips \cup {"overtaken"} ELSE slips
        /\ Read(r, AfterSet(r))
        /\ UNCHANGED <<rows, admin, inv, calls>>

\* writeCache swallows the error; the answer goes to the caller all the same.
ReadSetFails(r) ==
    /\ "set" \in Faults
    /\ ReaderAt(r, "set")
    /\ Read(r, AfterSet(r))
    /\ UNCHANGED <<rows, cache, admin, inv, slips, calls>>

\* The key's time to live ends.
Expire(u, k) ==
    /\ cache[u][k] # "none"
    /\ cache' = [cache EXCEPT ![u][k] = "none"]
    /\ UNCHANGED <<rows, reader, admin, inv, slips, calls>>

(***************************************************************************)
(* Invalidations: invalidateUser, invalidateByRole, invalidateOwnerScope*  *)
(***************************************************************************)
\* "members" looks the role's users up, "keys" and "unlink" are unlinkKeyByPattern's commands.
\* Two identical invalidations are kept as one: the other's UNLINK does what Expire may do anyway.
Task == [user : Users \cup {None}, kinds : SUBSET Kinds, step : {"members", "keys", "unlink"},
         found : SUBSET Kinds]

\* Variant whose pattern is the key of the codes alone, without the ":*".
UserTasksCodesOnly(u) == {[user |-> u, kinds |-> {"codes"}, step |-> "keys", found |-> {}]}

\* invalidateUser: one pattern over all of a user's keys.
UserTasks(u) == {[user |-> u, kinds |-> Kinds, step |-> "keys", found |-> {}]}

\* invalidateOwnerScopeUser: the two keys in parallel.
OwnerTasks(u) == {[user |-> u, kinds |-> {k}, step |-> "keys", found |-> {}] : k \in OwnerKinds}

RoleTask(kinds) == [user |-> None, kinds |-> kinds, step |-> "members", found |-> {}]

InvMembers(t) ==
    /\ t \in inv /\ t.step = "members"
    /\ inv' = (inv \ {t}) \cup
                UNION {IF t.kinds = Kinds THEN UserTasks(u) ELSE OwnerTasks(u) : u \in members}
    /\ UNCHANGED <<rows, cache, reader, admin, slips, calls>>

InvKeys(t) ==
    LET found == {k \in t.kinds : cache[t.user][k] # "none"}
    IN  /\ t \in inv /\ t.step = "keys"
        /\ inv' = (inv \ {t}) \cup IF found = {} THEN {} ELSE {[t EXCEPT !.step = "unlink", !.found = found]}
        /\ UNCHANGED <<rows, cache, reader, admin, slips, calls>>

InvUnlink(t) ==
    /\ t \in inv /\ t.step = "unlink"
    /\ cache' = [cache EXCEPT ![t.user] = [k \in Kinds |-> IF k \in t.found THEN "none" ELSE @[k]]]
    /\ inv' = inv \ {t}
    /\ UNCHANGED <<rows, reader, admin, slips, calls>>

\* The error is logged and swallowed.
InvFails(t) ==
    /\ "unlink" \in Faults
    /\ t \in inv
    /\ inv' = inv \ {t}
    /\ slips' = slips \cup {"dropped"}
    /\ UNCHANGED <<rows, cache, reader, admin, calls>>

(***************************************************************************)
(* The role endpoints                                                      *)
(***************************************************************************)
\* users and role: whom to invalidate at the end.  replaces, form and owns: what the payload asks
\* (form: it is the role form, which may carry owners).  fresh: this call has created the role.
\* userRows and permRow: the rows that the transaction's DELETEs have found.
Request == [pc : {"idle", "insert", "status", "perms", "users", "commit", "disown", "own", "announce",
                  "copy", "grant", "add", "links", "delete", "relink"},
            users : SUBSET Users, role : BOOLEAN, replaces : BOOLEAN, form : BOOLEAN, owns : BOOLEAN,
            fresh : BOOLEAN, userRows : SUBSET Users, permRow : BOOLEAN]
NoRequest == [pc |-> "idle", users |-> {}, role |-> FALSE, replaces |-> FALSE, form |-> FALSE,
              owns |-> FALSE, fresh |-> FALSE, userRows |-> {}, permRow |-> FALSE]

AdminAt(a, pc) == admin[a].pc = pc
Go(a, rec)     == admin' = [admin EXCEPT ![a] = rec]

\* Rows inserted for users S and, if p, for the permission: a DELETE under way has not found these.
GoInserting(a, rec, S, p) ==
    admin' = [b \in Admins |-> IF b = a THEN rec
                ELSE [admin[b] EXCEPT !.userRows = @ \ S, !.permRow = @ /\ ~p]]

\* A new request of an endpoint that this instance calls.
Calling(a, call) == AdminAt(a, "idle") /\ call \in Calls
OnRole(a, call)  == Calling(a, call) /\ role = "live"

\* create (RS 50-77): the role, then its owners if the payload has any.  The property "permissions"
\* that it saves is none of the entity's.
CreateRole(a) ==
    /\ Calling(a, "create") /\ role = "none"
    /\ role' = "live"
    /\ \E owners \in BOOLEAN : Go(a, [NoRequest EXCEPT !.pc = IF owners THEN "disown" ELSE "idle"])
    /\ UNCHANGED <<members, active, granted, owner, cache, reader, inv, slips>>

\* clone (RS 216): the role is saved first ...
CloneRole(a) ==
    /\ Calling(a, "clone") /\ role = "none"
    /\ role' = "live"
    /\ Go(a, [NoRequest EXCEPT !.pc = "copy"])
    /\ UNCHANGED <<members, active, granted, owner, cache, reader, inv, slips>>

\* ... and gets the permissions (RS 217-224), unless somebody has given it one of them meanwhile.
\* No invalidation follows: whoever has become a member in between keeps what was cached.
CloneCopy(a) ==
    /\ AdminAt(a, "copy")
    /\ granted' = TRUE
    /\ slips' = IF granted \/ members = {} THEN slips ELSE slips \cup {"newborn"}
    /\ GoInserting(a, NoRequest, {}, ~granted)
    /\ UNCHANGED <<members, role, active, owner, cache, reader, inv, calls>>

\* syncOneGroup (GS 108-124): the group's users, and the role of its name, created if there is none.
SyncFind(a) ==
    /\ Calling(a, "sync") /\ role # "deleted"
    /\ role' = "live"
    /\ \E S \in SUBSET Users :
          Go(a, [NoRequest EXCEPT !.pc = "grant", !.users = S, !.fresh = role = "none"])
    /\ UNCHANGED <<members, active, granted, owner, cache, reader, inv, slips>>

\* addPermissionsToRole (GS 143-149): what the role lacks ...
SyncGrant(a) ==
    /\ AdminAt(a, "grant")
    /\ Go(a, [admin[a] EXCEPT !.pc = IF granted THEN "links" ELSE "add"])
    /\ UNCHANGED <<rows, cache, reader, inv, slips, calls>>

\* ... is inserted, ON CONFLICT DO NOTHING once a deletion under way has ended (GS 151-154); the
\* role's users are invalidated unless it is new (GS 133), although it may have got users by now.
SyncAdd(a) ==
    /\ AdminAt(a, "add")
    /\ \A b \in Admins : ~admin[b].permRow
    /\ granted' = TRUE
    /\ inv' = IF admin[a].fresh THEN inv ELSE inv \cup {RoleTask(Kinds)}
    /\ slips' = IF admin[a].fresh /\ ~granted /\ members # {} THEN slips \cup {"newborn"} ELSE slips
    /\ GoInserting(a, [admin[a] EXCEPT !.pc = "links"], {}, ~granted)
    /\ UNCHANGED <<members, role, active, owner, cache, reader, calls>>

\* assignUsersToRole (GS 165-169): the users that have no link yet.
SyncLinks(a) ==
    LET missing == admin[a].users \ members
    IN  /\ AdminAt(a, "links")
        /\ Go(a, IF missing = {} THEN NoRequest
                 ELSE [NoRequest EXCEPT !.pc = "insert", !.users = missing])
        /\ UNCHANGED <<rows, cache, reader, inv, slips, calls>>

\* assignUsers (RS 271): the user has no link yet.
AssignRead(a, u) ==
    /\ OnRole(a, "assign")
    /\ u \notin members
    /\ Go(a, [NoRequest EXCEPT !.pc = "insert", !.users = {u}])
    /\ UNCHANGED <<rows, cache, reader, inv, slips>>

\* The rows are inserted (RS 276, GS 170).
AssignInsert(a) ==
    /\ AdminAt(a, "insert")
    /\ members' = members \cup admin[a].users
    /\ GoInserting(a, [admin[a] EXCEPT !.pc = "announce"], admin[a].users, FALSE)
    /\ UNCHANGED <<role, active, granted, owner, cache, reader, inv, slips, calls>>

\* removeUsers (RS 315).
RemoveDelete(a, u) ==
    /\ OnRole(a, "remove")
    /\ members' = members \ {u}
    /\ Go(a, [NoRequest EXCEPT !.pc = "announce", !.users = {u}])
    /\ UNCHANGED <<role, active, granted, owner, cache, reader, inv, slips>>

\* setStatus (RS 485-487): the status differs when it is read ...
StatusRead(a) ==
    /\ OnRole(a, "status")
    /\ Go(a, [NoRequest EXCEPT !.pc = "status", !.owns = ~active])
    /\ UNCHANGED <<rows, cache, reader, inv, slips>>

\* ... and is written whatever it is by then.
SetStatus(a) ==
    /\ AdminAt(a, "status")
    /\ active' = admin[a].owns
    /\ Go(a, [NoRequest EXCEPT !.pc = "announce", !.role = TRUE])
    /\ UNCHANGED <<members, role, granted, owner, cache, reader, inv, slips, calls>>

\* delete (RS 504-506): the role is found, and no row of users has it in its own role_id ...
DeleteRead(a) ==
    /\ OnRole(a, "delete")
    /\ Go(a, [NoRequest EXCEPT !.pc = "delete"])
    /\ UNCHANGED <<rows, cache, reader, inv, slips>>

\* ... and it is marked deleted, whoever holds it by user_roles (RS 507).
DeleteRole(a) ==
    /\ AdminAt(a, "delete")
    /\ role' = "deleted"
    /\ Go(a, [NoRequest EXCEPT !.pc = "announce", !.role = TRUE])
    /\ UNCHANGED <<members, active, granted, owner, cache, reader, inv, slips, calls>>

\* updateAdmin (US 374) and bulkRemoveRole (US 502-): the user's links are deleted, and no copy is
\* invalidated; updateAdmin may insert them again.
UserUnlink(a, u) ==
    /\ OnRole(a, "user")
    /\ members' = members \ {u}
    /\ slips' = IF u \in members THEN slips \cup {"unannounced"} ELSE slips
    /\ \E again \in BOOLEAN :
          Go(a, IF again THEN [NoRequest EXCEPT !.pc = "relink", !.users = {u}] ELSE NoRequest)
    /\ UNCHANGED <<role, active, granted, owner, cache, reader, inv>>

\* bulkAssignRole (US 470-473): the user has no link yet.
UserUnlinked(a, u) ==
    /\ OnRole(a, "user")
    /\ u \notin members
    /\ Go(a, [NoRequest EXCEPT !.pc = "relink", !.users = {u}])
    /\ UNCHANGED <<rows, cache, reader, inv, slips>>

\* The insert of updateAdmin (US 375-377) and bulkAssignRole (US 474), and no invalidation.
UserRelink(a) ==
    LET S == admin[a].users
    IN  /\ AdminAt(a, "relink")
        /\ members' = members \cup S
        /\ slips' = IF S \subseteq members THEN slips ELSE slips \cup {"unannounced"}
        /\ GoInserting(a, NoRequest, S, FALSE)
        /\ UNCHANGED <<role, active, granted, owner, cache, reader, inv, calls>>

\* update (RS 379-383): the users assigned now, read outside the transaction.
UpdateRead(a) ==
    /\ OnRole(a, "update")
    /\ \E replaces, perms \in BOOLEAN :
          Go(a, [NoRequest EXCEPT !.pc = IF perms THEN "perms" ELSE "users",
                                  !.replaces = replaces, !.role = perms, !.form = TRUE,
                                  !.users = IF replaces THEN members ELSE {}])
    /\ UNCHANGED <<rows, cache, reader, inv, slips>>

\* updateMatrixForRole (MS 102-133): the same transaction, for the permissions alone.
MatrixRead(a) ==
    /\ OnRole(a, "matrix")
    /\ Go(a, [NoRequest EXCEPT !.pc = "perms", !.role = TRUE])
    /\ UNCHANGED <<rows, cache, reader, inv, slips>>

\* The DELETEs of the transaction (RS 412, 425), each with the snapshot of its own start.  One that
\* meets a row under deletion waits, and then does not see what the other transaction inserted.
UpdatePerms(a) ==
    /\ AdminAt(a, "perms")
    /\ Go(a, [admin[a] EXCEPT !.pc = "users", !.permRow = admin[a].role /\ granted])
    /\ UNCHANGED <<rows, cache, reader, inv, slips, calls>>

UpdateUsers(a) ==
    /\ AdminAt(a, "users")
    /\ Go(a, [admin[a] EXCEPT !.pc = "commit", !.userRows = IF admin[a].replaces THEN members ELSE {}])
    /\ UNCHANGED <<rows, cache, reader, inv, slips, calls>>

\* The INSERTs and the COMMIT (RS 413-435): permissions and users, each only if the payload has them.
UpdateCommit(a) ==
    LET gone == admin[a].userRows
    IN  /\ AdminAt(a, "commit")
        /\ \E S \in SUBSET Users, grants, owners \in BOOLEAN :
              /\ S # {} => admin[a].replaces
              /\ grants => admin[a].role
              /\ owners => admin[a].form
              /\ ~grants \/ ~granted \/ admin[a].permRow
              /\ members' = (members \ gone) \cup S
              /\ granted' = (grants \/ (granted /\ ~admin[a].permRow))
              /\ GoInserting(a, [admin[a] EXCEPT !.pc = IF owners THEN "disown" ELSE "announce",
                                                 !.users = @ \cup S, !.form = FALSE,
                                                 !.userRows = {}, !.permRow = FALSE],
                             S, grants)
              /\ slips' = IF gone \subseteq admin[a].users \cup S THEN slips ELSE slips \cup {"unseen"}
        /\ UNCHANGED <<role, active, owner, cache, reader, inv, calls>>

\* Another update has inserted the permission since the DELETE: 23505, rolled back.
UpdateConflict(a) ==
    /\ AdminAt(a, "commit")
    /\ admin[a].role /\ granted /\ ~admin[a].permRow
    /\ Go(a, NoRequest)
    /\ UNCHANGED <<rows, cache, reader, inv, slips, calls>>

\* saveOwnerAssignments (RS 144-147): the old rows are marked deleted ...
Disown(a) ==
    /\ AdminAt(a, "disown")
    /\ owner' = IF owner = "live" THEN "dead" ELSE owner
    /\ \E owns \in BOOLEAN : Go(a, [admin[a] EXCEPT !.pc = "own", !.owns = owns])
    /\ UNCHANGED <<members, role, active, granted, cache, reader, inv, slips, calls>>

\* ... or the payload is refused with 400, after the transaction (RS 131-140) ...
UpdateRefused(a) ==
    /\ AdminAt(a, "disown")
    /\ slips' = slips \cup {"refused"}
    /\ Go(a, NoRequest)
    /\ UNCHANGED <<rows, cache, reader, inv, calls>>

\* ... and the new rows inserted (RS 149-167).  UNIQUE(resource_type, resource_id, role_id) spans
\* the marked rows too: 23505, and neither this nor the caller's invalidations start.
Own(a) ==
    /\ AdminAt(a, "own")
    /\ \/ /\ ~admin[a].owns \/ owner = "none"
          /\ owner' = IF admin[a].owns THEN "live" ELSE owner
          /\ inv' = inv \cup {RoleTask(OwnerKinds)}
          /\ Go(a, [admin[a] EXCEPT !.pc = "announce"])
          /\ UNCHANGED slips
       \/ /\ admin[a].owns /\ owner # "none"
          /\ Go(a, NoRequest)
          /\ slips' = slips \cup {"refused"}
          /\ UNCHANGED <<owner, inv>>
    /\ UNCHANGED <<members, role, active, granted, cache, reader, calls>>

\* The invalidations are started and not awaited (RS 297-299, 336-338, 472-478, 499, 519; MS 135;
\* GS 171).
Announce(a) ==
    /\ AdminAt(a, "announce")
    /\ inv' = inv \cup (IF admin[a].role THEN {RoleTask(Kinds)} ELSE {})
                  \cup UNION {UserTasks(u) : u \in admin[a].users}
    /\ Go(a, NoRequest)
    /\ UNCHANGED <<rows, cache, reader, slips, calls>>

\* The server stops, or one of the reads for the change history fails, before the announcement.
AdminFails(a) ==
    /\ "request" \in Faults
    /\ ~AdminAt(a, "idle")
    /\ Go(a, NoRequest)
    /\ slips' = slips \cup {"dropped"}
    /\ UNCHANGED <<rows, cache, reader, inv, calls>>

Init ==
    /\ role \in {"none", "live"}
    /\ members = {} /\ active = TRUE /\ granted = FALSE /\ owner = "none"
    /\ cache = [u \in Users |-> [k \in Kinds |-> "none"]]
    /\ reader = [r \in Readers |-> NoRead]
    /\ admin = [a \in Admins |-> NoRequest]
    /\ inv = {}
    /\ calls = 0
    /\ slips = {}

ReadStep(r) == ReadScope(r) \/ ReadQuery(r) \/ ReadSet(r) \/ ReadSetFails(r)
InvStep(t)  == InvMembers(t) \/ InvKeys(t) \/ InvUnlink(t) \/ InvFails(t)
Begin(a) ==
    /\ calls < MaxCalls
    /\ calls' = calls + 1
    /\ \/ \E u \in Users : AssignRead(a, u) \/ RemoveDelete(a, u) \/ UserUnlink(a, u) \/ UserUnlinked(a, u)
       \/ StatusRead(a) \/ UpdateRead(a) \/ MatrixRead(a) \/ DeleteRead(a)
       \/ CreateRole(a) \/ CloneRole(a) \/ SyncFind(a)
AdminStep(a) ==
    \/ CloneCopy(a) \/ SyncGrant(a) \/ SyncAdd(a) \/ SyncLinks(a)
    \/ AssignInsert(a) \/ SetStatus(a) \/ DeleteRole(a) \/ UserRelink(a)
    \/ UpdatePerms(a) \/ UpdateUsers(a) \/ UpdateCommit(a) \/ UpdateConflict(a)
    \/ Disown(a) \/ UpdateRefused(a) \/ Own(a) \/ Announce(a) \/ AdminFails(a)

Next ==
    \/ \E r \in Readers : ReadStep(r) \/ \E u \in Users, k \in Kinds : ReadStart(r, u, k)
    \/ \E u \in Users, k \in Kinds : Expire(u, k)
    \/ \E t \in inv : InvStep(t)
    \/ \E a \in Admins : Begin(a) \/ AdminStep(a)

Spec == Init /\ [][Next]_vars

(***************************************************************************)
(* Properties                                                              *)
(***************************************************************************)
\* Who is sure to drop the copy: an invalidation that has yet to look, or has found the key; a
\* request that has committed and will start one.
TaskCovers(t, u, k) ==
    \/ t.step = "members" /\ u \in members /\ k \in t.kinds
    \/ t.step = "keys" /\ t.user = u /\ k \in t.kinds
    \/ t.step = "unlink" /\ t.user = u /\ k \in t.found
AdminCovers(a, u, k) ==
    \/ /\ admin[a].pc \in {"disown", "own", "announce"}
       /\ u \in admin[a].users \/ (admin[a].role /\ u \in members)
    \/ admin[a].pc = "own" /\ u \in members /\ k \in OwnerKinds

\* A copy that contradicts the database is about to be dropped: every change of a role's users,
\* permissions, owners or status reaches every key it concerns, in every interleaving with the
\* others (unless a slip happened, see the README).
StaleIsDoomed ==
    slips = {} =>
      \A u \in Users, k \in Kinds :
         cache[u][k] \notin {"none", Truth(u, k)} =>
            \/ \E t \in inv : TaskCovers(t, u, k)
            \/ \E a \in Admins : AdminCovers(a, u, k)

\* "so the add/remove takes effect immediately instead of lingering until TTL" (RS 165-166): once
\* no request, read or invalidation is under way, no owner copy contradicts the database.
OwnersTakeEffect ==
    (\A a \in Admins : AdminAt(a, "idle")) /\ (\A r \in Readers : ReaderAt(r, "idle")) /\ inv = {} =>
      \A u \in Users, k \in OwnerKinds : cache[u][k] \in {"none", Truth(u, k)}

\* "Full-replace semantics" (RS 120): what a save of the owners asked for is what the role owns.
OwnersReplaced ==
    [][\A a \in Admins : AdminAt(a, "own") /\ admin'[a].pc # "own" => (owner' = "live") = admin[a].owns]_vars
=============================================================================
