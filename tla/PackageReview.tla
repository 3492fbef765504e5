--------------------------- MODULE PackageReview ---------------------------
(***************************************************************************)
(* The review lifecycle of one AI Hub package (skill, prompt, API or       *)
(* coworker: the four upload services are the same protocol) as PostgreSQL *)
(* executes it: requests of several clients run concurrently, each as the  *)
(* sequence of database statements its handler issues.  A transaction's    *)
(* writes stay in the request's private copies until it commits; row locks *)
(* are derived from where the requests are; TypeORM's save(entity) is a    *)
(* SELECT followed by an UPDATE of the columns that differ from what that  *)
(* SELECT returned.  Line numbers in comments are those of                 *)
(* skill-package-upload.service.ts.                                        *)
(***************************************************************************)
EXTENDS Naturals, FiniteSetsExt

CONSTANTS Clients,     \* the concurrent callers of the endpoints
          None,        \* SQL NULL in reviewed_by
          Calls,       \* the endpoints the clients call in this instance
          MaxVersion   \* bound: version rows one package may have

ASSUME ClientsAssumption == None \notin Clients
ASSUME CallsAssumption == Calls \subseteq {"create", "bump", "edit", "approve", "reject", "toggle"}
ASSUME BoundAssumption == MaxVersion \in Nat \ {0}

VARIABLES pkg,    \* the package row
          ver,    \* the version rows, by id
          req,    \* what each client's request is doing and holds in memory
          lost    \* auxiliary: which stale saves have overwritten a committed change

vars == <<pkg, ver, req, lost>>

VersionIds == 1..MaxVersion
Statuses   == {"active", "inactive"}
States     == {"absent", "pending", "approved", "rejected"}

\* version_no, old_version (0 is NULL) and reviewed_by; "absent" is a row not yet inserted.
Version == [state : States, no : Nat, old : Nat, by : Clients \cup {None}]
Absent  == [state |-> "absent", no |-> 0, old |-> 0, by |-> None]

\* active_version_id (0 is NULL) and status.
Package    == [active : 0..MaxVersion, status : Statuses]
NewPackage == [active |-> 0, status |-> "active"]

Steps == {"idle", "bumpLock", "bumpInsert", "editLock", "editRow",
          "approveRow", "approveLoad", "approveCommit",
          "rejectLoad", "rejectUpdate", "toggleLoad", "toggleUpdate"}

\* One request: its next statement, the version it is about, whether the caller edits as
\* workspace SO, the entities it has read, and what save()'s own SELECT returned.
Request == [pc : Steps, v : 0..MaxVersion, so : BOOLEAN,
            row : Version, rowDb : Version, pkg : Package, pkgDb : Package]
Idle == [pc |-> "idle", v |-> 0, so |-> FALSE,
         row |-> Absent, rowDb |-> Absent, pkg |-> NewPackage, pkgDb |-> NewPackage]

Live     == {v \in VersionIds : ver[v].state # "absent"}
Pending  == {v \in VersionIds : ver[v].state = "pending"}
Approved == {v \in VersionIds : ver[v].state = "approved"}

\* SELECT MAX(version_no) over the approved versions, 0 when there is none.
LatestApproved == IF Approved = {} THEN 0 ELSE Max({ver[v].no : v \in Approved})

\* ORDER BY id DESC LIMIT 1
Newest(v) == v \in Live /\ \A u \in Live : u <= v

\* TypeORM's save of an entity: only the columns in which the entity differs from the row
\* that save() selected are written, onto whatever the row holds by then.
Saved(row, selected, entity) ==
    [f \in DOMAIN row |-> IF entity[f] = selected[f] THEN row[f] ELSE entity[f]]

(***************************************************************************)
(* Row locks and unique indexes                                            *)
(***************************************************************************)
PackageHolders   == {c \in Clients : req[c].pc \in {"bumpInsert", "editRow"}}
PackageFree      == PackageHolders = {}
VersionHolders(v) == {c \in Clients : /\ req[c].v = v
                                      /\ req[c].pc \in {"approveRow", "approveLoad", "approveCommit"}}
VersionFree(v)   == VersionHolders(v) = {}

\* The row has an uncommitted UPDATE: an insert that meets it in the pending index waits.
Dirty(v) == \E c \in VersionHolders(v) : req[c].pc # "approveRow"

\* Variant without the index.
PendingIndexMissing(v) == v \in VersionIds

\* uidx_skill_versions_one_pending_per_package lets v become pending.
PendingIndexAllows(v) == Pending \subseteq {v}
\* uidx_skill_versions_approved_version_no lets v become approved as number n.
ApprovedIndexAllows(v, n) == \A u \in Approved \ {v} : ver[u].no # n

Goto(c, r) == req' = [req EXCEPT ![c] = r]
Finish(c)  == Goto(c, Idle)
At(c, step) == req[c].pc = step

(***************************************************************************)
(* createNew: the package and its first pending version, one transaction   *)
(***************************************************************************)
CreateNew(c) ==
    /\ At(c, "idle")
    /\ Live = {}
    /\ ver' = [ver EXCEPT ![1] = [Absent EXCEPT !.state = "pending", !.no = 1]]
    /\ pkg' = NewPackage
    /\ UNCHANGED <<req, lost>>

(***************************************************************************)
(* createVersion: unlocked pre-check, then lock, number, insert            *)
(***************************************************************************)
BumpStart(c) ==
    /\ At(c, "idle")
    /\ Live # {} /\ Live # VersionIds
    /\ Pending = {}
    /\ Goto(c, [Idle EXCEPT !.pc = "bumpLock"])
    /\ UNCHANGED <<pkg, ver, lost>>

BumpLock(c) ==
    /\ At(c, "bumpLock")
    /\ PackageFree
    /\ LET old == LatestApproved
       IN  Goto(c, [req[c] EXCEPT
                      !.pc  = "bumpInsert",
                      !.row = [state |-> "pending", no |-> IF old = 0 THEN 1 ELSE old,
                               old |-> old, by |-> None]])
    /\ UNCHANGED <<pkg, ver, lost>>

BumpInsert(c) ==
    /\ At(c, "bumpInsert")
    /\ \E v \in VersionIds \ Live :
          /\ \A u \in VersionIds : u < v => u \in Live
          /\ PendingIndexAllows(v)
          /\ ver' = [ver EXCEPT ![v] = req[c].row]
    /\ Finish(c)
    /\ UNCHANGED <<pkg, lost>>

\* 23505 on the pending index (409), or the bound on rows reached by another bump.
BumpConflict(c) ==
    /\ At(c, "bumpInsert")
    /\ \/ \E v \in Pending : ~Dirty(v)
       \/ Live = VersionIds
    /\ Finish(c)
    /\ UNCHANGED <<pkg, ver, lost>>

(***************************************************************************)
(* editVersion: an SO patches a pending version in place, anyone else      *)
(* resubmits the newest version after its rejection                        *)
(***************************************************************************)
Resubmittable(v) == Pending = {} /\ Newest(v) /\ ver[v].state = "rejected"

EditStart(c, v) ==
    /\ At(c, "idle")
    /\ \E so \in BOOLEAN :
          /\ IF so THEN v \in Pending ELSE Resubmittable(v)
          /\ Goto(c, [Idle EXCEPT !.pc = "editLock", !.v = v, !.so = so])
    /\ UNCHANGED <<pkg, ver, lost>>

EditLock(c) ==
    /\ At(c, "editLock")
    /\ PackageFree
    /\ req[c].so \/ Resubmittable(req[c].v)
    /\ Goto(c, [req[c] EXCEPT !.pc = "editRow"])
    /\ UNCHANGED <<pkg, ver, lost>>

EditedState(c) == IF req[c].so THEN "pending" ELSE "rejected"

\* Takes the version lock, re-reads the row, writes it and commits.  The patch changes content
\* only; the resubmission reopens the review.
EditRow(c) ==
    LET v == req[c].v
    IN  /\ At(c, "editRow")
        /\ VersionFree(v)
        /\ ver[v].state = EditedState(c)
        /\ IF req[c].so
             THEN ver' = ver
             ELSE /\ PendingIndexAllows(v)
                  /\ ver' = [ver EXCEPT ![v].state = "pending", ![v].by = None]
        /\ Finish(c)
        /\ UNCHANGED <<pkg, lost>>

\* The re-checks under the locks fail, or the pending index does: 403 or 409, rolled back.
EditRefused(c) ==
    LET v == req[c].v
    IN  /\ \/ /\ At(c, "editLock")
              /\ PackageFree
              /\ ~req[c].so /\ ~Resubmittable(v)
           \/ /\ At(c, "editRow")
              /\ VersionFree(v)
              /\ \/ ver[v].state # EditedState(c)
                 \/ ~req[c].so /\ ~PendingIndexAllows(v)
        /\ Finish(c)
        /\ UNCHANGED <<pkg, ver, lost>>

(***************************************************************************)
(* approve: lock the version, number it, promote it, commit                *)
(***************************************************************************)
\* Variant that locks the row and forgets to look at its state.
ApproveLockUnchecked(c, v) ==
    /\ At(c, "idle")
    /\ VersionFree(v)
    /\ v \in Live
    /\ Goto(c, [Idle EXCEPT !.pc = "approveRow", !.v = v, !.row = ver[v]])
    /\ UNCHANGED <<pkg, ver, lost>>

ApproveLock(c, v) ==
    /\ At(c, "idle")
    /\ VersionFree(v)
    /\ ver[v].state = "pending"
    /\ Goto(c, [Idle EXCEPT !.pc = "approveRow", !.v = v, !.row = ver[v]])
    /\ UNCHANGED <<pkg, ver, lost>>

\* Variant that counts from the placeholder number.
ApproveRowFromPlaceholder(c) ==
    /\ At(c, "approveRow")
    /\ ApprovedIndexAllows(req[c].v, req[c].row.no + 1)
    /\ Goto(c, [req[c] EXCEPT !.pc = "approveLoad", !.row.state = "approved",
                              !.row.no = @ + 1, !.row.by = c])
    /\ UNCHANGED <<pkg, ver, lost>>

ApproveRow(c) ==
    LET n == req[c].row.old + 1
    IN  /\ At(c, "approveRow")
        /\ \/ /\ ApprovedIndexAllows(req[c].v, n)
              /\ Goto(c, [req[c] EXCEPT !.pc = "approveLoad", !.row.state = "approved",
                                        !.row.no = n, !.row.by = c])
           \/ /\ ~ApprovedIndexAllows(req[c].v, n)
              /\ Finish(c)
        /\ UNCHANGED <<pkg, ver, lost>>

\* Variant that writes the version's state into the package's status.
ApproveLoadWrongEnum(c) ==
    /\ At(c, "approveLoad")
    /\ Goto(c, [req[c] EXCEPT !.pc = "approveCommit", !.pkgDb = pkg,
                              !.pkg = [active |-> req[c].v, status |-> "approved"]])
    /\ UNCHANGED <<pkg, ver, lost>>

\* findOne of the package, two assignments, and the SELECT of save(): nothing is locked.
ApproveLoad(c) ==
    /\ At(c, "approveLoad")
    /\ Goto(c, [req[c] EXCEPT !.pc = "approveCommit", !.pkgDb = pkg,
                              !.pkg = [active |-> req[c].v, status |-> "active"]])
    /\ UNCHANGED <<pkg, ver, lost>>

\* Variant that promotes the first approved version only.
ApproveCommitFirstOnly(c) ==
    /\ At(c, "approveCommit")
    /\ PackageFree \/ req[c].pkg = req[c].pkgDb
    /\ ver' = [ver EXCEPT ![req[c].v] = req[c].row]
    /\ pkg' = IF pkg.active = 0 THEN Saved(pkg, req[c].pkgDb, req[c].pkg) ELSE pkg
    /\ Finish(c)
    /\ UNCHANGED lost

ApproveCommit(c) ==
    /\ At(c, "approveCommit")
    /\ PackageFree \/ req[c].pkg = req[c].pkgDb
    /\ ver' = [ver EXCEPT ![req[c].v] = req[c].row]
    /\ pkg' = Saved(pkg, req[c].pkgDb, req[c].pkg)
    /\ Finish(c)
    /\ UNCHANGED lost

(***************************************************************************)
(* reject: findOne, check, save; no transaction and no lock around them    *)
(***************************************************************************)
RejectRead(c, v) ==
    /\ At(c, "idle")
    /\ ver[v].state = "pending"
    /\ Goto(c, [Idle EXCEPT !.pc = "rejectLoad", !.v = v,
                            !.row = [ver[v] EXCEPT !.state = "rejected", !.by = c]])
    /\ UNCHANGED <<pkg, ver, lost>>

RejectLoad(c) ==
    /\ At(c, "rejectLoad")
    /\ Goto(c, [req[c] EXCEPT !.pc = "rejectUpdate", !.rowDb = ver[req[c].v]])
    /\ UNCHANGED <<pkg, ver, lost>>

RejectUpdate(c) ==
    LET v   == req[c].v
        row == Saved(ver[v], req[c].rowDb, req[c].row)
    IN  /\ At(c, "rejectUpdate")
        /\ VersionFree(v)
        /\ row.state = "approved" => ApprovedIndexAllows(v, row.no)
        /\ ver' = [ver EXCEPT ![v] = row]
        /\ lost' = IF ver[v].state = "approved" THEN lost \cup {"approval"} ELSE lost
        /\ Finish(c)
        /\ UNCHANGED pkg

\* The write would give two approved versions one number: 23505, nothing is written.
RejectRefused(c) ==
    LET v   == req[c].v
        row == Saved(ver[v], req[c].rowDb, req[c].row)
    IN  /\ At(c, "rejectUpdate")
        /\ VersionFree(v)
        /\ row.state = "approved" /\ ~ApprovedIndexAllows(v, row.no)
        /\ Finish(c)
        /\ UNCHANGED <<pkg, ver, lost>>

(***************************************************************************)
(* toggleStatus: findOne, permission look-ups, save of the entity read     *)
(* before them                                                             *)
(***************************************************************************)
ToggleRead(c, s) ==
    /\ At(c, "idle")
    /\ Live # {}
    /\ Goto(c, [Idle EXCEPT !.pc = "toggleLoad", !.pkg = [pkg EXCEPT !.status = s]])
    /\ UNCHANGED <<pkg, ver, lost>>

ToggleLoad(c) ==
    /\ At(c, "toggleLoad")
    /\ Goto(c, [req[c] EXCEPT !.pc = "toggleUpdate", !.pkgDb = pkg])
    /\ UNCHANGED <<pkg, ver, lost>>

ToggleUpdate(c) ==
    /\ At(c, "toggleUpdate")
    /\ PackageFree \/ req[c].pkg = req[c].pkgDb
    /\ pkg' = Saved(pkg, req[c].pkgDb, req[c].pkg)
    /\ lost' = IF pkg'.active # pkg.active THEN lost \cup {"promotion"} ELSE lost
    /\ Finish(c)
    /\ UNCHANGED ver

(***************************************************************************)
(* PostgreSQL: a failed connection rolls a request back at any statement;  *)
(* the deadlock detector rolls back one of two transactions that wait for  *)
(* each other (approve locks version then package, the edits the reverse)  *)
(***************************************************************************)
Abort(c) ==
    /\ ~At(c, "idle")
    /\ Finish(c)
    /\ UNCHANGED <<pkg, ver, lost>>

WaitsFor(c, d) ==
    \/ At(c, "bumpInsert") /\ \E v \in Pending : d \in VersionHolders(v) /\ ~At(d, "approveRow")
    \/ At(c, "editRow") /\ d \in VersionHolders(req[c].v)
    \/ At(c, "approveCommit") /\ d \in PackageHolders /\ req[c].pkg # req[c].pkgDb

\* Variant: nobody breaks a lock cycle.
DeadlockUnnoticed(c) == At(c, "idle") /\ ~At(c, "idle") /\ UNCHANGED vars

DeadlockVictim(c) ==
    /\ \E d \in Clients : WaitsFor(c, d) /\ WaitsFor(d, c)
    /\ Finish(c)
    /\ UNCHANGED <<pkg, ver, lost>>

Init ==
    /\ pkg = NewPackage
    /\ ver = [v \in VersionIds |-> Absent]
    /\ req = [c \in Clients |-> Idle]
    /\ lost = {}

Start(c) ==
    \/ "create" \in Calls /\ CreateNew(c)
    \/ "bump" \in Calls /\ BumpStart(c)
    \/ \E v \in VersionIds :
          \/ "edit" \in Calls /\ EditStart(c, v)
          \/ "approve" \in Calls /\ ApproveLock(c, v)
          \/ "reject" \in Calls /\ RejectRead(c, v)
    \/ "toggle" \in Calls /\ \E s \in Statuses : ToggleRead(c, s)

\* The next statement of a request under way.
Step(c) ==
    \/ BumpLock(c) \/ BumpInsert(c) \/ BumpConflict(c)
    \/ EditLock(c) \/ EditRow(c) \/ EditRefused(c)
    \/ ApproveRow(c) \/ ApproveLoad(c) \/ ApproveCommit(c)
    \/ RejectLoad(c) \/ RejectUpdate(c) \/ RejectRefused(c)
    \/ ToggleLoad(c) \/ ToggleUpdate(c)

Next == \E c \in Clients : Start(c) \/ Step(c) \/ Abort(c) \/ DeadlockVictim(c)

Spec == Init /\ [][Next]_vars

\* A request under way keeps executing; a lock it waits for is granted in queue order, so one
\* that is free again and again is obtained; the deadlock detector runs.  Clients need not call.
FairSpec == Spec /\ \A c \in Clients : SF_vars(Step(c)) /\ WF_vars(DeadlockVictim(c))

(***************************************************************************)
(* Properties                                                              *)
(***************************************************************************)
\* The rows and the requests stay within their columns and fields.
TypeOK ==
    /\ pkg \in Package
    /\ ver \in [VersionIds -> Version]
    /\ req \in [Clients -> Request]
    /\ lost \subseteq {"approval", "promotion"}

\* Two submissions of a package are never under review at once, whatever the bumps, the
\* resubmissions and the reviews between their unlocked pre-check and their commit (173-177).
OnePending == \A u, v \in Pending : u = v

\* As long as no approval was overwritten, approved numbers are 1, 2, ... without gaps in the
\* order of the rows ("the gapless approved number", 425).
ApprovedLadder ==
    "approval" \notin lost =>
      /\ \A u, v \in Approved : u < v => ver[u].no < ver[v].no
      /\ {ver[v].no : v \in Approved} = 1..Cardinality(Approved)

\* As long as no stale save hit, readers are served the version approved last (407-409).
ActiveIsLatest ==
    lost = {} =>
      IF Approved = {} THEN pkg.active = 0
      ELSE pkg.active \in Approved /\ ver[pkg.active].no = LatestApproved

\* An approved row, its reviewer included, never changes again: a second approve cannot
\* overwrite it (413-415).  Only an overtaken reject can, and then lost records it.
ApprovalIsFinal ==
    [][\A v \in VersionIds : ver[v].state = "approved" /\ "approval" \notin lost' => ver'[v] = ver[v]]_vars

\* A request under way ends, although approve and the edits lock the same two rows in opposite
\* orders.
Responds == \A c \in Clients : ~At(c, "idle") ~> At(c, "idle")

\* ReviewLadder's state, seen in the rows.
LadderHead == IF Pending # {} THEN "pending"
              ELSE IF \E v \in Live : Newest(v) /\ ver[v].state = "rejected" THEN "rejected"
              ELSE "none"
LadderShown == IF pkg.active = 0 THEN 0 ELSE ver[pkg.active].no

Ladder == INSTANCE ReviewLadder WITH top <- LatestApproved, head <- LadderHead, shown <- LadderShown

\* Until a stale save hits, every step is one of ReviewLadder's, or one its readers cannot see:
\* releases are numbered, published in the same step, and never withdrawn.
ImplementsLadder ==
    Ladder!Init /\ [][lost' = {} => Ladder!Next \/ UNCHANGED <<LatestApproved, LadderHead, LadderShown>>]_vars

\* What the permission table says of approve and reject, "only a pending version"
\* (docs/skill-permission-flow.md:69): a decision is taken on a pending row.
OnlyPendingDecided ==
    [][\A v \in VersionIds : ver'[v].state \in {"approved", "rejected"} /\ ver'[v].state # ver[v].state
          => ver[v].state = "pending"]_vars

\* "Toggle package active/inactive status" (472): the end of a toggle leaves the published
\* version alone.
ToggleKeepsActive ==
    [][\A c \in Clients : At(c, "toggleUpdate") /\ req'[c].pc = "idle" => pkg'.active = pkg.active]_vars
=============================================================================
