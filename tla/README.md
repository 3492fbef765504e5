# Formal models of the portal backend

TLA+ modules, TLC configurations and TLAPS proofs for the NestJS backend in `src/` (the Strapi
migration): the protocols between concurrent HTTP requests, PostgreSQL, Redis and the in-process
cache. Paths below are relative to the repository; `upload.service` stands for
`src/modules/skill-package/skill-package-upload.service.ts` unless another is named.

How to run, in this directory:

    tlc -workers 2 -config PackageReview.cfg PackageReviewMC
    tlapm PackageReviewProofs.tla

## 1. The system and its parts

One Node.js process (JavaScript runs one callback at a time; every `await` lets other requests in),
PostgreSQL through TypeORM at READ COMMITTED, Redis for caches and locks, Kafka for the self-serve
workers. Concurrency is therefore between *statements*: a handler is a sequence of awaits, and what
it read before one may be old after it.

| Component | State | Operations | Hard behaviour | What makes it correct |
|---|---|---|---|---|
| AI Hub packages (4 upload services: skill, prompt, API, coworker) | package row (`active_version_id`, `status`), version rows (`state`, `version_no`, `old_version`, `reviewed_by`) | `createNew`, `createVersion`, `editVersion`, `approve`, `reject`, `toggleStatus` | unlocked pre-checks, row locks taken in opposite orders, partial unique indexes, saves of entities read earlier | one pending version; gapless approved numbers; approvals final; readers get the latest approval; requests end |
| Micro cache (in-process) | `entries`, `inflight`, `generation` | `getOrLoad` and its `.then` / `.finally`, `clear`, eviction | callbacks of overtaken loads, expiry, capacity | single flight; no overtaken load brings a value back; bounded staleness; oldest evicted |
| Permission cache (Redis) and role endpoints | `user_roles`, `roles_permissions`, `role.status`, `resource_owners`; keys `codes`, `owner_scope`, `owner_verbs` per user | `getPermissions`, `getUserOwnerScope`, `getUserImpliedVerbs`; `invalidate*`; `create`, `clone`, `update`, `setStatus`, `delete`, `assignUsers`, `removeUsers`, `saveOwnerAssignments`; matrix save; `syncGroupRole`; `updateAdmin`, `bulkAssignRole`, `bulkRemoveRole` | fire-and-forget invalidations, KEYS then UNLINK, cache-aside races, overlapping transactions, failures | a copy that contradicts the database is about to be dropped |
| Data self-serve | quota counter and lock (Redis), request row | `consume`, `create`, `submitRequestToDpc`, `update`, Kafka listener | lock expiry, an un-awaited promise, check-then-act, swallowed errors, lost messages | quota accounted for; nothing sent unpaid; one submission per draft; calls end |
| Data-access rules | rule, role and user junction rows, derived per-record caches | `create`, `update`, `delete`, `removeLink`, `handover`; `getAccessibleRecords` and its reverse | no transaction around check and write; a read of five queries | a live rule has subjects; other subjects' links are left alone; a deny holds; both readings agree |
| Data Hub services | service row, approved versions, history; departments and members | `create`, `update`, `setStatus`; deletion of departments, members | row lock with a joined row that is not locked; FOR SHARE against FOR UPDATE | department live and the one checked; versions and history tell the row |
| Data Hub terms | source tables, physical terms, logical terms and their history | `syncSourceTables`, the logical-term form | four kinds of row locked in several statements by two kinds of writer | tables live exactly while they hold terms; history shows the mapping; no deadlock |
| Data Hub consuming applications | row with version number, SO-app links, history | `create`, `update`, `updateStatus` | overlapping edits | a snapshot per version number |
| Data Hub import of tables and terms | one import's look-ups and plan; versions, tables, terms | `import` | everything is looked up once, saved service by service | what forms save meanwhile stands |
| Owner scope in the guards | roles, permissions, ownerships, rules and records, as read over `hierarchy-config` | `PermissionGuard`, `OwnerScopeGuard`, `DataAccessInterceptor` with `applyDataScope`; the rules list, the records browser, the gate of the rule endpoints | several pieces of SQL for one hierarchy, two columns for a deletion, foreign keys that may be null, tables owned as a whole | they agree; what is offered is accepted; a gift takes nothing away |
| Custom upload | temporary, staging and public files, media rows | `moveAndCreateMedia`, `cleanupTempFiles` | failure at the n-th file, copy across file systems, the process ends | nothing of a failed request is served, nothing half is |
| Sessions | token row, caches | login, `logOut`, SSO refresh | none: single statements on a row that each guard looks up | — |
| BI payment documents | document rows; grants, ownership, programs | `list`, `stats`, `findOne`, `download`, `upload`, the filters' user lists | one table of codes read in four places, own-documents-only grants | the four agree |
| AI Hub read services (4) | none; the package review's rows | `list`, `detail`, download, `listVersions`, `listReviews`, `versionDetail`, `getDiff` | what a list shows, a button offers and another endpoint answers are computed apart | they agree |
| Categories | category rows per workspace; the versions that refer to them | `create`, `update`, `deactivate`, `validateActive` | an advisory lock on the name, rows read before the transaction, a check of use | names unique, what is in use is active |
| Supporters and item metadata | the supporters of a package, the coworkers linked to a version | `replaceSupporters`, `replaceVersionCoworkers`; `getMatrix`, the coworker's and the skill's pages | supporters who remove each other; a matrix read in several statements | replaced by insiders only; the screens agree |
| CRUD, reports, exports, configuration, scripts, migrations | — | single statements | none worth a model | — |

How they interact: the query services of the AI Hub read through the micro cache, which no write
service invalidates. Guards on every endpoint read through the permission cache; the role,
data-access, matrix and sync services write the tables behind it and start invalidations. The
upload services ask the guards' helpers who may act, which the models leave open (any caller).

`PROJECT.json` lists the same parts with their status, and under `hazards` the places where this
code is hard to test, each with the properties that cover it.

## 2. Modules

| Module | Models | Used by |
|---|---|---|
| `PackageReview` | one package, its versions, concurrent requests | `PackageReviewMC`, `PackageReviewProofs` |
| `ReviewLadder` | abstract: what a package promises readers and authors | refined by `PackageReview` |
| `PackageReading` | the read endpoints over `PackageReview`'s rows | `PackageReviewMC`, `PackageReviewProofs` |
| `MicroCache` | `MicroCacheService` | `MicroCacheMC`, `MicroCacheProofs` |
| `PermissionCache` | one role, its grants and their Redis copies; the role, matrix, group-sync and users endpoints | `PermissionCacheMC`, `GuardProofs` |
| `OwnerScope` | who may do what with a record of the hierarchy, as each endpoint decides it | `HandlersMC`, `GuardProofs` |
| `HubTerms` | source tables, physical and logical terms of the Data Hub | `TransactionsMC`, `TermProofs` |
| `HubServices` | data services, their history, departments and members | `TransactionsMC`, `HubProofs` |
| `HubConsumers` | one consuming application | `TransactionsMC`, `HubProofs` |
| `TermImport` | the Excel import of source tables and terms, next to the forms | `TransactionsMC`, `HubProofs` |
| `DataAccessRules` | rules, their subjects, the two readings | `TransactionsMC`, `RulesProofs` |
| `Categories` | the categories of the workspaces, their names and their use | `TransactionsMC`, `CatalogProofs` |
| `Supporters` | who may submit versions of one package, and who says so | `TransactionsMC`, `CatalogProofs` |
| `ReuseMatrix` | which skills use which coworkers, and the screens that show it | `TransactionsMC`, `CatalogProofs` |
| `SelfServe` | one user's requests and quota | `HandlersMC`, `HandlerProofs` |
| `PaymentDocuments` | who sees and may change a BI payment document | `HandlersMC`, `HandlerProofs` |
| `CustomUpload` | one upload request | `HandlersMC`, `HandlerProofs` |

The eight `...Proofs` modules hold inductive invariants, lemmas and theorems (section 4). No
component and no MC module extends them.

The `...MC` modules only add symmetry, value sets and search constraints. `TransactionsMC` and
`HandlersMC` put several components that share no state side by side: `part`, chosen at the start,
says which of them runs, so one run is the sum of their state spaces and never the product.
Definitions whose comment begins with "Variant" are broken forms of the definition that follows:
plausible mistakes that the named properties must notice (`mutants` in `PROJECT.json`). No
specification uses them.

### PackageReview

Variables: `pkg` (the package row), `ver` (version rows by id, ids increasing), `req` (each
client's request: program counter and the entities it holds in memory), `lost` (auxiliary).

- A *statement* is an action. A transaction's own writes stay in `req` until its commit, since no
  other request can see them; the row locks it holds are derived from its program counter
  (`PackageHolders`, `VersionHolders`).
- `save(entity)` of TypeORM is a SELECT and then an UPDATE of the columns that differ from what
  that SELECT returned: `Saved(row, selected, entity)`. That is why a stale save reverts some
  columns and not others, and why `...Load` and `...Update` are two actions.
- Partial unique indexes are guards: `PendingIndexAllows`, `ApprovedIndexAllows`; a violation is
  an action of its own that ends the request (`BumpConflict`, `EditRefused`, `RejectRefused`, the
  second disjunct of `ApproveRow`). An INSERT that meets an uncommitted UPDATE in the index waits.
- `approve` locks the version and then updates the package; `createVersion` and `editVersion` lock
  the package and then touch a version: PostgreSQL's deadlock detector is `DeadlockVictim`. A lost
  connection at any statement is `Abort`.

| Code | Actions |
|---|---|
| `createNew` 96-159 | `CreateNew` (nobody can see the rows before the commit) |
| `createVersion` 163-266 | `BumpStart`, `BumpLock`, `BumpInsert`, `BumpConflict` |
| `editVersion` 270-405 | `EditStart`, `EditLock`, `EditRow`, `EditRefused` |
| `approve` 410-453 | `ApproveLock`, `ApproveRow`, `ApproveLoad`, `ApproveCommit` |
| `reject` 456-470 | `RejectRead`, `RejectLoad`, `RejectUpdate`, `RejectRefused` |
| `toggleStatus` 473-487 | `ToggleRead`, `ToggleLoad`, `ToggleUpdate` |

The prompt, API and coworker services have the same statements in the same order
(`prompt-library-upload.service.ts` 94-431, `api-catalog-upload.service.ts` 95-444,
`coworker-upload.service.ts` 147-430); the model stands for the four.

Abstracted: content, zip files, tags, owning metadata, categories, who is uploader, approver or SO
(any client may call anything; `so` is chosen freely), soft deletion (no code path deletes a
package or version).

`lost` records the two defects found, so that the other properties can say exactly how far they
reach: `"approval"` when an overtaken `reject` overwrote an approved row, `"promotion"` when a
`toggleStatus` wrote back an older `active_version_id`.

### MicroCache

`entries` and `order` are the Map and its insertion order, `inflight` the slots, `load` the
promises from the call to the end of `.finally`, `generation` the counter of `clear()`, `now` the
clock. `written` holds the times of the writes to the rows behind each key and a value is the
number of writes it has seen. `floor` (auxiliary) is the newest value that entered the cache or
was cleared. One action is one synchronous piece of JavaScript. A call that hits or joins a load
changes nothing, so it has no action: the properties speak of what it would be given.
`Tick` does not pass while a promise callback is due, nor beyond `MaxLoad` of a running query.

### PermissionCache

One role that grants one permission and owns one resource. `role` (`"none"`, `"live"`, `"deleted"`),
`members`, `active`, `granted`, `owner` are the rows (`owner` is `"dead"` for a soft-deleted one);
`cache` the Redis keys; `reader`, `admin`, `inv` the reads, requests and invalidations under way.
KEYS and UNLINK are two steps, invalidations start after the commit and nobody waits for them, and
the DELETEs of `update` carry their own snapshots, so two overlapping updates leave the union of
their lists, as in PostgreSQL. Two identical invalidations are kept as one, because the UNLINK of
the second can only do what `Expire` may do at any time.

| Code | Actions |
|---|---|
| `getPermissions`, `getUserOwnerScope`, `getUserImpliedVerbs` | `ReadStart`, `ReadScope`, `ReadQuery`, `ReadSet`, `ReadSetFails`; `Expire` |
| `invalidate*` | `InvMembers`, `InvKeys`, `InvUnlink`, `InvFails` |
| `role.service` `create`, `clone` | `CreateRole`; `CloneRole`, `CloneCopy` |
| `assignUsers`, `removeUsers`, `setStatus`, `delete` | `AssignRead`, `AssignInsert`; `RemoveDelete`; `StatusRead`, `SetStatus`; `DeleteRead`, `DeleteRole` |
| `update`, `saveOwnerAssignments` | `UpdateRead`, `UpdatePerms`, `UpdateUsers`, `UpdateCommit`, `UpdateConflict`; `Disown`, `UpdateRefused`, `Own`; `Announce` |
| permission matrix | `MatrixRead`, then the steps of `update` |
| `syncGroupRole` | `SyncFind`, `SyncGrant`, `SyncAdd`, `SyncLinks` |
| `users.service` `updateAdmin`, `bulkAssignRole`, `bulkRemoveRole` | `UserUnlink`, `UserUnlinked`, `UserRelink` |
| an error in any statement | `AdminFails` |

`slips` (auxiliary) records the six ways in which the code gives up on a copy until its TTL:
`overtaken` (a read wrote an answer older than the database), `unseen` (`update` deleted the link
of a user it had not read), `refused` (`saveOwnerAssignments` failed after the transaction had
committed), `dropped` (Redis or the server failed), `newborn` (a clone, or a role that the sync has
just created, received permissions without an invalidation), `unannounced` (the users endpoints
write `user_roles` and invalidate nothing). `StaleIsDoomed` says that there is no seventh among the
writes to `role`, `user_roles`, `roles_permissions` and `resource_owners`.

### PackageReading

Operators over `PackageReview`'s variables, one for each endpoint, for a `Viewer` that is what the
endpoints ask about a caller. `Listed` is `list`, `Detailed` and `BumpOffered` `detail`, `Downloads`
`resolveActiveZip`, `EditOffered` the Edit button of `listVersions` and `resolveIsUpdate`,
`VersionOpens` and `ComparisonBase` `versionDetail`, `DiffBase` `getDiff`, `Reviewable`
`listReviews` (`skill-package-query.service.ts`). `ReadsAgree` relates them to each other and to
what `editVersion` accepts, in every state `PackageReview` reaches. `CountsAs` and `Published` are the
dashboard's counters (`fetchWorkspaceStats` of `latest-artifacts.service.ts`): a package counts as
published exactly when the catalogue lists it, and as pending when the review queue shows it.

### HubTerms

`term`, `table`, `logical`, `active` are the committed rows; `tx` the open transactions with their
locks (`held`), the rows the current statement still wants, and their own uncommitted writes.
An action ends one locking statement and begins the next: it computes the rows from what its
snapshot shows, takes them in id order up to the first that another transaction holds, and
`Resume` goes on from there. That is how PostgreSQL runs `ORDER BY id FOR UPDATE`, and what makes
the order of locks matter.

| Code | Actions |
|---|---|
| `lockService`, `syncSourceTables` | `SaveService`, `SaveTables`, `SaveResolve`, `SaveTerms`, `SaveWrite` |
| logical term `create` | `CreateLogical`, `CreateApply` |
| logical term `update` | `EditLogical`, `EditTerms`, `EditApply` |
| `recordVersion(s)` | `Record`, row by row |
| COMMIT, a refusal, a lost connection, the deadlock detector | `Commit`, `Refuse`, `Abort`, `DeadlockVictim` |
| `setStatus` of a service | `SetStatus` |

What the body asks for is chosen at the statement that first uses it. Names, codes and the scope
of a user's departments are left out: they only refuse requests.

### HubServices

Services as a status and the departments of their versions, `trail` their history, `dept` and
`member`. `ChangeService` takes the snapshot of `lockService`'s SELECT and `LockService` ends its
wait: if another transaction changed the service meanwhile, PostgreSQL evaluates the join again
with the new service row and the version row of the old snapshot, so that `department_id` is NULL
when another version has become active. `ShareDepartments`, `CheckMember`, `ResolveRefs`,
`WriteVersion` and `WriteStatus` are the statements after it; `RemoveLock` and `RemoveDepartment`
the deletion of a department, `AddMember` and `RemoveMember` its members.

### HubConsumers

`AskApp` (a transaction begins and asks for the row), `LockCurrent` (PostgreSQL reads it again
after the wait), `WriteApp` (UPDATE, links, history, COMMIT, or NO_CHANGES), `CreateApp`.

### DataAccessRules

Every call is a check (`CreateStart`, `UpdateStart`, `RemovalStart`, `HandoverStart`) and a write
that does not look again (`CreateCommit`, `DeleteCommit`, `RemoveLink` and, for the last subject,
`RemoveRule`; `HandoverFind` and `HandoverCommit`). The transaction of `update` is three steps, so two
of them overlap: `UpdateSelect` (`save(old)` reads the rule again; it fails when a junction row has
appeared that `old` did not load, and settles which columns differ, `deleted_at = NULL` among them),
`UpdateDelete` (the UPDATE, which waits for another update that has written the row, and the snapshot
of the first DELETE) and `UpdateCommit` (what the DELETEs did not see stays; the new rows; COMMIT).
The INSERT of a user who still has a row fails on the unique index. The transactions of `delete` and
`handover` are one step, at their COMMIT: nobody sees them before. Junction rows that an update
commits between the statements of `delete` would stay at the deleted rule, where no query finds them;
only an update brings such a rule back, and it is in `hurt` then. `read` is one `getAccessibleRecords`, query by query; `AccessibleRecords` the same read at
one moment, which is also what `canManageRecord` asks. `UsersByRecordPermission` is the reverse.
`Toggle` is any of the writes of role and user administration, without their checks. `hurt` (auxiliary)
holds the rules written by a call whose copy had become stale, by half of a failed `removeLink`, or
emptied on purpose by `update`; `denied` the denials that stood ever since the read began.

### SelfServe

`handler` is a call at its next Redis command or statement. A connection to Redis keeps the order
of commands, so the SET that `consume` does not await and the DEL of its `finally` are one step
(`TakeUnit`), while the first unit of a day is read from PostgreSQL, set and unlocked in three.
A refusal in `consumeExisting` is a rejection that nobody handles while `finally` awaits its DEL:
Node ends the process (`main.ts` installs no handler), which `Exhausted` models by ending every
call and leaving the lock to its TTL or to the DEL. `Push` may lose its message; `slow` and `twice`
(auxiliary) say when a lock ran out under its holder and which requests two calls were submitting.

### PaymentDocuments

`FullSteps` and `OwnSteps` are `resolveWorkstepScopes`, `Listed` the SQL of `list` and `stats`,
`CanOpen` `checkDocStep`, `CrossListed` the SQL behind the filters' user lists, `MaySet`
`canSetDocumentStatus` as `isCanUpdateStatus` shows it. Grants, ownership and programs change by
the actions of other modules. Super admins pass every check and are left out.

### CustomUpload

`MoveFile`, `CopyFile`, `RenameStaged` and `SaveRow` for each file in turn, each of which may fail
into `Unpublish`; `CleanupTempFiles` is the controller's `finally`; `Crash` at any time.

### OwnerScope

Operators over the rows that decide what one user may do with a record, one operator for each piece
of SQL or each guard, with its own joins and its own columns:

| Code | Operators |
|---|---|
| `PermissionQueryService`: `getUserPermissions`, `getAccessibleRecords` | `HasPermission`, `DataIds`, `AccessibleRecords` |
| `OwnerScopeResolverService` | `OwnerScope`, `OwnedRoots`, `ImpliedVerbs`, `InOwnedScope`, `CanCreateUnderParent`, `HasAccessibleChild` |
| `PermissionGuard`, `OwnerScopeGuard` | `Explicit`, `Implied`, `PermissionPasses`, `VerbFromExplicit`, `OwnerScopePasses` |
| `DataAccessInterceptor`, `applyDataScope` | `DataScope`, `Applies` |
| diagnostic reports: `deleteOne` and `update`, `deleteMany` | `AcceptsOne`, `AcceptsMany` |
| `DataAccessService`: gate, `list`, `getRecords` | `GateAccepts`, `InAccessibleCTE`, `RulesListed`, `ManageScoped`, `Scoped`, `Browsed` |
| a department's flags | `CreateFlag`, `HasAccessibleChild` |

The actions are those of other modules: roles are given, taken, switched and edited, owners saved,
rules placed, records deleted. `softRemove` stamps `deleted_at`, the deletion of a report sets both
columns, and `Flag` is the manual update that `owner-scope-helpers.ts` 13 speaks of. The tree itself
is a constant: `TableOf` and `ParentOf` are any functions that respect `ParentTable`, and a foreign
key may be null. Left out: super admins, who pass every check, the caches (`PermissionCache`), and
the AI Hub tables, whose owners `PackageReview` leaves open.

### Categories

A call holds the entity that `update` read before its transaction (`row`), what the body asks for,
and the advisory lock it took (`lock`; it is held while the program counter is after `TakeName`).
`CheckUse`, `TakeName`, `CheckName` are the statements of the transaction, `Compare` and
`WriteBack` the SELECT and the UPDATE of TypeORM's `save`. `Validate` and `SaveVersion` are a
submission of a version. `crossed` and `reverted` (auxiliary) hold the categories that were updated
while a version was being submitted for them, and those to which a save has given an old name back.

### Supporters

`supporters` are the rows of one package, `holders` the users with the workspace's upload code,
`present` the live ones; `ask` the open calls of `replaceSupporters`, statement by statement: the
code (`Ask`), the package row FOR UPDATE (`LockPackage`), the caller against the rows as they are
then (`ReadCurrent`), the new users (`CheckUsers`, `CheckEligible`), the DELETE (`DeleteOld`), the
INSERTs and the COMMIT (`InsertNew`). A DELETE takes the rows it meets (`gone`), so without the lock
two saves would leave the union. Accounts and rights change at any time (`SwitchRight`).

### ReuseMatrix

`skill` and `coworker` are the packages as the screens need them, `matrix` what one open `getMatrix`
has read. A review is one step here, since `PackageReview` treats its statements; `reject` is two
(`RejectLooks`, `RejectSaves`), because it may overtake an approval, and `overtaken` (auxiliary)
holds the versions to which that happened. `Columns`, `Shown`, `Rank`, `SkillsUsing` and `OnDetail`
are one join each, in the services they come from; `BeginMatrix`, `ReadFirst`, `ReadRows` and
`ReadLinks` are the statements of `getMatrix`, the first two on two connections.

### TermImport

`upload` is one import under way: the file, what it looked up (`active`, `terms`, `tables` for each
service, `taken` of the system's names) and the services still to write. `ReadNames`,
`ReadVersions`, `ReadTables` are the look-ups, the first on its own connection; `Plan` is
`planGroups`; `ImportWrite` is `buildUpdateBody` with `mergedTables` and the update it calls;
`ImportFails` a row that is reported, `ImportEnds` the report or the end of the process. The update
is one step, since `HubTerms` and `HubServices` have its statements. `SaveText`, `SaveTable`,
`SaveTerm` and `MapTerm` are the forms' saves, each changing one thing and keeping all that is there.
`meant` (auxiliary) is what the last save of a form said, `outdated` what an import wrote although
it had changed since the look-up.

## 3. Runs

| Run | Shows | Size |
|---|---|---|
| `package_review` | `TypeOK`, `OnePending`, `ApprovedLadder`, `ApprovalIsFinal`, `ImplementsLadder`: 3 clients, all calls but toggle, 2 versions | 229,572 states |
| `package_review_live` | `ActiveIsLatest`, `ReadsAgree`, `Responds`: 2 clients, all calls, fairness | 113,589 states |
| `reject_overtaken` | counterexample to `OnlyPendingDecided` | |
| `toggle_overtaken` | counterexample to `ToggleKeepsActive` | |
| `micro_cache` | `SingleFlight`, `NeverBack`, `FreshHits`, `EvictsOldest`: 3 keys, 2 loads, room for 2 entries | 742,274 states |
| `micro_cache_window` | counterexample to `StaleWithinTTL` | |
| `permission_cache` | `StaleIsDoomed`: 1 user, 2 of the ten kinds of request at a time, 1 read, failures | 3.0 million states |
| `owners_take_effect` | counterexample to `OwnersTakeEffect` | |
| `owners_replaced` | counterexample to `OwnersReplaced` | |
| `transactions` | `TypesOK`; terms: `TablesHoldTerms`, `HistoryMatches`; services: `LiveDepartment`, `AuthorisedAgainstCurrent`, `TrailReplays`; applications: `SnapshotsReplay`; rules: `ForwardMatchesReverse`, `DenyHolds`, `RulesHaveSubjects`, `OthersKept`; categories: `NamesUnlessReverted`, `SkillUseKeepsActive`; supporters: `ReplacedByInsider`; reuse: `MatrixAgrees`; import: `SavesStand` | 736,000 states |
| `handlers` | self-serve: `QuotaAccounted`, `JobsPaid`, `SubmittedOnce`, `CallsEnd`; documents: `ListMatchesOpen`, `ActorsSee`; upload: `NothingPublished`, `ServedWhole`; owner scope: `OwnersAgree`, `OfferedIsAccepted`, `GrantsOnlyAdd` | 308,000 states |
| `hub_lock_order` | counterexample to `WritersCannotDeadlock` | |

Bounds and why they are enough:

- *Clients*: three are one more than any conflict in the upload services needs (a holder, one who
  waits, one who overtakes both). Toggles take part in the run with two clients: what they
  disturb, `active_version_id`, is `ActiveIsLatest`'s business. *MaxVersion* 2 gives a first
  version, a bump over it, and resubmissions of either. `package_review` and the runs of
  counterexamples stop when both rows are decided, hence `CHECK_DEADLOCK FALSE`.
- *Micro cache*: three keys and room for two make the eviction choose; two loads are the old and
  the new one around a `clear()`. The bounded clock ends a run, hence `CHECK_DEADLOCK FALSE`.
- *Permission cache*: the property is about one user's key at a time, so one user is enough for
  its cases; two requests interleave, each followed by its invalidations. `NoSlipYet` cuts
  the search after a slip, where the property says nothing. `OneFamily` explores the codes and the
  owner keys in separate behaviours, which share no step. All failures are on but that of
  GET, which is taken for a miss: `Expire` produces those.

- *Data Hub terms*: two transactions at a time out of two in all, over two services that have a
  table each or share one, three table ids, three term ids and two logical terms: enough for one
  service to leave a table while the other enters it, for both to leave it, and for a term to be
  remapped between the first reading and the lock. `MaxRows` 2 bounds the body of a save; a term
  is added at most once per save. `hub_lock_order` needs a third transaction and gets it with
  fewer tables.
- *Services, applications, rules*: two requests under way out of four, of an ordinary member and a
  super admin, two departments, one service; five edits of an application with two contents; two
  calls on a rule that a user and another share, one change of roles or users by others. A call is
  a check and one to three statements or transactions, and two calls produce every order of them. `ReadMeetsTwo` lets a read of the
  rules meet two of these three; nothing that the read does changes them.
- *Self-serve*: two handlers, two requests, a limit of two units and five calls: the third payment
  meets an empty key. *Documents*: two members of whom one's rights change, up to two grants at a
  time, two programs; the four steps and four codes are complete. *Upload*: three files, one before
  and one after the one that fails.
- *Owner scope*: two roles, both held; eight records with every table of the hierarchy, two
  departments, and a project without one; three changes from a start in which one role owns nothing,
  a department, or a table as a whole. Three changes are one grant, one that would replace it and
  one that takes something back; the theorems below have no bound.
- *Categories*: two callers and four calls give two creations, a rename and a save that is stale by
  then; names matter only for being equal, hence two.
- *Supporters*: three users, one of them the creator and one a super admin without the code; two
  calls under way out of three, one switch of a right or an account: the third call meets what two
  overlapping ones have left.
- *Reuse matrix*: one skill with up to two versions, two coworkers, six calls: a version, its
  approval, a change of the links and a matrix that is open meanwhile, with a reject around any of
  them. Each coworker starts submitted or approved, and may be approved or toggled later, so columns
  and ranks meet coworkers without an active version. The theorem has no bound.
- *Import*: one import of one or both services, which share a table; two saves by forms before,
  between or after its statements; a file names a table of the service or a new one. A shared table is what
  lets the import of one service meet a change made for the other.
- `transactions` and `handlers` count calls and end when they are used up: `CHECK_DEADLOCK FALSE`.

Fairness. In `FairSpec` of `PackageReview`: strong fairness of a request's next statement,
since PostgreSQL grants a contended row lock in queue order, so a request whose lock becomes free
again and again obtains it; weak fairness of the deadlock detector, which runs after
`deadlock_timeout`. Clients are not assumed to call, nor connections to fail. In `ServeFairness` of
`SelfServe`: weak fairness of each call's next step, since the event loop and Redis serve whoever
waits, and of `Expire`, the lock's time to live. `CallsEnd` needs no more, because `SetNx` gives up
after `MAX_RETRY` attempts.

### Disagreements found

1. `reject` overwrites an approval that committed after its check (`upload.service` 456-470; the
   permission table of `docs/skill-permission-flow.md:69` allows only pending versions). The
   package keeps pointing at a version that is now rejected.
2. `toggleStatus` writes back the `active_version_id` it read earlier (473-487).
3. The micro cache's staleness window is TTL plus query time, not the TTL
   (`micro-cache.service.ts` 3-4 against 70).
4. A read that queried before the owners changed caches its answer after the invalidation; the
   change takes effect at the TTL (`role.service.ts` 165-166).
5. Saving a role's owners twice with the same resource meets the soft-deleted row in the unique
   constraint: the ownership is lost, the request fails, nothing is invalidated
   (`role.service.ts` 144-163, migration `2606091000`, line 16).
6. The save of a data service and the logical-term form can deadlock
   (`data-service-source-tables.util.ts` 61-62 says that they cannot). The save locks the logical
   terms that it saw behind its physicals; before it locks the physicals, somebody creates another
   logical term over one of them. The save then updates a logical term it never locked, while an
   edit of that term waits for the physical. PostgreSQL ends one of the two; nothing is lost.

Observed while modelling, without a run of its own:

- `updateStatus` of BI payment documents (`bi-payment-document.service.ts` 417-467) joins the
  program without selecting it, and `canSetDocumentStatus` (646) then finds no program: the
  endpoint answers every id as an error. The unit tests hand it documents with a program.
- The BI payment template service joins `t.program`, a relation the entity does not have.
- An exhausted quota ends the process (above): the caller of the refused request, and everyone
  else's, loses the connection instead of getting a 400.
- A unit is spent before the row exists, and a failure in between loses it; two submissions at one
  time of one draft pay and push twice (`twice`).
- `removeLink` and `handover` write on what they read before: rules in `hurt` may stay without
  subjects, or come back after a deletion.
- `lockService` after a wait reports no department when another edit has committed: the caller gets
  a 403 that a second attempt does not.
- `versionDetail` and `getDiff` (`resolveIsUpdate`) offer Edit to an approver of another's package, whom
  `editVersion` refuses. `listVersions` shows a caller only what he submitted or owns.
- Two overlapping `update`s of a data-access rule can leave the same role twice in it: when neither
  writes a column of the rule, nothing makes the second wait, its DELETE does not see the first one's
  rows, and `data_access_roles` has no unique index. For users the index `uq_user_data_access_permission`
  (migration `2605070900`, 31-35) makes the second one fail. The rule is in `hurt`.
- The advisory lock makes the names of categories unique only for the calls that rename. `update`
  reads the category before its transaction and saves the whole entity: a call that only changes
  `isActive` and is overtaken by a rename writes the old name back, next to another category that
  took it meanwhile (`category.service.ts` 42 and 75 against the comment in 27-28). `reverted`
  marks these categories and `NamesUnlessReverted` says that there is no other way.
- A category in use cannot be deactivated, says the message (`category.service.ts` 52); the check
  asks the skill and the prompt versions, and a category of the API catalogue is deactivated
  whatever refers to it (47-48). Hence the name of `SkillUseKeepsActive`.
- The users endpoints invalidate nothing (`users.service.ts` 374, 470-474, 502-), nor do a clone
  and a role the sync creates: their members wait for the TTL (`unannounced`, `newborn`).
- `role.delete` asks `users.role_id` (505), not `user_roles`: a role with members is deleted.
- `role.create` saves a property `permissions` that the entity does not have (54): a new role has
  no permissions until it is updated.
- Comments in `data-access.service.ts` (1282, 1428) speak of active roles; the queries below them do
  not look at `role.status`.
- When `reject` has overtaken an approval (1 above), the rejected version is still the active one and
  `editVersion` may rewrite it in front of the readers: `overtaken` in `ReuseMatrix`.
- The matrix orders its rows by a count that is said to match the ticks (`coworker-reuse-matrix.service.ts`
  66-68). It does in any one state (`ReadingsAgree`); the columns are read in an earlier statement, so a
  coworker toggled in between is counted and not shown, or the reverse.
- A super admin without the upload code is offered as a supporter ("matches what the upload gate
  lets through", `asset-hub-supporter.service.ts` 13-17), while `assertCanUpload` (53-59) and
  `canBumpPackage` refuse one. The comments on prompts, "anyone" (53) and "every live user" (61), are
  from before `prompt_upload`.
- `assertCanBump` reads the supporters before the transaction of `createVersion`: a supporter removed
  meanwhile may still submit.
- The import of source tables and terms says that it keeps everything a service already has
  (`import-source-tables.service.ts` 235 and 295-297). It keeps what it looked up: a table's description,
  a term's mapping or a text saved between the look-up and the write of that service goes back to what
  it was, and a term added meanwhile is deleted. The update compares no version; through a shared table
  this happens even to a service whose version is still the one looked up. `SavesStand` says that
  nothing else is undone.
- A failed upload leaves its media rows, and a failed copy its `.part` file.
- The records browser and the rules list ask for the roles a user holds, the guards for those that
  are active: `OwnersAgree` and `OfferedIsAccepted` relate the two for users none of whose roles is
  switched off.
- An endpoint that accepts several codes drops the explicit records as soon as one of its codes is
  only implied (`permission.guard.ts` 61-67). `GrantsOnlyAdd` is about endpoints with one code.
- A rule on a department itself shows its Delete and Download buttons, though no report below need
  be deletable (`bicc-department.service.ts` 125-137); `OfferedIsAccepted` speaks of the other way
  to these buttons, a grant of one report.

## 4. Proofs

All for every value of the constants that their assumptions admit: any finite or infinite set of
clients, any number of versions, any sizes and bounds of the cache. Every invariant and every action
property that a passing run checks is stated by one of these theorems.

| Module | Theorem | States |
|---|---|---|
| `PackageReviewProofs` | `TypeCorrect`, `OnePendingAlways`, `ApprovalFinal` | `Spec => []TypeOK`, `[]OnePending`, `ApprovalIsFinal` |
| | `ApprovedLadderAlways`, `ActiveIsLatestAlways`, `ReadsAgreeAlways` | `Spec => []ApprovedLadder`, `[]ActiveIsLatest`, `[]ReadsAgree` |
| | `ImplementsLadderAlways` | `Spec => ImplementsLadder`: the refinement of `ReviewLadder` |
| | `RowInvInvariant`, `LockInvInvariant`, `QueueInvInvariant`, `LadderInvInvariant` | the inductive invariants behind them |
| `MicroCacheProofs` | `SingleFlightAlways`, `NeverBackAlways`, `FreshHitsAlways` | `Spec => []SingleFlight`, `[]NeverBack`, `[]FreshHits` |
| | `EvictsOldestAlways` | `Spec => EvictsOldest` |
| `GuardProofs` | `ScopeTypeCorrect`, `OwnersAgreeAlways`, `OfferedIsAcceptedAlways` | `ScopeSpec => []ScopeTypeOK`, `[]OwnersAgree`, `[]OfferedIsAccepted` |
| | `GrantsOnlyAddAlways` | `ScopeSpec => GrantsOnlyAdd` |
| | `StaleIsDoomedAlways`, `CopiesInvInvariant` | `Spec => []StaleIsDoomed` of `PermissionCache`, and what carries it |
| `HandlerProofs` | `ServeTypeCorrect`, `QuotaAccountedAlways`, `SubmittedOnceAlways`, `JobsPaidAlways` | `ServeSpec => []ServeTypeOK`, `[]QuotaAccounted`, `[]SubmittedOnce`, `[]JobsPaid` |
| | `ListMatchesOpenAlways`, `ActorsSeeAlways` | `PaySpec => []ListMatchesOpen`, `[]ActorsSee` |
| | `NothingPublishedAlways`, `ServedWholeAlways` | `UploadSpec => []NothingPublished`, `[]ServedWhole` |
| `RulesProofs` | `ForwardMatchesReverseAlways`, `RulesHaveSubjectsAlways`, `DenyHoldsAlways` | `RulesSpec => []ForwardMatchesReverse`, `[]RulesHaveSubjects`, `[]DenyHolds` |
| | `OthersKeptAlways`, `RulesTypeCorrect` | `RulesSpec => OthersKept`, `[]RulesTypeOK` |
| | `RulesInvInvariant`, `DenyInvInvariant` | the inductive invariants of the calls and of the reader |
| `CatalogProofs` | `NamesUnlessRevertedAlways`, `SkillUseKeepsActiveAlways` | `CatSpec => []NamesUnlessReverted`, `[]SkillUseKeepsActive` |
| | `ReplacedByInsiderAlways`, `MatrixAgreesAlways` | `SupSpec => ReplacedByInsider`, `ReuseSpec => []MatrixAgrees` |
| `HubProofs` | `SnapshotsReplayAlways` | `AppSpec => []SnapshotsReplay` |
| | `LiveDepartmentAlways`, `AuthorisedAlways`, `TrailReplaysAlways` | `SvcSpec => []LiveDepartment`, `[]AuthorisedAgainstCurrent`, `[]TrailReplays` |
| | `SvcTypeCorrect` | `SvcSpec => []SvcTypeOK` |
| | `SavesStandAlways`, `ImportInvInvariant` | `ImpSpec => []SavesStand`, and what carries it |
| | `EachPartAlone` | `MCSpec => HubSpec /\ SvcSpec /\ ...`, for the eight components of `TransactionsMC` |
| | `TypesAlwaysOK` | `MCSpec => []TypesOK` |
| `TermProofs` | `TablesHoldTermsAlways`, `HistoryMatchesAlways` | `HubSpec => []TablesHoldTerms`, `[]HistoryMatches` |
| | `HubTypeCorrect` | `HubSpec => []HubTypeOK` |
| | `HubInvInvariant`, `HubCountsAlways` | the inductive invariants behind them |

*PackageReview.* `RowInv` is the types, `OnePending`, and what a request may hold in memory at each
program counter: the row that `approve` writes is approved and the one `reject` saves is rejected,
so neither can create a second pending row; the two writes that can, `BumpInsert` and `EditRow`,
pass the partial index, whose guard is exactly what the induction needs. The unlocked pre-checks
play no part, which is the point of the index. `LockInv` adds that the row of a version under
approval is pending until the commit, and that two requests never hold one version: hence what
`ApproveCommit` overwrites was pending, and only `RejectUpdate`, which takes no lock before
reading, can touch an approved row; then `lost` records it.

`QueueInv` is the order of the submissions: one request holds the package, and the pending version,
or the rejected one that the holder is about to reopen, is the newest. `LadderInv` builds on it.
Until a reject overwrites an approval, the approved rows are numbered 1, 2, ... in the order of
their ids (`Gapless`); the newest row, while it is not approved, was numbered after the last
approval (`Above`); the active version is an approved one or none (`Readable`); and what each
request holds in memory says no less (`Remembers`): a `toggleStatus` that has loaded the package
holds a version that is approved still, an `approve` the number after the last. Since a submission
stays above the approvals only if it is the newest, the numbers could not be proved without
`QueueInv`. `ActiveIsLatest` is part of the invariant. `ApprovedLadder` says that there are as many
approved rows as numbers; their numbering is a bijection with `1..LatestApproved` (`LadderCounted`).
For `ReadsAgree` all readers compare with one base (`OneBase`). The refinement is proved action by
action, for the steps until something is lost, while what readers are shown is the top of the
ladder (`ShownIsTop`): `CreateNew`, `BumpInsert` and `EditRow` submit (`Submits`), `RejectUpdate`
turns the submission down or repeats itself (`RejectSteps`), `ApproveCommit` releases
(`ApproveReleases`); all others leave the rows alone and are invisible (`RowsStay`).

*MicroCache.* `CacheInv`: a running load of the current generation is in its key's slot, and
everything a load of the current generation can still bring is at least `floor`. `.finally`'s
identity check is what the first part needs after `clear()`, the generation check in `.then` what
the second part needs. The types are part of it. `FreshHits` rests on `Fresh`: whatever a value does
not show was written after its query began, and a query takes at most `MaxLoad`; so the write is no
further back from the expiry of the entry than `MaxLoad` and the TTL. `EvictsOldest` rests on
`Ordered`: the insertion order lists each entry once, the first to expire first, because `store`
deletes its key before it sets it.

*OwnerScope.* `OwnersAgree` and `OfferedIsAccepted` hold in every well-typed state, so the type
invariant carries them: whatever rights other modules write, the readings cannot part. Assumed of
the tree: foreign keys are null or point into the parent's table (`TreeAssumption`); of the codes:
that `report:create` exists (`CodesAssumption`), without which the Create button of a department
would be offered to owners and refused. The lemmas are `OwnedByRole` (the sets that the resolver
builds and the EXISTS over `resource_owners` are one thing while all roles are active),
`AccessibleNeedsCode`, `OwnerMayCreate`, and for `GrantsOnlyAdd` one lemma for each right that must
be kept: `PermissionKept`, `AccessibleKept`, `RootsKept`.

*PermissionCache.* `CopiesInv` is `StaleIsDoomed` with three facts about the code: an invalidation
of the role concerns all keys of its users or the two owner keys (`TasksWhole`), only a payload with
permissions deletes the old ones (`DeletesOwn`), and nobody works on a role that does not exist
(`NotYet`). A copy can become stale when the database changes or when a reader stores what it read
before. A step that changes what a user may do leaves an invalidation, or a request that will start one, for
that user and kind; a step of an invalidation hands the duty on, or has dropped the copy; a step that
does neither is a slip, and `slips` names it. So the proof never counts requests, readers or users.

*SelfServe.* `QuotaInv` adds two parts to the types and `QuotaAccounted`. `Excludes`: until a holder
outlives the lock, at most one call is between SETNX and DEL, only while the key exists, and what it
has read of the counter still holds. `Remains` bounds what it is about to write. The accounting is
then kept step by step, whatever the number of calls and retries, and a crash leaves nobody between
the two. `SubmitInv` follows a submission from its check to its message: two
calls that send one request have passed the check together, which is what `twice` records.
`PaidInv`: the messages that arrived and the calls that are past the quota and have not sent theirs
are together no more than the units taken. It uses neither the lock nor the checks, so `JobsPaid`
holds also after a lock is lost and for a request submitted twice.

*PaymentDocuments.* Both properties hold in every well-typed state (`DocumentsTyped`).

*CustomUpload.* `UploadInv` adds to `NothingPublished` that what is public has been recorded and is
whole (`Recorded`), and that the files before the current one are finished (`Progress`): the
`catch` can take back exactly what `published` lists, so the push must come before the rename.

*DataAccessRules.* `ForwardMatchesReverse` holds in every state: the two readings select one join.
`RulesInv`: what a call knows of the rules it has read stands until it writes, or the call is marked
stale; `RulesHaveSubjects` and `OthersKept` follow. `DenyInv` is about the reader: whatever was
denied to a subject ever since the read began is in what the reader collected as soon as that
subject's query is over, wherever the writes fall between the five queries. The type invariant
bounds the generations of junction rows by the calls, and gives a subject one row in a rule; the
exception, a role in a rule of `hurt`, is the overlap of two updates above. What an update keeps it
has not seen, hence the lemmas about its snapshot (`SnapshotKeeps`, `ReplacedRows`). `RulesCount` is the count that is inductive: a
rule's generation and the calls under way are together no more than the calls placed, since only an
update raises a generation, by one, and is over with that step.

*Categories.* `CatInv`: a call past the advisory lock of a name is alone with it, so the check for a
duplicate stands until its insert or save (`CallsApart`); what it still means to write back is what
it read, or the category is recorded as reverted (`CallKnows`); a submission that meets an open change
of its category is recorded as crossed. The two properties are part of it.

*Supporters.* `SupInv`: past the lock there is one call, so what it has read stands until it
commits: its caller is an insider still, and what the DELETE met is the whole set.

*ReuseMatrix.* `ReuseInv`: a version that is active is approved unless a reject overtook it, and a
version whose rows an open matrix has read is approved or overtaken too. An approved version cannot be
edited, so the links read later are those of the rows; that the screens agree follows state by
state from the one fact that the active version exists.

*HubConsumers.* `ConsumerInv` adds that an edit past the lock is the only one and holds the row as
it is (`Locked`): the version number it writes is then the next one, and its snapshot the new row.

*HubServices.* `ServicesInv` says of each request that what it has read under the row lock still
stands: the service's department, or none if its deletion came between, its status, the departments it
shares, the memberships it checked (`Stands`). Of each two it says that they do not hold one service
together, and that no department is being deleted whose row a request shares (`KeepsOff`).
`LiveDepartment` and `TrailReplays` are part of it, the authorisation follows.

*TermImport.* `ImportInv`: the import has looked up the terms of every service that it writes
and the tables of all these terms (`LookedUp`), and the version it builds on is one that exists
(`VersionSeen`). So what a write leaves alone, or gives back unchanged, is what forms saved, and what
it undoes had changed since the look-up, which is what `outdated` records.

*HubTerms.* `HubInv` is the largest. `TxFits` says of a transaction, at each of its statements, that
what it has read is behind a row that it has locked, or that it asks for next, or is the id of a row
that nobody else can name (`SaveFits`, `FormFits`); and once it has written, that every written row is
its own or new (`RowFits`), that every history entry shows what the transaction sees, and that every
table that it makes, keeps or deletes has the terms that it should (`WriteFits`). `TwoFit` says that two
transactions have no row, new table or new term in common. At a commit the two properties hold of the
committing transaction's tables and logical terms by `WriteFits` and of the others because no row of
theirs has moved (`CommitTables`, `CommitHistory`), and each other transaction still fits because what
it relies on is behind its own locks. The order of the locks is not used: a transaction that
deadlocks is rolled back, which is why the disagreement about that order (`hub_lock_order`) leaves
these two properties intact. Assumed: ids are numbers and `Nobody` is none (`IdsAssumption`), since
rows are locked in the order of their ids; the first rows are live and typed (`StartAssumption`).
`HubCounts` bounds the versions of the logical terms by the transactions begun: an entry that is
written and not committed has the number after the committed one, so a commit raises a version by
one at most and closes a transaction. That no other transaction has committed the same
number meanwhile is the lock on the logical term again, so this invariant stands on `HubInv`.

*TransactionsMC.* Each component's step leaves the variables of the seven others alone, so a behaviour of
the whole is one of each component that stutters while another runs (`EachPartAlone`). The proved
invariants of the components thus hold of what the run explores; `TypesOK`, which joins the type
invariants of `HubTerms`, `HubServices` and `DataAccessRules`, follows.

Assumptions on constants beyond types and bounds are those just named, and in `DataAccessRules` that
the rule TLC starts from has a subject and that the reader is a user (`RulesAssumption`).

Only model-checked: `Responds` and `CallsEnd`, liveness under fairness, which the prover cannot treat; and the
violations of section 3, each of which is one counterexample.

## 5. Not modelled

Formatting, validation of payloads, files' contents, history logs and notifications wherever they
do not change the state above. In particular:

- *Data Hub*: create and update of departments, units, divisions and domains (one statement each),
  unique names and codes, the Excel imports of services and applications, which call the same writes
  row by row, and the listings, exports and dictionaries.
- *Data-access rules*: validity dates, more than one table or permission, the hierarchy validation.
- *BI payment*: templates, worksteps, merge logs and projects are CRUD; programs appear by what they
  do to documents. `updateStatus` has no step to model.
- *Owner scope*: the other models take its outcome as a set (`Owners`, `owns`).
- *Permissions*: the permission's own row (`permission.service` update and delete) and the
  exception grants of a user.
- *Sessions*: token rows change by single statements. The Redis entry that `logOut` deletes and the
  file guard asks for is written by nothing in the repository, so nothing races with it.
- *Item metadata*: tags, persons in charge and publishers, replaced under the package's lock.
- *CRUD and reporting modules, scripts, migrations, seeders*: no protocol between steps.

## 6. Plan

1. The exception grants of a user in `PermissionCache`, as one more source of codes, with
   `CopiesInv` extended to it.
2. Reads over other models' rows, as `PackageReading` does for the package: the Data Hub's service
   page and history over `HubServices`, and which of the micro cache's keys they share.
