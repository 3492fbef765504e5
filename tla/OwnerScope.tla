----------------------------- MODULE OwnerScope -----------------------------
(***************************************************************************)
(* Records in a hierarchy (department > report, department > project >     *)
(* program > document, and the stand-alone properties), and the places     *)
(* that decide what a user may do with one: the guards of an endpoint, the *)
(* predicate pushed into its query, the rules list, the records browser    *)
(* and the gate of the rule endpoints.  Each has its own SQL for "a role   *)
(* of the user owns the root above"; the model keeps them apart.           *)
(* One user, no super admin; his rights and the records are changed by     *)
(* other modules.  Caches are the business of PermissionCache.             *)
(***************************************************************************)
EXTENDS Naturals, FiniteSets, FiniteSetsExt

CONSTANTS Roles, Records,
          TableOf, ParentOf,     \* of a record: its table, and what its foreign key points at
          NoRecord,
          Whole,                 \* OWNER_ALL_RESOURCE_ID
          Permissions,           \* codes, as [module, action]
          Rulable,               \* the records that get rules, with the code of a user's rule
          InitOwned,             \* bound: the ownerships to begin with
          MaxChanges             \* bound: changes of rights and records

VARIABLES held,      \* user_roles of the user
          enabled,   \* role.status
          coded,     \* roles_permissions
          owned,     \* resource_owners: <<role, root record or Whole>>
          placed,    \* data_access rules: of a role, or of the user with a code
          stamped,   \* records with deleted_at
          marked,    \* records with is_deleted
          changes

scopeVars == <<held, enabled, coded, owned, placed, stamped, marked, changes>>

(***************************************************************************)
(* hierarchy-config                                                        *)
(***************************************************************************)
ParentTable == [department |-> "none", report |-> "department", project |-> "department",
                program |-> "project", document |-> "program", property |-> "none"]
RootTables    == {"department", "property"}
OwnAllTables  == {"property"}
RuleTables    == {"department", "report", "project", "program", "property"}
ManageTables  == {"report", "program"}

ASSUME TreeAssumption ==
    /\ NoRecord \notin Records /\ Whole \notin Records
    /\ TableOf \in [Records -> DOMAIN ParentTable]
    /\ ParentOf \in [Records -> Records \cup {NoRecord}]
    /\ \A x \in Records : ParentOf[x] # NoRecord => TableOf[ParentOf[x]] = ParentTable[TableOf[x]]
ASSUME CodesAssumption == [module |-> "report", action |-> "create"] \in Permissions
ASSUME BoundsAssumption == /\ \A o \in InitOwned : o \subseteq Roles \X (Records \cup {Whole})
                           /\ MaxChanges \in Nat

\* findRootTable; no table lies deeper than three below its root.
RootOf == LET Over(u) == IF ParentTable[u] = "none" THEN u ELSE ParentTable[u]
          IN  [t \in DOMAIN ParentTable |-> Over(Over(Over(t)))]
RootTable(t) == RootOf[t]
\* The rows that the joins to the root lead through; a foreign key may be null, and then no row
\* of the root table is among them.
Up(y)   == IF y \in Records THEN ParentOf[y] ELSE NoRecord
AboveOf == [x \in Records |-> {Up(x), Up(Up(x)), Up(Up(Up(x)))} \ {NoRecord}]
RootsOf == [x \in Records |-> {y \in {x} \cup AboveOf[x] : TableOf[y] = RootTable(TableOf[x])}]
Above(x)      == AboveOf[x]
RootsAbove(x) == RootsOf[x]
RowsOf(t) == {x \in Records : TableOf[x] = t}
Live(x)  == x \notin stamped \cup marked

(***************************************************************************)
(* Explicit rights                                                         *)
(***************************************************************************)
Rule(who, scope, x, code) == [who |-> who, scope |-> scope, data |-> x, code |-> code]
Code(module, action) == [module |-> module, action |-> action]
NoCode  == Code("none", "none")
RoleIds == held \cap enabled

\* getUserPermissions: by a role, or as an exception of the user's own.
HasPermission(c) == \/ \E r \in RoleIds : <<r, c>> \in coded
                    \/ \E x \in Records : Rule("user", "allow", x, c) \in placed
\* queryDataIds for roles and for the user.
DataIds(scope, c) ==
    {x \in Records \ (stamped \cup marked) :
        \/ Rule("user", scope, x, c) \in placed
        \/ \E r \in RoleIds : Rule(r, scope, x, NoCode) \in placed /\ <<r, c>> \in coded}
AccessibleRecords(t, c) == RowsOf(t) \cap (DataIds("allow", c) \ DataIds("deny", c))

(***************************************************************************)
(* OwnerScopeResolverService                                               *)
(***************************************************************************)
\* getUserOwnerScope, and its use per root table: getOwnedRoots.
OwnerScope == {o[2] : o \in {p \in owned : p[1] \in RoleIds}}
ResourceTable(y) == IF y = Whole THEN "property" ELSE TableOf[y]
OwnedRoots(t) == {y \in OwnerScope : ResourceTable(y) = t}

\* getUserImpliedVerbs: what the modules below an owned root offer, but no new roots.
ImpliedVerbs == {c \in Permissions : \E y \in OwnerScope :
                    /\ c.module \in DOMAIN ParentTable
                    /\ RootTable(c.module) = ResourceTable(y)
                    /\ ~(c.module = ResourceTable(y) /\ c.action = "create")}

\* Variant: the target itself is not asked.
InOwnedScopeChain(x) == /\ \A y \in Above(x) : y \notin stamped /\ y \notin marked
                        /\ RootsAbove(x) \cap OwnedRoots(RootTable(TableOf[x])) # {}
\* isInOwnedScope: inner joins up to the root.
InOwnedScope(x) == /\ \A y \in {x} \cup Above(x) : y \notin stamped /\ y \notin marked
                   /\ RootsAbove(x) \cap OwnedRoots(RootTable(TableOf[x])) # {}

\* canCreateUnderParent, hasAccessibleChildUnderParent
CanCreateUnderParent(d, c) == d \in AccessibleRecords(TableOf[d], c) \/ InOwnedScope(d)
HasAccessibleChild(t, d, c) ==
    \E x \in AccessibleRecords(t, c) : ParentOf[x] = d /\ x \notin stamped /\ x \notin marked

(***************************************************************************)
(* An endpoint: PermissionGuard, OwnerScopeGuard, DataAccessInterceptor    *)
(* and the predicate in the service's query                                *)
(***************************************************************************)
\* PermissionGuard asks for implied verbs only where the explicit permission is missing.
Explicit(codes) == {c \in codes : HasPermission(c)}
\* Variant: all of the codes are asked for both ways.
ImpliedAll(codes) == codes \cap ImpliedVerbs
Implied(codes)  == {c \in codes : ~HasPermission(c)} \cap ImpliedVerbs
PermissionPasses(codes) == Explicit(codes) # {} \/ Implied(codes) # {}
VerbFromExplicit(codes) == Explicit(codes) # {} /\ Implied(codes) = {}

OwnerScopePasses(codes, x) == VerbFromExplicit(codes) \/ InOwnedScope(x)

\* DataAccessInterceptor
DataScope(codes, t, c) ==
    [explicit |-> IF VerbFromExplicit(codes) THEN AccessibleRecords(t, c) ELSE {},
     roots    |-> OwnedRoots(RootTable(t))]

\* applyDataScope: EXISTS over the rows above; the target is up to the caller's query.
Applies(scope, x) ==
    \/ x \in scope.explicit
    \/ /\ RootsAbove(x) \cap scope.roots # {}
       /\ \A y \in Above(x) : y \notin stamped /\ y \notin marked

ReportCodes == {c \in Permissions : c.module = "report"}
\* deleteOne and deleteMany of diagnostic reports, update with `edit`.
AcceptsMany(c, x) == /\ PermissionPasses({c})
                     /\ x \notin marked /\ x \notin stamped
                     /\ Applies(DataScope({c}, TableOf[x], c), x)
AcceptsOne(c, x)  == AcceptsMany(c, x) /\ OwnerScopePasses({c}, x)

(***************************************************************************)
(* DataAccessService: the rules list, the records browser and the gate     *)
(***************************************************************************)
ViewVerb   == Code("rules", "view")
CreateVerb == Code("rules", "create")

\* getEditAccessibleRecordIds; resolveEditCode finds the module's "update".
EditAccessible(t, verb) ==
    IF HasPermission(verb) THEN AccessibleRecords(t, Code(t, "update")) ELSE {}
\* filterManageableRecords
Manageable(x, verb) == x \in EditAccessible(TableOf[x], verb) \/ InOwnedScope(x)

\* hasOwnerAllAssignment, for the roles held, whatever their status.
OwnsWhole == \E r \in held : <<r, Whole>> \in owned
\* Variant: no case for tables that are owned as a whole.
GateAcceptsRecord(x) == TableOf[x] \in RuleTables => Manageable(x, CreateVerb)
\* enforceManageGate
GateAccepts(x) == CASE TableOf[x] \notin RuleTables  -> TRUE
                    [] TableOf[x] \in OwnAllTables   -> OwnsWhole
                    [] OTHER                         -> Manageable(x, CreateVerb)

\* buildOwnerJoinChain: from the target's foreign key up to resource_owners.
OwnerChain(x) == /\ \A y \in Above(x) : y \notin stamped /\ y \notin marked
                 /\ \E r \in held, y \in RootsAbove(x) : <<r, y>> \in owned
\* buildAccessibleCTE: its own joins, the target included, and the sentinel.
InAccessibleCTE(x) ==
    /\ TableOf[x] \in RuleTables /\ x \notin stamped /\ x \notin marked
    /\ IF TableOf[x] \in OwnAllTables THEN \E r \in held : <<r, Whole>> \in owned
       ELSE /\ \A y \in {x} \cup Above(x) : y \notin stamped /\ y \notin marked
            /\ \E r \in held, y \in RootsAbove(x) : <<r, y>> \in owned
\* list with buildManageEditBranches: whether the rules of a record are listed.
RulesListed(x) == InAccessibleCTE(x) \/ /\ TableOf[x] \in ManageTables
                                        /\ x \in EditAccessible(TableOf[x], ViewVerb)
\* getManageScopedRecords, getScopedRecords and the choice between them in getRecords.
ManageScoped(x) == x \in EditAccessible(TableOf[x], CreateVerb) \/ OwnerChain(x)
Scoped(x) == IF TableOf[x] \in OwnAllTables THEN OwnsWhole ELSE OwnerChain(x)
Browsed(x) == /\ x \notin stamped /\ x \notin marked
              /\ IF TableOf[x] \in ManageTables \ OwnAllTables THEN ManageScoped(x) ELSE Scoped(x)

\* resolveReportTypeFlags: a department's Create button.
CreateFlag(d) == CanCreateUnderParent(d, Code("report", "create"))

(***************************************************************************)
(* Other modules: roles, rules, records                                    *)
(***************************************************************************)
Change == changes < MaxChanges /\ changes' = changes + 1
Toggle(set, e) == SymDiff(set, {e})

AssignOrRemove(r) == /\ Change /\ held' = Toggle(held, r)
                     /\ UNCHANGED <<enabled, coded, owned, placed, stamped, marked>>
SetRoleStatus(r) == /\ Change /\ enabled' = Toggle(enabled, r)
                    /\ UNCHANGED <<held, coded, owned, placed, stamped, marked>>
EditRole(r, c) == /\ Change /\ coded' = Toggle(coded, <<r, c>>)
                  /\ UNCHANGED <<held, enabled, owned, placed, stamped, marked>>
\* saveOwnerAssignments, with a list that differs in one row from the one it replaces; a table
\* owned as a whole takes the sentinel alone.
SaveOwner(r, y) == /\ Change /\ ResourceTable(y) \in RootTables
                   /\ (ResourceTable(y) \in OwnAllTables) = (y = Whole)
                   /\ owned' = Toggle(owned, <<r, y>>)
                   /\ UNCHANGED <<held, enabled, coded, placed, stamped, marked>>
PlaceRule(rule) == /\ Change /\ placed' = Toggle(placed, rule)
                   /\ UNCHANGED <<held, enabled, coded, owned, stamped, marked>>
\* softRemove stamps; the deletion of a report sets both columns.
Delete(x) == /\ Change /\ Live(x)
             /\ stamped' = stamped \cup {x}
             /\ marked' = IF TableOf[x] = "report" THEN marked \cup {x} ELSE marked
             /\ UNCHANGED <<held, enabled, coded, owned, placed>>
\* "manual updates set is_deleted only" (owner-scope-helpers.ts 13).
Flag(x) == /\ Change /\ Live(x)
           /\ marked' = marked \cup {x}
           /\ UNCHANGED <<held, enabled, coded, owned, placed, stamped>>

RuleSpace == {Rule("user", scope, p[1], p[2]) : scope \in {"allow", "deny"}, p \in Rulable}
             \cup {Rule(r, scope, p[1], NoCode) : r \in Roles, scope \in {"allow", "deny"}, p \in Rulable}

ScopeInit == /\ held = Roles /\ enabled = Roles
             /\ owned \in InitOwned /\ coded = {} /\ placed = {} /\ stamped = {} /\ marked = {}
             /\ changes = 0
ScopeNext ==
    \/ \E r \in Roles : \/ AssignOrRemove(r) \/ SetRoleStatus(r)
                        \/ \E c \in Permissions : EditRole(r, c)
                        \/ \E y \in Records \cup {Whole} : SaveOwner(r, y)
    \/ \E rule \in RuleSpace : PlaceRule(rule)
    \/ \E x \in Records : Delete(x) \/ Flag(x)
ScopeSpec == ScopeInit /\ [][ScopeNext]_scopeVars

(***************************************************************************)
(* Properties                                                              *)
(***************************************************************************)
ScopeTypeOK == /\ held \subseteq Roles /\ enabled \subseteq Roles
               /\ coded \subseteq Roles \X Permissions
               /\ owned \subseteq Roles \X (Records \cup {Whole})
               /\ placed \subseteq RuleSpace
               /\ stamped \cup marked \subseteq Records
               /\ changes \in 0 .. MaxChanges

\* All places agree on who owns a record: guard and query predicate (owner-scope.guard.ts 11-21,
\* hence one report and many are deleted alike), the rules list and the records browser
\* (owner-scope-helpers.ts 109), and, while no role of the user is switched off, the two pairs.
OwnersAgree == \A x \in Records :
    /\ InOwnedScope(x) <=> Live(x) /\ Applies([explicit |-> {}, roots |-> OwnedRoots(RootTable(TableOf[x]))], x)
    /\ TableOf[x] = "report" => \A c \in ReportCodes : AcceptsOne(c, x) <=> AcceptsMany(c, x)
    /\ TableOf[x] \in RuleTables =>
          (InAccessibleCTE(x) <=> Live(x) /\ (IF TableOf[x] \in OwnAllTables THEN OwnsWhole ELSE OwnerChain(x)))
    /\ held \subseteq enabled /\ TableOf[x] \notin OwnAllTables =>
          (InOwnedScope(x) <=> Live(x) /\ OwnerChain(x))

\* What is offered is accepted, while no role is switched off: a browsed record by the gate of the
\* rule endpoints (and, where edit grants manage, the other way round), the rules listed to someone
\* who may create some, the department's Create button by the guard, and the grant of one report
\* that turns on a button of the department by the endpoint of that report.
OfferedIsAccepted == held \subseteq enabled => \A x \in Records :
    /\ Browsed(x) => GateAccepts(x)
    /\ TableOf[x] \in ManageTables /\ Live(x) /\ GateAccepts(x) => Browsed(x)
    /\ RulesListed(x) /\ HasPermission(CreateVerb) => GateAccepts(x)
    /\ TableOf[x] = "department" /\ CreateFlag(x) => PermissionPasses({Code("report", "create")})
    /\ TableOf[x] = "department" /\ HasAccessibleChild("report", x, Code("report", "delete")) =>
          \E y \in RowsOf("report") : ParentOf[y] = x /\ AcceptsOne(Code("report", "delete"), y)

\* A step that only gives the user something (no role, code, rule, ownership or record goes, and
\* no denial comes into force) takes nothing from him: becoming the owner of one department does
\* not lose him the records that were granted to him (permission.guard.ts 61-64).
Gives == /\ changes < changes'
         /\ held \subseteq held' /\ enabled \subseteq enabled' /\ coded \subseteq coded'
         /\ owned \subseteq owned' /\ placed \subseteq placed'
         /\ UNCHANGED <<stamped, marked>>
         /\ \A c \in ReportCodes : DataIds("deny", c)' \subseteq DataIds("deny", c)
GrantsOnlyAdd == [][Gives => \A x \in RowsOf("report"), c \in ReportCodes :
                       AcceptsOne(c, x) => AcceptsOne(c, x)']_scopeVars
=============================================================================
