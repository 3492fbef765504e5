---------------------------- MODULE GuardProofs ----------------------------
(***************************************************************************)
(* What the guards rely on.  OwnerScope: the readings of ownership agree   *)
(* for every tree of records, every set of roles and codes, and every      *)
(* number of changes; two of its properties hold in every state with the   *)
(* right types, so the type invariant carries them, and the third compares *)
(* two states.  PermissionCache: for any users, readers and overlapping    *)
(* requests of the ten role endpoints, a copy in Redis that contradicts    *)
(* the database has an invalidation, or a request, that will drop it; each *)
(* step hands that duty on, or is one of the slips.                        *)
(***************************************************************************)
EXTENDS OwnerScope, PermissionCache, TLAPS

(***************************************************************************)
(* The readings of ownership                                               *)
(***************************************************************************)
\* The rows joined above a record are records, and roots are never the sentinel.
LEMMA AboveRecords ==
    ASSUME NEW x \in Records
    PROVE  Above(x) \subseteq Records /\ RootsAbove(x) \subseteq Records /\ Whole \notin RootsAbove(x)
<1>1. \A y : Up(y) \in Records \cup {NoRecord}
  BY TreeAssumption DEF Up
<1>2. Above(x) \subseteq Records
  BY <1>1 DEF Above, AboveOf
<1>3. RootsAbove(x) \subseteq {x} \cup Above(x)
  BY DEF RootsAbove, RootsOf, Above
<1> QED BY <1>2, <1>3, TreeAssumption

\* Of the user's roles, all of them active, one owns a root above x exactly if the owner scope holds it.
LEMMA OwnedByRole ==
    ASSUME NEW x \in Records, ScopeTypeOK, held \subseteq enabled
    PROVE  RootsAbove(x) \cap OwnedRoots(RootTable(TableOf[x])) # {}
              <=> \E r \in held, y \in RootsAbove(x) : <<r, y>> \in owned
<1>1. RoleIds = held
  BY DEF RoleIds
<1>2. \A y \in RootsAbove(x) : y # Whole /\ TableOf[y] = RootTable(TableOf[x])
  BY AboveRecords DEF RootsAbove, RootsOf
<1>3. \A y \in RootsAbove(x) : ResourceTable(y) = RootTable(TableOf[x])
  BY <1>2 DEF ResourceTable
<1>4. \A y : y \in OwnerScope <=> \E r \in held : <<r, y>> \in owned
  <2> TAKE y
  <2>1. ASSUME y \in OwnerScope PROVE \E r \in held : <<r, y>> \in owned
    <3>1. PICK p \in owned : p[1] \in RoleIds /\ y = p[2]
      BY <2>1 DEF OwnerScope
    <3>2. p = <<p[1], p[2]>>
      BY <3>1 DEF ScopeTypeOK
    <3> QED BY <3>1, <3>2, <1>1
  <2>2. ASSUME NEW r \in held, <<r, y>> \in owned PROVE y \in OwnerScope
    <3>1. <<r, y>>[1] = r /\ <<r, y>>[2] = y
      OBVIOUS
    <3> QED BY <3>1, <2>2, <1>1 DEF OwnerScope
  <2> QED BY <2>1, <2>2
<1> QED BY <1>3, <1>4 DEF OwnedRoots

(***************************************************************************)
(* Types                                                                   *)
(***************************************************************************)
LEMMA ToggleType ==
    ASSUME NEW S, NEW set \in SUBSET S, NEW e \in S
    PROVE  Toggle(set, e) \in SUBSET S
BY DEF Toggle, SymDiff

LEMMA ScopeTypeStep == ScopeTypeOK /\ [ScopeNext]_scopeVars => ScopeTypeOK'
<1> SUFFICES ASSUME ScopeTypeOK, [ScopeNext]_scopeVars PROVE ScopeTypeOK'
  OBVIOUS
<1> USE DEF ScopeTypeOK
<1>1. ASSUME Change PROVE changes' \in 0..MaxChanges
  BY <1>1, BoundsAssumption DEF Change
<1>2. ASSUME NEW r \in Roles, AssignOrRemove(r) PROVE ScopeTypeOK'
  BY <1>2, <1>1, ToggleType DEF AssignOrRemove
<1>3. ASSUME NEW r \in Roles, SetRoleStatus(r) PROVE ScopeTypeOK'
  BY <1>3, <1>1, ToggleType DEF SetRoleStatus
<1>4. ASSUME NEW r \in Roles, NEW c \in Permissions, EditRole(r, c) PROVE ScopeTypeOK'
  <2>1. <<r, c>> \in Roles \X Permissions
    OBVIOUS
  <2>2. coded' = Toggle(coded, <<r, c>>) /\ coded \in SUBSET (Roles \X Permissions)
    BY <1>4 DEF EditRole
  <2>3. coded' \in SUBSET (Roles \X Permissions)
    <3> DEFINE S == Roles \X Permissions
              e == <<r, c>>
    <3>1. e \in S /\ coded \in SUBSET S
      BY <2>1, <2>2
    <3> HIDE DEF e, S
    <3>2. Toggle(coded, e) \in SUBSET S
      BY <3>1, ToggleType
    <3> QED BY <2>2, <3>2 DEF e, S
  <2> QED BY <1>4, <1>1, <2>3 DEF EditRole
<1>5. ASSUME NEW r \in Roles, NEW y \in Records \cup {Whole}, SaveOwner(r, y) PROVE ScopeTypeOK'
  <2>1. <<r, y>> \in Roles \X (Records \cup {Whole})
    OBVIOUS
  <2>2. owned' = Toggle(owned, <<r, y>>) /\ owned \in SUBSET (Roles \X (Records \cup {Whole}))
    BY <1>5 DEF SaveOwner
  <2>3. owned' \in SUBSET (Roles \X (Records \cup {Whole}))
    BY <2>1, <2>2, ToggleType, Zenon
  <2> QED BY <1>5, <1>1, <2>3 DEF SaveOwner
<1>6. ASSUME NEW rule \in RuleSpace, PlaceRule(rule) PROVE ScopeTypeOK'
  BY <1>6, <1>1, ToggleType DEF PlaceRule
<1>7. ASSUME NEW x \in Records, Delete(x) PROVE ScopeTypeOK'
  BY <1>7, <1>1 DEF Delete
<1>8. ASSUME NEW x \in Records, Flag(x) PROVE ScopeTypeOK'
  BY <1>8, <1>1 DEF Flag
<1>9. CASE UNCHANGED scopeVars
  BY <1>9 DEF scopeVars
<1> QED BY <1>2, <1>3, <1>4, <1>5, <1>6, <1>7, <1>8, <1>9 DEF ScopeNext

\* The sets of rights and records keep their types, whatever the other modules do (role.service.ts,
\* data-access.service.ts).
THEOREM ScopeTypeCorrect == ScopeSpec => []ScopeTypeOK
<1>1. ScopeInit => ScopeTypeOK
  BY BoundsAssumption DEF ScopeInit, ScopeTypeOK
<1> QED BY <1>1, ScopeTypeStep, PTL DEF ScopeSpec

(***************************************************************************)
(* Who owns a record                                                       *)
(***************************************************************************)
LEMMA OwnersAgreeTyped == ScopeTypeOK => OwnersAgree
<1> SUFFICES ASSUME ScopeTypeOK, NEW x \in Records
             PROVE  /\ InOwnedScope(x) <=> Live(x) /\ Applies([explicit |-> {}, roots |-> OwnedRoots(RootTable(TableOf[x]))], x)
                    /\ TableOf[x] = "report" => \A c \in ReportCodes : AcceptsOne(c, x) <=> AcceptsMany(c, x)
                    /\ TableOf[x] \in RuleTables =>
                          (InAccessibleCTE(x) <=> Live(x) /\ (IF TableOf[x] \in OwnAllTables THEN OwnsWhole ELSE OwnerChain(x)))
                    /\ held \subseteq enabled /\ TableOf[x] \notin OwnAllTables =>
                          (InOwnedScope(x) <=> Live(x) /\ OwnerChain(x))
  BY DEF OwnersAgree
<1>1. InOwnedScope(x) <=> Live(x) /\ Applies([explicit |-> {}, roots |-> OwnedRoots(RootTable(TableOf[x]))], x)
  BY DEF InOwnedScope, Live, Applies
<1>2. ASSUME NEW c \in ReportCodes, AcceptsMany(c, x) PROVE AcceptsOne(c, x)
  <2>1. CASE VerbFromExplicit({c})
    BY <1>2, <2>1 DEF AcceptsOne, OwnerScopePasses
  <2>2. CASE ~VerbFromExplicit({c})
    <3>1. DataScope({c}, TableOf[x], c)
             = [explicit |-> {}, roots |-> OwnedRoots(RootTable(TableOf[x]))]
      BY <2>2 DEF DataScope
    <3>2. InOwnedScope(x)
      BY <1>1, <1>2, <3>1 DEF AcceptsMany, Live
    <3> QED BY <1>2, <3>2 DEF AcceptsOne, OwnerScopePasses
  <2> QED BY <2>1, <2>2
<1>3. \A c \in ReportCodes : AcceptsOne(c, x) => AcceptsMany(c, x)
  BY DEF AcceptsOne
<1>4. TableOf[x] \in RuleTables =>
         (InAccessibleCTE(x) <=> Live(x) /\ (IF TableOf[x] \in OwnAllTables THEN OwnsWhole ELSE OwnerChain(x)))
  BY DEF InAccessibleCTE, Live, OwnsWhole, OwnerChain
<1>5. ASSUME held \subseteq enabled PROVE InOwnedScope(x) <=> Live(x) /\ OwnerChain(x)
  BY <1>5, OwnedByRole DEF InOwnedScope, Live, OwnerChain
<1> QED BY <1>1, <1>2, <1>3, <1>4, <1>5

\* The guard, the query predicate, the rules list and the records browser agree on who owns a record
\* (owner-scope.guard.ts 11-21, owner-scope-helpers.ts 109).
THEOREM OwnersAgreeAlways == ScopeSpec => []OwnersAgree
BY ScopeTypeCorrect, OwnersAgreeTyped, PTL

(***************************************************************************)
(* What is offered                                                         *)
(***************************************************************************)
\* A record can be accessible with a code only to someone who has the code.
LEMMA AccessibleNeedsCode ==
    ASSUME NEW t, NEW c, NEW x \in AccessibleRecords(t, c)
    PROVE  x \in Records /\ TableOf[x] = t /\ x \notin stamped /\ x \notin marked /\ HasPermission(c)
BY DEF AccessibleRecords, RowsOf, DataIds, HasPermission

LEMMA ExplicitAccepted ==
    ASSUME NEW c, NEW x \in Records, HasPermission(c), x \in AccessibleRecords(TableOf[x], c)
    PROVE  AcceptsOne(c, x)
<1>1. c \in Explicit({c}) /\ Implied({c}) = {}
  BY DEF Explicit, Implied
<1>2. PermissionPasses({c}) /\ VerbFromExplicit({c})
  BY <1>1 DEF PermissionPasses, VerbFromExplicit
<1>3. Applies(DataScope({c}, TableOf[x], c), x)
  BY <1>2 DEF Applies, DataScope
<1> QED BY <1>2, <1>3, AccessibleNeedsCode DEF AcceptsOne, AcceptsMany, OwnerScopePasses

\* The owner of a department may make reports, if the code exists.
LEMMA OwnerMayCreate ==
    ASSUME NEW x \in Records, TableOf[x] = "department", InOwnedScope(x)
    PROVE  PermissionPasses({Code("report", "create")})
<1> DEFINE c == Code("report", "create")
<1>1. c \in Permissions /\ c.module = "report" /\ c.action = "create"
  BY CodesAssumption DEF Code
<1>2. "report" \in DOMAIN ParentTable /\ RootTable("report") = "department" /\ RootTable("department") = "department"
  BY DEF RootTable, RootOf, ParentTable
<1>3. PICK y \in OwnerScope : ResourceTable(y) = "department"
  BY <1>2 DEF InOwnedScope, OwnedRoots
<1>4. c \in ImpliedVerbs
  BY <1>1, <1>2, <1>3 DEF ImpliedVerbs
<1> QED BY <1>4 DEF PermissionPasses, Explicit, Implied

LEMMA OfferedIsAcceptedTyped == ScopeTypeOK => OfferedIsAccepted
<1> SUFFICES ASSUME ScopeTypeOK, held \subseteq enabled, NEW x \in Records
             PROVE  /\ Browsed(x) => GateAccepts(x)
                    /\ TableOf[x] \in ManageTables /\ Live(x) /\ GateAccepts(x) => Browsed(x)
                    /\ RulesListed(x) /\ HasPermission(CreateVerb) => GateAccepts(x)
                    /\ TableOf[x] = "department" /\ CreateFlag(x) => PermissionPasses({Code("report", "create")})
                    /\ TableOf[x] = "department" /\ HasAccessibleChild("report", x, Code("report", "delete")) =>
                          \E y \in RowsOf("report") : ParentOf[y] = x /\ AcceptsOne(Code("report", "delete"), y)
  BY DEF OfferedIsAccepted
<1>1. TableOf[x] \in ManageTables => TableOf[x] \in RuleTables /\ TableOf[x] \notin OwnAllTables
  BY DEF ManageTables, RuleTables, OwnAllTables
<1>2. InOwnedScope(x) <=> Live(x) /\ OwnerChain(x)
  BY OwnedByRole DEF InOwnedScope, Live, OwnerChain
<1>3. Browsed(x) => GateAccepts(x)
  BY <1>1, <1>2 DEF Browsed, ManageScoped, Scoped, GateAccepts, Manageable, Live
<1>4. TableOf[x] \in ManageTables /\ Live(x) /\ GateAccepts(x) => Browsed(x)
  BY <1>1, <1>2 DEF Browsed, ManageScoped, Scoped, GateAccepts, Manageable, Live
<1>5. ASSUME RulesListed(x), HasPermission(CreateVerb) PROVE GateAccepts(x)
  <2>1. CASE InAccessibleCTE(x)
    BY <2>1, <1>2 DEF InAccessibleCTE, GateAccepts, OwnsWhole, Manageable, Live, OwnerChain
  <2>2. CASE TableOf[x] \in ManageTables /\ x \in EditAccessible(TableOf[x], ViewVerb)
    <3>1. x \in EditAccessible(TableOf[x], CreateVerb)
      BY <2>2, <1>5 DEF EditAccessible
    <3> QED BY <3>1, <2>2, <1>1 DEF GateAccepts, Manageable
  <2> QED BY <1>5, <2>1, <2>2 DEF RulesListed
<1>6. ASSUME TableOf[x] = "department", CreateFlag(x) PROVE PermissionPasses({Code("report", "create")})
  <2>1. CASE x \in AccessibleRecords(TableOf[x], Code("report", "create"))
    BY <2>1, AccessibleNeedsCode DEF PermissionPasses, Explicit
  <2>2. CASE InOwnedScope(x)
    BY <1>6, <2>2, OwnerMayCreate
  <2> QED BY <1>6, <2>1, <2>2 DEF CreateFlag, CanCreateUnderParent
<1>7. ASSUME HasAccessibleChild("report", x, Code("report", "delete"))
      PROVE  \E y \in RowsOf("report") : ParentOf[y] = x /\ AcceptsOne(Code("report", "delete"), y)
  <2>1. PICK y \in AccessibleRecords("report", Code("report", "delete")) : ParentOf[y] = x
    BY <1>7 DEF HasAccessibleChild
  <2>2. y \in Records /\ TableOf[y] = "report" /\ HasPermission(Code("report", "delete"))
    BY <2>1, AccessibleNeedsCode
  <2>3. AcceptsOne(Code("report", "delete"), y)
    BY <2>1, <2>2, ExplicitAccepted
  <2> QED BY <2>1, <2>2, <2>3 DEF RowsOf
<1> QED BY <1>3, <1>4, <1>5, <1>6, <1>7

\* While no role of the user is switched off, no page offers what an endpoint would refuse
\* (data-access.service.ts 101-132 against 204-241 and 1242-1248, bicc-department.service.ts 130-145).
THEOREM OfferedIsAcceptedAlways == ScopeSpec => []OfferedIsAccepted
BY ScopeTypeCorrect, OfferedIsAcceptedTyped, PTL

(***************************************************************************)
(* A gift takes nothing                                                    *)
(***************************************************************************)
LEMMA PermissionKept ==
    ASSUME Gives, NEW c, HasPermission(c)
    PROVE  HasPermission(c)'
<1>1. RoleIds \subseteq RoleIds' /\ coded \subseteq coded' /\ placed \subseteq placed'
  BY DEF Gives, RoleIds
<1>2. CASE \E r \in RoleIds : <<r, c>> \in coded
  BY <1>1, <1>2 DEF HasPermission
<1>3. CASE \E x \in Records : Rule("user", "allow", x, c) \in placed
  BY <1>1, <1>3 DEF HasPermission, Rule
<1> QED BY <1>2, <1>3 DEF HasPermission

LEMMA AccessibleKept ==
    ASSUME Gives, NEW c \in ReportCodes, NEW t, NEW x \in AccessibleRecords(t, c)
    PROVE  x \in AccessibleRecords(t, c)'
<1>1. RoleIds \subseteq RoleIds' /\ coded \subseteq coded' /\ placed \subseteq placed'
  BY DEF Gives, RoleIds
<1>2. UNCHANGED <<stamped, marked>> /\ DataIds("deny", c)' \subseteq DataIds("deny", c)
  BY DEF Gives
<1>3. x \in DataIds("allow", c)
  BY DEF AccessibleRecords
<1>4. x \in DataIds("allow", c)'
  BY <1>1, <1>2, <1>3 DEF DataIds, Rule
<1> QED BY <1>2, <1>4 DEF AccessibleRecords, RowsOf

LEMMA RootsKept ==
    ASSUME Gives, NEW t
    PROVE  OwnedRoots(t) \subseteq OwnedRoots(t)'
<1>1. RoleIds \subseteq RoleIds' /\ owned \subseteq owned'
  BY DEF Gives, RoleIds
<1>2. OwnerScope \subseteq OwnerScope'
  BY <1>1 DEF OwnerScope
<1> QED BY <1>2 DEF OwnedRoots, ResourceTable

\* The step on which the property rests: whoever is accepted as an owner stays one, whoever is accepted
\* by a grant keeps the code with the grant, and an explicit code never makes way for an implied one.
LEMMA GivesKeeps ==
    ASSUME Gives, NEW x \in RowsOf("report"), NEW c \in ReportCodes, AcceptsOne(c, x)
    PROVE  AcceptsOne(c, x)'
<1>1. x \in Records /\ TableOf[x] = "report"
  BY DEF RowsOf
<1>2. UNCHANGED <<stamped, marked>>
  BY DEF Gives
<1>3. x \notin stamped /\ x \notin marked
  BY DEF AcceptsOne, AcceptsMany
<1>4. ASSUME InOwnedScope(x), PermissionPasses({c})' PROVE AcceptsOne(c, x)'
  <2>1. InOwnedScope(x)'
    BY <1>2, <1>4, RootsKept DEF InOwnedScope
  <2>2. Applies(DataScope({c}, TableOf[x], c), x)'
    BY <2>1 DEF Applies, DataScope, InOwnedScope
  <2> QED BY <1>2, <1>3, <1>4, <2>1, <2>2 DEF AcceptsOne, AcceptsMany, OwnerScopePasses
<1>5. CASE HasPermission(c)
  <2>1. HasPermission(c)'
    BY <1>5, PermissionKept
  <2>2. PermissionPasses({c})' /\ VerbFromExplicit({c})'
    BY <2>1 DEF PermissionPasses, VerbFromExplicit, Explicit, Implied
  <2>3. CASE x \in AccessibleRecords(TableOf[x], c)
    <3>1. x \in AccessibleRecords(TableOf[x], c)'
      BY <2>3, AccessibleKept
    <3>2. Applies(DataScope({c}, TableOf[x], c), x)'
      BY <3>1, <2>2 DEF Applies, DataScope
    <3> QED BY <1>2, <1>3, <2>2, <3>2 DEF AcceptsOne, AcceptsMany, OwnerScopePasses
  <2>4. CASE x \notin AccessibleRecords(TableOf[x], c)
    <3>1. InOwnedScope(x)
      BY <1>3, <2>4 DEF AcceptsOne, AcceptsMany, Applies, DataScope, InOwnedScope
    <3> QED BY <3>1, <2>2, <1>4
  <2> QED BY <2>3, <2>4
<1>6. CASE ~HasPermission(c)
  <2>1. ~VerbFromExplicit({c})
    BY <1>6 DEF VerbFromExplicit, Explicit
  <2>2. InOwnedScope(x)
    BY <2>1 DEF AcceptsOne, OwnerScopePasses
  <2>3. c \in ImpliedVerbs
    BY <1>6 DEF AcceptsOne, AcceptsMany, PermissionPasses, Explicit, Implied
  <2>4. RoleIds \subseteq RoleIds' /\ owned \subseteq owned'
    BY DEF Gives, RoleIds
  <2>5. OwnerScope \subseteq OwnerScope'
    BY <2>4 DEF OwnerScope
  <2>6. c \in ImpliedVerbs'
    BY <2>3, <2>5 DEF ImpliedVerbs, ResourceTable
  <2>7. PermissionPasses({c})'
    BY <2>6 DEF PermissionPasses, Explicit, Implied
  <2> QED BY <2>2, <2>7, <1>4
<1> QED BY <1>5, <1>6

\* Becoming an owner, getting a role, a code or a rule never costs a user a record he could act on
\* (permission.guard.ts 61-64, data-access.interceptor.ts 44-52).
THEOREM GrantsOnlyAddAlways == ScopeSpec => GrantsOnlyAdd
<1>1. [ScopeNext]_scopeVars =>
         [Gives => \A x \in RowsOf("report"), c \in ReportCodes :
             AcceptsOne(c, x) => AcceptsOne(c, x)']_scopeVars
  BY GivesKeeps
<1> QED BY <1>1, PTL DEF ScopeSpec, GrantsOnlyAdd

(***************************************************************************)
(* Copies of rights: the invariant                                         *)
(***************************************************************************)
\* Somebody is sure to drop the copy; the copy contradicts the database.
Doomed(u, k) == (\E t \in inv : TaskCovers(t, u, k)) \/ (\E a \in Admins : AdminCovers(a, u, k))
Stale(u, k)  == cache[u][k] \notin {"none", Truth(u, k)}

RightsTyped ==
    /\ members \subseteq Users /\ role \in {"none", "live", "deleted"} /\ granted \in BOOLEAN
    /\ admin \in [Admins -> Request] /\ inv \subseteq Task
    /\ DOMAIN cache = Users /\ \A u \in Users : DOMAIN cache[u] = Kinds
\* An invalidation of the role concerns all keys of its users, or the two owner keys.
TasksWhole == \A t \in inv : t.step = "members" => t.kinds \in {Kinds, OwnerKinds}
\* Only a payload with permissions deletes the old ones.
DeletesOwn == \A a \in Admins : admin[a].permRow => admin[a].role
\* Before the role exists nobody holds it or works on it.
NotYet == role = "none" => members = {} /\ \A a \in Admins : admin[a].pc = "idle"

CopiesInv == RightsTyped /\ TasksWhole /\ DeletesOwn /\ NotYet /\ StaleIsDoomed

LEMMA StaleReading == StaleIsDoomed <=> (slips = {} => \A u \in Users, k \in Kinds : Stale(u, k) => Doomed(u, k))
BY DEF StaleIsDoomed, Stale, Doomed

\* The requests a step leaves alone may lose found rows, and nothing else.
LEMMA RequestMoves ==
    ASSUME RightsTyped, DeletesOwn, NEW a \in Admins, NEW rec \in Request, rec.permRow => rec.role,
           NEW S, NEW p, Go(a, rec) \/ GoInserting(a, rec, S, p)
    PROVE  /\ admin' \in [Admins -> Request] /\ DeletesOwn' /\ admin'[a] = rec
           /\ \A b \in Admins \ {a} : /\ admin'[b].pc = admin[b].pc /\ admin'[b].users = admin[b].users
                                      /\ admin'[b].role = admin[b].role
<1>0. admin \in [Admins -> Request]
  BY DEF RightsTyped
<1>1. CASE Go(a, rec)
  <2>1. admin' \in [Admins -> Request] /\ admin'[a] = rec /\ \A b \in Admins \ {a} : admin'[b] = admin[b]
    BY <1>0, <1>1 DEF Go
  <2> QED BY <2>1 DEF DeletesOwn
<1>2. CASE GoInserting(a, rec, S, p)
  <2>1. admin'[a] = rec
    BY <1>2 DEF GoInserting
  <2>2. ASSUME NEW b \in Admins \ {a}
        PROVE  /\ admin'[b] \in Request /\ admin'[b].pc = admin[b].pc /\ admin'[b].users = admin[b].users
               /\ admin'[b].role = admin[b].role /\ (admin'[b].permRow => admin[b].permRow)
    <3>1. admin[b] \in Request
      BY <1>0
    <3> DEFINE keeps == admin[b].permRow /\ ~p
               left  == admin[b].userRows \ S
    <3>2. keeps \in BOOLEAN /\ (keeps => admin[b].permRow)
      OBVIOUS
    <3>3. left \in SUBSET Users
      BY <3>1 DEF Request
    <3>4. admin'[b] = [admin[b] EXCEPT !.userRows = left, !.permRow = keeps]
      BY <1>2 DEF GoInserting
    <3> HIDE DEF keeps, left
    <3>5. PICK r \in Request : r = admin[b]
      BY <3>1
    <3>6. admin'[b] = [r EXCEPT !.userRows = left, !.permRow = keeps]
      BY <3>4, <3>5
    <3>7. /\ admin'[b] \in Request /\ admin'[b].pc = r.pc /\ admin'[b].users = r.users
          /\ admin'[b].role = r.role /\ admin'[b].permRow = keeps
      BY <3>2, <3>3, <3>6 DEF Request
    <3> QED BY <3>2, <3>5, <3>7
  <2>3. DOMAIN admin' = Admins /\ admin' = [b \in Admins |-> admin'[b]]
    BY <1>2 DEF GoInserting
  <2>4. admin' \in [Admins -> Request]
    BY <2>1, <2>2, <2>3
  <2>5. DeletesOwn'
    BY <2>1, <2>2 DEF DeletesOwn
  <2> QED BY <2>1, <2>2, <2>4, <2>5
<1> QED BY <1>1, <1>2

\* What a step of one request has to show: the copies it was to drop, those of users who lose the
\* role and those of users whose rights change are doomed afterwards, unless it slipped.
LEMMA AdminKeeps ==
    ASSUME CopiesInv, NEW a \in Admins, NEW rec \in Request, rec.permRow => rec.role,
           NEW S, NEW p, Go(a, rec) \/ GoInserting(a, rec, S, p),
           cache' = cache, inv \subseteq inv', inv' \subseteq Task, TasksWhole',
           members' \subseteq Users, role' \in {"live", "deleted"}, granted' \in BOOLEAN, slips \subseteq slips',
           slips' = {} => /\ \A u \in Users, k \in Kinds : AdminCovers(a, u, k) => Doomed(u, k)'
                          /\ \A u \in members \ members', k \in Kinds : Doomed(u, k)'
                          /\ \A u \in Users, k \in Kinds : Truth(u, k)' # Truth(u, k) => Doomed(u, k)'
    PROVE  CopiesInv'
<1>1. /\ admin' \in [Admins -> Request] /\ DeletesOwn' /\ admin'[a] = rec
      /\ \A b \in Admins \ {a} : /\ admin'[b].pc = admin[b].pc /\ admin'[b].users = admin[b].users
                                 /\ admin'[b].role = admin[b].role
  BY RequestMoves DEF CopiesInv
<1>2. RightsTyped' /\ NotYet'
  BY <1>1 DEF CopiesInv, RightsTyped, NotYet
<1>3. ASSUME slips' = {}, NEW u \in Users, NEW k \in Kinds, Stale(u, k)' PROVE Doomed(u, k)'
  <2>1. CASE Truth(u, k)' # Truth(u, k)
    BY <2>1, <1>3
  <2>2. CASE Truth(u, k)' = Truth(u, k)
    <3>1. Stale(u, k) /\ slips = {}
      BY <2>2, <1>3 DEF Stale
    <3>2. Doomed(u, k)
      BY <3>1, StaleReading DEF CopiesInv
    <3>3. CASE u \in members /\ u \notin members'
      BY <3>3, <1>3
    <3>4. CASE u \in members => u \in members'
      <4>1. ASSUME NEW t \in inv, TaskCovers(t, u, k) PROVE Doomed(u, k)'
        BY <4>1, <3>4 DEF Doomed, TaskCovers
      <4>2. ASSUME NEW b \in Admins \ {a}, AdminCovers(b, u, k) PROVE Doomed(u, k)'
        <5>1. AdminCovers(b, u, k)'
          BY <4>2, <3>4, <1>1 DEF AdminCovers
        <5> QED BY <5>1 DEF Doomed
      <4>3. ASSUME AdminCovers(a, u, k) PROVE Doomed(u, k)'
        BY <4>3, <1>3
      <4> QED BY <3>2, <4>1, <4>2, <4>3 DEF Doomed
    <3> QED BY <3>3, <3>4
  <2> QED BY <2>1, <2>2
<1>4. StaleIsDoomed'
  BY <1>3 DEF StaleIsDoomed, Stale, Doomed
<1> QED BY <1>1, <1>2, <1>4 DEF CopiesInv

\* A request that goes on and writes nothing.
LEMMA QuietKeeps ==
    ASSUME CopiesInv, NEW a \in Admins, NEW rec \in Request, rec.permRow => rec.role, Go(a, rec),
           UNCHANGED <<rows, cache, inv, slips>>, role # "none",
           admin[a].pc \notin {"disown", "own", "announce"}
    PROVE  CopiesInv'
<1>1. \A u \in Users, k \in Kinds : ~AdminCovers(a, u, k)
  BY DEF AdminCovers
<1>2. \A u \in Users, k \in Kinds : Truth(u, k)' = Truth(u, k)
  BY DEF Truth, rows
<1>3. TasksWhole' /\ inv' \subseteq Task /\ granted' \in BOOLEAN /\ members' = members /\ role' = role /\ members \subseteq Users
      /\ role \in {"live", "deleted"}
  BY DEF CopiesInv, RightsTyped, TasksWhole, rows
<1> QED BY <1>1, <1>2, <1>3, AdminKeeps

(***************************************************************************)
(* Copies of rights: the role endpoints                                    *)
(***************************************************************************)
LEMMA NoRequestTyped == NoRequest \in Request /\ ~NoRequest.permRow
BY DEF NoRequest, Request

\* The request that works has found the role.
LEMMA RoleThere ==
    ASSUME CopiesInv, NEW a \in Admins, admin[a].pc # "idle" PROVE role \in {"live", "deleted"} /\ admin[a] \in Request
BY DEF CopiesInv, NotYet, RightsTyped

\* Requests that read, or delete rows nobody else sees deleted yet.
LEMMA ReadersKeep ==
    ASSUME CopiesInv, NEW a \in Admins,
           \/ \E u \in Users : AssignRead(a, u) \/ UserUnlinked(a, u)
           \/ StatusRead(a) \/ DeleteRead(a) \/ UpdateRead(a) \/ MatrixRead(a)
    PROVE  CopiesInv'
<1>0. admin[a].pc = "idle" /\ role = "live" /\ UNCHANGED <<rows, cache, inv, slips>>
  BY DEF AssignRead, UserUnlinked, StatusRead, DeleteRead, UpdateRead, MatrixRead, OnRole, Calling, AdminAt
<1>1. ASSUME NEW rec \in Request, ~rec.permRow, Go(a, rec) PROVE CopiesInv'
  BY <1>0, <1>1, QuietKeeps
<1>2. CASE \E u \in Users : AssignRead(a, u) \/ UserUnlinked(a, u)
  <2>1. PICK u \in Users : AssignRead(a, u) \/ UserUnlinked(a, u)
    BY <1>2
  <2>2. PICK pc \in {"insert", "relink"} : Go(a, [NoRequest EXCEPT !.pc = pc, !.users = {u}])
    BY <2>1 DEF AssignRead, UserUnlinked
  <2>3. [NoRequest EXCEPT !.pc = pc, !.users = {u}] \in Request /\ ~[NoRequest EXCEPT !.pc = pc, !.users = {u}].permRow
    BY DEF NoRequest, Request
  <2> QED BY <2>2, <2>3, <1>1
<1>3. CASE StatusRead(a)
  <2>1. PICK owns \in BOOLEAN : owns = ~active
    OBVIOUS
  <2>2. Go(a, [NoRequest EXCEPT !.pc = "status", !.owns = owns])
    BY <1>3, <2>1 DEF StatusRead
  <2>3. /\ [NoRequest EXCEPT !.pc = "status", !.owns = owns] \in Request
        /\ ~[NoRequest EXCEPT !.pc = "status", !.owns = owns].permRow
    BY DEF NoRequest, Request
  <2> QED BY <2>2, <2>3, <1>1
<1>4. CASE DeleteRead(a)
  <2>1. [NoRequest EXCEPT !.pc = "delete"] \in Request /\ ~[NoRequest EXCEPT !.pc = "delete"].permRow
    BY DEF NoRequest, Request
  <2> QED BY <2>1, <1>1, <1>4 DEF DeleteRead
<1>5. CASE MatrixRead(a)
  <2>1. /\ [NoRequest EXCEPT !.pc = "perms", !.role = TRUE] \in Request
        /\ ~[NoRequest EXCEPT !.pc = "perms", !.role = TRUE].permRow
    BY DEF NoRequest, Request
  <2> QED BY <2>1, <1>1, <1>5 DEF MatrixRead
<1>6. CASE UpdateRead(a)
  <2>1. PICK replaces \in BOOLEAN, perms \in BOOLEAN :
          Go(a, [NoRequest EXCEPT !.pc = IF perms THEN "perms" ELSE "users",
                                  !.replaces = replaces, !.role = perms, !.form = TRUE,
                                  !.users = IF replaces THEN members ELSE {}])
    BY <1>6 DEF UpdateRead
  <2>2. PICK found \in SUBSET Users : found = IF replaces THEN members ELSE {}
    BY DEF CopiesInv, RightsTyped
  <2>3. PICK rec : rec = [NoRequest EXCEPT !.pc = IF perms THEN "perms" ELSE "users",
                                  !.replaces = replaces, !.role = perms, !.form = TRUE, !.users = found]
    OBVIOUS
  <2>4. rec \in Request /\ ~rec.permRow
    BY <2>3 DEF NoRequest, Request
  <2> QED BY <2>1, <2>2, <2>3, <2>4, <1>1
<1> QED BY <1>2, <1>3, <1>4, <1>5, <1>6

LEMMA GoingOnKeeps ==
    ASSUME CopiesInv, NEW a \in Admins,
           SyncGrant(a) \/ SyncLinks(a) \/ UpdatePerms(a) \/ UpdateUsers(a) \/ UpdateConflict(a)
    PROVE  CopiesInv'
<1>0. admin[a].pc \in {"grant", "links", "perms", "users", "commit"} /\ UNCHANGED <<rows, cache, inv, slips>>
  BY DEF SyncGrant, SyncLinks, UpdatePerms, UpdateUsers, UpdateConflict, AdminAt
<1>1. role \in {"live", "deleted"} /\ admin[a] \in Request
  BY <1>0, RoleThere
<1>2. ASSUME NEW rec \in Request, rec.permRow => rec.role, Go(a, rec) PROVE CopiesInv'
  BY <1>0, <1>1, <1>2, QuietKeeps
<1>3. admin[a].permRow => admin[a].role
  BY DEF CopiesInv, DeletesOwn
<1>4. PICK old \in Request : old = admin[a]
  BY <1>1
<1>5. CASE SyncGrant(a)
  <2>1. PICK pc \in {"links", "add"} : Go(a, [old EXCEPT !.pc = pc])
    BY <1>4, <1>5 DEF SyncGrant
  <2>2. [old EXCEPT !.pc = pc] \in Request /\ ([old EXCEPT !.pc = pc].permRow => [old EXCEPT !.pc = pc].role)
    BY <1>3, <1>4 DEF Request
  <2> QED BY <2>1, <2>2, <1>2
<1>6. CASE SyncLinks(a)
  <2>1. PICK missing \in SUBSET Users : missing = old.users \ members
    BY DEF Request
  <2>2. Go(a, IF missing = {} THEN NoRequest ELSE [NoRequest EXCEPT !.pc = "insert", !.users = missing])
    BY <1>4, <1>6, <2>1 DEF SyncLinks
  <2>3. /\ [NoRequest EXCEPT !.pc = "insert", !.users = missing] \in Request
        /\ ~[NoRequest EXCEPT !.pc = "insert", !.users = missing].permRow
    BY DEF NoRequest, Request
  <2> QED BY <2>2, <2>3, <1>2, NoRequestTyped
<1>7. CASE UpdatePerms(a)
  <2>1. PICK found \in BOOLEAN : found = (old.role /\ granted)
    OBVIOUS
  <2>2. Go(a, [old EXCEPT !.pc = "users", !.permRow = found])
    BY <1>4, <1>7, <2>1 DEF UpdatePerms
  <2>3. PICK rec : rec = [old EXCEPT !.pc = "users", !.permRow = found]
    OBVIOUS
  <2>4. rec \in Request /\ rec.permRow = found /\ rec.role = old.role
    BY <2>3 DEF Request
  <2> QED BY <2>1, <2>2, <2>3, <2>4, <1>2
<1>8. CASE UpdateUsers(a)
  <2>1. PICK found \in SUBSET Users : found = IF old.replaces THEN members ELSE {}
    BY DEF CopiesInv, RightsTyped
  <2>2. Go(a, [old EXCEPT !.pc = "commit", !.userRows = found])
    BY <1>4, <1>8, <2>1 DEF UpdateUsers
  <2>3. PICK rec : rec = [old EXCEPT !.pc = "commit", !.userRows = found]
    OBVIOUS
  <2>4. rec \in Request /\ rec.permRow = old.permRow /\ rec.role = old.role
    BY <2>3 DEF Request
  <2> QED BY <2>2, <2>3, <2>4, <1>2, <1>3, <1>4
<1>9. CASE UpdateConflict(a)
  BY <1>9, <1>2, NoRequestTyped DEF UpdateConflict
<1> QED BY <1>5, <1>6, <1>7, <1>8, <1>9

\* What an announcing request covers.
LEMMA Announces ==
    ASSUME NEW a \in Admins, NEW rec \in Request, admin'[a] = rec, rec.pc \in {"disown", "announce"}, NEW k \in Kinds
    PROVE  /\ \A u \in rec.users : Doomed(u, k)'
           /\ rec.role => \A u \in members' : Doomed(u, k)'
BY DEF Doomed, AdminCovers

\* The role's row appears: nobody can hold it yet.
LEMMA NewRoleKeeps ==
    ASSUME CopiesInv, NEW a \in Admins, CreateRole(a) \/ CloneRole(a) \/ SyncFind(a) PROVE CopiesInv'
<1>0. /\ admin[a].pc = "idle" /\ role' = "live" /\ UNCHANGED <<members, active, granted, owner, cache, inv, slips>>
      /\ role = "live" \/ members = {}
  <2>0. (role = "none" => members = {}) /\ role \in {"none", "live", "deleted"}
    BY DEF CopiesInv, RightsTyped, NotYet
  <2>1. CASE CreateRole(a)
    BY <2>0, <2>1 DEF CreateRole, Calling, AdminAt
  <2>2. CASE CloneRole(a)
    BY <2>0, <2>2 DEF CloneRole, Calling, AdminAt
  <2>3. CASE SyncFind(a)
    BY <2>0, <2>3 DEF SyncFind, Calling, AdminAt
  <2> QED BY <2>1, <2>2, <2>3
<1>1. \A u \in Users, k \in Kinds : ~AdminCovers(a, u, k) /\ Truth(u, k)' = Truth(u, k)
  BY <1>0 DEF AdminCovers, Truth
<1>2. TasksWhole' /\ inv' \subseteq Task /\ granted' \in BOOLEAN /\ members' \subseteq Users
  BY <1>0 DEF CopiesInv, RightsTyped, TasksWhole
<1>3. ASSUME NEW rec \in Request, ~rec.permRow, Go(a, rec) PROVE CopiesInv'
  BY <1>0, <1>1, <1>2, <1>3, AdminKeeps
<1>4. CASE CreateRole(a)
  <2>1. PICK pc \in {"disown", "idle"} : Go(a, [NoRequest EXCEPT !.pc = pc])
    BY <1>4 DEF CreateRole
  <2>2. [NoRequest EXCEPT !.pc = pc] \in Request /\ ~[NoRequest EXCEPT !.pc = pc].permRow
    BY DEF NoRequest, Request
  <2> QED BY <2>1, <2>2, <1>3
<1>5. CASE CloneRole(a)
  <2>1. [NoRequest EXCEPT !.pc = "copy"] \in Request /\ ~[NoRequest EXCEPT !.pc = "copy"].permRow
    BY DEF NoRequest, Request
  <2> QED BY <2>1, <1>3, <1>5 DEF CloneRole
<1>6. CASE SyncFind(a)
  <2>1. PICK S \in SUBSET Users : Go(a, [NoRequest EXCEPT !.pc = "grant", !.users = S, !.fresh = role = "none"])
    BY <1>6 DEF SyncFind
  <2>2. PICK fresh \in BOOLEAN : fresh = (role = "none")
    OBVIOUS
  <2>3. PICK rec : rec = [NoRequest EXCEPT !.pc = "grant", !.users = S, !.fresh = fresh]
    OBVIOUS
  <2>4. rec \in Request /\ ~rec.permRow
    BY <2>3 DEF NoRequest, Request
  <2> QED BY <2>1, <2>2, <2>3, <2>4, <1>3
<1> QED BY <1>4, <1>5, <1>6

LEMMA CloneCopyKeeps == ASSUME CopiesInv, NEW a \in Admins, CloneCopy(a) PROVE CopiesInv'
<1>0. /\ admin[a].pc = "copy" /\ granted' = TRUE /\ UNCHANGED <<members, role, active, owner, cache, inv>>
      /\ slips' = (IF granted \/ members = {} THEN slips ELSE slips \cup {"newborn"})
  BY DEF CloneCopy, AdminAt
<1>1. role \in {"live", "deleted"}
  BY <1>0, RoleThere
<1>2. TasksWhole' /\ inv' \subseteq Task /\ granted' \in BOOLEAN /\ members' \subseteq Users
  BY <1>0 DEF CopiesInv, RightsTyped, TasksWhole
<1>3. PICK p : p = ~granted
  OBVIOUS
<1>4. GoInserting(a, NoRequest, {}, p)
  BY <1>3 DEF CloneCopy
<1>5. slips \subseteq slips'
  BY <1>0
<1>6. slips' = {} => \A u \in Users, k \in Kinds : Truth(u, k)' = Truth(u, k)
  BY <1>0 DEF Truth
<1>7. \A u \in Users, k \in Kinds : ~AdminCovers(a, u, k)
  BY <1>0 DEF AdminCovers
<1> QED BY <1>0, <1>1, <1>2, <1>4, <1>5, <1>6, <1>7, NoRequestTyped, AdminKeeps

LEMMA SyncAddKeeps == ASSUME CopiesInv, NEW a \in Admins, SyncAdd(a) PROVE CopiesInv'
<1>0. /\ admin[a].pc = "add" /\ granted' = TRUE /\ UNCHANGED <<members, role, active, owner, cache>>
      /\ inv' = (IF admin[a].fresh THEN inv ELSE inv \cup {RoleTask(Kinds)})
      /\ slips' = (IF admin[a].fresh /\ ~granted /\ members # {} THEN slips \cup {"newborn"} ELSE slips)
  BY DEF SyncAdd, AdminAt
<1>1. role \in {"live", "deleted"} /\ admin[a] \in Request
  BY <1>0, RoleThere
<1>2. TasksWhole' /\ inv' \subseteq Task /\ granted' \in BOOLEAN /\ members' \subseteq Users /\ inv \subseteq inv'
  BY <1>0 DEF CopiesInv, RightsTyped, TasksWhole, RoleTask, Task
<1>3. PICK p : p = ~granted
  OBVIOUS
<1>4. PICK rec : rec = [admin[a] EXCEPT !.pc = "links"]
  OBVIOUS
<1>5. GoInserting(a, rec, {}, p) /\ rec \in Request /\ (rec.permRow => rec.role)
  BY <1>1, <1>3, <1>4 DEF SyncAdd, Request, CopiesInv, DeletesOwn
<1>6. slips \subseteq slips'
  BY <1>0
<1>7. ASSUME slips' = {}, NEW u \in Users, NEW k \in Kinds, Truth(u, k)' # Truth(u, k) PROVE Doomed(u, k)'
  <2>1. u \in members /\ ~granted /\ ~admin[a].fresh
    BY <1>0, <1>7 DEF Truth
  <2>2. RoleTask(Kinds) \in inv' /\ TaskCovers(RoleTask(Kinds), u, k)'
    BY <1>0, <2>1 DEF TaskCovers, RoleTask
  <2> QED BY <2>2 DEF Doomed
<1>8. \A u \in Users, k \in Kinds : ~AdminCovers(a, u, k)
  BY <1>0 DEF AdminCovers
<1> QED BY <1>0, <1>1, <1>2, <1>5, <1>6, <1>7, <1>8, AdminKeeps

LEMMA AssignInsertKeeps == ASSUME CopiesInv, NEW a \in Admins, AssignInsert(a) PROVE CopiesInv'
<1>0. /\ admin[a].pc = "insert" /\ members' = members \cup admin[a].users
      /\ UNCHANGED <<role, active, granted, owner, cache, inv, slips>>
  BY DEF AssignInsert, AdminAt
<1>1. role \in {"live", "deleted"} /\ admin[a] \in Request
  BY <1>0, RoleThere
<1>2. PICK old \in Request : old = admin[a]
  BY <1>1
<1>3. TasksWhole' /\ inv' \subseteq Task /\ granted' \in BOOLEAN /\ members' \subseteq Users
  BY <1>0, <1>1 DEF CopiesInv, RightsTyped, TasksWhole, Request
<1>4. PICK rec : rec = [old EXCEPT !.pc = "announce"]
  OBVIOUS
<1>5. /\ rec \in Request /\ (rec.permRow => rec.role) /\ GoInserting(a, rec, old.users, FALSE)
      /\ rec.pc = "announce" /\ rec.users = old.users
  BY <1>2, <1>4 DEF AssignInsert, Request, CopiesInv, DeletesOwn
<1>6. admin'[a] = rec
  BY <1>5, RequestMoves DEF CopiesInv
<1>7. ASSUME NEW u \in Users, NEW k \in Kinds, Truth(u, k)' # Truth(u, k) PROVE Doomed(u, k)'
  <2>1. u \in old.users
    BY <1>0, <1>2, <1>7 DEF Truth
  <2> QED BY <2>1, <1>5, <1>6, Announces
<1>8. \A u \in Users, k \in Kinds : ~AdminCovers(a, u, k)
  BY <1>0 DEF AdminCovers
<1> QED BY <1>0, <1>1, <1>3, <1>5, <1>7, <1>8, AdminKeeps

LEMMA RemoveDeleteKeeps ==
    ASSUME CopiesInv, NEW a \in Admins, NEW x \in Users, RemoveDelete(a, x) PROVE CopiesInv'
<1>0. /\ admin[a].pc = "idle" /\ role = "live" /\ members' = members \ {x}
      /\ UNCHANGED <<role, active, granted, owner, cache, inv, slips>>
  BY DEF RemoveDelete, OnRole, Calling, AdminAt
<1>1. TasksWhole' /\ inv' \subseteq Task /\ granted' \in BOOLEAN /\ members' \subseteq Users
  BY <1>0 DEF CopiesInv, RightsTyped, TasksWhole
<1>2. PICK rec : rec = [NoRequest EXCEPT !.pc = "announce", !.users = {x}]
  OBVIOUS
<1>3. rec \in Request /\ ~rec.permRow /\ Go(a, rec) /\ rec.pc = "announce" /\ rec.users = {x}
  BY <1>2 DEF RemoveDelete, Request, NoRequest
<1>4. admin'[a] = rec
  BY <1>3, RequestMoves DEF CopiesInv
<1>5. \A k \in Kinds : Doomed(x, k)'
  BY <1>3, <1>4, Announces
<1>6. ASSUME NEW u \in Users, NEW k \in Kinds, Truth(u, k)' # Truth(u, k) PROVE Doomed(u, k)'
  <2>1. u = x
    BY <1>0, <1>6 DEF Truth
  <2> QED BY <2>1, <1>5
<1>7. \A u \in members \ members', k \in Kinds : Doomed(u, k)'
  BY <1>0, <1>5
<1>8. \A u \in Users, k \in Kinds : ~AdminCovers(a, u, k)
  BY <1>0 DEF AdminCovers
<1> QED BY <1>0, <1>1, <1>3, <1>6, <1>7, <1>8, AdminKeeps

\* The role's row: whoever holds it is announced.
LEMMA RoleRowKeeps == ASSUME CopiesInv, NEW a \in Admins, SetStatus(a) \/ DeleteRole(a) PROVE CopiesInv'
<1>0. /\ admin[a].pc \in {"status", "delete"} /\ role' \in {role, "deleted"}
      /\ UNCHANGED <<members, granted, owner, cache, inv, slips>>
  BY DEF SetStatus, DeleteRole, AdminAt
<1>1. role \in {"live", "deleted"}
  BY <1>0, RoleThere
<1>2. TasksWhole' /\ inv' \subseteq Task /\ granted' \in BOOLEAN /\ members' \subseteq Users
  BY <1>0 DEF CopiesInv, RightsTyped, TasksWhole
<1>3. PICK rec : rec = [NoRequest EXCEPT !.pc = "announce", !.role = TRUE]
  OBVIOUS
<1>4. rec \in Request /\ ~rec.permRow /\ Go(a, rec) /\ rec.pc = "announce" /\ rec.role
  BY <1>3 DEF SetStatus, DeleteRole, Request, NoRequest
<1>5. admin'[a] = rec
  BY <1>4, RequestMoves DEF CopiesInv
<1>6. ASSUME NEW u \in Users, NEW k \in Kinds, Truth(u, k)' # Truth(u, k) PROVE Doomed(u, k)'
  <2>1. u \in members'
    BY <1>0, <1>6 DEF Truth
  <2> QED BY <2>1, <1>4, <1>5, Announces
<1>7. \A u \in Users, k \in Kinds : ~AdminCovers(a, u, k)
  BY <1>0 DEF AdminCovers
<1> QED BY <1>0, <1>1, <1>2, <1>4, <1>6, <1>7, AdminKeeps

\* The users' forms announce nothing: who loses or gets the role by them has slipped.
LEMMA UserUnlinkKeeps ==
    ASSUME CopiesInv, NEW a \in Admins, NEW x \in Users, UserUnlink(a, x) PROVE CopiesInv'
<1>0. /\ admin[a].pc = "idle" /\ role = "live" /\ members' = members \ {x}
      /\ slips' = (IF x \in members THEN slips \cup {"unannounced"} ELSE slips)
      /\ UNCHANGED <<role, active, granted, owner, cache, inv>>
  BY DEF UserUnlink, OnRole, Calling, AdminAt
<1>1. TasksWhole' /\ inv' \subseteq Task /\ granted' \in BOOLEAN /\ members' \subseteq Users
  BY <1>0 DEF CopiesInv, RightsTyped, TasksWhole
<1>2. PICK again \in BOOLEAN :
          Go(a, IF again THEN [NoRequest EXCEPT !.pc = "relink", !.users = {x}] ELSE NoRequest)
  BY DEF UserUnlink
<1>3. PICK rec : rec = IF again THEN [NoRequest EXCEPT !.pc = "relink", !.users = {x}] ELSE NoRequest
  OBVIOUS
<1>4. rec \in Request /\ ~rec.permRow /\ Go(a, rec)
  BY <1>2, <1>3 DEF Request, NoRequest
<1>5. slips \subseteq slips' /\ (slips' = {} => members' = members)
  BY <1>0
<1>6. slips' = {} => \A u \in Users, k \in Kinds : Truth(u, k)' = Truth(u, k)
  BY <1>0, <1>5 DEF Truth
<1>7. \A u \in Users, k \in Kinds : ~AdminCovers(a, u, k)
  BY <1>0 DEF AdminCovers
<1> QED BY <1>0, <1>1, <1>4, <1>5, <1>6, <1>7, AdminKeeps

LEMMA UserRelinkKeeps == ASSUME CopiesInv, NEW a \in Admins, UserRelink(a) PROVE CopiesInv'
<1>0. admin[a].pc = "relink"
  BY DEF UserRelink, AdminAt
<1>1. role \in {"live", "deleted"} /\ admin[a] \in Request
  BY <1>0, RoleThere
<1>2. PICK S \in SUBSET Users : S = admin[a].users
  BY <1>1 DEF Request
<1>3. /\ members' = members \cup S /\ UNCHANGED <<role, active, granted, owner, cache, inv>>
      /\ slips' = (IF S \subseteq members THEN slips ELSE slips \cup {"unannounced"})
      /\ GoInserting(a, NoRequest, S, FALSE)
  BY <1>2 DEF UserRelink
<1>4. TasksWhole' /\ inv' \subseteq Task /\ granted' \in BOOLEAN /\ members' \subseteq Users
  BY <1>3 DEF CopiesInv, RightsTyped, TasksWhole
<1>5. slips \subseteq slips' /\ (slips' = {} => members' = members)
  BY <1>3
<1>6. slips' = {} => \A u \in Users, k \in Kinds : Truth(u, k)' = Truth(u, k)
  BY <1>3, <1>5 DEF Truth
<1>7. \A u \in Users, k \in Kinds : ~AdminCovers(a, u, k)
  BY <1>0 DEF AdminCovers
<1> QED BY <1>1, <1>3, <1>4, <1>5, <1>6, <1>7, NoRequestTyped, AdminKeeps

\* Its own users, those it has found and those it inserts are announced; others it deletes only
\* when it has not read them, and that is a slip.
LEMMA UpdateCommitKeeps == ASSUME CopiesInv, NEW a \in Admins, UpdateCommit(a) PROVE CopiesInv'
<1>0. admin[a].pc = "commit" /\ UNCHANGED <<role, active, owner, cache, inv>>
  BY DEF UpdateCommit, AdminAt
<1>1. role \in {"live", "deleted"} /\ admin[a] \in Request
  BY <1>0, RoleThere
<1>2. PICK old \in Request : old = admin[a]
  BY <1>1
<1>s. PICK S \in SUBSET Users, grants \in BOOLEAN, owners \in BOOLEAN :
          /\ grants => admin[a].role
          /\ members' = (members \ admin[a].userRows) \cup S
          /\ granted' = (grants \/ (granted /\ ~admin[a].permRow))
          /\ GoInserting(a, [admin[a] EXCEPT !.pc = IF owners THEN "disown" ELSE "announce",
                                             !.users = @ \cup S, !.form = FALSE,
                                             !.userRows = {}, !.permRow = FALSE], S, grants)
          /\ slips' = IF admin[a].userRows \subseteq admin[a].users \cup S THEN slips
                      ELSE slips \cup {"unseen"}
  BY Zenon DEF UpdateCommit
<1>3. /\ grants => old.role
      /\ members' = (members \ old.userRows) \cup S
      /\ granted' = (grants \/ (granted /\ ~old.permRow))
      /\ GoInserting(a, [old EXCEPT !.pc = IF owners THEN "disown" ELSE "announce",
                                    !.users = @ \cup S, !.form = FALSE,
                                    !.userRows = {}, !.permRow = FALSE], S, grants)
      /\ slips' = IF old.userRows \subseteq old.users \cup S THEN slips ELSE slips \cup {"unseen"}
  BY <1>2, <1>s
<1>4. PICK rec : rec = [old EXCEPT !.pc = IF owners THEN "disown" ELSE "announce",
                                   !.users = @ \cup S, !.form = FALSE, !.userRows = {}, !.permRow = FALSE]
  OBVIOUS
<1>5. /\ rec \in Request /\ ~rec.permRow /\ rec.pc \in {"disown", "announce"}
      /\ rec.users = old.users \cup S /\ rec.role = old.role
  BY <1>4 DEF Request
<1>6. GoInserting(a, rec, S, grants)
  BY <1>3, <1>4
<1>7. admin'[a] = rec
  BY <1>5, <1>6, RequestMoves DEF CopiesInv
<1>8. TasksWhole' /\ inv' \subseteq Task /\ granted' \in BOOLEAN /\ members' \subseteq Users
  BY <1>0, <1>3 DEF CopiesInv, RightsTyped, TasksWhole
<1>9. slips \subseteq slips' /\ (slips' = {} => old.userRows \subseteq rec.users)
  BY <1>3, <1>5
<1>10. ASSUME slips' = {}, NEW u \in Users, NEW k \in Kinds,
              Truth(u, k)' # Truth(u, k) \/ u \in members \ members'
       PROVE  Doomed(u, k)'
  <2>1. CASE u \in rec.users
    BY <2>1, <1>5, <1>7, Announces
  <2>2. CASE u \notin rec.users
    <3>1. u \in members <=> u \in members'
      BY <2>2, <1>3, <1>5, <1>9, <1>10
    <3>2. u \in members' /\ granted' # granted
      BY <3>1, <1>0, <1>10 DEF Truth
    <3>3. old.permRow => old.role
      BY <1>2 DEF CopiesInv, DeletesOwn
    <3>4. granted \in BOOLEAN /\ old.permRow \in BOOLEAN
      BY DEF CopiesInv, RightsTyped, Request
    <3>5. rec.role
      BY <3>2, <3>3, <3>4, <1>3, <1>5
    <3> QED BY <3>2, <3>5, <1>5, <1>7, Announces
  <2> QED BY <2>1, <2>2
<1>11. \A u \in members \ members' : u \in Users
  BY DEF CopiesInv, RightsTyped
<1>12. \A u \in Users, k \in Kinds : ~AdminCovers(a, u, k)
  BY <1>0 DEF AdminCovers
<1>13. cache' = cache /\ inv' = inv /\ role' \in {"live", "deleted"}
  BY <1>0, <1>1
<1> QED BY <1>5, <1>6, <1>8, <1>9, <1>10, <1>11, <1>12, <1>13, AdminKeeps

LEMMA DisownKeeps == ASSUME CopiesInv, NEW a \in Admins, Disown(a) PROVE CopiesInv'
<1>0. admin[a].pc = "disown" /\ UNCHANGED <<members, role, active, granted, cache, inv, slips>>
  BY DEF Disown, AdminAt
<1>1. role \in {"live", "deleted"} /\ admin[a] \in Request
  BY <1>0, RoleThere
<1>2. PICK owns \in BOOLEAN : Go(a, [admin[a] EXCEPT !.pc = "own", !.owns = owns])
  BY DEF Disown
<1>3. PICK rec : rec = [admin[a] EXCEPT !.pc = "own", !.owns = owns]
  OBVIOUS
<1>4. /\ rec \in Request /\ rec.pc = "own" /\ rec.users = admin[a].users /\ rec.role = admin[a].role
      /\ (rec.permRow => rec.role)
  BY <1>1, <1>3 DEF Request, CopiesInv, DeletesOwn
<1>5. Go(a, rec)
  BY <1>2, <1>3
<1>6. admin'[a] = rec
  BY <1>4, <1>5, RequestMoves DEF CopiesInv
<1>7. TasksWhole' /\ inv' \subseteq Task /\ granted' \in BOOLEAN /\ members' \subseteq Users
  BY <1>0 DEF CopiesInv, RightsTyped, TasksWhole
<1>8. ASSUME NEW u \in Users, NEW k \in Kinds, AdminCovers(a, u, k) PROVE Doomed(u, k)'
  BY <1>0, <1>4, <1>6, <1>8 DEF AdminCovers, Doomed
<1>9. ASSUME NEW u \in Users, NEW k \in Kinds, Truth(u, k)' # Truth(u, k) PROVE Doomed(u, k)'
  <2>1. u \in members' /\ k \in OwnerKinds
    BY <1>0, <1>9 DEF Truth, Kinds
  <2> QED BY <2>1, <1>4, <1>6 DEF AdminCovers, Doomed
<1> QED BY <1>0, <1>1, <1>4, <1>5, <1>7, <1>8, <1>9, AdminKeeps

\* A refusal after the transaction, or a failure, is a slip.
LEMMA SlipKeeps ==
    ASSUME CopiesInv, NEW a \in Admins, UpdateRefused(a) \/ AdminFails(a) PROVE CopiesInv'
<1>0. /\ admin[a].pc # "idle" /\ UNCHANGED <<members, role, active, granted, owner, cache, inv>>
      /\ slips \subseteq slips' /\ slips' # {} /\ Go(a, NoRequest)
  BY DEF UpdateRefused, AdminFails, AdminAt, rows
<1>1. role \in {"live", "deleted"}
  BY <1>0, RoleThere
<1>2. TasksWhole' /\ inv' \subseteq Task /\ granted' \in BOOLEAN /\ members' \subseteq Users
  BY <1>0 DEF CopiesInv, RightsTyped, TasksWhole
<1> QED BY <1>0, <1>1, <1>2, NoRequestTyped, AdminKeeps

LEMMA OwnKeeps == ASSUME CopiesInv, NEW a \in Admins, Own(a) PROVE CopiesInv'
<1>0. admin[a].pc = "own" /\ UNCHANGED <<members, role, active, granted, cache>>
  BY DEF Own, AdminAt
<1>1. role \in {"live", "deleted"} /\ admin[a] \in Request
  BY <1>0, RoleThere
<1>2. CASE admin'[a] = [admin[a] EXCEPT !.pc = "announce"] /\ inv' = inv \cup {RoleTask(OwnerKinds)}
           /\ Go(a, [admin[a] EXCEPT !.pc = "announce"]) /\ slips' = slips
  <2>1. PICK rec : rec = [admin[a] EXCEPT !.pc = "announce"]
    OBVIOUS
  <2>2. /\ rec \in Request /\ rec.pc = "announce" /\ rec.users = admin[a].users /\ rec.role = admin[a].role
        /\ (rec.permRow => rec.role) /\ Go(a, rec) /\ admin'[a] = rec
    BY <1>1, <1>2, <2>1 DEF Request, CopiesInv, DeletesOwn
  <2>3. RoleTask(OwnerKinds) \in Task /\ RoleTask(OwnerKinds) \in inv' /\ RoleTask(OwnerKinds).kinds = OwnerKinds
    BY <1>2 DEF RoleTask, Task, Kinds
  <2>4. TasksWhole' /\ inv' \subseteq Task /\ granted' \in BOOLEAN /\ members' \subseteq Users
    BY <1>0, <1>2, <2>3 DEF CopiesInv, RightsTyped, TasksWhole
  <2>5. ASSUME NEW u \in members', NEW k \in OwnerKinds PROVE Doomed(u, k)'
    <3>1. TaskCovers(RoleTask(OwnerKinds), u, k)'
      BY <2>5 DEF TaskCovers, RoleTask
    <3> QED BY <3>1, <2>3 DEF Doomed
  <2>6. ASSUME NEW u \in Users, NEW k \in Kinds, AdminCovers(a, u, k) PROVE Doomed(u, k)'
    <3>1. CASE u \in admin[a].users \/ (admin[a].role /\ u \in members)
      BY <3>1, <1>0, <2>2 DEF AdminCovers, Doomed
    <3>2. CASE u \in members /\ k \in OwnerKinds
      BY <3>2, <1>0, <2>5
    <3> QED BY <2>6, <3>1, <3>2 DEF AdminCovers
  <2>7. ASSUME NEW u \in Users, NEW k \in Kinds, Truth(u, k)' # Truth(u, k) PROVE Doomed(u, k)'
    <3>1. u \in members' /\ k \in OwnerKinds
      BY <1>0, <2>7 DEF Truth, Kinds
    <3> QED BY <3>1, <2>5
  <2> QED BY <1>0, <1>1, <1>2, <2>2, <2>4, <2>6, <2>7, AdminKeeps
<1>3. CASE Go(a, NoRequest) /\ slips' = slips \cup {"refused"} /\ UNCHANGED <<owner, inv>>
  <2>1. TasksWhole' /\ inv' \subseteq Task /\ granted' \in BOOLEAN /\ members' \subseteq Users
    BY <1>0, <1>3 DEF CopiesInv, RightsTyped, TasksWhole
  <2>2. slips \subseteq slips' /\ slips' # {}
    BY <1>3
  <2> QED BY <1>0, <1>1, <1>3, <2>1, <2>2, NoRequestTyped, AdminKeeps
<1>4. Go(a, [admin[a] EXCEPT !.pc = "announce"]) => admin'[a] = [admin[a] EXCEPT !.pc = "announce"]
  BY DEF Go, CopiesInv, RightsTyped
<1> QED BY <1>2, <1>3, <1>4 DEF Own

LEMMA UserTaskCovers ==
    ASSUME NEW u \in Users, NEW k \in Kinds, UserTasks(u) \subseteq inv'
    PROVE  Doomed(u, k)'
<1>1. PICK t : t = [user |-> u, kinds |-> Kinds, step |-> "keys", found |-> {}]
  OBVIOUS
<1>2. t \in inv' /\ TaskCovers(t, u, k)'
  BY <1>1 DEF UserTasks, TaskCovers
<1> QED BY <1>2 DEF Doomed

LEMMA AnnounceKeeps == ASSUME CopiesInv, NEW a \in Admins, Announce(a) PROVE CopiesInv'
<1>0. /\ admin[a].pc = "announce" /\ UNCHANGED <<members, role, active, granted, owner, cache, slips>>
      /\ inv' = (inv \cup (IF admin[a].role THEN {RoleTask(Kinds)} ELSE {})
                     \cup UNION {UserTasks(u) : u \in admin[a].users})
      /\ Go(a, NoRequest)
  BY DEF Announce, AdminAt, rows
<1>1. role \in {"live", "deleted"} /\ admin[a] \in Request /\ admin[a].users \subseteq Users
  BY <1>0, RoleThere DEF Request
<1>2. TasksWhole' /\ inv' \subseteq Task
  <2>1. RoleTask(Kinds) \in Task /\ RoleTask(Kinds).kinds = Kinds
    BY DEF RoleTask, Task
  <2>2. \A u \in Users : \A t \in UserTasks(u) : t \in Task /\ t.step = "keys"
    BY DEF UserTasks, Task
  <2> QED BY <1>0, <1>1, <2>1, <2>2 DEF CopiesInv, RightsTyped, TasksWhole
<1>3. granted' \in BOOLEAN /\ members' \subseteq Users /\ inv \subseteq inv'
  BY <1>0 DEF CopiesInv, RightsTyped
<1>4. \A u \in Users, k \in Kinds : Truth(u, k)' = Truth(u, k)
  BY <1>0 DEF Truth
<1>5. ASSUME NEW u \in Users, NEW k \in Kinds, AdminCovers(a, u, k) PROVE Doomed(u, k)'
  <2>1. CASE u \in admin[a].users
    <3>1. UserTasks(u) \subseteq inv'
      BY <1>0, <2>1
    <3> QED BY <3>1, UserTaskCovers
  <2>2. CASE admin[a].role /\ u \in members
    <3>1. RoleTask(Kinds) \in inv' /\ TaskCovers(RoleTask(Kinds), u, k)'
      BY <1>0, <2>2 DEF TaskCovers, RoleTask
    <3> QED BY <3>1 DEF Doomed
  <2> QED BY <1>0, <1>5, <2>1, <2>2 DEF AdminCovers
<1> QED BY <1>0, <1>1, <1>2, <1>3, <1>4, <1>5, NoRequestTyped, AdminKeeps

(***************************************************************************)
(* Copies of rights: reads and invalidations                               *)
(***************************************************************************)
LEMMA CacheKeeps ==
    ASSUME CopiesInv, UNCHANGED <<rows, admin>>, inv' \subseteq Task, TasksWhole', slips \subseteq slips',
           DOMAIN cache' = Users, \A u \in Users : DOMAIN cache'[u] = Kinds,
           slips' = {} => \A u \in Users, k \in Kinds : Stale(u, k)' => Doomed(u, k)'
    PROVE  CopiesInv'
<1>1. RightsTyped' /\ NotYet' /\ DeletesOwn'
  BY DEF CopiesInv, RightsTyped, NotYet, DeletesOwn, rows
<1>2. StaleIsDoomed'
  BY DEF StaleIsDoomed, Stale, Doomed
<1> QED BY <1>1, <1>2 DEF CopiesInv

\* Copies that disappear, and invalidations that stay.
LEMMA FewerStale ==
    ASSUME CopiesInv, UNCHANGED <<rows, admin, inv, slips>>, DOMAIN cache' = Users,
           \A u \in Users : DOMAIN cache'[u] = Kinds,
           \A u \in Users, k \in Kinds : cache'[u][k] \in {cache[u][k], "none", Truth(u, k)}
    PROVE  CopiesInv'
<1>1. ASSUME slips = {}, NEW u \in Users, NEW k \in Kinds, Stale(u, k)' PROVE Doomed(u, k)'
  <2>1. Truth(u, k)' = Truth(u, k)
    BY DEF Truth, rows
  <2>2. Stale(u, k)
    BY <1>1, <2>1 DEF Stale
  <2>3. Doomed(u, k)
    BY <1>1, <2>2, StaleReading DEF CopiesInv
  <2> QED BY <2>3 DEF Doomed, TaskCovers, AdminCovers, rows
<1>2. inv' \subseteq Task /\ TasksWhole' /\ slips \subseteq slips'
  BY DEF CopiesInv, RightsTyped, TasksWhole
<1> QED BY <1>1, <1>2, CacheKeeps

LEMMA ReadSetKeeps == ASSUME CopiesInv, NEW r \in Readers, ReadSet(r) PROVE CopiesInv'
<1>0. PICK u, k, val : u = reader[r].user /\ k = reader[r].kind /\ val = reader[r].val
  OBVIOUS
<1>1. /\ cache' = [cache EXCEPT ![u][k] = val] /\ UNCHANGED <<rows, admin, inv>>
      /\ slips' = (IF val # Truth(u, k) THEN slips \cup {"overtaken"} ELSE slips)
  BY <1>0 DEF ReadSet
<1>2. DOMAIN cache = Users /\ \A x \in Users : DOMAIN cache[x] = Kinds
  BY DEF CopiesInv, RightsTyped
<1>3. DOMAIN cache' = Users /\ \A x \in Users : DOMAIN cache'[x] = Kinds
  BY <1>1, <1>2
<1>4. \A x \in Users, l \in Kinds : cache'[x][l] = cache[x][l] \/ (x = u /\ l = k /\ cache'[x][l] = val)
  BY <1>1, <1>2
<1>5. CASE val = Truth(u, k)
  <2>1. slips' = slips /\ \A x \in Users, l \in Kinds : cache'[x][l] \in {cache[x][l], "none", Truth(x, l)}
    BY <1>1, <1>4, <1>5
  <2> QED BY <2>1, <1>1, <1>3, FewerStale
<1>6. CASE val # Truth(u, k)
  <2>1. slips \subseteq slips' /\ slips' # {} /\ inv' \subseteq Task /\ TasksWhole'
    BY <1>1, <1>6 DEF CopiesInv, RightsTyped, TasksWhole
  <2> QED BY <2>1, <1>1, <1>3, CacheKeeps
<1> QED BY <1>5, <1>6

LEMMA CopiesStutter == ASSUME CopiesInv, UNCHANGED <<rows, cache, admin, inv, slips>> PROVE CopiesInv'
<1>1. DOMAIN cache' = Users /\ \A x \in Users : DOMAIN cache'[x] = Kinds
  BY DEF CopiesInv, RightsTyped
<1> QED BY <1>1, FewerStale

LEMMA ReadStepKeeps == ASSUME CopiesInv, NEW r \in Readers, ReadStep(r) PROVE CopiesInv'
BY ReadSetKeeps, CopiesStutter DEF ReadStep, ReadScope, ReadQuery, ReadSetFails

LEMMA ExpireKeeps ==
    ASSUME CopiesInv, NEW u \in Users, NEW k \in Kinds, Expire(u, k) PROVE CopiesInv'
<1>1. cache' = [cache EXCEPT ![u][k] = "none"] /\ UNCHANGED <<rows, admin, inv, slips>>
  BY DEF Expire
<1>2. DOMAIN cache = Users /\ \A x \in Users : DOMAIN cache[x] = Kinds
  BY DEF CopiesInv, RightsTyped
<1>3. DOMAIN cache' = Users /\ \A x \in Users : DOMAIN cache'[x] = Kinds
  BY <1>1, <1>2
<1>4. \A x \in Users, l \in Kinds : cache'[x][l] \in {cache[x][l], "none", Truth(x, l)}
  BY <1>1, <1>2
<1> QED BY <1>1, <1>3, <1>4, FewerStale

\* A step of one invalidation: what it covered, another covers now, or the copy is gone.
LEMMA TaskMoves ==
    ASSUME CopiesInv, NEW t \in inv, UNCHANGED <<rows, admin, slips>>, inv' \subseteq Task, TasksWhole',
           \A x \in inv : x # t => x \in inv',
           DOMAIN cache' = Users, \A u \in Users : DOMAIN cache'[u] = Kinds,
           \A u \in Users, k \in Kinds : cache'[u][k] \in {cache[u][k], "none"},
           \A u \in Users, k \in Kinds : TaskCovers(t, u, k) /\ cache'[u][k] # "none" => Doomed(u, k)'
    PROVE  CopiesInv'
<1>1. ASSUME slips' = {}, NEW u \in Users, NEW k \in Kinds, Stale(u, k)' PROVE Doomed(u, k)'
  <2>1. Truth(u, k)' = Truth(u, k)
    BY DEF Truth, rows
  <2>2. Stale(u, k) /\ cache'[u][k] # "none"
    BY <1>1, <2>1 DEF Stale
  <2>3. Doomed(u, k)
    BY <1>1, <2>2, StaleReading DEF CopiesInv
  <2>4. ASSUME NEW x \in inv, TaskCovers(x, u, k), x # t PROVE Doomed(u, k)'
    BY <2>4 DEF Doomed, TaskCovers, rows
  <2>5. ASSUME NEW a \in Admins, AdminCovers(a, u, k) PROVE Doomed(u, k)'
    BY <2>5 DEF Doomed, AdminCovers, rows
  <2> QED BY <2>2, <2>3, <2>4, <2>5 DEF Doomed
<1> QED BY <1>1, CacheKeeps

LEMMA InvMembersKeeps == ASSUME CopiesInv, NEW t \in inv, InvMembers(t) PROVE CopiesInv'
<1>0. PICK tasks : tasks = UNION {IF t.kinds = Kinds THEN UserTasks(u) ELSE OwnerTasks(u) : u \in members}
  OBVIOUS
<1>1. t.step = "members" /\ inv' = (inv \ {t}) \cup tasks /\ UNCHANGED <<rows, cache, admin, slips>>
  BY <1>0 DEF InvMembers
<1>2. \A x \in tasks : x \in Task /\ x.step = "keys"
  BY <1>0 DEF UserTasks, OwnerTasks, Task, OwnerKinds, Kinds, CopiesInv, RightsTyped
<1>3. inv' \subseteq Task /\ TasksWhole' /\ \A x \in inv : x # t => x \in inv'
  BY <1>1, <1>2 DEF CopiesInv, RightsTyped, TasksWhole
<1>4. DOMAIN cache' = Users /\ \A u \in Users : DOMAIN cache'[u] = Kinds
  BY <1>1 DEF CopiesInv, RightsTyped
<1>5. ASSUME NEW u \in Users, NEW k \in Kinds, TaskCovers(t, u, k) PROVE Doomed(u, k)'
  <2>1. u \in members /\ k \in t.kinds
    BY <1>1, <1>5 DEF TaskCovers
  <2>2. CASE t.kinds = Kinds
    <3>1. UserTasks(u) \subseteq inv'
      BY <1>0, <1>1, <2>1, <2>2
    <3> QED BY <3>1, UserTaskCovers
  <2>3. CASE t.kinds # Kinds
    <3>1. t.kinds = OwnerKinds
      BY <1>1, <2>3 DEF CopiesInv, TasksWhole
    <3>2. PICK x : x = [user |-> u, kinds |-> {k}, step |-> "keys", found |-> {}]
      OBVIOUS
    <3>3. x \in OwnerTasks(u)
      BY <2>1, <3>1, <3>2 DEF OwnerTasks
    <3>4. x \in inv' /\ TaskCovers(x, u, k)'
      BY <1>0, <1>1, <2>1, <2>3, <3>2, <3>3 DEF TaskCovers
    <3> QED BY <3>4 DEF Doomed
  <2> QED BY <2>2, <2>3
<1> QED BY <1>1, <1>3, <1>4, <1>5, TaskMoves

LEMMA InvKeysKeeps == ASSUME CopiesInv, NEW t \in inv, InvKeys(t) PROVE CopiesInv'
<1>0. PICK found : found = {k \in t.kinds : cache[t.user][k] # "none"}
  OBVIOUS
<1>1. PICK next : next = [t EXCEPT !.step = "unlink", !.found = found]
  OBVIOUS
<1>2. /\ t.step = "keys" /\ UNCHANGED <<rows, cache, admin, slips>>
      /\ inv' = (inv \ {t}) \cup (IF found = {} THEN {} ELSE {next})
  BY <1>0, <1>1 DEF InvKeys
<1>3. t \in Task
  BY DEF CopiesInv, RightsTyped
<1>4. next \in Task /\ next.step = "unlink" /\ next.user = t.user /\ next.found = found
  <2>1. found \subseteq Kinds
    BY <1>0, <1>3 DEF Task
  <2> QED BY <1>1, <1>3, <2>1 DEF Task
<1>5. inv' \subseteq Task /\ TasksWhole' /\ \A x \in inv : x # t => x \in inv'
  BY <1>2, <1>4 DEF CopiesInv, RightsTyped, TasksWhole
<1>6. DOMAIN cache' = Users /\ \A u \in Users : DOMAIN cache'[u] = Kinds
  BY <1>2 DEF CopiesInv, RightsTyped
<1>7. ASSUME NEW u \in Users, NEW k \in Kinds, TaskCovers(t, u, k), cache'[u][k] # "none" PROVE Doomed(u, k)'
  <2>1. t.user = u /\ k \in found
    BY <1>0, <1>2, <1>7 DEF TaskCovers
  <2>2. next \in inv' /\ TaskCovers(next, u, k)'
    BY <1>2, <1>4, <2>1 DEF TaskCovers
  <2> QED BY <2>2 DEF Doomed
<1> QED BY <1>2, <1>5, <1>6, <1>7, TaskMoves

LEMMA InvUnlinkKeeps == ASSUME CopiesInv, NEW t \in inv, InvUnlink(t) PROVE CopiesInv'
<1>1. /\ t.step = "unlink" /\ inv' = inv \ {t} /\ UNCHANGED <<rows, admin, slips>>
      /\ cache' = [cache EXCEPT ![t.user] = [k \in Kinds |-> IF k \in t.found THEN "none" ELSE @[k]]]
  BY DEF InvUnlink
<1>2. DOMAIN cache = Users /\ \A u \in Users : DOMAIN cache[u] = Kinds
  BY DEF CopiesInv, RightsTyped
<1>3. DOMAIN cache' = Users /\ \A u \in Users : DOMAIN cache'[u] = Kinds
  BY <1>1, <1>2
<1>4. \A u \in Users, k \in Kinds : cache'[u][k] = IF u = t.user /\ k \in t.found THEN "none" ELSE cache[u][k]
  BY <1>1, <1>2
<1>5. inv' \subseteq Task /\ TasksWhole' /\ \A x \in inv : x # t => x \in inv'
  BY <1>1 DEF CopiesInv, RightsTyped, TasksWhole
<1>6. \A u \in Users, k \in Kinds : TaskCovers(t, u, k) => cache'[u][k] = "none"
  BY <1>1, <1>4 DEF TaskCovers
<1>7. \A u \in Users, k \in Kinds : cache'[u][k] \in {cache[u][k], "none"}
  BY <1>4
<1> QED BY <1>1, <1>3, <1>5, <1>6, <1>7, TaskMoves

LEMMA InvFailsKeeps == ASSUME CopiesInv, NEW t \in inv, InvFails(t) PROVE CopiesInv'
<1>1. inv' = inv \ {t} /\ slips' = slips \cup {"dropped"} /\ UNCHANGED <<rows, cache, admin>>
  BY DEF InvFails
<1>2. inv' \subseteq Task /\ TasksWhole' /\ slips \subseteq slips' /\ slips' # {}
  BY <1>1 DEF CopiesInv, RightsTyped, TasksWhole
<1>3. DOMAIN cache' = Users /\ \A u \in Users : DOMAIN cache'[u] = Kinds
  BY <1>1 DEF CopiesInv, RightsTyped
<1> QED BY <1>1, <1>2, <1>3, CacheKeeps

LEMMA CopiesInit == Init => CopiesInv
<1> SUFFICES ASSUME Init PROVE CopiesInv
  OBVIOUS
<1>1. RightsTyped
  BY NoRequestTyped DEF Init, RightsTyped
<1>2. TasksWhole /\ DeletesOwn /\ NotYet
  BY DEF Init, TasksWhole, DeletesOwn, NotYet, NoRequest
<1>3. \A u \in Users, k \in Kinds : cache[u][k] = "none"
  BY DEF Init
<1> QED BY <1>1, <1>2, <1>3 DEF CopiesInv, StaleIsDoomed

\* Every copy that the database contradicts has somebody who will drop it.
THEOREM CopiesInvInvariant == Spec => []CopiesInv
<1>1. ASSUME CopiesInv, [Next]_vars PROVE CopiesInv'
  <2>1. ASSUME NEW r \in Readers, ReadStep(r) \/ \E u \in Users, k \in Kinds : ReadStart(r, u, k) PROVE CopiesInv'
    BY <1>1, <2>1, ReadStepKeeps, CopiesStutter DEF ReadStart
  <2>2. ASSUME NEW u \in Users, NEW k \in Kinds, Expire(u, k) PROVE CopiesInv'
    BY <1>1, <2>2, ExpireKeeps
  <2>3. ASSUME NEW t \in inv, InvStep(t) PROVE CopiesInv'
    BY <1>1, <2>3, InvMembersKeeps, InvKeysKeeps, InvUnlinkKeeps, InvFailsKeeps DEF InvStep
  <2>4. ASSUME NEW a \in Admins, Begin(a) PROVE CopiesInv'
    BY <1>1, <2>4, ReadersKeep, NewRoleKeeps, RemoveDeleteKeeps, UserUnlinkKeeps DEF Begin
  <2>5. ASSUME NEW a \in Admins, AdminStep(a) PROVE CopiesInv'
    BY <1>1, <2>5, GoingOnKeeps, CloneCopyKeeps, SyncAddKeeps, AssignInsertKeeps, RoleRowKeeps, UserRelinkKeeps,
       UpdateCommitKeeps, DisownKeeps, SlipKeeps, OwnKeeps, AnnounceKeeps DEF AdminStep
  <2>6. CASE UNCHANGED vars
    BY <1>1, <2>6, CopiesStutter DEF vars, rows
  <2> QED BY <1>1, <2>1, <2>2, <2>3, <2>4, <2>5, <2>6 DEF Next
<1> QED BY <1>1, CopiesInit, PTL DEF Spec

\* Unless something slipped, every change of a role's users, permissions, owners or status reaches
\* every copy it makes stale, for any users, readers and overlapping requests of the ten endpoints.
THEOREM StaleIsDoomedAlways == Spec => []StaleIsDoomed
<1>1. CopiesInv => StaleIsDoomed
  BY DEF CopiesInv
<1> QED BY <1>1, CopiesInvInvariant, PTL
=============================================================================
