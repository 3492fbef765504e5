---------------------------- MODULE HubServices ----------------------------
(***************************************************************************)
(* Data services, their approved versions and history, and the departments *)
(* whose members may write them.  A service's transaction takes the row of *)
(* the service, then its departments FOR SHARE; deleting a department      *)
(* takes it FOR UPDATE.  The tables and terms that a save also writes are  *)
(* HubTerms.                                                               *)
(***************************************************************************)
EXTENDS Naturals, Sequences, FiniteSets

CONSTANTS Requests,    \* requests under way at one time
          Writers, Super, \* callers; Super holds the role super_admin
          Packages,    \* ids of data services
          Depts,       \* departments
          Null,        \* SQL NULL, or none
          MaxRequests, MaxMemberships  \* bounds: requests, changes of membership

ASSUME NullAssumption == Null \notin Writers \cup Packages \cup Depts \cup Requests /\ Super \in Writers
ASSUME RequestsAssumption == MaxRequests \in Nat /\ MaxMemberships \in Nat

VARIABLES pkg,         \* data_hub_data_services: status, departments of its versions, the active one
          trail,       \* data_hub_data_service_histories of each service, oldest first
          dept,        \* the live departments
          member,      \* live rows of data_hub_department_members, as <<user, department>>
          rq,          \* the requests under way
          begun, joined \* bounded counters

svcVars == <<pkg, trail, dept, member, rq, begun, joined>>

NoRequest == [pc |-> "free"]
Writing(r) == rq[r].pc \in {"service", "depts", "member", "refs", "write"}
Entry(action, v, from, to) == [action |-> action, version |-> v, from |-> from, to |-> to]
Registered(s) == pkg[s].status # "none"
DeptOf(s) == pkg[s].versions[pkg[s].active]

\* Row locks, held from the statement that takes them to the end of the transaction.
HoldsService(r, s) == rq[r].pc \in {"depts", "member", "refs", "write"} /\ rq[r].svc = s
Shares(r, d)       == rq[r].pc \in {"member", "refs", "write"} /\ d \in rq[r].locked
Deletes(r, d)      == rq[r].pc = "delete" /\ rq[r].dept = d

Open(r) == rq[r].pc = "free" /\ begun < MaxRequests /\ begun' = begun + 1
Close(r) == rq' = [rq EXCEPT ![r] = NoRequest]

(***************************************************************************)
(* create, update, setStatus                                               *)
(***************************************************************************)
\* create: the department first; the service's row is nobody else's.
CreateService(r, u, s, d) ==
    /\ Open(r) /\ ~Registered(s) /\ \A q \in Requests : Writing(q) => rq[q].svc # s
    /\ rq' = [rq EXCEPT ![r] = [pc |-> "depts", call |-> "create", user |-> u, svc |-> s, to |-> d,
                                saw |-> 0, status |-> "active", dept |-> d, locked |-> {}, mine |-> {}]]
    /\ UNCHANGED <<pkg, trail, dept, member, joined>>

\* update and setStatus: the SELECT of lockService takes its snapshot and asks for the row.
\* `to` is the department of the body (update) or the new status.
ChangeService(r, u, s, call, to) ==
    /\ Open(r) /\ Registered(s)
    /\ rq' = [rq EXCEPT ![r] = [pc |-> "service", call |-> call, user |-> u, svc |-> s, to |-> to,
                                saw |-> pkg[s].active, status |-> pkg[s].status, dept |-> Null,
                                locked |-> {}, mine |-> {}]]
    /\ UNCHANGED <<pkg, trail, dept, member, joined>>

\* Variant that uses the row as it was before the wait.
LockServiceStale(r) ==
    /\ rq[r].pc = "service" /\ \A q \in Requests : ~HoldsService(q, rq[r].svc)
    /\ rq' = [rq EXCEPT ![r].pc = "depts", ![r].dept = pkg[rq[r].svc].versions[rq[r].saw]]
    /\ UNCHANGED <<pkg, trail, dept, member, begun, joined>>

\* Variant that reads the status before the wait.
LockServiceStatus(r) ==
    /\ rq[r].pc = "service" /\ \A q \in Requests : ~HoldsService(q, rq[r].svc)
    /\ rq' = [rq EXCEPT ![r].pc = "depts", ![r].dept = DeptOf(rq[r].svc)]
    /\ UNCHANGED <<pkg, trail, dept, member, begun, joined>>

\* The row is free.  PostgreSQL re-evaluates the join of a row that changed meanwhile with the new
\* service and the version of the old snapshot: another active version leaves the LEFT JOIN empty.
LockService(r) ==
    /\ rq[r].pc = "service" /\ \A q \in Requests : ~HoldsService(q, rq[r].svc)
    /\ LET s == rq[r].svc
       IN  rq' = [rq EXCEPT ![r].pc = "depts", ![r].status = pkg[s].status,
                            ![r].dept = IF pkg[s].active = rq[r].saw THEN DeptOf(s) ELSE Null]
    /\ UNCHANGED <<pkg, trail, dept, member, begun, joined>>

\* The departments to check: the service's, and the body's.
Asked(r) == {rq[r].dept} \cup (IF rq[r].call = "status" THEN {} ELSE {rq[r].to})
\* Variant without FOR SHARE.
ShareNothing(r) ==
    /\ rq[r].pc = "depts"
    /\ rq' = [rq EXCEPT ![r].pc = "member", ![r].locked = {}]
    /\ UNCHANGED <<pkg, trail, dept, member, begun, joined>>

\* FOR SHARE: waits for a request that is deleting one of them.
ShareDepartments(r) ==
    /\ rq[r].pc = "depts"
    /\ \A d \in Asked(r) \cap dept, q \in Requests : ~Deletes(q, d)
    /\ rq' = [rq EXCEPT ![r].pc = "member", ![r].locked = Asked(r) \cap dept]
    /\ UNCHANGED <<pkg, trail, dept, member, begun, joined>>

\* memberDepartmentIds
Mine(u) == {d \in dept : <<u, d>> \in member}
\* Super admin, or a member of every one; a NULL department belongs to nobody.
CheckMember(r) ==
    /\ rq[r].pc = "member"
    /\ IF rq[r].user = Super
          \/ Asked(r) \subseteq Mine(rq[r].user)
       THEN rq' = [rq EXCEPT ![r].pc = IF rq[r].call = "status" THEN "write" ELSE "refs",
                              ![r].mine = Mine(rq[r].user)]
       ELSE Close(r)
    /\ UNCHANGED <<pkg, trail, dept, member, begun, joined>>

\* create and update: the body's department must be live.
ResolveRefs(r) ==
    /\ rq[r].pc = "refs"
    /\ IF rq[r].to \in dept THEN rq' = [rq EXCEPT ![r].pc = "write"] ELSE Close(r)
    /\ UNCHANGED <<pkg, trail, dept, member, begun, joined>>

\* A version with the next number, the service's row, the history; COMMIT.
WriteVersion(r) ==
    /\ rq[r].pc = "write" /\ rq[r].call \in {"create", "update"}
    /\ LET s == rq[r].svc
           v == Len(pkg[s].versions) + 1
       IN  /\ pkg' = [pkg EXCEPT ![s].status = IF v = 1 THEN "active" ELSE @, ![s].active = v,
                                 ![s].versions = Append(@, rq[r].to)]
           /\ trail' = [trail EXCEPT ![s] = Append(@, Entry(rq[r].call, v, Null, Null))]
    /\ Close(r)
    /\ UNCHANGED <<dept, member, begun, joined>>

\* Same for setStatus; NO_CHANGES when the row has that status.
WriteStatus(r) ==
    /\ rq[r].pc = "write" /\ rq[r].call = "status"
    /\ IF rq[r].status = rq[r].to
       THEN UNCHANGED <<pkg, trail>>
       ELSE LET s == rq[r].svc
            IN  /\ pkg' = [pkg EXCEPT ![s].status = rq[r].to]
                /\ trail' = [trail EXCEPT ![s] = Append(@, Entry("status", pkg[s].active,
                                                                 rq[r].status, rq[r].to))]
    /\ Close(r)
    /\ UNCHANGED <<dept, member, begun, joined>>

(***************************************************************************)
(* Departments                                                             *)
(***************************************************************************)
\* remove: SELECT ... FOR UPDATE of a live department.
RemoveLock(r, d) ==
    /\ Open(r) /\ d \in dept
    /\ \A q \in Requests : ~Deletes(q, d) /\ ~Shares(q, d)
    /\ rq' = [rq EXCEPT ![r] = [pc |-> "delete", dept |-> d]]
    /\ UNCHANGED <<pkg, trail, dept, member, joined>>

\* A department of a live service's active version stays; memberships go with it.
RemoveDepartment(r) ==
    /\ rq[r].pc = "delete"
    /\ IF \E s \in Packages : Registered(s) /\ DeptOf(s) = rq[r].dept
       THEN UNCHANGED <<dept, member>>
       ELSE /\ dept' = dept \ {rq[r].dept}
            /\ member' = {m \in member : m[2] # rq[r].dept}
    /\ Close(r)
    /\ UNCHANGED <<pkg, trail, begun, joined>>

\* addMembers takes the department FOR SHARE: one step, since it waits for nothing after that.
AddMember(u, d) ==
    /\ joined < MaxMemberships /\ joined' = joined + 1
    /\ d \in dept /\ \A q \in Requests : ~Deletes(q, d)
    /\ member' = member \cup {<<u, d>>}
    /\ UNCHANGED <<pkg, trail, dept, rq, begun>>

\* removeMembers takes no lock on the department.
RemoveMember(u, d) ==
    /\ joined < MaxMemberships /\ joined' = joined + 1
    /\ <<u, d>> \in member
    /\ member' = member \ {<<u, d>>}
    /\ UNCHANGED <<pkg, trail, dept, rq, begun>>

\* A lost connection, or another 4xx.
AbortRequest(r) ==
    /\ rq[r].pc # "free" /\ Close(r)
    /\ UNCHANGED <<pkg, trail, dept, member, begun, joined>>

SvcInit ==
    /\ pkg = [s \in Packages |-> [status |-> "none", versions |-> <<>>, active |-> 0]]
    /\ trail = [s \in Packages |-> <<>>]
    /\ dept = Depts /\ member = (Writers \ {Super}) \X Depts
    /\ rq = [r \in Requests |-> NoRequest] /\ begun = 0 /\ joined = 0

SvcNext ==
    \/ \E r \in Requests :
          \/ \E u \in Writers, s \in Packages :
                \/ \E d \in Depts : CreateService(r, u, s, d) \/ ChangeService(r, u, s, "update", d)
                \/ \E st \in {"active", "inactive"} : ChangeService(r, u, s, "status", st)
          \/ LockService(r) \/ ShareDepartments(r) \/ CheckMember(r) \/ ResolveRefs(r)
          \/ WriteVersion(r) \/ WriteStatus(r)
          \/ \E d \in Depts : RemoveLock(r, d)
          \/ RemoveDepartment(r) \/ AbortRequest(r)
    \/ \E u \in Writers \ {Super}, d \in Depts : AddMember(u, d) \/ RemoveMember(u, d)

SvcSpec == SvcInit /\ [][SvcNext]_svcVars

(***************************************************************************)
(* Properties                                                              *)
(***************************************************************************)
\* Types; memberships are of live departments, and the active version is the newest.
SvcTypeOK ==
    /\ dept \subseteq Depts /\ member \subseteq Writers \X dept
    /\ begun \in 0..MaxRequests /\ joined \in 0..MaxMemberships
    /\ \A s \in Packages : /\ pkg[s].status \in {"none", "active", "inactive"}
                          /\ pkg[s].versions \in Seq(Depts) /\ pkg[s].active = Len(pkg[s].versions)
    /\ \A r \in Requests : rq[r].pc \in {"free", "service", "depts", "member", "refs", "write", "delete"}

\* The department of every service is live: none is deleted under a write that puts a service into
\* it, nor under a service (data-hub-access.service.ts 127-130).
LiveDepartment == \A s \in Packages : Registered(s) => DeptOf(s) \in dept

\* Whoever is about to write a service belongs, by the check made, to the department of the version
\* the write replaces, whatever other writes did to the service while this one waited for its row
\* (data-hub-data-service-write.service.ts 123-124).
AuthorisedAgainstCurrent == \A r \in Requests :
    rq[r].pc \in {"refs", "write"} /\ rq[r].user # Super /\ rq[r].call # "create"
        => DeptOf(rq[r].svc) \in rq[r].mine

\* What the first n entries of the history t leave: the version, and the status.
Saved(t, n) == IF n = 0 THEN 0 ELSE t[n].version
Leaves(t, n, status) ==
    LET changes == {i \in 1..n : t[i].action = "status"}
    IN  \/ changes = {} /\ status = "active"
        \/ \E i \in changes : t[i].to = status /\ \A j \in changes : j <= i

\* A service's history tells its state: each save has the next version and each change of status the
\* version it found, up to the active one; and each change begins with the status that the history
\* before it leaves, the whole history leaving the present one
\* (data-hub-data-service-write.service.ts 139-174 and 191-208, under the row lock of 237-245).
TrailReplays == \A s \in Packages :
    LET t == trail[s]
    IN  /\ pkg[s].active = Saved(t, Len(t))
        /\ \A i \in DOMAIN t : IF t[i].action = "status"
                               THEN t[i].version = Saved(t, i - 1) /\ Leaves(t, i - 1, t[i].from)
                               ELSE t[i].version = Saved(t, i - 1) + 1
        /\ Registered(s) => Leaves(t, Len(t), pkg[s].status)
=============================================================================
