----------------------------- MODULE HubProofs -----------------------------
(***************************************************************************)
(* Proofs about three parts of the data hub.  HubConsumers, for any        *)
(* editors and contents and any number of edits: the history replays.      *)
(* HubServices, for any services, people and departments and any number of *)
(* requests: every request under way either still stands on what it read,  *)
(* or is one that the row lock will refuse; that is what the               *)
(* authorisation, the department and the trail of versions rest on.        *)
(* TermImport, for any files, uploaders and forms: an import has looked up *)
(* all that it writes, and what that takes back it reports as changed.     *)
(* Last, the eight components together, as TransactionsMC explores them.   *)
(***************************************************************************)
EXTENDS TransactionsMC, TermProofs, RulesProofs, TLAPS

(***************************************************************************)
(* Consumers                                                               *)
(***************************************************************************)

(***************************************************************************)
(* The invariant                                                           *)
(***************************************************************************)
State == {"active", "inactive"}
Text  == Contents \cup {NoContent}
AppRow  == [content : Text, status : State, version : Nat]
SnapRec == [action : {"create", "update", "status"}, content : Text, status : State]
EditRec == [pc : {"idle", "lock", "write"}, call : {"none", "update", "status"},
            to : Text \cup State, row : AppRow]

Types ==
    /\ app \in AppRow /\ snapshots \in Seq(SnapRec)
    /\ edit \in [Editors -> EditRec] /\ edits \in Nat
    /\ \A e \in Editors : edit[e].pc # "idle" =>
          \/ edit[e].call = "update" /\ edit[e].to \in Contents
          \/ edit[e].call = "status" /\ edit[e].to \in State

\* A transaction that has locked the row has read what is committed, and is the only one.
Locked == \A e \in Editors : edit[e].pc = "write" =>
             /\ edit[e].row = app
             /\ \A f \in Editors \ {e} : edit[f].pc # "write"

\* An edit under way is of an application that exists.
Existing == \A e \in Editors : edit[e].pc # "idle" => app.version > 0

ConsumerInv == Types /\ Locked /\ Existing /\ SnapshotsReplay

(***************************************************************************)
(* One lemma per action                                                    *)
(***************************************************************************)
LEMMA EditTyped == ASSUME Types, NEW e \in Editors
                   PROVE  edit[e] \in EditRec /\ edit[e].row \in AppRow
BY DEF Types, EditRec

LEMMA CreateKeeps == ASSUME ConsumerInv, NEW e \in Editors, CreateApp(e) PROVE ConsumerInv'
<1> USE DEF ConsumerInv
<1>1. PICK c \in Contents : /\ app' = [content |-> c, status |-> "active", version |-> 1]
                            /\ snapshots' = <<Snap("create", c, "active")>>
  BY DEF CreateApp
<1>2. edit' = [edit EXCEPT ![e] = NoEdit] /\ edits' = edits + 1 /\ app.version = 0
  BY DEF CreateApp, BeginEdit
<1>3. \A f \in Editors : edit'[f].pc = "idle"
  BY <1>2 DEF Existing, Types, NoEdit
<1>4. NoEdit \in EditRec
  BY DEF NoEdit, Unsaved, EditRec, AppRow, Text, State
<1>5. Types'
  BY <1>1, <1>2, <1>3, <1>4 DEF Types, AppRow, SnapRec, Snap, Text, State
<1>6. Locked' /\ Existing'
  BY <1>3 DEF Locked, Existing
<1>7. SnapshotsReplay'
  BY <1>1 DEF SnapshotsReplay, Snap
<1> QED BY <1>5, <1>6, <1>7

LEMMA AskKeeps ==
    ASSUME ConsumerInv, NEW e \in Editors, NEW kind, NEW to, AskApp(e, kind, to),
           \/ kind = "update" /\ to \in Contents
           \/ kind = "status" /\ to \in State
    PROVE  ConsumerInv'
<1> USE DEF ConsumerInv
<1> DEFINE r == [pc |-> "lock", call |-> kind, to |-> to, row |-> app]
<1>1. edit' = [edit EXCEPT ![e] = r] /\ edits' = edits + 1 /\ UNCHANGED <<app, snapshots>>
  BY DEF AskApp, BeginEdit
<1>2. app.version > 0
  BY DEF AskApp
<1>3. r \in EditRec
  BY DEF Types, EditRec, Text
<1>4. Types'
  BY <1>1, <1>3 DEF Types
<1>5. Locked' /\ Existing'
  BY <1>1, <1>2 DEF Types, Locked, Existing
<1>6. SnapshotsReplay'
  BY <1>1 DEF SnapshotsReplay
<1> QED BY <1>4, <1>5, <1>6

LEMMA LockKeeps == ASSUME ConsumerInv, NEW e \in Editors, LockCurrent(e) PROVE ConsumerInv'
<1> USE DEF ConsumerInv
<1> DEFINE r == [edit[e] EXCEPT !.pc = "write", !.row = app]
<1>0. edit[e] \in EditRec /\ app \in AppRow
  BY EditTyped DEF Types
<1>1. edit' = [edit EXCEPT ![e] = r] /\ UNCHANGED <<app, snapshots, edits>> /\ edit[e].pc = "lock"
  BY <1>0 DEF LockCurrent, Types, EditRec
<1>2. r \in EditRec /\ r.pc = "write" /\ r.row = app /\ r.call = edit[e].call /\ r.to = edit[e].to
  BY <1>0 DEF EditRec
<1> HIDE DEF r
<1>3. Types'
  BY <1>1, <1>2 DEF Types
<1>4. Locked'
  BY <1>1, <1>2 DEF Types, Locked, LockCurrent, RowFree
<1>5. Existing'
  BY <1>1, <1>2 DEF Types, Existing
<1>6. SnapshotsReplay'
  BY <1>1 DEF SnapshotsReplay
<1> QED BY <1>3, <1>4, <1>5, <1>6

\* A form, or a status, put into a row under the next version number.
LEMMA RowEdits ==
    ASSUME NEW r \in AppRow, NEW c
    PROVE  /\ c \in Text  => [r EXCEPT !.content = c, !.version = @ + 1] \in AppRow
           /\ c \in State => [r EXCEPT !.status = c, !.version = @ + 1] \in AppRow
<1>1. ASSUME NEW q \in AppRow PROVE [q EXCEPT !.version = r.version + 1] \in AppRow
  BY DEF AppRow
<1>2. /\ c \in Text  => [r EXCEPT !.content = c] \in AppRow
      /\ c \in State => [r EXCEPT !.status = c] \in AppRow
  BY DEF AppRow
<1>3. /\ [r EXCEPT !.content = c, !.version = @ + 1]
           = [[r EXCEPT !.content = c] EXCEPT !.version = r.version + 1]
      /\ [r EXCEPT !.status = c, !.version = @ + 1]
           = [[r EXCEPT !.status = c] EXCEPT !.version = r.version + 1]
  BY DEF AppRow
<1> QED BY <1>1, <1>2, <1>3

\* What a writing transaction appends: one version more, of which it changes one side.
LEMMA WriteKeeps == ASSUME ConsumerInv, NEW e \in Editors, WriteApp(e) PROVE ConsumerInv'
<1> USE DEF ConsumerInv
<1> DEFINE next == NextApp(e)
           same == next.content = edit[e].row.content /\ next.status = edit[e].row.status
           kind == edit[e].call
           new  == Snap(kind, next.content, next.status)
<1>1. /\ edit[e].pc = "write" /\ edit[e].row = app /\ app \in AppRow /\ app.version > 0
      /\ \/ kind = "update" /\ edit[e].to \in Contents
         \/ kind = "status" /\ edit[e].to \in State
  BY DEF WriteApp, Types, Locked, Existing
<1>2. /\ kind = "update" => next = [app EXCEPT !.content = edit[e].to, !.version = @ + 1]
      /\ kind = "status" => next = [app EXCEPT !.status = edit[e].to, !.version = @ + 1]
  BY <1>1 DEF NextApp
<1>3. /\ next \in AppRow /\ next.version = app.version + 1
      /\ kind = "update" => next.status = app.status
      /\ kind = "status" => next.content = app.content
  <2> HIDE DEF next
  <2>1. CASE kind = "update"
    <3>1. next = [app EXCEPT !.content = edit[e].to, !.version = @ + 1] /\ edit[e].to \in Text
      BY <2>1, <1>1, <1>2 DEF Text
    <3>2. app.status \in State /\ app.version \in Nat /\ DOMAIN app = {"content", "status", "version"}
      BY <1>1 DEF AppRow
    <3>3. next.content = edit[e].to /\ next.status = app.status /\ next.version = app.version + 1
      BY <3>1, <1>1 DEF AppRow
    <3>4. next \in AppRow
      BY <3>1, <1>1, RowEdits
    <3> QED BY <2>1, <3>2, <3>3, <3>4
  <2>2. CASE kind = "status"
    <3>1. next = [app EXCEPT !.status = edit[e].to, !.version = @ + 1] /\ edit[e].to \in State
      BY <2>2, <1>1, <1>2
    <3>2. app.content \in Text /\ app.version \in Nat /\ DOMAIN app = {"content", "status", "version"}
      BY <1>1 DEF AppRow
    <3>3. next.status = edit[e].to /\ next.content = app.content /\ next.version = app.version + 1
      BY <3>1, <1>1 DEF AppRow
    <3>4. next \in AppRow
      BY <3>1, <1>1, RowEdits
    <3> QED BY <2>2, <3>2, <3>3, <3>4
  <2> QED BY <2>1, <2>2, <1>1
<1>4. edit' = [edit EXCEPT ![e] = NoEdit] /\ edits' = edits
  BY DEF WriteApp
<1>5. \A f \in Editors : edit'[f].pc # "write" /\ (edit'[f].pc # "idle" => edit'[f] = edit[f])
  BY <1>1, <1>4 DEF Types, Locked, NoEdit
<1>6. NoEdit \in EditRec
  BY DEF NoEdit, Unsaved, EditRec, AppRow, Text, State
<1>7. CASE same
  <2>1. UNCHANGED <<app, snapshots>>
    BY <1>7 DEF WriteApp
  <2> QED BY <2>1, <1>4, <1>5, <1>6 DEF Types, Locked, Existing, SnapshotsReplay
<1>8. CASE ~same
  <2>1. snapshots' = Append(snapshots, new)
    BY <1>8 DEF WriteApp
  <2>2. app' = next
    <3>1. app' = IF kind = "update"
                 THEN [app EXCEPT !.content = next.content, !.version = next.version]
                 ELSE [app EXCEPT !.status = next.status, !.version = next.version]
      BY <1>8 DEF WriteApp
    <3> QED BY <3>1, <1>1, <1>2, <1>3 DEF AppRow
  <2>3. new \in SnapRec /\ new.action = kind /\ new.content = next.content /\ new.status = next.status
    BY <1>1, <1>3 DEF Snap, SnapRec, AppRow
  <2> HIDE DEF next, new
  <2>4. Types'
    BY <2>1, <2>2, <2>3, <1>3, <1>4, <1>5, <1>6 DEF Types
  <2>5. Locked' /\ Existing'
    BY <2>2, <1>1, <1>3, <1>5 DEF Locked, Existing, AppRow
  <2>6. SnapshotsReplay'
    <3> DEFINE n == app.version
    <3>1. n \in Nat \ {0} /\ Len(snapshots) = n /\ snapshots \in Seq(SnapRec)
      BY <1>1 DEF AppRow, SnapshotsReplay, Types
    <3>2. /\ Len(snapshots') = n + 1 /\ snapshots'[n + 1] = new
          /\ \A i \in 1..n : snapshots'[i] = snapshots[i]
      BY <2>1, <2>3, <3>1
    <3>3. snapshots[n].content = app.content /\ snapshots[n].status = app.status
      BY <3>1 DEF SnapshotsReplay
    <3>4. \/ new.action = "update" /\ app.status = new.status /\ app.content # new.content
          \/ new.action = "status" /\ app.content = new.content /\ app.status # new.status
      BY <2>3, <1>1, <1>3, <1>8
    <3>5. app'.version = n + 1 /\ app'.content = new.content /\ app'.status = new.status
      BY <2>2, <2>3, <1>3
    <3> HIDE DEF n
    <3>6. ASSUME NEW i \in 2..(n + 1)
          PROVE  \/ /\ snapshots'[i].action = "update"
                    /\ snapshots'[i - 1].status = snapshots'[i].status
                    /\ snapshots'[i - 1].content # snapshots'[i].content
                 \/ /\ snapshots'[i].action = "status"
                    /\ snapshots'[i - 1].content = snapshots'[i].content
                    /\ snapshots'[i - 1].status # snapshots'[i].status
      <4>1. CASE i = n + 1
        BY <4>1, <3>1, <3>2, <3>3, <3>4
      <4>2. CASE i \in 2..n
        <5>1. snapshots'[i] = snapshots[i] /\ snapshots'[i - 1] = snapshots[i - 1]
          BY <4>2, <3>1, <3>2
        <5> QED BY <5>1, <4>2, <3>1 DEF SnapshotsReplay
      <4> QED BY <4>1, <4>2, <3>1
    <3> QED BY <3>1, <3>2, <3>5, <3>6 DEF SnapshotsReplay
  <2> QED BY <2>4, <2>5, <2>6
<1> QED BY <1>7, <1>8

(***************************************************************************)
(* The properties                                                          *)
(***************************************************************************)
\* What is behind the property: whoever holds the row knows it as it is.
THEOREM ConsumerInvInvariant == AppSpec => []ConsumerInv
<1>1. AppInit => ConsumerInv
  BY DEF AppInit, ConsumerInv, Types, Locked, Existing, SnapshotsReplay, NoEdit, Unsaved,
         AppRow, EditRec, Text, State
<1>2. ConsumerInv /\ [AppNext]_appVars => ConsumerInv'
  <2> SUFFICES ASSUME ConsumerInv, [AppNext]_appVars PROVE ConsumerInv'
    OBVIOUS
  <2>1. ASSUME NEW e \in Editors, AbandonEdit(e) PROVE ConsumerInv'
    <3>1. NoEdit \in EditRec
      BY DEF NoEdit, Unsaved, EditRec, AppRow, Text, State
    <3>2. \A f \in Editors : edit'[f] = edit[f] \/ edit'[f] = NoEdit
      BY <2>1 DEF AbandonEdit, ConsumerInv, Types
    <3>3. NoEdit.pc = "idle"
      BY DEF NoEdit
    <3> QED BY <2>1, <3>1, <3>2, <3>3
            DEF AbandonEdit, ConsumerInv, Types, Locked, Existing, SnapshotsReplay
  <2>2. CASE UNCHANGED appVars
    BY <2>2 DEF appVars, ConsumerInv, Types, Locked, Existing, SnapshotsReplay
  <2>3. ASSUME NEW e \in Editors, NEW c \in Contents, AskApp(e, "update", c) PROVE ConsumerInv'
    BY <2>3, AskKeeps
  <2>4. ASSUME NEW e \in Editors, NEW s \in {"active", "inactive"}, AskApp(e, "status", s)
        PROVE  ConsumerInv'
    BY <2>4, AskKeeps DEF State
  <2> QED BY <2>1, <2>2, <2>3, <2>4, CreateKeeps, LockKeeps, WriteKeeps DEF AppNext
<1> QED BY <1>1, <1>2, PTL DEF AppSpec

\* The history replays the application: no version number is skipped or written twice, and each
\* snapshot differs from the one before in what its call is about only.
THEOREM SnapshotsReplayAlways == AppSpec => []SnapshotsReplay
<1>1. ConsumerInv => SnapshotsReplay
  BY DEF ConsumerInv
<1> QED BY <1>1, ConsumerInvInvariant, PTL

(***************************************************************************)
(* Data services: the invariant                                            *)
(***************************************************************************)
Statuses == {"none", "active", "inactive"}
Service  == [status : Statuses, versions : Seq(Depts), active : Nat]
Logged     == [action : {"create", "update", "status"}, version : Nat,
             from : Statuses \cup {Null}, to : Statuses \cup {Null}]
Call     == [pc : {"service", "depts", "member", "refs", "write"}, call : {"create", "update", "status"},
             user : Writers, svc : Packages, to : Depts \cup Statuses, saw : Nat, status : Statuses,
             dept : Depts \cup {Null}, locked : SUBSET Depts, mine : SUBSET Depts]
Deletion == [pc : {"delete"}, dept : Depts]

ServicesTyped ==
    /\ pkg \in [Packages -> Service] /\ trail \in [Packages -> Seq(Logged)]
    /\ rq \in [Requests -> Call \cup Deletion \cup {NoRequest}]
    /\ \A s \in Packages : IF Registered(s) THEN pkg[s].active > 0
                                            ELSE pkg[s].active = 0 /\ trail[s] = <<>>

\* What a request has taken: the row of its service, its departments, and what it asks to write.
Held(x)  == x.pc \in {"depts", "member", "refs", "write"}
Took(x)  == x.pc \in {"member", "refs", "write"}
Wants(x) == {x.dept} \cup (IF x.call = "status" THEN {} ELSE {x.to})

\* What a request under way knows still stands, the row being its own: the service's department, or
\* none, and its status; the departments it shares are all those it asks for that are live; and the
\* memberships it checked cover what it asks for.
Stands(x) ==
    /\ IF x.call = "status" THEN x.to \in {"active", "inactive"} /\ x.pc # "refs" ELSE x.to \in Depts
    /\ IF x.call = "create" THEN ~Registered(x.svc) /\ x.pc # "service" ELSE Registered(x.svc)
    /\ Held(x) /\ x.call # "create" => x.dept \in {DeptOf(x.svc), Null} /\ x.status = pkg[x.svc].status
    /\ Took(x) => x.locked \subseteq dept /\ Wants(x) \cap dept \subseteq x.locked
    /\ x.pc = "write" /\ x.call # "status" => x.to \in x.locked
    /\ x.pc \in {"refs", "write"} /\ x.user # Super => Wants(x) \subseteq x.mine
Fits(x) == x \in Call => Stands(x)

\* Two requests: one row has one holder, a service being created has one request, and a department
\* that is being deleted is shared by none.
KeepsOff(x, y) ==
    /\ x \in Call /\ y \in Call /\ x.svc = y.svc => ~(Held(x) /\ Held(y)) /\ x.call # "create"
    /\ x \in Call /\ y \in Deletion /\ Took(x) => y.dept \notin x.locked

RequestsFit == /\ \A r \in Requests : Fits(rq[r])
               /\ \A r, q \in Requests : r # q => KeepsOff(rq[r], rq[q])

ServicesInv == SvcTypeOK /\ ServicesTyped /\ RequestsFit /\ LiveDepartment /\ TrailReplays

LEMMA RequestKinds ==
    /\ NoRequest \notin Call /\ NoRequest \notin Deletion
    /\ \A x \in Call : x \notin Deletion /\ x.pc \in {"service", "depts", "member", "refs", "write"}
    /\ \A x \in Deletion : x \notin Call /\ x.pc = "delete" /\ x.dept \in Depts
<1>1. NoRequest.pc = "free" /\ (\A x \in Call : x.pc \in {"service", "depts", "member", "refs", "write"})
      /\ (\A x \in Deletion : x.pc = "delete" /\ x.dept \in Depts)
  BY DEF NoRequest, Call, Deletion
<1> QED BY <1>1

\* A request that goes on, with what it has learnt or taken.
LEMMA CallEdits ==
    ASSUME NEW y \in Call, NEW p \in {"service", "depts", "member", "refs", "write"}
    PROVE  /\ [y EXCEPT !.pc = p] \in Call
           /\ \A st \in Statuses, d \in Depts \cup {Null} :
                 [y EXCEPT !.pc = p, !.status = st, !.dept = d] \in Call
           /\ \A l \in SUBSET Depts : [y EXCEPT !.pc = p, !.locked = l] \in Call
           /\ \A l \in SUBSET Depts : [y EXCEPT !.pc = p, !.mine = l] \in Call
<1>1. \A z \in Call : /\ [z EXCEPT !.pc = p] \in Call
                      /\ \A st \in Statuses : [z EXCEPT !.status = st] \in Call
                      /\ \A d \in Depts \cup {Null} : [z EXCEPT !.dept = d] \in Call
                      /\ \A l \in SUBSET Depts : [z EXCEPT !.locked = l] \in Call
                      /\ \A l \in SUBSET Depts : [z EXCEPT !.mine = l] \in Call
  BY DEF Call
<1>2. /\ \A st, d : [y EXCEPT !.pc = p, !.status = st, !.dept = d]
                      = [[[y EXCEPT !.pc = p] EXCEPT !.status = st] EXCEPT !.dept = d]
      /\ \A l : [y EXCEPT !.pc = p, !.locked = l] = [[y EXCEPT !.pc = p] EXCEPT !.locked = l]
      /\ \A l : [y EXCEPT !.pc = p, !.mine = l] = [[y EXCEPT !.pc = p] EXCEPT !.mine = l]
  BY DEF Call
<1> QED BY <1>1, <1>2

\* A request under way by its stage.
LEMMA RequestKind ==
    ASSUME ServicesTyped, NEW r \in Requests
    PROVE  /\ rq[r].pc = "delete" => rq[r] \in Deletion
           /\ rq[r].pc \in {"service", "depts", "member", "refs", "write"} => rq[r] \in Call
           /\ rq[r].pc = "free" => rq[r] = NoRequest
           /\ rq[r].pc \in {"free", "service", "depts", "member", "refs", "write", "delete"}
<1>1. rq[r] \in Call \/ rq[r] \in Deletion \/ rq[r] = NoRequest
  BY DEF ServicesTyped
<1>2. NoRequest.pc = "free"
  BY DEF NoRequest
<1> QED BY <1>1, <1>2, RequestKinds

(***************************************************************************)
(* A step that changes one request and nothing it relies on                *)
(***************************************************************************)
LEMMA OneRequest ==
    ASSUME ServicesInv, NEW r \in Requests, NEW x \in Call \cup Deletion \cup {NoRequest},
           rq' = [rq EXCEPT ![r] = x], UNCHANGED <<pkg, trail, dept, member, joined>>,
           begun' \in 0..MaxRequests, Fits(x),
           \A q \in Requests \ {r} : KeepsOff(x, rq[q]) /\ KeepsOff(rq[q], x)
    PROVE  ServicesInv'
<1> USE DEF ServicesInv
<1>1. rq' \in [Requests -> Call \cup Deletion \cup {NoRequest}]
      /\ rq'[r] = x /\ (\A q \in Requests \ {r} : rq'[q] = rq[q])
  BY DEF ServicesTyped
<1>2. ServicesTyped'
  BY <1>1 DEF ServicesTyped, Registered
<1>3. \A q \in Requests : Fits(rq[q])' 
  <2> SUFFICES ASSUME NEW q \in Requests PROVE Fits(rq[q])'
    OBVIOUS
  <2>1. Fits(rq'[q])
    BY <1>1 DEF RequestsFit
  <2> QED BY <2>1 DEF Fits, Stands, Held, Took, Wants, Registered, DeptOf
<1>4. \A p, q \in Requests : p # q => KeepsOff(rq'[p], rq'[q])
  BY <1>1 DEF RequestsFit
<1>5. RequestsFit'
  BY <1>3, <1>4 DEF RequestsFit, KeepsOff, Held, Took
<1>6. SvcTypeOK'
  <2>1. \A q \in Requests : rq'[q].pc \in {"free", "service", "depts", "member", "refs", "write", "delete"}
    <3>1. x.pc \in {"free", "service", "depts", "member", "refs", "write", "delete"}
      BY RequestKinds DEF NoRequest
    <3> QED BY <1>1, <3>1 DEF SvcTypeOK
  <2> QED BY <2>1 DEF SvcTypeOK
<1>7. LiveDepartment' /\ TrailReplays'
  BY DEF LiveDepartment, TrailReplays, Registered, DeptOf
<1> QED BY <1>2, <1>5, <1>6, <1>7

LEMMA CloseKeeps ==
    ASSUME ServicesInv, NEW r \in Requests, Close(r), UNCHANGED <<pkg, trail, dept, member, begun, joined>>
    PROVE  ServicesInv'
<1>1. rq' = [rq EXCEPT ![r] = NoRequest]
  BY DEF Close
<1>2. Fits(NoRequest) /\ \A q \in Requests : KeepsOff(NoRequest, rq[q]) /\ KeepsOff(rq[q], NoRequest)
  BY RequestKinds DEF Fits, KeepsOff
<1>3. begun' \in 0..MaxRequests
  BY DEF ServicesInv, SvcTypeOK
<1> QED BY <1>1, <1>2, <1>3, OneRequest

\* A request that begins.
LEMMA OpenCounts == ASSUME ServicesInv, NEW r \in Requests, Open(r)
                    PROVE  begun' \in 0..MaxRequests /\ rq[r] = NoRequest
BY RequestsAssumption, RequestKind DEF Open, ServicesInv, SvcTypeOK

LEMMA CreateServiceKeeps ==
    ASSUME ServicesInv, NEW r \in Requests, NEW u \in Writers, NEW s \in Packages, NEW d \in Depts,
           CreateService(r, u, s, d)
    PROVE  ServicesInv'
<1> DEFINE x == [pc |-> "depts", call |-> "create", user |-> u, svc |-> s, to |-> d,
                 saw |-> 0, status |-> "active", dept |-> d, locked |-> {}, mine |-> {}]
<1>1. x \in Call
  BY DEF Call, Statuses
<1>2. rq' = [rq EXCEPT ![r] = x] /\ UNCHANGED <<pkg, trail, dept, member, joined>>
      /\ ~Registered(s) /\ \A q \in Requests : Writing(q) => rq[q].svc # s
  BY DEF CreateService
<1>3. begun' \in 0..MaxRequests
  BY OpenCounts DEF CreateService
<1>4. Fits(x)
  BY <1>2 DEF Fits, Stands, Held, Took
<1>5. ASSUME NEW q \in Requests \ {r} PROVE KeepsOff(x, rq[q]) /\ KeepsOff(rq[q], x)
  <2>1. rq[q] \in Call => rq[q].svc # s
    BY <1>2, RequestKinds DEF Writing
  <2>2. ~Took(x) /\ x \notin Deletion /\ x.svc = s
    BY <1>1, RequestKinds DEF Took
  <2> HIDE DEF x
  <2> QED BY <2>1, <2>2 DEF KeepsOff
<1> HIDE DEF x
<1> QED BY <1>1, <1>2, <1>3, <1>4, <1>5, OneRequest

LEMMA ChangeServiceKeeps ==
    ASSUME ServicesInv, NEW r \in Requests, NEW u \in Writers, NEW s \in Packages, NEW kind, NEW to,
           ChangeService(r, u, s, kind, to),
           \/ kind = "update" /\ to \in Depts
           \/ kind = "status" /\ to \in {"active", "inactive"}
    PROVE  ServicesInv'
<1> DEFINE x == [pc |-> "service", call |-> kind, user |-> u, svc |-> s, to |-> to,
                 saw |-> pkg[s].active, status |-> pkg[s].status, dept |-> Null,
                 locked |-> {}, mine |-> {}]
<1>1. x \in Call
  BY DEF Call, Statuses, ServicesInv, ServicesTyped, Service
<1>2. rq' = [rq EXCEPT ![r] = x] /\ UNCHANGED <<pkg, trail, dept, member, joined>> /\ Registered(s)
  BY DEF ChangeService
<1>3. begun' \in 0..MaxRequests
  BY OpenCounts DEF ChangeService
<1>4. Fits(x)
  BY <1>2 DEF Fits, Stands, Held, Took
<1>5. ASSUME NEW q \in Requests \ {r} PROVE KeepsOff(x, rq[q]) /\ KeepsOff(rq[q], x)
  <2>1. rq[q] \in Call /\ rq[q].svc = s => rq[q].call # "create"
    BY <1>2 DEF ServicesInv, RequestsFit, Fits, Stands
  <2>2. ~Took(x) /\ ~Held(x) /\ x \notin Deletion /\ x.svc = s /\ x.call # "create"
    BY <1>1, RequestKinds DEF Took, Held
  <2> HIDE DEF x
  <2> QED BY <2>1, <2>2 DEF KeepsOff
<1> HIDE DEF x
<1> QED BY <1>1, <1>2, <1>3, <1>4, <1>5, OneRequest

\* The row is the request's from here on: what it reads of the service stands.
LEMMA LockServiceKeeps ==
    ASSUME ServicesInv, NEW r \in Requests, LockService(r) PROVE ServicesInv'
<1> DEFINE y == rq[r]
           s == y.svc
           known == IF pkg[s].active = y.saw THEN DeptOf(s) ELSE Null
           x == [y EXCEPT !.pc = "depts", !.status = pkg[s].status, !.dept = known]
<1>1. y \in Call /\ y.pc = "service" /\ s \in Packages /\ ServicesTyped /\ RequestsFit /\ SvcTypeOK
  BY RequestKind DEF LockService, ServicesInv, Call
<1>2. Stands(y) /\ Registered(s)
  BY <1>1 DEF RequestsFit, Fits, Stands
<1>3. known \in Depts \cup {Null} /\ pkg[s].status \in Statuses
  BY <1>1, <1>2 DEF ServicesTyped, SvcTypeOK, Service, DeptOf
<1>4. /\ x \in Call /\ x.pc = "depts" /\ x.status = pkg[s].status /\ x.dept = known /\ x.svc = s
      /\ x.call = y.call /\ x.to = y.to /\ x.user = y.user
  <2>1. x \in Call
    BY <1>1, <1>3, CallEdits
  <2>2. /\ x.pc = "depts" /\ x.status = pkg[s].status /\ x.dept = known
        /\ x.svc = y.svc /\ x.call = y.call /\ x.to = y.to /\ x.user = y.user
    BY <1>1 DEF Call
  <2> QED BY <2>1, <2>2
<1>5. rq' = [rq EXCEPT ![r] = x] /\ UNCHANGED <<pkg, trail, dept, member, begun, joined>>
      /\ \A q \in Requests : ~HoldsService(q, s)
  BY DEF LockService, ServicesInv, ServicesTyped
<1> HIDE DEF x
<1>6. Fits(x)
  BY <1>1, <1>2, <1>4 DEF Fits, Stands, Held, Took
<1>7. ASSUME NEW q \in Requests \ {r} PROVE KeepsOff(x, rq[q]) /\ KeepsOff(rq[q], x)
  <2>1. rq[q] \in Call /\ rq[q].svc = s => ~Held(rq[q])
    BY <1>5 DEF HoldsService, Held
  <2>2. rq[q] \in Call /\ rq[q].svc = s => rq[q].call # "create"
    BY <1>1, <1>2 DEF RequestsFit, Fits, Stands
  <2>3. ~Took(x) /\ x \notin Deletion /\ x.call # "create"
    BY <1>1, <1>2, <1>4, RequestKinds DEF Took, Stands
  <2> QED BY <1>4, <2>1, <2>2, <2>3 DEF KeepsOff
<1>8. begun' \in 0..MaxRequests
  BY <1>1, <1>5 DEF SvcTypeOK
<1> HIDE DEF y, s
<1> QED BY <1>4, <1>5, <1>6, <1>7, <1>8, OneRequest

\* A request that goes on with the row and takes no other row.
LEMMA HolderGoesOn ==
    ASSUME ServicesInv, NEW r \in Requests, rq[r] \in Call, Held(rq[r]), NEW x \in Call,
           x.svc = rq[r].svc, x.call = rq[r].call, Took(x),
           \A d \in x.locked, q \in Requests : ~Deletes(q, d),
           NEW q \in Requests \ {r}
    PROVE  KeepsOff(x, rq[q]) /\ KeepsOff(rq[q], x)
<1>1. KeepsOff(rq[r], rq[q]) /\ KeepsOff(rq[q], rq[r])
  BY DEF ServicesInv, RequestsFit
<1>2. rq[q] \in Deletion => rq[q].dept \notin x.locked
  BY RequestKinds DEF Deletes
<1>3. x \notin Deletion
  BY RequestKinds
<1> QED BY <1>1, <1>2, <1>3 DEF KeepsOff

LEMMA ShareDepartmentsKeeps ==
    ASSUME ServicesInv, NEW r \in Requests, ShareDepartments(r) PROVE ServicesInv'
<1> DEFINE y == rq[r]
           shared == Asked(r) \cap dept
           x == [y EXCEPT !.pc = "member", !.locked = shared]
<1>1. y \in Call /\ y.pc = "depts" /\ ServicesTyped /\ RequestsFit /\ SvcTypeOK
  BY RequestKind DEF ShareDepartments, ServicesInv
<1>2. Stands(y) /\ Held(y)
  BY <1>1 DEF RequestsFit, Fits, Held
<1>3. shared \in SUBSET Depts /\ shared = Wants(y) \cap dept
  BY <1>1 DEF SvcTypeOK, Asked, Wants
<1>4. /\ x \in Call /\ x.pc = "member" /\ x.locked = shared /\ x.dept = y.dept /\ x.svc = y.svc
      /\ x.call = y.call /\ x.to = y.to /\ x.user = y.user /\ x.status = y.status
  <2>1. x \in Call
    <3> HIDE DEF y, shared
    <3> QED BY <1>1, <1>3, CallEdits
  <2>2. /\ x.pc = "member" /\ x.locked = shared /\ x.dept = y.dept /\ x.svc = y.svc
        /\ x.call = y.call /\ x.to = y.to /\ x.user = y.user /\ x.status = y.status
    BY <1>1 DEF Call
  <2> QED BY <2>1, <2>2
<1>5. rq' = [rq EXCEPT ![r] = x] /\ UNCHANGED <<pkg, trail, dept, member, begun, joined>>
      /\ \A d \in shared, q \in Requests : ~Deletes(q, d)
  BY <1>1 DEF ShareDepartments, ServicesTyped
<1> HIDE DEF x, shared
<1>6. Fits(x)
  BY <1>1, <1>2, <1>3, <1>4 DEF Fits, Stands, Held, Took, Wants
<1>7. ASSUME NEW q \in Requests \ {r} PROVE KeepsOff(x, rq[q]) /\ KeepsOff(rq[q], x)
  <2>1. Took(x)
    BY <1>4 DEF Took
  <2> QED BY <1>1, <1>2, <1>4, <1>5, <2>1, HolderGoesOn
<1>8. begun' \in 0..MaxRequests
  BY <1>1, <1>5 DEF SvcTypeOK
<1> HIDE DEF y
<1> QED BY <1>4, <1>5, <1>6, <1>7, <1>8, OneRequest

\* The memberships are those of the moment; what the request asks for is among them, or it ends.
LEMMA CheckMemberKeeps ==
    ASSUME ServicesInv, NEW r \in Requests, CheckMember(r) PROVE ServicesInv'
<1> DEFINE y == rq[r]
           mine == Mine(y.user)
           pc == IF y.call = "status" THEN "write" ELSE "refs"
           x == [y EXCEPT !.pc = pc, !.mine = mine]
<1>1. y \in Call /\ y.pc = "member" /\ ServicesTyped /\ RequestsFit /\ SvcTypeOK
      /\ UNCHANGED <<pkg, trail, dept, member, begun, joined>>
  BY RequestKind DEF CheckMember, ServicesInv
<1>2. Stands(y) /\ Held(y) /\ Took(y)
  BY <1>1 DEF RequestsFit, Fits, Held, Took
<1>3. mine \in SUBSET Depts /\ Asked(r) = Wants(y)
  BY <1>1 DEF SvcTypeOK, Mine, Asked, Wants
<1>4. CASE Close(r)
  BY <1>4, <1>1, CloseKeeps
<1>5. CASE (y.user = Super \/ Asked(r) \subseteq mine) /\ rq' = [rq EXCEPT ![r].pc = pc, ![r].mine = mine]
  <2>1. rq' = [rq EXCEPT ![r] = x]
    BY <1>1, <1>5 DEF ServicesTyped
  <2>2. /\ x \in Call /\ x.pc = pc /\ x.mine = mine /\ x.dept = y.dept /\ x.svc = y.svc
        /\ x.call = y.call /\ x.to = y.to /\ x.user = y.user /\ x.status = y.status /\ x.locked = y.locked
    <3>1. x \in Call
      <4>1. pc \in {"service", "depts", "member", "refs", "write"}
        OBVIOUS
      <4> HIDE DEF y, pc, mine
      <4> QED BY <4>1, <1>1, <1>3, CallEdits
    <3>2. /\ x.pc = pc /\ x.mine = mine /\ x.dept = y.dept /\ x.svc = y.svc
          /\ x.call = y.call /\ x.to = y.to /\ x.user = y.user /\ x.status = y.status /\ x.locked = y.locked
      BY <1>1 DEF Call
    <3> QED BY <3>1, <3>2
  <2> HIDE DEF x, mine
  <2>3. Took(x)
    BY <2>2 DEF Took
  <2>4. Fits(x)
    <3>1. x.call # "status" => x.pc = "refs"
      BY <2>2
    <3>2. x.user # Super => Wants(x) \subseteq x.mine
      BY <1>3, <1>5, <2>2 DEF Wants
    <3>3. Wants(x) = Wants(y)
      BY <2>2 DEF Wants
    <3>4. x.pc # "service" /\ (x.call = "status" => x.pc = "write")
      BY <2>2
    <3> QED BY <1>1, <1>2, <2>2, <3>1, <3>2, <3>3, <3>4 DEF Fits, Stands, Held, Took
  <2>5. \A d \in x.locked, q \in Requests : ~Deletes(q, d)
    <3> SUFFICES ASSUME NEW d \in x.locked, NEW q \in Requests, Deletes(q, d) PROVE FALSE
      OBVIOUS
    <3>1. rq[q] \in Deletion /\ rq[q].dept = d /\ q # r
      BY <1>1, RequestKind DEF Deletes
    <3>2. KeepsOff(rq[r], rq[q])
      BY <1>1, <3>1 DEF RequestsFit
    <3> QED BY <1>1, <1>2, <2>2, <3>1, <3>2 DEF KeepsOff
  <2>6. \A q \in Requests \ {r} : KeepsOff(x, rq[q]) /\ KeepsOff(rq[q], x)
    BY <1>1, <1>2, <2>2, <2>3, <2>5, HolderGoesOn
  <2>7. begun' \in 0..MaxRequests
    BY <1>1 DEF SvcTypeOK
  <2> HIDE DEF y
  <2> QED BY <1>1, <2>1, <2>2, <2>4, <2>6, <2>7, OneRequest
<1> QED BY <1>4, <1>5 DEF CheckMember

LEMMA ResolveRefsKeeps ==
    ASSUME ServicesInv, NEW r \in Requests, ResolveRefs(r) PROVE ServicesInv'
<1> DEFINE y == rq[r]
           x == [y EXCEPT !.pc = "write"]
<1>1. y \in Call /\ y.pc = "refs" /\ ServicesTyped /\ RequestsFit /\ SvcTypeOK
      /\ UNCHANGED <<pkg, trail, dept, member, begun, joined>>
  BY RequestKind DEF ResolveRefs, ServicesInv
<1>2. Stands(y) /\ Held(y) /\ Took(y)
  BY <1>1 DEF RequestsFit, Fits, Held, Took
<1>3. CASE Close(r)
  BY <1>3, <1>1, CloseKeeps
<1>4. CASE y.to \in dept /\ rq' = [rq EXCEPT ![r].pc = "write"]
  <2>1. rq' = [rq EXCEPT ![r] = x]
    BY <1>1, <1>4 DEF ServicesTyped
  <2>2. x \in Call
    BY <1>1, CallEdits
  <2>3. /\ x.pc = "write" /\ x.mine = y.mine /\ x.dept = y.dept /\ x.svc = y.svc
        /\ x.call = y.call /\ x.to = y.to /\ x.user = y.user /\ x.status = y.status /\ x.locked = y.locked
    BY <1>1 DEF Call
  <2> HIDE DEF x
  <2>4. Took(x)
    BY <2>3 DEF Took
  <2>5. Fits(x)
    <3>1. Wants(x) = Wants(y)
      BY <2>3 DEF Wants
    <3>2. y.call # "status" => y.to \in Wants(y) \cap dept
      BY <1>4 DEF Wants
    <3> QED BY <1>1, <1>2, <2>3, <3>1, <3>2 DEF Fits, Stands, Held, Took
  <2>6. \A q \in Requests \ {r} : KeepsOff(x, rq[q]) /\ KeepsOff(rq[q], x)
    <3>1. ASSUME NEW d \in x.locked, NEW q \in Requests, Deletes(q, d) PROVE FALSE
      <4>1. rq[q] \in Deletion /\ rq[q].dept = d /\ q # r
        BY <1>1, <3>1, RequestKind DEF Deletes
      <4>2. KeepsOff(rq[r], rq[q])
        BY <1>1, <4>1 DEF RequestsFit
      <4> QED BY <1>1, <1>2, <2>3, <3>1, <4>1, <4>2 DEF KeepsOff
    <3> QED BY <1>1, <1>2, <2>2, <2>3, <2>4, <3>1, HolderGoesOn
  <2>7. begun' \in 0..MaxRequests
    BY <1>1 DEF SvcTypeOK
  <2> HIDE DEF y
  <2> QED BY <1>1, <2>1, <2>2, <2>5, <2>6, <2>7, OneRequest
<1> QED BY <1>3, <1>4 DEF ResolveRefs

LEMMA RemoveLockKeeps ==
    ASSUME ServicesInv, NEW r \in Requests, NEW d \in Depts, RemoveLock(r, d) PROVE ServicesInv'
<1> DEFINE x == [pc |-> "delete", dept |-> d]
<1>1. x \in Deletion /\ x \notin Call
  BY RequestKinds DEF Deletion
<1>2. rq' = [rq EXCEPT ![r] = x] /\ UNCHANGED <<pkg, trail, dept, member, joined>>
      /\ \A q \in Requests : ~Shares(q, d)
  BY DEF RemoveLock
<1>3. begun' \in 0..MaxRequests
  BY OpenCounts DEF RemoveLock
<1>4. ASSUME NEW q \in Requests PROVE KeepsOff(x, rq[q]) /\ KeepsOff(rq[q], x)
  <2>1. Took(rq[q]) => d \notin rq[q].locked
    BY <1>2 DEF Shares, Took
  <2> QED BY <1>1, <2>1 DEF KeepsOff
<1>5. Fits(x)
  BY <1>1 DEF Fits
<1> HIDE DEF x
<1> QED BY <1>1, <1>2, <1>3, <1>4, <1>5, OneRequest

\* The department that goes belongs to no service, and no request relies on it.
LEMMA RemoveDepartmentKeeps ==
    ASSUME ServicesInv, NEW r \in Requests, RemoveDepartment(r) PROVE ServicesInv'
<1> DEFINE d == rq[r].dept
<1> USE DEF ServicesInv
<1>1. rq[r] \in Deletion /\ UNCHANGED <<pkg, trail, begun, joined>> /\ Close(r)
  BY RequestKind DEF RemoveDepartment
<1>2. CASE UNCHANGED <<dept, member>>
  BY <1>1, <1>2, CloseKeeps
<1>3. CASE /\ ~ \E s \in Packages : Registered(s) /\ DeptOf(s) = d
           /\ dept' = dept \ {d} /\ member' = {m \in member : m[2] # d}
  <2>1. rq' = [rq EXCEPT ![r] = NoRequest] /\ rq'[r] = NoRequest
        /\ rq' \in [Requests -> Call \cup Deletion \cup {NoRequest}]
        /\ \A q \in Requests \ {r} : rq'[q] = rq[q]
    BY <1>1 DEF Close, ServicesTyped
  <2>2. ServicesTyped'
    BY <1>1, <2>1 DEF ServicesTyped, Registered
  <2>3. ASSUME NEW q \in Requests PROVE Fits(rq[q])'
    <3>1. CASE q = r \/ rq[q] \notin Call
      BY <2>1, <3>1, RequestKinds DEF Fits
    <3>2. CASE q # r /\ rq[q] \in Call
      <4>1. Stands(rq[q]) /\ KeepsOff(rq[q], rq[r])
        BY <3>2 DEF RequestsFit, Fits
      <4>2. Took(rq[q]) => d \notin rq[q].locked
        BY <1>1, <3>2, <4>1 DEF KeepsOff
      <4>3. Took(rq[q]) => rq[q].locked \subseteq dept' /\ Wants(rq[q]) \cap dept' \subseteq rq[q].locked
        BY <1>3, <4>1, <4>2 DEF Stands
      <4>4. rq'[q] = rq[q] /\ UNCHANGED pkg
        BY <1>1, <2>1, <3>2
      <4> QED BY <4>1, <4>3, <4>4 DEF Fits, Stands, Held, Took, Wants, Registered, DeptOf
    <3> QED BY <3>1, <3>2
  <2>4. RequestsFit'
    <3>1. ASSUME NEW p \in Requests, NEW q \in Requests, p # q PROVE KeepsOff(rq'[p], rq'[q])
      BY <2>1, <3>1, RequestKinds DEF RequestsFit, KeepsOff
    <3> QED BY <2>3, <3>1 DEF RequestsFit, KeepsOff, Held, Took
  <2>5. SvcTypeOK'
    <3>1. \A m \in Writers \X dept : m[2] # d => m \in Writers \X (dept \ {d})
      OBVIOUS
    <3>2. member' \subseteq Writers \X dept' /\ dept' \subseteq Depts
      BY <1>3, <3>1 DEF SvcTypeOK
    <3>3. \A q \in Requests : rq'[q].pc \in {"free", "service", "depts", "member", "refs", "write", "delete"}
      BY <2>1 DEF SvcTypeOK, NoRequest
    <3> QED BY <1>1, <3>2, <3>3 DEF SvcTypeOK
  <2>6. LiveDepartment' /\ TrailReplays'
    BY <1>1, <1>3 DEF LiveDepartment, TrailReplays, Registered, DeptOf
  <2> QED BY <2>2, <2>4, <2>5, <2>6
<1> QED BY <1>2, <1>3 DEF RemoveDepartment

\* A history with one entry more.
LEMMA TrailGrows ==
    ASSUME NEW t \in Seq(Logged), NEW e \in Logged, NEW u, u = Append(t, e)
    PROVE  /\ u \in Seq(Logged) /\ Len(u) = Len(t) + 1 /\ u[Len(t) + 1] = e
           /\ \A i \in 1..Len(t) : u[i] = t[i]
           /\ Saved(u, Len(u)) = e.version
           /\ \A n \in 0..Len(t) : Saved(u, n) = Saved(t, n)
           /\ \A n \in 0..Len(t) : \A x : Leaves(t, n, x) => Leaves(u, n, x)
           /\ e.action = "status" => Leaves(u, Len(u), e.to)
           /\ \A x : e.action # "status" /\ Leaves(t, Len(t), x) => Leaves(u, Len(u), x)
<1>1. u \in Seq(Logged) /\ Len(u) = Len(t) + 1 /\ u[Len(t) + 1] = e /\ (\A i \in 1..Len(t) : u[i] = t[i])
      /\ Len(t) \in Nat
  OBVIOUS
<1>2. Saved(u, Len(u)) = e.version /\ \A n \in 0..Len(t) : Saved(u, n) = Saved(t, n)
  BY <1>1 DEF Saved
<1>3. ASSUME NEW n \in 0..Len(t), NEW x, Leaves(t, n, x) PROVE Leaves(u, n, x)
  BY <1>1, <1>3 DEF Leaves
<1>4. e.action = "status" => Leaves(u, Len(u), e.to)
  BY <1>1 DEF Leaves
<1>5. ASSUME NEW x, e.action # "status", Leaves(t, Len(t), x) PROVE Leaves(u, Len(u), x)
  <2>1. {i \in 1..Len(u) : u[i].action = "status"} = {i \in 1..Len(t) : t[i].action = "status"}
    BY <1>1, <1>5
  <2> QED BY <1>1, <1>5, <2>1 DEF Leaves
<1> QED BY <1>1, <1>2, <1>3, <1>4, <1>5

\* One service and its history, as TrailReplays relates them.
Replays(t, p) ==
    /\ p.active = Saved(t, Len(t))
    /\ \A i \in DOMAIN t : IF t[i].action = "status"
                           THEN t[i].version = Saved(t, i - 1) /\ Leaves(t, i - 1, t[i].from)
                           ELSE t[i].version = Saved(t, i - 1) + 1
    /\ p.status # "none" => Leaves(t, Len(t), p.status)

LEMMA ReplaysOne == TrailReplays <=> \A s \in Packages : Replays(trail[s], pkg[s])
BY DEF TrailReplays, Replays, Registered

LEMMA ReplaysGrows ==
    ASSUME NEW t \in Seq(Logged), NEW e \in Logged, NEW p, NEW q, Replays(t, p),
           q.active = e.version, q.status # "none",
           IF e.action = "status" THEN e.version = Saved(t, Len(t)) /\ Leaves(t, Len(t), e.from) /\ q.status = e.to
           ELSE e.version = Saved(t, Len(t)) + 1 /\ Leaves(t, Len(t), q.status)
    PROVE  Replays(Append(t, e), q)
<1> DEFINE u == Append(t, e)
<1>1. /\ u \in Seq(Logged) /\ Len(u) = Len(t) + 1 /\ u[Len(t) + 1] = e
      /\ \A i \in 1..Len(t) : u[i] = t[i]
      /\ Saved(u, Len(u)) = e.version
      /\ \A n \in 0..Len(t) : Saved(u, n) = Saved(t, n)
      /\ \A n \in 0..Len(t) : \A x : Leaves(t, n, x) => Leaves(u, n, x)
      /\ e.action = "status" => Leaves(u, Len(u), e.to)
      /\ \A x : e.action # "status" /\ Leaves(t, Len(t), x) => Leaves(u, Len(u), x)
  BY TrailGrows
<1>2. DOMAIN u = 1..(Len(t) + 1) /\ DOMAIN t = 1..Len(t) /\ Len(t) \in Nat
  BY <1>1
<1> HIDE DEF u
<1>3. ASSUME NEW i \in DOMAIN u
      PROVE  IF u[i].action = "status"
             THEN u[i].version = Saved(u, i - 1) /\ Leaves(u, i - 1, u[i].from)
             ELSE u[i].version = Saved(u, i - 1) + 1
  <2>1. CASE i = Len(t) + 1
    <3>1. i - 1 = Len(t) /\ u[i] = e /\ Len(t) \in 0..Len(t)
      BY <2>1, <1>1, <1>2
    <3> QED BY <3>1, <1>1
  <2>2. CASE i \in 1..Len(t)
    <3>1. u[i] = t[i] /\ i - 1 \in 0..Len(t) /\ i \in DOMAIN t
      BY <2>2, <1>1, <1>2
    <3> QED BY <3>1, <1>1 DEF Replays
  <2> QED BY <2>1, <2>2, <1>2
<1>4. Leaves(u, Len(u), q.status) /\ q.active = Saved(u, Len(u))
  BY <1>1
<1> QED BY <1>3, <1>4 DEF Replays, u

\* The write that ends a request: of its service, which no other request holds, and its history.
LEMMA WriterCloses ==
    ASSUME ServicesInv, NEW r \in Requests, rq[r] \in Call, Held(rq[r]), Close(r),
           UNCHANGED <<dept, member, begun, joined>>, NEW p \in Service, NEW t \in Seq(Logged),
           pkg' = [pkg EXCEPT ![rq[r].svc] = p], trail' = [trail EXCEPT ![rq[r].svc] = t],
           p.status # "none", p.active > 0, p.active = Len(p.versions), p.versions[p.active] \in dept,
           Replays(t, p)
    PROVE  ServicesInv'
<1> USE DEF ServicesInv
<1> DEFINE s == rq[r].svc
<1>1. s \in Packages
  BY DEF Call
<1>2. rq' \in [Requests -> Call \cup Deletion \cup {NoRequest}] /\ rq'[r] = NoRequest
      /\ \A q \in Requests \ {r} : rq'[q] = rq[q]
  BY DEF Close, ServicesTyped
<1>3. /\ pkg' \in [Packages -> Service] /\ pkg'[s] = p /\ \A v \in Packages \ {s} : pkg'[v] = pkg[v]
      /\ trail' \in [Packages -> Seq(Logged)] /\ trail'[s] = t
      /\ \A v \in Packages \ {s} : trail'[v] = trail[v]
  BY <1>1 DEF ServicesTyped
<1>4. ServicesTyped'
  BY <1>2, <1>3 DEF ServicesTyped, Registered
<1>5. SvcTypeOK'
  <2>1. \A q \in Requests : rq'[q].pc \in {"free", "service", "depts", "member", "refs", "write", "delete"}
    BY <1>2 DEF SvcTypeOK, NoRequest
  <2>2. \A v \in Packages : /\ pkg'[v].status \in {"none", "active", "inactive"}
                            /\ pkg'[v].versions \in Seq(Depts) /\ pkg'[v].active = Len(pkg'[v].versions)
    BY <1>3 DEF SvcTypeOK, Service, Statuses
  <2> QED BY <2>1, <2>2 DEF SvcTypeOK
<1>6. LiveDepartment'
  BY <1>3 DEF LiveDepartment, Registered, DeptOf
<1>7. TrailReplays'
  <2>1. \A v \in Packages : Replays(trail'[v], pkg'[v])
    BY <1>3, ReplaysOne
  <2> QED BY <2>1 DEF TrailReplays, Replays, Registered
<1>8. ASSUME NEW q \in Requests PROVE Fits(rq[q])'
  <2>1. CASE q = r \/ rq[q] \notin Call
    BY <1>2, <2>1, RequestKinds DEF Fits
  <2>2. CASE q # r /\ rq[q] \in Call
    <3>1. Stands(rq[q]) /\ KeepsOff(rq[q], rq[r]) /\ rq[q].svc \in Packages /\ rq'[q] = rq[q]
      BY <1>2, <2>2 DEF RequestsFit, Fits, Call
    <3>2. CASE rq[q].svc = s
      <4>1. ~Held(rq[q]) /\ rq[q].call # "create"
        BY <2>2, <3>1, <3>2 DEF KeepsOff
      <4>2. pkg'[rq[q].svc].status # "none"
        BY <1>3, <3>2
      <4> HIDE DEF s
      <4> QED BY <3>1, <4>1, <4>2 DEF Registered, Fits, Stands, Held, Took, Wants
    <3>3. CASE rq[q].svc # s
      <4>1. pkg'[rq[q].svc] = pkg[rq[q].svc]
        BY <1>3, <3>1, <3>3
      <4> QED BY <3>1, <4>1 DEF Fits, Stands, Held, Took, Wants, Registered, DeptOf
    <3> QED BY <3>2, <3>3
  <2> QED BY <2>1, <2>2
<1>9. RequestsFit'
  <2>1. ASSUME NEW a \in Requests, NEW b \in Requests, a # b PROVE KeepsOff(rq'[a], rq'[b])
    BY <1>2, <2>1, RequestKinds DEF RequestsFit, KeepsOff
  <2> QED BY <1>8, <2>1 DEF RequestsFit, KeepsOff, Held, Took
<1> QED BY <1>4, <1>5, <1>6, <1>7, <1>9

LEMMA WriteVersionKeeps ==
    ASSUME ServicesInv, NEW r \in Requests, WriteVersion(r) PROVE ServicesInv'
<1> DEFINE y == rq[r]
           s == y.svc
           v == Len(pkg[s].versions) + 1
           p == [pkg[s] EXCEPT !.status = IF v = 1 THEN "active" ELSE @, !.active = v,
                               !.versions = Append(@, y.to)]
           e == Entry(y.call, v, Null, Null)
<1>1. y \in Call /\ y.pc = "write" /\ y.call \in {"create", "update"} /\ s \in Packages /\ Close(r)
      /\ UNCHANGED <<dept, member, begun, joined>> /\ ServicesTyped /\ RequestsFit /\ SvcTypeOK
  BY RequestKind DEF WriteVersion, ServicesInv, Call
<1>2. Stands(y) /\ Held(y) /\ y.to \in dept /\ y.to \in Depts
  BY <1>1 DEF RequestsFit, Fits, Stands, Held, Took
<1>3. /\ pkg[s] \in Service /\ v \in Nat \ {0} /\ pkg[s].active = v - 1 /\ pkg[s].versions \in Seq(Depts)
      /\ pkg[s].status = "none" <=> v = 1
      /\ Replays(trail[s], pkg[s]) /\ trail[s] \in Seq(Logged)
  <2>1. pkg[s] \in Service /\ pkg[s].versions \in Seq(Depts) /\ pkg[s].active = Len(pkg[s].versions)
        /\ trail[s] \in Seq(Logged)
    BY <1>1 DEF ServicesTyped, SvcTypeOK
  <2>2. IF pkg[s].status = "none" THEN pkg[s].active = 0 ELSE pkg[s].active > 0
    BY <1>1 DEF ServicesTyped, Registered
  <2>3. Replays(trail[s], pkg[s])
    BY <1>1, ReplaysOne DEF ServicesInv
  <2> QED BY <2>1, <2>2, <2>3
<1>4. p \in Service /\ p.active = v /\ p.versions = Append(pkg[s].versions, y.to)
      /\ p.status = IF v = 1 THEN "active" ELSE pkg[s].status
  <2> DEFINE st == IF v = 1 THEN "active" ELSE pkg[s].status
             vs == Append(pkg[s].versions, y.to)
  <2>1. v \in Nat /\ st \in Statuses /\ vs \in Seq(Depts)
    BY <1>2, <1>3 DEF Service, Statuses
  <2>2. p = [pkg[s] EXCEPT !.status = st, !.active = v, !.versions = vs]
    BY <1>3 DEF Service
  <2> HIDE DEF st, v, vs, p
  <2>3. p = [status |-> st, versions |-> vs, active |-> v]
    BY <1>3, <2>2 DEF Service
  <2> QED BY <2>1, <2>3 DEF Service, st, vs
<1>5. pkg' = [pkg EXCEPT ![s] = p] /\ trail' = [trail EXCEPT ![s] = Append(@, e)]
  BY <1>1 DEF WriteVersion, ServicesTyped
<1>6. e \in Logged /\ e.action = y.call /\ e.version = v
  BY <1>1, <1>3 DEF Entry, Logged
<1> HIDE DEF p, e
<1>7. /\ p.status # "none" /\ p.active > 0 /\ p.active = Len(p.versions) /\ p.versions[p.active] = y.to
  <2>1. p.status # "none"
    BY <1>3, <1>4
  <2>2. PICK vs \in Seq(Depts) : vs = pkg[s].versions
    BY <1>3
  <2>3. v = Len(vs) + 1 /\ p.active = v /\ v > 0
    <3>1. v = Len(vs) + 1
      BY <2>2
    <3>2. v \in Nat \ {0}
      BY <1>3
    <3>3. p.active = v
      BY <1>4
    <3> HIDE DEF v
    <3> QED BY <3>1, <3>2, <3>3
  <2>4. p.versions = Append(vs, y.to) /\ y.to \in Depts
    BY <1>2, <1>4, <2>2
  <2> HIDE DEF y, s, v
  <2>5. Len(Append(vs, y.to)) = v /\ Append(vs, y.to)[v] = y.to
    BY <2>3, <2>4
  <2> QED BY <2>1, <2>3, <2>4, <2>5
<1>8. Replays(Append(trail[s], e), p)
  <2>1. e.version = Saved(trail[s], Len(trail[s])) + 1
    <3>1. pkg[s].active = Saved(trail[s], Len(trail[s]))
      BY <1>3 DEF Replays
    <3>2. pkg[s].active = v - 1 /\ v \in Nat \ {0} /\ e.version = v
      BY <1>3, <1>6
    <3> HIDE DEF s, v
    <3> QED BY <3>1, <3>2
  <2>2. Leaves(trail[s], Len(trail[s]), p.status)
    <3>1. CASE v # 1
      BY <3>1, <1>3, <1>4 DEF Replays
    <3>2. CASE v = 1
      <4>1. trail[s] = <<>> /\ p.status = "active"
        BY <3>2, <1>1, <1>3, <1>4 DEF ServicesTyped, Registered
      <4> QED BY <4>1 DEF Leaves
    <3> QED BY <3>1, <3>2
  <2> QED BY <2>1, <2>2, <1>1, <1>3, <1>4, <1>6, <1>7, ReplaysGrows
<1>9. Append(trail[s], e) \in Seq(Logged) /\ trail' = [trail EXCEPT ![s] = Append(trail[s], e)]
  BY <1>3, <1>5, <1>6
<1> HIDE DEF v
<1>10. pkg' = [pkg EXCEPT ![rq[r].svc] = p]
      /\ trail' = [trail EXCEPT ![rq[r].svc] = Append(trail[s], e)]
  BY <1>5, <1>9
<1> QED BY <1>1, <1>2, <1>4, <1>7, <1>8, <1>9, <1>10, WriterCloses

LEMMA WriteStatusKeeps ==
    ASSUME ServicesInv, NEW r \in Requests, WriteStatus(r) PROVE ServicesInv'
<1> DEFINE y == rq[r]
           s == y.svc
           p == [pkg[s] EXCEPT !.status = y.to]
           e == Entry("status", pkg[s].active, y.status, y.to)
<1>1. y \in Call /\ y.pc = "write" /\ y.call = "status" /\ s \in Packages /\ Close(r)
      /\ UNCHANGED <<dept, member, begun, joined>> /\ ServicesTyped /\ RequestsFit /\ SvcTypeOK
  BY RequestKind DEF WriteStatus, ServicesInv, Call
<1>2. Stands(y) /\ Held(y) /\ y.to \in {"active", "inactive"} /\ y.status = pkg[s].status /\ Registered(s)
  BY <1>1 DEF RequestsFit, Fits, Stands, Held
<1>3. CASE y.status = y.to
  <2>1. UNCHANGED <<pkg, trail>>
    BY <1>3 DEF WriteStatus
  <2> QED BY <2>1, <1>1, CloseKeeps
<1>4. CASE y.status # y.to
  <2>1. /\ pkg[s] \in Service /\ pkg[s].active = Len(pkg[s].versions) /\ pkg[s].active > 0
        /\ pkg[s].status # "none" /\ trail[s] \in Seq(Logged)
    BY <1>1, <1>2 DEF ServicesTyped, SvcTypeOK, Registered
  <2>2. Replays(trail[s], pkg[s]) /\ DeptOf(s) \in dept
    BY <1>1, <1>2, ReplaysOne DEF ServicesInv, LiveDepartment
  <2>3. p \in Service /\ p.active = pkg[s].active /\ p.versions = pkg[s].versions /\ p.status = y.to
    BY <2>1, <1>2 DEF Service, Statuses
  <2>4. pkg' = [pkg EXCEPT ![s] = p] /\ trail' = [trail EXCEPT ![s] = Append(@, e)]
    BY <1>1, <1>4 DEF WriteStatus, ServicesTyped
  <2>5. /\ e \in Logged /\ e.action = "status" /\ e.version = pkg[s].active
        /\ e.from = y.status /\ e.to = y.to
    BY <1>1, <1>2, <2>1 DEF Entry, Logged, Service, Statuses
  <2> HIDE DEF p, e
  <2>6. Replays(Append(trail[s], e), p)
    <3>1. e.version = Saved(trail[s], Len(trail[s])) /\ Leaves(trail[s], Len(trail[s]), e.from)
      BY <1>2, <2>1, <2>2, <2>5 DEF Replays
    <3> QED BY <1>2, <2>1, <2>2, <2>3, <2>5, <3>1, ReplaysGrows
  <2>7. Append(trail[s], e) \in Seq(Logged) /\ trail' = [trail EXCEPT ![s] = Append(trail[s], e)]
    BY <2>1, <2>4, <2>5
  <2>8. /\ pkg' = [pkg EXCEPT ![rq[r].svc] = p]
        /\ trail' = [trail EXCEPT ![rq[r].svc] = Append(trail[s], e)]
    BY <2>4, <2>7
  <2>9. p.status # "none" /\ p.active > 0 /\ p.active = Len(p.versions) /\ p.versions[p.active] \in dept
    BY <1>2, <2>1, <2>2, <2>3 DEF DeptOf
  <2> QED BY <1>1, <1>2, <2>3, <2>6, <2>7, <2>8, <2>9, WriterCloses
<1> QED BY <1>3, <1>4

LEMMA MembershipKeeps ==
    ASSUME ServicesInv, NEW u \in Writers, NEW d \in Depts, AddMember(u, d) \/ RemoveMember(u, d)
    PROVE  ServicesInv'
<1> USE DEF ServicesInv
<1>1. UNCHANGED <<pkg, trail, dept, rq, begun>>
  BY DEF AddMember, RemoveMember
<1>2. joined' \in 0..MaxMemberships
  BY RequestsAssumption DEF AddMember, RemoveMember, SvcTypeOK
<1>3. member' \subseteq Writers \X dept
  BY DEF AddMember, RemoveMember, SvcTypeOK
<1>4. SvcTypeOK'
  BY <1>1, <1>2, <1>3 DEF SvcTypeOK
<1>5. ServicesTyped' /\ LiveDepartment' /\ TrailReplays'
  BY <1>1 DEF ServicesTyped, LiveDepartment, TrailReplays, Registered, DeptOf
<1>6. RequestsFit'
  BY <1>1 DEF RequestsFit, Fits, Stands, KeepsOff, Held, Took, Wants, Registered, DeptOf
<1> QED BY <1>4, <1>5, <1>6

(***************************************************************************)
(* Data services: the properties                                           *)
(***************************************************************************)
\* What is behind the properties: whoever holds the row of a service knows the service as it is, and
\* a department it has asked for stays as long as it shares it.
THEOREM ServicesInvInvariant == SvcSpec => []ServicesInv
<1>1. SvcInit => ServicesInv
  <2> SUFFICES ASSUME SvcInit PROVE ServicesInv
    OBVIOUS
  <2>1. SvcTypeOK
    <3>1. begun \in 0..MaxRequests /\ joined \in 0..MaxMemberships
      BY RequestsAssumption DEF SvcInit
    <3>2. dept \subseteq Depts /\ member \subseteq Writers \X dept
      BY DEF SvcInit
    <3>3. \A r \in Requests : rq[r].pc = "free"
      BY DEF SvcInit, NoRequest
    <3>4. \A s \in Packages : /\ pkg[s].status = "none" /\ pkg[s].versions \in Seq(Depts)
                               /\ pkg[s].active = Len(pkg[s].versions)
      <4>1. <<>> \in Seq(Depts) /\ Len(<<>>) = 0
        OBVIOUS
      <4>2. \A s \in Packages : pkg[s].status = "none" /\ pkg[s].versions = <<>> /\ pkg[s].active = 0
        BY DEF SvcInit
      <4> QED BY <4>1, <4>2
    <3> QED BY <3>1, <3>2, <3>3, <3>4 DEF SvcTypeOK
  <2>2. ServicesTyped
    BY DEF SvcInit, ServicesTyped, Service, Statuses, Registered
  <2>3. RequestsFit
    BY RequestKinds DEF SvcInit, RequestsFit, Fits, KeepsOff
  <2>4. LiveDepartment /\ TrailReplays
    BY DEF SvcInit, LiveDepartment, TrailReplays, Registered, Saved
  <2> QED BY <2>1, <2>2, <2>3, <2>4 DEF ServicesInv
<1>2. ServicesInv /\ [SvcNext]_svcVars => ServicesInv'
  <2> SUFFICES ASSUME ServicesInv, [SvcNext]_svcVars PROVE ServicesInv'
    OBVIOUS
  <2>1. CASE UNCHANGED svcVars
    <3>1. UNCHANGED <<pkg, trail, dept, member, rq, begun, joined>>
      BY <2>1 DEF svcVars
    <3>2. SvcTypeOK'
      BY <3>1 DEF ServicesInv, SvcTypeOK
    <3>3. ServicesTyped' /\ LiveDepartment' /\ TrailReplays'
      BY <3>1 DEF ServicesInv, ServicesTyped, LiveDepartment, TrailReplays, Registered, DeptOf
    <3>4. RequestsFit'
      BY <3>1 DEF ServicesInv, RequestsFit, Fits, Stands, KeepsOff, Held, Took, Wants, Registered, DeptOf
    <3> QED BY <3>2, <3>3, <3>4 DEF ServicesInv
  <2>2. ASSUME NEW r \in Requests, AbortRequest(r) PROVE ServicesInv'
    BY <2>2, CloseKeeps DEF AbortRequest
  <2>3. ASSUME NEW r \in Requests, NEW u \in Writers, NEW s \in Packages, NEW d \in Depts,
               CreateService(r, u, s, d) \/ ChangeService(r, u, s, "update", d)
        PROVE  ServicesInv'
    BY <2>3, CreateServiceKeeps, ChangeServiceKeeps
  <2>4. ASSUME NEW r \in Requests, NEW u \in Writers, NEW s \in Packages,
               NEW st \in {"active", "inactive"}, ChangeService(r, u, s, "status", st)
        PROVE  ServicesInv'
    BY <2>4, ChangeServiceKeeps
  <2>5. ASSUME NEW r \in Requests,
               \/ LockService(r) \/ ShareDepartments(r) \/ CheckMember(r) \/ ResolveRefs(r)
               \/ WriteVersion(r) \/ WriteStatus(r) \/ RemoveDepartment(r)
        PROVE  ServicesInv'
    BY <2>5, LockServiceKeeps, ShareDepartmentsKeeps, CheckMemberKeeps, ResolveRefsKeeps,
       WriteVersionKeeps, WriteStatusKeeps, RemoveDepartmentKeeps
  <2>6. ASSUME NEW r \in Requests, NEW d \in Depts, RemoveLock(r, d) PROVE ServicesInv'
    BY <2>6, RemoveLockKeeps
  <2>7. ASSUME NEW u \in Writers, NEW d \in Depts, AddMember(u, d) \/ RemoveMember(u, d)
        PROVE  ServicesInv'
    BY <2>7, MembershipKeeps
  <2> QED BY <2>1, <2>2, <2>3, <2>4, <2>5, <2>6, <2>7 DEF SvcNext
<1> QED BY <1>1, <1>2, PTL DEF SvcSpec

\* Types; the active version of a service is its newest one, whatever requests overlap
\* (data-hub-data-service-write.service.ts update and setStatus).
THEOREM SvcTypeCorrect == SvcSpec => []SvcTypeOK
<1>1. ServicesInv => SvcTypeOK
  BY DEF ServicesInv
<1> QED BY <1>1, ServicesInvInvariant, PTL

\* No department is deleted under a service, nor under the write that puts a service into it.
THEOREM LiveDepartmentAlways == SvcSpec => []LiveDepartment
<1>1. ServicesInv => LiveDepartment
  BY DEF ServicesInv
<1> QED BY <1>1, ServicesInvInvariant, PTL

\* Whoever is about to write a service belongs to the department of the version it replaces.
THEOREM AuthorisedAlways == SvcSpec => []AuthorisedAgainstCurrent
<1>1. ServicesInv => AuthorisedAgainstCurrent
  <2> SUFFICES ASSUME ServicesInv, NEW r \in Requests,
                      rq[r].pc \in {"refs", "write"}, rq[r].user # Super, rq[r].call # "create"
               PROVE  DeptOf(rq[r].svc) \in rq[r].mine
    BY DEF AuthorisedAgainstCurrent
  <2>1. rq[r] \in Call /\ Stands(rq[r]) /\ Held(rq[r])
    BY RequestKind DEF ServicesInv, RequestsFit, Fits, Held
  <2>2. rq[r].dept \in {DeptOf(rq[r].svc), Null} /\ rq[r].dept \in rq[r].mine
    BY <2>1 DEF Stands, Wants
  <2>3. rq[r].mine \subseteq Depts
    BY <2>1 DEF Call
  <2> QED BY <2>2, <2>3, NullAssumption
<1> QED BY <1>1, ServicesInvInvariant, PTL

\* A service's history tells its versions and its status, in the order they came.
THEOREM TrailReplaysAlways == SvcSpec => []TrailReplays
<1>1. ServicesInv => TrailReplays
  BY DEF ServicesInv
<1> QED BY <1>1, ServicesInvInvariant, PTL

(***************************************************************************)
(* Imports of terms                                                        *)
(***************************************************************************)
Version == [text : Texts \cup {FirstText}, terms : SUBSET TermIds]
Fields == {"pc", "file", "todo", "named", "taken", "active", "terms", "tables"}

TermsTyped ==
    /\ DOMAIN phys = TermIds /\ Sheets \subseteq DOMAIN sheet
    /\ versions \in [Imported -> Seq(Version)] /\ \A s \in Imported : Len(versions[s]) > 0
    /\ DOMAIN meant = {"phys", "sheet", "text"}
    /\ DOMAIN meant.phys = TermIds /\ DOMAIN meant.sheet = Sheets /\ DOMAIN meant.text = Imported
    /\ DOMAIN upload = Uploaders

\* What an import has looked up when it writes: a version of every service of its file, and the tables
\* of all the terms it saw.
LookedUp(r) ==
    /\ DOMAIN r = Fields
    /\ r.todo \subseteq DOMAIN r.file /\ DOMAIN r.file \subseteq Imported
    /\ DOMAIN r.terms = DOMAIN r.tables
    /\ \A s \in DOMAIN r.terms : \A p \in DOMAIN r.terms[s] : r.terms[s][p].sheet \in DOMAIN r.tables[s]
    /\ r.pc = "versions" => r.todo = DOMAIN r.file
    /\ r.pc = "tables" => DOMAIN r.file \subseteq (r.todo \cup DOMAIN r.terms)
    /\ r.pc = "write" => r.todo \subseteq DOMAIN r.terms
VersionSeen(r) ==
    r.pc \in {"tables", "write"} =>
        \A s \in DOMAIN r.file : s \in DOMAIN r.active /\ r.active[s] \in 1..Len(versions[s])

ImportInv == /\ TermsTyped /\ SavesStand
             /\ \A u \in Uploaders : LookedUp(upload[u]) /\ VersionSeen(upload[u])

LEMMA IdleLookedUp == LookedUp(NoUpload) /\ NoUpload.pc = "idle"
<1>1. DOMAIN <<>> = {}
  OBVIOUS
<1> QED BY <1>1 DEF LookedUp, NoUpload, Fields

\* A step of an import that writes nothing.
LEMMA UploadKeeps ==
    ASSUME ImportInv, NEW u \in Uploaders, NEW r, UploadGoes(u, r), LookedUp(r), VersionSeen(r)
    PROVE  ImportInv'
<1>1. /\ upload' = [upload EXCEPT ![u] = r]
      /\ UNCHANGED <<versions, phys, sheet, meant, outdated>>
  BY DEF UploadGoes
<1>2. TermsTyped' /\ SavesStand'
  BY <1>1 DEF ImportInv, TermsTyped, SavesStand, Newest
<1>3. ASSUME NEW v \in Uploaders PROVE LookedUp(upload'[v]) /\ VersionSeen(upload[v])'
  <2>1. upload'[v] = r \/ upload'[v] = upload[v]
    BY <1>1 DEF ImportInv, TermsTyped
  <2> QED BY <1>1, <2>1 DEF ImportInv, VersionSeen
<1> QED BY <1>2, <1>3 DEF ImportInv, LookedUp

LEMMA BeginKeeps ==
    ASSUME ImportInv, NEW u \in Uploaders, NEW file \in Files, BeginImport(u, file) PROVE ImportInv'
<1> DEFINE r == [NoUpload EXCEPT !.pc = "versions", !.file = file, !.todo = DOMAIN file]
<1>1. UploadGoes(u, r)
  BY DEF BeginImport
<1>2. DOMAIN file \subseteq Imported
  BY DEF Files
<1>3. DOMAIN <<>> = {}
  OBVIOUS
<1>4. LookedUp(r) /\ VersionSeen(r)
  BY <1>2, <1>3 DEF LookedUp, VersionSeen, NoUpload, Fields
<1> HIDE DEF r
<1> QED BY <1>1, <1>4, UploadKeeps

LEMMA ReadNamesKeeps ==
    ASSUME ImportInv, NEW u \in Uploaders, ReadNames(u) PROVE ImportInv'
<1> DEFINE r == [upload[u] EXCEPT !.named = TRUE, !.taken = InUse]
<1>1. UploadGoes(u, r)
  BY DEF ReadNames
<1>2. LookedUp(upload[u]) /\ VersionSeen(upload[u])
  BY DEF ImportInv
<1>3. DOMAIN r = Fields /\ \A c \in Fields \ {"named", "taken"} : r[c] = upload[u][c]
  BY <1>2 DEF LookedUp, Fields
<1>4. /\ r.pc = upload[u].pc /\ r.file = upload[u].file /\ r.todo = upload[u].todo
      /\ r.active = upload[u].active /\ r.terms = upload[u].terms /\ r.tables = upload[u].tables
  BY <1>3 DEF Fields
<1> HIDE DEF r
<1>5. LookedUp(r) /\ VersionSeen(r)
  BY <1>2, <1>3, <1>4 DEF LookedUp, VersionSeen
<1>6. PICK q : q = r
  OBVIOUS
<1> QED BY <1>1, <1>5, <1>6, UploadKeeps

LEMMA ReadVersionsKeeps ==
    ASSUME ImportInv, NEW u \in Uploaders, ReadVersions(u) PROVE ImportInv'
<1> DEFINE r == [upload[u] EXCEPT !.pc = "tables", !.active = [s \in upload[u].todo |-> Newest(s)]]
<1>1. UploadGoes(u, r) /\ upload[u].pc = "versions"
  BY DEF ReadVersions
<1>2. LookedUp(upload[u])
  BY DEF ImportInv
<1>3. DOMAIN r = Fields /\ \A c \in Fields \ {"pc", "active"} : r[c] = upload[u][c]
  BY <1>2 DEF LookedUp, Fields
<1>4. /\ r.pc = "tables" /\ r.file = upload[u].file /\ r.todo = upload[u].todo
      /\ r.active = [s \in upload[u].todo |-> Newest(s)]
      /\ r.terms = upload[u].terms /\ r.tables = upload[u].tables
  BY <1>2, <1>3 DEF LookedUp, Fields
<1> HIDE DEF r
<1>5. LookedUp(r)
  BY <1>1, <1>2, <1>3, <1>4 DEF LookedUp
<1>6. VersionSeen(r)
  <2> SUFFICES ASSUME NEW s \in DOMAIN r.file PROVE s \in DOMAIN r.active /\ r.active[s] \in 1..Len(versions[s])
    BY DEF VersionSeen
  <2>1. s \in upload[u].todo /\ s \in Imported
    BY <1>1, <1>2, <1>4 DEF LookedUp
  <2>2. versions[s] \in Seq(Version) /\ Len(versions[s]) > 0
    BY <2>1 DEF ImportInv, TermsTyped
  <2> QED BY <1>4, <2>1, <2>2 DEF Newest
<1>7. PICK q : q = r
  OBVIOUS
<1> QED BY <1>1, <1>5, <1>6, <1>7, UploadKeeps

LEMMA ReadTablesKeeps ==
    ASSUME ImportInv, NEW u \in Uploaders, NEW s \in Imported, ReadTables(u, s) PROVE ImportInv'
<1>0. PICK ids : ids = {p \in versions[s][upload[u].active[s]].terms : phys[p].live}
  OBVIOUS
<1>a. PICK seen : seen = Restrict(phys, ids)
  OBVIOUS
<1>b. PICK tables : tables = Restrict(sheet, {phys[p].sheet : p \in ids})
  OBVIOUS
<1> DEFINE r == [upload[u] EXCEPT !.todo = @ \ {s}, !.terms = Over([x \in {s} |-> seen], @), !.tables = Over([x \in {s} |-> tables], @)]
<1>1. UploadGoes(u, r) /\ upload[u].pc = "tables" /\ s \in upload[u].todo
  BY <1>0, <1>a, <1>b DEF ReadTables
<1>2. LookedUp(upload[u]) /\ VersionSeen(upload[u])
  BY DEF ImportInv
<1>3. DOMAIN r = Fields /\ \A c \in Fields \ {"todo", "terms", "tables"} : r[c] = upload[u][c]
  BY <1>2 DEF LookedUp, Fields
<1>4. /\ r.pc = "tables" /\ r.file = upload[u].file /\ r.active = upload[u].active
      /\ r.todo = upload[u].todo \ {s}
      /\ r.terms = Over([x \in {s} |-> seen], upload[u].terms) /\ r.tables = Over([x \in {s} |-> tables], upload[u].tables)
  BY <1>1, <1>2, <1>3 DEF LookedUp, Fields
<1> HIDE DEF r
<1>5. /\ DOMAIN r.terms = DOMAIN upload[u].terms \cup {s} /\ r.terms[s] = seen
      /\ \A x \in DOMAIN upload[u].terms \ {s} : r.terms[x] = upload[u].terms[x]
  BY <1>4 DEF Over
<1>6. /\ DOMAIN r.tables = DOMAIN upload[u].tables \cup {s} /\ r.tables[s] = tables
      /\ \A x \in DOMAIN upload[u].tables \ {s} : r.tables[x] = upload[u].tables[x]
  BY <1>4 DEF Over
<1>7. \A p \in DOMAIN seen : seen[p].sheet \in DOMAIN tables
  BY <1>a, <1>b DEF Restrict
<1>8. \A x \in DOMAIN r.terms : \A p \in DOMAIN r.terms[x] : r.terms[x][p].sheet \in DOMAIN r.tables[x]
  BY <1>2, <1>5, <1>6, <1>7 DEF LookedUp
<1>9. LookedUp(r)
  BY <1>1, <1>2, <1>3, <1>4, <1>5, <1>6, <1>8 DEF LookedUp
<1>10. VersionSeen(r)
  BY <1>1, <1>2, <1>4 DEF VersionSeen
<1>11. PICK q : q = r
  OBVIOUS
<1> QED BY <1>1, <1>9, <1>10, <1>11, UploadKeeps

LEMMA PlanKeeps ==
    ASSUME ImportInv, NEW u \in Uploaders, Plan(u) PROVE ImportInv'
<1>0. PICK todo : todo = {s \in DOMAIN upload[u].file : Planned(u, s)}
  OBVIOUS
<1> DEFINE r == [upload[u] EXCEPT !.pc = "write", !.todo = todo]
<1>1. UploadGoes(u, r) /\ upload[u].pc = "tables" /\ upload[u].todo = {}
  BY <1>0 DEF Plan
<1>2. LookedUp(upload[u]) /\ VersionSeen(upload[u])
  BY DEF ImportInv
<1>3. DOMAIN r = Fields /\ \A c \in Fields \ {"pc", "todo"} : r[c] = upload[u][c]
  BY <1>2 DEF LookedUp, Fields
<1>4. /\ r.pc = "write" /\ r.todo = todo /\ r.file = upload[u].file
      /\ r.active = upload[u].active /\ r.terms = upload[u].terms /\ r.tables = upload[u].tables
  BY <1>2, <1>3 DEF LookedUp, Fields
<1> HIDE DEF r
<1>5. LookedUp(r) /\ VersionSeen(r)
  BY <1>0, <1>1, <1>2, <1>3, <1>4 DEF LookedUp, VersionSeen
<1>6. PICK q : q = r
  OBVIOUS
<1> QED BY <1>1, <1>5, <1>6, UploadKeeps

LEMMA DroppedKeeps ==
    ASSUME ImportInv, NEW u \in Uploaders, NEW s \in Imported, ImportFails(u, s) PROVE ImportInv'
<1> DEFINE r == [upload[u] EXCEPT !.todo = @ \ {s}]
<1>1. UploadGoes(u, r) /\ upload[u].pc = "write"
  BY DEF ImportFails
<1>2. LookedUp(upload[u]) /\ VersionSeen(upload[u])
  BY DEF ImportInv
<1>3. DOMAIN r = Fields /\ \A c \in Fields \ {"todo"} : r[c] = upload[u][c]
  BY <1>2 DEF LookedUp, Fields
<1>4. /\ r.pc = "write" /\ r.todo = upload[u].todo \ {s} /\ r.file = upload[u].file
      /\ r.active = upload[u].active /\ r.terms = upload[u].terms /\ r.tables = upload[u].tables
  BY <1>1, <1>2, <1>3 DEF LookedUp, Fields
<1> HIDE DEF r
<1>5. LookedUp(r) /\ VersionSeen(r)
  BY <1>1, <1>2, <1>3, <1>4 DEF LookedUp, VersionSeen
<1>6. PICK q : q = r
  OBVIOUS
<1> QED BY <1>1, <1>5, <1>6, UploadKeeps

\* A form saves: nothing but what it says changes, and it means what it says.
LEMMA FormKeeps ==
    ASSUME ImportInv, Form, TermsTyped', SavesStand',
           \A s \in Imported : Len(versions'[s]) >= Len(versions[s])
    PROVE  ImportInv'
<1>1. upload' = upload
  BY DEF Form
<1>2. ASSUME NEW u \in Uploaders PROVE LookedUp(upload[u]) /\ VersionSeen(upload[u])'
  <2>1. LookedUp(upload[u]) /\ VersionSeen(upload[u])
    BY DEF ImportInv
  <2>2. VersionSeen(upload[u])'
    <3> SUFFICES ASSUME upload[u].pc \in {"tables", "write"}, NEW s \in DOMAIN upload[u].file
                 PROVE  s \in DOMAIN upload[u].active /\ upload[u].active[s] \in 1..Len(versions'[s])
      BY <1>1 DEF VersionSeen
    <3>1. s \in Imported /\ s \in DOMAIN upload[u].active /\ upload[u].active[s] \in 1..Len(versions[s])
      BY <2>1 DEF LookedUp, VersionSeen
    <3>2. versions[s] \in Seq(Version) /\ versions'[s] \in Seq(Version)
      BY <3>1 DEF ImportInv, TermsTyped
    <3>3. Len(versions'[s]) \in Nat /\ Len(versions[s]) \in Nat /\ Len(versions'[s]) >= Len(versions[s])
      BY <3>1, <3>2
    <3> QED BY <3>1, <3>3
  <2> QED BY <2>1, <2>2
<1> QED BY <1>1, <1>2 DEF ImportInv, LookedUp

\* A service gets one more version.
LEMMA VersionAdded ==
    ASSUME ImportInv, NEW s \in Imported, NEW v \in Version, versions' = [versions EXCEPT ![s] = Append(@, v)]
    PROVE  /\ versions' \in [Imported -> Seq(Version)] /\ \A x \in Imported : Len(versions'[x]) > 0
           /\ \A x \in Imported : Len(versions'[x]) >= Len(versions[x])
           /\ versions'[s][Len(versions'[s])] = v
           /\ \A x \in Imported \ {s} : versions'[x] = versions[x]
<1>1. versions \in [Imported -> Seq(Version)] /\ \A x \in Imported : Len(versions[x]) > 0
  BY DEF ImportInv, TermsTyped
<1>2. versions[s] \in Seq(Version)
  BY <1>1
<1>3. /\ Append(versions[s], v) \in Seq(Version)
      /\ Len(Append(versions[s], v)) = Len(versions[s]) + 1
      /\ Append(versions[s], v)[Len(versions[s]) + 1] = v
  BY <1>2
<1>4. versions'[s] = Append(versions[s], v) /\ \A x \in Imported \ {s} : versions'[x] = versions[x]
  BY <1>1
<1>5. versions' \in [Imported -> Seq(Version)]
  BY <1>1, <1>3
<1>6. \A x \in Imported : Len(versions[x]) \in Nat
  BY <1>1
<1> QED BY <1>1, <1>3, <1>4, <1>5, <1>6

\* The newest version of a service is one.
LEMMA NewestText ==
    ASSUME ImportInv, NEW s \in Imported
    PROVE  versions[s][Newest(s)].text \in Texts \cup {FirstText}
<1>1. versions[s] \in Seq(Version) /\ Len(versions[s]) > 0
  BY DEF ImportInv, TermsTyped
<1>2. versions[s][Len(versions[s])] \in Version
  BY <1>1
<1> QED BY <1>2 DEF Newest, Version

LEMMA SaveTextKeeps ==
    ASSUME ImportInv, NEW s \in Imported, NEW text \in Texts, SaveText(s, text) PROVE ImportInv'
<1>1. PICK v : v = [text |-> text, terms |-> OwnTerms(s)]
  OBVIOUS
<1>2. v \in Version /\ v.text = text
  BY <1>1 DEF Version, OwnTerms
<1>3. versions' = [versions EXCEPT ![s] = Append(@, v)]
  BY <1>1 DEF SaveText
<1>4. /\ versions' \in [Imported -> Seq(Version)] /\ \A x \in Imported : Len(versions'[x]) > 0
      /\ \A x \in Imported : Len(versions'[x]) >= Len(versions[x])
      /\ versions'[s][Len(versions'[s])] = v /\ \A x \in Imported \ {s} : versions'[x] = versions[x]
  BY <1>2, <1>3, VersionAdded
<1>5. meant' = [meant EXCEPT !.text[s] = text] /\ UNCHANGED <<phys, sheet, upload, outdated>>
  BY DEF SaveText, Form
<1>6. /\ DOMAIN meant' = DOMAIN meant /\ meant'.phys = meant.phys /\ meant'.sheet = meant.sheet
      /\ meant'.text = [meant.text EXCEPT ![s] = text]
  BY <1>5 DEF ImportInv, TermsTyped
<1>7. TermsTyped'
  BY <1>4, <1>5, <1>6 DEF ImportInv, TermsTyped
<1>8. SavesStand'
  BY <1>2, <1>4, <1>5, <1>6 DEF ImportInv, TermsTyped, SavesStand, Newest
<1> QED BY <1>4, <1>7, <1>8, FormKeeps DEF SaveText

LEMMA SaveTableKeeps ==
    ASSUME ImportInv, NEW s \in Imported, NEW tb \in Sheets, NEW text \in Texts, SaveTable(s, tb, text)
    PROVE  ImportInv'
<1>1. PICK v : v = [text |-> versions[s][Newest(s)].text, terms |-> OwnTerms(s)]
  OBVIOUS
<1>2. v \in Version /\ v.text = versions[s][Newest(s)].text
  BY <1>1, NewestText DEF Version, OwnTerms
<1>3. versions' = [versions EXCEPT ![s] = Append(@, v)]
  BY <1>1 DEF SaveTable, ImportInv, TermsTyped
<1>4. /\ versions' \in [Imported -> Seq(Version)] /\ \A x \in Imported : Len(versions'[x]) > 0
      /\ \A x \in Imported : Len(versions'[x]) >= Len(versions[x])
      /\ versions'[s][Len(versions'[s])] = v /\ \A x \in Imported \ {s} : versions'[x] = versions[x]
  BY <1>2, <1>3, VersionAdded
<1>5. /\ meant' = [meant EXCEPT !.sheet[tb] = text] /\ sheet' = [sheet EXCEPT ![tb] = text]
      /\ UNCHANGED <<phys, upload, outdated>>
  BY DEF SaveTable, Form
<1>6. /\ DOMAIN meant' = DOMAIN meant /\ meant'.phys = meant.phys /\ meant'.text = meant.text
      /\ meant'.sheet = [meant.sheet EXCEPT ![tb] = text]
  BY <1>5 DEF ImportInv, TermsTyped
<1>7. TermsTyped'
  BY <1>4, <1>5, <1>6 DEF ImportInv, TermsTyped
<1>8. SavesStand'
  <2>1. \A x \in Imported : versions'[x][Newest(x)'].text = versions[x][Newest(x)].text
    BY <1>2, <1>4 DEF Newest
  <2> QED BY <2>1, <1>5, <1>6 DEF ImportInv, TermsTyped, SavesStand
<1> QED BY <1>4, <1>7, <1>8, FormKeeps DEF SaveTable

LEMMA SaveRowKeeps ==
    ASSUME ImportInv, NEW s \in Imported, NEW p \in TermIds, NEW row, SaveRow(s, p, row)
    PROVE  ImportInv'
<1>0. PICK ids : ids = (OwnTerms(s) \ {p}) \cup {q \in {p} : row.live}
  OBVIOUS
<1>1. PICK v : v = [text |-> versions[s][Newest(s)].text, terms |-> ids]
  OBVIOUS
<1>2. v \in Version /\ v.text = versions[s][Newest(s)].text
  BY <1>0, <1>1, NewestText DEF Version, OwnTerms
<1>3. versions' = [versions EXCEPT ![s] = Append(@, v)]
  BY <1>0, <1>1 DEF SaveRow, ImportInv, TermsTyped
<1>4. /\ versions' \in [Imported -> Seq(Version)] /\ \A x \in Imported : Len(versions'[x]) > 0
      /\ \A x \in Imported : Len(versions'[x]) >= Len(versions[x])
      /\ versions'[s][Len(versions'[s])] = v /\ \A x \in Imported \ {s} : versions'[x] = versions[x]
  BY <1>2, <1>3, VersionAdded
<1>5. /\ meant' = [meant EXCEPT !.phys[p] = row] /\ phys' = [phys EXCEPT ![p] = row]
      /\ UNCHANGED <<sheet, upload, outdated>>
  BY DEF SaveRow, Form
<1>6. /\ DOMAIN meant' = DOMAIN meant /\ meant'.sheet = meant.sheet /\ meant'.text = meant.text
      /\ meant'.phys = [meant.phys EXCEPT ![p] = row]
  BY <1>5 DEF ImportInv, TermsTyped
<1>7. TermsTyped'
  BY <1>4, <1>5, <1>6 DEF ImportInv, TermsTyped
<1>8. SavesStand'
  <2>1. \A x \in Imported : versions'[x][Newest(x)'].text = versions[x][Newest(x)].text
    BY <1>2, <1>4 DEF Newest
  <2> QED BY <2>1, <1>5, <1>6 DEF ImportInv, TermsTyped, SavesStand
<1> QED BY <1>4, <1>7, <1>8, FormKeeps DEF SaveRow

LEMMA SaveTermKeeps == ASSUME ImportInv, NEW s \in Imported, SaveTerm(s) PROVE ImportInv'
<1>1. ASSUME NEW p \in TermIds, NEW row, SaveRow(s, p, row) PROVE ImportInv'
  BY <1>1, SaveRowKeeps
<1>2. \E p \in TermIds : \E row : SaveRow(s, p, row)
  BY DEF SaveTerm, OwnTerms, FreeIds
<1> QED BY <1>1, <1>2

LEMMA MapTermKeeps ==
    ASSUME ImportInv, NEW p \in TermIds, NEW l \in Logical, MapTerm(p, l) PROVE ImportInv'
<1>1. /\ meant' = [meant EXCEPT !.phys[p].logical = l] /\ phys' = [phys EXCEPT ![p].logical = l]
      /\ UNCHANGED <<versions, sheet, upload, outdated>>
  BY DEF MapTerm, Form
<1>2. /\ DOMAIN meant' = DOMAIN meant /\ meant'.sheet = meant.sheet /\ meant'.text = meant.text
      /\ meant'.phys = [meant.phys EXCEPT ![p].logical = l]
  BY <1>1 DEF ImportInv, TermsTyped
<1>3. TermsTyped'
  BY <1>1, <1>2 DEF ImportInv, TermsTyped
<1>4. SavesStand'
  <2>1. \A q \in TermIds : phys[q] = meant.phys[q] => phys'[q] = meant'.phys[q]
    BY <1>1, <1>2 DEF ImportInv, TermsTyped
  <2> QED BY <2>1, <1>1, <1>2 DEF ImportInv, SavesStand, Newest
<1>5. \A s \in Imported : Len(versions'[s]) >= Len(versions[s])
  BY <1>1 DEF ImportInv, TermsTyped
<1> QED BY <1>3, <1>4, <1>5, FormKeeps DEF MapTerm

\* A service is written from what was looked up: what that takes back is on record as outdated.
LEMMA ImportWriteKeeps ==
    ASSUME ImportInv, NEW u \in Uploaders, NEW s \in Imported, ImportWrite(u, s) PROVE ImportInv'
<1>1. LookedUp(upload[u]) /\ VersionSeen(upload[u])
  BY DEF ImportInv
<1>2. PICK seen : seen = upload[u].terms[s]
  OBVIOUS
<1>3. PICK tables : tables = upload[u].tables[s]
  OBVIOUS
<1>4. PICK a : a = upload[u].active[s]
  OBVIOUS
<1>5. PICK new : new = NewTerm(u, s)
  OBVIOUS
<1>6. s \in DOMAIN upload[u].terms /\ \A p \in DOMAIN seen : seen[p].sheet \in DOMAIN tables
  BY <1>1, <1>2, <1>3 DEF ImportWrite, LookedUp
<1>7. a \in 1..Len(versions[s])
  BY <1>1, <1>4 DEF ImportWrite, LookedUp, VersionSeen
<1>8. DOMAIN seen \subseteq OwnTerms(s) /\ OwnTerms(s) \subseteq TermIds
  BY <1>2 DEF ImportWrite, Accepted, Kept, OwnTerms
<1>9. PICK deleted : deleted = [p \in OwnTerms(s) |-> [phys[p] EXCEPT !.live = FALSE]]
  OBVIOUS
<1>10. PICK id \in TermIds :
          /\ phys' = [Over(seen, Over(deleted, phys)) EXCEPT ![id] = new]
          /\ versions' = [versions EXCEPT ![s] =
                            Append(@, [text |-> @[a].text, terms |-> (DOMAIN seen) \cup {id}])]
          /\ meant' = [meant EXCEPT !.phys[id] = new]
  BY <1>2, <1>4, <1>5, <1>9 DEF ImportWrite, FreeIds, Kept
<1>11. /\ sheet' = Over(Restrict(tables, {r.sheet : r \in Range(seen)}), sheet)
       /\ upload' = [upload EXCEPT ![u].todo = @ \ {s}]
  BY <1>2, <1>3 DEF ImportWrite, Kept
\* What has not changed since.
<1>12. /\ \A x : x \in outdated => x \in outdated'
       /\ \A p \in OwnTerms(s) : <<"term", p>> \notin outdated' => p \in DOMAIN seen /\ phys[p] = seen[p]
       /\ \A tb \in DOMAIN tables : <<"table", tb>> \notin outdated' => sheet[tb] = tables[tb]
       /\ <<"service", s>> \notin outdated' => versions[s][a].text = versions[s][Newest(s)].text
  <2>1. outdated' = outdated \cup Changed(u, s)
    BY DEF ImportWrite
  <2>2. \A p \in OwnTerms(s) : <<"term", p>> \notin Changed(u, s) => p \in DOMAIN seen /\ phys[p] = seen[p]
    BY <1>2, <1>3, <1>4, Zenon DEF Changed
  <2>3. \A tb \in DOMAIN tables : <<"table", tb>> \notin Changed(u, s) => sheet[tb] = tables[tb]
    BY <1>2, <1>3, <1>4, Zenon DEF Changed
  <2>4. <<"service", s>> \notin Changed(u, s) => versions[s][a].text = versions[s][Newest(s)].text
    BY <1>2, <1>3, <1>4 DEF Changed
  <2> QED BY <2>1, <2>2, <2>3, <2>4
<1>13. PICK v : v = [text |-> versions[s][a].text, terms |-> (DOMAIN seen) \cup {id}]
  OBVIOUS
<1>14. v \in Version /\ v.text = versions[s][a].text
  <2>1. versions[s] \in Seq(Version)
    BY DEF ImportInv, TermsTyped
  <2>2. versions[s][a] \in Version
    BY <2>1, <1>7
  <2> QED BY <2>2, <1>8, <1>13 DEF Version
<1>15. versions' = [versions EXCEPT ![s] = Append(@, v)]
  BY <1>10, <1>13 DEF ImportInv, TermsTyped
<1>16. /\ versions' \in [Imported -> Seq(Version)] /\ \A x \in Imported : Len(versions'[x]) > 0
       /\ \A x \in Imported : Len(versions'[x]) >= Len(versions[x])
       /\ versions'[s][Len(versions'[s])] = v /\ \A x \in Imported \ {s} : versions'[x] = versions[x]
  BY <1>14, <1>15, VersionAdded
<1>17. /\ DOMAIN meant' = DOMAIN meant /\ meant'.sheet = meant.sheet /\ meant'.text = meant.text
       /\ meant'.phys = [meant.phys EXCEPT ![id] = new]
  BY <1>10 DEF ImportInv, TermsTyped
\* The terms and the tables afterwards.
<1>18. DOMAIN Over(seen, Over(deleted, phys)) = TermIds
  BY <1>8, <1>9 DEF Over, ImportInv, TermsTyped
<1>19. DOMAIN phys' = TermIds /\ phys'[id] = new
  BY <1>10, <1>18
<1>20. ASSUME NEW p \in TermIds, p # id
       PROVE  /\ p \in DOMAIN seen => phys'[p] = seen[p]
              /\ p \notin OwnTerms(s) => phys'[p] = phys[p]
  <2>1. phys'[p] = Over(seen, Over(deleted, phys))[p]
    BY <1>10, <1>18, <1>20
  <2>2. CASE p \in DOMAIN seen
    BY <1>8, <2>1, <2>2 DEF Over
  <2>3. CASE p \notin OwnTerms(s)
    BY <1>8, <1>9, <2>1, <2>3 DEF Over, ImportInv, TermsTyped
  <2> QED BY <2>2, <2>3
<1>21. Sheets \subseteq DOMAIN sheet'
  BY <1>11 DEF Over, ImportInv, TermsTyped
<1>22. ASSUME NEW tb \in Sheets PROVE sheet'[tb] = sheet[tb] \/ (tb \in DOMAIN tables /\ sheet'[tb] = tables[tb])
  <2>1. tb \in DOMAIN sheet
    BY DEF ImportInv, TermsTyped
  <2>2. PICK T : T = {r.sheet : r \in Range(seen)}
    OBVIOUS
  <2>3. T \subseteq DOMAIN tables
    BY <1>6, <2>2 DEF Range
  <2>4. sheet'[tb] = IF tb \in T THEN tables[tb] ELSE sheet[tb]
    BY <1>11, <2>1, <2>2 DEF Over, Restrict
  <2> QED BY <2>3, <2>4
<1>23. TermsTyped'
  <2>1. DOMAIN upload' = Uploaders
    BY <1>11 DEF ImportInv, TermsTyped
  <2> QED BY <2>1, <1>16, <1>17, <1>19, <1>21 DEF ImportInv, TermsTyped
<1>24. SavesStand'
  <2>1. ASSUME NEW p \in TermIds, <<"term", p>> \notin outdated' PROVE phys'[p] = meant'.phys[p]
    <3>1. CASE p = id
      BY <3>1, <1>17, <1>19 DEF ImportInv, TermsTyped
    <3>2. CASE p # id
      <4>1. meant'.phys[p] = phys[p]
        BY <2>1, <3>2, <1>12, <1>17 DEF ImportInv, TermsTyped, SavesStand
      <4> QED BY <4>1, <2>1, <3>2, <1>12, <1>20
    <3> QED BY <3>1, <3>2
  <2>2. ASSUME NEW tb \in Sheets, <<"table", tb>> \notin outdated' PROVE sheet'[tb] = meant'.sheet[tb]
    BY <2>2, <1>12, <1>17, <1>22 DEF ImportInv, SavesStand
  <2>3. ASSUME NEW x \in Imported, <<"service", x>> \notin outdated'
        PROVE  versions'[x][Newest(x)'].text = meant'.text[x]
    <3>1. meant'.text[x] = versions[x][Newest(x)].text
      BY <2>3, <1>12, <1>17 DEF ImportInv, SavesStand
    <3>2. CASE x = s
      BY <2>3, <3>1, <3>2, <1>12, <1>14, <1>16 DEF Newest
    <3>3. CASE x # s
      BY <3>1, <3>3, <1>16 DEF Newest
    <3> QED BY <3>2, <3>3
  <2> QED BY <2>1, <2>2, <2>3 DEF SavesStand
<1>25. ASSUME NEW w \in Uploaders PROVE LookedUp(upload'[w]) /\ VersionSeen(upload[w])'
  <2>1. LookedUp(upload[w]) /\ VersionSeen(upload[w])
    BY DEF ImportInv
  <2>2. PICK r : r = upload'[w]
    OBVIOUS
  <2>3. /\ DOMAIN r = Fields /\ r.pc = upload[w].pc /\ r.todo \subseteq upload[w].todo
        /\ (w # u => r = upload[w])
    BY <1>11, <2>1, <2>2 DEF LookedUp, Fields, ImportInv, TermsTyped
  <2>4. /\ r.file = upload[w].file /\ r.active = upload[w].active
        /\ r.terms = upload[w].terms /\ r.tables = upload[w].tables
    BY <1>11, <2>1, <2>2 DEF LookedUp, Fields, ImportInv, TermsTyped
  <2>5. upload[u].pc = "write"
    BY DEF ImportWrite
  <2>6. LookedUp(r)
    <3>1. CASE w = u
      BY <3>1, <2>1, <2>3, <2>4, <2>5 DEF LookedUp
    <3> QED BY <3>1, <2>1, <2>3
  <2>7. VersionSeen(upload[w])'
    <3> SUFFICES ASSUME r.pc \in {"tables", "write"}, NEW x \in DOMAIN r.file
                 PROVE  x \in DOMAIN r.active /\ r.active[x] \in 1..Len(versions'[x])
      BY <2>2 DEF VersionSeen
    <3>1. x \in Imported /\ x \in DOMAIN r.active /\ r.active[x] \in 1..Len(versions[x])
      BY <2>1, <2>3, <2>4 DEF LookedUp, VersionSeen
    <3>2. versions[x] \in Seq(Version) /\ versions'[x] \in Seq(Version)
      BY <3>1, <1>16 DEF ImportInv, TermsTyped
    <3>3. Len(versions'[x]) \in Nat /\ Len(versions[x]) \in Nat /\ Len(versions'[x]) >= Len(versions[x])
      BY <3>1, <3>2, <1>16
    <3> QED BY <3>1, <3>3
  <2> QED BY <2>2, <2>6, <2>7
<1> QED BY <1>23, <1>24, <1>25 DEF ImportInv, LookedUp

LEMMA ImportInit == ImpInit => ImportInv
<1> SUFFICES ASSUME ImpInit PROVE ImportInv
  OBVIOUS
<1>1. DOMAIN phys = TermIds /\ DOMAIN sheet = Sheets /\ DOMAIN upload = Uploaders
  BY DEF ImpInit
<1>2. /\ DOMAIN meant = {"phys", "sheet", "text"}
      /\ meant.phys = phys /\ meant.sheet = sheet /\ meant.text = [s \in Imported |-> FirstText]
  BY DEF ImpInit
<1>3. ASSUME NEW s \in Imported
      PROVE  versions[s] \in Seq(Version) /\ Len(versions[s]) = 1 /\ versions[s][1].text = FirstText
  <2>1. [text |-> FirstText, terms |-> OwnTerms(s)] \in Version
    BY DEF Version, OwnTerms
  <2>2. versions[s] = <<[text |-> FirstText, terms |-> OwnTerms(s)]>>
    BY DEF ImpInit
  <2> QED BY <2>1, <2>2
<1>4. versions \in [Imported -> Seq(Version)]
  BY <1>3 DEF ImpInit
<1>5. TermsTyped
  BY <1>1, <1>2, <1>3, <1>4 DEF TermsTyped
<1>6. SavesStand
  BY <1>2, <1>3 DEF SavesStand, Newest
<1>7. \A u \in Uploaders : LookedUp(upload[u]) /\ VersionSeen(upload[u])
  <2>1. \A u \in Uploaders : upload[u] = NoUpload
    BY DEF ImpInit
  <2> QED BY <2>1, IdleLookedUp DEF VersionSeen
<1> QED BY <1>5, <1>6, <1>7 DEF ImportInv

\* What an import looked up is what it writes, and what that takes back is on record.
THEOREM ImportInvInvariant == ImpSpec => []ImportInv
<1>1. ASSUME ImportInv, [ImpNext]_impVars PROVE ImportInv'
  <2>1. ASSUME NEW u \in Uploaders, NEW file \in Files, BeginImport(u, file) PROVE ImportInv'
    BY <1>1, <2>1, BeginKeeps
  <2>2. ASSUME NEW u \in Uploaders, ReadNames(u) \/ ReadVersions(u) \/ Plan(u) PROVE ImportInv'
    BY <1>1, <2>2, ReadNamesKeeps, ReadVersionsKeeps, PlanKeeps
  <2>3. ASSUME NEW u \in Uploaders, ImportEnds(u) PROVE ImportInv'
    <3>1. UploadGoes(u, NoUpload)
      BY <2>3 DEF ImportEnds
    <3>2. VersionSeen(NoUpload)
      BY IdleLookedUp DEF VersionSeen
    <3> QED BY <1>1, <3>1, <3>2, IdleLookedUp, UploadKeeps
  <2>4. ASSUME NEW u \in Uploaders, NEW s \in Imported, ReadTables(u, s) \/ ImportWrite(u, s) \/ ImportFails(u, s)
        PROVE  ImportInv'
    BY <1>1, <2>4, ReadTablesKeeps, ImportWriteKeeps, DroppedKeeps
  <2>5. ASSUME NEW s \in Imported, NEW text \in Texts, SaveText(s, text) PROVE ImportInv'
    BY <1>1, <2>5, SaveTextKeeps
  <2>6. ASSUME NEW s \in Imported, NEW text \in Texts, NEW tb \in Sheets, SaveTable(s, tb, text) PROVE ImportInv'
    BY <1>1, <2>6, SaveTableKeeps
  <2>7. ASSUME NEW s \in Imported, SaveTerm(s) PROVE ImportInv'
    BY <1>1, <2>7, SaveTermKeeps
  <2>8. ASSUME NEW p \in TermIds, NEW l \in Logical, MapTerm(p, l) PROVE ImportInv'
    BY <1>1, <2>8, MapTermKeeps
  <2>9. CASE UNCHANGED impVars
    <3>1. UNCHANGED <<versions, phys, sheet, upload, meant, outdated>>
      BY <2>9 DEF impVars
    <3>2. TermsTyped' /\ SavesStand'
      BY <1>1, <3>1 DEF ImportInv, TermsTyped, SavesStand, Newest
    <3> QED BY <1>1, <3>1, <3>2 DEF ImportInv, LookedUp, VersionSeen
  <2> QED BY <1>1, <2>1, <2>2, <2>3, <2>4, <2>5, <2>6, <2>7, <2>8, <2>9 DEF ImpNext
<1> QED BY <1>1, ImportInit, PTL DEF ImpSpec

\* What a form saved stands, whatever files are imported meanwhile, by any number of users: an import
\* changes only what had changed since it looked it up (import-source-tables.service.ts 296).
THEOREM SavesStandAlways == ImpSpec => []SavesStand
<1>1. ImportInv => SavesStand
  BY DEF ImportInv
<1> QED BY <1>1, ImportInvInvariant, PTL

(***************************************************************************)
(* The components together                                                 *)
(***************************************************************************)
\* What is proved of a component holds where TransactionsMC explores it beside the others: a step of
\* the whole is a step of one component, and of no other.
THEOREM EachPartAlone ==
    MCSpec => HubSpec /\ SvcSpec /\ AppSpec /\ RulesSpec /\ CatSpec /\ SupSpec /\ ReuseSpec /\ ImpSpec
<1> DEFINE all == <<coreVars, supVars, reuseVars, impVars, part>>
<1>1. MCInit => /\ HubInit /\ SvcInit /\ AppInit /\ RulesInit
                /\ CatInit /\ SupInit /\ ReuseInit /\ ImpInit
  BY DEF MCInit
<1>2. MCNext => /\ HubNext \/ UNCHANGED hubVars
                /\ SvcNext \/ UNCHANGED svcVars
                /\ AppNext \/ UNCHANGED appVars
                /\ RulesNext \/ UNCHANGED ruleVars
                /\ CatNext \/ UNCHANGED catVars
                /\ SupNext \/ UNCHANGED supVars
                /\ ReuseNext \/ UNCHANGED reuseVars
                /\ ImpNext \/ UNCHANGED impVars
  BY DEF MCNext, coreVars, idleVars
<1>3. UNCHANGED all => UNCHANGED <<hubVars, svcVars, appVars, ruleVars, catVars, supVars, reuseVars, impVars>>
  BY DEF coreVars
<1>4. [MCNext]_all => /\ [HubNext]_hubVars /\ [SvcNext]_svcVars /\ [AppNext]_appVars /\ [RulesNext]_ruleVars
                      /\ [CatNext]_catVars /\ [SupNext]_supVars /\ [ReuseNext]_reuseVars /\ [ImpNext]_impVars
  BY <1>2, <1>3
<1> QED
  BY <1>1, <1>4, PTL
  DEF MCSpec, HubSpec, SvcSpec, AppSpec, RulesSpec, CatSpec, SupSpec, ReuseSpec, ImpSpec

\* Types: of the Data Hub's terms and services and of the rules, as they run beside the others. Locks
\* and writes end with their transaction, a service's active version is its newest, and neither a
\* term's versions nor a rule's generations outnumber the calls that write them; a subject has one
\* junction row in a rule, but for the role in a rule written on stale knowledge.
THEOREM TypesAlwaysOK == MCSpec => []TypesOK
<1>1. HubTypeOK /\ SvcTypeOK /\ RulesTypeOK => TypesOK
  BY DEF TypesOK
<1> QED BY <1>1, EachPartAlone, HubTypeCorrect, SvcTypeCorrect, RulesTypeCorrect, PTL
=============================================================================
