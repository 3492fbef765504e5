------------------------ MODULE PackageReviewProofs ------------------------
(***************************************************************************)
(* Proofs about PackageReview and what PackageReading shows of it, for any *)
(* number of callers, any selection of endpoints and any bound on the      *)
(* rows. RowInv is about the rows and what each request remembers of them; *)
(* LockInv about the approvals under way; QueueInv about the order of the  *)
(* submissions; LadderInv about the approved numbers.  Each rests on the   *)
(* ones before it.                                                         *)
(***************************************************************************)
EXTENDS PackageReading, FiniteSetTheorems, WellFoundedInduction, TLAPS

(***************************************************************************)
(* Facts about the operators the protocol is built from                    *)
(***************************************************************************)

\* save() of a version keeps it a version, field by field.
LEMMA SavedVersion ==
    ASSUME NEW r \in Version, NEW s \in Version, NEW e \in Version
    PROVE  /\ Saved(r, s, e) \in Version
           /\ Saved(r, s, e).state = IF e.state = s.state THEN r.state ELSE e.state
           /\ Saved(r, s, e).no = IF e.no = s.no THEN r.no ELSE e.no
           /\ Saved(r, s, e).old = IF e.old = s.old THEN r.old ELSE e.old
BY DEF Saved, Version

\* save() of a package keeps it a package, field by field.
LEMMA SavedPackage ==
    ASSUME NEW r \in Package, NEW s \in Package, NEW e \in Package
    PROVE  /\ Saved(r, s, e) \in Package
           /\ Saved(r, s, e).active = IF e.active = s.active THEN r.active ELSE e.active
BY DEF Saved, Package

\* A non-empty set of numbers with an upper bound has its maximum: what MAX(version_no) returns.
LEMMA MaxOfBounded ==
    ASSUME NEW S \in SUBSET Nat, S # {}, NEW b \in Nat, \A n \in S : n <= b
    PROVE  Max(S) \in S /\ \A n \in S : n <= Max(S)
<1> DEFINE T == {b - n : n \in S}
           Less == {p \in Nat \X Nat : p[1] < p[2]}
<1>1. T \subseteq Nat /\ T # {}
  OBVIOUS
<1>2. IsWellFoundedOn(Less, Nat)
  BY NatLessThanWellFounded, Zenon DEF OpToRel
<1>3. PICK x \in T : \A y \in T : ~(<<y, x>> \in Less)
  <2> HIDE DEF T, Less
  <2> QED BY <1>1, <1>2, WFMin
<1>4. \A y \in T : x <= y
  <2> SUFFICES ASSUME NEW y \in T PROVE x <= y
    OBVIOUS
  <2>1. x \in Nat /\ y \in Nat
    BY <1>1
  <2>2. y < x => <<y, x>> \in Less
    BY <2>1
  <2> QED BY <1>3, <2>1, <2>2
<1>5. PICK m \in S : x = b - m
  OBVIOUS
<1>6. \A n \in S : m >= n
  <2> SUFFICES ASSUME NEW n \in S PROVE m >= n
    OBVIOUS
  <2>1. x <= b - n
    BY <1>4
  <2> QED BY <2>1, <1>5
<1> QED BY <1>6 DEF Max

(***************************************************************************)
(* The invariant                                                           *)
(***************************************************************************)

\* Rows are inserted in id order.
Dense == \A v \in Live, u \in VersionIds : u < v => u \in Live

\* The v-th row's numbers count at most the rows before it: MAX(version_no) is bounded by them.
Ranked(row, v) == row.no <= v /\ row.old < v
Rank == \A v \in VersionIds : Ranked(ver[v], v)

Approving(r) == r.pc \in {"approveRow", "approveLoad", "approveCommit"}
Rejecting(r) == r.pc \in {"rejectLoad", "rejectUpdate"}
Editing(r)   == r.pc \in {"editLock", "editRow"}

\* What a request under way holds in memory.
Memory(r) ==
    /\ Approving(r) \/ Rejecting(r) \/ Editing(r) => r.v \in Live
    /\ Approving(r) \/ Rejecting(r) => Ranked(r.row, r.v)
    /\ r.pc \in {"approveLoad", "approveCommit"} => r.row.state = "approved"
    /\ Rejecting(r) => r.row.state = "rejected"
    /\ r.pc = "bumpInsert" => /\ r.row.state = "pending"
                              /\ \A v \in VersionIds \ Live : Ranked(r.row, v)

RowInv == TypeOK /\ Dense /\ Rank /\ OnePending /\ \A c \in Clients : Memory(req[c])

\* The request of one caller moves on, or ends; the version rows stay.
LEMMA RequestMoves ==
    ASSUME RowInv, NEW c \in Clients, NEW r \in Request, Memory(r), Goto(c, r),
           ver' = ver, pkg' \in Package, lost' \subseteq {"approval", "promotion"}
    PROVE  RowInv'
<1>1. Live' = Live /\ Pending' = Pending
  BY DEF Live, Pending
<1>2. TypeOK'
  BY DEF RowInv, TypeOK, Goto
<1>3. Dense' /\ Rank' /\ OnePending'
  BY <1>1 DEF RowInv, Dense, Rank, Ranked, OnePending
<1>4. ASSUME NEW d \in Clients PROVE Memory(req[d])'
  <2>1. Memory(r)'
    BY <1>1 DEF Memory, Approving, Rejecting, Editing, Ranked
  <2>2. CASE d = c
    BY <2>1, <2>2 DEF Goto, RowInv, TypeOK
  <2>3. CASE d # c
    <3>1. req'[d] = req[d]
      BY <2>3 DEF Goto, RowInv, TypeOK
    <3>2. Memory(req[d])
      BY DEF RowInv
    <3> QED BY <1>1, <3>1, <3>2 DEF Memory, Approving, Rejecting, Editing, Ranked
  <2> QED BY <2>2, <2>3
<1> QED BY <1>2, <1>3, <1>4 DEF RowInv

LEMMA IdRange == \A v \in VersionIds : v \in 0..MaxVersion
BY BoundAssumption DEF VersionIds

LEMMA IdleMemory == /\ Absent \in Version /\ NewPackage \in Package
                    /\ Idle \in Request /\ Memory(Idle)
<1>1. Absent \in Version /\ NewPackage \in Package
  BY BoundAssumption DEF Absent, Version, States, NewPackage, Package, Statuses
<1>2. Idle \in Request
  BY <1>1, BoundAssumption DEF Idle, Request, Steps
<1> QED BY <1>1, <1>2 DEF Idle, Memory, Approving, Rejecting, Editing

\* One row is written by a commit that ends its request.
LEMMA RowWritten ==
    ASSUME RowInv, NEW v \in VersionIds, NEW row \in Version,
           row.state # "absent", Ranked(row, v),
           \A u \in VersionIds : u < v => u \in Live,
           row.state = "pending" => Pending \subseteq {v},
           ver' = [ver EXCEPT ![v] = row],
           req' \in [Clients -> Request],
           \A d \in Clients : req'[d] = req[d] \/ req'[d] = Idle,
           pkg' \in Package, lost' \subseteq {"approval", "promotion"}
    PROVE  RowInv'
<1>1. TypeOK'
  BY DEF RowInv, TypeOK
<1>2. Live' = Live \cup {v}
  BY DEF RowInv, TypeOK, Live
<1>3. Pending' = IF row.state = "pending" THEN {v} ELSE Pending \ {v}
  BY DEF RowInv, TypeOK, Pending
<1>4. Dense'
  BY <1>2 DEF RowInv, Dense
<1>5. Rank'
  BY DEF RowInv, TypeOK, Rank, Ranked
<1>6. OnePending'
  BY <1>3 DEF RowInv, OnePending
<1>7. ASSUME NEW d \in Clients PROVE Memory(req[d])'
  <2>1. Memory(req'[d])
    BY IdleMemory DEF RowInv
  <2> QED BY <1>2, <2>1 DEF Memory, Approving, Rejecting, Editing, Ranked
<1> QED BY <1>1, <1>4, <1>5, <1>6, <1>7 DEF RowInv

\* MAX(version_no) over the approved rows, 0 without one.
LEMMA LatestIsMax ==
    ASSUME TypeOK, Rank
    PROVE  /\ LatestApproved \in Nat
           /\ \A v \in Approved : ver[v].no <= LatestApproved
           /\ Approved = {} => LatestApproved = 0
           /\ Approved # {} => \E v \in Approved : ver[v].no = LatestApproved
<1> DEFINE S == {ver[v].no : v \in Approved}
<1>1. CASE Approved = {}
  BY <1>1 DEF LatestApproved
<1>2. CASE Approved # {}
  <2>1. S \in SUBSET Nat /\ S # {} /\ \A n \in S : n <= MaxVersion
    <3>1. \A v \in Approved : v \in VersionIds /\ ver[v].no \in Nat /\ ver[v].no <= v
      BY DEF Approved, TypeOK, Version, Rank, Ranked
    <3> QED BY <1>2, <3>1, BoundAssumption DEF VersionIds
  <2>2. Max(S) \in S /\ \A n \in S : n <= Max(S)
    <3> HIDE DEF S
    <3> QED BY <2>1, MaxOfBounded, BoundAssumption
  <2> QED BY <1>2, <2>1, <2>2 DEF LatestApproved
<1> QED BY <1>1, <1>2

(***************************************************************************)
(* Every action preserves it                                               *)
(***************************************************************************)
LEMMA StartKeepsRowInv ==
    ASSUME RowInv, NEW c \in Clients, Start(c)
    PROVE  RowInv'
<1> USE DEF RowInv
<1>1. CASE CreateNew(c)
  <2> DEFINE row == [Absent EXCEPT !.state = "pending", !.no = 1]
  <2>1. row \in Version /\ row.state = "pending" /\ Ranked(row, 1) /\ 1 \in VersionIds
    <3>1. row \in Version /\ row.state = "pending" /\ row.no = 1 /\ row.old = 0
      BY IdleMemory DEF Version, States, Absent
    <3> QED BY <3>1, BoundAssumption DEF Ranked, VersionIds
  <2>2. Pending = {} /\ \A u \in VersionIds : ~(u < 1)
    BY <1>1 DEF CreateNew, Live, Pending, VersionIds
  <2>3. pkg' \in Package
    BY <1>1, BoundAssumption DEF CreateNew, NewPackage, Package, Statuses
  <2> HIDE DEF row
  <2> QED BY <1>1, <2>1, <2>2, <2>3, RowWritten DEF CreateNew, row, TypeOK
<1>2. CASE BumpStart(c)
  <2> DEFINE r == [Idle EXCEPT !.pc = "bumpLock"]
  <2>1. r \in Request /\ Memory(r)
    BY IdleMemory DEF Request, Steps, Memory, Approving, Rejecting, Editing
  <2> QED BY <1>2, <2>1, RequestMoves DEF BumpStart, TypeOK
<1>3. ASSUME NEW v \in VersionIds, EditStart(c, v)
      PROVE  RowInv'
  <2>1. PICK so \in BOOLEAN :
          /\ v \in Live
          /\ Goto(c, [Idle EXCEPT !.pc = "editLock", !.v = v, !.so = so])
    BY <1>3 DEF EditStart, Resubmittable, Newest, Live, Pending
  <2> DEFINE r == [Idle EXCEPT !.pc = "editLock", !.v = v, !.so = so]
  <2>2. r \in Request /\ r.pc = "editLock" /\ r.v = v
    BY IdleMemory, IdRange DEF Request, Steps
  <2>3. Memory(r)
    <3> HIDE DEF r
    <3> QED BY <2>1, <2>2 DEF Memory, Approving, Rejecting, Editing
  <2> QED BY <1>3, <2>1, <2>2, <2>3, RequestMoves DEF EditStart, TypeOK
<1>4. ASSUME NEW v \in VersionIds, ApproveLock(c, v)
      PROVE  RowInv'
  <2> DEFINE r == [Idle EXCEPT !.pc = "approveRow", !.v = v, !.row = ver[v]]
  <2>1. v \in Live
    BY <1>4 DEF ApproveLock, Live
  <2>2. r \in Request /\ r.pc = "approveRow" /\ r.v = v /\ r.row = ver[v]
    BY IdleMemory, IdRange DEF TypeOK, Request, Steps
  <2>3. Memory(r)
    <3> HIDE DEF r
    <3> QED BY <2>1, <2>2 DEF Rank, Memory, Approving, Rejecting, Editing
  <2> QED BY <1>4, <2>2, <2>3, RequestMoves DEF ApproveLock, TypeOK
<1>5. ASSUME NEW v \in VersionIds, RejectRead(c, v)
      PROVE  RowInv'
  <2> DEFINE row == [ver[v] EXCEPT !.state = "rejected", !.by = c]
             r == [Idle EXCEPT !.pc = "rejectLoad", !.v = v, !.row = row]
  <2>1. v \in Live
    BY <1>5 DEF RejectRead, Live
  <2>2. row \in Version /\ Ranked(row, v) /\ row.state = "rejected"
    BY DEF TypeOK, Rank, Ranked, Version, States
  <2>3. r \in Request /\ r.pc = "rejectLoad" /\ r.v = v /\ r.row = row
    <3> HIDE DEF row
    <3> QED BY <2>2, IdleMemory, IdRange DEF Request, Steps
  <2>4. Memory(r)
    <3> HIDE DEF r, row
    <3> QED BY <2>1, <2>2, <2>3 DEF Memory, Approving, Rejecting, Editing
  <2> QED BY <1>5, <2>3, <2>4, RequestMoves DEF RejectRead, TypeOK
<1>6. ASSUME NEW s \in Statuses, ToggleRead(c, s)
      PROVE  RowInv'
  <2> DEFINE r == [Idle EXCEPT !.pc = "toggleLoad", !.pkg = [pkg EXCEPT !.status = s]]
  <2>1. r \in Request /\ Memory(r)
    BY IdleMemory DEF TypeOK, Package, Request, Steps, Memory, Approving, Rejecting, Editing
  <2> QED BY <1>6, <2>1, RequestMoves DEF ToggleRead, TypeOK
<1> QED BY <1>1, <1>2, <1>3, <1>4, <1>5, <1>6 DEF Start

\* A request that ends without writing.
LEMMA Ends ==
    ASSUME RowInv, NEW c \in Clients, Finish(c), UNCHANGED <<pkg, ver, lost>>
    PROVE  RowInv'
BY RequestMoves, IdleMemory DEF Finish, RowInv, TypeOK

\* One request reaches a step; the others and the rows stay.
Reaches(c, step) == ver' = ver /\ req'[c].pc = step /\ \A d \in Clients \ {c} : req'[d] = req[d]

LEMMA GotoReaches ==
    ASSUME RowInv, NEW c \in Clients, NEW r, Goto(c, r), ver' = ver PROVE Reaches(c, r.pc)
<1>1. DOMAIN req = Clients /\ req' = [req EXCEPT ![c] = r]
  BY DEF RowInv, TypeOK, Goto
<1> QED BY <1>1 DEF Reaches

\* The first statement of every request writes nothing.
LEMMA BumpStartReaches ==
    ASSUME RowInv, NEW c \in Clients, BumpStart(c) PROVE Reaches(c, "bumpLock")
<1> DEFINE r == [Idle EXCEPT !.pc = "bumpLock"]
<1>1. Goto(c, r) /\ ver' = ver
  BY DEF BumpStart
<1>2. r.pc = "bumpLock"
  BY DEF Idle
<1> HIDE DEF r
<1> QED BY <1>1, <1>2, GotoReaches

LEMMA ApproveLockReaches ==
    ASSUME RowInv, NEW c \in Clients, NEW v \in VersionIds, ApproveLock(c, v) PROVE Reaches(c, "approveRow")
<1> DEFINE r == [Idle EXCEPT !.pc = "approveRow", !.v = v, !.row = ver[v]]
<1>1. Goto(c, r) /\ ver' = ver
  BY DEF ApproveLock
<1>2. r.pc = "approveRow"
  BY DEF Idle
<1> HIDE DEF r
<1> QED BY <1>1, <1>2, GotoReaches

LEMMA RejectReadReaches ==
    ASSUME RowInv, NEW c \in Clients, NEW v \in VersionIds, RejectRead(c, v) PROVE Reaches(c, "rejectLoad")
<1> DEFINE r == [Idle EXCEPT !.pc = "rejectLoad", !.v = v,
                              !.row = [ver[v] EXCEPT !.state = "rejected", !.by = c]]
<1>1. Goto(c, r) /\ ver' = ver
  BY DEF RejectRead
<1>2. r.pc = "rejectLoad"
  BY DEF Idle
<1> HIDE DEF r
<1> QED BY <1>1, <1>2, GotoReaches

LEMMA ToggleReadReaches ==
    ASSUME RowInv, NEW c \in Clients, NEW s \in Statuses, ToggleRead(c, s) PROVE Reaches(c, "toggleLoad")
<1> DEFINE r == [Idle EXCEPT !.pc = "toggleLoad", !.pkg = [pkg EXCEPT !.status = s]]
<1>1. Goto(c, r) /\ ver' = ver
  BY DEF ToggleRead
<1>2. r.pc = "toggleLoad"
  BY DEF Idle
<1> HIDE DEF r
<1> QED BY <1>1, <1>2, GotoReaches

LEMMA EditStartReaches ==
    ASSUME RowInv, NEW c \in Clients, NEW v \in VersionIds, EditStart(c, v) PROVE Reaches(c, "editLock")
<1>1. PICK so \in BOOLEAN : Goto(c, [Idle EXCEPT !.pc = "editLock", !.v = v, !.so = so])
  BY DEF EditStart
<1> DEFINE r == [Idle EXCEPT !.pc = "editLock", !.v = v, !.so = so]
<1>2. Goto(c, r) /\ ver' = ver
  BY <1>1 DEF EditStart
<1>3. r.pc = "editLock"
  BY DEF Idle
<1> HIDE DEF r
<1> QED BY <1>2, <1>3, GotoReaches

\* A later statement that writes nothing.
LEMMA StepReaches ==
    ASSUME RowInv, NEW c \in Clients
    PROVE  /\ BumpLock(c) => Reaches(c, "bumpInsert")
           /\ EditLock(c) => Reaches(c, "editRow")
           /\ ApproveLoad(c) => Reaches(c, "approveCommit")
           /\ RejectLoad(c) => Reaches(c, "rejectUpdate")
           /\ ToggleLoad(c) => Reaches(c, "toggleUpdate")
<1>0. req[c] \in Request
  BY DEF RowInv, TypeOK
<1>1. ASSUME BumpLock(c) PROVE Reaches(c, "bumpInsert")
  <2> DEFINE r == [req[c] EXCEPT !.pc = "bumpInsert",
                            !.row = [state |-> "pending", no |-> IF LatestApproved = 0 THEN 1 ELSE LatestApproved,
                                     old |-> LatestApproved, by |-> None]]
  <2>1. Goto(c, r) /\ ver' = ver
    BY <1>1 DEF BumpLock
  <2>2. r.pc = "bumpInsert"
    BY <1>0 DEF Request
  <2> HIDE DEF r
  <2> QED BY <2>1, <2>2, GotoReaches
<1>2. ASSUME EditLock(c) PROVE Reaches(c, "editRow")
  <2> DEFINE r == [req[c] EXCEPT !.pc = "editRow"]
  <2>1. Goto(c, r) /\ ver' = ver
    BY <1>2 DEF EditLock
  <2>2. r.pc = "editRow"
    BY <1>0 DEF Request
  <2> HIDE DEF r
  <2> QED BY <2>1, <2>2, GotoReaches
<1>3. ASSUME ApproveLoad(c) PROVE Reaches(c, "approveCommit")
  <2> DEFINE r == [req[c] EXCEPT !.pc = "approveCommit", !.pkgDb = pkg,
                            !.pkg = [active |-> req[c].v, status |-> "active"]]
  <2>1. Goto(c, r) /\ ver' = ver
    BY <1>3 DEF ApproveLoad
  <2>2. r.pc = "approveCommit"
    BY <1>0 DEF Request
  <2> HIDE DEF r
  <2> QED BY <2>1, <2>2, GotoReaches
<1>4. ASSUME RejectLoad(c) PROVE Reaches(c, "rejectUpdate")
  <2> DEFINE r == [req[c] EXCEPT !.pc = "rejectUpdate", !.rowDb = ver[req[c].v]]
  <2>1. Goto(c, r) /\ ver' = ver
    BY <1>4 DEF RejectLoad
  <2>2. r.pc = "rejectUpdate"
    BY <1>0 DEF Request
  <2> HIDE DEF r
  <2> QED BY <2>1, <2>2, GotoReaches
<1>5. ASSUME ToggleLoad(c) PROVE Reaches(c, "toggleUpdate")
  <2> DEFINE r == [req[c] EXCEPT !.pc = "toggleUpdate", !.pkgDb = pkg]
  <2>1. Goto(c, r) /\ ver' = ver
    BY <1>5 DEF ToggleLoad
  <2>2. r.pc = "toggleUpdate"
    BY <1>0 DEF Request
  <2> HIDE DEF r
  <2> QED BY <2>1, <2>2, GotoReaches
<1> QED BY <1>1, <1>2, <1>3, <1>4, <1>5

LEMMA BumpKeepsRowInv ==
    ASSUME RowInv, NEW c \in Clients, BumpLock(c) \/ BumpInsert(c) \/ BumpConflict(c)
    PROVE  RowInv'
<1> USE DEF RowInv
<1>0. req[c] \in Request /\ Memory(req[c])
  BY DEF TypeOK
<1>1. CASE BumpLock(c)
  <2> DEFINE row == [state |-> "pending", no |-> IF LatestApproved = 0 THEN 1 ELSE LatestApproved,
                     old |-> LatestApproved, by |-> None]
             r == [req[c] EXCEPT !.pc = "bumpInsert", !.row = row]
  <2>1. row \in Version /\ row.state = "pending"
    BY LatestIsMax DEF Version, States
  <2>2. \A v \in VersionIds \ Live : Ranked(row, v)
    <3>0. LatestApproved \in Nat /\ VersionIds \subseteq Nat
      BY LatestIsMax, BoundAssumption DEF VersionIds
    <3> SUFFICES ASSUME NEW v \in VersionIds \ Live
                 PROVE  LatestApproved < v /\ 1 <= v
      BY <3>0 DEF Ranked
    <3>1. v \in Nat /\ 1 <= v
      BY BoundAssumption DEF VersionIds
    <3>2. CASE Approved = {}
      BY <3>1, <3>2, LatestIsMax
    <3>3. CASE Approved # {}
      <4>1. PICK u \in Approved : ver[u].no = LatestApproved
        BY <3>3, LatestIsMax
      <4>2. u \in Live /\ u \in VersionIds /\ LatestApproved <= u
        BY <4>1 DEF Approved, Live, Rank, Ranked
      <4>3. u < v
        BY <4>2, BoundAssumption DEF Dense, VersionIds
      <4> QED BY <3>1, <4>2, <4>3, LatestIsMax, BoundAssumption DEF VersionIds
    <3> QED BY <3>2, <3>3
  <2>3. r \in Request /\ r.pc = "bumpInsert" /\ r.row = row
    <3> HIDE DEF row
    <3> QED BY <1>0, <2>1 DEF Request, Steps
  <2>4. Memory(r)
    <3> HIDE DEF r, row
    <3> QED BY <2>1, <2>2, <2>3 DEF Memory, Approving, Rejecting, Editing
  <2>5. Goto(c, r)
    BY <1>1 DEF BumpLock
  <2> HIDE DEF r
  <2> QED BY <1>1, <2>3, <2>4, <2>5, RequestMoves DEF BumpLock, TypeOK
<1>2. CASE BumpInsert(c)
  <2>1. PICK v \in VersionIds \ Live :
          /\ \A u \in VersionIds : u < v => u \in Live
          /\ Pending \subseteq {v}
          /\ ver' = [ver EXCEPT ![v] = req[c].row]
    BY <1>2 DEF BumpInsert, PendingIndexAllows
  <2>2. req[c].row \in Version /\ req[c].row.state = "pending" /\ Ranked(req[c].row, v)
    BY <1>0, <1>2 DEF BumpInsert, At, Request, Memory
  <2>3. req' \in [Clients -> Request] /\ \A d \in Clients : req'[d] = req[d] \/ req'[d] = Idle
    BY <1>2, IdleMemory DEF BumpInsert, Finish, Goto, TypeOK
  <2> QED BY <1>2, <2>1, <2>2, <2>3, RowWritten DEF BumpInsert, TypeOK
<1>3. CASE BumpConflict(c)
  BY <1>3, Ends DEF BumpConflict
<1> QED BY <1>1, <1>2, <1>3

LEMMA EditKeepsRowInv ==
    ASSUME RowInv, NEW c \in Clients, EditLock(c) \/ EditRow(c) \/ EditRefused(c)
    PROVE  RowInv'
<1> USE DEF RowInv
<1>0. req[c] \in Request /\ Memory(req[c])
  BY DEF TypeOK
<1>1. CASE EditLock(c)
  <2> DEFINE r == [req[c] EXCEPT !.pc = "editRow"]
  <2>1. r \in Request /\ r.pc = "editRow" /\ r.v = req[c].v
    BY <1>0 DEF Request, Steps
  <2>2. Memory(r)
    <3> HIDE DEF r
    <3> QED BY <1>0, <1>1, <2>1 DEF EditLock, At, Memory, Approving, Rejecting, Editing
  <2> QED BY <1>1, <2>1, <2>2, RequestMoves DEF EditLock, TypeOK
<1>2. CASE EditRow(c)
  <2> DEFINE v == req[c].v
             row == [ver[v] EXCEPT !.state = "pending", !.by = None]
  <2>1. v \in Live /\ v \in VersionIds /\ ver[v] \in Version
    BY <1>0, <1>2 DEF EditRow, At, Memory, Editing, Live, TypeOK
  <2>2. CASE req[c].so
    BY <1>2, <2>2, Ends DEF EditRow
  <2>3. CASE ~req[c].so
    <3>1. Pending \subseteq {v} /\ ver' = [ver EXCEPT ![v] = row]
      BY <1>2, <2>1, <2>3 DEF EditRow, PendingIndexAllows, TypeOK
    <3>2. row \in Version /\ row.state = "pending" /\ Ranked(row, v)
      BY <2>1 DEF Version, States, Rank, Ranked
    <3>3. req' \in [Clients -> Request] /\ \A d \in Clients : req'[d] = req[d] \/ req'[d] = Idle
      BY <1>2, IdleMemory DEF EditRow, Finish, Goto, TypeOK
    <3>4. \A u \in VersionIds : u < v => u \in Live
      BY <2>1 DEF Dense
    <3>5. pkg' \in Package /\ lost' \subseteq {"approval", "promotion"}
      BY <1>2 DEF EditRow, TypeOK
    <3> HIDE DEF row, v
    <3> QED BY <2>1, <3>1, <3>2, <3>3, <3>4, <3>5, RowWritten
  <2> QED BY <2>2, <2>3
<1>3. CASE EditRefused(c)
  BY <1>3, Ends DEF EditRefused
<1> QED BY <1>1, <1>2, <1>3

LEMMA ApproveKeepsRowInv ==
    ASSUME RowInv, NEW c \in Clients, ApproveRow(c) \/ ApproveLoad(c) \/ ApproveCommit(c)
    PROVE  RowInv'
<1> USE DEF RowInv
<1>0. req[c] \in Request /\ Memory(req[c]) /\ req[c].row \in Version
  BY DEF TypeOK, Request
<1>1. CASE ApproveRow(c)
  <2> DEFINE n == req[c].row.old + 1
             row == [req[c].row EXCEPT !.state = "approved", !.no = n, !.by = c]
             r == [req[c] EXCEPT !.pc = "approveLoad", !.row = row]
  <2>1. CASE ~ApprovedIndexAllows(req[c].v, n)
    BY <1>1, <2>1, Ends DEF ApproveRow
  <2>2. CASE ApprovedIndexAllows(req[c].v, n)
    <3>1. Goto(c, r)
      BY <1>1, <1>0, <2>2 DEF ApproveRow, Request
    <3>2. req[c].v \in Live /\ Ranked(req[c].row, req[c].v) /\ req[c].v \in Nat
      BY <1>0, <1>1, BoundAssumption DEF ApproveRow, At, Memory, Approving, Request
    <3>3. row \in Version /\ row.state = "approved" /\ row.no = n /\ row.old = req[c].row.old
      <4>1. n \in Nat
        BY <1>0 DEF Version
      <4> HIDE DEF n
      <4> QED BY <1>0, <4>1 DEF Version, States
    <3>4. Ranked(row, req[c].v)
      <4> HIDE DEF row
      <4> QED BY <1>0, <3>2, <3>3 DEF Ranked, Version
    <3>5. r \in Request /\ r.pc = "approveLoad" /\ r.v = req[c].v /\ r.row = row
      <4> HIDE DEF row
      <4> QED BY <1>0, <3>3 DEF Request, Steps
    <3>6. Memory(r)
      <4> HIDE DEF r, row
      <4> QED BY <3>2, <3>3, <3>4, <3>5 DEF Memory, Approving, Rejecting, Editing
    <3>7. ver' = ver /\ pkg' \in Package /\ lost' \subseteq {"approval", "promotion"}
      BY <1>1 DEF ApproveRow, TypeOK
    <3> HIDE DEF r
    <3> QED BY <3>1, <3>5, <3>6, <3>7, RequestMoves
  <2> QED BY <2>1, <2>2
<1>2. CASE ApproveLoad(c)
  <2> DEFINE p == [active |-> req[c].v, status |-> "active"]
             r == [req[c] EXCEPT !.pc = "approveCommit", !.pkgDb = pkg, !.pkg = p]
  <2>1. p \in Package
    BY <1>0 DEF Request, Package, Statuses
  <2>2. r \in Request /\ r.pc = "approveCommit" /\ r.v = req[c].v /\ r.row = req[c].row
    <3> HIDE DEF p
    <3> QED BY <1>0, <2>1 DEF Request, Steps, TypeOK
  <2>3. Memory(r)
    <3> HIDE DEF r, p
    <3> QED BY <1>0, <1>2, <2>2 DEF ApproveLoad, At, Memory, Approving, Rejecting, Editing
  <2>4. Goto(c, r)
    BY <1>2 DEF ApproveLoad
  <2> HIDE DEF r
  <2> QED BY <1>2, <2>2, <2>3, <2>4, RequestMoves DEF ApproveLoad, TypeOK
<1>3. CASE ApproveCommit(c)
  <2>1. /\ req[c].v \in Live /\ req[c].v \in VersionIds
        /\ req[c].row.state = "approved" /\ Ranked(req[c].row, req[c].v)
    BY <1>0, <1>3 DEF ApproveCommit, At, Memory, Approving, Live
  <2>2. pkg' \in Package
    BY <1>0, <1>3, SavedPackage DEF ApproveCommit, TypeOK, Request
  <2>3. req' \in [Clients -> Request] /\ \A d \in Clients : req'[d] = req[d] \/ req'[d] = Idle
    BY <1>3, IdleMemory DEF ApproveCommit, Finish, Goto, TypeOK
  <2>4. \A u \in VersionIds : u < req[c].v => u \in Live
    BY <2>1 DEF Dense
  <2> QED BY <1>0, <1>3, <2>1, <2>2, <2>3, <2>4, RowWritten DEF ApproveCommit, TypeOK
<1> QED BY <1>1, <1>2, <1>3

LEMMA RejectKeepsRowInv ==
    ASSUME RowInv, NEW c \in Clients, RejectLoad(c) \/ RejectUpdate(c) \/ RejectRefused(c)
    PROVE  RowInv'
<1> USE DEF RowInv
<1>0. /\ req[c] \in Request /\ Memory(req[c])
      /\ req[c].row \in Version /\ req[c].rowDb \in Version
  BY DEF TypeOK, Request
<1>1. CASE RejectLoad(c)
  <2> DEFINE r == [req[c] EXCEPT !.pc = "rejectUpdate", !.rowDb = ver[req[c].v]]
  <2>1. ver[req[c].v] \in Version
    BY <1>0, <1>1 DEF RejectLoad, At, Memory, Rejecting, Live, TypeOK
  <2>2. r \in Request /\ r.pc = "rejectUpdate" /\ r.v = req[c].v /\ r.row = req[c].row
    BY <1>0, <2>1 DEF Request, Steps
  <2>3. Memory(r)
    <3> HIDE DEF r
    <3> QED BY <1>0, <1>1, <2>2 DEF RejectLoad, At, Memory, Approving, Rejecting, Editing
  <2>4. Goto(c, r)
    BY <1>1 DEF RejectLoad
  <2> HIDE DEF r
  <2> QED BY <1>1, <2>2, <2>3, <2>4, RequestMoves DEF RejectLoad, TypeOK
<1>2. CASE RejectUpdate(c)
  <2> DEFINE v == req[c].v
             row == Saved(ver[v], req[c].rowDb, req[c].row)
  <2>1. /\ v \in Live /\ v \in VersionIds /\ ver[v] \in Version
        /\ req[c].row.state = "rejected" /\ Ranked(req[c].row, v) /\ Ranked(ver[v], v)
    BY <1>0, <1>2 DEF RejectUpdate, At, Memory, Rejecting, Live, TypeOK, Rank
  <2>2. /\ row \in Version
        /\ row.state \in {"rejected", ver[v].state}
        /\ row.no \in {ver[v].no, req[c].row.no} /\ row.old \in {ver[v].old, req[c].row.old}
    BY <1>0, <2>1, SavedVersion
  <2>3. row.state # "absent" /\ Ranked(row, v)
    <3> HIDE DEF row
    <3> QED BY <2>1, <2>2 DEF Live, Ranked
  <2>4. row.state = "pending" => Pending \subseteq {v}
    <3> HIDE DEF row
    <3> QED BY <2>1, <2>2 DEF OnePending, Pending
  <2>5. req' \in [Clients -> Request] /\ \A d \in Clients : req'[d] = req[d] \/ req'[d] = Idle
    BY <1>2, IdleMemory DEF RejectUpdate, Finish, Goto, TypeOK
  <2>6. \A u \in VersionIds : u < v => u \in Live
    BY <2>1 DEF Dense
  <2>7. ver' = [ver EXCEPT ![v] = row] /\ pkg' \in Package /\ lost' \subseteq {"approval", "promotion"}
    BY <1>2 DEF RejectUpdate, TypeOK
  <2> HIDE DEF row, v
  <2> QED BY <2>1, <2>2, <2>3, <2>4, <2>5, <2>6, <2>7, RowWritten
<1>3. CASE RejectRefused(c)
  BY <1>3, Ends DEF RejectRefused
<1> QED BY <1>1, <1>2, <1>3

LEMMA ToggleKeepsRowInv ==
    ASSUME RowInv, NEW c \in Clients, ToggleLoad(c) \/ ToggleUpdate(c)
    PROVE  RowInv'
<1> USE DEF RowInv
<1>0. req[c] \in Request /\ Memory(req[c])
  BY DEF TypeOK
<1>1. CASE ToggleLoad(c)
  <2> DEFINE r == [req[c] EXCEPT !.pc = "toggleUpdate", !.pkgDb = pkg]
  <2>1. r \in Request /\ r.pc = "toggleUpdate"
    BY <1>0 DEF Request, Steps, TypeOK
  <2>2. Memory(r)
    <3> HIDE DEF r
    <3> QED BY <2>1 DEF Memory, Approving, Rejecting, Editing
  <2> QED BY <1>1, <2>1, <2>2, RequestMoves DEF ToggleLoad, TypeOK
<1>2. CASE ToggleUpdate(c)
  <2>1. pkg' \in Package
    BY <1>0, <1>2, SavedPackage DEF ToggleUpdate, TypeOK, Request
  <2> QED BY <1>2, <2>1, IdleMemory, RequestMoves DEF ToggleUpdate, Finish, TypeOK
<1> QED BY <1>1, <1>2

THEOREM RowInvInvariant == Spec => []RowInv
<1>1. Init => RowInv
  <2> SUFFICES ASSUME Init PROVE RowInv
    OBVIOUS
  <2>1. TypeOK
    BY IdleMemory DEF Init, TypeOK
  <2>2. Live = {} /\ Pending = {}
    BY DEF Init, Live, Pending, Absent
  <2>3. Rank
    BY BoundAssumption DEF Init, Rank, Ranked, Absent, VersionIds
  <2>4. \A c \in Clients : Memory(req[c])
    BY IdleMemory DEF Init
  <2> QED BY <2>1, <2>2, <2>3, <2>4 DEF RowInv, Dense, OnePending
<1>2. RowInv /\ [Next]_vars => RowInv'
  <2> SUFFICES ASSUME RowInv, [Next]_vars PROVE RowInv'
    OBVIOUS
  <2>1. CASE UNCHANGED vars
    BY <2>1 DEF vars, RowInv, TypeOK, Dense, Rank, Ranked, OnePending, Live, Pending,
                Memory, Approving, Rejecting, Editing
  <2>2. ASSUME NEW c \in Clients, Start(c) \/ Step(c) \/ Abort(c) \/ DeadlockVictim(c)
        PROVE  RowInv'
    <3>1. CASE Start(c)
      BY <3>1, StartKeepsRowInv
    <3>2. CASE Step(c)
      BY <3>2, BumpKeepsRowInv, EditKeepsRowInv, ApproveKeepsRowInv, RejectKeepsRowInv,
         ToggleKeepsRowInv DEF Step
    <3>3. CASE Abort(c) \/ DeadlockVictim(c)
      BY <3>3, Ends DEF Abort, DeadlockVictim
    <3> QED BY <2>2, <3>1, <3>2, <3>3
  <2> QED BY <2>1, <2>2 DEF Next
<1> QED BY <1>1, <1>2, PTL DEF Spec

(***************************************************************************)
(* The properties                                                          *)
(***************************************************************************)

\* The rows and every request keep their types in every behaviour.
THEOREM TypeCorrect == Spec => []TypeOK
BY RowInvInvariant, PTL DEF RowInv

\* Two submissions of a package are never under review at once, for any number of concurrent
\* callers, rejects that overwrite a decision included.
THEOREM OnePendingAlways == Spec => []OnePending
BY RowInvInvariant, PTL DEF RowInv

(***************************************************************************)
(* A decision is taken once: the row an approve holds is still pending,    *)
(* and no other approve holds it                                           *)
(***************************************************************************)
LockInv ==
    /\ \A c \in Clients : Approving(req[c]) => ver[req[c].v].state = "pending"
    /\ \A c, d \in Clients :
          Approving(req[c]) /\ Approving(req[d]) /\ req[c].v = req[d].v => c = d

\* The state part of ApprovalIsFinal, for one step.
FinalStep ==
    \A v \in VersionIds : ver[v].state = "approved" /\ "approval" \notin lost' => ver'[v] = ver[v]

\* No approve begins, and the rows the approves hold are left alone.
LEMMA NoNewDecider ==
    ASSUME RowInv, LockInv, NEW c \in Clients,
           \A d \in Clients \ {c} : req'[d] = req[d],
           Approving(req[c])' => Approving(req[c]) /\ req'[c].v = req[c].v,
           \A d \in Clients : Approving(req[d])' => ver'[req[d].v] = ver[req[d].v]
    PROVE  LockInv'
<1>1. \A d \in Clients : Approving(req[d])' => Approving(req[d]) /\ req'[d].v = req[d].v
  <2> SUFFICES ASSUME NEW d \in Clients, Approving(req[d])'
               PROVE  Approving(req[d]) /\ req'[d].v = req[d].v
    OBVIOUS
  <2>1. CASE d = c
    BY <2>1
  <2>2. CASE d # c
    BY <2>2 DEF Approving
  <2> QED BY <2>1, <2>2
<1> QED BY <1>1 DEF LockInv

\* A request that ends, or moves to a step that holds no version lock, and writes no row.
LEMMA LocksKept ==
    ASSUME RowInv, LockInv, NEW c \in Clients, NEW r \in Request, Goto(c, r), ver' = ver,
           Approving(r) => Approving(req[c]) /\ r.v = req[c].v
    PROVE  LockInv' /\ FinalStep
<1>1. req'[c] = r /\ \A d \in Clients \ {c} : req'[d] = req[d]
  BY DEF Goto, RowInv, TypeOK
<1>2. Approving(req[c])' => Approving(req[c]) /\ req'[c].v = req[c].v
  BY <1>1 DEF Approving
<1> QED BY <1>1, <1>2, NoNewDecider DEF FinalStep

\* The row one request writes on its way out is not approved and held by no approve but its own.
LEMMA RowDecided ==
    ASSUME RowInv, LockInv, NEW c \in Clients, NEW v \in VersionIds, Finish(c),
           \A u \in VersionIds \ {v} : ver'[u] = ver[u],
           \A d \in VersionHolders(v) : d = c,
           ver[v].state = "approved" => "approval" \in lost'
    PROVE  LockInv' /\ FinalStep
<1>1. req'[c] = Idle /\ \A d \in Clients \ {c} : req'[d] = req[d]
  BY IdleMemory DEF Finish, Goto, RowInv, TypeOK
<1>2. ~Approving(req[c])'
  BY <1>1 DEF Approving, Idle
<1>3. ASSUME NEW d \in Clients, Approving(req[d])' PROVE ver'[req[d].v] = ver[req[d].v]
  <2>1. d # c
    BY <1>2, <1>3
  <2>2. Approving(req[d])
    BY <1>1, <1>3, <2>1 DEF Approving
  <2>3. req[d].v \in VersionIds /\ req[d].v # v
    BY <2>1, <2>2 DEF RowInv, Memory, Live, VersionHolders, Approving
  <2> QED BY <2>3
<1> QED BY <1>1, <1>2, <1>3, NoNewDecider DEF FinalStep

LEMMA StartKeepsLockInv ==
    ASSUME RowInv, LockInv, NEW c \in Clients, Start(c)
    PROVE  LockInv' /\ FinalStep
<1>0. req[c] \in Request /\ ver \in [VersionIds -> Version]
  BY DEF RowInv, TypeOK
<1>1. CASE CreateNew(c)
  <2>1. \A d \in Clients : ~Approving(req[d])
    BY <1>1 DEF CreateNew, RowInv, Memory
  <2> QED BY <1>1, <2>1 DEF CreateNew, LockInv, FinalStep, Live, Approving
<1>2. ASSUME NEW v \in VersionIds, ApproveLock(c, v) PROVE LockInv' /\ FinalStep
  <2>1. /\ req'[c].v = v
        /\ \A d \in Clients \ {c} : req'[d] = req[d]
        /\ ver' = ver /\ ver[v].state = "pending"
    BY <1>2 DEF ApproveLock, Goto, Idle, RowInv, TypeOK
  <2>2. \A d \in Clients : Approving(req[d]) => req[d].v # v
    BY <1>2 DEF ApproveLock, VersionFree, VersionHolders, Approving
  <2>3. \A d \in Clients \ {c} : Approving(req[d])' <=> Approving(req[d])
    BY <2>1 DEF Approving
  <2>4. \A d \in Clients : Approving(req[d])' => ver'[req'[d].v].state = "pending"
    BY <2>1, <2>3 DEF LockInv
  <2>5. ASSUME NEW d \in Clients, NEW e \in Clients, Approving(req[d])', Approving(req[e])',
               req'[d].v = req'[e].v
        PROVE  d = e
    BY <2>1, <2>2, <2>3, <2>5 DEF LockInv
  <2> QED BY <2>1, <2>4, <2>5 DEF LockInv, FinalStep
<1>3. CASE \/ BumpStart(c)
           \/ \E v \in VersionIds : EditStart(c, v) \/ RejectRead(c, v)
           \/ \E s \in Statuses : ToggleRead(c, s)
  <2>1. /\ ver' = ver
        /\ \A d \in Clients \ {c} : req'[d] = req[d]
        /\ req'[c].pc \in {"bumpLock", "editLock", "rejectLoad", "toggleLoad"}
    <3>1. BumpStart(c) => Reaches(c, "bumpLock")
      BY BumpStartReaches
    <3>2. \A v \in VersionIds : EditStart(c, v) => Reaches(c, "editLock")
      BY EditStartReaches
    <3>4. \A v \in VersionIds : RejectRead(c, v) => Reaches(c, "rejectLoad")
      BY RejectReadReaches
    <3>5. \A s \in Statuses : ToggleRead(c, s) => Reaches(c, "toggleLoad")
      BY ToggleReadReaches
    <3>6. \/ Reaches(c, "bumpLock") \/ Reaches(c, "editLock")
          \/ Reaches(c, "rejectLoad") \/ Reaches(c, "toggleLoad")
      BY <1>3, <3>1, <3>2, <3>4, <3>5, Zenon
    <3> QED BY <3>6 DEF Reaches
  <2>2. ~Approving(req[c])'
    BY <2>1 DEF Approving
  <2> QED BY <2>1, <2>2, NoNewDecider DEF FinalStep
<1> QED BY <1>1, <1>2, <1>3 DEF Start

LEMMA StepKeepsLockInv ==
    ASSUME RowInv, LockInv, NEW c \in Clients, Step(c)
    PROVE  LockInv' /\ FinalStep
<1>0. /\ req[c] \in Request /\ Memory(req[c])
      /\ ver \in [VersionIds -> Version] /\ req \in [Clients -> Request]
  BY DEF RowInv, TypeOK
<1>1. CASE BumpLock(c) \/ EditLock(c) \/ RejectLoad(c) \/ ToggleLoad(c)
  <2>1. /\ ver' = ver
        /\ \A d \in Clients \ {c} : req'[d] = req[d]
        /\ req'[c].pc \in {"bumpInsert", "editRow", "rejectUpdate", "toggleUpdate"}
    BY <1>1, StepReaches DEF Reaches
  <2>2. ~Approving(req[c])'
    BY <2>1 DEF Approving
  <2> QED BY <2>1, <2>2, NoNewDecider DEF FinalStep
<1>2. CASE \/ BumpConflict(c) \/ EditRefused(c) \/ RejectRefused(c) \/ ToggleUpdate(c)
  <2>1. Finish(c) /\ ver' = ver
    BY <1>2 DEF BumpConflict, EditRefused, RejectRefused, ToggleUpdate
  <2> QED BY <2>1, IdleMemory, LocksKept DEF Finish, Idle, Approving
<1>3. CASE BumpInsert(c)
  <2>1. PICK v \in VersionIds \ Live : ver' = [ver EXCEPT ![v] = req[c].row]
    BY <1>3 DEF BumpInsert
  <2>2. \A d \in VersionHolders(v) : d = c
    <3>1. \A d \in VersionHolders(v) : Approving(req[d]) /\ req[d].v = v
      BY DEF VersionHolders, Approving
    <3>2. \A d \in VersionHolders(v) : v \in Live
      BY <3>1 DEF VersionHolders, RowInv, Memory
    <3> QED BY <2>1, <3>2
  <2>3. ver[v].state = "absent"
    BY <2>1 DEF Live
  <2> QED BY <1>0, <1>3, <2>1, <2>2, <2>3, RowDecided DEF BumpInsert
<1>4. CASE EditRow(c)
  <2>1. req[c].v \in VersionIds /\ ver[req[c].v].state # "approved"
    BY <1>0, <1>4 DEF EditRow, EditedState, At, Memory, Editing, Live
  <2>2. \A u \in VersionIds \ {req[c].v} : ver'[u] = ver[u]
    BY <1>0, <1>4 DEF EditRow
  <2>3. VersionHolders(req[c].v) = {} /\ Finish(c)
    BY <1>4 DEF EditRow, VersionFree
  <2> QED BY <2>1, <2>2, <2>3, RowDecided
<1>5. CASE ApproveRow(c)
  <2> DEFINE n == req[c].row.old + 1
  <2>1. CASE ~ApprovedIndexAllows(req[c].v, n)
    <3>1. Finish(c) /\ ver' = ver
      BY <1>5, <2>1 DEF ApproveRow
    <3> QED BY <3>1, IdleMemory, LocksKept DEF Finish, Idle, Approving
  <2>2. CASE ApprovedIndexAllows(req[c].v, n)
    <3> DEFINE row == [req[c].row EXCEPT !.state = "approved", !.no = n, !.by = c]
               r == [req[c] EXCEPT !.pc = "approveLoad", !.row = row]
    <3>1. Goto(c, r)
      BY <1>0, <1>5, <2>2 DEF ApproveRow, Request
    <3>2. r.v = req[c].v
      <4> HIDE DEF row
      <4> QED BY <1>0 DEF Request
    <3>3. ver' = ver /\ Approving(req[c])
      BY <1>5 DEF ApproveRow, At, Approving
    <3>4. req'[c] = r /\ \A d \in Clients \ {c} : req'[d] = req[d]
      <4> HIDE DEF r
      <4> QED BY <1>0, <3>1 DEF Goto
    <3> HIDE DEF r
    <3> QED BY <3>2, <3>3, <3>4, NoNewDecider DEF FinalStep
  <2> QED BY <2>1, <2>2
<1>6. CASE ApproveLoad(c)
  <2>1. /\ ver' = ver /\ Approving(req[c])
        /\ \A d \in Clients \ {c} : req'[d] = req[d]
        /\ req'[c].v = req[c].v
    BY <1>0, <1>6 DEF ApproveLoad, Goto, Request, At, Approving
  <2> QED BY <2>1, NoNewDecider DEF FinalStep
<1>7. CASE ApproveCommit(c)
  <2>1. Approving(req[c]) /\ req[c].v \in VersionIds
    BY <1>0, <1>7 DEF ApproveCommit, At, Approving, Memory, Live
  <2>2. ver[req[c].v].state = "pending"
    BY <2>1 DEF LockInv
  <2>3. \A d \in VersionHolders(req[c].v) : d = c
    <3>1. \A d \in VersionHolders(req[c].v) : Approving(req[d]) /\ req[d].v = req[c].v
      BY DEF VersionHolders, Approving
    <3> QED BY <2>1, <3>1 DEF LockInv, VersionHolders
  <2>4. Finish(c) /\ \A u \in VersionIds \ {req[c].v} : ver'[u] = ver[u]
    BY <1>0, <1>7 DEF ApproveCommit
  <2> QED BY <2>1, <2>2, <2>3, <2>4, RowDecided
<1>8. CASE RejectUpdate(c)
  <2>1. req[c].v \in VersionIds
    BY <1>0, <1>8 DEF RejectUpdate, At, Memory, Rejecting, Live
  <2>2. /\ Finish(c) /\ VersionHolders(req[c].v) = {}
        /\ \A u \in VersionIds \ {req[c].v} : ver'[u] = ver[u]
        /\ ver[req[c].v].state = "approved" => "approval" \in lost'
    BY <1>0, <1>8 DEF RejectUpdate, VersionFree
  <2> QED BY <2>1, <2>2, RowDecided
<1> QED BY <1>1, <1>2, <1>3, <1>4, <1>5, <1>6, <1>7, <1>8 DEF Step

THEOREM LockInvInvariant == Spec => []LockInv /\ [][FinalStep]_vars
<1>1. Init => LockInv
  BY DEF Init, LockInv, Approving, Idle
<1>2. RowInv /\ LockInv /\ [Next]_vars => LockInv' /\ [FinalStep]_vars
  <2> SUFFICES ASSUME RowInv, LockInv, [Next]_vars PROVE LockInv' /\ [FinalStep]_vars
    OBVIOUS
  <2>1. CASE UNCHANGED vars
    BY <2>1 DEF vars, LockInv, Approving
  <2>2. ASSUME NEW c \in Clients, Start(c) \/ Step(c) \/ Abort(c) \/ DeadlockVictim(c)
        PROVE  LockInv' /\ FinalStep
    <3>1. CASE Start(c) \/ Step(c)
      BY <3>1, StartKeepsLockInv, StepKeepsLockInv
    <3>2. CASE Abort(c) \/ DeadlockVictim(c)
      <4>1. Finish(c) /\ ver' = ver
        BY <3>2 DEF Abort, DeadlockVictim
      <4> QED BY <4>1, IdleMemory, LocksKept DEF Finish, Idle, Approving
    <3> QED BY <2>2, <3>1, <3>2
  <2> QED BY <2>1, <2>2 DEF Next
<1> QED BY <1>1, <1>2, RowInvInvariant, PTL DEF Spec

\* An approval is overwritten by nobody but an overtaken reject: approves, bumps, edits and
\* toggles, in any number and any order, leave every approved row as it is.
THEOREM ApprovalFinal == Spec => ApprovalIsFinal
<1>1. [FinalStep]_vars => [\A v \in VersionIds :
         ver[v].state = "approved" /\ "approval" \notin lost' => ver'[v] = ver[v]]_vars
  BY DEF FinalStep
<1> QED BY <1>1, LockInvInvariant, PTL DEF ApprovalIsFinal

(***************************************************************************)
(* Submissions come one after the other: the package lock has one holder,  *)
(* what is under review is the newest row, and so is what a resubmission   *)
(* that holds the package lock reopens                                     *)
(***************************************************************************)
OnePackageLock == \A c, d \in PackageHolders : c = d
PendingNewest  == \A v \in Pending : Newest(v)
Reopening(r)   == r.pc = "editRow" /\ ~r.so
ReopensNewest  == \A c \in Clients : Reopening(req[c]) => Newest(req[c].v)
QueueInv == OnePackageLock /\ PendingNewest /\ ReopensNewest

Holding(r) == r.pc \in {"bumpInsert", "editRow"}

\* One request moves, the rows stay.
LEMMA QueueMoves ==
    ASSUME RowInv, QueueInv, NEW c \in Clients, NEW r \in Request, Goto(c, r), ver' = ver,
           Holding(r) => Holding(req[c]) \/ PackageFree,
           Reopening(r) => Newest(r.v)
    PROVE  QueueInv'
<1>1. req'[c] = r /\ \A d \in Clients \ {c} : req'[d] = req[d]
  BY DEF Goto, RowInv, TypeOK
<1>2. OnePackageLock'
  BY <1>1 DEF QueueInv, OnePackageLock, PackageHolders, PackageFree, Holding
<1>3. PendingNewest'
  BY DEF QueueInv, PendingNewest, Pending, Newest, Live
<1>4. ReopensNewest'
  <2> SUFFICES ASSUME NEW d \in Clients, Reopening(req'[d]) PROVE Newest(req'[d].v)
    BY DEF ReopensNewest, Reopening, Newest, Live
  <2> QED BY <1>1 DEF QueueInv, ReopensNewest
<1> QED BY <1>2, <1>3, <1>4 DEF QueueInv

\* One row is written, by a commit that ends its request.
LEMMA QueueWritten ==
    ASSUME RowInv, QueueInv, NEW v \in VersionIds, NEW row \in Version, row.state # "absent",
           ver' = [ver EXCEPT ![v] = row],
           \A d \in Clients : req'[d] = req[d] \/ req'[d] = Idle,
           row.state = "pending" => \A u \in Live : u <= v,
           v \in Live \/ (Pending = {} /\ \A d \in Clients : req'[d].pc # "editRow")
    PROVE  QueueInv'
<1>1. Live' = Live \cup {v} /\ Pending' = IF row.state = "pending" THEN Pending \cup {v} ELSE Pending \ {v}
  BY DEF RowInv, TypeOK, Live, Pending
<1>2. OnePackageLock'
  BY DEF QueueInv, OnePackageLock, PackageHolders, Idle
<1>3. PendingNewest'
  <2> SUFFICES ASSUME NEW p \in Pending' PROVE p \in Live' /\ \A u \in Live' : u <= p
    BY DEF PendingNewest, Newest
  <2>1. CASE p = v
    BY <1>1, <2>1, BoundAssumption DEF VersionIds
  <2>2. CASE p # v
    BY <1>1, <2>2 DEF QueueInv, PendingNewest, Newest
  <2> QED BY <2>1, <2>2
<1>4. ReopensNewest'
  <2> SUFFICES ASSUME NEW d \in Clients, Reopening(req'[d])
               PROVE  req'[d].v \in Live' /\ \A u \in Live' : u <= req'[d].v
    BY DEF ReopensNewest, Reopening, Newest
  <2>1. req'[d] = req[d] /\ Newest(req[d].v)
    BY DEF Reopening, Idle, QueueInv, ReopensNewest
  <2> QED BY <1>1, <2>1 DEF Reopening, Newest
<1> QED BY <1>2, <1>3, <1>4 DEF QueueInv

LEMMA QueueEnds ==
    ASSUME RowInv, QueueInv, NEW c \in Clients, Finish(c), ver' = ver
    PROVE  QueueInv'
BY QueueMoves, IdleMemory DEF Finish, Holding, Reopening, Idle

LEMMA StartKeepsQueue == ASSUME RowInv, QueueInv, NEW c \in Clients, Start(c) PROVE QueueInv'
<1>1. CASE CreateNew(c)
  <2> DEFINE row == [Absent EXCEPT !.state = "pending", !.no = 1]
  <2>1. row \in Version /\ row.state = "pending" /\ 1 \in VersionIds
    <3>1. row \in Version /\ row.state = "pending"
      BY IdleMemory DEF Version, States, Absent
    <3> QED BY <3>1, BoundAssumption DEF VersionIds
  <2>2. Live = {} /\ Pending = {} /\ req' = req /\ ver' = [ver EXCEPT ![1] = row]
    BY <1>1 DEF CreateNew, Live, Pending
  <2>3. \A d \in Clients : req'[d].pc # "editRow"
    BY <2>2 DEF RowInv, Memory, Editing
  <2> HIDE DEF row
  <2> QED BY <2>1, <2>2, <2>3, QueueWritten
<1>2. CASE \/ BumpStart(c)
           \/ \E v \in VersionIds : EditStart(c, v) \/ ApproveLock(c, v) \/ RejectRead(c, v)
           \/ \E s \in Statuses : ToggleRead(c, s)
  <2>1. /\ ver' = ver
        /\ \A d \in Clients \ {c} : req'[d] = req[d]
        /\ req'[c].pc \in {"bumpLock", "editLock", "approveRow", "rejectLoad", "toggleLoad"}
    <3>1. BumpStart(c) => Reaches(c, "bumpLock")
      BY BumpStartReaches
    <3>2. \A v \in VersionIds : EditStart(c, v) => Reaches(c, "editLock")
      BY EditStartReaches
    <3>3. \A v \in VersionIds : ApproveLock(c, v) => Reaches(c, "approveRow")
      BY ApproveLockReaches
    <3>4. \A v \in VersionIds : RejectRead(c, v) => Reaches(c, "rejectLoad")
      BY RejectReadReaches
    <3>5. \A s \in Statuses : ToggleRead(c, s) => Reaches(c, "toggleLoad")
      BY ToggleReadReaches
    <3>6. \/ Reaches(c, "bumpLock") \/ Reaches(c, "editLock") \/ Reaches(c, "approveRow")
          \/ Reaches(c, "rejectLoad") \/ Reaches(c, "toggleLoad")
      BY <1>2, <3>1, <3>2, <3>3, <3>4, <3>5, Zenon
    <3> QED BY <3>6 DEF Reaches
  <2>2. OnePackageLock'
    BY <2>1 DEF QueueInv, OnePackageLock, PackageHolders
  <2>3. PendingNewest' /\ ReopensNewest'
    BY <2>1 DEF QueueInv, PendingNewest, ReopensNewest, Reopening, Pending, Newest, Live
  <2> QED BY <2>2, <2>3 DEF QueueInv
<1> QED BY <1>1, <1>2 DEF Start

LEMMA StepKeepsQueue == ASSUME RowInv, LockInv, QueueInv, NEW c \in Clients, Step(c) PROVE QueueInv'
<1>0. /\ req[c] \in Request /\ Memory(req[c]) /\ req[c].row \in Version /\ req[c].rowDb \in Version
      /\ ver \in [VersionIds -> Version] /\ req \in [Clients -> Request]
  BY DEF RowInv, TypeOK, Request
<1>1. CASE BumpLock(c) \/ EditLock(c)
  <2>1. /\ ver' = ver /\ PackageHolders = {}
        /\ \A d \in Clients \ {c} : req'[d] = req[d]
        /\ req'[c].pc \in {"bumpInsert", "editRow"}
        /\ Reopening(req'[c]) => Newest(req'[c].v)
    <3>1. PackageHolders = {}
      BY <1>1 DEF BumpLock, EditLock, PackageFree
    <3>2. CASE BumpLock(c)
      BY <3>1, <3>2, StepReaches DEF Reaches, Reopening
    <3>3. CASE EditLock(c)
      <4>1. req'[c] = [req[c] EXCEPT !.pc = "editRow"]
        BY <1>0, <3>3 DEF EditLock, Goto
      <4>2. req'[c].so = req[c].so /\ req'[c].v = req[c].v
        BY <1>0, <4>1 DEF Request
      <4>3. req[c].so \/ Newest(req[c].v)
        BY <3>3 DEF EditLock, Resubmittable
      <4> QED BY <3>1, <3>3, <4>2, <4>3, StepReaches DEF Reaches, Reopening
    <3> QED BY <1>1, <3>2, <3>3
  <2>2. OnePackageLock'
    BY <2>1 DEF OnePackageLock, PackageHolders
  <2>3. PendingNewest' /\ ReopensNewest'
    BY <2>1 DEF QueueInv, PendingNewest, ReopensNewest, Reopening, Pending, Newest, Live
  <2> QED BY <2>2, <2>3 DEF QueueInv
<1>2. CASE BumpInsert(c)
  <2>1. PICK v \in VersionIds \ Live :
          /\ \A u \in VersionIds : u < v => u \in Live
          /\ Pending \subseteq {v}
          /\ ver' = [ver EXCEPT ![v] = req[c].row]
    BY <1>2 DEF BumpInsert, PendingIndexAllows
  <2>2. req[c].row.state = "pending" /\ c \in PackageHolders
    BY <1>0, <1>2 DEF BumpInsert, At, Memory, PackageHolders
  <2>3. Pending = {} /\ \A u \in Live : u <= v
    <3>1. \A u \in Live : ~(v < u)
      BY <2>1 DEF RowInv, Dense
    <3> QED BY <2>1, <3>1, BoundAssumption DEF Pending, Live, VersionIds
  <2>4. req'[c] = Idle /\ \A d \in Clients \ {c} : req'[d] = req[d]
    BY <1>0, <1>2 DEF BumpInsert, Finish, Goto
  <2>5. \A d \in Clients : req'[d].pc # "editRow"
    BY <2>2, <2>4 DEF QueueInv, OnePackageLock, PackageHolders, Idle
  <2> QED BY <1>0, <2>1, <2>2, <2>3, <2>4, <2>5, QueueWritten
<1>3. CASE \/ BumpConflict(c) \/ EditRefused(c) \/ RejectRefused(c) \/ ToggleUpdate(c)
  BY <1>3, QueueEnds DEF BumpConflict, EditRefused, RejectRefused, ToggleUpdate
<1>4. CASE EditRow(c)
  <2> DEFINE v == req[c].v
             row == [ver[v] EXCEPT !.state = "pending", !.by = None]
  <2>1. v \in Live /\ v \in VersionIds /\ ver[v] \in Version /\ Finish(c)
    BY <1>0, <1>4 DEF EditRow, At, Memory, Editing, Live
  <2>2. CASE req[c].so
    BY <1>4, <2>1, <2>2, QueueEnds DEF EditRow
  <2>3. CASE ~req[c].so
    <3>1. Newest(v) /\ ver' = [ver EXCEPT ![v] = row]
      BY <1>0, <1>4, <2>1, <2>3 DEF EditRow, At, QueueInv, ReopensNewest, Reopening
    <3>2. row \in Version /\ row.state = "pending"
      BY <2>1 DEF Version, States
    <3>3. \A d \in Clients : req'[d] = req[d] \/ req'[d] = Idle
      BY <1>0, <2>1 DEF Finish, Goto
    <3> HIDE DEF row, v
    <3> QED BY <2>1, <3>1, <3>2, <3>3, QueueWritten DEF Newest
  <2> QED BY <2>2, <2>3
<1>5. CASE ApproveRow(c) \/ ApproveLoad(c) \/ RejectLoad(c) \/ ToggleLoad(c)
  <2>1. /\ ver' = ver
        /\ \A d \in Clients \ {c} : req'[d] = req[d]
        /\ req'[c].pc \in {"idle", "approveLoad", "approveCommit", "rejectUpdate", "toggleUpdate"}
    <3>1. CASE ApproveRow(c)
      <4> DEFINE n == req[c].row.old + 1
                 row == [req[c].row EXCEPT !.state = "approved", !.no = n, !.by = c]
                 r == [req[c] EXCEPT !.pc = "approveLoad", !.row = row]
      <4>1. ver' = ver /\ (Goto(c, r) \/ Goto(c, Idle))
        BY <1>0, <3>1 DEF ApproveRow, Request, Finish
      <4>2. r.pc = "approveLoad" /\ Idle.pc = "idle"
        <5> HIDE DEF row
        <5> QED BY <1>0 DEF Request, Idle
      <4> HIDE DEF r
      <4> QED BY <1>0, <4>1, <4>2 DEF Goto
    <3>2. CASE ApproveLoad(c) \/ RejectLoad(c) \/ ToggleLoad(c)
      BY <3>2, StepReaches DEF Reaches
    <3> QED BY <1>5, <3>1, <3>2
  <2>2. OnePackageLock'
    BY <2>1 DEF QueueInv, OnePackageLock, PackageHolders
  <2>3. PendingNewest' /\ ReopensNewest'
    BY <2>1 DEF QueueInv, PendingNewest, ReopensNewest, Reopening, Pending, Newest, Live
  <2> QED BY <2>2, <2>3 DEF QueueInv
<1>6. CASE ApproveCommit(c)
  <2>1. req[c].v \in Live /\ req[c].v \in VersionIds /\ req[c].row.state = "approved"
    BY <1>0, <1>6 DEF ApproveCommit, At, Memory, Approving, Live
  <2>2. ver' = [ver EXCEPT ![req[c].v] = req[c].row]
        /\ \A d \in Clients : req'[d] = req[d] \/ req'[d] = Idle
    BY <1>0, <1>6 DEF ApproveCommit, Finish, Goto
  <2> QED BY <1>0, <2>1, <2>2, QueueWritten
<1>7. CASE RejectUpdate(c)
  <2> DEFINE v == req[c].v
             row == Saved(ver[v], req[c].rowDb, req[c].row)
  <2>1. v \in Live /\ v \in VersionIds /\ ver[v] \in Version /\ req[c].row.state = "rejected"
    BY <1>0, <1>7 DEF RejectUpdate, At, Memory, Rejecting, Live
  <2>2. row \in Version /\ row.state \in {"rejected", ver[v].state}
    BY <1>0, <2>1, SavedVersion
  <2>3. ver' = [ver EXCEPT ![v] = row] /\ \A d \in Clients : req'[d] = req[d] \/ req'[d] = Idle
    BY <1>0, <1>7 DEF RejectUpdate, Finish, Goto
  <2> HIDE DEF row
  <2>4. row.state = "pending" => \A u \in Live : u <= v
    BY <2>1, <2>2 DEF QueueInv, PendingNewest, Pending, Newest
  <2>5. row.state # "absent"
    BY <2>1, <2>2 DEF Live
  <2> HIDE DEF v
  <2> QED BY <2>1, <2>2, <2>3, <2>4, <2>5, QueueWritten
<1> QED BY <1>1, <1>2, <1>3, <1>4, <1>5, <1>6, <1>7 DEF Step

\* Submissions come one after the other.
THEOREM QueueInvInvariant == Spec => []QueueInv
<1>1. Init => QueueInv
  BY DEF Init, QueueInv, OnePackageLock, PackageHolders, PendingNewest, Pending, Absent,
         ReopensNewest, Reopening, Idle
<1>2. RowInv /\ LockInv /\ QueueInv /\ [Next]_vars => QueueInv'
  <2> SUFFICES ASSUME RowInv, LockInv, QueueInv, [Next]_vars PROVE QueueInv'
    OBVIOUS
  <2>1. CASE UNCHANGED vars
    BY <2>1 DEF vars, QueueInv, OnePackageLock, PackageHolders, PendingNewest, Pending, Newest, Live,
                ReopensNewest, Reopening
  <2>2. ASSUME NEW c \in Clients, Start(c) \/ Step(c) \/ Abort(c) \/ DeadlockVictim(c)
        PROVE  QueueInv'
    <3>1. CASE Abort(c) \/ DeadlockVictim(c)
      BY <3>1, QueueEnds DEF Abort, DeadlockVictim
    <3> QED BY <2>2, <3>1, StartKeepsQueue, StepKeepsQueue
  <2> QED BY <2>1, <2>2 DEF Next
<1> QED BY <1>1, <1>2, RowInvInvariant, LockInvInvariant, PTL DEF Spec


(***************************************************************************)
(* The ladder, as long as no approval has been overwritten: the approved   *)
(* rows carry 1, 2, ... in their order, the submission above them was      *)
(* numbered after the last one, and what the requests hold in memory of    *)
(* rows and package is no newer approval undone                            *)
(***************************************************************************)
Unhit    == "approval" \notin lost
Readable == Approved \cup {0}

Gapless == /\ \A u, v \in Approved : u < v => ver[u].no < ver[v].no
           /\ \A v \in Approved : ver[v].no \in 1..LatestApproved
           /\ \A n \in 1..LatestApproved : \E v \in Approved : ver[v].no = n
Above   == \A v \in VersionIds : Newest(v) /\ ver[v].state \in {"pending", "rejected"} =>
                                    ver[v].old = LatestApproved

Numbers(row, v) == row.no = ver[v].no /\ row.old = ver[v].old
Remembers(r) ==
    /\ r.pc = "bumpInsert" => r.row.old = LatestApproved
    /\ Approving(r) => r.row.old = ver[r.v].old
    /\ r.pc \in {"approveLoad", "approveCommit"} => r.row.no = r.row.old + 1
    /\ r.pc = "approveCommit" => r.pkg.active = r.v /\ r.pkgDb.active \in Readable
    /\ Rejecting(r) /\ ver[r.v].state # "approved" => Numbers(r.row, r.v)
    /\ r.pc = "rejectUpdate" /\ ver[r.v].state # "approved" => Numbers(r.rowDb, r.v)
    /\ r.pc \in {"toggleLoad", "toggleUpdate"} => r.pkg.active \in Readable
    /\ r.pc = "toggleUpdate" => r.pkgDb.active \in Readable

Sound     == Gapless /\ Above /\ pkg.active \in Readable /\ \A c \in Clients : Remembers(req[c])
LadderInv == (Unhit => Sound) /\ ActiveIsLatest

\* MAX(version_no) over the approved rows bounds them, and is one of their numbers.
LatestSays == /\ LatestApproved \in Nat
              /\ \A v \in Approved : ver[v].no <= LatestApproved
              /\ Approved = {} => LatestApproved = 0
              /\ Approved # {} => \E v \in Approved : ver[v].no = LatestApproved

LEMMA LatestFacts == RowInv => LatestSays
BY LatestIsMax DEF RowInv, LatestSays

LEMMA ApprovedTyped ==
    ASSUME RowInv PROVE \A v \in Approved : v \in VersionIds /\ v \in Live /\ v # 0 /\ ver[v].no \in Nat
BY BoundAssumption DEF RowInv, TypeOK, Version, Approved, Live, VersionIds

LEMMA IdleRemembers == Remembers(Idle)
BY DEF Remembers, Idle, Approving, Rejecting

\* One request moves, the rows stay.
LEMMA LadderMoves ==
    ASSUME RowInv, LadderInv, NEW c \in Clients, NEW r \in Request, Goto(c, r), ver' = ver,
           lost \subseteq lost',
           Unhit' => pkg'.active \in Readable /\ Remembers(r),
           lost' = {} => pkg'.active = pkg.active
    PROVE  LadderInv'
<1>1. req'[c] = r /\ \A d \in Clients \ {c} : req'[d] = req[d]
  BY DEF Goto, RowInv, TypeOK
<1>2. Approved' = Approved /\ LatestApproved' = LatestApproved
  BY DEF Approved, LatestApproved
<1>3. ActiveIsLatest'
  BY <1>2 DEF LadderInv, ActiveIsLatest
<1>4. ASSUME Unhit' PROVE Sound'
  <2>1. Sound
    BY <1>4 DEF LadderInv, Unhit
  <2>2. Gapless' /\ Above'
    BY <1>2, <2>1 DEF Sound, Gapless, Above, Newest, Live
  <2>3. \A d \in Clients : Remembers(req'[d])
    BY <1>1, <1>4, <2>1 DEF Sound
  <2>4. \A d \in Clients : Remembers(req[d])'
    BY <1>2, <2>3 DEF Remembers, Numbers, Approving, Rejecting, Readable
  <2> QED BY <1>2, <1>4, <2>2, <2>4 DEF Sound, Readable
<1> QED BY <1>3, <1>4 DEF LadderInv

LEMMA LadderEnds ==
    ASSUME RowInv, LadderInv, NEW c \in Clients, Finish(c), UNCHANGED <<pkg, ver, lost>>
    PROVE  LadderInv'
BY LadderMoves, IdleMemory, IdleRemembers DEF Finish, LadderInv, Unhit, Sound

\* A row is written that was not approved and is not: a new one, or one that keeps its numbers.
LEMMA LadderWritten ==
    ASSUME RowInv, LadderInv, RowInv', NEW v \in VersionIds, NEW row \in Version,
           ver' = [ver EXCEPT ![v] = row], ver[v].state # "approved", row.state \in {"pending", "rejected"},
           \A d \in Clients : req'[d] = req[d] \/ req'[d] = Idle,
           pkg'.active = pkg.active \/ (pkg'.active = 0 /\ Approved = {}), lost' = lost,
           Unhit => /\ v \in Live => Numbers(row, v)
                    /\ (\A u \in Live : u <= v) => row.old = LatestApproved
    PROVE  LadderInv'
<1>1. Live' = Live \cup {v} /\ Approved' = Approved /\ ver'[v] = row
      /\ \A u \in VersionIds \ {v} : ver'[u] = ver[u]
  BY DEF RowInv, TypeOK, Live, Approved
<1>2. \A u \in Approved : u \in VersionIds /\ u # v /\ ver'[u] = ver[u]
  BY <1>1 DEF Approved
<1>3. LatestApproved' = LatestApproved
  <2>1. {ver'[u].no : u \in Approved} = {ver[u].no : u \in Approved}
    BY <1>2
  <2> QED BY <1>1, <2>1 DEF LatestApproved
<1>4. ActiveIsLatest'
  BY <1>1, <1>2, <1>3 DEF LadderInv, ActiveIsLatest
<1>5. ASSUME Unhit' PROVE Sound'
  <2>1. Sound /\ Unhit
    BY <1>5 DEF LadderInv, Unhit
  <2>2. Gapless'
    BY <1>1, <1>2, <1>3, <2>1 DEF Sound, Gapless
  <2>3. Above'
    <3> SUFFICES ASSUME NEW u \in VersionIds, Newest(u)', ver'[u].state \in {"pending", "rejected"}
                 PROVE  ver'[u].old = LatestApproved
      BY <1>3 DEF Above
    <3>1. CASE u = v
      BY <1>1, <2>1, <3>1 DEF Newest
    <3>2. CASE u # v
      <4>1. ver'[u] = ver[u] /\ Newest(u)
        BY <1>1, <3>2 DEF Newest
      <4> QED BY <2>1, <4>1 DEF Sound, Above
    <3> QED BY <3>1, <3>2
  <2>4. ASSUME NEW d \in Clients PROVE Remembers(req[d])'
    <3>1. PICK r : r = req'[d]
      OBVIOUS
    <3>2. Remembers(r) /\ Memory(r)
      BY <2>1, <3>1, IdleRemembers, IdleMemory DEF Sound, RowInv
    <3>3. Approving(r) \/ Rejecting(r) => r.v \in Live /\ r.v \in VersionIds
      BY <3>2 DEF Memory, Live
    <3>4. Approving(r) \/ Rejecting(r) =>
             /\ ver'[r.v].old = ver[r.v].old /\ ver'[r.v].no = ver[r.v].no
             /\ ver'[r.v].state # "approved" => ver[r.v].state # "approved"
      BY <1>1, <2>1, <3>3 DEF Numbers
    <3>5. Remembers(r)'
      BY <1>1, <1>3, <3>2, <3>4 DEF Remembers, Numbers, Approving, Rejecting, Readable
    <3> QED BY <3>1, <3>5 DEF Remembers, Numbers, Approving, Rejecting, Readable
  <2> QED BY <1>1, <2>1, <2>2, <2>3, <2>4 DEF Sound, Readable
<1> QED BY <1>4, <1>5 DEF LadderInv

\* An approval: the number after the last one, published in the same step.
LEMMA ApproveCommitSteps ==
    ASSUME RowInv, LockInv, QueueInv, LadderInv, RowInv', Unhit, NEW c \in Clients, ApproveCommit(c)
    PROVE  /\ Newest(req[c].v) /\ ver[req[c].v].state = "pending"
           /\ Approved' = Approved \cup {req[c].v} /\ req[c].v \notin Approved
           /\ Live' = Live /\ Pending' = Pending \ {req[c].v}
           /\ LatestApproved' = LatestApproved + 1 /\ ver'[req[c].v].no = LatestApproved'
           /\ ver'[req[c].v].state = "approved"
           /\ \A u \in VersionIds \ {req[c].v} : ver'[u] = ver[u]
           /\ PackageFree /\ pkg'.active = req[c].v
<1> DEFINE r == req[c]
           v == r.v
<1>1. /\ r \in Request /\ Memory(r) /\ Remembers(r) /\ r.pc = "approveCommit" /\ Approving(r) /\ Sound
      /\ r.pkg \in Package /\ r.pkgDb \in Package /\ pkg \in Package
  BY DEF RowInv, TypeOK, LadderInv, Sound, ApproveCommit, At, Approving, Request
<1>2. v \in Live /\ v \in VersionIds /\ ver[v].state = "pending" /\ r.row.state = "approved"
  BY <1>1 DEF Memory, Live, LockInv
<1>3. Newest(v) /\ v \in Pending
  BY <1>2 DEF QueueInv, PendingNewest, Pending
<1>4. ver[v].old = LatestApproved /\ LatestApproved \in Nat /\ r.row.no = LatestApproved + 1
  BY <1>1, <1>2, <1>3, LatestFacts DEF Sound, Above, Remembers, LatestSays
<1>5. ver' = [ver EXCEPT ![v] = r.row] /\ pkg' = Saved(pkg, r.pkgDb, r.pkg)
      /\ (PackageFree \/ r.pkg = r.pkgDb)
  BY DEF ApproveCommit
<1>6. ver'[v] = r.row /\ \A u \in VersionIds \ {v} : ver'[u] = ver[u]
  BY <1>2, <1>5 DEF RowInv, TypeOK
<1>7. Approved' = Approved \cup {v} /\ v \notin Approved /\ Live' = Live /\ Pending' = Pending \ {v}
  BY <1>2, <1>6 DEF Approved, Live, Pending
<1>8. LatestApproved' = LatestApproved + 1
  <2>1. LatestSays'
    BY LatestFacts, PTL
  <2>2. LatestApproved' \in Nat /\ ver'[v].no <= LatestApproved'
        /\ \E u \in Approved' : ver'[u].no = LatestApproved'
    BY <1>7, <2>1 DEF LatestSays
  <2>3. \A u \in Approved : ver'[u].no \in Nat /\ ver'[u].no <= LatestApproved
    BY <1>6, <1>7, LatestFacts, ApprovedTyped DEF LatestSays, Approved
  <2> QED BY <1>4, <1>6, <1>7, <2>2, <2>3
<1>9. r.pkg.active = v /\ r.pkgDb.active # v
  BY <1>1, <1>2, <1>7, BoundAssumption DEF Remembers, Readable, VersionIds
<1>10. PackageFree /\ pkg'.active = v
  BY <1>1, <1>5, <1>9, SavedPackage
<1> QED BY <1>2, <1>3, <1>4, <1>6, <1>7, <1>8, <1>10

LEMMA ApproveCommitKeepsLadder ==
    ASSUME RowInv, LockInv, QueueInv, LadderInv, RowInv', NEW c \in Clients, ApproveCommit(c)
    PROVE  LadderInv'
<1>1. lost' = lost
  BY DEF ApproveCommit
<1>2. CASE ~Unhit
  BY <1>1, <1>2 DEF LadderInv, ActiveIsLatest, Unhit
<1>3. CASE Unhit
  <2>0. PICK v : v = req[c].v
    OBVIOUS
  <2>1. /\ Newest(v) /\ ver[v].state = "pending" /\ Approved' = Approved \cup {v} /\ v \notin Approved
        /\ Live' = Live /\ LatestApproved' = LatestApproved + 1 /\ ver'[v].no = LatestApproved'
        /\ ver'[v].state = "approved" /\ \A u \in VersionIds \ {v} : ver'[u] = ver[u]
        /\ PackageFree /\ pkg'.active = v
    BY <1>3, <2>0, ApproveCommitSteps
  <2>2. v \in VersionIds /\ VersionIds \subseteq Nat \ {0} /\ LatestApproved \in Nat /\ Sound
    BY <1>3, <2>1, LatestFacts, BoundAssumption DEF Newest, Live, VersionIds, LatestSays, LadderInv
  <2>3. \A u \in Approved : u \in VersionIds /\ u # v /\ ver'[u] = ver[u] /\ u < v
                            /\ ver[u].no \in 1..LatestApproved
    <3> SUFFICES ASSUME NEW u \in Approved
                 PROVE  u \in VersionIds /\ u # v /\ ver'[u] = ver[u] /\ u < v
                        /\ ver[u].no \in 1..LatestApproved
      OBVIOUS
    <3>1. u \in VersionIds /\ u \in Live /\ u # v
      BY <2>1, ApprovedTyped
    <3>2. u <= v
      BY <2>1, <3>1 DEF Newest
    <3> QED BY <2>1, <2>2, <3>1, <3>2 DEF Sound, Gapless
  <2>4. ActiveIsLatest'
    BY <2>1 DEF ActiveIsLatest
  <2>5. Gapless'
    <3>1. ASSUME NEW u \in Approved', NEW w \in Approved', u < w PROVE ver'[u].no < ver'[w].no
      <4>1. u \in Approved
        <5>1. CASE u = v
          <6>1. w # v
            BY <2>2, <3>1, <5>1
          <6>2. w \in Approved
            BY <2>1, <6>1
          <6>3. w \in Nat /\ v \in Nat /\ w < v
            BY <2>2, <2>3, <6>2
          <6> QED BY <3>1, <5>1, <6>3
        <5> QED BY <2>1, <5>1
      <4>2. ver'[u] = ver[u] /\ ver[u].no \in 1..LatestApproved
        BY <2>3, <4>1
      <4>3. CASE w = v
        BY <2>1, <2>2, <4>2, <4>3
      <4>4. CASE w # v
        <5>1. w \in Approved /\ ver'[w] = ver[w]
          BY <2>1, <2>3, <4>4
        <5> QED BY <2>2, <3>1, <4>1, <4>2, <5>1 DEF Sound, Gapless
      <4> QED BY <4>3, <4>4
    <3>2. \A u \in Approved' : ver'[u].no \in 1..LatestApproved'
      BY <2>1, <2>2, <2>3
    <3>3. ASSUME NEW n \in 1..LatestApproved' PROVE \E u \in Approved' : ver'[u].no = n
      <4>1. CASE n = LatestApproved'
        BY <2>1, <4>1
      <4>2. CASE n # LatestApproved'
        <5>1. n \in 1..LatestApproved
          BY <2>1, <2>2, <4>2
        <5>2. PICK u \in Approved : ver[u].no = n
          BY <2>2, <5>1 DEF Sound, Gapless
        <5> QED BY <2>1, <2>3, <5>2
      <4> QED BY <4>1, <4>2
    <3> QED BY <3>1, <3>2, <3>3 DEF Gapless
  <2>6. Above'
    <3> SUFFICES ASSUME NEW u \in VersionIds, Newest(u)', ver'[u].state \in {"pending", "rejected"}
                 PROVE  FALSE
      BY DEF Above
    <3>1. u <= v /\ v <= u
      BY <2>1 DEF Newest
    <3> QED BY <2>1, <2>2, <3>1
  <2>7. ASSUME NEW d \in Clients PROVE Remembers(req[d])'
    <3>1. PICK r : r = req'[d]
      OBVIOUS
    <3>2. req'[c] = Idle /\ \A e \in Clients \ {c} : req'[e] = req[e]
      BY DEF ApproveCommit, Finish, Goto, RowInv, TypeOK
    <3>3. Remembers(r) /\ Memory(r) /\ r.pc # "bumpInsert"
      <4>1. CASE d = c
        BY <3>1, <3>2, <4>1, IdleRemembers, IdleMemory DEF Idle
      <4>2. CASE d # c
        BY <2>1, <2>2, <3>1, <3>2, <4>2 DEF Sound, RowInv, PackageFree, PackageHolders
      <4> QED BY <4>1, <4>2
    <3>4. Approving(r) => r.v # v /\ r.v \in VersionIds
      <4>1. CASE d = c
        BY <3>1, <3>2, <4>1 DEF Approving, Idle
      <4>2. CASE d # c
        BY <2>0, <3>1, <3>2, <3>3, <4>2 DEF LockInv, Approving, ApproveCommit, At, Memory, Live
      <4> QED BY <4>1, <4>2
    <3>5. Rejecting(r) => r.v \in VersionIds
      BY <3>3 DEF Memory, Live
    <3>6. Remembers(r)'
      <4>1. Approving(r) => ver'[r.v] = ver[r.v]
        BY <2>1, <3>4
      <4>2. Rejecting(r) /\ ver'[r.v].state # "approved" => ver'[r.v] = ver[r.v]
        BY <2>1, <3>5
      <4>3. Readable \subseteq Readable'
        BY <2>1 DEF Readable
      <4> QED BY <3>3, <4>1, <4>2, <4>3 DEF Remembers, Numbers, Approving, Rejecting
    <3> QED BY <3>1, <3>6 DEF Remembers, Numbers, Approving, Rejecting, Readable
  <2> QED BY <2>1, <2>4, <2>5, <2>6, <2>7 DEF LadderInv, Sound, Readable
<1> QED BY <1>2, <1>3

LEMMA StartKeepsLadder ==
    ASSUME RowInv, LadderInv, RowInv', NEW c \in Clients, Start(c)
    PROVE  LadderInv'
<1>0. /\ req[c] \in Request /\ ver \in [VersionIds -> Version] /\ pkg \in Package
      /\ Idle \in Request /\ Absent \in Version
  BY IdleMemory DEF RowInv, TypeOK
<1>1. CASE CreateNew(c)
  <2> DEFINE row == [Absent EXCEPT !.state = "pending", !.no = 1]
  <2>1. row \in Version /\ row.state = "pending" /\ row.old = 0 /\ 1 \in VersionIds
    <3>1. row \in Version /\ row.state = "pending" /\ row.old = 0
      BY <1>0 DEF Version, States, Absent
    <3> QED BY <3>1, BoundAssumption DEF VersionIds
  <2>2. /\ Live = {} /\ ver' = [ver EXCEPT ![1] = row] /\ pkg'.active = 0
        /\ req' = req /\ lost' = lost
    BY <1>1 DEF CreateNew, NewPackage
  <2>3. Approved = {} /\ ver[1].state # "approved"
    BY <2>1, <2>2 DEF Live, Approved
  <2>4. LatestApproved = 0
    BY <2>3, LatestFacts DEF LatestSays
  <2> HIDE DEF row
  <2> QED BY <2>1, <2>2, <2>3, <2>4, LadderWritten
<1>2. CASE BumpStart(c)
  <2> DEFINE r == [Idle EXCEPT !.pc = "bumpLock"]
  <2>1. r \in Request /\ r.pc = "bumpLock"
    BY <1>0 DEF Request, Steps
  <2>2. Remembers(r)
    <3> HIDE DEF r
    <3> QED BY <2>1 DEF Remembers, Approving, Rejecting
  <2>3. Goto(c, r) /\ UNCHANGED <<pkg, ver, lost>>
    BY <1>2 DEF BumpStart
  <2> HIDE DEF r
  <2> QED BY <2>1, <2>2, <2>3, LadderMoves DEF LadderInv, Unhit, Sound
<1>3. ASSUME NEW v \in VersionIds, EditStart(c, v) PROVE LadderInv'
  <2>1. PICK so \in BOOLEAN : Goto(c, [Idle EXCEPT !.pc = "editLock", !.v = v, !.so = so])
    BY <1>3 DEF EditStart
  <2> DEFINE r == [Idle EXCEPT !.pc = "editLock", !.v = v, !.so = so]
  <2>2. r \in Request /\ r.pc = "editLock"
    BY <1>0, IdRange DEF Request, Steps
  <2>3. Remembers(r)
    <3> HIDE DEF r
    <3> QED BY <2>2 DEF Remembers, Approving, Rejecting
  <2>4. Goto(c, r) /\ UNCHANGED <<pkg, ver, lost>>
    BY <1>3, <2>1 DEF EditStart
  <2> HIDE DEF r
  <2> QED BY <2>2, <2>3, <2>4, LadderMoves DEF LadderInv, Unhit, Sound
<1>4. ASSUME NEW v \in VersionIds, ApproveLock(c, v) PROVE LadderInv'
  <2> DEFINE r == [Idle EXCEPT !.pc = "approveRow", !.v = v, !.row = ver[v]]
  <2>1. r \in Request /\ r.pc = "approveRow" /\ r.v = v /\ r.row = ver[v]
    BY <1>0, IdRange DEF Request, Steps
  <2>2. Remembers(r)
    <3> HIDE DEF r
    <3> QED BY <2>1 DEF Remembers, Approving, Rejecting
  <2>3. Goto(c, r) /\ UNCHANGED <<pkg, ver, lost>>
    BY <1>4 DEF ApproveLock
  <2> HIDE DEF r
  <2> QED BY <2>1, <2>2, <2>3, LadderMoves DEF LadderInv, Unhit, Sound
<1>5. ASSUME NEW v \in VersionIds, RejectRead(c, v) PROVE LadderInv'
  <2> DEFINE row == [ver[v] EXCEPT !.state = "rejected", !.by = c]
             r == [Idle EXCEPT !.pc = "rejectLoad", !.v = v, !.row = row]
  <2>1. row \in Version /\ row.no = ver[v].no /\ row.old = ver[v].old
    BY <1>0 DEF Version, States
  <2>2. r \in Request /\ r.pc = "rejectLoad" /\ r.v = v /\ r.row = row
    <3> HIDE DEF row
    <3> QED BY <1>0, <2>1, IdRange DEF Request, Steps
  <2>3. Goto(c, r) /\ UNCHANGED <<pkg, ver, lost>>
    BY <1>5 DEF RejectRead
  <2> HIDE DEF r, row
  <2>4. Remembers(r)
    BY <2>1, <2>2 DEF Remembers, Approving, Rejecting, Numbers
  <2> QED BY <2>2, <2>3, <2>4, LadderMoves DEF LadderInv, Unhit, Sound
<1>6. ASSUME NEW s \in Statuses, ToggleRead(c, s) PROVE LadderInv'
  <2> DEFINE p == [pkg EXCEPT !.status = s]
             r == [Idle EXCEPT !.pc = "toggleLoad", !.pkg = p]
  <2>1. p \in Package /\ p.active = pkg.active
    BY <1>0 DEF Package
  <2>2. r \in Request /\ r.pc = "toggleLoad" /\ r.pkg = p
    <3> HIDE DEF p
    <3> QED BY <1>0, <2>1 DEF Request, Steps
  <2>3. Goto(c, r) /\ UNCHANGED <<pkg, ver, lost>>
    BY <1>6 DEF ToggleRead
  <2> HIDE DEF r, p
  <2>4. pkg.active \in Readable => Remembers(r)
    BY <2>1, <2>2 DEF Remembers, Approving, Rejecting
  <2> QED BY <2>2, <2>3, <2>4, LadderMoves DEF LadderInv, Unhit, Sound
<1> QED BY <1>1, <1>2, <1>3, <1>4, <1>5, <1>6 DEF Start

LEMMA BumpKeepsLadder ==
    ASSUME RowInv, LadderInv, RowInv', NEW c \in Clients, BumpLock(c) \/ BumpInsert(c) \/ BumpConflict(c)
    PROVE  LadderInv'
<1>0. /\ req[c] \in Request /\ Memory(req[c]) /\ ver \in [VersionIds -> Version]
      /\ Unhit => Sound /\ Remembers(req[c])
  BY DEF RowInv, TypeOK, LadderInv, Sound
<1>1. CASE BumpLock(c)
  <2> DEFINE row == [state |-> "pending", no |-> IF LatestApproved = 0 THEN 1 ELSE LatestApproved,
                     old |-> LatestApproved, by |-> None]
             r == [req[c] EXCEPT !.pc = "bumpInsert", !.row = row]
  <2>1. row \in Version /\ row.old = LatestApproved
    BY LatestFacts DEF LatestSays, Version, States
  <2>2. r \in Request /\ r.pc = "bumpInsert" /\ r.row = row
    <3> HIDE DEF row
    <3> QED BY <1>0, <2>1 DEF Request, Steps
  <2>3. Goto(c, r) /\ UNCHANGED <<pkg, ver, lost>>
    BY <1>1 DEF BumpLock
  <2> HIDE DEF r, row
  <2>4. Remembers(r)
    BY <2>1, <2>2 DEF Remembers, Approving, Rejecting
  <2> QED BY <2>2, <2>3, <2>4, LadderMoves DEF LadderInv, Unhit, Sound
<1>2. CASE BumpInsert(c)
  <2>0. PICK row : row = req[c].row
    OBVIOUS
  <2>1. PICK v \in VersionIds \ Live : ver' = [ver EXCEPT ![v] = row]
    BY <1>2, <2>0 DEF BumpInsert
  <2>2. row \in Version /\ row.state = "pending" /\ (Unhit => row.old = LatestApproved)
    BY <1>0, <1>2, <2>0 DEF BumpInsert, At, Request, Memory, Remembers
  <2>3. /\ \A d \in Clients : req'[d] = req[d] \/ req'[d] = Idle
        /\ UNCHANGED <<pkg, lost>>
    BY <1>2 DEF BumpInsert, Finish, Goto, RowInv, TypeOK
  <2>4. ver[v].state # "approved" /\ v \notin Live /\ v \in VersionIds
    BY <2>1 DEF Live
  <2>5. /\ row.state \in {"pending", "rejected"} /\ pkg'.active = pkg.active /\ lost' = lost
        /\ Unhit => /\ v \in Live => Numbers(row, v)
                    /\ (\A u \in Live : u <= v) => row.old = LatestApproved
    BY <2>2, <2>3, <2>4
  <2> QED BY ONLY RowInv, LadderInv, RowInv', <2>1, <2>2, <2>3, <2>4, <2>5, LadderWritten
<1>3. CASE BumpConflict(c)
  BY <1>3, LadderEnds DEF BumpConflict
<1> QED BY <1>1, <1>2, <1>3

LEMMA EditKeepsLadder ==
    ASSUME RowInv, QueueInv, LadderInv, RowInv', NEW c \in Clients, EditLock(c) \/ EditRow(c) \/ EditRefused(c)
    PROVE  LadderInv'
<1>0. /\ req[c] \in Request /\ Memory(req[c]) /\ ver \in [VersionIds -> Version]
      /\ Unhit => Sound
  BY DEF RowInv, TypeOK, LadderInv
<1>1. CASE EditLock(c)
  <2> DEFINE r == [req[c] EXCEPT !.pc = "editRow"]
  <2>1. r \in Request /\ r.pc = "editRow"
    BY <1>0 DEF Request, Steps
  <2>2. Goto(c, r) /\ UNCHANGED <<pkg, ver, lost>>
    BY <1>1 DEF EditLock
  <2> HIDE DEF r
  <2>3. Remembers(r)
    BY <2>1 DEF Remembers, Approving, Rejecting
  <2> QED BY <2>1, <2>2, <2>3, LadderMoves DEF LadderInv, Unhit, Sound
<1>2. CASE EditRow(c)
  <2>0. PICK v, row : v = req[c].v /\ row = [ver[v] EXCEPT !.state = "pending", !.by = None]
    OBVIOUS
  <2>1. v \in Live /\ v \in VersionIds /\ ver[v] \in Version /\ Finish(c) /\ UNCHANGED <<pkg, lost>>
    BY <1>0, <1>2, <2>0 DEF EditRow, At, Memory, Editing, Live
  <2>2. CASE req[c].so
    BY <1>2, <2>1, <2>2, LadderEnds DEF EditRow
  <2>3. CASE ~req[c].so
    <3>1. Newest(v) /\ ver[v].state = "rejected" /\ ver' = [ver EXCEPT ![v] = row]
      BY <1>0, <1>2, <2>0, <2>1, <2>3 DEF EditRow, At, EditedState, QueueInv, ReopensNewest, Reopening
    <3>2. row \in Version /\ row.state = "pending" /\ row.no = ver[v].no /\ row.old = ver[v].old
      BY <2>0, <2>1 DEF Version, States
    <3>3. \A d \in Clients : req'[d] = req[d] \/ req'[d] = Idle
      BY <1>0, <2>1 DEF Finish, Goto, RowInv, TypeOK
    <3>4. Unhit => ver[v].old = LatestApproved
      BY <1>0, <2>1, <3>1 DEF Sound, Above
    <3>5. ver[v].state # "approved"
      BY <3>1
    <3> QED BY <2>1, <3>1, <3>2, <3>3, <3>4, <3>5, LadderWritten DEF Numbers
  <2> QED BY <2>2, <2>3
<1>3. CASE EditRefused(c)
  BY <1>3, LadderEnds DEF EditRefused
<1> QED BY <1>1, <1>2, <1>3

LEMMA ApproveKeepsLadder ==
    ASSUME RowInv, LockInv, QueueInv, LadderInv, RowInv', NEW c \in Clients,
           ApproveRow(c) \/ ApproveLoad(c) \/ ApproveCommit(c)
    PROVE  LadderInv'
<1>0. /\ req[c] \in Request /\ req[c].row \in Version /\ req[c].v \in 0..MaxVersion /\ pkg \in Package
      /\ Unhit => Sound /\ Remembers(req[c])
  BY DEF RowInv, TypeOK, LadderInv, Sound, Request
<1>1. CASE ApproveRow(c)
  <2> DEFINE n == req[c].row.old + 1
  <2>1. CASE ~ApprovedIndexAllows(req[c].v, n)
    BY <1>1, <2>1, LadderEnds DEF ApproveRow
  <2>2. CASE ApprovedIndexAllows(req[c].v, n)
    <3> DEFINE row == [req[c].row EXCEPT !.state = "approved", !.no = n, !.by = c]
               r == [req[c] EXCEPT !.pc = "approveLoad", !.row = row]
    <3>1. row \in Version /\ row.old = req[c].row.old /\ row.no = row.old + 1
      <4>1. n \in Nat
        BY <1>0 DEF Version
      <4> HIDE DEF n
      <4>2. row \in Version /\ row.old = req[c].row.old /\ row.no = n
        BY <1>0, <4>1 DEF Version, States
      <4> QED BY <4>2 DEF n
    <3>2. r \in Request /\ r.pc = "approveLoad" /\ r.v = req[c].v /\ r.row = row
      <4> HIDE DEF row
      <4> QED BY <1>0, <3>1 DEF Request, Steps
    <3>3. Goto(c, r)
      BY <1>0, <1>1, <2>2 DEF ApproveRow, Request
    <3>4. UNCHANGED <<pkg, ver, lost>> /\ req[c].pc = "approveRow"
      BY <1>1 DEF ApproveRow, At
    <3> HIDE DEF r, row
    <3>5. Unhit => Remembers(r)
      BY <1>0, <3>1, <3>2, <3>4 DEF Remembers, Approving, Rejecting
    <3> QED BY <3>2, <3>3, <3>4, <3>5, LadderMoves DEF LadderInv, Unhit, Sound
  <2> QED BY <2>1, <2>2
<1>2. CASE ApproveLoad(c)
  <2> DEFINE p == [active |-> req[c].v, status |-> "active"]
             r == [req[c] EXCEPT !.pc = "approveCommit", !.pkgDb = pkg, !.pkg = p]
  <2>1. p \in Package /\ p.active = req[c].v
    BY <1>0 DEF Package, Statuses
  <2>2. /\ r \in Request /\ r.pc = "approveCommit" /\ r.v = req[c].v /\ r.row = req[c].row
        /\ r.pkg = p /\ r.pkgDb = pkg
    <3> HIDE DEF p
    <3> QED BY <1>0, <2>1 DEF Request, Steps
  <2>3. Goto(c, r) /\ UNCHANGED <<pkg, ver, lost>> /\ req[c].pc = "approveLoad"
    BY <1>2 DEF ApproveLoad, At
  <2> HIDE DEF r, p
  <2>4. Unhit => Remembers(r)
    BY <1>0, <2>1, <2>2, <2>3 DEF Remembers, Approving, Rejecting, Sound
  <2> QED BY <2>2, <2>3, <2>4, LadderMoves DEF LadderInv, Unhit, Sound
<1>3. CASE ApproveCommit(c)
  BY <1>3, ApproveCommitKeepsLadder
<1> QED BY <1>1, <1>2, <1>3

LEMMA RejectKeepsLadder ==
    ASSUME RowInv, QueueInv, LadderInv, RowInv', NEW c \in Clients,
           RejectLoad(c) \/ RejectUpdate(c) \/ RejectRefused(c)
    PROVE  LadderInv'
<1>0. /\ req[c] \in Request /\ req[c].row \in Version /\ req[c].rowDb \in Version
      /\ Memory(req[c]) /\ ver \in [VersionIds -> Version]
      /\ Unhit => Sound /\ Remembers(req[c])
  BY DEF RowInv, TypeOK, LadderInv, Sound, Request
<1>1. CASE RejectLoad(c)
  <2> DEFINE r == [req[c] EXCEPT !.pc = "rejectUpdate", !.rowDb = ver[req[c].v]]
  <2>1. ver[req[c].v] \in Version
    BY <1>0, <1>1 DEF RejectLoad, At, Memory, Rejecting, Live
  <2>2. /\ r \in Request /\ r.pc = "rejectUpdate" /\ r.v = req[c].v /\ r.row = req[c].row
        /\ r.rowDb = ver[req[c].v]
    BY <1>0, <2>1 DEF Request, Steps
  <2>3. Goto(c, r) /\ UNCHANGED <<pkg, ver, lost>> /\ req[c].pc = "rejectLoad"
    BY <1>1 DEF RejectLoad, At
  <2> HIDE DEF r
  <2>4. Unhit => Remembers(r)
    BY <1>0, <2>2, <2>3 DEF Remembers, Approving, Rejecting, Numbers
  <2> QED BY <2>2, <2>3, <2>4, LadderMoves DEF LadderInv, Unhit, Sound
<1>2. CASE RejectUpdate(c)
  <2>0. PICK v, row : v = req[c].v /\ row = Saved(ver[v], req[c].rowDb, req[c].row)
    OBVIOUS
  <2>1. /\ v \in Live /\ v \in VersionIds /\ ver[v] \in Version
        /\ req[c].row.state = "rejected" /\ req[c].pc = "rejectUpdate" /\ Rejecting(req[c])
    BY <1>0, <1>2, <2>0 DEF RejectUpdate, At, Memory, Rejecting, Live
  <2>2. CASE ver[v].state = "approved"
    <3>1. "approval" \in lost'
      BY <1>2, <2>0, <2>2 DEF RejectUpdate
    <3> QED BY <3>1 DEF LadderInv, Unhit, ActiveIsLatest
  <2>3. CASE ver[v].state # "approved"
    <3>1. /\ row \in Version /\ row.state \in {"rejected", ver[v].state}
          /\ row.no = IF req[c].row.no = req[c].rowDb.no THEN ver[v].no ELSE req[c].row.no
          /\ row.old = IF req[c].row.old = req[c].rowDb.old THEN ver[v].old ELSE req[c].row.old
      BY <1>0, <2>0, <2>1, SavedVersion
    <3>2. /\ ver' = [ver EXCEPT ![v] = row] /\ UNCHANGED <<pkg, lost>>
          /\ \A d \in Clients : req'[d] = req[d] \/ req'[d] = Idle
      BY <1>0, <1>2, <2>0, <2>3 DEF RejectUpdate, Finish, Goto, RowInv, TypeOK
    <3>3. row.state \in {"pending", "rejected"} /\ ver[v].state \in {"pending", "rejected"}
      BY <2>1, <2>3, <3>1 DEF Live, Version, States
    <3>4. Unhit => row.no = ver[v].no /\ row.old = ver[v].old
      BY <1>0, <2>0, <2>1, <2>3, <3>1 DEF Remembers, Numbers
    <3>5. Unhit /\ (\A u \in Live : u <= v) => row.old = LatestApproved
      BY <1>0, <2>1, <3>3, <3>4 DEF Sound, Above, Newest
    <3> QED BY <2>1, <2>3, <3>1, <3>2, <3>3, <3>4, <3>5, LadderWritten DEF Numbers
  <2> QED BY <2>2, <2>3
<1>3. CASE RejectRefused(c)
  BY <1>3, LadderEnds DEF RejectRefused
<1> QED BY <1>1, <1>2, <1>3

LEMMA ToggleKeepsLadder ==
    ASSUME RowInv, LadderInv, NEW c \in Clients, ToggleLoad(c) \/ ToggleUpdate(c)
    PROVE  LadderInv'
<1>0. /\ req[c] \in Request /\ req[c].pkg \in Package /\ req[c].pkgDb \in Package /\ pkg \in Package
      /\ Unhit => Sound /\ Remembers(req[c])
  BY DEF RowInv, TypeOK, LadderInv, Sound, Request
<1>1. CASE ToggleLoad(c)
  <2> DEFINE r == [req[c] EXCEPT !.pc = "toggleUpdate", !.pkgDb = pkg]
  <2>1. r \in Request /\ r.pc = "toggleUpdate" /\ r.pkg = req[c].pkg /\ r.pkgDb = pkg
    BY <1>0 DEF Request, Steps
  <2>2. Goto(c, r) /\ UNCHANGED <<pkg, ver, lost>> /\ req[c].pc = "toggleLoad"
    BY <1>1 DEF ToggleLoad, At
  <2> HIDE DEF r
  <2>3. Unhit => Remembers(r)
    BY <1>0, <2>1, <2>2 DEF Remembers, Approving, Rejecting, Sound
  <2> QED BY <2>1, <2>2, <2>3, LadderMoves DEF LadderInv, Unhit, Sound
<1>2. CASE ToggleUpdate(c)
  <2>1. pkg'.active \in {pkg.active, req[c].pkg.active}
    BY <1>0, <1>2, SavedPackage DEF ToggleUpdate
  <2>2. /\ Goto(c, Idle) /\ ver' = ver /\ lost \subseteq lost' /\ req[c].pc = "toggleUpdate"
        /\ lost' = {} => pkg'.active = pkg.active
    BY <1>2 DEF ToggleUpdate, Finish, At
  <2>3. Unhit' => pkg'.active \in Readable /\ Remembers(Idle)
    BY <1>0, <2>1, <2>2, IdleRemembers DEF Unhit, Sound, Remembers
  <2> QED BY <2>2, <2>3, IdleMemory, LadderMoves
<1> QED BY <1>1, <1>2

\* The ladder stands in every behaviour, until a reject overwrites an approval.
THEOREM LadderInvInvariant == Spec => []LadderInv
<1>1. Init => LadderInv
  <2> SUFFICES ASSUME Init PROVE LadderInv
    OBVIOUS
  <2>1. Live = {} /\ Approved = {} /\ pkg.active = 0
    BY DEF Init, Live, Approved, Absent, NewPackage
  <2>2. LatestApproved = 0
    BY <2>1 DEF LatestApproved
  <2>3. Sound
    BY <2>1, <2>2, IdleRemembers DEF Init, Sound, Gapless, Above, Newest, Readable
  <2> QED BY <2>1, <2>3 DEF LadderInv, ActiveIsLatest
<1>2. RowInv /\ RowInv' /\ LockInv /\ QueueInv /\ LadderInv /\ [Next]_vars => LadderInv'
  <2> SUFFICES ASSUME RowInv, RowInv', LockInv, QueueInv, LadderInv, [Next]_vars PROVE LadderInv'
    OBVIOUS
  <2>1. CASE UNCHANGED vars
    <3>1. pkg' = pkg /\ ver' = ver /\ req' = req /\ lost' = lost
      BY <2>1 DEF vars
    <3>2. Approved' = Approved /\ LatestApproved' = LatestApproved /\ Live' = Live
      BY <3>1 DEF Approved, LatestApproved, Live
    <3>3. Gapless' <=> Gapless
      BY <3>1, <3>2 DEF Gapless
    <3>4. Above' <=> Above
      BY <3>1, <3>2 DEF Above, Newest
    <3>5. (\A c \in Clients : Remembers(req[c])) => (\A c \in Clients : Remembers(req[c]))'
      BY <3>1, <3>2 DEF Remembers, Approving, Rejecting, Numbers, Readable
    <3> QED BY <3>1, <3>2, <3>3, <3>4, <3>5 DEF LadderInv, Unhit, Sound, Readable, ActiveIsLatest
  <2>2. ASSUME NEW c \in Clients, Start(c) \/ Step(c) \/ Abort(c) \/ DeadlockVictim(c)
        PROVE  LadderInv'
    <3>1. CASE Start(c)
      BY <3>1, StartKeepsLadder
    <3>2. CASE Step(c)
      BY <3>2, BumpKeepsLadder, EditKeepsLadder, ApproveKeepsLadder, RejectKeepsLadder,
         ToggleKeepsLadder DEF Step
    <3>3. CASE Abort(c) \/ DeadlockVictim(c)
      BY <3>3, LadderEnds DEF Abort, DeadlockVictim
    <3> QED BY <2>2, <3>1, <3>2, <3>3
  <2> QED BY <2>1, <2>2 DEF Next
<1> QED BY <1>1, <1>2, RowInvInvariant, LockInvInvariant, QueueInvInvariant, PTL DEF Spec

(***************************************************************************)
(* What the ladder gives readers and reviewers                             *)
(***************************************************************************)

\* Readers are served the version approved last, unless a stale save hit.
THEOREM ActiveIsLatestAlways == Spec => []ActiveIsLatest
BY LadderInvInvariant, PTL DEF LadderInv

\* Numbers that run through 1, 2, ... in the order of the rows are as many as the rows.
LEMMA LadderCounted == RowInv /\ LadderInv => ApprovedLadder
<1> SUFFICES ASSUME RowInv, LadderInv, "approval" \notin lost
             PROVE  /\ \A u, v \in Approved : u < v => ver[u].no < ver[v].no
                    /\ {ver[v].no : v \in Approved} = 1..Cardinality(Approved)
  BY DEF ApprovedLadder
<1> DEFINE n == LatestApproved
           f == [v \in Approved |-> ver[v].no]
<1>1. /\ n \in Nat /\ Gapless
      /\ \A v \in Approved : v \in Nat /\ ver[v].no \in Nat
  <2>1. \A v \in Approved : v \in Nat
    BY ApprovedTyped, BoundAssumption DEF VersionIds
  <2> QED BY <2>1, LatestFacts, ApprovedTyped DEF LadderInv, Unhit, Sound, LatestSays
<1>2. \A u, v \in Approved : ver[u].no = ver[v].no => u = v
  <2> SUFFICES ASSUME NEW u \in Approved, NEW v \in Approved, ver[u].no = ver[v].no, u # v
               PROVE  FALSE
    OBVIOUS
  <2>1. u < v \/ v < u
    BY <1>1
  <2> QED BY <1>1, <2>1 DEF Gapless
<1>3. f \in Injection(Approved, 1..n) /\ f \in Surjection(Approved, 1..n)
  <2>1. f \in [Approved -> 1..n] /\ \A m \in 1..n : \E v \in Approved : f[v] = m
    BY <1>1 DEF Gapless
  <2>2. IsInjective(f)
    BY <1>2 DEF IsInjective
  <2> QED BY <2>1, <2>2 DEF Injection, Surjection
<1>4. IsFiniteSet(1..n) /\ Cardinality(1..n) = n
  <2>1. 1 \in Int /\ n \in Int
    BY <1>1
  <2> QED BY <1>1, <2>1, FS_Interval
<1>5. Cardinality(Approved) = n
  <2> HIDE DEF f, n
  <2> QED BY <1>3, <1>4, FS_Injection
<1>6. {ver[v].no : v \in Approved} = 1..n
  BY <1>1 DEF Gapless
<1> QED BY <1>1, <1>5, <1>6 DEF Gapless

\* The gapless approved number: until a reject overwrites an approval, the approved rows carry
\* 1, 2, ... in their order, whatever the concurrent bumps, resubmissions and reviews.
THEOREM ApprovedLadderAlways == Spec => []ApprovedLadder
BY RowInvInvariant, LadderInvInvariant, LadderCounted, PTL

\* The base both screens find: the approved row the submission was numbered after.
LEMMA OneBase ==
    ASSUME RowInv, QueueInv, LadderInv, lost = {}, NEW v \in Pending
    PROVE  /\ ver[v].old # 0 => Predecessors(v) # {}
           /\ ComparisonBase(v) = DiffBase(v)
<1>1. /\ v \in VersionIds /\ Newest(v) /\ ver[v].state = "pending" /\ v \notin Approved
      /\ Sound /\ ActiveIsLatest
  BY DEF Pending, Approved, QueueInv, PendingNewest, LadderInv, Unhit
<1>2. ver[v].old = LatestApproved /\ LatestSays
  BY <1>1, LatestFacts DEF Sound, Above
<1>3. CASE Approved = {}
  BY <1>1, <1>2, <1>3 DEF LatestSays, ActiveIsLatest, ComparisonBase, DiffBase
<1>4. CASE Approved # {}
  <2>0. PICK a : a = pkg.active
    OBVIOUS
  <2>1. a \in Approved /\ ver[a].no = LatestApproved /\ a \in Nat /\ a \notin {0, v}
    BY <1>1, <1>4, <2>0, ApprovedTyped, BoundAssumption DEF ActiveIsLatest, VersionIds
  <2>2. LatestApproved # 0
    BY <1>2, <2>1 DEF LatestSays, Sound, Gapless, LadderInv, Unhit
  <2>3. ASSUME NEW u \in Approved, ver[u].no = LatestApproved PROVE u = a
    <3>1. u \in Nat /\ ~(u < a) /\ ~(a < u)
      BY <1>1, <1>2, <2>1, <2>3, ApprovedTyped, BoundAssumption DEF Sound, Gapless, VersionIds, LatestSays
    <3> QED BY <2>1, <3>1
  <2>4. Predecessors(v) = {a}
    BY <1>2, <2>1, <2>3 DEF Predecessors
  <2>5. Max({a}) = a
    <3>1. {a} \in SUBSET Nat /\ {a} # {} /\ \A m \in {a} : m <= a
      BY <2>1
    <3>2. Max({a}) \in {a}
      BY <2>1, <3>1, MaxOfBounded
    <3> QED BY <3>2
  <2> QED BY <1>2, <2>0, <2>1, <2>2, <2>4, <2>5 DEF ComparisonBase, DiffBase
<1> QED BY <1>3, <1>4

LEMMA ReadersAgree == RowInv /\ QueueInv /\ LadderInv => ReadsAgree
<1> SUFFICES ASSUME RowInv, QueueInv, LadderInv, lost = {}, NEW w \in Viewer
             PROVE  /\ \A s \in Statuses : Listed(w, s) => Downloads(w) /\ pkg.active \in Approved
                    /\ Published <=> Listed(w, "active")
                    /\ w.approve /\ pkg.status = "active" => (CountsAs("pending") <=> Reviewable(w) # {})
                    /\ \A v \in Reviewable(w) : VersionOpens(w, v) /\ ComparisonBase(v) = DiffBase(v)
                    /\ \A v \in VersionIds : EditOffered(w, v) => Resubmittable(v)
  BY DEF ReadsAgree
<1>1. /\ pkg.active # 0 => pkg.active \in Approved
      /\ \A v \in Approved : v # 0 /\ v \in Live
  BY ApprovedTyped DEF LadderInv, ActiveIsLatest
<1>2. \A s \in Statuses : Listed(w, s) => Downloads(w) /\ pkg.active \in Approved
  BY <1>1 DEF Listed, Downloads, Detailed, CanSeeInactive
<1>3. Published <=> Listed(w, "active")
  BY <1>1 DEF Published, Listed
<1>4. w.approve /\ pkg.status = "active" => (CountsAs("pending") <=> Reviewable(w) # {})
  BY DEF CountsAs, Reviewable, Pending, Live, QueueInv, PendingNewest
<1>5. \A v \in Reviewable(w) : VersionOpens(w, v) /\ ComparisonBase(v) = DiffBase(v)
  BY OneBase DEF Reviewable, VersionOpens, CanAccess
<1>6. ASSUME NEW v \in VersionIds, EditOffered(w, v) PROVE Resubmittable(v)
  <2>1. Newest(v) /\ ver[v].state = "rejected"
    BY <1>6 DEF EditOffered
  <2>2. ASSUME NEW p \in Pending PROVE FALSE
    <3>1. p \in Live /\ v \in Live /\ p \in Nat /\ v \in Nat /\ p <= v /\ v <= p
      BY <2>1, BoundAssumption DEF Newest, QueueInv, PendingNewest, Live, VersionIds
    <3>2. p = v
      BY <3>1
    <3> QED BY <2>1, <3>2 DEF Pending
  <2> QED BY <2>1, <2>2 DEF Resubmittable
<1> QED BY <1>2, <1>3, <1>4, <1>5, <1>6

\* The catalogue, the detail, the review queue, the two comparison screens and the dashboard
\* agree with each other and with what the upload service accepts, until a stale save hits.
THEOREM ReadsAgreeAlways == Spec => []ReadsAgree
BY RowInvInvariant, QueueInvInvariant, LadderInvInvariant, ReadersAgree, PTL

(***************************************************************************)
(* Every step is one of ReviewLadder's, or one its readers cannot see      *)
(***************************************************************************)
LadderStep == lost' = {} => Ladder!Next \/ UNCHANGED <<LatestApproved, LadderHead, LadderShown>>

\* No stale save has hit, and then the release on show is the highest.
Clear    == RowInv /\ LadderInv /\ lost = {}
ShownTop == LadderShown = LatestApproved

LEMMA ShownIsTop == Clear => ShownTop
BY LatestFacts, ApprovedTyped DEF Clear, ShownTop, LadderInv, ActiveIsLatest, LadderShown, LatestSays

\* The rows stay.
LEMMA RowsStay ==
    ASSUME Clear, Clear', ver' = ver PROVE LadderStep
<1>1. ShownTop /\ ShownTop'
  BY ShownIsTop, PTL
<1>2. LatestApproved' = LatestApproved /\ LadderHead' = LadderHead
  BY DEF LatestApproved, Approved, LadderHead, Pending, Newest, Live
<1> QED BY <1>1, <1>2 DEF LadderStep, ShownTop

\* One row is written that was not approved and is not.
LEMMA TopStays ==
    ASSUME Clear, Clear', NEW v \in VersionIds, NEW row \in Version, ver' = [ver EXCEPT ![v] = row],
           ver[v].state # "approved", row.state # "approved"
    PROVE  UNCHANGED <<LatestApproved, LadderShown>>
<1>1. ShownTop /\ ShownTop'
  BY ShownIsTop, PTL
<1>2. Approved' = Approved /\ \A u \in Approved : ver'[u] = ver[u]
  BY DEF Clear, RowInv, TypeOK, Approved
<1>3. {ver'[u].no : u \in Approved} = {ver[u].no : u \in Approved}
  BY <1>2
<1> QED BY <1>1, <1>2, <1>3 DEF ShownTop, LatestApproved

\* A row becomes pending when none is: a submission.
LEMMA Submits ==
    ASSUME Clear, Clear', NEW v \in VersionIds, NEW row \in Version, ver' = [ver EXCEPT ![v] = row],
           ver[v].state # "approved", row.state = "pending", Pending = {}
    PROVE  LadderStep
<1>1. UNCHANGED <<LatestApproved, LadderShown>>
  BY TopStays
<1>2. v \in Pending'
  BY DEF Clear, RowInv, TypeOK, Pending
<1>3. LadderHead # "pending" /\ LadderHead' = "pending"
  BY <1>2 DEF LadderHead
<1> QED BY <1>1, <1>3 DEF LadderStep, Ladder!Next, Ladder!Submit

LEMMA RejectSteps ==
    ASSUME Clear, Clear', QueueInv, NEW c \in Clients, RejectUpdate(c)
    PROVE  LadderStep
<1>0. /\ req[c].row \in Version /\ req[c].rowDb \in Version /\ Memory(req[c])
      /\ ver \in [VersionIds -> Version] /\ Rejecting(req[c])
  BY DEF Clear, RowInv, TypeOK, Request, RejectUpdate, At, Rejecting
<1>1. PICK v, row : v = req[c].v /\ row = Saved(ver[v], req[c].rowDb, req[c].row)
  OBVIOUS
<1>2. /\ v \in Live /\ v \in VersionIds /\ ver[v] \in Version
      /\ req[c].row.state = "rejected" /\ ver' = [ver EXCEPT ![v] = row]
  BY <1>0, <1>1 DEF RejectUpdate, Memory, Live
<1>3. row \in Version /\ row.state \in {"rejected", ver[v].state}
  BY <1>0, <1>1, <1>2, SavedVersion
<1>4. ver[v].state \in {"pending", "rejected"}
  <2>1. ver[v].state # "approved"
    BY <1>1 DEF RejectUpdate, Clear
  <2> QED BY <1>2, <2>1 DEF Live, Version, States
<1>5. UNCHANGED <<LatestApproved, LadderShown>>
  <2>1. ver[v].state # "approved" /\ row.state # "approved"
    BY <1>3, <1>4
  <2> QED BY <1>2, <1>3, <2>1, TopStays
<1>6. Live' = Live
  BY <1>2, <1>3, <1>4 DEF Live
<1>7. CASE row.state = ver[v].state
  <2>1. \A u \in VersionIds : ver'[u].state = ver[u].state
    BY <1>0, <1>2, <1>7
  <2>2. Pending' = Pending
    BY <2>1 DEF Pending
  <2>3. LadderHead' = LadderHead
    <3>1. (\E u \in Live : Newest(u) /\ ver[u].state = "rejected")'
             <=> (\E u \in Live : Newest(u) /\ ver[u].state = "rejected")
      BY <1>6, <2>1 DEF Newest, Live
    <3> QED BY <2>2, <3>1 DEF LadderHead
  <2> QED BY <1>5, <2>3 DEF LadderStep
<1>8. CASE row.state # ver[v].state
  <2>1. row.state = "rejected" /\ ver[v].state = "pending"
    BY <1>3, <1>4, <1>8
  <2>2. v \in Pending /\ Newest(v) /\ Pending = {v}
    BY <1>2, <2>1 DEF Pending, QueueInv, PendingNewest, Clear, RowInv, OnePending
  <2>3. Pending' = {} /\ ver'[v].state = "rejected"
    BY <1>0, <1>2, <2>1, <2>2 DEF Pending
  <2>4. \E u \in Live' : Newest(u)' /\ ver'[u].state = "rejected"
    BY <1>2, <1>6, <2>2, <2>3 DEF Newest
  <2>5. LadderHead = "pending" /\ LadderHead' = "rejected"
    BY <2>2, <2>3, <2>4 DEF LadderHead
  <2> QED BY <1>5, <2>5 DEF LadderStep, Ladder!Next, Ladder!TurnDown
<1> QED BY <1>7, <1>8

LEMMA ApproveReleases ==
    ASSUME Clear, Clear', LockInv, QueueInv, NEW c \in Clients, ApproveCommit(c)
    PROVE  LadderStep
<1>1. ShownTop /\ ShownTop'
  BY ShownIsTop, PTL
<1>2. PICK v : v = req[c].v
  OBVIOUS
<1>3. /\ Newest(v) /\ ver[v].state = "pending" /\ Live' = Live /\ Pending' = Pending \ {v}
      /\ LatestApproved' = LatestApproved + 1 /\ ver'[v].state = "approved"
  BY <1>2, ApproveCommitSteps DEF Clear, Unhit
<1>4. v \in Pending /\ Pending' = {}
  BY <1>3 DEF Pending, Newest, Live, Clear, RowInv, OnePending
<1>5. ASSUME NEW u \in Live', Newest(u)', ver'[u].state = "rejected" PROVE FALSE
  <2>1. u \in Nat /\ v \in Nat /\ u <= v /\ v <= u
    BY <1>3, <1>5, BoundAssumption DEF Newest, Live, VersionIds
  <2>2. u = v
    BY <2>1
  <2> QED BY <1>3, <1>5, <2>2
<1>6. LadderHead = "pending" /\ LadderHead' = "none"
  BY <1>4, <1>5 DEF LadderHead
<1> QED BY <1>1, <1>3, <1>6 DEF ShownTop, LadderStep, Ladder!Next, Ladder!Release

LEMMA StepsClimb ==
    ASSUME Clear, Clear', LockInv, QueueInv, [Next]_vars PROVE LadderStep
<1>1. CASE UNCHANGED vars
  BY <1>1, RowsStay DEF vars
<1>2. ASSUME NEW c \in Clients, Start(c) \/ Step(c) \/ Abort(c) \/ DeadlockVictim(c)
      PROVE  LadderStep
  <2>0. /\ req[c] \in Request /\ Memory(req[c]) /\ ver \in [VersionIds -> Version]
    BY DEF Clear, RowInv, TypeOK
  <2>1. CASE CreateNew(c)
    <3> DEFINE row == [Absent EXCEPT !.state = "pending", !.no = 1]
    <3>1. row \in Version /\ row.state = "pending" /\ 1 \in VersionIds
      <4>1. row \in Version /\ row.state = "pending"
        BY IdleMemory DEF Version, States, Absent
      <4> QED BY <4>1, BoundAssumption DEF VersionIds
    <3>2. Live = {} /\ ver' = [ver EXCEPT ![1] = row]
      BY <2>1 DEF CreateNew
    <3>3. Pending = {} /\ ver[1].state # "approved"
      BY <3>1, <3>2 DEF Live, Pending
    <3> HIDE DEF row
    <3> QED BY <3>1, <3>2, <3>3, Submits
  <2>2. CASE BumpInsert(c)
    <3>0. PICK row : row = req[c].row
      OBVIOUS
    <3>1. PICK v \in VersionIds \ Live : Pending \subseteq {v} /\ ver' = [ver EXCEPT ![v] = row]
      BY <2>2, <3>0 DEF BumpInsert, PendingIndexAllows
    <3>2. row \in Version /\ row.state = "pending"
      BY <2>0, <2>2, <3>0 DEF BumpInsert, At, Request, Memory
    <3>3. Pending = {} /\ ver[v].state # "approved" /\ v \in VersionIds
      BY <3>1 DEF Live, Pending
    <3> QED BY <3>1, <3>2, <3>3, Submits
  <2>3. CASE EditRow(c)
    <3>0. PICK v, row : v = req[c].v /\ row = [ver[v] EXCEPT !.state = "pending", !.by = None]
      OBVIOUS
    <3>1. v \in VersionIds /\ ver[v] \in Version
      BY <2>0, <2>3, <3>0 DEF EditRow, At, Memory, Editing, Live
    <3>2. CASE req[c].so
      BY <2>3, <3>2, RowsStay DEF EditRow
    <3>3. CASE ~req[c].so
      <4>1. ver[v].state = "rejected" /\ Pending \subseteq {v} /\ ver' = [ver EXCEPT ![v] = row]
        BY <2>0, <2>3, <3>0, <3>1, <3>3 DEF EditRow, EditedState, PendingIndexAllows
      <4>2. row \in Version /\ row.state = "pending"
        BY <3>0, <3>1 DEF Version, States
      <4>3. Pending = {} /\ ver[v].state # "approved"
        BY <4>1 DEF Pending
      <4> QED BY <3>1, <4>1, <4>2, <4>3, Submits
    <3> QED BY <3>2, <3>3
  <2>4. CASE ApproveCommit(c) \/ RejectUpdate(c)
    BY <2>4, ApproveReleases, RejectSteps
  <2>5. CASE \/ BumpStart(c) \/ (\E v \in VersionIds : EditStart(c, v) \/ ApproveLock(c, v) \/ RejectRead(c, v))
             \/ (\E s \in Statuses : ToggleRead(c, s))
             \/ BumpLock(c) \/ BumpConflict(c) \/ EditLock(c) \/ EditRefused(c)
             \/ ApproveRow(c) \/ ApproveLoad(c) \/ RejectLoad(c) \/ RejectRefused(c)
             \/ ToggleLoad(c) \/ ToggleUpdate(c) \/ Abort(c) \/ DeadlockVictim(c)
    <3>1. ver' = ver
      BY <2>5 DEF BumpStart, EditStart, ApproveLock, RejectRead, ToggleRead, BumpLock, BumpConflict,
                  EditLock, EditRefused, ApproveRow, ApproveLoad, RejectLoad, RejectRefused,
                  ToggleLoad, ToggleUpdate, Abort, DeadlockVictim
    <3> QED BY <3>1, RowsStay
  <2> QED BY <1>2, <2>1, <2>2, <2>3, <2>4, <2>5 DEF Start, Step
<1> QED BY <1>1, <1>2 DEF Next

\* The ghost only grows.
LEMMA LostGrows == [Next]_vars => lost \subseteq lost'
<1> SUFFICES ASSUME [Next]_vars PROVE lost \subseteq lost'
  OBVIOUS
<1>1. CASE UNCHANGED vars
  BY <1>1 DEF vars
<1>2. ASSUME NEW c \in Clients, Start(c) \/ Step(c) \/ Abort(c) \/ DeadlockVictim(c)
      PROVE  lost \subseteq lost'
  BY <1>2 DEF Start, Step, CreateNew, BumpStart, EditStart, ApproveLock, RejectRead, ToggleRead,
              BumpLock, BumpInsert, BumpConflict, EditLock, EditRow, EditRefused,
              ApproveRow, ApproveLoad, ApproveCommit, RejectLoad, RejectUpdate, RejectRefused,
              ToggleLoad, ToggleUpdate, Abort, DeadlockVictim
<1> QED BY <1>1, <1>2 DEF Next

\* The review protocol, in all its interleavings, implements ReviewLadder: releases are numbered
\* one by one, published in the step that numbers them, and never withdrawn, until a stale save hits.
THEOREM ImplementsLadderAlways == Spec => ImplementsLadder
<1>1. Init => Ladder!Init
  <2> SUFFICES ASSUME Init PROVE Ladder!Init
    OBVIOUS
  <2>1. Live = {} /\ Approved = {} /\ Pending = {} /\ pkg.active = 0
    BY DEF Init, Live, Approved, Pending, Absent, NewPackage
  <2> QED BY <2>1 DEF Ladder!Init, LatestApproved, LadderHead, LadderShown
<1>2. RowInv /\ RowInv' /\ LockInv /\ QueueInv /\ LadderInv /\ LadderInv' /\ [Next]_vars => [LadderStep]_vars
  <2> SUFFICES ASSUME RowInv, RowInv', LockInv, QueueInv, LadderInv, LadderInv', [Next]_vars, lost' = {}
               PROVE  LadderStep
    BY DEF LadderStep
  <2>1. lost = {}
    BY LostGrows
  <2>2. Clear /\ Clear'
    BY <2>1 DEF Clear
  <2> QED BY <2>2, StepsClimb
<1>3. [LadderStep]_vars => [lost' = {} => Ladder!Next \/ UNCHANGED <<LatestApproved, LadderHead, LadderShown>>]_vars
  BY DEF LadderStep
<1> QED BY <1>1, <1>2, <1>3, RowInvInvariant, LockInvInvariant, QueueInvInvariant, LadderInvInvariant,
           PTL DEF Spec, ImplementsLadder
=============================================================================
