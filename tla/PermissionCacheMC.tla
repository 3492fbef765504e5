-------------------------- MODULE PermissionCacheMC --------------------------
(***************************************************************************)
(* Instances of PermissionCache for TLC.                                   *)
(***************************************************************************)
EXTENDS PermissionCache, TLC

\* Users, admins and readers are interchangeable: no definition names one.
Symmetry == Permutations(Users) \cup Permutations(Admins) \cup Permutations(Readers)

\* StaleIsDoomed says nothing after a slip: those states need no successors.
NoSlipYet == slips = {}

\* No step relates a user's codes to the owner keys, and StaleIsDoomed speaks of one key at a
\* time: a behaviour is explored while its reads are all of the codes or all of the owner keys.
Touched(kinds) ==
    \/ \E u \in Users, k \in kinds : cache[u][k] # "none"
    \/ \E r \in Readers : ~ReaderAt(r, "idle") /\ reader[r].kind \in kinds
OneFamily == ~(Touched({"codes"}) /\ Touched(OwnerKinds))

AllCalls ==
    {"create", "clone", "sync", "assign", "remove", "update", "matrix", "status", "delete", "user"}
RoleForm == {"update"}
=============================================================================
