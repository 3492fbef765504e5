----------------------------- MODULE Supporters -----------------------------
(***************************************************************************)
(* The supporters of one AI Hub package, the users beside its creator who  *)
(* may submit versions of it.  A save replaces the whole set, and may take *)
(* the right to save away from another caller who is just saving.  Each    *)
(* statement of the transaction sees what is committed by then.  Line      *)
(* numbers in comments are those of asset-hub-supporter.service.ts.        *)
(***************************************************************************)
EXTENDS FiniteSetsExt, Naturals

CONSTANTS Staff,       \* users
          Creator,     \* created_by of the package
          SuperAdmins, \* users of type super_admin
          Askers,      \* calls under way at one time
          MaxAsks,     \* bound: calls
          MaxMoves     \* bound: rights and accounts that other modules switch

ASSUME StaffAssumption == Creator \in Staff /\ SuperAdmins \subseteq Staff

VARIABLES supporters,  \* ai_hub_supporters of the package
          holders,     \* users with the workspace's upload code, by a role or a rule
          present,     \* users that are live and active
          ask,         \* the open calls
          asks, moves  \* calls begun, switches made

supVars == <<supporters, holders, present, ask, asks, moves>>

NoAsk == [pc |-> "idle", user |-> Creator, ids |-> {}, gone |-> {}]
AskAt(a, pc)  == ask[a].pc = pc
AskTurn(a, r) == ask' = [ask EXCEPT ![a] = r] /\ UNCHANGED <<holders, present, asks, moves>>
AskGoes(a, pc) == AskTurn(a, [ask[a] EXCEPT !.pc = pc]) /\ UNCHANGED supporters

\* assertCanUpload: whom listCandidates offers without the code, a super admin, is refused here.
Ask(a, u, ids) ==
    /\ AskAt(a, "idle") /\ asks < MaxAsks
    /\ u \in holders
    /\ ask' = [ask EXCEPT ![a] = [pc |-> "lock", user |-> u, ids |-> ids, gone |-> {}]]
    /\ asks' = asks + 1
    /\ UNCHANGED <<supporters, holders, present, moves>>

\* Variant without FOR UPDATE.
LockPackageShared(a) == AskAt(a, "lock") /\ AskGoes(a, "read")
\* The package row FOR UPDATE, held until the transaction ends.
LockPackage(a) ==
    /\ AskAt(a, "lock")
    /\ \A b \in Askers : ask[b].pc \in {"idle", "lock"}
    /\ AskGoes(a, "read")

\* listSupporterIds and canManageSupporters: workspace owners and approvers are not among them.
ManagedBy(u) == u = Creator \/ u \in supporters
ReadCurrent(a) == AskAt(a, "read") /\ ManagedBy(ask[a].user) /\ AskGoes(a, "users")

\* assertSupporterUsers, in a statement before assertEligible looks at the rights.
CheckUsers(a) == AskAt(a, "users") /\ AskGoes(a, "eligible")
Eligible == present \cap (holders \cup SuperAdmins)
CheckEligible(a) == AskAt(a, "eligible") /\ ask[a].ids \subseteq Eligible /\ AskGoes(a, "delete")

\* replaceSupporters: the DELETE meets the rows committed by then.
DeleteOld(a) ==
    /\ AskAt(a, "delete")
    /\ AskTurn(a, [ask[a] EXCEPT !.pc = "insert", !.gone = supporters])
    /\ UNCHANGED supporters

\* The INSERTs and COMMIT.
InsertNew(a) ==
    /\ AskAt(a, "insert")
    /\ supporters' = (supporters \ ask[a].gone) \cup ask[a].ids
    /\ AskTurn(a, NoAsk)

\* 403 or 400 of a check, or a lost connection at any statement: ROLLBACK.
AskFails(a) == ~AskAt(a, "idle") /\ AskTurn(a, NoAsk) /\ UNCHANGED supporters

\* Role, rule and user administration.  The rows of a user who leaves or loses the code stay.
SwitchRight(u) ==
    /\ moves < MaxMoves /\ moves' = moves + 1
    /\ \/ holders' = SymDiff(holders, {u}) /\ UNCHANGED present
       \/ present' = SymDiff(present, {u}) /\ UNCHANGED holders
    /\ UNCHANGED <<supporters, ask, asks>>

SupInit ==
    /\ supporters = {} /\ holders = Staff \ SuperAdmins /\ present = Staff
    /\ ask = [a \in Askers |-> NoAsk] /\ asks = 0 /\ moves = 0

SupNext ==
    \/ \E a \in Askers :
          \/ \E u \in Staff, ids \in SUBSET Staff : Ask(a, u, ids)
          \/ LockPackage(a) \/ ReadCurrent(a) \/ CheckUsers(a) \/ CheckEligible(a)
          \/ DeleteOld(a) \/ InsertNew(a) \/ AskFails(a)
    \/ \E u \in Staff : SwitchRight(u)

SupSpec == SupInit /\ [][SupNext]_supVars

(***************************************************************************)
(* Properties                                                              *)
(***************************************************************************)
\* A save makes the set what one call asked for, never a mixture of two, and that call's user was
\* the creator or a supporter in the set the save replaced: of two supporters who remove each other
\* only one succeeds ("Row lock serializes concurrent replaces on the same package", 103).
ReplacedByInsider ==
    [][supporters' # supporters =>
         \E a \in Askers : /\ AskAt(a, "insert") /\ supporters' = ask[a].ids
                           /\ ManagedBy(ask[a].user)]_supVars
=============================================================================
