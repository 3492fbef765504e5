-------------------------- MODULE DataAccessRules --------------------------
(***************************************************************************)
(* Data-access rules: a rule allows or denies a record to its subjects,    *)
(* users or roles, through junction rows.  The calls that change rules     *)
(* read first, check the caller's authority, and write in a transaction of *)
(* their own without looking again (removeLink: in two statements;         *)
(* update's transaction is three steps, since two of them can overlap      *)
(* within).  The reader asks for a user's records in five queries.  One    *)
(* table, one role, one permission; the owners' part in authority is the   *)
(* constant Owners; both readings skip a deleted record alike.             *)
(***************************************************************************)
EXTENDS Naturals, FiniteSets, FiniteSetsExt

CONSTANTS Calls,       \* calls under way at one time
          Users, Role, \* the subjects of rules
          Owners,      \* users who own every record, or are super admins
          Records,     \* ids of the table's records
          Rules,       \* ids of data_access rows, numbers
          InitLinks,   \* the subjects of the rule there is at first
          Reader,      \* the user whose records are read
          MaxRuleCalls, MaxToggles  \* bounds: calls, changes by others

ASSUME RulesAssumption == /\ Rules \subseteq Nat /\ Role \notin Users /\ Owners \subseteq Users
                          /\ InitLinks \subseteq Users \cup {Role} /\ InitLinks # {}
                          /\ Reader \in Users /\ MaxRuleCalls \in Nat

VARIABLES rule,        \* data_access with its live junction rows
          inRole, roleOn,       \* members of the role (user_roles), and its status
          userOn,      \* users that are not deleted
          call,        \* the calls under way
          read,        \* getAccessibleRecords under way
          denied,      \* auxiliary: <<subject, record>>: denied to the reader ever since it began
          hurt,        \* auxiliary: rules written on stale knowledge, by half, or emptied by update
          placed, toggled

ruleVars == <<rule, inRole, roleOn, userOn, call, read, denied, hurt, placed, toggled>>

Subjects == Users \cup {Role}
NoneYet  == [state |-> "unused", data |-> 0, scope |-> "allow", links |-> {}, gen |-> 0]
Free     == [pc |-> "idle"]
Live(r)  == rule[r].state = "live"
Who(links) == {l.who : l \in links}
\* Junction rows are hard-deleted and inserted anew by update: gen tells them apart.
Linked(subjects, gen) == {[who |-> s, gen |-> gen] : s \in subjects}

(***************************************************************************)
(* Reading                                                                 *)
(***************************************************************************)
RoleIds(u) == IF u \in inRole /\ roleOn THEN {Role} ELSE {}
\* queryDataIds
DataIds(subjects, scope) ==
    {rule[r].data : r \in {q \in Rules : /\ Live(q) /\ rule[q].scope = scope
                                         /\ Who(rule[q].links) \cap subjects # {}}}
AccessibleRecords(u) == LET subjects == {u} \cup RoleIds(u)
                        IN  DataIds(subjects, "allow") \ DataIds(subjects, "deny")

\* Variant that lists the members of a role that is switched off.
UsersForRecordAny(d, scope) ==
    {u \in userOn : \E r \in Rules : /\ Live(r) /\ rule[r].scope = scope
                                     /\ rule[r].data = d
                                     /\ \/ u \in Who(rule[r].links)
                                        \/ Role \in Who(rule[r].links) /\ u \in inRole}
\* queryUsersForRecord
UsersForRecord(d, scope) ==
    {u \in userOn : \E r \in Rules : /\ Live(r) /\ rule[r].scope = scope
                                     /\ rule[r].data = d
                                     /\ \/ u \in Who(rule[r].links)
                                        \/ Role \in Who(rule[r].links) /\ roleOn /\ u \in inRole}
UsersByRecordPermission(d) == UsersForRecord(d, "allow") \ UsersForRecord(d, "deny")

\* enforceManageGate, canManageRecord: the owner, or whoever has the record.
CanManage(u, d) == u \in Owners \/ d \in AccessibleRecords(u)

(***************************************************************************)
(* Calls                                                                   *)
(***************************************************************************)
Place(c, rec) == /\ call[c].pc = "idle" /\ placed < MaxRuleCalls /\ placed' = placed + 1
                 /\ call' = [call EXCEPT ![c] = rec]
In(c, pc) == call[c].pc = pc
\* A committed write of these rules: what other calls know of them is stale.
Told(c, next, rs) ==
    [x \in Calls |-> IF x = c THEN next
                     ELSE IF call[x].pc # "idle" /\ DOMAIN call[x].copy \cap rs # {}
                          THEN [call[x] EXCEPT !.stale = TRUE] ELSE call[x]]
Written(c, next, rs) ==
    /\ call' = Told(c, next, rs)
    /\ hurt' = IF call[c].stale THEN hurt \cup rs ELSE hurt
World == <<inRole, roleOn, userOn, read, toggled>>
Copy(rs) == [r \in rs |-> rule[r].links]

Kinds == {{}, Users, {Role}, Subjects}
NewRule == Min({r \in Rules : rule[r].state = "unused"})
HasRoom == \E r \in Rules : rule[r].state = "unused"
Inserted(d, scope, subjects) == [state |-> "live", data |-> d, scope |-> scope,
                                 links |-> Linked(subjects, 0), gen |-> 0]

\* create
CreateStart(c, u, d) ==
    /\ CanManage(u, d)
    /\ Place(c, [pc |-> "create", data |-> d, copy |-> <<>>, stale |-> FALSE])
    /\ UNCHANGED <<rule, hurt, World>>

CreateCommit(c) ==
    /\ In(c, "create") /\ HasRoom
    /\ \E scope \in {"allow", "deny"}, subjects \in (SUBSET Subjects) \ {{}} :
          rule' = [rule EXCEPT ![NewRule] = Inserted(call[c].data, scope, subjects)]
    /\ Written(c, Free, {NewRule})
    /\ UNCHANGED <<placed, World>>

\* update: user_permissions and role_ids may each be left out, and may be empty.
UpdateStart(c, u, r) ==
    /\ Live(r) /\ CanManage(u, rule[r].data)
    /\ Place(c, [pc |-> "update", rule |-> r, copy |-> Copy({r}), stale |-> FALSE])
    /\ UNCHANGED <<rule, hurt, World>>

\* save(old) reads the rule as it is.  It would detach a junction row that old lacks, which the column
\* forbids: the request fails.  Else it writes the columns in which the two differ: the scope or the
\* dates of the body, and deleted_at = NULL when the rule was deleted meanwhile.
UpdateSelect(c) ==
    /\ In(c, "update")
    /\ LET r == call[c].rule
       IN  \/ /\ rule[r].links \subseteq call[c].copy[r]
              /\ \E scope \in {"allow", "deny"}, dates \in BOOLEAN :
                    call' = [call EXCEPT ![c] =
                       [pc |-> "save", rule |-> r, copy |-> call[c].copy, stale |-> call[c].stale,
                        scope |-> IF scope = rule[r].scope THEN "same" ELSE scope, revive |-> ~Live(r),
                        writes |-> dates \/ scope # rule[r].scope \/ ~Live(r), seen |-> {}]]
           \/ ~(rule[r].links \subseteq call[c].copy[r]) /\ call' = [call EXCEPT ![c] = Free]
    /\ UNCHANGED <<rule, hurt, placed, World>>

\* The UPDATE, if there is one, waits for that of another update of the rule.  Then the first DELETE
\* takes its snapshot of the junction rows.
UpdateDelete(c) ==
    /\ In(c, "save")
    /\ call[c].writes => ~\E x \in Calls : In(x, "replace") /\ call[x].rule = call[c].rule /\ call[x].writes
    /\ call' = [call EXCEPT ![c].pc = "replace", ![c].seen = rule[call[c].rule].links]
    /\ UNCHANGED <<rule, hurt, placed, World>>

\* What the DELETEs leave: rows of a kind that the body omits, and rows younger than the snapshots.
KeptLinks(r, kinds, roleRows, userRows) ==
    {l \in rule[r].links : l.who \in kinds => l \notin IF l.who = Role THEN roleRows ELSE userRows}

\* The users' DELETE follows the roles', with a snapshot as old or younger.  The INSERT of a user who
\* still has a row fails on the unique index, and the transaction with it (FailCall); the junction
\* with roles has no such index.
UpdateCommit(c) ==
    /\ In(c, "replace")
    /\ LET r == call[c].rule
           gen == rule[r].gen + 1
           seen == call[c].seen
       IN  \E kinds \in Kinds, userRows \in {seen, rule[r].links} : \E subjects \in SUBSET kinds :
              LET kept == KeptLinks(r, kinds, seen, userRows)
                  links == kept \cup Linked(subjects, gen)
              IN  /\ Who(kept) \cap subjects \subseteq {Role}
                  /\ rule' = [rule EXCEPT ![r].state = IF call[c].revive THEN "live" ELSE @,
                                          ![r].scope = IF call[c].scope = "same" THEN @ ELSE call[c].scope,
                                          ![r].gen = gen, ![r].links = links]
                  /\ call' = Told(c, Free, {r})
                  /\ hurt' = IF call[c].stale \/ links = {} THEN hurt \cup {r} ELSE hurt
    /\ UNCHANGED <<placed, World>>

\* delete and removeLink begin alike.
RemovalStart(c, u, r, pc) ==
    /\ Live(r) /\ CanManage(u, rule[r].data)
    /\ Place(c, [pc |-> pc, rule |-> r, copy |-> Copy({r}), stale |-> FALSE])
    /\ UNCHANGED <<rule, hurt, World>>

DeleteCommit(c) ==
    /\ In(c, "delete")
    /\ rule' = [rule EXCEPT ![call[c].rule].state = "deleted", ![call[c].rule].links = {}]
    /\ Written(c, Free, {call[c].rule})
    /\ UNCHANGED <<placed, World>>

Without(links, s) == {l \in links : l.who # s}
\* Variant that counts the subjects before the removal.
RemoveLinkAndCount(c) ==
    /\ In(c, "remove")
    /\ LET r == call[c].rule
       IN  \E s \in Subjects :
              /\ rule' = [rule EXCEPT ![r].links = Without(@, s)]
              /\ Written(c, IF call[c].copy[r] = {}
                            THEN [call[c] EXCEPT !.pc = "last"] ELSE Free, {r})
    /\ UNCHANGED <<placed, World>>

\* removeLink: the junction row goes; whether a subject remains is told from the first reading.
RemoveLink(c) ==
    /\ In(c, "remove")
    /\ LET r == call[c].rule
       IN  \E s \in Subjects :
              /\ rule' = [rule EXCEPT ![r].links = Without(@, s)]
              /\ Written(c, IF Without(call[c].copy[r], s) = {}
                            THEN [call[c] EXCEPT !.pc = "last"] ELSE Free, {r})
    /\ UNCHANGED <<placed, World>>

RemoveRule(c) ==
    /\ In(c, "last")
    /\ rule' = [rule EXCEPT ![call[c].rule].state = "deleted"]
    /\ Written(c, Free, {call[c].rule})
    /\ UNCHANGED <<placed, World>>

\* handover: the recipient must be a live user, the caller able to manage the record.
HandoverStart(c, u, d, to) ==
    /\ to \in userOn /\ CanManage(u, d)
    /\ Place(c, [pc |-> "handover", data |-> d, from |-> to, to |-> to,
                 copy |-> <<>>, stale |-> FALSE])
    /\ UNCHANGED <<rule, hurt, World>>

\* stripUserEditGrant's find: the allow rules of the record that link the giver.
HandoverFind(c) ==
    /\ In(c, "handover") /\ HasRoom
    /\ \E from \in Users \ {call[c].to} :
          call' = [call EXCEPT ![c].pc = "strip", ![c].from = from,
                     ![c].copy = Copy({r \in Rules : /\ Live(r) /\ rule[r].scope = "allow"
                                                     /\ rule[r].data = call[c].data
                                                     /\ from \in Who(rule[r].links)})]
    /\ UNCHANGED <<rule, hurt, placed, World>>

\* Variant that takes every link of a rule that the giver shares with others.
StrippedWhole(c, r) ==
    [rule[r] EXCEPT !.links = {}, !.state = "deleted"]
\* Its writes: the giver's rows that it found, and the rule when it found no other subject.
Stripped(c, r) ==
    LET found == call[c].copy[r]
    IN  [rule[r] EXCEPT !.links = @ \ {l \in found : l.who = call[c].from},
                        !.state = IF Without(found, call[c].from) = {} THEN "deleted" ELSE @]

\* The grant to the recipient and the strip commit together.
HandoverCommit(c) ==
    /\ In(c, "strip") /\ HasRoom
    /\ rule' = [r \in Rules |-> IF r = NewRule THEN Inserted(call[c].data, "allow", {call[c].to})
                                ELSE IF r \in DOMAIN call[c].copy THEN Stripped(c, r) ELSE rule[r]]
    /\ Written(c, Free, DOMAIN call[c].copy)
    /\ UNCHANGED <<placed, World>>

\* A statement fails: a transaction is rolled back; removeLink may have done half its work.
FailCall(c) ==
    /\ call[c].pc # "idle" /\ call' = [call EXCEPT ![c] = Free]
    /\ hurt' = IF In(c, "last") THEN hurt \cup {call[c].rule} ELSE hurt
    /\ UNCHANGED <<rule, placed, World>>

(***************************************************************************)
(* getAccessibleRecords, query by query                                    *)
(***************************************************************************)
Queries == {"allowRole", "allowUser", "denyRole", "denyUser"}
ReadRoles ==
    /\ read.pc = "start"
    /\ read' = [read EXCEPT !.pc = "query", !.roles = RoleIds(Reader), !.todo = Queries]
    /\ UNCHANGED <<rule, inRole, roleOn, userOn, call, hurt, placed, toggled>>

\* Variant that asks for the denies of the roles with the user's id.
QuerySubjectsUser(q) == IF q = "allowRole" THEN read.roles ELSE {Reader}
QuerySubjects(q) == IF q \in {"allowRole", "denyRole"} THEN read.roles ELSE {Reader}

\* Four queries in parallel: each takes its snapshot when a connection of the pool runs it.
ReadQuery(q) ==
    /\ read.pc = "query" /\ q \in read.todo
    /\ LET scope == IF q \in {"allowRole", "allowUser"} THEN "allow" ELSE "deny"
           rows == DataIds(QuerySubjects(q), scope)
           rest == read.todo \ {q}
       IN  read' = [read EXCEPT !.todo = rest, !.pc = IF rest = {} THEN "done" ELSE @,
                                !.allow = IF scope = "allow" THEN @ \cup rows ELSE @,
                                !.deny = IF scope = "deny" THEN @ \cup rows ELSE @]
    /\ UNCHANGED <<rule, inRole, roleOn, userOn, call, hurt, placed, toggled>>

(***************************************************************************)
(* Role and user administration: assignUsers, removeUsers, setStatus,      *)
(* deleteAdmin, each in any order                                          *)
(***************************************************************************)
Toggle ==
    /\ toggled < MaxToggles /\ toggled' = toggled + 1
    /\ \/ \E u \in Users : inRole' = SymDiff(inRole, {u}) /\ UNCHANGED <<roleOn, userOn>>
       \/ roleOn' = ~roleOn /\ UNCHANGED <<inRole, userOn>>
       \/ \E u \in Users : userOn' = userOn \ {u} /\ UNCHANGED <<inRole, roleOn>>
    /\ UNCHANGED <<rule, call, read, hurt, placed>>

RulesInit ==
    /\ rule = [r \in Rules |-> IF r = Min(Rules) THEN Inserted(Min(Records), "allow", InitLinks)
                               ELSE NoneYet]
    /\ inRole = Users /\ roleOn = TRUE /\ userOn = Users
    /\ call = [c \in Calls |-> Free] /\ hurt = {} /\ placed = 0 /\ toggled = 0
    /\ read = [pc |-> "start", roles |-> {}, todo |-> {}, allow |-> {}, deny |-> {}]
    /\ denied = {}

CallStep(c) ==
    \/ CreateCommit(c) \/ UpdateSelect(c) \/ UpdateDelete(c) \/ UpdateCommit(c) \/ DeleteCommit(c)
    \/ RemoveLink(c) \/ RemoveRule(c) \/ HandoverFind(c) \/ HandoverCommit(c) \/ FailCall(c)
CallStart(c, u) ==
    \/ \E r \in Rules : UpdateStart(c, u, r) \/ \E pc \in {"remove", "delete"} : RemovalStart(c, u, r, pc)
    \/ \E d \in Records : CreateStart(c, u, d) \/ \E to \in Users : HandoverStart(c, u, d, to)

DeniedNow == {p \in ({Reader} \cup RoleIds(Reader)) \X Records : p[2] \in DataIds({p[1]}, "deny")}
RulesNext ==
    /\ \/ \E c \in Calls : CallStep(c) \/ \E u \in Users : CallStart(c, u)
       \/ ReadRoles \/ \E q \in Queries : ReadQuery(q)
       \/ Toggle
    /\ denied' = CASE read.pc = "start" -> DeniedNow'
                   [] read.pc = "query" -> denied \cap DeniedNow'
                   [] read.pc = "done"  -> denied

RulesSpec == RulesInit /\ [][RulesNext]_ruleVars

(***************************************************************************)
(* Properties                                                              *)
(***************************************************************************)
\* Types; a subject has one junction row in a rule, update's replacement included, but for the role in
\* a rule written on stale knowledge.
RulesTypeOK ==
    /\ \A r \in Rules : /\ rule[r].state \in {"unused", "live", "deleted"}
                        /\ rule[r].scope \in {"allow", "deny"}
                        /\ Who(rule[r].links) \subseteq Subjects /\ rule[r].gen \in 0..MaxRuleCalls
                        /\ \A l, m \in rule[r].links :
                              l.who = m.who => l = m \/ (l.who = Role /\ r \in hurt)
    /\ inRole \subseteq Users /\ userOn \subseteq Users
    /\ read.todo \subseteq Queries /\ denied \subseteq Subjects \X Records /\ hurt \subseteq Rules

\* The reverse reading (who has this record) agrees with the forward one (what has this user), for
\* the users that are not deleted (permission-query.service.ts 144-149).
ForwardMatchesReverse == \A u \in userOn, d \in Records :
    u \in UsersByRecordPermission(d) <=> d \in AccessibleRecords(u)

\* A record that one subject, the reader or the role, is denied from the first query to the last is
\* not in the answer, whatever is written between the queries (permission-query.service.ts 124-129).
\* A deny that moves from the user to the role between the two deny queries can be missed.
DenyHolds == read.pc = "done" => \A p \in denied : p[2] \notin read.allow \ read.deny

\* A rule that is live has a subject (data-access.service.ts 945-949), unless a call wrote it on
\* what it had read before another call's write, stopped half-way, or emptied it by update.
RulesHaveSubjects == \A r \in Rules \ hurt : Live(r) /\ ~(\E c \in Calls : In(c, "last") /\ call[c].rule = r)
                                                => rule[r].links # {}

\* Taking one subject off a rule, or handing a record over, leaves every other subject's rules as
\* they are (data-access.service.ts 1046-1056), unless written on stale knowledge.
OthersKept == [][\A c \in Calls :
    In(c, "remove") \/ In(c, "last") \/ In(c, "strip") =>
        \E target \in IF In(c, "strip") THEN {call[c].from} ELSE Subjects :
            call'[c].pc # call[c].pc => \A r \in {q \in Rules : Live(q)} \ hurt' :
                Without(rule[r].links, target) # {} =>
                    rule'[r].state = "live" /\ Without(rule[r].links, target) \subseteq rule'[r].links]_ruleVars
=============================================================================
