---------------------------- MODULE RulesProofs ----------------------------
(***************************************************************************)
(* Proofs about DataAccessRules, for any users, records, rules and calls.  *)
(* What a call knows of the rules it read still stands when it writes, or  *)
(* it is marked stale: that is the invariant behind RulesHaveSubjects and  *)
(* OthersKept.  What the reader collected covers every deny of a subject   *)
(* whose query is over: that is the one behind DenyHolds.                  *)
(***************************************************************************)
EXTENDS DataAccessRules, FiniteSetTheorems, TLAPS

(***************************************************************************)
(* The two readings                                                        *)
(***************************************************************************)
\* queryDataIds of a user and the user's active roles, and queryUsersForRecord, select one join.
LEMMA ReadingsJoin ==
    ASSUME NEW u \in userOn, NEW d, NEW scope
    PROVE  d \in DataIds({u} \cup RoleIds(u), scope) <=> u \in UsersForRecord(d, scope)
<1>1. ASSUME NEW r \in Rules
      PROVE  Who(rule[r].links) \cap ({u} \cup RoleIds(u)) # {}
             <=> \/ u \in Who(rule[r].links)
                 \/ Role \in Who(rule[r].links) /\ roleOn /\ u \in inRole
  BY DEF RoleIds
<1> QED BY <1>1 DEF DataIds, UsersForRecord

\* The reverse reading names a user for a record exactly when the forward one gives the user the
\* record.  It holds in every state: both are the same join, read from its two ends.
THEOREM ForwardMatchesReverseAlways == RulesSpec => []ForwardMatchesReverse
<1>1. ForwardMatchesReverse
  BY ReadingsJoin DEF ForwardMatchesReverse, UsersByRecordPermission, AccessibleRecords
<1> QED BY <1>1, PTL

(***************************************************************************)
(* The invariant of the writing calls                                      *)
(***************************************************************************)
DataKnown == Records \cup {0, Min(Records)}
LinkRows  == [who : Subjects, gen : Nat]
RuleRows  == [state : {"unused", "live", "deleted"}, data : DataKnown, scope : {"allow", "deny"},
              links : SUBSET LinkRows, gen : Nat]
CopyOf    == UNION {[rs -> SUBSET LinkRows] : rs \in SUBSET Rules}
Saving    == {"save", "replace"}
OnRule    == {"update", "save", "replace", "delete", "remove", "last"}
Creates   == [pc : {"create"}, data : Records, copy : CopyOf, stale : BOOLEAN]
OnRules   == [pc : {"update", "delete", "remove", "last"}, rule : Rules, copy : CopyOf, stale : BOOLEAN]
Saves     == [pc : Saving, rule : Rules, copy : CopyOf, stale : BOOLEAN,
              scope : {"allow", "deny", "same"}, revive : BOOLEAN, writes : BOOLEAN,
              seen : SUBSET LinkRows]
Hands     == [pc : {"handover", "strip"}, data : Records, from : Users, to : Users,
              copy : CopyOf, stale : BOOLEAN]
CallRows  == {Free} \cup Creates \cup OnRules \cup Saves \cup Hands

RowsTyped  == rule \in [Rules -> RuleRows]
WorldTyped == inRole \subseteq Users /\ userOn \subseteq Users /\ hurt \subseteq Rules
CallsTyped == call \in [Calls -> CallRows]

\* A subject has one junction row in a rule: a user by the unique index, the role unless a call
\* wrote the rule on stale knowledge.
OneRow(links, stale) == \A l, m \in links : l.who = m.who => l = m \/ (l.who = Role /\ stale)
OneRowEach == \A r \in Rules : OneRow(rule[r].links, r \in hurt)

\* What a call read is of rows that exist; unless it is stale, it is what the rows still are, and
\* after removeLink's first statement the rule has no subject left.  What update's DELETEs see is what
\* update read, unless it is stale.
Knows(x) == x.pc # "idle" =>
    /\ \A r \in DOMAIN x.copy : rule[r].state # "unused"
    /\ x.pc \in OnRule => DOMAIN x.copy = {x.rule}
    /\ ~x.stale => IF x.pc = "last" THEN rule[x.rule].links = {}
                   ELSE \A r \in DOMAIN x.copy : x.copy[r] = rule[r].links
    /\ x.pc = "replace" /\ ~x.stale => x.seen = x.copy[x.rule]

RulesTyped == RowsTyped /\ WorldTyped /\ CallsTyped
RulesInv   == RulesTyped /\ OneRowEach /\ (\A c \in Calls : Knows(call[c])) /\ RulesHaveSubjects

(***************************************************************************)
(* Lemmas on the operators                                                 *)
(***************************************************************************)
\* A call has the record of the kind its pc says.
LEMMA CallKind ==
    ASSUME RulesInv, NEW c \in Calls
    PROVE  /\ RowsTyped /\ WorldTyped /\ Knows(call[c])
           /\ call[c].pc = "create" => call[c] \in Creates
           /\ call[c].pc \in OnRule \ Saving => call[c] \in OnRules
           /\ call[c].pc \in Saving => call[c] \in Saves
           /\ call[c].pc \in {"handover", "strip"} => call[c] \in Hands
<1>1. RowsTyped /\ WorldTyped /\ Knows(call[c]) /\ call[c] \in CallRows
  BY DEF RulesInv, RulesTyped, CallsTyped
<1>2. CASE call[c] = Free
  BY <1>1, <1>2 DEF Free, OnRule, Saving
<1>3. CASE call[c] \in Creates
  BY <1>1, <1>3 DEF Creates, OnRule, Saving
<1>4. CASE call[c] \in OnRules
  BY <1>1, <1>4 DEF OnRules, OnRule, Saving
<1>5. CASE call[c] \in Saves
  BY <1>1, <1>5 DEF Saves, OnRule, Saving
<1>6. CASE call[c] \in Hands
  BY <1>1, <1>6 DEF Hands, OnRule, Saving
<1> QED BY <1>1, <1>2, <1>3, <1>4, <1>5, <1>6 DEF CallRows

\* A call on a rule, and the rule.
LEMMA RuleCall ==
    ASSUME RulesInv, NEW c \in Calls, call[c].pc \in OnRule
    PROVE  /\ IF call[c].pc \in Saving THEN call[c] \in Saves ELSE call[c] \in OnRules
           /\ call[c].rule \in Rules /\ Knows(call[c])
           /\ rule[call[c].rule] \in RuleRows /\ rule[call[c].rule].state # "unused"
<1>1. /\ IF call[c].pc \in Saving THEN call[c] \in Saves ELSE call[c] \in OnRules
      /\ Knows(call[c]) /\ RowsTyped
  BY CallKind
<1>2. call[c].rule \in Rules
  BY <1>1 DEF OnRules, Saves
<1> QED BY <1>1, <1>2 DEF Knows, RowsTyped, OnRule

\* A set of numbers that is not empty has a least one: MIN(id).
LEMMA LeastNew ==
    ASSUME NEW S \in SUBSET Nat, S # {}
    PROVE  Min(S) \in S
<1> DEFINE Less == {p \in Nat \X Nat : p[1] < p[2]}
<1>1. IsWellFoundedOn(Less, Nat)
  BY NatLessThanWellFounded, Zenon DEF OpToRel
<1>2. PICK x \in S : \A y \in S : ~(<<y, x>> \in Less)
  <2> HIDE DEF Less
  <2> QED BY <1>1, WFMin
<1>3. \A y \in S : x <= y
  <2> SUFFICES ASSUME NEW y \in S PROVE x <= y
    OBVIOUS
  <2>1. y < x => <<y, x>> \in Less
    OBVIOUS
  <2> QED BY <1>2, <2>1
<1> QED BY <1>3 DEF Min

LEMMA NewRuleUnused == ASSUME HasRoom PROVE NewRule \in Rules /\ rule[NewRule].state = "unused"
<1> DEFINE S == {r \in Rules : rule[r].state = "unused"}
<1>1. S \in SUBSET Nat /\ S # {}
  BY RulesAssumption DEF HasRoom
<1>2. Min(S) \in S
  <2> HIDE DEF S
  <2> QED BY <1>1, LeastNew
<1> QED BY <1>2 DEF NewRule

\* Junction rows of some subjects: one for each.
LEMMA LinkedRows ==
    ASSUME NEW subjects \in SUBSET Subjects, NEW gen \in Nat
    PROVE  /\ Linked(subjects, gen) \in SUBSET LinkRows
           /\ subjects # {} => Linked(subjects, gen) # {}
           /\ \A l, m \in Linked(subjects, gen) : l.who = m.who => l = m
           /\ \A l \in Linked(subjects, gen) : l.who \in subjects
<1>1. Linked(subjects, gen) \in SUBSET LinkRows
  BY DEF Linked, LinkRows
<1>2. subjects # {} => Linked(subjects, gen) # {}
  BY DEF Linked
<1>3. \A l \in Linked(subjects, gen) : l = [who |-> l.who, gen |-> gen] /\ l.who \in subjects
  BY DEF Linked
<1> QED BY <1>1, <1>2, <1>3

\* A row as an INSERT makes it, with one junction row for each of its subjects.
LEMMA InsertedRow ==
    ASSUME NEW d \in DataKnown, NEW scope \in {"allow", "deny"}, NEW subjects \in SUBSET Subjects,
           subjects # {}
    PROVE  /\ Inserted(d, scope, subjects) \in RuleRows
           /\ Inserted(d, scope, subjects).state = "live"
           /\ Inserted(d, scope, subjects).links # {}
           /\ \A stale : OneRow(Inserted(d, scope, subjects).links, stale)
BY LinkedRows DEF Inserted, RuleRows, OneRow

\* What a call copies of some rules.
LEMMA CopyTyped ==
    ASSUME RowsTyped, NEW rs \in SUBSET Rules
    PROVE  Copy(rs) \in CopyOf /\ DOMAIN Copy(rs) = rs /\ \A r \in rs : Copy(rs)[r] = rule[r].links
<1>1. Copy(rs) \in [rs -> SUBSET LinkRows]
  BY DEF Copy, RowsTyped, RuleRows
<1> QED BY <1>1 DEF Copy, CopyOf

LEMMA NoCopy == <<>> \in CopyOf /\ DOMAIN <<>> = {}
<1>1. <<>> = [r \in {} |-> {}]
  OBVIOUS
<1>2. <<>> \in [{} -> SUBSET LinkRows]
  BY <1>1
<1> QED BY <1>1, <1>2 DEF CopyOf

\* A record of a call, as Told marks it, keeps its type and all but its knowledge.
LEMMA StaleTyped ==
    ASSUME NEW x \in CallRows, x.pc # "idle"
    PROVE  LET y == [x EXCEPT !.stale = TRUE]
           IN  /\ y \in CallRows /\ y.pc = x.pc /\ y.stale /\ y.copy = x.copy
               /\ x.pc \in OnRule => y.rule = x.rule
<1>1. CASE x = Free
  BY <1>1 DEF Free
<1>2. CASE x \in Creates
  BY <1>2 DEF Creates, CallRows, OnRule
<1>3. CASE x \in OnRules
  BY <1>3 DEF OnRules, CallRows
<1>4. CASE x \in Saves
  BY <1>4 DEF Saves, CallRows
<1>5. CASE x \in Hands
  BY <1>5 DEF Hands, CallRows, OnRule
<1> QED BY <1>1, <1>2, <1>3, <1>4, <1>5 DEF CallRows

\* What every write to the rules is: the call goes on as next, the rows of rs change and whoever has
\* read one of them is told, an unused row may come into use, and a row that is left live has a
\* subject, or is next to go, or is as it was.
LEMMA WriteKeepsInv ==
    ASSUME RulesInv, NEW c \in Calls, NEW rs \in SUBSET Rules, NEW next \in CallRows,
           rule' \in [Rules -> RuleRows], OneRowEach', UNCHANGED <<inRole, userOn>>,
           hurt \subseteq hurt', hurt' \subseteq Rules,
           call' = Told(c, next, rs), Knows(next)',
           \A r \in Rules : /\ r \in rs \/ rule[r].state = "unused" \/ rule'[r] = rule[r]
                            /\ rule'[r].state = "unused" => rule[r].state = "unused",
           \A r \in Rules \ hurt' : rule'[r].state = "live" =>
               \/ rule'[r].links # {}
               \/ next.pc = "last" /\ next.rule = r
               \/ rule'[r] = rule[r] /\ ~(In(c, "last") /\ call[c].rule = r)
    PROVE  RulesInv'
<1> DEFINE told(x) == call[x].pc # "idle" /\ DOMAIN call[x].copy \cap rs # {}
<1>0. RulesTyped /\ (\A x \in Calls : Knows(call[x])) /\ RulesHaveSubjects
  BY DEF RulesInv
<1>1. /\ call'[c] = next
      /\ \A x \in Calls \ {c} : call'[x] = IF told(x) THEN [call[x] EXCEPT !.stale = TRUE] ELSE call[x]
  BY DEF Told
<1>2. \A x \in Calls : call[x] \in CallRows
  BY <1>0 DEF RulesTyped, CallsTyped
<1>3. \A x \in Calls \ {c} : /\ call'[x] \in CallRows /\ call'[x].pc = call[x].pc
                             /\ call[x].pc # "idle" => call'[x].copy = call[x].copy
                             /\ call[x].pc \in OnRule => call'[x].rule = call[x].rule
                             /\ IF told(x) THEN call'[x].stale ELSE call'[x] = call[x]
  <2> SUFFICES ASSUME NEW x \in Calls \ {c}
               PROVE  /\ call'[x] \in CallRows /\ call'[x].pc = call[x].pc
                      /\ call[x].pc # "idle" => call'[x].copy = call[x].copy
                      /\ call[x].pc \in OnRule => call'[x].rule = call[x].rule
                      /\ IF told(x) THEN call'[x].stale ELSE call'[x] = call[x]
    OBVIOUS
  <2>1. CASE told(x)
    <3>1. call'[x] = [call[x] EXCEPT !.stale = TRUE]
      BY <1>1, <2>1
    <3> HIDE DEF told
    <3> QED BY <1>2, <2>1, <3>1, StaleTyped DEF told
  <2>2. CASE ~told(x)
    <3>1. call'[x] = call[x]
      BY <1>1, <2>2
    <3> HIDE DEF told
    <3> QED BY <1>2, <2>2, <3>1
  <2> QED BY <2>1, <2>2
<1>4. CallsTyped'
  <2>1. call' = [x \in Calls |-> call'[x]]
    BY DEF Told
  <2>2. \A x \in Calls : call'[x] \in CallRows
    BY <1>1, <1>3
  <2> QED BY <2>1, <2>2 DEF CallsTyped
<1>5. \A x \in Calls : Knows(call[x])'
  <2>a. Knows(call[c])'
    BY <1>1 DEF Knows
  <2>b. ASSUME NEW x \in Calls \ {c}, call[x].pc = "idle" PROVE Knows(call[x])'
    BY <1>3, <2>b DEF Knows
  <2> SUFFICES ASSUME NEW x \in Calls \ {c}, call[x].pc # "idle" PROVE Knows(call[x])'
    BY <2>a, <2>b
  <2>1. Knows(call[x])
    BY <1>0
  <2>2. DOMAIN call[x].copy \subseteq Rules
    BY <1>2 DEF CallRows, Free, Creates, OnRules, Saves, Hands, CopyOf
  <2>3. \A r \in DOMAIN call[x].copy : rule[r].state # "unused" /\ rule'[r].state # "unused"
    BY <2>1, <2>2 DEF Knows
  <2>4. ~call'[x].stale => /\ call'[x] = call[x]
                           /\ \A r \in DOMAIN call[x].copy : rule'[r] = rule[r]
    <3> SUFFICES ASSUME ~call'[x].stale PROVE ~told(x) /\ call'[x] = call[x]
      BY <2>2, <2>3
    <3> HIDE DEF told
    <3> QED BY <1>3
  <2>5. call'[x].pc = call[x].pc /\ call'[x].copy = call[x].copy
        /\ (call[x].pc \in OnRule => call'[x].rule = call[x].rule)
    BY <1>3
  <2> QED BY <2>1, <2>3, <2>4, <2>5 DEF Knows, OnRule
<1>6. RulesHaveSubjects'
  <2> SUFFICES ASSUME NEW r \in Rules \ hurt', rule'[r].state = "live", rule'[r].links = {}
               PROVE  \E x \in Calls : call'[x].pc = "last" /\ call'[x].rule = r
    BY DEF RulesHaveSubjects, Live, In
  <2>1. CASE next.pc = "last" /\ next.rule = r
    BY <2>1, <1>1
  <2>2. CASE rule'[r] = rule[r] /\ ~(In(c, "last") /\ call[c].rule = r)
    <3>1. PICK x \in Calls : In(x, "last") /\ call[x].rule = r
      BY <1>0, <2>2 DEF RulesHaveSubjects, Live
    <3>2. x # c
      BY <3>1, <2>2
    <3> QED BY <3>1, <3>2, <1>3 DEF In, OnRule
  <2> QED BY <2>1, <2>2
<1>7. RulesTyped'
  BY <1>0, <1>4 DEF RulesTyped, RowsTyped, WorldTyped
<1> QED BY <1>5, <1>6, <1>7 DEF RulesInv

\* A step of a call that writes nothing.
LEMMA CallMoves ==
    ASSUME RulesInv, NEW c \in Calls, NEW next \in CallRows, call' = [call EXCEPT ![c] = next],
           UNCHANGED <<rule, inRole, userOn>>, hurt \subseteq hurt', hurt' \subseteq Rules,
           Knows(next)', In(c, "last") => call[c].rule \in hurt'
    PROVE  RulesInv'
<1>1. call' = Told(c, next, {})
  BY DEF Told, RulesInv, RulesTyped, CallsTyped
<1>2. /\ rule' \in [Rules -> RuleRows] /\ OneRowEach'
  BY DEF RulesInv, RulesTyped, RowsTyped, OneRowEach, OneRow
<1> QED BY <1>1, <1>2, WriteKeepsInv

\* Rows that are as they were, or lost junction rows, or have one for each subject.
LEMMA OneRowStays ==
    ASSUME OneRowEach, hurt \subseteq hurt',
           \A r \in Rules : rule'[r].links \subseteq rule[r].links \/ OneRow(rule'[r].links, r \in hurt')
    PROVE  OneRowEach'
BY DEF OneRowEach, OneRow

(***************************************************************************)
(* Every action preserves it                                               *)
(***************************************************************************)
LEMMA FreeKnows == Free \in CallRows /\ (Knows(Free))' /\ Free.pc = "idle"
BY DEF CallRows, Free, Knows

LEMMA StartKeeps ==
    ASSUME RulesInv, NEW c \in Calls, NEW u \in Users, CallStart(c, u)
    PROVE  RulesInv'
<1> USE DEF CallStart, World
<1>0. RowsTyped /\ WorldTyped /\ CallsTyped
  BY DEF RulesInv, RulesTyped
<1>1. ASSUME NEW r \in Rules, NEW pc \in {"update", "remove", "delete"},
             Live(r), Place(c, [pc |-> pc, rule |-> r, copy |-> Copy({r}), stale |-> FALSE]),
             UNCHANGED <<rule, hurt, World>>
      PROVE  RulesInv'
  <2>1. PICK copy \in CopyOf : copy = Copy({r}) /\ DOMAIN copy = {r} /\ copy[r] = rule[r].links
    BY <1>0, CopyTyped
  <2> DEFINE next == [pc |-> pc, rule |-> r, copy |-> copy, stale |-> FALSE]
  <2>2. next \in CallRows
    BY <2>1 DEF CallRows, OnRules, OnRule
  <2>3. Knows(next)'
    BY <2>1, <1>1 DEF Knows, Live, OnRule
  <2>4. call' = [call EXCEPT ![c] = next] /\ ~In(c, "last")
    BY <1>1, <2>1 DEF Place, In
  <2> HIDE DEF next
  <2> QED BY <1>0, <1>1, <2>2, <2>3, <2>4, CallMoves DEF WorldTyped
<1>2. ASSUME NEW d \in Records, CreateStart(c, u, d) PROVE RulesInv'
  <2> DEFINE next == [pc |-> "create", data |-> d, copy |-> <<>>, stale |-> FALSE]
  <2>1. next \in CallRows /\ (Knows(next))'
    BY NoCopy DEF CallRows, Creates, Knows, OnRule
  <2>2. call' = [call EXCEPT ![c] = next] /\ ~In(c, "last")
    BY <1>2 DEF CreateStart, Place, In
  <2> HIDE DEF next
  <2> QED BY <1>0, <1>2, <2>1, <2>2, CallMoves DEF CreateStart, WorldTyped
<1>3. ASSUME NEW d \in Records, NEW to \in Users, HandoverStart(c, u, d, to) PROVE RulesInv'
  <2> DEFINE next == [pc |-> "handover", data |-> d, from |-> to, to |-> to, copy |-> <<>>, stale |-> FALSE]
  <2>1. next \in CallRows /\ (Knows(next))'
    BY NoCopy DEF CallRows, Hands, Knows, OnRule
  <2>2. call' = [call EXCEPT ![c] = next] /\ ~In(c, "last")
    BY <1>3 DEF HandoverStart, Place, In
  <2> HIDE DEF next
  <2> QED BY <1>0, <1>3, <2>1, <2>2, CallMoves DEF HandoverStart, WorldTyped
<1>4. CASE \E r \in Rules : UpdateStart(c, u, r) \/ \E pc \in {"remove", "delete"} : RemovalStart(c, u, r, pc)
  BY <1>1, <1>4 DEF UpdateStart, RemovalStart
<1> QED BY <1>2, <1>3, <1>4

LEMMA CreateRuleKeeps ==
    ASSUME RulesInv, NEW c \in Calls, CreateCommit(c)
    PROVE  RulesInv'
<1>1. call[c] \in Creates /\ RowsTyped /\ WorldTyped
  BY CallKind DEF CreateCommit, In
<1>2. PICK scope \in {"allow", "deny"}, subjects \in (SUBSET Subjects) \ {{}} :
          rule' = [rule EXCEPT ![NewRule] = Inserted(call[c].data, scope, subjects)]
  BY DEF CreateCommit
<1> DEFINE row == Inserted(call[c].data, scope, subjects)
<1>3. /\ row \in RuleRows /\ row.state = "live" /\ row.links # {}
      /\ \A stale : OneRow(row.links, stale)
  <2>1. call[c].data \in DataKnown
    BY <1>1 DEF Creates, DataKnown
  <2> QED BY <2>1, InsertedRow
<1>4. NewRule \in Rules /\ rule[NewRule].state = "unused"
  BY NewRuleUnused DEF CreateCommit
<1> HIDE DEF row
<1>5. rule' = [rule EXCEPT ![NewRule] = row]
  BY <1>2 DEF row
<1>6. /\ \A r \in Rules : r = NewRule \/ rule'[r] = rule[r]
      /\ rule'[NewRule] = row
  BY <1>1, <1>4, <1>5 DEF RowsTyped
<1>7. /\ call' = Told(c, Free, {NewRule}) /\ hurt \subseteq hurt' /\ hurt' \subseteq Rules
      /\ UNCHANGED <<inRole, userOn>> /\ ~In(c, "last")
  BY <1>1, <1>4 DEF CreateCommit, Written, World, WorldTyped, In
<1>8. rule' \in [Rules -> RuleRows]
  BY <1>1, <1>3, <1>5 DEF RowsTyped
<1>9. OneRowEach'
  BY <1>3, <1>6, <1>7, OneRowStays DEF RulesInv
<1> QED BY <1>3, <1>4, <1>6, <1>7, <1>8, <1>9, FreeKnows, WriteKeepsInv

\* save's SELECT: the call goes on with what it will write, or fails.
LEMMA SelectKeeps ==
    ASSUME RulesInv, NEW c \in Calls, UpdateSelect(c)
    PROVE  RulesInv'
<1>1. call[c].pc = "update" /\ call[c].pc \in OnRule \ Saving
  BY DEF UpdateSelect, In, OnRule, Saving
<1>2. PICK r \in Rules : r = call[c].rule /\ call[c] \in OnRules /\ Knows(call[c]) /\ WorldTyped
  BY <1>1, RuleCall DEF RulesInv, RulesTyped
<1>3. UNCHANGED <<rule, inRole, userOn>> /\ hurt \subseteq hurt' /\ hurt' \subseteq Rules /\ ~In(c, "last")
  BY <1>1, <1>2 DEF UpdateSelect, World, WorldTyped, In
<1>4. CASE call' = [call EXCEPT ![c] = Free]
  BY <1>3, <1>4, FreeKnows, CallMoves
<1>5. CASE \E scope \in {"allow", "deny"}, dates \in BOOLEAN :
              call' = [call EXCEPT ![c] =
                 [pc |-> "save", rule |-> r, copy |-> call[c].copy, stale |-> call[c].stale,
                  scope |-> IF scope = rule[r].scope THEN "same" ELSE scope, revive |-> ~Live(r),
                  writes |-> dates \/ scope # rule[r].scope \/ ~Live(r), seen |-> {}]]
  <2>1. PICK scope \in {"allow", "deny", "same"}, revive \in BOOLEAN, writes \in BOOLEAN :
           call' = [call EXCEPT ![c] =
              [pc |-> "save", rule |-> r, copy |-> call[c].copy, stale |-> call[c].stale,
               scope |-> scope, revive |-> revive, writes |-> writes, seen |-> {}]]
    BY <1>5
  <2>2. PICK next \in CallRows :
           /\ call' = [call EXCEPT ![c] = next]
           /\ next.pc = "save" /\ next.rule = r /\ next.copy = call[c].copy /\ next.stale = call[c].stale
    <3> DEFINE x == [pc |-> "save", rule |-> r, copy |-> call[c].copy, stale |-> call[c].stale,
                     scope |-> scope, revive |-> revive, writes |-> writes, seen |-> {}]
    <3>1. x \in Saves
      BY <1>2 DEF Saves, Saving, OnRules
    <3>2. call' = [call EXCEPT ![c] = x]
      BY <2>1
    <3>3. x.pc = "save" /\ x.rule = r /\ x.copy = call[c].copy /\ x.stale = call[c].stale
      OBVIOUS
    <3> HIDE DEF x
    <3> QED BY <3>1, <3>2, <3>3 DEF CallRows
  <2>3. Knows(next)'
    BY <1>1, <1>2, <1>3, <2>2 DEF Knows, OnRule
  <2> QED BY <1>3, <2>2, <2>3, CallMoves
<1> QED BY <1>2, <1>4, <1>5 DEF UpdateSelect

\* The snapshot of the DELETEs: what the call read, unless it is stale.
LEMMA SnapshotKeeps ==
    ASSUME RulesInv, NEW c \in Calls, UpdateDelete(c)
    PROVE  RulesInv'
<1>1. call[c].pc = "save" /\ call[c].pc \in OnRule /\ call[c].pc \in Saving
  BY DEF UpdateDelete, In, OnRule, Saving
<1>2. PICK r \in Rules : /\ r = call[c].rule /\ call[c] \in Saves /\ Knows(call[c]) /\ WorldTyped
                         /\ rule[r] \in RuleRows
  BY <1>1, RuleCall DEF RulesInv, RulesTyped
<1>3. UNCHANGED <<rule, inRole, userOn>> /\ hurt \subseteq hurt' /\ hurt' \subseteq Rules /\ ~In(c, "last")
  BY <1>1, <1>2 DEF UpdateDelete, World, WorldTyped, In
<1>4. PICK next \in CallRows :
         /\ next = [call[c] EXCEPT !.pc = "replace", !.seen = rule[r].links]
         /\ next.pc = "replace" /\ next.seen = rule[r].links /\ next.rule = r
         /\ next.copy = call[c].copy /\ next.stale = call[c].stale
  <2> DEFINE x == [call[c] EXCEPT !.pc = "replace", !.seen = rule[r].links]
  <2>1. x \in Saves /\ x.pc = "replace" /\ x.seen = rule[r].links /\ x.rule = r
        /\ x.copy = call[c].copy /\ x.stale = call[c].stale
    BY <1>2 DEF Saves, Saving, RuleRows
  <2> QED BY <2>1 DEF CallRows
<1>5. call' = [call EXCEPT ![c] = next]
  BY <1>2, <1>4 DEF UpdateDelete, RulesInv, RulesTyped, CallsTyped
<1>6. Knows(next)'
  BY <1>1, <1>2, <1>3, <1>4 DEF Knows, OnRule
<1> QED BY <1>3, <1>5, <1>6, CallMoves

\* The rows that update leaves to a rule: one for each user by the unique index, and one for the role
\* when the DELETE saw the rows that are there.
LEMMA ReplacedRows ==
    ASSUME NEW r \in Rules, OneRowEach, rule[r] \in RuleRows, NEW kinds, NEW subjects \in SUBSET kinds,
           subjects \subseteq Subjects, NEW gen \in Nat, NEW seen, NEW userRows, NEW stale,
           seen = rule[r].links \/ stale, r \in hurt => stale,
           Who(KeptLinks(r, kinds, seen, userRows)) \cap subjects \subseteq {Role}
    PROVE  LET links == KeptLinks(r, kinds, seen, userRows) \cup Linked(subjects, gen)
           IN  links \in SUBSET LinkRows /\ OneRow(links, stale)
<1> DEFINE kept == KeptLinks(r, kinds, seen, userRows)
           fresh == Linked(subjects, gen)
<1>1. /\ fresh \in SUBSET LinkRows
      /\ \A l, m \in fresh : l.who = m.who => l = m
      /\ \A l \in fresh : l.who \in subjects
  BY LinkedRows
<1>2. kept \subseteq rule[r].links /\ \A l \in kept : l.who = Role /\ Role \in kinds => l \notin seen
  BY DEF KeptLinks
<1>3. kept \in SUBSET LinkRows /\ OneRow(kept, stale)
  BY <1>2 DEF RuleRows, OneRowEach, OneRow
<1>4. ASSUME NEW l \in kept, NEW m \in fresh, l.who = m.who PROVE l.who = Role /\ stale
  <2>1. l.who \in Who(kept) \cap subjects
    BY <1>1, <1>4 DEF Who
  <2>2. l.who = Role /\ Role \in kinds
    BY <2>1
  <2> QED BY <1>2, <1>4, <2>2
<1> HIDE DEF kept, fresh
<1>5. OneRow(kept \cup fresh, stale)
  BY <1>1, <1>3, <1>4 DEF OneRow
<1> QED BY <1>1, <1>3, <1>5 DEF kept, fresh

\* The row that update leaves.
LEMMA UpdatedRow ==
    ASSUME RulesInv, NEW c \in Calls, UpdateCommit(c)
    PROVE  \E r \in Rules, row \in RuleRows :
              /\ r = call[c].rule /\ call[c].pc = "replace" /\ rule[r] \in RuleRows
              /\ rule' = [rule EXCEPT ![r] = row] /\ call' = Told(c, Free, {r})
              /\ hurt' = IF call[c].stale \/ row.links = {} THEN hurt \cup {r} ELSE hurt
              /\ row.state # "unused" /\ row.gen = rule[r].gen + 1 /\ OneRow(row.links, r \in hurt')
<1> DEFINE r == call[c].rule
           gen == rule[r].gen + 1
           seen == call[c].seen
<1>1. call[c].pc = "replace" /\ call[c].pc \in OnRule /\ call[c].pc \in Saving
  BY DEF UpdateCommit, In, OnRule, Saving
<1>2. /\ r \in Rules /\ call[c] \in Saves /\ Knows(call[c]) /\ rule[r] \in RuleRows
      /\ rule[r].state # "unused" /\ RowsTyped /\ WorldTyped /\ OneRowEach
  BY <1>1, RuleCall DEF RulesInv, RulesTyped
<1>3. PICK kinds \in Kinds, userRows \in {seen, rule[r].links} : \E subjects \in SUBSET kinds :
         LET kept == KeptLinks(r, kinds, seen, userRows)
             links == kept \cup Linked(subjects, gen)
         IN  /\ Who(kept) \cap subjects \subseteq {Role}
             /\ rule' = [rule EXCEPT ![r].state = IF call[c].revive THEN "live" ELSE @,
                                     ![r].scope = IF call[c].scope = "same" THEN @ ELSE call[c].scope,
                                     ![r].gen = gen, ![r].links = links]
             /\ call' = Told(c, Free, {r})
             /\ hurt' = IF call[c].stale \/ links = {} THEN hurt \cup {r} ELSE hurt
  BY DEF UpdateCommit
<1>4. PICK subjects \in SUBSET kinds :
         LET kept == KeptLinks(r, kinds, seen, userRows)
             links == kept \cup Linked(subjects, gen)
         IN  /\ Who(kept) \cap subjects \subseteq {Role}
             /\ rule' = [rule EXCEPT ![r].state = IF call[c].revive THEN "live" ELSE @,
                                     ![r].scope = IF call[c].scope = "same" THEN @ ELSE call[c].scope,
                                     ![r].gen = gen, ![r].links = links]
             /\ call' = Told(c, Free, {r})
             /\ hurt' = IF call[c].stale \/ links = {} THEN hurt \cup {r} ELSE hurt
  BY <1>3
<1> DEFINE kept == KeptLinks(r, kinds, seen, userRows)
           links == kept \cup Linked(subjects, gen)
           state == IF call[c].revive THEN "live" ELSE rule[r].state
           scope == IF call[c].scope = "same" THEN rule[r].scope ELSE call[c].scope
           row == [rule[r] EXCEPT !.state = state, !.scope = scope, !.gen = gen, !.links = links]
<1>5. /\ Who(kept) \cap subjects \subseteq {Role} /\ call' = Told(c, Free, {r})
      /\ hurt' = IF call[c].stale \/ links = {} THEN hurt \cup {r} ELSE hurt
  BY <1>4
<1>6. rule' = [rule EXCEPT ![r] = row]
  BY <1>2, <1>4 DEF RowsTyped, RuleRows
<1>7. gen \in Nat /\ state \in {"live", "deleted"} /\ scope \in {"allow", "deny"}
  BY <1>2 DEF RuleRows, Saves
<1>8. seen = rule[r].links \/ call[c].stale
  BY <1>1, <1>2 DEF Knows, OnRule
<1> HIDE DEF state, scope, gen, seen, r, kept
<1>9. subjects \subseteq Subjects
  BY DEF Kinds, Subjects
<1>10. (r \in hurt => r \in hurt') /\ (call[c].stale => r \in hurt')
  BY <1>5
<1>11. links \in SUBSET LinkRows /\ OneRow(links, r \in hurt')
  BY <1>2, <1>5, <1>7, <1>8, <1>9, <1>10, ReplacedRows DEF kept
<1> HIDE DEF links
<1>12. row \in RuleRows /\ row.state = state /\ row.gen = gen /\ row.links = links
  BY <1>2, <1>7, <1>11 DEF RuleRows
<1> HIDE DEF row
<1> QED BY <1>1, <1>2, <1>5, <1>6, <1>7, <1>11, <1>12 DEF r, gen

LEMMA UpdateKeeps ==
    ASSUME RulesInv, NEW c \in Calls, UpdateCommit(c)
    PROVE  RulesInv'
<1>1. PICK r \in Rules, row \in RuleRows :
         /\ r = call[c].rule /\ call[c].pc = "replace" /\ rule[r] \in RuleRows
         /\ rule' = [rule EXCEPT ![r] = row] /\ call' = Told(c, Free, {r})
         /\ hurt' = IF call[c].stale \/ row.links = {} THEN hurt \cup {r} ELSE hurt
         /\ row.state # "unused" /\ row.gen = rule[r].gen + 1 /\ OneRow(row.links, r \in hurt')
  BY UpdatedRow
<1>2. /\ (r \in hurt' \/ row.links # {}) /\ hurt \subseteq hurt' /\ hurt' \subseteq Rules
      /\ UNCHANGED <<inRole, userOn>> /\ ~In(c, "last")
  BY <1>1 DEF RulesInv, RulesTyped, WorldTyped, UpdateCommit, World, In
<1>3. rule'[r] = row /\ (\A q \in Rules : q = r \/ rule'[q] = rule[q]) /\ rule' \in [Rules -> RuleRows]
  BY <1>1 DEF RulesInv, RulesTyped, RowsTyped
<1>4. OneRowEach'
  BY <1>1, <1>2, <1>3, OneRowStays DEF RulesInv
<1> QED BY <1>1, <1>2, <1>3, <1>4, FreeKnows, WriteKeepsInv

\* A call that works on one rule writes it, and goes on as next.
LEMMA RowWritten ==
    ASSUME RulesInv, NEW c \in Calls, call[c] \in OnRules, NEW r \in Rules, r = call[c].rule,
           NEW row \in RuleRows, row.state # "unused", row.links \subseteq rule[r].links,
           rule' = [rule EXCEPT ![r] = row], NEW next \in CallRows, Knows(next)',
           Written(c, next, {r}), UNCHANGED World,
           row.state = "live" => call[c].stale \/ row.links # {} \/ (next.pc = "last" /\ next.rule = r)
    PROVE  RulesInv'
<1>1. RowsTyped /\ WorldTyped
  BY DEF RulesInv, RulesTyped
<1>2. rule'[r] = row /\ (\A q \in Rules : q = r \/ rule'[q] = rule[q]) /\ rule' \in [Rules -> RuleRows]
  BY <1>1 DEF RowsTyped
<1>3. /\ call' = Told(c, next, {r}) /\ (r \in hurt' \/ ~call[c].stale)
      /\ hurt \subseteq hurt' /\ hurt' \subseteq Rules /\ UNCHANGED <<inRole, userOn>>
  BY <1>1 DEF Written, WorldTyped, World
<1>4. OneRowEach'
  BY <1>2, <1>3, OneRowStays DEF RulesInv
<1> QED BY <1>2, <1>3, <1>4, WriteKeepsInv

LEMMA DeleteKeeps ==
    ASSUME RulesInv, NEW c \in Calls, DeleteCommit(c)
    PROVE  RulesInv'
<1> DEFINE r == call[c].rule
           row == [rule[r] EXCEPT !.state = "deleted", !.links = {}]
<1>1. call[c].pc \in OnRule \ Saving
  BY DEF DeleteCommit, In, OnRule, Saving
<1>2. call[c] \in OnRules /\ r \in Rules /\ rule[r] \in RuleRows
  BY <1>1, RuleCall
<1>3. rule' = [rule EXCEPT ![r] = row]
  BY <1>2 DEF DeleteCommit, RulesInv, RulesTyped, RowsTyped, RuleRows
<1>4. row \in RuleRows /\ row.state = "deleted" /\ row.links = {}
  BY <1>2 DEF RuleRows
<1>5. Written(c, Free, {r}) /\ UNCHANGED World
  BY DEF DeleteCommit
<1> HIDE DEF r, row
<1> QED BY <1>2, <1>3, <1>4, <1>5, FreeKnows, RowWritten DEF r

LEMMA RemoveRuleKeeps ==
    ASSUME RulesInv, NEW c \in Calls, RemoveRule(c)
    PROVE  RulesInv'
<1> DEFINE r == call[c].rule
           row == [rule[r] EXCEPT !.state = "deleted"]
<1>1. call[c].pc \in OnRule \ Saving
  BY DEF RemoveRule, In, OnRule, Saving
<1>2. call[c] \in OnRules /\ r \in Rules /\ rule[r] \in RuleRows
  BY <1>1, RuleCall
<1>3. rule' = [rule EXCEPT ![r] = row]
  BY <1>2 DEF RemoveRule, RulesInv, RulesTyped, RowsTyped, RuleRows
<1>4. row \in RuleRows /\ row.state = "deleted" /\ row.links = rule[r].links
  BY <1>2 DEF RuleRows
<1>5. Written(c, Free, {r}) /\ UNCHANGED World
  BY DEF RemoveRule
<1> HIDE DEF r, row
<1> QED BY <1>2, <1>3, <1>4, <1>5, FreeKnows, RowWritten DEF r

\* removeLink's first statement: the row loses one subject, and the call goes on to the second one
\* when it had read no other subject.
LEMMA RemoveLinkStep ==
    ASSUME RulesInv, NEW c \in Calls, RemoveLink(c)
    PROVE  \E s \in Subjects : LET r == call[c].rule IN
              /\ rule' = [rule EXCEPT ![r] = [rule[r] EXCEPT !.links = Without(rule[r].links, s)]]
              /\ Written(c, IF Without(call[c].copy[r], s) = {}
                            THEN [call[c] EXCEPT !.pc = "last"] ELSE Free, {r})
<1>1. call[c].pc \in OnRule \ Saving
  BY DEF RemoveLink, In, OnRule, Saving
<1>2. call[c] \in OnRules /\ call[c].rule \in Rules /\ rule[call[c].rule] \in RuleRows
  BY <1>1, RuleCall
<1>3. PICK s \in Subjects :
         /\ rule' = [rule EXCEPT ![call[c].rule].links = Without(@, s)]
         /\ Written(c, IF Without(call[c].copy[call[c].rule], s) = {}
                       THEN [call[c] EXCEPT !.pc = "last"] ELSE Free, {call[c].rule})
  BY DEF RemoveLink
<1>4. rule' = [rule EXCEPT ![call[c].rule] = [rule[call[c].rule] EXCEPT !.links = Without(rule[call[c].rule].links, s)]]
  BY <1>2, <1>3 DEF RulesInv, RulesTyped, RowsTyped, RuleRows
<1> QED BY <1>3, <1>4

LEMMA RemoveLinkKeeps ==
    ASSUME RulesInv, NEW c \in Calls, RemoveLink(c)
    PROVE  RulesInv'
<1>1. In(c, "remove") /\ call[c].pc \in OnRule \ Saving
  BY DEF RemoveLink, In, OnRule, Saving
<1>2. PICK r \in Rules : r = call[c].rule /\ call[c] \in OnRules /\ Knows(call[c])
                         /\ rule[r] \in RuleRows /\ rule[r].state # "unused"
  BY <1>1, RuleCall
<1>3. PICK s \in Subjects :
         /\ rule' = [rule EXCEPT ![r] = [rule[r] EXCEPT !.links = Without(rule[r].links, s)]]
         /\ Written(c, IF Without(call[c].copy[r], s) = {}
                       THEN [call[c] EXCEPT !.pc = "last"] ELSE Free, {r})
  BY <1>2, RemoveLinkStep
<1> DEFINE row == [rule[r] EXCEPT !.links = Without(rule[r].links, s)]
<1>4. /\ row \in RuleRows /\ row.state = rule[r].state
      /\ row.links = Without(rule[r].links, s) /\ row.links \subseteq rule[r].links
  BY <1>2 DEF RuleRows, Without
<1>5. ~call[c].stale => call[c].copy[r] = rule[r].links
  BY <1>1, <1>2 DEF Knows, In, OnRule
<1>6. rule' = [rule EXCEPT ![r] = row] /\ rule'[r] = row
  BY <1>2, <1>3 DEF RulesInv, RulesTyped, RowsTyped
<1> HIDE DEF row
<1>7. CASE Without(call[c].copy[r], s) = {}
  <2>1. PICK next \in CallRows : /\ next = [call[c] EXCEPT !.pc = "last"] /\ next.pc = "last"
                                 /\ next.rule = r /\ next.copy = call[c].copy
                                 /\ next.stale = call[c].stale
    <3> DEFINE x == [call[c] EXCEPT !.pc = "last"]
    <3>1. x \in OnRules /\ x.pc = "last" /\ x.rule = r /\ x.copy = call[c].copy /\ x.stale = call[c].stale
      BY <1>2 DEF OnRules, OnRule
    <3> QED BY <3>1 DEF CallRows
  <2>2. Knows(next)'
    <3>1. DOMAIN next.copy = {r}
      BY <1>1, <1>2, <2>1 DEF Knows, In, OnRule
    <3>2. ~next.stale => rule'[r].links = {}
      BY <1>4, <1>5, <1>6, <1>7, <2>1
    <3> QED BY <1>2, <1>4, <1>6, <2>1, <3>1, <3>2 DEF Knows
  <2>3. Written(c, next, {r})
    BY <1>3, <1>7, <2>1
  <2> QED BY <1>2, <1>4, <1>6, <2>1, <2>2, <2>3, RowWritten DEF RemoveLink
<1>8. CASE Without(call[c].copy[r], s) # {}
  <2>1. Written(c, Free, {r})
    BY <1>3, <1>8
  <2> QED BY <1>2, <1>4, <1>5, <1>6, <1>8, <2>1, FreeKnows, RowWritten DEF RemoveLink
<1> QED BY <1>7, <1>8

LEMMA FindKeeps ==
    ASSUME RulesInv, NEW c \in Calls, HandoverFind(c)
    PROVE  RulesInv'
<1>1. call[c] \in Hands /\ call[c].pc = "handover" /\ RowsTyped /\ WorldTyped
  BY CallKind DEF HandoverFind, In
<1>2. PICK from \in Users \ {call[c].to} :
         call' = [call EXCEPT ![c].pc = "strip", ![c].from = from,
                     ![c].copy = Copy({r \in Rules : /\ Live(r) /\ rule[r].scope = "allow"
                                                     /\ rule[r].data = call[c].data
                                                     /\ from \in Who(rule[r].links)})]
  BY DEF HandoverFind
<1>3. PICK rs \in SUBSET Rules :
         /\ rs = {r \in Rules : /\ Live(r) /\ rule[r].scope = "allow" /\ rule[r].data = call[c].data
                                /\ from \in Who(rule[r].links)}
         /\ \A r \in rs : rule[r].state = "live"
  <2> DEFINE rs == {r \in Rules : /\ Live(r) /\ rule[r].scope = "allow" /\ rule[r].data = call[c].data
                                  /\ from \in Who(rule[r].links)}
  <2>1. rs \in SUBSET Rules /\ \A r \in rs : rule[r].state = "live"
    BY DEF Live
  <2> QED BY <2>1
<1>4. PICK copy \in CopyOf : copy = Copy(rs) /\ DOMAIN copy = rs /\ \A r \in rs : copy[r] = rule[r].links
  BY <1>1, CopyTyped
<1>5. PICK next \in CallRows : /\ next = [call[c] EXCEPT !.pc = "strip", !.from = from, !.copy = copy]
                               /\ next.pc = "strip" /\ next.copy = copy
  <2> DEFINE x == [call[c] EXCEPT !.pc = "strip", !.from = from, !.copy = copy]
  <2>1. x \in Hands /\ x.pc = "strip" /\ x.copy = copy
    BY <1>1 DEF Hands
  <2> QED BY <2>1 DEF CallRows
<1>6. call' = [call EXCEPT ![c] = next] /\ ~In(c, "last") /\ UNCHANGED <<rule, hurt, inRole, userOn>>
  BY <1>1, <1>2, <1>3, <1>4, <1>5 DEF HandoverFind, World, In, RulesInv, RulesTyped, CallsTyped
<1>7. Knows(next)'
  BY <1>3, <1>4, <1>5, <1>6 DEF Knows, OnRule
<1> QED BY <1>1, <1>5, <1>6, <1>7, CallMoves DEF WorldTyped

\* What the strip leaves of a rule of which the call knows the subjects: it takes the giver off, and
\* deletes the rule only when nobody else was on it.
LEMMA StrippedRow ==
    ASSUME NEW r \in Rules, NEW c \in Calls, rule[r] \in RuleRows
    PROVE  /\ Stripped(c, r) \in RuleRows /\ Stripped(c, r).links \subseteq rule[r].links
           /\ rule[r].state # "unused" => Stripped(c, r).state # "unused"
           /\ call[c].copy[r] = rule[r].links =>
                 /\ Stripped(c, r).links = Without(rule[r].links, call[c].from)
                 /\ Stripped(c, r).links # {} => Stripped(c, r).state = rule[r].state
                 /\ Stripped(c, r).links = {} => Stripped(c, r).state = "deleted"
<1> DEFINE found == call[c].copy[r]
           left  == rule[r].links \ {l \in found : l.who = call[c].from}
           state == IF Without(found, call[c].from) = {} THEN "deleted" ELSE rule[r].state
<1>1. Stripped(c, r) = [rule[r] EXCEPT !.links = left, !.state = state]
  BY DEF Stripped, RuleRows
<1>2. left \in SUBSET LinkRows /\ left \subseteq rule[r].links /\ state \in {"unused", "live", "deleted"}
  BY DEF RuleRows
<1>3. found = rule[r].links => left = Without(rule[r].links, call[c].from)
  BY DEF Without
<1>4. /\ rule[r].state # "unused" => state # "unused"
      /\ found = rule[r].links =>
            /\ left # {} => state = rule[r].state
            /\ left = {} => state = "deleted"
  BY <1>3
<1> HIDE DEF found, left, state
<1>5. Stripped(c, r) \in RuleRows /\ Stripped(c, r).links = left /\ Stripped(c, r).state = state
  BY <1>1, <1>2 DEF RuleRows
<1> QED BY <1>2, <1>3, <1>4, <1>5 DEF found

LEMMA HandoverKeeps ==
    ASSUME RulesInv, NEW c \in Calls, HandoverCommit(c)
    PROVE  RulesInv'
<1>1. /\ call[c] \in Hands /\ RowsTyped /\ WorldTyped /\ Knows(call[c])
      /\ call[c].pc = "strip" /\ ~In(c, "last")
  BY CallKind DEF HandoverCommit, In
<1>2. PICK rs \in SUBSET Rules : rs = DOMAIN call[c].copy
  BY <1>1 DEF Hands, CopyOf
<1>3. NewRule \in Rules /\ rule[NewRule].state = "unused"
  BY NewRuleUnused DEF HandoverCommit
<1>4. PICK row \in RuleRows : /\ row = Inserted(call[c].data, "allow", {call[c].to})
                              /\ row.state = "live" /\ row.links # {}
                              /\ \A stale : OneRow(row.links, stale)
  <2>0. call[c].data \in Records /\ call[c].to \in Users
    BY <1>1 DEF Hands
  <2>1. call[c].data \in DataKnown /\ {call[c].to} \in SUBSET Subjects /\ {call[c].to} # {}
    BY <2>0 DEF DataKnown, Subjects
  <2> DEFINE row == Inserted(call[c].data, "allow", {call[c].to})
  <2>2. /\ row \in RuleRows /\ row.state = "live" /\ row.links # {}
        /\ \A stale : OneRow(row.links, stale)
    BY <2>1, InsertedRow
  <2> HIDE DEF row
  <2>3. \E x \in RuleRows : x = row
    BY <2>2
  <2> QED BY <2>2, <2>3 DEF row
<1>5. rule' = [r \in Rules |-> IF r = NewRule THEN row ELSE IF r \in rs THEN Stripped(c, r) ELSE rule[r]]
  BY <1>2, <1>4 DEF HandoverCommit
<1>6. NewRule \notin rs /\ \A r \in rs : rule[r].state # "unused"
                           /\ (~call[c].stale => call[c].copy[r] = rule[r].links)
  BY <1>1, <1>2, <1>3 DEF Knows
<1>7. rule'[NewRule] = row
  BY <1>3, <1>5
<1>8. \A r \in rs : /\ rule'[r] \in RuleRows /\ rule'[r].state # "unused"
                    /\ rule'[r].links \subseteq rule[r].links
                    /\ ~call[c].stale /\ rule'[r].state = "live" => rule'[r].links # {}
  <2> SUFFICES ASSUME NEW r \in rs
               PROVE  /\ rule'[r] \in RuleRows /\ rule'[r].state # "unused"
                      /\ rule'[r].links \subseteq rule[r].links
                      /\ ~call[c].stale /\ rule'[r].state = "live" => rule'[r].links # {}
    OBVIOUS
  <2>1. rule'[r] = Stripped(c, r) /\ rule[r] \in RuleRows
    BY <1>1, <1>5, <1>6 DEF RowsTyped
  <2> QED BY <1>6, <2>1, StrippedRow
<1>9. \A r \in Rules : r = NewRule \/ r \in rs \/ rule'[r] = rule[r]
  BY <1>5
<1>10. /\ call' = Told(c, Free, rs) /\ hurt \subseteq hurt' /\ hurt' \subseteq Rules
       /\ (~call[c].stale \/ rs \subseteq hurt') /\ UNCHANGED <<inRole, userOn>>
  BY <1>1, <1>2 DEF HandoverCommit, Written, World, WorldTyped
<1>11. rule' \in [Rules -> RuleRows] /\ OneRowEach'
  <2>1. \A r \in Rules : rule'[r] \in RuleRows
    BY <1>1, <1>7, <1>8, <1>9 DEF RowsTyped
  <2>2. OneRowEach'
    BY <1>4, <1>7, <1>8, <1>9, <1>10, OneRowStays DEF RulesInv
  <2>3. rule' = [r \in Rules |-> rule'[r]]
    BY <1>5
  <2> QED BY <2>1, <2>2, <2>3
<1>12. \A r \in Rules \ hurt' : rule'[r].state = "live" => rule'[r].links # {} \/ rule'[r] = rule[r]
  BY <1>4, <1>7, <1>8, <1>9, <1>10
<1>13. \A r \in Rules : /\ r \in rs \/ rule[r].state = "unused" \/ rule'[r] = rule[r]
                        /\ rule'[r].state = "unused" => rule[r].state = "unused"
  BY <1>3, <1>8, <1>9
<1> QED BY <1>1, <1>10, <1>11, <1>12, <1>13, FreeKnows, WriteKeepsInv

LEMMA FailKeeps ==
    ASSUME RulesInv, NEW c \in Calls, FailCall(c)
    PROVE  RulesInv'
<1>1. In(c, "last") => call[c].rule \in Rules
  BY RuleCall DEF In, OnRule
<1>2. hurt \subseteq hurt' /\ hurt' \subseteq Rules
  BY <1>1 DEF FailCall, RulesInv, RulesTyped, WorldTyped
<1> QED BY <1>2, FreeKnows, CallMoves DEF FailCall, World

\* The reader and the administration of roles and users touch no rule and no call.
LEMMA OthersKeepInv ==
    ASSUME RulesInv, UNCHANGED <<rule, call, hurt>>,
           UNCHANGED <<inRole, userOn>> \/ (inRole' \subseteq Users /\ userOn' \subseteq Users)
    PROVE  RulesInv'
<1>1. RulesTyped'
  BY DEF RulesInv, RulesTyped, RowsTyped, WorldTyped, CallsTyped
<1>2. OneRowEach' /\ (\A c \in Calls : Knows(call[c])')
  BY DEF RulesInv, OneRowEach, Knows
<1>3. RulesHaveSubjects'
  BY DEF RulesInv, RulesHaveSubjects, Live, In
<1> QED BY <1>1, <1>2, <1>3 DEF RulesInv

LEMMA RulesInitial == RulesInit => RulesInv
<1> SUFFICES ASSUME RulesInit PROVE RulesInv
  OBVIOUS
<1>1. NoneYet \in RuleRows /\ NoneYet.state = "unused" /\ NoneYet.links = {}
  BY DEF NoneYet, RuleRows, DataKnown
<1>2. /\ Inserted(Min(Records), "allow", InitLinks) \in RuleRows
      /\ Inserted(Min(Records), "allow", InitLinks).state = "live"
      /\ Inserted(Min(Records), "allow", InitLinks).links # {}
      /\ \A stale : OneRow(Inserted(Min(Records), "allow", InitLinks).links, stale)
  BY InsertedRow, RulesAssumption DEF DataKnown, Subjects
<1>3. RowsTyped /\ OneRowEach
  BY <1>1, <1>2 DEF RulesInit, RowsTyped, OneRowEach, OneRow
<1>4. WorldTyped /\ CallsTyped /\ \A c \in Calls : Knows(call[c])
  BY DEF RulesInit, WorldTyped, CallsTyped, CallRows, Free, Knows
<1>5. RulesHaveSubjects
  BY <1>1, <1>2 DEF RulesInit, RulesHaveSubjects, Live
<1> QED BY <1>3, <1>4, <1>5 DEF RulesInv, RulesTyped

LEMMA RulesStep == RulesInv /\ [RulesNext]_ruleVars => RulesInv'
<1> SUFFICES ASSUME RulesInv, [RulesNext]_ruleVars PROVE RulesInv'
  OBVIOUS
<1>1. ASSUME NEW c \in Calls, CallStep(c) PROVE RulesInv'
  BY <1>1, CreateRuleKeeps, SelectKeeps, SnapshotKeeps, UpdateKeeps, DeleteKeeps, RemoveLinkKeeps, RemoveRuleKeeps, FindKeeps,
     HandoverKeeps, FailKeeps DEF CallStep
<1>2. ASSUME NEW c \in Calls, NEW u \in Users, CallStart(c, u) PROVE RulesInv'
  BY <1>2, StartKeeps
<1>3. ASSUME ReadRoles \/ \E q \in Queries : ReadQuery(q) PROVE RulesInv'
  BY <1>3, OthersKeepInv DEF ReadRoles, ReadQuery
<1>4. CASE Toggle
  <2>1. inRole' \subseteq Users /\ userOn' \subseteq Users /\ UNCHANGED <<rule, call, hurt>>
    BY <1>4 DEF Toggle, SymDiff, RulesInv, RulesTyped, WorldTyped
  <2> QED BY <2>1, OthersKeepInv
<1>5. CASE UNCHANGED ruleVars
  BY <1>5, OthersKeepInv DEF ruleVars
<1> QED BY <1>1, <1>2, <1>3, <1>4, <1>5 DEF RulesNext

\* The invariant of the calls: what a call knows of a rule still stands, or it is marked stale.
THEOREM RulesInvInvariant == RulesSpec => []RulesInv
BY RulesInitial, RulesStep, PTL DEF RulesSpec

\* A rule that is live has a subject, unless a call wrote it on stale knowledge, stopped half-way
\* through removing it, or emptied it by update.
THEOREM RulesHaveSubjectsAlways == RulesSpec => []RulesHaveSubjects
<1>1. RulesInv => RulesHaveSubjects
  BY DEF RulesInv
<1> QED BY <1>1, RulesInvInvariant, PTL

(***************************************************************************)
(* What a removal or a hand-over leaves alone                              *)
(***************************************************************************)
\* Taking the target off rule r, which the call may have known wrongly, leaves the others on it.
Left(r, target) == Without(rule[r].links, target) # {} =>
                      rule'[r].state = "live" /\ Without(rule[r].links, target) \subseteq rule'[r].links

LEMMA LeftAsItWas == ASSUME NEW r, NEW target, rule'[r] = rule[r], Live(r) PROVE Left(r, target)
BY DEF Left, Without, Live

LEMMA RemoveLeaves ==
    ASSUME RulesInv, NEW c \in Calls, RemoveLink(c)
    PROVE  \E target \in Subjects : \A r \in {q \in Rules : Live(q)} \ hurt' : Left(r, target)
<1>1. call[c].pc \in OnRule
  BY DEF RemoveLink, In, OnRule
<1>2. PICK r \in Rules : r = call[c].rule /\ rule[r] \in RuleRows
  BY <1>1, RuleCall
<1>3. PICK s \in Subjects : rule' = [rule EXCEPT ![r] = [rule[r] EXCEPT !.links = Without(rule[r].links, s)]]
  BY <1>2, RemoveLinkStep
<1>4. rule'[r].links = Without(rule[r].links, s) /\ rule'[r].state = rule[r].state
  BY <1>2, <1>3 DEF RulesInv, RulesTyped, RowsTyped, RuleRows
<1>5. \A q \in Rules \ {r} : rule'[q] = rule[q]
  BY <1>3 DEF RulesInv, RulesTyped, RowsTyped
<1>6. Live(r) => Left(r, s)
  BY <1>4 DEF Left, Live
<1> QED BY <1>5, <1>6, LeftAsItWas

LEMMA RemoveRuleLeaves ==
    ASSUME RulesInv, NEW c \in Calls, RemoveRule(c), NEW target
    PROVE  \A r \in {q \in Rules : Live(q)} \ hurt' : Left(r, target)
<1>1. In(c, "last") /\ call[c].pc \in OnRule
  BY DEF RemoveRule, In, OnRule
<1>2. PICK r \in Rules : r = call[c].rule /\ rule[r] \in RuleRows /\ Knows(call[c])
  BY <1>1, RuleCall
<1>3. \A q \in Rules \ {r} : rule'[q] = rule[q]
  BY <1>2 DEF RemoveRule, RulesInv, RulesTyped, RowsTyped
<1>4. r \notin hurt' => rule[r].links = {}
  BY <1>1, <1>2 DEF RemoveRule, Written, Knows, In
<1>5. r \notin hurt' => Left(r, target)
  BY <1>4 DEF Left, Without
<1> QED BY <1>3, <1>5, LeftAsItWas

LEMMA HandoverLeaves ==
    ASSUME RulesInv, NEW c \in Calls, HandoverCommit(c)
    PROVE  \A r \in {q \in Rules : Live(q)} \ hurt' : Left(r, call[c].from)
<1>1. call[c] \in Hands /\ RowsTyped /\ Knows(call[c]) /\ call[c].pc = "strip"
  BY CallKind DEF HandoverCommit, In
<1>2. rule[NewRule].state = "unused"
  BY NewRuleUnused DEF HandoverCommit
<1>3. SUFFICES ASSUME NEW r \in Rules, Live(r), r \notin hurt' PROVE Left(r, call[c].from)
  OBVIOUS
<1>4. r # NewRule /\ rule[r] \in RuleRows
  BY <1>1, <1>2, <1>3 DEF Live, RowsTyped
<1>5. rule'[r] = IF r \in DOMAIN call[c].copy THEN Stripped(c, r) ELSE rule[r]
  BY <1>4 DEF HandoverCommit
<1>6. CASE r \in DOMAIN call[c].copy
  <2>1. call[c].copy[r] = rule[r].links
    BY <1>1, <1>3, <1>6 DEF Knows, HandoverCommit, Written
  <2>2. /\ rule'[r].links = Without(rule[r].links, call[c].from)
        /\ rule'[r].links # {} => rule'[r].state = "live"
    BY <1>3, <1>4, <1>5, <1>6, <2>1, StrippedRow DEF Live
  <2> QED BY <2>2 DEF Left
<1>7. CASE r \notin DOMAIN call[c].copy
  BY <1>3, <1>5, <1>7, LeftAsItWas
<1> QED BY <1>6, <1>7

\* A step of one call leaves where the others stand.
LEMMA OtherCallsStay ==
    ASSUME RulesInv, NEW c \in Calls, NEW d \in Calls \ {c}, NEW next, NEW rs,
           call' = Told(d, next, rs) \/ call' = [call EXCEPT ![d] = next]
    PROVE  call'[c].pc = call[c].pc
<1>1. call[c] \in CallRows
  BY DEF RulesInv, RulesTyped, CallsTyped
<1>2. CASE call' = [call EXCEPT ![d] = next]
  BY <1>2 DEF RulesInv, RulesTyped, CallsTyped
<1>3. CASE call' = Told(d, next, rs)
  <2>1. call'[c] = IF call[c].pc # "idle" /\ DOMAIN call[c].copy \cap rs # {}
                   THEN [call[c] EXCEPT !.stale = TRUE] ELSE call[c]
    BY <1>3 DEF Told
  <2> QED BY <1>1, <2>1, StaleTyped
<1> QED BY <1>2, <1>3

\* A call moves by a step of its own only.
LEMMA MovesItself ==
    ASSUME RulesInv, RulesNext, NEW c \in Calls, In(c, "remove") \/ In(c, "last") \/ In(c, "strip"),
           call'[c].pc # call[c].pc
    PROVE  CallStep(c)
<1>1. ASSUME NEW d \in Calls, CallStep(d) PROVE CallStep(c)
  <2>1. \E next, rs : call' = Told(d, next, rs) \/ call' = [call EXCEPT ![d] = next]
    <3>1. CASE CreateCommit(d)
      BY <3>1 DEF CreateCommit, Written
    <3>2. CASE UpdateSelect(d) \/ UpdateDelete(d) \/ UpdateCommit(d)
      <4>1. CASE UpdateSelect(d)
        BY <4>1 DEF UpdateSelect
      <4>2. CASE UpdateDelete(d)
        <5>1. call' = [call EXCEPT ![d].pc = "replace", ![d].seen = rule[call[d].rule].links]
          BY <4>2 DEF UpdateDelete
        <5>2. call' = [call EXCEPT ![d] = call'[d]]
          BY <5>1 DEF RulesInv, RulesTyped, CallsTyped
        <5> QED BY <5>2
      <4>3. CASE UpdateCommit(d)
        BY <4>3 DEF UpdateCommit
      <4> QED BY <3>2, <4>1, <4>2, <4>3
    <3>3. CASE DeleteCommit(d)
      BY <3>3 DEF DeleteCommit, Written
    <3>4. CASE RemoveLink(d)
      BY <3>4 DEF RemoveLink, Written
    <3>5. CASE RemoveRule(d)
      BY <3>5 DEF RemoveRule, Written
    <3>6. CASE HandoverFind(d)
      <4>1. PICK from : call' = [call EXCEPT ![d].pc = "strip", ![d].from = from,
                     ![d].copy = Copy({r \in Rules : /\ Live(r) /\ rule[r].scope = "allow"
                                                     /\ rule[r].data = call[d].data
                                                     /\ from \in Who(rule[r].links)})]
        BY <3>6 DEF HandoverFind
      <4>2. call' = [call EXCEPT ![d] = call'[d]]
        BY <4>1 DEF RulesInv, RulesTyped, CallsTyped
      <4> QED BY <4>2
    <3>7. CASE HandoverCommit(d)
      BY <3>7 DEF HandoverCommit, Written
    <3>8. CASE FailCall(d)
      BY <3>8 DEF FailCall
    <3> QED BY <1>1, <3>1, <3>2, <3>3, <3>4, <3>5, <3>6, <3>7, <3>8 DEF CallStep
  <2>2. PICK next, rs : call' = Told(d, next, rs) \/ call' = [call EXCEPT ![d] = next]
    BY <2>1
  <2> QED BY <1>1, <2>2, OtherCallsStay
<1>2. ASSUME NEW d \in Calls, NEW u \in Users, CallStart(d, u) PROVE FALSE
  <2>1. PICK next : call' = [call EXCEPT ![d] = next] /\ call[d].pc = "idle"
    BY <1>2 DEF CallStart, UpdateStart, RemovalStart, CreateStart, HandoverStart, Place
  <2>2. d # c
    BY <2>1 DEF In
  <2> QED BY <2>1, <2>2, OtherCallsStay
<1>3. UNCHANGED call => FALSE
  OBVIOUS
<1> QED BY <1>1, <1>2, <1>3 DEF RulesNext, ReadRoles, ReadQuery, Toggle

\* Taking one subject off a rule, or handing a record over, leaves every other subject on the rules
\* they had, unless the rule was written on stale knowledge.
THEOREM OthersKeptAlways == RulesSpec => OthersKept
<1> DEFINE Keeps(c) ==
       In(c, "remove") \/ In(c, "last") \/ In(c, "strip") =>
          \E target \in IF In(c, "strip") THEN {call[c].from} ELSE Subjects :
             call'[c].pc # call[c].pc => \A r \in {q \in Rules : Live(q)} \ hurt' : Left(r, target)
<1>1. ASSUME RulesInv, RulesNext, NEW c \in Calls PROVE Keeps(c)
  <2> SUFFICES ASSUME In(c, "remove") \/ In(c, "last") \/ In(c, "strip"),
                      call'[c].pc # call[c].pc
               PROVE  \E target \in IF In(c, "strip") THEN {call[c].from} ELSE Subjects :
                         \A r \in {q \in Rules : Live(q)} \ hurt' : Left(r, target)
    <3>1. Role \in Subjects
      BY DEF Subjects
    <3> QED BY <3>1
  <2>1. \/ RemoveLink(c) /\ In(c, "remove")
        \/ RemoveRule(c) /\ In(c, "last")
        \/ HandoverCommit(c) /\ In(c, "strip")
        \/ FailCall(c)
    <3>1. CallStep(c)
      BY <1>1, MovesItself
    <3>2. /\ CreateCommit(c) => call[c].pc = "create"
          /\ UpdateSelect(c) => call[c].pc = "update"
          /\ UpdateDelete(c) => call[c].pc = "save"
          /\ UpdateCommit(c) => call[c].pc = "replace"
          /\ DeleteCommit(c) => call[c].pc = "delete"
          /\ HandoverFind(c) => call[c].pc = "handover"
      BY DEF CreateCommit, UpdateSelect, UpdateDelete, UpdateCommit, DeleteCommit, HandoverFind, In
    <3>3. /\ RemoveLink(c) => In(c, "remove")
          /\ RemoveRule(c) => In(c, "last")
          /\ HandoverCommit(c) => In(c, "strip")
      BY DEF RemoveLink, RemoveRule, HandoverCommit
    <3>4. /\ ~CreateCommit(c) /\ ~UpdateSelect(c) /\ ~UpdateDelete(c) /\ ~UpdateCommit(c)
          /\ ~DeleteCommit(c) /\ ~HandoverFind(c)
      BY <3>2 DEF In
    <3> QED BY <3>1, <3>3, <3>4 DEF CallStep
  <2>2. CASE RemoveLink(c) /\ In(c, "remove")
    BY <1>1, <2>2, RemoveLeaves DEF In
  <2>3. CASE RemoveRule(c) /\ In(c, "last")
    <3>1. Role \in Subjects /\ ~In(c, "strip")
      BY <2>3 DEF Subjects, In
    <3> QED BY <1>1, <2>3, <3>1, RemoveRuleLeaves
  <2>4. CASE HandoverCommit(c) /\ In(c, "strip")
    BY <1>1, <2>4, HandoverLeaves
  <2>5. CASE FailCall(c)
    <3>1. \A target : \A r \in {q \in Rules : Live(q)} : Left(r, target)
      BY <2>5, LeftAsItWas DEF FailCall
    <3>2. Role \in Subjects
      BY DEF Subjects
    <3> QED BY <3>1, <3>2
  <2> QED BY <2>1, <2>2, <2>3, <2>4, <2>5
<1>2. RulesInv /\ RulesNext => \A c \in Calls : Keeps(c)
  BY <1>1
<1>3. RulesInv /\ [RulesNext]_ruleVars => [\A c \in Calls : Keeps(c)]_ruleVars
  BY <1>2
<1>4. [][\A c \in Calls : Keeps(c)]_ruleVars <=> OthersKept
  BY DEF OthersKept, Left
<1> HIDE DEF Keeps
<1> QED BY <1>3, <1>4, RulesInvInvariant, PTL DEF RulesSpec

(***************************************************************************)
(* A deny is not missed                                                    *)
(***************************************************************************)
\* The answer collected so far has every record that a subject was denied throughout, of the
\* subjects whose query is over.
ReadTyped == read \in [pc : {"start", "query", "done"}, roles : SUBSET {Role}, todo : SUBSET Queries,
                       allow : SUBSET DataKnown, deny : SUBSET DataKnown]
DeniesCollected ==
    /\ read.pc = "done" => read.todo = {}
    /\ read.pc # "start" => \A p \in denied :
          \/ p[1] = Reader /\ ("denyUser" \notin read.todo => p[2] \in read.deny)
          \/ p[1] \in read.roles /\ ("denyRole" \notin read.todo => p[2] \in read.deny)
DenyInv == ReadTyped /\ DeniesCollected

LEMMA DataTyped == ASSUME RulesInv, NEW subjects, NEW scope PROVE DataIds(subjects, scope) \in SUBSET DataKnown
BY DEF DataIds, RulesInv, RulesTyped, RowsTyped, RuleRows

LEMMA RolesStep == ASSUME RulesInv, DenyInv, ReadRoles, denied' = DeniedNow' PROVE DenyInv'
<1>1. read' = [read EXCEPT !.pc = "query", !.roles = RoleIds(Reader), !.todo = Queries]
  BY DEF ReadRoles
<1>2. RoleIds(Reader) \in SUBSET {Role} /\ RoleIds(Reader)' = RoleIds(Reader)
  BY DEF RoleIds, ReadRoles
<1>3. ReadTyped' /\ read'.pc = "query" /\ read'.roles = RoleIds(Reader) /\ read'.todo = Queries
  BY <1>1, <1>2 DEF DenyInv, ReadTyped
<1>4. \A p \in denied' : p[1] = Reader \/ p[1] \in read'.roles
  BY <1>2, <1>3 DEF DeniedNow
<1> QED BY <1>3, <1>4 DEF DenyInv, DeniesCollected, Queries

LEMMA QueryStep ==
    ASSUME RulesInv, DenyInv, NEW q \in Queries, ReadQuery(q), denied' = denied \cap DeniedNow'
    PROVE  DenyInv'
<1> DEFINE scope == IF q \in {"allowRole", "allowUser"} THEN "allow" ELSE "deny"
           rows == DataIds(QuerySubjects(q), scope)
           rest == read.todo \ {q}
<1>1. read' = [read EXCEPT !.todo = rest, !.pc = IF rest = {} THEN "done" ELSE @,
                           !.allow = IF scope = "allow" THEN @ \cup rows ELSE @,
                           !.deny = IF scope = "deny" THEN @ \cup rows ELSE @]
  BY DEF ReadQuery
<1>2. rows \in SUBSET DataKnown
  BY DataTyped
<1>3. read.pc = "query" /\ ReadTyped
  BY DEF ReadQuery, DenyInv
<1> HIDE DEF rows, rest, scope
<1>4. /\ ReadTyped' /\ read'.todo = rest /\ read'.roles = read.roles
      /\ read'.pc = IF rest = {} THEN "done" ELSE "query"
      /\ read.deny \subseteq read'.deny /\ (scope = "deny" => rows \subseteq read'.deny)
  BY <1>1, <1>2, <1>3 DEF ReadTyped, rest
<1>5. ASSUME NEW p \in denied'
      PROVE  \/ p[1] = Reader /\ ("denyUser" \notin rest => p[2] \in read'.deny)
             \/ p[1] \in read.roles /\ ("denyRole" \notin rest => p[2] \in read'.deny)
  <2>1. /\ p \in denied /\ p \in DeniedNow'
        /\ \/ p[1] = Reader /\ ("denyUser" \notin read.todo => p[2] \in read.deny)
           \/ p[1] \in read.roles /\ ("denyRole" \notin read.todo => p[2] \in read.deny)
    BY <1>3, <1>5 DEF DenyInv, DeniesCollected
  <2>2. p[2] \in DataIds({p[1]}, "deny")
    BY <2>1 DEF DeniedNow, DataIds, Live, ReadQuery
  <2>3. q = "denyUser" /\ p[1] = Reader => p[2] \in rows /\ scope = "deny"
    BY <2>2 DEF rows, scope, QuerySubjects
  <2>4. q = "denyRole" /\ p[1] \in read.roles => p[2] \in rows /\ scope = "deny"
    BY <2>2 DEF rows, scope, QuerySubjects, DataIds
  <2> QED BY <1>4, <2>1, <2>3, <2>4 DEF rest
<1> QED BY <1>4, <1>5 DEF DenyInv, DeniesCollected

LEMMA DenyStep == ASSUME RulesInv, DenyInv, [RulesNext]_ruleVars PROVE DenyInv'
<1>1. CASE ReadRoles /\ RulesNext
  BY <1>1, RolesStep DEF ReadRoles, RulesNext
<1>2. ASSUME NEW q \in Queries, ReadQuery(q), RulesNext PROVE DenyInv'
  BY <1>2, QueryStep DEF ReadQuery, RulesNext
<1>3. CASE UNCHANGED read /\ RulesNext
  <2>1. read.pc # "start" => denied' \subseteq denied
    BY <1>3 DEF RulesNext, DenyInv, ReadTyped
  <2> QED BY <1>3, <2>1 DEF DenyInv, ReadTyped, DeniesCollected
<1>4. CASE UNCHANGED ruleVars
  BY <1>4 DEF ruleVars, DenyInv, ReadTyped, DeniesCollected
<1>5. ASSUME NEW c \in Calls, CallStep(c) PROVE UNCHANGED read
  <2>1. CASE CreateCommit(c) \/ UpdateCommit(c) \/ DeleteCommit(c) \/ RemoveLink(c)
    BY <2>1 DEF CreateCommit, UpdateCommit, DeleteCommit, RemoveLink, World
  <2>2. CASE RemoveRule(c) \/ HandoverFind(c) \/ HandoverCommit(c) \/ FailCall(c)
    BY <2>2 DEF RemoveRule, HandoverFind, HandoverCommit, FailCall, World
  <2>3. CASE UpdateSelect(c) \/ UpdateDelete(c)
    BY <2>3 DEF UpdateSelect, UpdateDelete, World
  <2> QED BY <1>5, <2>1, <2>2, <2>3 DEF CallStep
<1>6. ASSUME NEW c \in Calls, NEW u \in Users, CallStart(c, u) PROVE UNCHANGED read
  BY <1>6 DEF CallStart, UpdateStart, RemovalStart, CreateStart, HandoverStart, World
<1>7. Toggle => UNCHANGED read
  BY DEF Toggle
<1> QED BY <1>1, <1>2, <1>3, <1>4, <1>5, <1>6, <1>7 DEF RulesNext

\* What the reader has collected covers the denies whose queries are over.
THEOREM DenyInvInvariant == RulesSpec => []DenyInv
<1>1. RulesInit => DenyInv
  BY DEF RulesInit, DenyInv, ReadTyped, DeniesCollected
<1>2. RulesInv /\ DenyInv /\ [RulesNext]_ruleVars => DenyInv'
  BY DenyStep
<1> QED BY <1>1, <1>2, RulesInvInvariant, PTL DEF RulesSpec

\* A record that one subject is denied from the first query to the last is never in the answer,
\* whatever is written between the queries.
THEOREM DenyHoldsAlways == RulesSpec => []DenyHolds
<1>1. DenyInv => DenyHolds
  BY DEF DenyInv, DeniesCollected, DenyHolds
<1> QED BY <1>1, DenyInvInvariant, PTL

(***************************************************************************)
(* Types and generations                                                   *)
(***************************************************************************)
\* A call under way has not written its generation yet, so no rule has more generations than calls
\* that are over.
Working == {c \in Calls : call[c].pc # "idle"}
RulesCount ==
    /\ placed \in 0..MaxRuleCalls /\ IsFiniteSet(Working)
    /\ \A r \in Rules : rule[r].gen + Cardinality(Working) <= placed
    /\ denied \subseteq Subjects \X Records

LEMMA GenTyped == ASSUME RulesInv, NEW r \in Rules PROVE rule[r] \in RuleRows /\ rule[r].gen \in Nat
BY DEF RulesInv, RulesTyped, RowsTyped, RuleRows

LEMMA DeniedTyped == ASSUME DenyInv, RulesNext, RulesCount PROVE denied' \subseteq Subjects \X Records
<1>1. DeniedNow' \subseteq Subjects \X Records
  BY RulesAssumption DEF DeniedNow, RoleIds, Subjects
<1>2. denied' \in {DeniedNow', denied \cap DeniedNow', denied}
  BY DEF RulesNext, DenyInv, ReadTyped
<1> QED BY <1>1, <1>2 DEF RulesCount

\* What a write does to the calls.
LEMMA ToldWorks ==
    ASSUME RulesInv, NEW c \in Calls, NEW next, NEW rs, call' = Told(c, next, rs),
           call[c].pc # "idle" \/ next.pc = "idle"
    PROVE  Working' \in SUBSET Working /\ (next.pc = "idle" => Working' = Working \ {c})
<1>1. call'[c] = next
  BY DEF Told
<1>2. ASSUME NEW x \in Calls \ {c} PROVE call'[x].pc = call[x].pc
  <2>1. call[x] \in CallRows
    BY DEF RulesInv, RulesTyped, CallsTyped
  <2>2. call'[x] = call[x] \/ (call[x].pc # "idle" /\ call'[x] = [call[x] EXCEPT !.stale = TRUE])
    BY DEF Told
  <2> QED BY <2>1, <2>2, StaleTyped
<1> QED BY <1>1, <1>2 DEF Working

\* A step of the calls, or of none, that puts no rule into a new generation.
LEMMA CountStays ==
    ASSUME RulesInv, RulesCount, Working' \in SUBSET Working, UNCHANGED placed,
           \A r \in Rules : rule'[r].gen \in Nat /\ rule'[r].gen <= rule[r].gen,
           denied' \subseteq Subjects \X Records
    PROVE  RulesCount'
<1>1. /\ IsFiniteSet(Working') /\ Cardinality(Working') <= Cardinality(Working)
      /\ Cardinality(Working) \in Nat /\ Cardinality(Working') \in Nat
  BY FS_Subset, FS_CardinalityType DEF RulesCount
<1>2. ASSUME NEW r \in Rules PROVE rule'[r].gen + Cardinality(Working') <= placed
  <2>1. rule[r].gen \in Nat /\ rule'[r].gen \in Nat /\ rule'[r].gen <= rule[r].gen /\ placed \in Nat
    BY GenTyped DEF RulesCount
  <2>2. rule[r].gen + Cardinality(Working) <= placed
    BY DEF RulesCount
  <2> QED BY <1>1, <2>1, <2>2
<1> QED BY <1>1, <1>2 DEF RulesCount

LEMMA PlaceCounts ==
    ASSUME RulesInv, RulesCount, NEW c \in Calls, NEW rec, Place(c, rec), UNCHANGED rule,
           denied' \subseteq Subjects \X Records
    PROVE  RulesCount'
<1>1. Working' \in SUBSET (Working \cup {c}) /\ c \notin Working
  BY DEF Working, Place, RulesInv, RulesTyped, CallsTyped
<1>2. PICK more : more = Working \cup {c}
  OBVIOUS
<1>3. IsFiniteSet(more) /\ Cardinality(more) = Cardinality(Working) + 1 /\ Cardinality(Working) \in Nat
  BY <1>1, <1>2, FS_AddElement, FS_CardinalityType DEF RulesCount
<1>4. IsFiniteSet(Working') /\ Cardinality(Working') <= Cardinality(Working) + 1 /\ Cardinality(Working') \in Nat
  BY <1>1, <1>2, <1>3, FS_Subset, FS_CardinalityType
<1>5. placed \in Nat /\ placed' = placed + 1 /\ placed' \in 0..MaxRuleCalls
  BY RulesAssumption DEF Place, RulesCount
<1>6. ASSUME NEW r \in Rules PROVE rule'[r].gen + Cardinality(Working') <= placed'
  <2>1. rule[r].gen \in Nat /\ rule[r].gen + Cardinality(Working) <= placed
    BY GenTyped DEF RulesCount
  <2> QED BY <1>3, <1>4, <1>5, <2>1
<1> QED BY <1>4, <1>5, <1>6 DEF RulesCount

\* update puts the rule into a new generation, and is over.
LEMMA UpdateCounts ==
    ASSUME RulesInv, RulesCount, NEW c \in Calls, UpdateCommit(c), denied' \subseteq Subjects \X Records
    PROVE  RulesCount'
<1>1. PICK r \in Rules, row \in RuleRows :
         /\ r = call[c].rule /\ call[c].pc = "replace" /\ rule[r] \in RuleRows
         /\ rule' = [rule EXCEPT ![r] = row] /\ call' = Told(c, Free, {r})
         /\ hurt' = IF call[c].stale \/ row.links = {} THEN hurt \cup {r} ELSE hurt
         /\ row.state # "unused" /\ row.gen = rule[r].gen + 1 /\ OneRow(row.links, r \in hurt')
  BY UpdatedRow
<1>2. UNCHANGED placed /\ placed \in Nat
  <2>1. UNCHANGED placed
    BY DEF UpdateCommit
  <2>2. placed \in 0..MaxRuleCalls
    BY DEF RulesCount
  <2> QED BY <2>1, <2>2, RulesAssumption
<1>3. c \in Working /\ Working' = Working \ {c}
  <2>1. c \in Working /\ call[c].pc # "idle" /\ Free.pc = "idle"
    BY <1>1 DEF Free, Working
  <2> QED BY <1>1, <2>1, ToldWorks
<1>4. IsFiniteSet(Working') /\ Cardinality(Working') = Cardinality(Working) - 1 /\ Cardinality(Working) \in Nat
  BY <1>3, FS_RemoveElement, FS_CardinalityType DEF RulesCount
<1>5. rule'[r] = row /\ (\A q \in Rules \ {r} : rule'[q] = rule[q])
  BY <1>1 DEF RulesInv, RulesTyped, RowsTyped
<1>6. ASSUME NEW q \in Rules PROVE rule'[q].gen + Cardinality(Working') <= placed
  <2>1. rule[q].gen \in Nat /\ rule[q].gen + Cardinality(Working) <= placed
    BY GenTyped DEF RulesCount
  <2>2. rule'[q].gen = rule[q].gen \/ rule'[q].gen = rule[q].gen + 1
    BY <1>1, <1>5
  <2> QED BY <1>2, <1>4, <2>1, <2>2
<1> QED BY <1>2, <1>4, <1>6 DEF RulesCount

\* The other writes leave every row that exists in its generation.
LEMMA WritesCount ==
    ASSUME RulesInv, RulesCount, NEW c \in Calls, denied' \subseteq Subjects \X Records,
           \/ CreateCommit(c) \/ UpdateSelect(c) \/ UpdateDelete(c) \/ DeleteCommit(c)
           \/ RemoveLink(c) \/ RemoveRule(c) \/ HandoverFind(c) \/ HandoverCommit(c) \/ FailCall(c)
    PROVE  RulesCount'
<1>0. call[c].pc # "idle" /\ UNCHANGED placed
  BY DEF CreateCommit, UpdateSelect, UpdateDelete, DeleteCommit, RemoveLink, RemoveRule, HandoverFind,
         HandoverCommit, FailCall, In
<1>1. \A next, rs : Written(c, next, rs) => Working' \in SUBSET Working
  BY <1>0, ToldWorks DEF Written
<1>2. \A next : call' = [call EXCEPT ![c] = next] => Working' \in SUBSET Working
  BY <1>0 DEF Working, RulesInv, RulesTyped, CallsTyped
<1>3. \A q \in Rules : rule[q].gen \in Nat /\ rule[q] \in RuleRows
  BY GenTyped
<1>4. ASSUME NEW r \in Rules, NEW row, rule' = [rule EXCEPT ![r] = row], row.gen \in {0, rule[r].gen}
      PROVE  \A q \in Rules : rule'[q].gen \in Nat /\ rule'[q].gen <= rule[q].gen
  BY <1>3, <1>4 DEF RulesInv, RulesTyped, RowsTyped
<1>5. CASE CreateCommit(c)
  <2>1. PICK scope, subjects : rule' = [rule EXCEPT ![NewRule] = Inserted(call[c].data, scope, subjects)]
    BY <1>5 DEF CreateCommit
  <2>2. NewRule \in Rules
    BY <1>5, NewRuleUnused DEF CreateCommit
  <2>3. Inserted(call[c].data, scope, subjects).gen = 0
    BY DEF Inserted
  <2>4. Working' \in SUBSET Working
    BY <1>1, <1>5 DEF CreateCommit
  <2> QED BY <1>0, <1>4, <2>1, <2>2, <2>3, <2>4, CountStays
<1>6. CASE DeleteCommit(c) \/ RemoveRule(c) \/ RemoveLink(c)
  <2>1. PICK r \in Rules : r = call[c].rule
    <3>1. call[c].pc \in OnRule
      BY <1>6 DEF DeleteCommit, RemoveRule, RemoveLink, In, OnRule
    <3> QED BY <3>1, RuleCall
  <2>2. PICK row : rule' = [rule EXCEPT ![r] = row] /\ row.gen = rule[r].gen
    <3>1. CASE DeleteCommit(c)
      <4>1. rule' = [rule EXCEPT ![r] = [rule[r] EXCEPT !.state = "deleted", !.links = {}]]
        BY <2>1, <3>1 DEF DeleteCommit, RulesInv, RulesTyped, RowsTyped, RuleRows
      <4>2. [rule[r] EXCEPT !.state = "deleted", !.links = {}].gen = rule[r].gen
        BY <1>3 DEF RuleRows
      <4> QED BY <4>1, <4>2
    <3>2. CASE RemoveRule(c)
      <4>1. rule' = [rule EXCEPT ![r] = [rule[r] EXCEPT !.state = "deleted"]]
        BY <2>1, <3>2 DEF RemoveRule, RulesInv, RulesTyped, RowsTyped, RuleRows
      <4>2. [rule[r] EXCEPT !.state = "deleted"].gen = rule[r].gen
        BY <1>3 DEF RuleRows
      <4> QED BY <4>1, <4>2
    <3>3. CASE RemoveLink(c)
      <4>1. PICK links : rule' = [rule EXCEPT ![r] = [rule[r] EXCEPT !.links = links]]
        BY <2>1, <3>3, RemoveLinkStep
      <4>2. [rule[r] EXCEPT !.links = links].gen = rule[r].gen
        BY <1>3 DEF RuleRows
      <4> QED BY <4>1, <4>2
    <3> QED BY <1>6, <3>1, <3>2, <3>3
  <2>3. Working' \in SUBSET Working
    BY <1>1, <1>6 DEF DeleteCommit, RemoveRule, RemoveLink
  <2> QED BY <1>0, <1>4, <2>2, <2>3, CountStays
<1>7. CASE UpdateSelect(c) \/ UpdateDelete(c) \/ HandoverFind(c) \/ FailCall(c)
  <2>1. Working' \in SUBSET Working
    <3>1. CASE FailCall(c)
      BY <1>2, <3>1 DEF FailCall
    <3>2. CASE HandoverFind(c)
      BY <1>0, <3>2 DEF HandoverFind, Working, RulesInv, RulesTyped, CallsTyped
    <3>3. CASE UpdateSelect(c)
      BY <1>2, <3>3 DEF UpdateSelect
    <3>4. CASE UpdateDelete(c)
      BY <1>0, <3>4 DEF UpdateDelete, Working, RulesInv, RulesTyped, CallsTyped
    <3> QED BY <1>7, <3>1, <3>2, <3>3, <3>4
  <2>2. \A q \in Rules : rule'[q].gen \in Nat /\ rule'[q].gen <= rule[q].gen
    <3>1. UNCHANGED rule
      BY <1>7 DEF UpdateSelect, UpdateDelete, HandoverFind, FailCall
    <3> QED BY <1>3, <3>1
  <2> QED BY <1>0, <2>1, <2>2, CountStays
<1>8. CASE HandoverCommit(c)
  <2>1. ASSUME NEW q \in Rules PROVE rule'[q].gen \in {0, rule[q].gen}
    <3>1. \/ rule'[q] = Inserted(call[c].data, "allow", {call[c].to})
          \/ rule'[q] = Stripped(c, q) \/ rule'[q] = rule[q]
      BY <1>8 DEF HandoverCommit
    <3>2. Inserted(call[c].data, "allow", {call[c].to}).gen = 0
      BY DEF Inserted
    <3>3. Stripped(c, q).gen = rule[q].gen
      BY <1>3 DEF Stripped, RuleRows
    <3> QED BY <3>1, <3>2, <3>3
  <2>2. \A q \in Rules : rule'[q].gen \in Nat /\ rule'[q].gen <= rule[q].gen
    BY <1>3, <2>1
  <2>3. Working' \in SUBSET Working
    BY <1>1, <1>8 DEF HandoverCommit
  <2> QED BY <1>0, <2>2, <2>3, CountStays
<1> QED BY <1>5, <1>6, <1>7, <1>8

LEMMA RulesCountStep == ASSUME RulesInv, DenyInv, RulesCount, [RulesNext]_ruleVars PROVE RulesCount'
<1>1. RulesNext => denied' \subseteq Subjects \X Records
  BY DeniedTyped
<1>2. ASSUME UNCHANGED <<rule, call, placed>>, denied' \subseteq Subjects \X Records PROVE RulesCount'
  BY <1>2 DEF RulesCount, Working
<1>3. ASSUME RulesNext, NEW c \in Calls, CallStep(c) PROVE RulesCount'
  BY <1>1, <1>3, UpdateCounts, WritesCount DEF CallStep
<1>4. ASSUME RulesNext, NEW c \in Calls, NEW u \in Users, CallStart(c, u) PROVE RulesCount'
  <2>1. \E rec : Place(c, rec) /\ UNCHANGED rule
    BY <1>4, Zenon DEF CallStart, UpdateStart, RemovalStart, CreateStart, HandoverStart
  <2> QED BY <1>1, <1>4, <2>1, PlaceCounts
<1>5. ASSUME RulesNext, ReadRoles \/ (\E q \in Queries : ReadQuery(q)) \/ Toggle PROVE RulesCount'
  BY <1>1, <1>2, <1>5 DEF ReadRoles, ReadQuery, Toggle
<1>6. CASE UNCHANGED ruleVars
  BY <1>2, <1>6 DEF ruleVars, RulesCount
<1> QED BY <1>3, <1>4, <1>5, <1>6 DEF RulesNext

\* Types; one junction row for each subject of a rule, update's replacement included and but for the
\* role in a rule written on stale knowledge, and no more generations of junction rows than calls
\* (data-access.service.ts update).
THEOREM RulesTypeCorrect == RulesSpec => []RulesTypeOK
<1>1. RulesInit => RulesCount
  <2> SUFFICES ASSUME RulesInit PROVE RulesCount
    OBVIOUS
  <2>1. Working = {}
    BY DEF RulesInit, Working, Free
  <2>2. IsFiniteSet(Working) /\ Cardinality(Working) = 0
    BY <2>1, FS_EmptySet
  <2>3. \A r \in Rules : rule[r].gen = 0
    BY DEF RulesInit, Inserted, NoneYet
  <2> QED BY <2>2, <2>3, RulesAssumption DEF RulesInit, RulesCount
<1>2. RulesInv /\ DenyInv /\ RulesCount /\ [RulesNext]_ruleVars => RulesCount'
  BY RulesCountStep
<1>3. RulesInv /\ DenyInv /\ RulesCount => RulesTypeOK
  <2> SUFFICES ASSUME RulesInv, DenyInv, RulesCount PROVE RulesTypeOK
    OBVIOUS
  <2>1. ASSUME NEW r \in Rules
        PROVE  /\ rule[r].state \in {"unused", "live", "deleted"} /\ rule[r].scope \in {"allow", "deny"}
               /\ Who(rule[r].links) \subseteq Subjects
               /\ \A l, m \in rule[r].links : l.who = m.who => l = m \/ (l.who = Role /\ r \in hurt)
    <3>1. /\ rule[r] \in RuleRows
          /\ \A l, m \in rule[r].links : l.who = m.who => l = m \/ (l.who = Role /\ r \in hurt)
      BY DEF RulesInv, RulesTyped, RowsTyped, OneRowEach, OneRow
    <3> QED BY <3>1 DEF RuleRows, LinkRows, Who
  <2>2. ASSUME NEW r \in Rules PROVE rule[r].gen \in 0..MaxRuleCalls
    <3>1. rule[r].gen \in Nat /\ Cardinality(Working) \in Nat /\ placed \in 0..MaxRuleCalls
      BY GenTyped, FS_CardinalityType DEF RulesCount
    <3>2. rule[r].gen + Cardinality(Working) <= placed
      BY DEF RulesCount
    <3> QED BY <3>1, <3>2, RulesAssumption
  <2>3. inRole \subseteq Users /\ userOn \subseteq Users /\ hurt \subseteq Rules
    BY DEF RulesInv, RulesTyped, WorldTyped
  <2>4. read.todo \subseteq Queries /\ denied \subseteq Subjects \X Records
    BY DEF DenyInv, ReadTyped, RulesCount
  <2> QED BY <2>1, <2>2, <2>3, <2>4 DEF RulesTypeOK
<1> QED BY <1>1, <1>2, <1>3, RulesInvInvariant, DenyInvInvariant, PTL DEF RulesSpec
=============================================================================
