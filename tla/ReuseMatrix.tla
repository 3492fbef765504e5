---------------------------- MODULE ReuseMatrix ----------------------------
(***************************************************************************)
(* Which skills use which coworkers: the links a submission writes, and    *)
(* the screens that read them, the reuse matrix (several statements while  *)
(* reviews and toggles go on), a coworker's number and list of skills, and *)
(* a skill's detail.  The reviews are PackageReview's; here each is one    *)
(* step, but for reject, which looks and saves in two statements without a *)
(* lock.  Line numbers in comments are those of                            *)
(* coworker-reuse-matrix.service.ts.                                       *)
(***************************************************************************)
EXTENDS Naturals, Sequences, FiniteSets

CONSTANTS Skills, Coworkers,
          MaxSubmits,     \* bound: versions one skill may have
          MaxReuseCalls   \* bound: calls

VARIABLES skill,      \* skill packages: versions with their links, active_version_id (0 is NULL), status
          coworker,   \* coworker packages: an active version exists, status
          rejecting,  \* <<skill, version>> that an open call of reject has found pending
          overtaken,  \* auxiliary: <<skill, version>> that a reject saved over an approval
          matrix,     \* what the open call of getMatrix has read
          reuseCalls

reuseVars == <<skill, coworker, rejecting, overtaken, matrix, reuseCalls>>

ReuseCall == reuseCalls < MaxReuseCalls /\ reuseCalls' = reuseCalls + 1
VersionsOf(s) == 1..Len(skill[s].versions)
StateOf(s, v) == skill[s].versions[v].state
PendingOf(s)  == {v \in VersionsOf(s) : StateOf(s, v) = "pending"}
OthersStay    == UNCHANGED <<coworker, rejecting, overtaken, matrix>>

(***************************************************************************)
(* Links and reviews                                                       *)
(***************************************************************************)
\* createNew and createVersion: any live coworker may be linked, inactive and unapproved ones too.
SubmitLinks(s, links) ==
    /\ ReuseCall /\ PendingOf(s) = {} /\ Len(skill[s].versions) < MaxSubmits
    /\ skill' = [skill EXCEPT ![s].versions = Append(@, [state |-> "pending", links |-> links])]
    /\ OthersStay

\* Variant of editVersion that takes any newest version.
EditLinksAny(s, v, links) ==
    /\ ReuseCall /\ v = Len(skill[s].versions)
    /\ skill' = [skill EXCEPT ![s].versions[v].links = links]
    /\ OthersStay
\* editVersion: an owner of the workspace patches the pending version, others resubmit the newest
\* one after its rejection.
EditLinks(s, v, links) ==
    /\ ReuseCall
    /\ \/ v \in PendingOf(s)
       \/ PendingOf(s) = {} /\ v = Len(skill[s].versions) /\ StateOf(s, v) = "rejected"
    /\ skill' = [skill EXCEPT ![s].versions[v] = [state |-> "pending", links |-> links]]
    /\ OthersStay

ApproveLinks(s, v) ==
    /\ ReuseCall /\ v \in PendingOf(s)
    /\ skill' = [skill EXCEPT ![s] = [versions |-> [@.versions EXCEPT ![v].state = "approved"],
                                      active |-> v, status |-> "active"]]
    /\ OthersStay

RejectLooks(s, v) ==
    /\ ReuseCall /\ v \in PendingOf(s)
    /\ rejecting' = rejecting \cup {<<s, v>>}
    /\ UNCHANGED <<skill, coworker, overtaken, matrix>>
RejectSaves(s, v) ==
    /\ <<s, v>> \in rejecting
    /\ skill' = [skill EXCEPT ![s].versions[v].state = "rejected"]
    /\ rejecting' = rejecting \ {<<s, v>>}
    /\ overtaken' = IF StateOf(s, v) = "approved" THEN overtaken \cup {<<s, v>>} ELSE overtaken
    /\ UNCHANGED <<coworker, matrix, reuseCalls>>

Flipped(status) == IF status = "active" THEN "inactive" ELSE "active"
ToggleSkill(s) ==
    /\ ReuseCall /\ skill' = [skill EXCEPT ![s].status = Flipped(@)] /\ OthersStay

\* The coworker's own review, and its toggle, which may come before the first approval.
ChangeCoworker(c) ==
    /\ ReuseCall
    /\ \/ coworker' = [coworker EXCEPT ![c] = [approved |-> TRUE, status |-> "active"]]
       \/ coworker' = [coworker EXCEPT ![c].status = Flipped(@)]
    /\ UNCHANGED <<skill, rejecting, overtaken, matrix>>

(***************************************************************************)
(* The readings, each as one statement                                     *)
(***************************************************************************)
Columns == {c \in Coworkers : coworker[c].approved /\ coworker[c].status = "active"}
Shown   == {s \in Skills : skill[s].active # 0 /\ skill[s].status = "active"}
LinksOf(s, v) == skill[s].versions[v].links

\* Variant that counts linked coworkers nobody has approved yet.
RankUnapproved(s) == Cardinality({c \in LinksOf(s, skill[s].active) : coworker[c].status = "active"})
\* coworker_count of the lateral join, by which the rows are ordered.
Rank(s) == Cardinality({c \in LinksOf(s, skill[s].active) :
                           coworker[c].status = "active" /\ coworker[c].approved})

\* loadSkillsUsingCoworker; loadSkillCountsByCoworkerIds counts the same join.
SkillsUsing(c) == {s \in Skills : /\ \E v \in VersionsOf(s) : v = skill[s].active /\ c \in LinksOf(s, v)
                                  /\ skill[s].status = "active"}
\* getCoworkersByVersionIds for the detail's active version, and the search of the catalogue.
OnDetail(s) == UNION {LinksOf(s, v) : v \in VersionsOf(s) \cap {skill[s].active}}

(***************************************************************************)
(* getMatrix, statement by statement                                       *)
(***************************************************************************)
NoMatrix == [pc |-> "idle", todo |-> {}, columns |-> {}, none |-> FALSE,
             row |-> [s \in Skills |-> 0], was |-> [s \in Skills |-> {}], cells |-> [s \in Skills |-> {}]]

\* The columns and the number of rows are read on two connections.
BeginMatrix ==
    /\ matrix.pc \in {"idle", "done"} /\ ReuseCall
    /\ matrix' = [NoMatrix EXCEPT !.pc = "first", !.todo = {"columns", "count"}]
    /\ UNCHANGED <<skill, coworker, rejecting, overtaken>>
ReadFirst(q) ==
    /\ matrix.pc = "first" /\ q \in matrix.todo
    /\ matrix' = [matrix EXCEPT !.todo = @ \ {q},
                                !.columns = IF q = "columns" THEN Columns ELSE @,
                                !.none = IF q = "count" THEN Shown = {} ELSE @]
    /\ UNCHANGED <<skill, coworker, rejecting, overtaken, reuseCalls>>
\* The rows with their active versions; `was` keeps the links they had, for the property.
ReadRows ==
    /\ matrix.pc = "first" /\ matrix.todo = {}
    /\ LET rows == IF matrix.none THEN {} ELSE Shown
       IN  matrix' = [matrix EXCEPT !.pc = "links",
                        !.row = [s \in Skills |-> IF s \in rows THEN skill[s].active ELSE 0],
                        !.was = [s \in Skills |-> IF s \in rows THEN LinksOf(s, skill[s].active) ELSE {}]]
    /\ UNCHANGED <<skill, coworker, rejecting, overtaken, reuseCalls>>
\* The links of the versions read before, and the cells.
ReadLinks ==
    /\ matrix.pc = "links"
    /\ matrix' = [matrix EXCEPT !.pc = "done",
                    !.cells = [s \in Skills |-> IF matrix.row[s] = 0 THEN {}
                                                ELSE LinksOf(s, matrix.row[s]) \cap matrix.columns]]
    /\ UNCHANGED <<skill, coworker, rejecting, overtaken, reuseCalls>>

\* Skills before their first submission; coworkers submitted (active_version_id is NULL, status
\* active), or approved since.
ReuseInit ==
    /\ skill = [s \in Skills |-> [versions |-> <<>>, active |-> 0, status |-> "active"]]
    /\ coworker \in [Coworkers -> [approved : BOOLEAN, status : {"active"}]]
    /\ rejecting = {} /\ overtaken = {} /\ matrix = NoMatrix /\ reuseCalls = 0

ReuseNext ==
    \/ \E s \in Skills :
          \/ \E links \in SUBSET Coworkers :
                SubmitLinks(s, links) \/ \E v \in VersionsOf(s) : EditLinks(s, v, links)
          \/ \E v \in VersionsOf(s) : ApproveLinks(s, v) \/ RejectLooks(s, v) \/ RejectSaves(s, v)
          \/ ToggleSkill(s)
    \/ \E c \in Coworkers : ChangeCoworker(c)
    \/ BeginMatrix \/ (\E q \in {"columns", "count"} : ReadFirst(q)) \/ ReadRows \/ ReadLinks

ReuseSpec == ReuseInit /\ [][ReuseNext]_reuseVars

(***************************************************************************)
(* Properties                                                              *)
(***************************************************************************)
\* What the screens show of one state: a row's ticks are the number it is ranked by (66-68), a
\* column's ticks are the skills the coworker's own page lists ("counts and matrix agree",
\* coworker-query.service.ts 169-170), and a ticked coworker is on the skill's detail.
ReadingsAgree ==
    /\ \A s \in Shown : Cardinality({c \in Columns : s \in SkillsUsing(c)}) = Rank(s)
    /\ \A s \in Shown, c \in Columns : c \in OnDetail(s) <=> s \in SkillsUsing(c)
\* A finished matrix shows the links each row had when the rows were read, though links are read
\* later: those of an approved version are never edited.  A version that a reject overtook is
\* rejected while it is the active one, and may be.
TicksHeld ==
    matrix.pc = "done" =>
      \A s \in Skills : matrix.row[s] # 0 /\ <<s, matrix.row[s]>> \notin overtaken =>
         matrix.cells[s] = matrix.was[s] \cap matrix.columns
\* The matrix agrees with the other screens and with itself.
MatrixAgrees == ReadingsAgree /\ TicksHeld
=============================================================================
