----------------------------- MODULE Categories -----------------------------
(***************************************************************************)
(* The categories of the AI Hub's workspaces: created and changed by       *)
(* concurrent calls that compare names under an advisory lock on the name, *)
(* and referred to by the versions that are submitted meanwhile.  Line     *)
(* numbers in comments are those of category.service.ts.                   *)
(***************************************************************************)
EXTENDS Naturals, Sequences

CONSTANTS Callers,        \* calls under way at one time
          Names,          \* names, up to case and white space
          NoName,         \* the body gives no name
          MaxCategoryCalls \* bound: calls

CategoryTypes == {"skill", "api-catalog"}   \* prompt is like skill
NoLock == <<"none", NoName>>

VARIABLES cat,      \* ai_hub_categories, by id
          uses,     \* the categories that committed versions refer to, each of its own workspace
          catCall,  \* the open calls
          called,   \* calls begun
          crossed,  \* auxiliary: categories submitted for and updated at one time
          reverted  \* auxiliary: categories a save has given their old name again

catVars == <<cat, uses, catCall, called, crossed, reverted>>

Ids    == 1..Len(cat)
CatIdle == [pc |-> "idle"]
CatEnter(c, rec) ==
    /\ catCall[c].pc = "idle" /\ called < MaxCategoryCalls /\ called' = called + 1
    /\ catCall' = [catCall EXCEPT ![c] = rec]
CatAt(c, pc)  == catCall[c].pc = pc
CatTurn(c, r) == catCall' = [catCall EXCEPT ![c] = r]
\* 4xx, or a lost connection: ROLLBACK, and the advisory lock is free.
CatFail(c)    == CatTurn(c, CatIdle) /\ UNCHANGED <<cat, uses, called, crossed, reverted>>

Crossing(i, submission) ==
    IF \E d \in Callers : /\ ~CatAt(d, "idle") /\ catCall[d].id = i
                          /\ submission # CatAt(d, "submit") THEN {i} ELSE {}

(***************************************************************************)
(* Names                                                                   *)
(***************************************************************************)
\* pg_advisory_xact_lock of type and name, held until the transaction ends.
TakeName(c) ==
    /\ CatAt(c, "lock")
    /\ \A d \in Callers : catCall[d].pc \in {"dup", "save", "write"} =>
                             catCall[d].lock # <<catCall[c].type, catCall[c].name>>
    /\ CatTurn(c, [catCall[c] EXCEPT !.pc = "dup", !.lock = <<catCall[c].type, catCall[c].name>>])
    /\ UNCHANGED <<cat, uses, called, crossed, reverted>>

Duplicates(t, n, except) == {i \in Ids \ {except} : cat[i].type = t /\ cat[i].name = n}

\* Variant that takes the name without looking.
CheckNameUnseen(c) ==
    /\ CatAt(c, "dup")
    /\ CatTurn(c, [catCall[c] EXCEPT !.pc = "save", !.row.name = catCall[c].name])
    /\ UNCHANGED <<cat, uses, called, crossed, reverted>>
\* The duplicate check, inactive categories included; `id` is 0 for a new category.
CheckName(c) ==
    /\ CatAt(c, "dup")
    /\ IF Duplicates(catCall[c].type, catCall[c].name, catCall[c].id) # {} THEN CatFail(c)
       ELSE /\ CatTurn(c, [catCall[c] EXCEPT !.pc = "save", !.row.name = catCall[c].name])
            /\ UNCHANGED <<cat, uses, called, crossed, reverted>>

(***************************************************************************)
(* create, update, deactivate                                              *)
(***************************************************************************)
BeginCreate(c, t, n) ==
    /\ CatEnter(c, [pc |-> "lock", id |-> 0, type |-> t, name |-> n, active |-> TRUE, lock |-> NoLock,
                 row |-> [type |-> t, name |-> n, active |-> TRUE], diff |-> {}])
    /\ UNCHANGED <<cat, uses, crossed, reverted>>

\* INSERT and COMMIT.
Insert(c) ==
    /\ CatAt(c, "save") /\ catCall[c].id = 0
    /\ cat' = Append(cat, catCall[c].row)
    /\ CatTurn(c, CatIdle)
    /\ UNCHANGED <<uses, called, crossed, reverted>>

\* The category is read before the transaction begins (42); a field the body leaves out keeps
\* what was read.
BeginUpdate(c, i, n, a) ==
    /\ CatEnter(c, [pc |-> "use", id |-> i, type |-> cat[i].type, name |-> n, active |-> a,
                 lock |-> NoLock, row |-> cat[i], diff |-> {}])
    /\ crossed' = crossed \cup Crossing(i, FALSE)
    /\ UNCHANGED <<cat, uses, reverted>>

\* Variant that deactivates whatever refers to the category.
CheckUseBlind(c) ==
    /\ CatAt(c, "use")
    /\ CatTurn(c, [catCall[c] EXCEPT !.pc = IF catCall[c].name = NoName THEN "save" ELSE "lock"])
    /\ UNCHANGED <<cat, uses, called, crossed, reverted>>
\* Before a category read as active is deactivated: skill and prompt versions (45-54).
CheckUse(c) ==
    /\ CatAt(c, "use")
    /\ IF /\ catCall[c].active = FALSE /\ catCall[c].row.active
          /\ catCall[c].type = "skill" /\ catCall[c].id \in uses
       THEN CatFail(c)
       ELSE /\ CatTurn(c, [catCall[c] EXCEPT !.pc = IF catCall[c].name = NoName THEN "save" ELSE "lock"])
            /\ UNCHANGED <<cat, uses, called, crossed, reverted>>

\* repo.save reads the row and compares it with the entity, which holds what was read at first.
Compare(c) ==
    LET new == [catCall[c].row EXCEPT !.active = catCall[c].active]
    IN  /\ CatAt(c, "save") /\ catCall[c].id # 0
        /\ CatTurn(c, [catCall[c] EXCEPT !.pc = "write", !.row = new,
                        !.diff = {f \in {"name", "active"} : new[f] # cat[catCall[c].id][f]}])
        /\ UNCHANGED <<cat, uses, called, crossed, reverted>>

\* UPDATE of the columns that differ, and COMMIT.
WriteBack(c) ==
    LET i == catCall[c].id
        d == catCall[c].diff
    IN  /\ CatAt(c, "write")
        /\ cat' = [cat EXCEPT ![i] = [f \in DOMAIN @ |-> IF f \in d THEN catCall[c].row[f] ELSE @[f]]]
        /\ reverted' = IF "name" \in d /\ catCall[c].name = NoName THEN reverted \cup {i} ELSE reverted
        /\ CatTurn(c, CatIdle)
        /\ UNCHANGED <<uses, called, crossed>>

(***************************************************************************)
(* The versions: createNew, createVersion and editVersion                  *)
(***************************************************************************)
\* validateActive, in the submission's transaction (85-89).
Validate(c, i) ==
    /\ cat[i].active
    /\ CatEnter(c, [pc |-> "submit", id |-> i])
    /\ crossed' = crossed \cup Crossing(i, TRUE)
    /\ UNCHANGED <<cat, uses, reverted>>

\* The version is written and the submission commits; what editVersion resubmits may have
\* referred to another category, which other versions may still refer to.
SaveVersion(c) ==
    /\ CatAt(c, "submit")
    /\ \E old \in uses \cup {0} : uses' = (uses \ {old}) \cup {catCall[c].id}
    /\ CatTurn(c, CatIdle)
    /\ UNCHANGED <<cat, called, crossed, reverted>>

GiveUp(c) == ~CatAt(c, "idle") /\ CatFail(c)

CatInit == /\ cat = <<>> /\ uses = {} /\ catCall = [c \in Callers |-> CatIdle] /\ called = 0
           /\ crossed = {} /\ reverted = {}
CatNext == \E c \in Callers :
    \/ TakeName(c) \/ CheckName(c) \/ Insert(c) \/ CheckUse(c) \/ Compare(c) \/ WriteBack(c)
    \/ SaveVersion(c) \/ GiveUp(c)
    \/ \E t \in CategoryTypes, n \in Names : BeginCreate(c, t, n)
    \/ \E i \in Ids, n \in Names \cup {NoName}, a \in BOOLEAN : BeginUpdate(c, i, n, a)
    \/ \E i \in Ids : Validate(c, i)
CatSpec == CatInit /\ [][CatNext]_catVars

(***************************************************************************)
(* Properties                                                              *)
(***************************************************************************)
Named(i, j) == i # j /\ cat[i].type = cat[j].type /\ cat[i].name = cat[j].name

\* Two categories of a type never have one name, in whatever order creates and renames run, unless
\* a save has written an old name back: the lock makes the check deterministic (27-28).
NamesUnlessReverted == \A i, j \in Ids : Named(i, j) => {i, j} \cap reverted # {}

\* A category that a skill or prompt version refers to is active, whatever calls have been made,
\* unless an update was open while a version was being submitted (45-54).
SkillUseKeepsActive == \A i \in uses \ crossed : cat[i].type = "skill" => cat[i].active
=============================================================================
