--------------------------- MODULE CatalogProofs ---------------------------
(***************************************************************************)
(* Proofs about the parts of the AI Hub around a package, each for any     *)
(* values of its constants: Categories (names, and the skills that use     *)
(* them), Supporters (who replaces whom), ReuseMatrix (what a report read  *)
(* while reviews went on).                                                 *)
(***************************************************************************)
EXTENDS Categories, Supporters, ReuseMatrix, FiniteSetTheorems, TLAPS

(***************************************************************************)
(* Categories: the invariant                                               *)
(***************************************************************************)
AnyName  == Names \cup {NoName}
Category == [type : CategoryTypes, name : AnyName, active : BOOLEAN]
Change   == [pc : {"use", "lock", "dup", "save", "write"}, id : Nat, type : CategoryTypes, name : AnyName,
             active : BOOLEAN, lock : (CategoryTypes \cup {"none"}) \X AnyName, row : Category,
             diff : SUBSET {"name", "active"}]
Submission == [pc : {"submit"}, id : Nat]

CatTyped == /\ cat \in Seq(Category) /\ uses \subseteq Ids
            /\ catCall \in [Callers -> Change \cup Submission \cup {CatIdle}]

Locks(x) == x.pc \in {"dup", "save", "write"} /\ x.lock # NoLock

\* What an update or a create knows of the categories still stands, as far as the lock on its name and
\* the sets of crossed (k) and reverted categories promise it.
ChangeKnows(x, k) ==
    /\ x.id \in Ids \cup {0} /\ x.row.type = x.type
    /\ IF x.id = 0 THEN x.pc \in {"lock", "dup", "save"} ELSE cat[x.id].type = x.type
    /\ x.pc \in {"use", "lock"} => x.lock = NoLock
    /\ x.pc = "dup" => x.lock = <<x.type, x.name>>
    /\ x.pc \in {"save", "write"} =>
          \/ x.lock = NoLock /\ x.name = NoName /\ x.id # 0
          \/ /\ x.lock = <<x.type, x.name>> /\ x.row.name = x.name
             /\ \A i \in Ids \ {x.id} : cat[i].type = x.type /\ cat[i].name = x.name => i \in reverted
    /\ x.type = "skill" /\ x.id \in uses \ k => x.row.active /\ (x.pc # "use" => x.active)

\* A submission's category is active, unless an update of it has been open meanwhile.
SubmissionKnows(x, k) ==
    x.id \in Ids /\ (cat[x.id].type = "skill" /\ x.id \notin k => cat[x.id].active)

CallKnows(x, k) == (x \in Change => ChangeKnows(x, k)) /\ (x \in Submission => SubmissionKnows(x, k))

\* Two calls: one of them holds the lock on a name, and a submission crosses an update of its category.
CallsApart(x, y, k) ==
    /\ x \in Change /\ y \in Change => ~(Locks(x) /\ Locks(y) /\ x.lock = y.lock)
    /\ x \in Submission /\ y \in Change /\ x.id = y.id => x.id \in k

CallsKnow == /\ \A c \in Callers : CallKnows(catCall[c], crossed)
             /\ \A c, d \in Callers : c # d => CallsApart(catCall[c], catCall[d], crossed)

CatInv == CatTyped /\ CallsKnow /\ NamesUnlessReverted /\ SkillUseKeepsActive

LEMMA CallKinds ==
    /\ CatIdle.pc = "idle" /\ CatIdle \notin Change /\ CatIdle \notin Submission
    /\ \A x \in Change : x \notin Submission /\ x.pc \in {"use", "lock", "dup", "save", "write"}
    /\ \A x \in Submission : x \notin Change /\ x.pc = "submit"
<1>1. CatIdle.pc = "idle" /\ (\A x \in Change : x.pc \in {"use", "lock", "dup", "save", "write"})
      /\ (\A x \in Submission : x.pc = "submit")
  BY DEF CatIdle, Change, Submission
<1> QED BY <1>1

\* An open call by its stage.
LEMMA CallKind ==
    ASSUME CatTyped, NEW c \in Callers
    PROVE  /\ catCall[c].pc \in {"use", "lock", "dup", "save", "write"} <=> catCall[c] \in Change
           /\ catCall[c].pc = "submit" <=> catCall[c] \in Submission
           /\ catCall[c] \in Change \cup Submission \cup {CatIdle}
<1>1. catCall[c] \in Change \cup Submission \cup {CatIdle}
  BY DEF CatTyped
<1> QED BY <1>1, CallKinds

\* What the calls know stays as more categories are crossed.
LEMMA CrossedGrows ==
    ASSUME NEW k, NEW l, k \subseteq l, NEW x, NEW y
    PROVE  (CallKnows(x, k) => CallKnows(x, l)) /\ (CallsApart(x, y, k) => CallsApart(x, y, l))
BY DEF CallKnows, ChangeKnows, SubmissionKnows, CallsApart

(***************************************************************************)
(* A step that changes one call only                                       *)
(***************************************************************************)
LEMMA OneCall ==
    ASSUME CatInv, NEW c \in Callers, NEW x \in Change \cup Submission \cup {CatIdle}, NEW k,
           CatTurn(c, x), UNCHANGED <<cat, uses, reverted>>, crossed' = k, crossed \subseteq k,
           CallKnows(x, k),
           \A d \in Callers \ {c} : CallsApart(x, catCall[d], k) /\ CallsApart(catCall[d], x, k)
    PROVE  CatInv'
<1> USE DEF CatInv
<1>1. catCall' \in [Callers -> Change \cup Submission \cup {CatIdle}]
      /\ catCall'[c] = x /\ (\A d \in Callers \ {c} : catCall'[d] = catCall[d])
  BY DEF CatTyped, CatTurn
<1>2. CatTyped'
  BY <1>1 DEF CatTyped, Ids
<1>3. \A d \in Callers : CallKnows(catCall'[d], k)
  BY <1>1, CrossedGrows DEF CallsKnow
<1>4. ASSUME NEW d \in Callers, NEW e \in Callers, d # e
      PROVE  CallsApart(catCall'[d], catCall'[e], k)
  <2>1. CASE d # c /\ e # c
    <3>1. CallsApart(catCall[d], catCall[e], crossed)
      BY <1>4 DEF CallsKnow
    <3>2. CallsApart(catCall[d], catCall[e], k)
      BY <3>1, CrossedGrows
    <3> QED BY <1>1, <2>1, <3>2
  <2>2. CASE d = c \/ e = c
    BY <1>1, <1>4, <2>2
  <2> QED BY <2>1, <2>2
<1>5. CallsKnow'
  <2>1. ASSUME NEW d \in Callers PROVE CallKnows(catCall[d], crossed)'
    <3>1. CallKnows(catCall'[d], k)
      BY <1>3
    <3>2. Ids' = Ids
      BY DEF Ids
    <3> QED BY <3>1, <3>2 DEF CallKnows, ChangeKnows, SubmissionKnows
  <2>2. ASSUME NEW d \in Callers, NEW e \in Callers, d # e PROVE CallsApart(catCall[d], catCall[e], crossed)'
    <3>1. CallsApart(catCall'[d], catCall'[e], k)
      BY <1>4, <2>2
    <3> QED BY <3>1 DEF CallsApart, Locks
  <2> QED BY <2>1, <2>2 DEF CallsKnow
<1>6. NamesUnlessReverted'
  BY DEF NamesUnlessReverted, Named, Ids
<1>7. SkillUseKeepsActive'
  BY DEF SkillUseKeepsActive
<1> QED BY <1>2, <1>5, <1>6, <1>7

\* A call that ends without a write.
LEMMA CallEnds == ASSUME CatInv, NEW c \in Callers, CatFail(c) PROVE CatInv'
<1>1. CatTurn(c, CatIdle) /\ UNCHANGED <<cat, uses, reverted, crossed>>
  BY DEF CatFail
<1>2. CallKnows(CatIdle, crossed) /\ \A d \in Callers : CallsApart(CatIdle, catCall[d], crossed)
                                                        /\ CallsApart(catCall[d], CatIdle, crossed)
  BY CallKinds DEF CallKnows, CallsApart
<1> QED BY <1>1, <1>2, OneCall

\* A call that goes on: it keeps off the others as before if it takes no lock.
LEMMA ChangeGoesOn ==
    ASSUME CatInv, NEW c \in Callers, catCall[c] \in Change, NEW x \in Change, x.id = catCall[c].id,
           Locks(x) => \A d \in Callers \ {c} : catCall[d] \in Change /\ Locks(catCall[d]) =>
                                                  catCall[d].lock # x.lock,
           NEW d \in Callers \ {c}
    PROVE  CallsApart(x, catCall[d], crossed) /\ CallsApart(catCall[d], x, crossed)
<1>1. CallsApart(catCall[c], catCall[d], crossed) /\ CallsApart(catCall[d], catCall[c], crossed)
  BY DEF CatInv, CallsKnow
<1>2. x \notin Submission
  BY CallKinds
<1> QED BY <1>1, <1>2 DEF CallsApart

LEMMA KeepsLock ==
    ASSUME CatInv, NEW c \in Callers, catCall[c] \in Change, NEW x \in Change,
           catCall[c].pc \in {"dup", "save", "write"}, x.lock = catCall[c].lock
    PROVE  Locks(x) => \A d \in Callers \ {c} : catCall[d] \in Change /\ Locks(catCall[d]) =>
                                                  catCall[d].lock # x.lock
<1> SUFFICES ASSUME Locks(x), NEW d \in Callers \ {c}, catCall[d] \in Change, Locks(catCall[d])
             PROVE  catCall[d].lock # x.lock
  OBVIOUS
<1>1. CallsApart(catCall[c], catCall[d], crossed)
  BY DEF CatInv, CallsKnow
<1> QED BY <1>1 DEF CallsApart, Locks

(***************************************************************************)
(* One lemma per action                                                    *)
(***************************************************************************)
LEMMA TakeNameKeeps == ASSUME CatInv, NEW c \in Callers, TakeName(c) PROVE CatInv'
<1> DEFINE y == catCall[c]
           x == [y EXCEPT !.pc = "dup", !.lock = <<y.type, y.name>>]
<1>1. y \in Change /\ y.pc = "lock" /\ CallKnows(y, crossed) /\ CatTurn(c, x)
      /\ UNCHANGED <<cat, uses, reverted, crossed>>
  BY CallKind DEF TakeName, CatAt, CatInv, CallsKnow
<1>2. /\ x \in Change /\ x.pc = "dup" /\ x.lock = <<y.type, y.name>> /\ x.id = y.id /\ x.row = y.row
      /\ x.type = y.type /\ x.name = y.name /\ x.active = y.active
  BY <1>1 DEF Change
<1>3. Locks(x) => \A d \in Callers \ {c} : catCall[d] \in Change /\ Locks(catCall[d]) =>
                                              catCall[d].lock # x.lock
  BY <1>2 DEF TakeName, Locks
<1> HIDE DEF x
<1>4. CallKnows(x, crossed)
  BY <1>1, <1>2, CallKinds DEF CallKnows, ChangeKnows
<1>5. \A d \in Callers \ {c} : CallsApart(x, catCall[d], crossed) /\ CallsApart(catCall[d], x, crossed)
  BY <1>1, <1>2, <1>3, ChangeGoesOn
<1> QED BY <1>1, <1>2, <1>4, <1>5, OneCall

\* Nobody else can take the name while the lock is held: there is no duplicate, but for one that a
\* save writes back.
LEMMA CheckNameKeeps == ASSUME CatInv, NEW c \in Callers, CheckName(c) PROVE CatInv'
<1> DEFINE y == catCall[c]
           x == [y EXCEPT !.pc = "save", !.row.name = y.name]
<1>1. y \in Change /\ y.pc = "dup" /\ CallKnows(y, crossed)
  BY CallKind DEF CheckName, CatAt, CatInv, CallsKnow
<1>2. CASE CatFail(c)
  BY <1>2, CallEnds
<1>3. CASE /\ Duplicates(y.type, y.name, y.id) = {} /\ CatTurn(c, x)
           /\ UNCHANGED <<cat, uses, reverted, crossed>>
  <2>1. [y.row EXCEPT !.name = y.name] \in Category /\ y.row \in Category
    BY <1>1 DEF Change, Category
  <2>2. x = [[y EXCEPT !.pc = "save"] EXCEPT !.row = [y.row EXCEPT !.name = y.name]]
    BY <1>1 DEF Change
  <2>3. \A z \in Change, r \in Category : [z EXCEPT !.pc = "save"] \in Change /\ [z EXCEPT !.row = r] \in Change
    BY DEF Change
  <2>4. x \in Change
    BY <1>1, <2>1, <2>2, <2>3
  <2>5. /\ x.pc = "save" /\ x.lock = y.lock /\ x.id = y.id /\ x.row = [y.row EXCEPT !.name = y.name]
        /\ x.type = y.type /\ x.name = y.name /\ x.active = y.active
    BY <1>1 DEF Change
  <2>6. x.row.name = y.name /\ x.row.type = y.row.type /\ x.row.active = y.row.active
    BY <2>1, <2>5 DEF Category
  <2> HIDE DEF x
  <2>7. \A i \in Ids \ {x.id} : cat[i].type = x.type /\ cat[i].name = x.name => i \in reverted
    BY <1>3, <2>5 DEF Duplicates
  <2>8. CallKnows(x, crossed)
    BY <1>1, <2>4, <2>5, <2>6, <2>7, CallKinds DEF CallKnows, ChangeKnows
  <2>9. \A d \in Callers \ {c} : CallsApart(x, catCall[d], crossed) /\ CallsApart(catCall[d], x, crossed)
    BY <1>1, <2>4, <2>5, ChangeGoesOn, KeepsLock
  <2> QED BY <1>3, <2>4, <2>8, <2>9, OneCall
<1> QED BY <1>2, <1>3 DEF CheckName

LEMMA CheckUseKeeps == ASSUME CatInv, NEW c \in Callers, CheckUse(c) PROVE CatInv'
<1> DEFINE y == catCall[c]
           x == [y EXCEPT !.pc = IF y.name = NoName THEN "save" ELSE "lock"]
<1>1. y \in Change /\ y.pc = "use" /\ CallKnows(y, crossed)
  BY CallKind DEF CheckUse, CatAt, CatInv, CallsKnow
<1>2. CASE CatFail(c)
  BY <1>2, CallEnds
<1>3. CASE /\ ~(y.active = FALSE /\ y.row.active /\ y.type = "skill" /\ y.id \in uses)
           /\ CatTurn(c, x) /\ UNCHANGED <<cat, uses, reverted, crossed>>
  <2>1. /\ x \in Change /\ x.lock = y.lock /\ x.id = y.id /\ x.row = y.row
        /\ x.type = y.type /\ x.name = y.name /\ x.active = y.active /\ x.active \in BOOLEAN
        /\ x.pc = IF y.name = NoName THEN "save" ELSE "lock"
    BY <1>1 DEF Change
  <2> HIDE DEF x
  <2>2. y.lock = NoLock
    BY <1>1 DEF CallKnows, ChangeKnows
  <2>3. CallKnows(x, crossed)
    BY <1>1, <1>3, <2>1, <2>2, CallKinds DEF CallKnows, ChangeKnows
  <2>4. ~Locks(x)
    BY <2>1, <2>2 DEF Locks
  <2>5. \A d \in Callers \ {c} : CallsApart(x, catCall[d], crossed) /\ CallsApart(catCall[d], x, crossed)
    BY <1>1, <2>1, <2>4, ChangeGoesOn
  <2> QED BY <1>3, <2>1, <2>3, <2>5, OneCall
<1> QED BY <1>2, <1>3 DEF CheckUse

LEMMA CompareKeeps == ASSUME CatInv, NEW c \in Callers, Compare(c) PROVE CatInv'
<1> DEFINE y == catCall[c]
           new == [y.row EXCEPT !.active = y.active]
           diff == {f \in {"name", "active"} : new[f] # cat[y.id][f]}
           x == [y EXCEPT !.pc = "write", !.row = new, !.diff = diff]
<1>1. y \in Change /\ y.pc = "save" /\ CallKnows(y, crossed) /\ CatTurn(c, x) /\ y.id # 0
      /\ UNCHANGED <<cat, uses, reverted, crossed>>
  BY CallKind DEF Compare, CatAt, CatInv, CallsKnow
<1>2. /\ new \in Category /\ new.name = y.row.name /\ new.type = y.row.type /\ new.active = y.active
      /\ diff \in SUBSET {"name", "active"}
  BY <1>1 DEF Change, Category
<1>3. x \in Change
  <2>1. \A z \in Change : /\ [z EXCEPT !.pc = "write"] \in Change
                          /\ \A r \in Category : [z EXCEPT !.row = r] \in Change
                          /\ \A f \in SUBSET {"name", "active"} : [z EXCEPT !.diff = f] \in Change
    BY DEF Change
  <2>2. x = [[[y EXCEPT !.pc = "write"] EXCEPT !.row = new] EXCEPT !.diff = diff]
    BY <1>1 DEF Change
  <2> HIDE DEF new, diff, x, y
  <2> QED BY <1>1, <1>2, <2>1, <2>2
<1>4. /\ x.pc = "write" /\ x.lock = y.lock /\ x.id = y.id /\ x.row = new
      /\ x.type = y.type /\ x.name = y.name /\ x.active = y.active
  BY <1>1 DEF Change
<1> HIDE DEF x, new, diff
<1>5. CallKnows(x, crossed)
  BY <1>1, <1>2, <1>3, <1>4, CallKinds DEF CallKnows, ChangeKnows
<1>6. \A d \in Callers \ {c} : CallsApart(x, catCall[d], crossed) /\ CallsApart(catCall[d], x, crossed)
  BY <1>1, <1>3, <1>4, ChangeGoesOn, KeepsLock
<1> QED BY <1>1, <1>3, <1>5, <1>6, OneCall

LEMMA BeginCreateKeeps ==
    ASSUME CatInv, NEW c \in Callers, NEW t \in CategoryTypes, NEW n \in Names, BeginCreate(c, t, n)
    PROVE  CatInv'
<1> DEFINE x == [pc |-> "lock", id |-> 0, type |-> t, name |-> n, active |-> TRUE, lock |-> NoLock,
                 row |-> [type |-> t, name |-> n, active |-> TRUE], diff |-> {}]
<1>1. CatTurn(c, x) /\ UNCHANGED <<cat, uses, reverted, crossed>>
  BY DEF BeginCreate, CatEnter, CatTurn
<1>2. x \in Change /\ ~Locks(x)
  BY DEF Change, Category, AnyName, NoLock, Locks
<1>3. CallKnows(x, crossed)
  BY <1>2, CallKinds DEF CallKnows, ChangeKnows, CatInv, CatTyped, Ids
<1>4. ASSUME NEW d \in Callers \ {c}
      PROVE  CallsApart(x, catCall[d], crossed) /\ CallsApart(catCall[d], x, crossed)
  <2>1. catCall[d] \in Submission => catCall[d].id # x.id
    BY CallKinds DEF CatInv, CallsKnow, CallKnows, SubmissionKnows, CatTyped, Ids
  <2> HIDE DEF x
  <2> QED BY <1>2, <2>1, CallKinds DEF CallsApart
<1> HIDE DEF x
<1> QED BY <1>1, <1>2, <1>3, <1>4, OneCall

\* The row an update reads: a category that is referred to is active, unless it has been crossed.
LEMMA BeginUpdateKeeps ==
    ASSUME CatInv, NEW c \in Callers, NEW i \in Ids, NEW n \in Names \cup {NoName}, NEW a \in BOOLEAN,
           BeginUpdate(c, i, n, a)
    PROVE  CatInv'
<1> DEFINE x == [pc |-> "use", id |-> i, type |-> cat[i].type, name |-> n, active |-> a,
                 lock |-> NoLock, row |-> cat[i], diff |-> {}]
           k == crossed \cup Crossing(i, FALSE)
<1>1. CatTurn(c, x) /\ UNCHANGED <<cat, uses, reverted>> /\ crossed' = k
  BY DEF BeginUpdate, CatEnter, CatTurn
<1>2. cat[i] \in Category /\ i \in Nat /\ i # 0
  BY DEF CatInv, CatTyped, Ids
<1>3. x \in Change /\ ~Locks(x)
  BY <1>2 DEF Change, Category, AnyName, NoLock, Locks
<1>4. CallKnows(x, k)
  <2>1. x.type = "skill" /\ i \in uses \ k => cat[i].active
    BY DEF CatInv, SkillUseKeepsActive
  <2> QED BY <1>2, <1>3, <2>1, CallKinds DEF CallKnows, ChangeKnows
<1>5. ASSUME NEW d \in Callers \ {c} PROVE CallsApart(x, catCall[d], k) /\ CallsApart(catCall[d], x, k)
  <2>1. catCall[d] \in Submission /\ catCall[d].id = i => i \in k
    BY CallKinds DEF Crossing, CatAt
  <2>2. x.id = i
    OBVIOUS
  <2> HIDE DEF x, k
  <2> QED BY <1>3, <2>1, <2>2, CallKinds DEF CallsApart
<1>6. crossed \subseteq k
  OBVIOUS
<1> HIDE DEF x
<1>7. PICK l : l = k
  OBVIOUS
<1> HIDE DEF k
<1> QED BY <1>1, <1>3, <1>4, <1>5, <1>6, <1>7, OneCall

LEMMA ValidateKeeps == ASSUME CatInv, NEW c \in Callers, NEW i \in Ids, Validate(c, i) PROVE CatInv'
<1> DEFINE x == [pc |-> "submit", id |-> i]
           k == crossed \cup Crossing(i, TRUE)
<1>1. CatTurn(c, x) /\ UNCHANGED <<cat, uses, reverted>> /\ crossed' = k /\ cat[i].active
  BY DEF Validate, CatEnter, CatTurn
<1>2. x \in Submission /\ x.id = i
  BY DEF Submission, CatInv, CatTyped, Ids
<1>3. CallKnows(x, k)
  BY <1>1, <1>2, CallKinds DEF CallKnows, SubmissionKnows
<1>4. ASSUME NEW d \in Callers \ {c} PROVE CallsApart(x, catCall[d], k) /\ CallsApart(catCall[d], x, k)
  <2>1. catCall[d] \in Change /\ catCall[d].id = i => i \in k
    BY CallKinds DEF Crossing, CatAt
  <2> HIDE DEF x, k
  <2> QED BY <1>2, <2>1, CallKinds DEF CallsApart
<1>5. crossed \subseteq k
  OBVIOUS
<1>6. PICK l : l = k
  OBVIOUS
<1> HIDE DEF x, k
<1> QED BY <1>1, <1>2, <1>3, <1>4, <1>5, <1>6, OneCall

\* A call that ends: the others are as they were, and keep off each other as before.
LEMMA OneEnds ==
    ASSUME CatInv, NEW c \in Callers, CatTurn(c, CatIdle), UNCHANGED crossed
    PROVE  /\ catCall' \in [Callers -> Change \cup Submission \cup {CatIdle}]
           /\ catCall'[c] = CatIdle /\ \A d \in Callers \ {c} : catCall'[d] = catCall[d]
           /\ \A d, e \in Callers : d # e => CallsApart(catCall[d], catCall[e], crossed)'
<1>1. /\ catCall' \in [Callers -> Change \cup Submission \cup {CatIdle}]
      /\ catCall'[c] = CatIdle /\ \A d \in Callers \ {c} : catCall'[d] = catCall[d]
  BY DEF CatInv, CatTyped, CatTurn
<1>2. \A d, e \in Callers : d # e => CallsApart(catCall'[d], catCall'[e], crossed)
  BY <1>1, CallKinds DEF CatInv, CallsKnow, CallsApart
<1> QED BY <1>1, <1>2 DEF CallsApart, Locks

LEMMA SaveVersionKeeps == ASSUME CatInv, NEW c \in Callers, SaveVersion(c) PROVE CatInv'
<1> DEFINE y == catCall[c]
<1> USE DEF CatInv
<1>1. y \in Submission /\ CallKnows(y, crossed) /\ CatTurn(c, CatIdle) /\ UNCHANGED <<cat, crossed, reverted>>
  BY CallKind DEF SaveVersion, CatAt, CallsKnow
<1>2. PICK old \in uses \cup {0} : uses' = (uses \ {old}) \cup {y.id}
  BY DEF SaveVersion
<1>3. SubmissionKnows(y, crossed) /\ y.id \in Ids
  BY <1>1 DEF CallKnows, SubmissionKnows
<1>4. /\ catCall' \in [Callers -> Change \cup Submission \cup {CatIdle}]
      /\ catCall'[c] = CatIdle /\ \A d \in Callers \ {c} : catCall'[d] = catCall[d]
      /\ \A d, e \in Callers : d # e => CallsApart(catCall[d], catCall[e], crossed)'
  BY <1>1, OneEnds
<1>5. CatTyped'
  BY <1>1, <1>2, <1>3, <1>4 DEF CatTyped, Ids
<1>6. ASSUME NEW d \in Callers PROVE CallKnows(catCall[d], crossed)'
  <2>1. CASE d = c
    BY <1>4, <2>1, CallKinds DEF CallKnows
  <2>2. CASE d # c
    <3>1. CallKnows(catCall[d], crossed) /\ CallsApart(y, catCall[d], crossed) /\ catCall'[d] = catCall[d]
      BY <1>4, <2>2 DEF CallsKnow
    <3>2. catCall[d] \in Change /\ catCall[d].id \in uses' \ crossed => catCall[d].id \in uses \ crossed
      BY <1>1, <1>2, <3>1 DEF CallsApart
    <3> QED BY <1>1, <3>1, <3>2 DEF CallKnows, ChangeKnows, SubmissionKnows, Ids
  <2> QED BY <2>1, <2>2
<1>7. CallsKnow'
  BY <1>4, <1>6 DEF CallsKnow
<1>8. SkillUseKeepsActive' /\ NamesUnlessReverted'
  BY <1>1, <1>2, <1>3 DEF SkillUseKeepsActive, NamesUnlessReverted, SubmissionKnows, Named, Ids
<1> QED BY <1>5, <1>7, <1>8

\* The row a create writes has a name that no other has, but for one that a save has written back.
LEMMA InsertKeeps == ASSUME CatInv, NEW c \in Callers, Insert(c) PROVE CatInv'
<1> DEFINE y == catCall[c]
           n == Len(cat)
<1> USE DEF CatInv
<1>1. /\ y \in Change /\ y.pc = "save" /\ y.id = 0 /\ CallKnows(y, crossed) /\ CatTurn(c, CatIdle)
      /\ UNCHANGED <<uses, crossed, reverted>> /\ cat' = Append(cat, y.row) /\ cat \in Seq(Category)
      /\ y.row \in Category
  BY CallKind DEF Insert, CatAt, CallsKnow, CatTyped, Change
<1>2. /\ y.lock = <<y.type, y.name>> /\ y.row.name = y.name /\ y.row.type = y.type /\ y.lock # NoLock
      /\ \A i \in Ids : cat[i].type = y.type /\ cat[i].name = y.name => i \in reverted
  <2>1. y.type # "none"
    BY <1>1 DEF Change, CategoryTypes
  <2>2. 0 \notin Ids
    BY <1>1 DEF Ids
  <2> QED BY <1>1, <2>1, <2>2 DEF CallKnows, ChangeKnows, NoLock
<1>3. /\ n \in Nat /\ cat' \in Seq(Category) /\ Ids' = Ids \cup {n + 1} /\ n + 1 \notin Ids
      /\ cat'[n + 1] = y.row /\ \A i \in Ids : cat'[i] = cat[i]
  BY <1>1 DEF Ids
<1>4. /\ catCall' \in [Callers -> Change \cup Submission \cup {CatIdle}]
      /\ catCall'[c] = CatIdle /\ \A d \in Callers \ {c} : catCall'[d] = catCall[d]
      /\ \A d, e \in Callers : d # e => CallsApart(catCall[d], catCall[e], crossed)'
  BY <1>1, OneEnds
<1> HIDE DEF n
<1>5. CatTyped'
  BY <1>1, <1>3, <1>4 DEF CatTyped
<1>6. ASSUME NEW d \in Callers PROVE CallKnows(catCall[d], crossed)'
  <2>1. CASE d = c
    BY <1>4, <2>1, CallKinds DEF CallKnows
  <2>2. CASE d # c
    <3>0. PICK z : z = catCall[d]
      OBVIOUS
    <3>1. CallKnows(z, crossed) /\ CallsApart(y, z, crossed) /\ catCall'[d] = z
      BY <1>4, <2>2, <3>0 DEF CallsKnow
    <3>2. CASE z \in Change
      <4>1. ChangeKnows(z, crossed) /\ z.id \in Ids \cup {0}
        BY <3>1, <3>2 DEF CallKnows, ChangeKnows
      <4>2. Locks(z) => z.lock # y.lock
        BY <1>1, <1>2, <3>1, <3>2 DEF CallsApart, Locks
      <4>3. z.pc \in {"save", "write"} /\ z.lock = <<z.type, z.name>> =>
               ~(y.row.type = z.type /\ y.row.name = z.name)
        BY <1>2, <4>2 DEF Locks
      <4>4. z.pc \in {"save", "write"} =>
               \/ z.lock = NoLock /\ z.name = NoName /\ z.id # 0
               \/ /\ z.lock = <<z.type, z.name>> /\ z.row.name = z.name
                  /\ \A i \in Ids' \ {z.id} : cat'[i].type = z.type /\ cat'[i].name = z.name => i \in reverted
        BY <1>3, <4>1, <4>3 DEF ChangeKnows
      <4>5. z.id # 0 => cat'[z.id].type = cat[z.id].type
        BY <1>3, <4>1
      <4>6. z.id \in Ids' \cup {0}
        BY <1>3, <4>1
      <4>7. ChangeKnows(z, crossed)'
        BY <1>1, <3>1, <4>1, <4>4, <4>5, <4>6 DEF ChangeKnows
      <4> QED BY <3>1, <3>2, <4>7, CallKinds DEF CallKnows
    <3>3. CASE z \notin Change
      BY <1>1, <1>3, <3>1, <3>3 DEF CallKnows, SubmissionKnows
    <3> QED BY <3>2, <3>3
  <2> QED BY <2>1, <2>2
<1>7. CallsKnow'
  BY <1>4, <1>6 DEF CallsKnow
<1>8. NamesUnlessReverted'
  <2> SUFFICES ASSUME NEW i \in Ids', NEW j \in Ids', i # j,
                      cat'[i].type = cat'[j].type, cat'[i].name = cat'[j].name
               PROVE  {i, j} \cap reverted # {}
    BY <1>1 DEF NamesUnlessReverted, Named
  <2>1. CASE i \in Ids /\ j \in Ids
    BY <1>3, <2>1 DEF NamesUnlessReverted, Named
  <2>2. CASE i = n + 1 /\ j \in Ids
    BY <1>2, <1>3, <2>2
  <2>3. CASE j = n + 1 /\ i \in Ids
    BY <1>2, <1>3, <2>3
  <2> QED BY <1>3, <2>1, <2>2, <2>3
<1>9. SkillUseKeepsActive'
  BY <1>1, <1>3 DEF SkillUseKeepsActive, CatTyped
<1> QED BY <1>5, <1>7, <1>8, <1>9

\* An update writes the columns that differed: a name it holds the lock on, or one it writes back.
LEMMA WriteBackKeeps == ASSUME CatInv, NEW c \in Callers, WriteBack(c) PROVE CatInv'
<1> DEFINE y == catCall[c]
           w == y.id
           p == [f \in DOMAIN cat[w] |-> IF f \in y.diff THEN y.row[f] ELSE cat[w][f]]
<1> USE DEF CatInv
<1>1. /\ y \in Change /\ y.pc = "write" /\ CallKnows(y, crossed) /\ CatTurn(c, CatIdle)
      /\ UNCHANGED <<uses, crossed>> /\ cat' = [cat EXCEPT ![w] = p] /\ cat \in Seq(Category)
      /\ y.row \in Category /\ y.diff \subseteq {"name", "active"}
      /\ reverted' = IF "name" \in y.diff /\ y.name = NoName THEN reverted \cup {w} ELSE reverted
  BY CallKind DEF WriteBack, CatAt, CallsKnow, CatTyped, Change
<1>2. ChangeKnows(y, crossed) /\ w \in Ids /\ cat[w].type = y.type /\ cat[w] \in Category
  BY <1>1 DEF CallKnows, ChangeKnows, Ids
<1>3. /\ p \in Category /\ p.type = y.type
      /\ p.name = IF "name" \in y.diff THEN y.row.name ELSE cat[w].name
      /\ p.active = IF "active" \in y.diff THEN y.row.active ELSE cat[w].active
  BY <1>1, <1>2 DEF Category
<1>4. Ids' = Ids /\ cat' \in Seq(Category) /\ cat'[w] = p /\ \A i \in Ids \ {w} : cat'[i] = cat[i]
  <2> HIDE DEF p, w, y
  <2> QED BY <1>1, <1>2, <1>3 DEF Ids
<1>5. \A i \in Ids : cat'[i].type = cat[i].type
  BY <1>2, <1>3, <1>4
<1>6. /\ catCall' \in [Callers -> Change \cup Submission \cup {CatIdle}]
      /\ catCall'[c] = CatIdle /\ \A d \in Callers \ {c} : catCall'[d] = catCall[d]
      /\ \A d, e \in Callers : d # e => CallsApart(catCall[d], catCall[e], crossed)'
  BY <1>1, OneEnds
<1> HIDE DEF p
<1>7. \/ p.name = cat[w].name
      \/ w \in reverted'
      \/ p.name = y.name /\ y.lock = <<y.type, y.name>> /\ y.lock # NoLock
  <2>1. y.type # "none"
    BY <1>1 DEF Change, CategoryTypes
  <2> QED BY <1>1, <1>2, <1>3, <2>1 DEF ChangeKnows, NoLock
<1>8. CatTyped' /\ reverted \subseteq reverted'
  BY <1>1, <1>4, <1>6 DEF CatTyped
<1>9. ASSUME NEW d \in Callers PROVE CallKnows(catCall[d], crossed)'
  <2>1. CASE d = c
    BY <1>6, <2>1, CallKinds DEF CallKnows
  <2>2. CASE d # c
    <3>0. PICK z : z = catCall[d]
      OBVIOUS
    <3>1. CallKnows(z, crossed) /\ CallsApart(y, z, crossed) /\ CallsApart(z, y, crossed) /\ catCall'[d] = z
      BY <1>6, <2>2, <3>0 DEF CallsKnow
    <3>2. CASE z \in Change
      <4>1. ChangeKnows(z, crossed) /\ z.id \in Ids \cup {0}
        BY <3>1, <3>2 DEF CallKnows, ChangeKnows
      <4>2. Locks(z) /\ y.lock # NoLock => z.lock # y.lock
        BY <1>1, <3>1, <3>2 DEF CallsApart, Locks
      <4>3. z.pc \in {"save", "write"} /\ z.lock = <<z.type, z.name>> /\ w # z.id
               /\ p.type = z.type /\ p.name = z.name => w \in reverted'
        <5> SUFFICES ASSUME z.pc \in {"save", "write"}, z.lock = <<z.type, z.name>>, w # z.id,
                            p.type = z.type, p.name = z.name
                     PROVE  w \in reverted'
          OBVIOUS
        <5>1. z.type # "none"
          BY <3>2 DEF Change, CategoryTypes
        <5>2. Locks(z) /\ z.lock # NoLock
          BY <5>1 DEF Locks, NoLock
        <5>3. CASE p.name = cat[w].name
          BY <1>2, <1>3, <1>8, <4>1, <5>2, <5>3 DEF ChangeKnows
        <5>4. CASE p.name = y.name /\ y.lock = <<y.type, y.name>> /\ y.lock # NoLock
          BY <1>3, <4>2, <5>2, <5>4
        <5> QED BY <1>7, <5>3, <5>4
      <4>4. z.pc \in {"save", "write"} =>
               \/ z.lock = NoLock /\ z.name = NoName /\ z.id # 0
               \/ /\ z.lock = <<z.type, z.name>> /\ z.row.name = z.name
                  /\ \A i \in Ids' \ {z.id} : cat'[i].type = z.type /\ cat'[i].name = z.name => i \in reverted'
        <5> HIDE DEF w
        <5> QED BY <1>4, <1>8, <4>1, <4>3 DEF ChangeKnows
      <4>5. z.id # 0 => cat'[z.id].type = cat[z.id].type
        BY <1>5, <4>1
      <4>6. ChangeKnows(z, crossed)'
        BY <1>1, <1>4, <3>1, <4>1, <4>4, <4>5 DEF ChangeKnows
      <4> QED BY <3>1, <3>2, <4>6, CallKinds DEF CallKnows
    <3>3. CASE z \in Submission
      <4>1. z.id \in Ids /\ (z.id = w => z.id \in crossed) /\ SubmissionKnows(z, crossed)
        BY <1>1, <3>1, <3>3 DEF CallsApart, CallKnows, SubmissionKnows
      <4>2. SubmissionKnows(z, crossed)'
        BY <1>1, <1>4, <3>1, <4>1 DEF SubmissionKnows
      <4> QED BY <3>1, <3>3, <4>2, CallKinds DEF CallKnows
    <3>4. CASE z \notin Change \cup Submission
      BY <3>1, <3>4 DEF CallKnows
    <3> QED BY <3>2, <3>3, <3>4
  <2> QED BY <2>1, <2>2
<1>10. CallsKnow'
  BY <1>6, <1>9 DEF CallsKnow
<1>11. ASSUME NEW j \in Ids \ {w}, p.type = cat[j].type, p.name = cat[j].name
       PROVE  {w, j} \cap reverted' # {}
  <2>1. CASE p.name = cat[w].name
    BY <1>2, <1>3, <1>8, <1>11, <2>1 DEF NamesUnlessReverted, Named
  <2>2. CASE p.name = y.name /\ y.lock = <<y.type, y.name>> /\ y.lock # NoLock
    BY <1>1, <1>2, <1>3, <1>8, <1>11, <2>2 DEF ChangeKnows
  <2> QED BY <1>7, <2>1, <2>2
<1>12. NamesUnlessReverted'
  <2> SUFFICES ASSUME NEW i \in Ids, NEW j \in Ids, i # j,
                      cat'[i].type = cat'[j].type, cat'[i].name = cat'[j].name
               PROVE  {i, j} \cap reverted' # {}
    BY <1>4 DEF NamesUnlessReverted, Named
  <2>1. CASE i # w /\ j # w
    BY <1>4, <1>8, <2>1 DEF NamesUnlessReverted, Named
  <2>2. CASE i = w \/ j = w
    BY <1>4, <1>11, <2>2
  <2> QED BY <2>1, <2>2
<1>13. SkillUseKeepsActive'
  <2>1. y.type = "skill" /\ w \in uses \ crossed => p.active
    BY <1>1, <1>2, <1>3 DEF SkillUseKeepsActive, ChangeKnows
  <2>2. uses \subseteq Ids
    BY DEF CatTyped
  <2> QED BY <1>1, <1>3, <1>4, <2>1, <2>2 DEF SkillUseKeepsActive
<1> QED BY <1>8, <1>10, <1>12, <1>13

(***************************************************************************)
(* Categories: the properties                                              *)
(***************************************************************************)
\* What is behind the properties: one call at a time holds the lock on a name.
THEOREM CatInvInvariant == CatSpec => []CatInv
<1>1. CatInit => CatInv
  <2> SUFFICES ASSUME CatInit PROVE CatInv
    OBVIOUS
  <2>1. CatTyped /\ NamesUnlessReverted /\ SkillUseKeepsActive
    BY DEF CatInit, CatTyped, Ids, NamesUnlessReverted, SkillUseKeepsActive
  <2>2. CallsKnow
    BY CallKinds DEF CatInit, CallsKnow, CallKnows, CallsApart
  <2> QED BY <2>1, <2>2 DEF CatInv
<1>2. CatInv /\ [CatNext]_catVars => CatInv'
  <2> SUFFICES ASSUME CatInv, [CatNext]_catVars PROVE CatInv'
    OBVIOUS
  <2>1. CASE UNCHANGED catVars
    BY <2>1 DEF catVars, CatInv, CatTyped, CallsKnow, CallKnows, ChangeKnows, SubmissionKnows, CallsApart,
                Locks, Ids, NamesUnlessReverted, Named, SkillUseKeepsActive
  <2>2. ASSUME NEW c \in Callers,
               \/ TakeName(c) \/ CheckName(c) \/ Insert(c) \/ CheckUse(c) \/ Compare(c) \/ WriteBack(c)
               \/ SaveVersion(c) \/ GiveUp(c)
        PROVE  CatInv'
    BY <2>2, TakeNameKeeps, CheckNameKeeps, InsertKeeps, CheckUseKeeps, CompareKeeps, WriteBackKeeps,
       SaveVersionKeeps, CallEnds DEF GiveUp
  <2>3. ASSUME NEW c \in Callers, NEW t \in CategoryTypes, NEW n \in Names, BeginCreate(c, t, n)
        PROVE  CatInv'
    BY <2>3, BeginCreateKeeps
  <2>4. ASSUME NEW c \in Callers, NEW i \in Ids, NEW n \in Names \cup {NoName}, NEW a \in BOOLEAN,
               BeginUpdate(c, i, n, a)
        PROVE  CatInv'
    BY <2>4, BeginUpdateKeeps
  <2>5. ASSUME NEW c \in Callers, NEW i \in Ids, Validate(c, i) PROVE CatInv'
    BY <2>5, ValidateKeeps
  <2> QED BY <2>1, <2>2, <2>3, <2>4, <2>5 DEF CatNext
<1> QED BY <1>1, <1>2, PTL DEF CatSpec

\* However creates and renames overlap, two categories of a type have one name only where a save has
\* written an old name back.
THEOREM NamesUnlessRevertedAlways == CatSpec => []NamesUnlessReverted
<1>1. CatInv => NamesUnlessReverted
  BY DEF CatInv
<1> QED BY <1>1, CatInvInvariant, PTL

\* A category that a skill or prompt version refers to is active, unless an update of it was open
\* while a version was being submitted.
THEOREM SkillUseKeepsActiveAlways == CatSpec => []SkillUseKeepsActive
<1>1. CatInv => SkillUseKeepsActive
  BY DEF CatInv
<1> QED BY <1>1, CatInvInvariant, PTL

(***************************************************************************)
(* ReplacedByInsider for any number of users and overlapping calls.  The   *)
(* inductive invariant is about the transaction that holds the package     *)
(* row: there is one at most, so what it has read of the supporters (that  *)
(* its user is among them, which rows it deletes) still stands when it     *)
(* commits.                                                                *)
(***************************************************************************)
Locking(a) == ask[a].pc \in {"read", "users", "eligible", "delete", "insert"}
Call == [pc : {"idle", "lock", "read", "users", "eligible", "delete", "insert"},
         user : Staff, ids : SUBSET Staff, gone : SUBSET Staff]

SupTypeOK == supporters \subseteq Staff /\ ask \in [Askers -> Call]
OneLocks  == \A a, b \in Askers : Locking(a) /\ Locking(b) => a = b
Allowed   == \A a \in Askers : ask[a].pc \in {"users", "eligible", "delete", "insert"} =>
                                  ManagedBy(ask[a].user)
Found     == \A a \in Askers : AskAt(a, "insert") => ask[a].gone = supporters
SupInv    == SupTypeOK /\ OneLocks /\ Allowed /\ Found

\* NoAsk, the state of a call before and after: it holds no lock.
LEMMA NoAskTyped == NoAsk \in Call /\ NoAsk.pc = "idle"
BY StaffAssumption DEF NoAsk, Call

LEMMA SupInitial == SupInit => SupInv
BY NoAskTyped DEF SupInit, SupInv, SupTypeOK, OneLocks, Allowed, Found, Locking, AskAt

\* A call that goes on without touching the supporters, to a step at which what the invariant says
\* of it holds, and with the lock only if it had it or nobody has.
LEMMA CallMoves ==
    ASSUME SupInv, NEW a \in Askers, NEW r \in Call,
           ask' = [ask EXCEPT ![a] = r], supporters' = supporters,
           r.pc \in {"read", "users", "eligible", "delete", "insert"} =>
              \A b \in Askers \ {a} : ~Locking(b),
           r.pc \in {"users", "eligible", "delete", "insert"} => ManagedBy(r.user),
           r.pc = "insert" => r.gone = supporters
    PROVE  SupInv'
<1>1. ask' \in [Askers -> Call] /\ ask'[a] = r /\ \A b \in Askers \ {a} : ask'[b] = ask[b]
  BY DEF SupInv, SupTypeOK
<1>2. SupTypeOK'
  BY <1>1 DEF SupInv, SupTypeOK
<1>3. OneLocks'
  BY <1>1 DEF SupInv, OneLocks, Locking
<1>4. Allowed'
  BY <1>1 DEF SupInv, Allowed, ManagedBy
<1>5. Found'
  BY <1>1 DEF SupInv, Found, AskAt
<1> QED BY <1>2, <1>3, <1>4, <1>5 DEF SupInv

\* INSERT and COMMIT: the set becomes the body's, and no other call holds anything it read.
LEMMA InsertStep == ASSUME SupInv, NEW a \in Askers, InsertNew(a)
                    PROVE  SupInv' /\ supporters' = ask[a].ids /\ ManagedBy(ask[a].user)
<1>1. AskAt(a, "insert") /\ ask[a] \in Call /\ ManagedBy(ask[a].user) /\ ask[a].gone = supporters
  BY DEF InsertNew, AskAt, SupInv, SupTypeOK, Allowed, Found
<1>2. supporters' = ask[a].ids
  BY <1>1 DEF InsertNew
<1>3. ask' \in [Askers -> Call] /\ ask'[a] = NoAsk /\ \A b \in Askers \ {a} : ask'[b] = ask[b]
  BY NoAskTyped DEF InsertNew, AskTurn, SupInv, SupTypeOK
<1>4. \A b \in Askers \ {a} : ~Locking(b)
  BY <1>1 DEF SupInv, OneLocks, Locking, AskAt
<1>5. SupTypeOK' /\ OneLocks'
  BY <1>1, <1>2, <1>3, <1>4, NoAskTyped DEF SupTypeOK, Call, OneLocks, Locking
<1>6. Allowed' /\ Found'
  BY <1>3, <1>4, NoAskTyped DEF Allowed, Found, AskAt, Locking
<1> QED BY <1>1, <1>2, <1>5, <1>6 DEF SupInv

LEMMA SupStep == SupInv /\ [SupNext]_supVars => SupInv'
<1> SUFFICES ASSUME SupInv, [SupNext]_supVars PROVE SupInv'
  OBVIOUS
<1>0. \A a \in Askers : ask[a] \in Call
  BY DEF SupInv, SupTypeOK
<1>1. ASSUME NEW a \in Askers, NEW u \in Staff, NEW ids \in SUBSET Staff, Ask(a, u, ids) PROVE SupInv'
  <2> DEFINE r == [pc |-> "lock", user |-> u, ids |-> ids, gone |-> {}]
  <2>1. r \in Call /\ r.pc = "lock"
    BY DEF Call
  <2> QED BY <1>1, <2>1, CallMoves DEF Ask
<1>2. ASSUME NEW a \in Askers, LockPackage(a) PROVE SupInv'
  <2> DEFINE r == [ask[a] EXCEPT !.pc = "read"]
  <2>1. r \in Call /\ r.pc = "read"
    BY <1>0 DEF Call
  <2>2. \A b \in Askers \ {a} : ~Locking(b)
    BY <1>2 DEF LockPackage, Locking
  <2> QED BY <1>2, <2>1, <2>2, CallMoves DEF LockPackage, AskGoes, AskTurn
<1>3. ASSUME NEW a \in Askers, NEW pc \in {"users", "eligible", "delete"}, Locking(a),
             ManagedBy(ask[a].user), AskGoes(a, pc)
      PROVE  SupInv'
  <2> DEFINE r == [ask[a] EXCEPT !.pc = pc]
  <2>1. r \in Call /\ r.pc = pc /\ r.user = ask[a].user
    BY <1>0 DEF Call
  <2>2. \A b \in Askers \ {a} : ~Locking(b)
    BY <1>3 DEF SupInv, OneLocks
  <2> QED BY <1>3, <2>1, <2>2, CallMoves DEF AskGoes, AskTurn
<1>4. ASSUME NEW a \in Askers, ReadCurrent(a) \/ CheckUsers(a) \/ CheckEligible(a) PROVE SupInv'
  <2>1. Locking(a) /\ ManagedBy(ask[a].user)
    BY <1>4 DEF ReadCurrent, CheckUsers, CheckEligible, AskAt, Locking, SupInv, Allowed
  <2> QED BY <1>3, <1>4, <2>1 DEF ReadCurrent, CheckUsers, CheckEligible
<1>5. ASSUME NEW a \in Askers, DeleteOld(a) PROVE SupInv'
  <2> DEFINE r == [ask[a] EXCEPT !.pc = "insert", !.gone = supporters]
  <2>1. r \in Call /\ r.pc = "insert" /\ r.user = ask[a].user /\ r.gone = supporters
    BY <1>0 DEF Call, SupInv, SupTypeOK
  <2>2. ManagedBy(r.user) /\ \A b \in Askers \ {a} : ~Locking(b)
    BY <1>5, <2>1 DEF DeleteOld, AskAt, SupInv, OneLocks, Allowed, Locking
  <2> QED BY <1>5, <2>1, <2>2, CallMoves DEF DeleteOld, AskTurn
<1>6. ASSUME NEW a \in Askers, AskFails(a) PROVE SupInv'
  BY <1>6, NoAskTyped, CallMoves DEF AskFails, AskTurn
<1>7. ASSUME UNCHANGED <<supporters, ask>> PROVE SupInv'
  BY <1>7 DEF SupInv, SupTypeOK, OneLocks, Allowed, Found, Locking, AskAt, ManagedBy
<1> QED
  BY <1>1, <1>2, <1>4, <1>5, <1>6, <1>7, InsertStep DEF SupNext, supVars, SwitchRight

\* The transactions that replace the supporters exclude each other, and what each has read of the
\* supporters holds until it commits.
THEOREM SupInvInvariant == SupSpec => []SupInv
<1> QED BY SupInitial, SupStep, PTL DEF SupSpec

\* replaceSupporters (AssetHubSupporterService): the set is always what one call asked for, and that
\* call's user was the creator or among the supporters it replaced.
THEOREM ReplacedByInsiderAlways == SupSpec => ReplacedByInsider
<1> DEFINE Replaces == supporters' # supporters =>
               \E a \in Askers : /\ AskAt(a, "insert") /\ supporters' = ask[a].ids
                                 /\ ManagedBy(ask[a].user)
<1>1. SupInv /\ [SupNext]_supVars => [Replaces]_supVars
  <2> SUFFICES ASSUME SupInv, SupNext, supporters' # supporters PROVE Replaces
    BY DEF supVars
  <2>1. PICK a \in Askers : InsertNew(a)
    BY DEF SupNext, Ask, LockPackage, ReadCurrent, CheckUsers, CheckEligible, DeleteOld, AskFails,
           AskGoes, SwitchRight
  <2> QED BY <2>1, InsertStep DEF InsertNew
<1> QED BY <1>1, SupInvInvariant, PTL DEF SupSpec, ReplacedByInsider

(***************************************************************************)
(* MatrixAgrees for any number of skills, coworkers and versions.  That    *)
(* the readings agree is a fact about each state.  That a finished matrix  *)
(* shows the links its rows had rests on the reviews: a row's version was  *)
(* active, an active version is approved unless a reject overtook it, and  *)
(* what is approved is neither edited nor pending again.                   *)
(***************************************************************************)
Version == [state : {"pending", "approved", "rejected"}, links : SUBSET Coworkers]
Package == [versions : Seq(Version), active : Nat, status : {"active", "inactive"}]
Matrix  == [pc : {"idle", "first", "links", "done"}, todo : SUBSET {"columns", "count"},
            columns : SUBSET Coworkers, none : BOOLEAN, row : [Skills -> Nat],
            was : [Skills -> SUBSET Coworkers], cells : [Skills -> SUBSET Coworkers]]

ReuseTypeOK ==
    /\ skill \in [Skills -> Package]
    /\ \A s \in Skills : skill[s].active \in VersionsOf(s) \cup {0}
    /\ matrix \in Matrix

\* Version v of skill s has been approved; only a reject that overtook the approval changed it.
Final(s, v) == v \in VersionsOf(s) /\ (StateOf(s, v) = "approved" \/ <<s, v>> \in overtaken)

ActiveFinal == \A s \in Skills : skill[s].active # 0 => Final(s, skill[s].active)
\* The rows that were read, whose links are still to be read.
RowsFinal ==
    /\ matrix.pc = "links" =>
         \A s \in Skills : matrix.row[s] # 0 =>
            /\ Final(s, matrix.row[s])
            /\ <<s, matrix.row[s]>> \notin overtaken =>
                  LinksOf(s, matrix.row[s]) = matrix.was[s]
    /\ TicksHeld
ReuseInv == ReuseTypeOK /\ ActiveFinal /\ RowsFinal

(***************************************************************************)
(* The readings agree in every state                                       *)
(***************************************************************************)
LEMMA ReadingsAgreeTyped == ReuseTypeOK => ReadingsAgree
<1> SUFFICES ASSUME ReuseTypeOK PROVE ReadingsAgree
  OBVIOUS
<1>1. ASSUME NEW s \in Shown, NEW c \in Columns PROVE s \in SkillsUsing(c) <=> c \in LinksOf(s, skill[s].active)
  BY DEF ReuseTypeOK, Shown, SkillsUsing
<1>2. ASSUME NEW s \in Shown
      PROVE  {c \in Columns : s \in SkillsUsing(c)}
               = {c \in LinksOf(s, skill[s].active) : coworker[c].status = "active" /\ coworker[c].approved}
  <2>1. LinksOf(s, skill[s].active) \subseteq Coworkers
    <3>1. s \in Skills /\ skill[s] \in Package /\ skill[s].active \in 1..Len(skill[s].versions)
      BY DEF ReuseTypeOK, Shown, VersionsOf
    <3>2. skill[s].versions \in Seq(Version)
      BY <3>1 DEF Package
    <3>3. skill[s].versions[skill[s].active] \in Version
      BY <3>1, <3>2
    <3> QED BY <3>3 DEF Version, LinksOf
  <2> QED BY <1>1, <2>1 DEF Columns
<1>3. ASSUME NEW s \in Shown, NEW c \in Columns PROVE c \in OnDetail(s) <=> s \in SkillsUsing(c)
  <2>1. s \in Skills /\ skill[s].active \in VersionsOf(s)
    BY DEF ReuseTypeOK, Shown
  <2>2. OnDetail(s) = LinksOf(s, skill[s].active)
    BY <2>1 DEF OnDetail
  <2> QED BY <1>1, <2>2
<1> QED BY <1>2, <1>3 DEF ReadingsAgree, Rank

(***************************************************************************)
(* The reviews                                                             *)
(***************************************************************************)
\* A review writes one skill: if no approved version changes but one that a reject has overtaken,
\* and the active version stays or is an approved one, the invariant survives.
LEMMA PackageWritten ==
    ASSUME ReuseInv, NEW s \in Skills, NEW p \in Package,
           skill' = [skill EXCEPT ![s] = p],
           matrix' = matrix, overtaken \subseteq overtaken',
           p.active \in 1..Len(p.versions) \cup {0},
           VersionsOf(s) \subseteq 1..Len(p.versions),
           \A v \in VersionsOf(s) : StateOf(s, v) = "approved" =>
              p.versions[v] = skill[s].versions[v] \/ <<s, v>> \in overtaken',
           \/ p.active = skill[s].active
           \/ p.versions[p.active].state = "approved"
    PROVE  ReuseInv'
<1>1. skill' \in [Skills -> Package] /\ skill'[s] = p /\ \A t \in Skills \ {s} : skill'[t] = skill[t]
  BY DEF ReuseInv, ReuseTypeOK
<1>2. \A t \in Skills \ {s} : VersionsOf(t)' = VersionsOf(t)
  BY <1>1 DEF VersionsOf
<1>3. VersionsOf(s)' = 1..Len(p.versions)
  BY <1>1 DEF VersionsOf
<1>4. ReuseTypeOK'
  BY <1>1, <1>2, <1>3 DEF ReuseInv, ReuseTypeOK
<1>5. ASSUME NEW t \in Skills, NEW v, Final(t, v) PROVE Final(t, v)'
  <2>1. CASE t = s
    BY <1>1, <1>3, <1>5, <2>1 DEF Final, StateOf
  <2>2. CASE t # s
    BY <1>1, <1>2, <1>5, <2>2 DEF Final, StateOf
  <2> QED BY <2>1, <2>2
<1>6. ASSUME NEW t \in Skills, NEW v, Final(t, v), <<t, v>> \notin overtaken'
      PROVE  LinksOf(t, v)' = LinksOf(t, v)
  <2>1. CASE t = s
    BY <1>1, <1>6, <2>1 DEF Final, LinksOf
  <2>2. CASE t # s
    BY <1>1, <1>6, <2>2 DEF LinksOf
  <2> QED BY <2>1, <2>2
<1>7. ActiveFinal'
  <2> SUFFICES ASSUME NEW t \in Skills, NEW v, v = skill'[t].active, v # 0 PROVE Final(t, v)'
    BY DEF ActiveFinal
  <2>1. CASE v = skill[t].active
    BY <1>5, <2>1 DEF ReuseInv, ActiveFinal
  <2>2. CASE t = s /\ p.versions[p.active].state = "approved"
    BY <1>1, <1>3, <2>2 DEF Final, StateOf
  <2> QED BY <1>1, <2>1, <2>2
<1>8. RowsFinal'
  <2>1. TicksHeld'
    BY DEF ReuseInv, RowsFinal, TicksHeld
  <2>2. ASSUME matrix.pc = "links", NEW t \in Skills, matrix.row[t] # 0
        PROVE  /\ Final(t, matrix.row[t])'
               /\ <<t, matrix.row[t]>> \notin overtaken' => LinksOf(t, matrix.row[t])' = matrix.was[t]
    <3>1. /\ Final(t, matrix.row[t])
          /\ <<t, matrix.row[t]>> \notin overtaken => LinksOf(t, matrix.row[t]) = matrix.was[t]
      BY <2>2 DEF ReuseInv, RowsFinal
    <3> QED BY <1>5, <1>6, <3>1
  <2> QED BY <2>1, <2>2 DEF RowsFinal, Final, StateOf, LinksOf, VersionsOf
<1> QED BY <1>4, <1>7, <1>8 DEF ReuseInv

\* The rows of a skill, for the actions below.
LEMMA PackageTyped ==
    ASSUME ReuseInv, NEW s \in Skills
    PROVE  /\ skill[s] \in Package /\ skill[s].versions \in Seq(Version) /\ Len(skill[s].versions) \in Nat
           /\ skill[s] = [versions |-> skill[s].versions, active |-> skill[s].active,
                          status |-> skill[s].status]
           /\ VersionsOf(s) = 1..Len(skill[s].versions)
           /\ skill[s].active \in VersionsOf(s) \cup {0}
BY DEF ReuseInv, ReuseTypeOK, Package, VersionsOf

LEMMA SubmitStep ==
    ASSUME ReuseInv, NEW s \in Skills, NEW links \in SUBSET Coworkers, SubmitLinks(s, links)
    PROVE  ReuseInv'
<1> DEFINE w == [state |-> "pending", links |-> links]
           n == Len(skill[s].versions)
           p == [skill[s] EXCEPT !.versions = Append(@, w)]
<1>0. w \in Version
  BY DEF Version
<1>1. /\ p.versions = Append(skill[s].versions, w) /\ p.active = skill[s].active
      /\ p \in Package /\ Len(p.versions) = n + 1
      /\ \A v \in 1..n : p.versions[v] = skill[s].versions[v]
  <2> DEFINE old == skill[s].versions
             vs == Append(old, w)
  <2>1. old \in Seq(Version) /\ skill[s] \in Package
    BY PackageTyped
  <2>2. vs \in Seq(Version) /\ Len(vs) = n + 1 /\ \A v \in 1..n : vs[v] = old[v]
    <3> HIDE DEF w
    <3> QED BY <1>0, <2>1
  <2>3. p = [skill[s] EXCEPT !.versions = vs]
    OBVIOUS
  <2> HIDE DEF vs, p
  <2>4. p.versions = vs /\ p.active = skill[s].active /\ p \in Package
    BY <2>1, <2>2, <2>3 DEF Package
  <2> QED BY <2>2, <2>4 DEF vs
<1>2. skill' = [skill EXCEPT ![s] = p] /\ matrix' = matrix /\ overtaken' = overtaken
  BY DEF SubmitLinks, OthersStay
<1>3. VersionsOf(s) \subseteq 1..Len(p.versions) /\ p.active \in 1..Len(p.versions) \cup {0}
  <2>1. n \in Nat /\ VersionsOf(s) = 1..n /\ skill[s].active \in 1..n \cup {0}
    BY PackageTyped
  <2>2. Len(p.versions) = n + 1 /\ p.active = skill[s].active
    BY <1>1
  <2> HIDE DEF n, p
  <2> QED BY <2>1, <2>2
<1>4. \A v \in VersionsOf(s) : StateOf(s, v) = "approved" =>
         p.versions[v] = skill[s].versions[v] \/ <<s, v>> \in overtaken'
  BY <1>1, PackageTyped
<1>5. p \in Package /\ p.active = skill[s].active /\ overtaken \subseteq overtaken'
  BY <1>1, <1>2
<1> HIDE DEF p
<1> QED BY <1>2, <1>3, <1>4, <1>5, PackageWritten

\* A version is written in place.
LEMMA VersionWritten ==
    ASSUME ReuseInv, NEW s \in Skills, NEW v \in VersionsOf(s), NEW w \in Version,
           NEW active \in {skill[s].active, v}, NEW status \in {"active", "inactive"},
           skill' = [skill EXCEPT ![s] = [versions |-> [skill[s].versions EXCEPT ![v] = w],
                                          active |-> active, status |-> status]],
           matrix' = matrix, overtaken \subseteq overtaken',
           StateOf(s, v) = "approved" => <<s, v>> \in overtaken',
           active = skill[s].active \/ w.state = "approved"
    PROVE  ReuseInv'
<1> DEFINE vs == [skill[s].versions EXCEPT ![v] = w]
           p == [versions |-> vs, active |-> active, status |-> status]
<1>1. vs \in Seq(Version) /\ Len(vs) = Len(skill[s].versions) /\ vs[v] = w
      /\ \A u \in VersionsOf(s) \ {v} : vs[u] = skill[s].versions[u]
  <2>1. skill[s].versions \in Seq(Version) /\ v \in 1..Len(skill[s].versions)
        /\ VersionsOf(s) = 1..Len(skill[s].versions)
    BY PackageTyped
  <2>2. vs \in Seq(Version) /\ Len(vs) = Len(skill[s].versions)
    BY <2>1
  <2> QED BY <2>1, <2>2
<1>2. p.versions = vs /\ p.active = active /\ p \in Package
  <2>1. active \in Nat
    <3>1. VersionsOf(s) \subseteq Nat /\ skill[s].active \in Nat
      BY DEF ReuseInv, ReuseTypeOK, Package, VersionsOf
    <3> QED BY <3>1
  <2> QED BY <1>1, <2>1 DEF Package
<1>3. VersionsOf(s) \subseteq 1..Len(p.versions) /\ p.active \in 1..Len(p.versions) \cup {0}
  BY <1>1, <1>2, PackageTyped
<1>4. \A u \in VersionsOf(s) : StateOf(s, u) = "approved" =>
         p.versions[u] = skill[s].versions[u] \/ <<s, u>> \in overtaken'
  BY <1>1, <1>2
<1>5. p.active = skill[s].active \/ p.versions[p.active].state = "approved"
  BY <1>1, <1>2
<1>6. skill' = [skill EXCEPT ![s] = p]
  OBVIOUS
<1> HIDE DEF p
<1> QED BY <1>2, <1>3, <1>4, <1>5, <1>6, PackageWritten

\* An update that lists the fields of the package it leaves alone.
LEMMA ReviewsStep ==
    ASSUME ReuseInv, NEW s \in Skills, NEW v \in VersionsOf(s),
           \/ \E links \in SUBSET Coworkers : EditLinks(s, v, links)
           \/ ApproveLinks(s, v) \/ RejectSaves(s, v)
    PROVE  ReuseInv'
<1> DEFINE old == skill[s].versions
<1>0. /\ skill[s] = [versions |-> old, active |-> skill[s].active, status |-> skill[s].status]
      /\ skill[s].status \in {"active", "inactive"}
      /\ old[v] \in Version /\ old[v] = [state |-> StateOf(s, v), links |-> LinksOf(s, v)]
  <2>1. skill[s] \in Package /\ v \in 1..Len(old)
    BY PackageTyped
  <2>2. old \in Seq(Version)
    BY PackageTyped
  <2>3. old[v] \in Version
    BY <2>1, <2>2
  <2> QED BY <2>1, <2>3 DEF Package, Version, StateOf, LinksOf
<1>v. ASSUME NEW vs
      PROVE  [skill[s] EXCEPT !.versions = vs]
                = [versions |-> vs, active |-> skill[s].active, status |-> skill[s].status]
  BY <1>0
<1>1. ASSUME NEW links \in SUBSET Coworkers, EditLinks(s, v, links) PROVE ReuseInv'
  <2> DEFINE w == [state |-> "pending", links |-> links]
  <2>1. w \in Version
    BY DEF Version
  <2>2. skill' = [skill EXCEPT ![s] = [versions |-> [old EXCEPT ![v] = w],
                                       active |-> skill[s].active, status |-> skill[s].status]]
    <3>1. skill' = [skill EXCEPT ![s] = [skill[s] EXCEPT !.versions = [old EXCEPT ![v] = w]]]
      BY <1>1 DEF EditLinks
    <3> QED BY <1>v, <3>1
  <2>3. StateOf(s, v) # "approved" /\ matrix' = matrix /\ overtaken' = overtaken
    BY <1>1 DEF EditLinks, OthersStay, PendingOf
  <2> HIDE DEF w
  <2> QED BY <1>0, <2>1, <2>2, <2>3, VersionWritten
<1>2. ASSUME ApproveLinks(s, v) PROVE ReuseInv'
  <2> DEFINE w == [state |-> "approved", links |-> LinksOf(s, v)]
  <2>1. w \in Version /\ w.state = "approved" /\ [old[v] EXCEPT !.state = "approved"] = w
    BY <1>0 DEF Version
  <2>2. skill' = [skill EXCEPT ![s] = [versions |-> [old EXCEPT ![v] = w],
                                       active |-> v, status |-> "active"]]
    <3>1. skill' = [skill EXCEPT ![s] =
                      [versions |-> [old EXCEPT ![v] = [old[v] EXCEPT !.state = "approved"]],
                       active |-> v, status |-> "active"]]
      BY <1>2 DEF ApproveLinks
    <3> QED BY <2>1, <3>1
  <2>3. StateOf(s, v) # "approved" /\ matrix' = matrix /\ overtaken' = overtaken
    BY <1>2 DEF ApproveLinks, OthersStay, PendingOf
  <2> HIDE DEF w
  <2> QED BY <2>1, <2>2, <2>3, VersionWritten
<1>3. ASSUME RejectSaves(s, v) PROVE ReuseInv'
  <2> DEFINE w == [state |-> "rejected", links |-> LinksOf(s, v)]
  <2>1. w \in Version /\ [old[v] EXCEPT !.state = "rejected"] = w
    BY <1>0 DEF Version
  <2>2. skill' = [skill EXCEPT ![s] = [versions |-> [old EXCEPT ![v] = w],
                                       active |-> skill[s].active, status |-> skill[s].status]]
    <3>1. skill' = [skill EXCEPT ![s] = [skill[s] EXCEPT !.versions =
                      [old EXCEPT ![v] = [old[v] EXCEPT !.state = "rejected"]]]]
      BY <1>3 DEF RejectSaves
    <3> QED BY <1>v, <2>1, <3>1
  <2>3. /\ matrix' = matrix /\ overtaken \subseteq overtaken'
        /\ StateOf(s, v) = "approved" => <<s, v>> \in overtaken'
    BY <1>3 DEF RejectSaves
  <2> HIDE DEF w
  <2> QED BY <1>0, <2>1, <2>2, <2>3, VersionWritten
<1> QED BY <1>1, <1>2, <1>3

LEMMA ToggleStep == ASSUME ReuseInv, NEW s \in Skills, ToggleSkill(s) PROVE ReuseInv'
<1> DEFINE p == [skill[s] EXCEPT !.status = Flipped(@)]
<1>1. p \in Package /\ p.versions = skill[s].versions /\ p.active = skill[s].active
  BY PackageTyped DEF Package, Flipped
<1>2. skill' = [skill EXCEPT ![s] = p] /\ matrix' = matrix /\ overtaken \subseteq overtaken'
  BY DEF ToggleSkill, OthersStay
<1>3. /\ VersionsOf(s) = 1..Len(p.versions) /\ p.active \in 1..Len(p.versions) \cup {0}
      /\ \A v \in VersionsOf(s) : StateOf(s, v) = "approved" => p.versions[v] = skill[s].versions[v]
  BY <1>1, PackageTyped
<1> HIDE DEF p
<1> QED BY <1>1, <1>2, <1>3, PackageWritten

(***************************************************************************)
(* The matrix                                                              *)
(***************************************************************************)
\* A step that leaves the skills and what is overtaken alone keeps all but the matrix.
LEMMA SkillsStay ==
    ASSUME ReuseInv, skill' = skill, overtaken' = overtaken, matrix' \in Matrix
    PROVE  /\ ReuseTypeOK' /\ ActiveFinal'
           /\ \A s, v : (Final(s, v)' <=> Final(s, v)) /\ LinksOf(s, v)' = LinksOf(s, v)
BY DEF ReuseInv, ReuseTypeOK, ActiveFinal, Final, StateOf, LinksOf, VersionsOf

LEMMA FirstStep ==
    ASSUME ReuseInv, BeginMatrix \/ \E q \in {"columns", "count"} : ReadFirst(q)
    PROVE  ReuseInv'
<1>0. matrix \in Matrix /\ Columns \subseteq Coworkers
  BY DEF ReuseInv, ReuseTypeOK, Columns
<1>1. matrix' \in Matrix /\ matrix'.pc = "first" /\ skill' = skill /\ overtaken' = overtaken
  <2>1. CASE BeginMatrix
    BY <2>1 DEF BeginMatrix, NoMatrix, Matrix
  <2>2. ASSUME NEW q \in {"columns", "count"}, ReadFirst(q)
        PROVE  matrix' \in Matrix /\ matrix'.pc = "first" /\ skill' = skill /\ overtaken' = overtaken
    <3> DEFINE cols == IF q = "columns" THEN Columns ELSE matrix.columns
               none == IF q = "count" THEN Shown = {} ELSE matrix.none
    <3>1. cols \subseteq Coworkers /\ none \in BOOLEAN
      BY <1>0 DEF Matrix
    <3>2. matrix' = [matrix EXCEPT !.todo = matrix.todo \ {q}, !.columns = cols, !.none = none]
      BY <2>2 DEF ReadFirst
    <3>3. matrix.pc = "first" /\ skill' = skill /\ overtaken' = overtaken
      BY <2>2 DEF ReadFirst
    <3> HIDE DEF cols, none
    <3> QED BY <1>0, <3>1, <3>2, <3>3 DEF Matrix
  <2> QED BY <2>1, <2>2
<1>2. RowsFinal'
  BY <1>1 DEF RowsFinal, TicksHeld
<1> QED BY <1>1, <1>2, SkillsStay DEF ReuseInv

\* The rows that are read are active versions, so they are final.
LEMMA RowsStep == ASSUME ReuseInv, ReadRows PROVE ReuseInv'
<1> DEFINE rows == IF matrix.none THEN {} ELSE Shown
           row  == [s \in Skills |-> IF s \in rows THEN skill[s].active ELSE 0]
           was  == [s \in Skills |-> IF s \in rows THEN LinksOf(s, skill[s].active) ELSE {}]
<1>0. rows \subseteq Shown /\ Shown \subseteq Skills
  BY DEF Shown
<1>1. \A s \in Skills : skill[s].active \in Nat
  BY DEF ReuseInv, ReuseTypeOK, Package
<1>2. ASSUME NEW s \in rows PROVE LinksOf(s, skill[s].active) \in SUBSET Coworkers
  <2>1. s \in Skills /\ skill[s].active \in 1..Len(skill[s].versions)
    BY <1>0, PackageTyped DEF Shown
  <2>2. skill[s].versions \in Seq(Version)
    BY <2>1, PackageTyped
  <2>3. skill[s].versions[skill[s].active] \in Version
    BY <2>1, <2>2
  <2> QED BY <2>3 DEF Version, LinksOf
<1>3. row \in [Skills -> Nat] /\ was \in [Skills -> SUBSET Coworkers]
  <2> HIDE DEF rows
  <2> QED BY <1>1, <1>2
<1>4. /\ matrix' = [matrix EXCEPT !.pc = "links", !.row = row, !.was = was]
      /\ skill' = skill /\ overtaken' = overtaken
  BY DEF ReadRows
<1>5. \A s \in Skills : row[s] # 0 => /\ Final(s, row[s])
                                      /\ LinksOf(s, row[s]) = was[s]
  BY DEF ReuseInv, ActiveFinal
<1> HIDE DEF row, was
<1>6. matrix' \in Matrix /\ matrix'.pc = "links" /\ matrix'.row = row /\ matrix'.was = was
  BY <1>3, <1>4 DEF ReuseInv, ReuseTypeOK, Matrix
<1>7. RowsFinal'
  BY <1>4, <1>5, <1>6, SkillsStay DEF RowsFinal, TicksHeld
<1> QED BY <1>4, <1>6, <1>7, SkillsStay DEF ReuseInv

\* The links that are read late are those the rows had.
LEMMA LinksStep == ASSUME ReuseInv, ReadLinks PROVE ReuseInv'
<1> DEFINE cells == [s \in Skills |-> IF matrix.row[s] = 0 THEN {}
                                      ELSE LinksOf(s, matrix.row[s]) \cap matrix.columns]
<1>1. matrix \in Matrix /\ cells \in [Skills -> SUBSET Coworkers]
  BY DEF ReuseInv, ReuseTypeOK, Matrix
<1>2. /\ matrix' = [matrix EXCEPT !.pc = "done", !.cells = cells]
      /\ skill' = skill /\ overtaken' = overtaken
  BY DEF ReadLinks
<1>3. \A s \in Skills : matrix.row[s] # 0 /\ <<s, matrix.row[s]>> \notin overtaken =>
         cells[s] = matrix.was[s] \cap matrix.columns
  BY DEF ReadLinks, ReuseInv, RowsFinal
<1> HIDE DEF cells
<1>4. /\ matrix' \in Matrix /\ matrix'.pc = "done" /\ matrix'.cells = cells
      /\ matrix'.row = matrix.row /\ matrix'.was = matrix.was /\ matrix'.columns = matrix.columns
  BY <1>1, <1>2 DEF Matrix
<1>5. RowsFinal'
  BY <1>2, <1>3, <1>4 DEF RowsFinal, TicksHeld
<1> QED BY <1>2, <1>4, <1>5, SkillsStay DEF ReuseInv

(***************************************************************************)
(* The invariant                                                           *)
(***************************************************************************)
LEMMA ReuseInitial == ReuseInit => ReuseInv
<1> SUFFICES ASSUME ReuseInit PROVE ReuseInv
  OBVIOUS
<1>1. NoMatrix \in Matrix /\ NoMatrix.pc = "idle"
  BY DEF NoMatrix, Matrix
<1>2. [versions |-> <<>>, active |-> 0, status |-> "active"] \in Package
  BY DEF Package
<1> QED BY <1>1, <1>2 DEF ReuseInit, ReuseInv, ReuseTypeOK, ActiveFinal, RowsFinal, TicksHeld

LEMMA ReuseStep == ReuseInv /\ [ReuseNext]_reuseVars => ReuseInv'
<1> SUFFICES ASSUME ReuseInv, [ReuseNext]_reuseVars PROVE ReuseInv'
  OBVIOUS
<1>1. ASSUME NEW s \in Skills, NEW v \in VersionsOf(s),
             \/ \E links \in SUBSET Coworkers : EditLinks(s, v, links)
             \/ ApproveLinks(s, v) \/ RejectSaves(s, v)
      PROVE  ReuseInv'
  BY <1>1, ReviewsStep
<1>2. ASSUME NEW s \in Skills,
             (\E links \in SUBSET Coworkers : SubmitLinks(s, links)) \/ ToggleSkill(s)
      PROVE  ReuseInv'
  BY <1>2, SubmitStep, ToggleStep
<1>3. ASSUME UNCHANGED <<skill, overtaken, matrix>> PROVE ReuseInv'
  BY <1>3, SkillsStay DEF ReuseInv, ReuseTypeOK, RowsFinal, TicksHeld
<1>4. ASSUME BeginMatrix \/ (\E q \in {"columns", "count"} : ReadFirst(q)) \/ ReadRows \/ ReadLinks
      PROVE  ReuseInv'
  BY <1>4, FirstStep, RowsStep, LinksStep
<1> QED
  BY <1>1, <1>2, <1>3, <1>4 DEF ReuseNext, reuseVars, RejectLooks, ChangeCoworker

\* Skills, versions and the matrix keep their types, and an active version stays approved unless a
\* reject overtakes its approval.
THEOREM ReuseInvInvariant == ReuseSpec => []ReuseInv
<1> QED BY ReuseInitial, ReuseStep, PTL DEF ReuseSpec

\* getMatrix (CoworkerReuseMatrixService) agrees with the coworker's page and the skill's detail in
\* every state, and shows the links its rows had though it reads them in a later statement.
THEOREM MatrixAgreesAlways == ReuseSpec => []MatrixAgrees
<1>1. ReuseInv => MatrixAgrees
  BY ReadingsAgreeTyped DEF ReuseInv, RowsFinal, MatrixAgrees
<1> QED BY <1>1, ReuseInvInvariant, PTL
=============================================================================
