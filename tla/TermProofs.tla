----------------------------- MODULE TermProofs -----------------------------
(***************************************************************************)
(* Proofs about HubTerms, for any transactions, services, tables and terms *)
(* and any number of saves and forms under way: the tables hold terms, and *)
(* the newest history shows what is attached.  What a transaction has read *)
(* is behind a row that it has locked, or is the id of a row that nobody   *)
(* else can name yet; so whatever another commits, it still stands when    *)
(* the transaction's own turn comes (HubInv).  No order of the locks is    *)
(* needed for this: a transaction that deadlocks is rolled back.           *)
(***************************************************************************)
EXTENDS HubTerms, FiniteSetTheorems, TLAPS

(***************************************************************************)
(* The invariant                                                           *)
(***************************************************************************)
TxFields == {"pc", "svc", "logical", "body", "mapped", "affected", "asked", "write", "hist", "made", "gone",
             "want", "held"}
\* What a transaction sees under its own writes, and shows of a logical term.
Sees(r)   == [p \in Terms |-> IF p \in DOMAIN r.write THEN r.write[p] ELSE term[p]]
Shows(r, l) == {<<p, Sees(r)[p].table>> : p \in {q \in Terms : Sees(r)[q].live /\ Sees(r)[q].logical = l}}
Differs(v, w) == <<v.live, v.logical, v.table>> # <<w.live, w.logical, w.table>>
\* A logical term whose history is the transaction's to write.
Claims(r, l) == Row("logical", l) \in r.held \/ (l = r.logical /\ ~Exists(l))

\* Types; nothing is written, and no table made, before its step.
TxTyped(r) ==
    /\ DOMAIN r = TxFields /\ r.pc \in PCs /\ (r.pc = "idle" => r = Idle)
    /\ r.svc \in Services \cup {Nobody} /\ r.logical \in Logicals \cup {Nobody}
    /\ r.body \subseteq Tables /\ r.made \subseteq Tables /\ r.affected \subseteq Logicals
    /\ DOMAIN r.write \subseteq Terms /\ (\A p \in DOMAIN r.write : r.write[p] \in Rec)
    /\ DOMAIN r.hist \subseteq Logicals
    /\ r.pc # "record" => DOMAIN r.write = {} /\ DOMAIN r.hist = {} /\ r.gone = {}
    /\ r.svc # Nobody => r.logical = Nobody
    /\ r.made \subseteq r.body
    /\ \A x \in r.want : x[2] \in Nat
    /\ r.svc = Nobody \/ r.pc \in {"service", "tables"} => r.made = {}
    /\ \A l : Row("logical", l) \in r.want \cup r.held => l \in Logicals /\ Exists(l)

\* A save waits for the rows that it has read, and what is behind a row that it holds still stands:
\* its service's terms and tables, the tables in the body, the logical terms it has looked up.
SaveFits(r) ==
    /\ r.pc \in {"service", "tables", "terms"} => r.svc # Nobody
    /\ r.pc = "service" => Row("service", r.svc) \in r.want
    /\ r.svc # Nobody /\ r.pc # "service" => Row("service", r.svc) \in r.held
    /\ r.pc = "tables" => Rows("table", TablesOf(r.svc) \cup r.body) \subseteq r.want
    /\ r.svc # Nobody /\ r.pc \in {"logicals", "terms", "record"} =>
          /\ Rows("table", TablesOf(r.svc) \cup (r.body \ r.made)) \subseteq r.held
          /\ \A tb \in r.body \ r.made : table[tb] = "live"
          /\ \A tb \in r.made : table[tb] = "unused"
    /\ r.svc # Nobody /\ r.pc \in {"logicals", "terms"} =>
          \A l \in r.asked \cup r.affected : l \in Logicals /\ Exists(l)
    /\ r.pc = "terms" => Rows("term", Own(r.svc)) \subseteq r.want

\* The form's logical term does not exist yet, or is locked.
FormFits(r) ==
    /\ r.pc \in {"new", "asked"} => r.svc = Nobody
    /\ r.svc = Nobody /\ r.pc \in {"new", "logicals", "asked", "record"} => r.logical \in Logicals
    /\ r.pc = "new" => ~Exists(r.logical) /\ Rows("term", r.asked) \subseteq r.want
    /\ r.svc = Nobody /\ r.pc = "logicals" => Row("logical", r.logical) \in r.want
    /\ r.pc = "asked" =>
          /\ Row("logical", r.logical) \in r.held
          /\ Rows("term", r.asked \cup {p \in Terms : term[p].logical = r.logical}) \subseteq r.want

\* A written row is its writer's, locked or new; a form only points it elsewhere, a save keeps it in
\* the service; and the logical terms on both sides are recorded, or will be.
RowFits(r, p) ==
    /\ term[p].svc # Nobody => Row("term", p) \in r.held /\ r.write[p].svc = term[p].svc
    /\ r.svc = Nobody => /\ term[p].svc # Nobody
                         /\ r.write[p].table = term[p].table /\ r.write[p].live = term[p].live
    /\ r.svc # Nobody => /\ r.write[p].svc = r.svc /\ (term[p].svc # Nobody => term[p].live)
                         /\ (r.write[p].live => r.write[p].table \in r.body)
    /\ r.write[p].logical # Nobody => Exists(r.write[p].logical) \/ r.write[p].logical = r.logical
    /\ Differs(r.write[p], term[p]) =>
          {term[p].logical, r.write[p].logical} \ {Nobody} \subseteq r.affected \cup DOMAIN r.hist

\* What has been written: every history entry shows what its transaction sees, and every table that
\* the save leaves alone, makes or keeps has its terms.
WriteFits(r) ==
    /\ \A p \in DOMAIN r.write : RowFits(r, p)
    /\ \A l \in r.affected : Exists(l) \/ (r.affected = {l} /\ l = r.logical)
    /\ r.affected # {} => LET l == Min(r.affected)
                          IN  Row("logical", l) \in r.want \cup r.held \/ (l = r.logical /\ ~Exists(l))
    /\ \A l \in DOMAIN r.hist :
          Claims(r, l) /\ r.hist[l].version \in Nat \ {0} /\ r.hist[l].terms = Shows(r, l)
    /\ r.gone = {tb \in TablesOf(r.svc) \ r.body : LiveIn(Sees(r), tb) = {}}
    /\ r.svc # Nobody => \A tb \in r.body : \E p \in DOMAIN r.write : r.write[p].live /\ r.write[p].table = tb
    /\ r.svc = Nobody => r.logical \in r.affected \cup DOMAIN r.hist

TxFits(r) == TxTyped(r) /\ SaveFits(r) /\ FormFits(r) /\ (r.pc = "record" => WriteFits(r))

\* Two transactions have no row, new table, written term or new logical term in common.
Aside(r, q) ==
    /\ r.made \cap q.made = {} /\ (DOMAIN r.write) \cap (DOMAIN q.write) = {}
    /\ r.logical = q.logical /\ r.logical # Nobody => Exists(r.logical)
TwoFit(r, q) == r.held \cap q.held = {} /\ Aside(r, q)

\* The committed rows.
HubRows ==
    /\ term \in [Terms -> Rec]
    /\ \A p \in Terms : /\ term[p].svc = Nobody => term[p] = NoTerm
                        /\ term[p].live => term[p].table \in Tables
                        /\ term[p].logical # Nobody => Exists(term[p].logical)
    /\ table \in [Tables -> {"unused", "live", "deleted"}]
    /\ DOMAIN logical = Logicals /\ \A l \in Logicals : logical[l].version \in Nat
    /\ DOMAIN tx = Txs

HubInv == /\ HubRows /\ TablesHoldTerms /\ HistoryMatches
          /\ \A t \in Txs : TxFits(tx[t])
          /\ \A t \in Txs : \A u \in Txs \ {t} : TwoFit(tx[t], tx[u])

(***************************************************************************)
(* One transaction goes on                                                 *)
(***************************************************************************)
\* A transaction's record fits as long as the rows it speaks of stay.
LEMMA FitsStays ==
    ASSUME NEW r, TxFits(r), UNCHANGED <<term, table, logical>> PROVE TxFits(r)'
<1>1. Sees(r)' = Sees(r) /\ \A l : Shows(r, l)' = Shows(r, l)
  BY DEF Sees, Shows
<1>2. \A s : Own(s)' = Own(s)
  BY DEF Own
<1>3. \A s : TablesOf(s)' = TablesOf(s)
  BY <1>2 DEF TablesOf
<1>4. \A l : Exists(l)' <=> Exists(l)
  BY DEF Exists
<1>5. TxTyped(r)'
  BY <1>4 DEF TxFits, TxTyped
<1>6. SaveFits(r)'
  BY <1>2, <1>3, <1>4 DEF TxFits, SaveFits
<1>7. FormFits(r)'
  BY <1>4 DEF TxFits, FormFits
<1>8. ASSUME r.pc = "record" PROVE WriteFits(r)'
  <2>1. WriteFits(r)
    BY <1>8 DEF TxFits
  <2>2. \A p \in DOMAIN r.write : RowFits(r, p)'
    BY <2>1, <1>4 DEF WriteFits, RowFits, Differs
  <2>3. \A l : Claims(r, l)' <=> Claims(r, l)
    BY <1>4 DEF Claims
  <2>4. r.gone = {tb \in TablesOf(r.svc) \ r.body : LiveIn(Sees(r), tb) = {}}
    BY <2>1 DEF WriteFits
  <2>5. r.gone = {tb \in TablesOf(r.svc)' \ r.body : LiveIn(Sees(r)', tb) = {}}
    BY <2>4, <1>1, <1>3
  <2> QED BY <2>1, <2>2, <2>3, <2>5, <1>1, <1>4 DEF WriteFits
<1> QED BY <1>5, <1>6, <1>7, <1>8 DEF TxFits

LEMMA PairStays ==
    ASSUME NEW r, NEW q, TwoFit(r, q), UNCHANGED logical PROVE TwoFit(r, q)'
BY DEF TwoFit, Aside, Exists

\* One transaction goes on, and writes no row.
LEMMA TxStep ==
    ASSUME HubInv, NEW t \in Txs, NEW g, tx' = [tx EXCEPT ![t] = g], UNCHANGED <<term, table, logical>>,
           TxFits(g), \A u \in Txs \ {t} : TwoFit(g, tx[u])
    PROVE  HubInv'
<1>1. DOMAIN tx' = Txs /\ tx'[t] = g /\ \A u \in Txs \ {t} : tx'[u] = tx[u]
  BY DEF HubInv, HubRows
<1>2. HubRows'
  <2>1. \A l : Exists(l)' <=> Exists(l)
    BY DEF Exists
  <2> QED BY <1>1, <2>1 DEF HubInv, HubRows
<1>3. TablesHoldTerms' /\ HistoryMatches'
  BY DEF HubInv, TablesHoldTerms, HistoryMatches, Exists, Attached, LiveIn
<1>4. ASSUME NEW u \in Txs PROVE TxFits(tx[u])'
  <2>1. PICK r : r = tx'[u]
    OBVIOUS
  <2>2. TxFits(r)
    BY <2>1, <1>1 DEF HubInv
  <2>3. TxFits(r)'
    BY <2>2, FitsStays
  <2> QED BY <2>1, <2>3
<1>5. ASSUME NEW u \in Txs, NEW w \in Txs \ {u} PROVE TwoFit(tx[u], tx[w])'
  <2>1. PICK r : r = tx'[u]
    OBVIOUS
  <2>2. PICK q : q = tx'[w]
    OBVIOUS
  <2>3. TwoFit(r, q)
    BY <2>1, <2>2, <1>1 DEF HubInv, TwoFit, Aside
  <2>4. TwoFit(r, q)'
    BY <2>3, PairStays
  <2> QED BY <2>1, <2>2, <2>4
<1> QED BY <1>2, <1>3, <1>4, <1>5 DEF HubInv

LEMMA IdleFits ==
    /\ TxFits(Idle)
    /\ \A q : TwoFit(Idle, q)
<1>1. TxFits(Idle)
  <2>1. TxTyped(Idle)
    BY DEF TxTyped, Idle, TxFields, PCs, Row
  <2>2. SaveFits(Idle)
    BY DEF SaveFits, Idle
  <2>3. FormFits(Idle)
    BY DEF FormFits, Idle
  <2> QED BY <2>1, <2>2, <2>3 DEF TxFits, Idle
<1>2. \A q : TwoFit(Idle, q)
  BY DEF TwoFit, Aside, Idle
<1> QED BY <1>1, <1>2

\* Everything is rolled back.
LEMMA RefuseKeeps ==
    ASSUME HubInv, NEW t \in Txs, Refuse(t), UNCHANGED <<term, table, logical>> PROVE HubInv'
BY IdleFits, TxStep DEF Refuse

\* The transaction's record goes on with a statement that locks these rows.
Onward(t, g, rec, changed, rows) ==
    /\ DOMAIN g = TxFields /\ g.want = rows
    /\ tx[t].held \subseteq g.held /\ g.held \subseteq tx[t].held \cup rows
    /\ \A c \in changed : g[c] = rec[c]
    /\ \A c \in TxFields \ ({"want", "held"} \cup changed) : g[c] = tx[t][c]

LEMMA GoesOn ==
    ASSUME HubInv, NEW t \in Txs, NEW rec, NEW rows, NEW changed, Begin(t, rec, rows),
           UNCHANGED <<term, table, logical>>,
           DOMAIN rec = TxFields, \A c \in TxFields \ changed : rec[c] = tx[t][c],
           changed \subseteq TxFields \ {"want", "held"}, \A x \in rows : x[2] \in Nat,
           \A u \in Txs \ {t} : Aside(rec, tx[u]),
           \A g : Onward(t, g, rec, changed, rows) => TxFits(g)
    PROVE  HubInv'
<1>1. PICK g : g = [rec EXCEPT !.want = rows, !.held = @ \cup Grabbed(t, rows)]
  OBVIOUS
<1>2. /\ DOMAIN g = TxFields /\ g.want = rows /\ g.held = tx[t].held \cup Grabbed(t, rows)
      /\ \A c \in TxFields \ {"want", "held"} : g[c] = rec[c]
  BY <1>1 DEF TxFields
<1>3. Grabbed(t, rows) \subseteq rows /\ Grabbed(t, rows) \cap Others(t) = {}
  BY DEF Grabbed
<1>4. TxFits(g)
  BY <1>2, <1>3 DEF Onward
<1>5. g.made = rec.made /\ g.write = rec.write /\ g.logical = rec.logical
  BY <1>2 DEF TxFields
<1>6. ASSUME NEW u \in Txs \ {t} PROVE TwoFit(g, tx[u])
  <2>1. tx[u].held \subseteq Others(t)
    BY DEF Others
  <2>2. tx[t].held \cap tx[u].held = {}
    BY DEF HubInv, TwoFit
  <2>3. g.held \cap tx[u].held = {}
    BY <1>2, <1>3, <2>1, <2>2
  <2> QED BY <1>5, <2>3 DEF TwoFit, Aside
<1>7. tx' = [tx EXCEPT ![t] = g]
  BY <1>1 DEF Begin
<1> QED BY <1>4, <1>6, <1>7, TxStep

LEMMA StaysAside ==
    ASSUME HubInv, NEW t \in Txs, NEW rec,
           rec.made = tx[t].made, rec.write = tx[t].write, rec.logical = tx[t].logical
    PROVE  \A u \in Txs \ {t} : Aside(rec, tx[u])
BY DEF HubInv, TwoFit, Aside

LEMMA OwnTables == ASSUME HubInv, NEW s PROVE TablesOf(s) \subseteq Tables /\ Own(s) \subseteq Terms
BY DEF HubInv, HubRows, TablesOf, Own

LEMMA SaveTablesKeeps == ASSUME HubInv, NEW t \in Txs, SaveTables(t) PROVE HubInv'
<1>1. PICK body \in Bodies :
         Begin(t, [tx[t] EXCEPT !.pc = "tables", !.body = body], Rows("table", TablesOf(tx[t].svc) \cup body))
  BY DEF SaveTables
<1>2. PICK rec : rec = [tx[t] EXCEPT !.pc = "tables", !.body = body]
  OBVIOUS
<1>3. PICK rows : rows = Rows("table", TablesOf(tx[t].svc) \cup body)
  OBVIOUS
<1>4. PICK changed : changed = {"pc", "body"}
  OBVIOUS
<1>5. TxFits(tx[t]) /\ tx[t].pc = "service" /\ tx[t].want \subseteq tx[t].held
  BY DEF SaveTables, At, Done, HubInv
<1>6. /\ DOMAIN rec = TxFields /\ rec.pc = "tables" /\ rec.body = body
      /\ \A c \in TxFields \ changed : rec[c] = tx[t][c]
      /\ changed \subseteq TxFields \ {"want", "held"}
  BY <1>2, <1>4, <1>5 DEF TxFits, TxTyped, TxFields
<1>7. body \subseteq Tables /\ \A x \in rows : x[2] \in Nat /\ \A l : x # Row("logical", l)
  BY <1>3, OwnTables, IdsAssumption DEF Rows, Row, Bodies, UpTo
<1>8. ASSUME NEW g, Onward(t, g, rec, changed, rows) PROVE TxFits(g)
  <2>1. /\ DOMAIN g = TxFields /\ g.want = rows /\ tx[t].held \subseteq g.held
        /\ g.held \subseteq tx[t].held \cup rows /\ g.pc = "tables" /\ g.body = body
        /\ g.svc = tx[t].svc /\ g.logical = tx[t].logical /\ g.affected = tx[t].affected
        /\ g.asked = tx[t].asked /\ g.write = tx[t].write /\ g.hist = tx[t].hist
        /\ g.made = tx[t].made /\ g.gone = tx[t].gone
    BY <1>4, <1>6, <1>8 DEF Onward, TxFields
  <2>2. TxTyped(g)
    BY <2>1, <1>5, <1>7 DEF TxFits, TxTyped, PCs
  <2>3. SaveFits(g)
    BY <2>1, <1>3, <1>5 DEF TxFits, SaveFits
  <2>4. FormFits(g)
    BY <2>1, <1>5 DEF TxFits, SaveFits, FormFits
  <2> QED BY <2>1, <2>2, <2>3, <2>4 DEF TxFits
<1>9. Begin(t, rec, rows) /\ UNCHANGED <<term, table, logical>>
  BY <1>1, <1>2, <1>3 DEF SaveTables
<1>10. \A u \in Txs \ {t} : Aside(rec, tx[u])
  BY <1>4, <1>6, StaysAside DEF TxFields
<1> QED BY <1>6, <1>7, <1>8, <1>9, <1>10, GoesOn

LEMMA SaveTermsKeeps == ASSUME HubInv, NEW t \in Txs, SaveTerms(t) PROVE HubInv'
<1>1. Begin(t, [tx[t] EXCEPT !.pc = "terms"], Rows("term", Own(tx[t].svc))) /\ tx[t].svc # Nobody
  BY DEF SaveTerms
<1>2. PICK rec : rec = [tx[t] EXCEPT !.pc = "terms"]
  OBVIOUS
<1>3. PICK rows : rows = Rows("term", Own(tx[t].svc))
  OBVIOUS
<1>4. PICK changed : changed = {"pc"}
  OBVIOUS
<1>5. TxFits(tx[t]) /\ tx[t].pc = "logicals" /\ tx[t].want \subseteq tx[t].held
  BY DEF SaveTerms, At, Done, HubInv
<1>6. /\ DOMAIN rec = TxFields /\ rec.pc = "terms"
      /\ \A c \in TxFields \ changed : rec[c] = tx[t][c]
      /\ changed \subseteq TxFields \ {"want", "held"}
  BY <1>2, <1>4, <1>5 DEF TxFits, TxTyped, TxFields
<1>7. \A x \in rows : x[2] \in Nat /\ \A l : x # Row("logical", l)
  BY <1>3, OwnTables, IdsAssumption DEF Rows, Row
<1>8. ASSUME NEW g, Onward(t, g, rec, changed, rows) PROVE TxFits(g)
  <2>1. /\ DOMAIN g = TxFields /\ g.want = rows /\ tx[t].held \subseteq g.held
        /\ g.held \subseteq tx[t].held \cup rows /\ g.pc = "terms" /\ g.body = tx[t].body
        /\ g.svc = tx[t].svc /\ g.logical = tx[t].logical /\ g.affected = tx[t].affected
        /\ g.asked = tx[t].asked /\ g.write = tx[t].write /\ g.hist = tx[t].hist
        /\ g.made = tx[t].made /\ g.gone = tx[t].gone
    BY <1>4, <1>6, <1>8 DEF Onward, TxFields
  <2>2. TxTyped(g)
    BY <2>1, <1>1, <1>5, <1>7 DEF TxFits, TxTyped, PCs
  <2>3. SaveFits(g)
    BY <2>1, <1>1, <1>3, <1>5 DEF TxFits, SaveFits
  <2>4. FormFits(g)
    BY <2>1, <1>1, <1>5 DEF TxFits, FormFits
  <2> QED BY <2>1, <2>2, <2>3, <2>4 DEF TxFits
<1>9. Begin(t, rec, rows) /\ UNCHANGED <<term, table, logical>>
  BY <1>1, <1>2, <1>3 DEF SaveTerms
<1>10. \A u \in Txs \ {t} : Aside(rec, tx[u])
  BY <1>4, <1>6, StaysAside DEF TxFields
<1> QED BY <1>6, <1>7, <1>8, <1>9, <1>10, GoesOn

LEMMA EditTermsKeeps == ASSUME HubInv, NEW t \in Txs, EditTerms(t) PROVE HubInv'
<1>1. PICK asked \in SUBSET {p \in Terms : term[p].svc # Nobody} :
         Begin(t, [tx[t] EXCEPT !.pc = "asked", !.asked = asked],
               Rows("term", asked \cup {p \in Terms : term[p].logical = tx[t].logical}))
  BY DEF EditTerms
<1>2. PICK rec : rec = [tx[t] EXCEPT !.pc = "asked", !.asked = asked]
  OBVIOUS
<1>3. PICK rows : rows = Rows("term", asked \cup {p \in Terms : term[p].logical = tx[t].logical})
  OBVIOUS
<1>4. PICK changed : changed = {"pc", "asked"}
  OBVIOUS
<1>5. /\ TxFits(tx[t]) /\ tx[t].pc = "logicals" /\ tx[t].svc = Nobody
      /\ tx[t].want \subseteq tx[t].held
  BY DEF EditTerms, At, Done, HubInv
<1>6. /\ DOMAIN rec = TxFields /\ rec.pc = "asked" /\ rec.asked = asked
      /\ \A c \in TxFields \ changed : rec[c] = tx[t][c]
      /\ changed \subseteq TxFields \ {"want", "held"}
  BY <1>2, <1>4, <1>5 DEF TxFits, TxTyped, TxFields
<1>7. \A x \in rows : x[2] \in Nat /\ \A l : x # Row("logical", l)
  BY <1>3, IdsAssumption DEF Rows, Row
<1>8. ASSUME NEW g, Onward(t, g, rec, changed, rows) PROVE TxFits(g)
  <2>1. /\ DOMAIN g = TxFields /\ g.want = rows /\ tx[t].held \subseteq g.held
        /\ g.held \subseteq tx[t].held \cup rows /\ g.pc = "asked" /\ g.body = tx[t].body
        /\ g.svc = tx[t].svc /\ g.logical = tx[t].logical /\ g.affected = tx[t].affected
        /\ g.asked = asked /\ g.write = tx[t].write /\ g.hist = tx[t].hist
        /\ g.made = tx[t].made /\ g.gone = tx[t].gone
    BY <1>4, <1>6, <1>8 DEF Onward, TxFields
  <2>2. TxTyped(g)
    BY <2>1, <1>5, <1>7 DEF TxFits, TxTyped, PCs
  <2>3. SaveFits(g)
    BY <2>1, <1>5 DEF SaveFits
  <2>4. FormFits(g)
    BY <2>1, <1>3, <1>5 DEF TxFits, FormFits
  <2> QED BY <2>1, <2>2, <2>3, <2>4 DEF TxFits
<1>9. Begin(t, rec, rows) /\ UNCHANGED <<term, table, logical>>
  BY <1>1, <1>2, <1>3 DEF EditTerms
<1>10. \A u \in Txs \ {t} : Aside(rec, tx[u])
  BY <1>4, <1>6, StaysAside DEF TxFields
<1> QED BY <1>6, <1>7, <1>8, <1>9, <1>10, GoesOn

LEMMA ResumeKeeps == ASSUME HubInv, NEW t \in Txs, Resume(t) PROVE HubInv'
<1>1. PICK rec : rec = tx[t]
  OBVIOUS
<1>2. PICK rows : rows = rec.want
  OBVIOUS
<1>3. PICK changed : changed = {}
  OBVIOUS
<1>4. TxFits(rec)
  BY <1>1 DEF HubInv
<1>5. /\ DOMAIN rec = TxFields /\ \A c \in TxFields \ changed : rec[c] = tx[t][c]
      /\ changed \subseteq TxFields \ {"want", "held"} /\ \A x \in rows : x[2] \in Nat
  BY <1>1, <1>2, <1>3, <1>4 DEF TxFits, TxTyped
<1>6. ASSUME NEW g, Onward(t, g, rec, changed, rows) PROVE TxFits(g)
  <2>1. /\ DOMAIN g = TxFields /\ g.want = rec.want /\ rec.held \subseteq g.held
        /\ g.held \subseteq rec.held \cup rec.want /\ g.pc = rec.pc /\ g.body = rec.body
        /\ g.svc = rec.svc /\ g.logical = rec.logical /\ g.affected = rec.affected
        /\ g.asked = rec.asked /\ g.write = rec.write /\ g.hist = rec.hist
        /\ g.made = rec.made /\ g.gone = rec.gone /\ g.mapped = rec.mapped
    BY <1>1, <1>2, <1>3, <1>6 DEF Onward, TxFields
  <2>2. TxTyped(g)
    <3>1. rec.pc # "idle"
      BY <1>1, <1>4 DEF Resume, Done, Idle, TxFits, TxTyped
    <3> QED BY <2>1, <3>1, <1>4 DEF TxFits, TxTyped
  <2>3. SaveFits(g)
    BY <2>1, <1>4 DEF TxFits, SaveFits
  <2>4. FormFits(g)
    BY <2>1, <1>4 DEF TxFits, FormFits
  <2>5. ASSUME g.pc = "record" PROVE WriteFits(g)
    <3>1. WriteFits(rec)
      BY <2>1, <2>5, <1>4 DEF TxFits
    <3>2. \A p \in DOMAIN g.write : RowFits(g, p)
      BY <2>1, <3>1 DEF WriteFits, RowFits
    <3>3. Sees(g) = Sees(rec) /\ \A l : Shows(g, l) = Shows(rec, l)
      BY <2>1 DEF Sees, Shows
    <3>4. \A l : Claims(rec, l) => Claims(g, l)
      BY <2>1 DEF Claims
    <3>5. g.gone = {tb \in TablesOf(g.svc) \ g.body : LiveIn(Sees(g), tb) = {}}
      BY <2>1, <3>1, <3>3 DEF WriteFits
    <3> QED BY <2>1, <3>1, <3>2, <3>3, <3>4, <3>5 DEF WriteFits
  <2> QED BY <2>2, <2>3, <2>4, <2>5 DEF TxFits
<1>7. Begin(t, rec, rows) /\ UNCHANGED <<term, table, logical>>
  BY <1>1, <1>2 DEF Resume
<1>8. \A u \in Txs \ {t} : Aside(rec, tx[u])
  BY <1>1, StaysAside
<1> QED BY <1>5, <1>6, <1>7, <1>8, GoesOn

LEMMA IdleIsIdle == ASSUME HubInv, NEW t \in Txs, tx[t].pc = "idle" PROVE tx[t] = Idle
BY DEF HubInv, TxFits, TxTyped

LEMMA SaveServiceKeeps ==
    ASSUME HubInv, NEW t \in Txs, NEW s \in Services, SaveService(t, s) PROVE HubInv'
<1>1. PICK rec : rec = [Idle EXCEPT !.pc = "service", !.svc = s]
  OBVIOUS
<1>2. PICK rows : rows = {Row("service", s)}
  OBVIOUS
<1>3. PICK changed : changed = {"pc", "svc"}
  OBVIOUS
<1>4. tx[t] = Idle /\ s \in Nat /\ s # Nobody
  BY IdleIsIdle, IdsAssumption DEF SaveService, Start
<1>5. /\ DOMAIN rec = TxFields /\ rec.pc = "service" /\ rec.svc = s
      /\ \A c \in TxFields \ changed : rec[c] = tx[t][c]
      /\ changed \subseteq TxFields \ {"want", "held"}
  BY <1>1, <1>3, <1>4 DEF Idle, TxFields
<1>6. \A x \in rows : x[2] \in Nat /\ \A l : x # Row("logical", l)
  BY <1>2, <1>4 DEF Row
<1>7. ASSUME NEW g, Onward(t, g, rec, changed, rows) PROVE TxFits(g)
  <2>1. /\ DOMAIN g = TxFields /\ g.want = rows /\ g.held \subseteq rows /\ g.pc = "service"
        /\ g.body = {} /\ g.svc = s /\ g.logical = Nobody /\ g.affected = {}
        /\ g.asked = {} /\ g.write = <<>> /\ g.hist = <<>> /\ g.made = {} /\ g.gone = {}
    BY <1>3, <1>4, <1>5, <1>7 DEF Onward, TxFields, Idle
  <2>2. TxTyped(g)
    BY <2>1, <1>4, <1>6 DEF TxTyped, PCs
  <2>3. SaveFits(g)
    BY <2>1, <1>2, <1>4 DEF SaveFits
  <2>4. FormFits(g)
    BY <2>1, <1>4 DEF FormFits
  <2> QED BY <2>1, <2>2, <2>3, <2>4 DEF TxFits
<1>8. Begin(t, rec, rows) /\ UNCHANGED <<term, table, logical>>
  BY <1>1, <1>2 DEF SaveService
<1>9. \A u \in Txs \ {t} : Aside(rec, tx[u])
  BY <1>3, <1>5, StaysAside DEF TxFields
<1> QED BY <1>5, <1>6, <1>7, <1>8, <1>9, GoesOn

LEMMA EditLogicalKeeps ==
    ASSUME HubInv, NEW t \in Txs, NEW l \in Logicals, EditLogical(t, l) PROVE HubInv'
<1>1. PICK rec : rec = [Idle EXCEPT !.pc = "logicals", !.logical = l]
  OBVIOUS
<1>2. PICK rows : rows = {Row("logical", l)}
  OBVIOUS
<1>3. PICK changed : changed = {"pc", "logical"}
  OBVIOUS
<1>4. tx[t] = Idle /\ l \in Nat /\ Exists(l)
  BY IdleIsIdle, IdsAssumption DEF EditLogical, Start
<1>5. /\ DOMAIN rec = TxFields /\ rec.pc = "logicals" /\ rec.logical = l
      /\ \A c \in TxFields \ changed : rec[c] = tx[t][c]
      /\ changed \subseteq TxFields \ {"want", "held"}
  BY <1>1, <1>3, <1>4 DEF Idle, TxFields
<1>6. \A x \in rows : x[2] \in Nat
  BY <1>2, <1>4 DEF Row
<1>7. ASSUME NEW g, Onward(t, g, rec, changed, rows) PROVE TxFits(g)
  <2>1. /\ DOMAIN g = TxFields /\ g.want = rows /\ g.held \subseteq rows /\ g.pc = "logicals"
        /\ g.body = {} /\ g.svc = Nobody /\ g.logical = l /\ g.affected = {}
        /\ g.asked = {} /\ g.write = <<>> /\ g.hist = <<>> /\ g.made = {} /\ g.gone = {}
    BY <1>3, <1>4, <1>5, <1>7 DEF Onward, TxFields, Idle
  <2>2. TxTyped(g)
    BY <2>1, <1>2, <1>4, <1>6 DEF TxTyped, PCs, Row
  <2>3. SaveFits(g)
    BY <2>1, <1>4 DEF SaveFits
  <2>4. FormFits(g)
    BY <2>1, <1>2, <1>4 DEF FormFits
  <2> QED BY <2>1, <2>2, <2>3, <2>4 DEF TxFits
<1>8. Begin(t, rec, rows) /\ UNCHANGED <<term, table, logical>>
  BY <1>1, <1>2 DEF EditLogical
<1>9. \A u \in Txs \ {t} : Aside(rec, tx[u])
  BY <1>3, <1>4, <1>5 DEF TxFields, Aside, Idle
<1> QED BY <1>5, <1>6, <1>7, <1>8, <1>9, GoesOn

LEMMA CreateLogicalKeeps ==
    ASSUME HubInv, NEW t \in Txs, NEW l \in Logicals, CreateLogical(t, l) PROVE HubInv'
<1>1. PICK asked \in SUBSET Visible :
         Begin(t, [Idle EXCEPT !.pc = "new", !.logical = l, !.asked = asked], Rows("term", asked))
  BY DEF CreateLogical
<1>2. PICK rec : rec = [Idle EXCEPT !.pc = "new", !.logical = l, !.asked = asked]
  OBVIOUS
<1>3. PICK rows : rows = Rows("term", asked)
  OBVIOUS
<1>4. PICK changed : changed = {"pc", "logical", "asked"}
  OBVIOUS
<1>5. tx[t] = Idle /\ ~Exists(l) /\ \A u \in Txs : tx[u].logical # l
  BY IdleIsIdle DEF CreateLogical, Start
<1>6. /\ DOMAIN rec = TxFields /\ rec.pc = "new" /\ rec.logical = l /\ rec.asked = asked
      /\ \A c \in TxFields \ changed : rec[c] = tx[t][c]
      /\ changed \subseteq TxFields \ {"want", "held"}
  BY <1>2, <1>4, <1>5 DEF Idle, TxFields
<1>7. \A x \in rows : x[2] \in Nat /\ \A m : x # Row("logical", m)
  BY <1>3, IdsAssumption DEF Row, Rows, Visible
<1>8. ASSUME NEW g, Onward(t, g, rec, changed, rows) PROVE TxFits(g)
  <2>1. /\ DOMAIN g = TxFields /\ g.want = rows /\ g.held \subseteq rows /\ g.pc = "new"
        /\ g.body = {} /\ g.svc = Nobody /\ g.logical = l /\ g.affected = {}
        /\ g.asked = asked /\ g.write = <<>> /\ g.hist = <<>> /\ g.made = {} /\ g.gone = {}
    BY <1>4, <1>5, <1>6, <1>8 DEF Onward, TxFields, Idle
  <2>2. TxTyped(g)
    BY <2>1, <1>7 DEF TxTyped, PCs
  <2>3. SaveFits(g)
    BY <2>1 DEF SaveFits
  <2>4. FormFits(g)
    BY <2>1, <1>3, <1>5 DEF FormFits
  <2> QED BY <2>1, <2>2, <2>3, <2>4 DEF TxFits
<1>9. Begin(t, rec, rows) /\ UNCHANGED <<term, table, logical>>
  BY <1>1, <1>2, <1>3 DEF CreateLogical
<1>10. \A u \in Txs \ {t} : Aside(rec, tx[u])
  BY <1>4, <1>5, <1>6 DEF TxFields, Aside, Idle
<1> QED BY <1>6, <1>7, <1>8, <1>9, <1>10, GoesOn

\* Tables are made new; the logical terms behind the service's rows are those the body finds.
LEMMA SaveResolveKeeps == ASSUME HubInv, NEW t \in Txs, SaveResolve(t) PROVE HubInv'
<1>1. CASE \E tb \in tx[t].body : table[tb] # "live" \/ ~Usable(tx[t].svc, tb)
  BY <1>1, RefuseKeeps DEF SaveResolve
<1>2. CASE ~\E tb \in tx[t].body : table[tb] # "live" \/ ~Usable(tx[t].svc, tb)
  <2>1. PICK renamed \in SUBSET tx[t].body,
             made \in UpTo(NewTables, MaxRows - Cardinality(tx[t].body)),
             picked \in SUBSET {l \in Logicals : Exists(l)} :
           \E inRenamed, mapped :
              /\ inRenamed = {term[p].logical : p \in UNION {LiveIn(term, tb) : tb \in renamed}}
              /\ mapped = ({term[p].logical : p \in Own(tx[t].svc)} \cup inRenamed) \ {Nobody}
              /\ Begin(t, [tx[t] EXCEPT !.pc = "logicals", !.mapped = mapped,
                               !.affected = inRenamed \ {Nobody}, !.made = made,
                               !.asked = picked, !.body = @ \cup made],
                       Rows("logical", mapped \cup picked))
    BY <1>2 DEF SaveResolve
  <2>0. PICK inRenamed, mapped :
              /\ inRenamed = {term[p].logical : p \in UNION {LiveIn(term, tb) : tb \in renamed}}
              /\ mapped = ({term[p].logical : p \in Own(tx[t].svc)} \cup inRenamed) \ {Nobody}
              /\ Begin(t, [tx[t] EXCEPT !.pc = "logicals", !.mapped = mapped,
                               !.affected = inRenamed \ {Nobody}, !.made = made,
                               !.asked = picked, !.body = @ \cup made],
                       Rows("logical", mapped \cup picked))
    BY <2>1
  <2>2. PICK rec : rec = [tx[t] EXCEPT !.pc = "logicals", !.mapped = mapped,
                              !.affected = inRenamed \ {Nobody}, !.made = made,
                              !.asked = picked, !.body = @ \cup made]
    OBVIOUS
  <2>3. PICK rows : rows = Rows("logical", mapped \cup picked)
    OBVIOUS
  <2>4. PICK changed : changed = {"pc", "mapped", "affected", "made", "asked", "body"}
    OBVIOUS
  <2>5. TxFits(tx[t]) /\ tx[t].pc = "tables" /\ tx[t].want \subseteq tx[t].held
    BY DEF SaveResolve, At, Done, HubInv
  <2>6. /\ DOMAIN rec = TxFields /\ rec.pc = "logicals" /\ rec.affected = inRenamed \ {Nobody}
        /\ rec.made = made /\ rec.asked = picked /\ rec.body = tx[t].body \cup made
    BY <2>2, <2>5 DEF TxFits, TxTyped, TxFields
  <2>7. /\ \A c \in TxFields \ changed : rec[c] = tx[t][c]
        /\ changed \subseteq TxFields \ {"want", "held"}
    BY <2>2, <2>4, <2>5 DEF TxFits, TxTyped, TxFields
  <2>8. \A l \in (mapped \cup inRenamed) \ {Nobody} : l \in Logicals /\ Exists(l)
    <3>1. ASSUME NEW p \in Terms, term[p].logical # Nobody
          PROVE  term[p].logical \in Logicals /\ Exists(term[p].logical)
      BY <3>1 DEF HubInv, HubRows, Rec
    <3> QED BY <2>0, <3>1 DEF LiveIn, Own
  <2>9. \A l \in mapped \cup picked : l \in Logicals /\ Exists(l)
    <3>1. Nobody \notin mapped
      BY <2>0
    <3> QED BY <2>8, <3>1
  <2>10. /\ \A x \in rows : x[2] \in Nat
         /\ \A l : Row("logical", l) \in rows => l \in Logicals /\ Exists(l)
    BY <2>3, <2>9, IdsAssumption DEF Rows, Row
  <2>11. made \subseteq NewTables
    BY DEF UpTo
  <2>12. /\ made \subseteq Tables /\ \A tb \in made : table[tb] = "unused"
         /\ \A u \in Txs : made \cap tx[u].made = {}
    BY <2>11 DEF NewTables
  <2>13. ASSUME NEW g, Onward(t, g, rec, changed, rows) PROVE TxFits(g)
    <3>1. /\ DOMAIN g = TxFields /\ g.want = rows /\ tx[t].held \subseteq g.held
          /\ g.held \subseteq tx[t].held \cup rows /\ g.pc = "logicals"
          /\ g.body = tx[t].body \cup made /\ g.affected = inRenamed \ {Nobody}
          /\ g.asked = picked /\ g.made = made
      BY <2>4, <2>6, <2>13 DEF Onward
    <3>2. /\ g.svc = tx[t].svc /\ g.logical = tx[t].logical
          /\ g.write = tx[t].write /\ g.hist = tx[t].hist /\ g.gone = tx[t].gone
      BY <2>4, <2>13 DEF Onward, TxFields
    <3>3. tx[t].svc # Nobody
      BY <2>5 DEF TxFits, SaveFits
    <3>4. TxTyped(g)
      BY <3>1, <3>2, <3>3, <2>5, <2>8, <2>10, <2>12 DEF TxFits, TxTyped, PCs
    <3>5. SaveFits(g)
      <4>1. Rows("table", TablesOf(g.svc) \cup (g.body \ g.made)) \subseteq g.held
        BY <3>1, <3>2, <2>5 DEF TxFits, SaveFits, Rows
      <4> QED BY <4>1, <3>1, <3>2, <3>3, <2>5, <2>8, <2>12, <1>2 DEF TxFits, SaveFits
    <3>6. FormFits(g)
      BY <3>1, <3>2, <3>3 DEF FormFits
    <3> QED BY <3>1, <3>4, <3>5, <3>6 DEF TxFits
  <2>14. Begin(t, rec, rows) /\ UNCHANGED <<term, table, logical>>
    BY <2>0, <2>2, <2>3 DEF SaveResolve
  <2>15. \A u \in Txs \ {t} : Aside(rec, tx[u])
    <3>1. rec.write = tx[t].write /\ rec.logical = tx[t].logical
      BY <2>4, <2>7 DEF TxFields
    <3> QED BY <3>1, <2>6, <2>12 DEF HubInv, TwoFit, Aside
  <2> QED BY <2>6, <2>7, <2>10, <2>13, <2>14, <2>15, GoesOn
<1> QED BY <1>1, <1>2

LEMMA MinOfSome == ASSUME NEW S \in SUBSET Nat, S # {} PROVE Min(S) \in S
<1> DEFINE Less == {p \in Nat \X Nat : p[1] < p[2]}
<1>1. IsWellFoundedOn(Less, Nat)
  BY NatLessThanWellFounded, Zenon DEF OpToRel
<1>2. PICK x \in S : \A y \in S : ~(<<y, x>> \in Less)
  <2> HIDE DEF Less
  <2> QED BY <1>1, WFMin
<1>3. \A y \in S : x <= y
  <2> SUFFICES ASSUME NEW y \in S PROVE x <= y
    OBVIOUS
  <2>1. x \in Nat /\ y \in Nat
    OBVIOUS
  <2>2. y < x => <<y, x>> \in Less
    BY <2>1
  <2> QED BY <1>2, <2>1, <2>2
<1> QED BY <1>2, <1>3 DEF Min

\* A written row that is in the table is locked by its writer.
LEMMA OneWriter ==
    ASSUME HubInv, NEW t \in Txs, NEW u \in Txs \ {t}, NEW p \in Terms, term[p].svc # Nobody,
           Row("term", p) \in tx[t].held
    PROVE  p \notin DOMAIN tx[u].write
<1> SUFFICES ASSUME p \in DOMAIN tx[u].write PROVE FALSE
  OBVIOUS
<1>1. TxFits(tx[u]) /\ tx[t].held \cap tx[u].held = {}
  BY DEF HubInv, TwoFit
<1>2. tx[u].pc = "record"
  BY <1>1 DEF TxFits, TxTyped
<1>3. RowFits(tx[u], p)
  BY <1>1, <1>2 DEF TxFits, WriteFits
<1> QED BY <1>1, <1>3 DEF RowFits

LEMMA NobodysTables == ASSUME HubInv PROVE Own(Nobody) = {} /\ TablesOf(Nobody) = {}
BY DEF HubInv, HubRows, NoTerm, Own, TablesOf

\* The form's writing: rows that are its own and mappable, pointed at its logical term or nothing.
Attaches(t, rec, changed, rows, ps, others) ==
    /\ changed = {"pc", "affected", "write"} /\ rec.pc = "record" /\ rec.affected = {tx[t].logical}
    /\ rec.write = Pointed(tx[t].logical, ps, others) /\ ps \cup others \subseteq Terms
    /\ \A p \in ps \cup others : /\ term[p].svc # Nobody /\ Row("term", p) \in tx[t].held
                               /\ term[p].logical \in {Nobody, tx[t].logical}
    /\ \A x \in rows : x[2] \in Nat /\ \A l : x # Row("logical", l)
    /\ tx[t].pc \in {"new", "asked"}
    /\ tx[t].pc = "asked" => Row("logical", tx[t].logical) \in tx[t].held

LEMMA AttachesFits ==
    ASSUME HubInv, NEW t \in Txs, NEW rec, NEW rows, NEW changed, NEW g, NEW ps, NEW others,
           Attaches(t, rec, changed, rows, ps, others), Onward(t, g, rec, changed, rows)
    PROVE  TxFits(g)
<1>0. TxFits(tx[t])
  BY DEF HubInv
<1> USE <1>0 DEF Attaches
<1>1. /\ DOMAIN g = TxFields /\ g.want = rows /\ tx[t].held \subseteq g.held
      /\ g.held \subseteq tx[t].held \cup rows /\ g.pc = "record" /\ g.body = tx[t].body
      /\ g.svc = tx[t].svc /\ g.logical = tx[t].logical /\ g.affected = {tx[t].logical}
      /\ g.asked = tx[t].asked /\ g.write = rec.write /\ g.hist = tx[t].hist
      /\ g.made = tx[t].made /\ g.gone = tx[t].gone
  BY DEF Onward, TxFields
<1>2. /\ tx[t].svc = Nobody /\ tx[t].logical \in Logicals /\ tx[t].made = {} /\ tx[t].gone = {}
      /\ DOMAIN tx[t].hist = {} /\ tx[t].logical # Nobody /\ Nobody \notin Logicals
  BY IdsAssumption DEF TxFits, FormFits, TxTyped
<1>3. PICK l : l = tx[t].logical
  OBVIOUS
<1>4. ASSUME NEW p \in ps \cup others
      PROVE  /\ g.write[p] \in Rec /\ g.write[p].svc = term[p].svc /\ g.write[p].table = term[p].table
             /\ g.write[p].live = term[p].live /\ g.write[p].logical \in {l, Nobody}
  <2>1. PICK x \in {l, Nobody} : g.write[p] = [term[p] EXCEPT !.logical = x]
    BY <1>1, <1>3 DEF Pointed
  <2>2. term[p] \in Rec
    BY DEF HubInv, HubRows
  <2>3. x \in Logicals \cup {Nobody}
    BY <1>2, <1>3
  <2> QED BY <2>1, <2>2, <2>3 DEF Rec
<1>5. DOMAIN g.write = ps \cup others
  BY <1>1 DEF Pointed
<1>6. TxTyped(g)
  BY <1>1, <1>2, <1>4, <1>5 DEF TxFits, TxTyped, PCs
<1>7. SaveFits(g) /\ FormFits(g)
  BY <1>1, <1>2 DEF SaveFits, FormFits
<1>8. WriteFits(g)
  <2>1. ASSUME NEW p \in DOMAIN g.write PROVE RowFits(g, p)
    BY <1>1, <1>2, <1>3, <1>4, <1>5 DEF RowFits
  <2>2. \A m \in g.affected : Exists(m) \/ (g.affected = {m} /\ m = g.logical)
    BY <1>1
  <2>3. Min(g.affected) = l /\ (Row("logical", l) \in g.want \cup g.held \/ (l = g.logical /\ ~Exists(l)))
    <3>1. {l} \in SUBSET Nat /\ {l} # {}
      BY <1>2, <1>3, IdsAssumption
    <3>2. Min({l}) = l
      BY <3>1, MinOfSome
    <3>3. tx[t].pc = "new" => ~Exists(l)
      BY <1>3 DEF TxFits, FormFits
    <3> QED BY <3>2, <3>3, <1>1, <1>3
  <2>4. g.gone = {tb \in TablesOf(g.svc) \ g.body : LiveIn(Sees(g), tb) = {}}
    BY <1>1, <1>2, NobodysTables
  <2> QED BY <2>1, <2>2, <2>3, <2>4, <1>1, <1>2 DEF WriteFits
<1> QED BY <1>1, <1>6, <1>7, <1>8 DEF TxFits

LEMMA PointedAside ==
    ASSUME HubInv, NEW t \in Txs, NEW rec, NEW ps \in SUBSET Terms,
           rec.made = tx[t].made, rec.logical = tx[t].logical, DOMAIN rec.write = ps,
           \A p \in ps : term[p].svc # Nobody /\ Row("term", p) \in tx[t].held
    PROVE  \A u \in Txs \ {t} : Aside(rec, tx[u])
BY OneWriter DEF HubInv, TwoFit, Aside

LEMMA VisibleRows == ASSUME HubInv, NEW p \in Visible PROVE p \in Terms /\ term[p].svc # Nobody
BY DEF HubInv, HubRows, NoTerm, Visible

LEMMA CreateApplyKeeps == ASSUME HubInv, NEW t \in Txs, CreateApply(t) PROVE HubInv'
<1>1. CASE ~Mappable(t)
  BY <1>1, RefuseKeeps DEF CreateApply
<1>2. CASE Mappable(t)
  <2>1. PICK rec : rec = [tx[t] EXCEPT !.pc = "record", !.affected = {tx[t].logical},
                              !.write = Pointed(tx[t].logical, tx[t].asked, {})]
    OBVIOUS
  <2>2. PICK changed : changed = {"pc", "affected", "write"}
    OBVIOUS
  <2>3. PICK rows : rows = {}
    OBVIOUS
  <2>4. TxFits(tx[t]) /\ tx[t].pc = "new" /\ tx[t].want \subseteq tx[t].held
    BY DEF CreateApply, At, Done, HubInv
  <2>5. /\ DOMAIN rec = TxFields /\ rec.pc = "record" /\ rec.affected = {tx[t].logical}
        /\ rec.write = Pointed(tx[t].logical, tx[t].asked, {})
        /\ \A c \in TxFields \ changed : rec[c] = tx[t][c]
        /\ changed \subseteq TxFields \ {"want", "held"}
    BY <2>1, <2>2, <2>4 DEF TxFits, TxTyped, TxFields
  <2>6. ASSUME NEW p \in tx[t].asked
        PROVE  /\ p \in Terms /\ term[p].svc # Nobody /\ Row("term", p) \in tx[t].held
               /\ term[p].logical \in {Nobody, tx[t].logical}
    BY <1>2, <2>4, VisibleRows DEF Mappable, TxFits, FormFits, Rows
  <2>7. Begin(t, rec, rows) /\ UNCHANGED <<term, table, logical>>
    BY <1>2, <2>1, <2>3 DEF CreateApply
  <2>8. ASSUME NEW g, Onward(t, g, rec, changed, rows) PROVE TxFits(g)
    <3>1. PICK ps, others : ps = tx[t].asked /\ others = {}
      OBVIOUS
    <3>2. rec.write = Pointed(tx[t].logical, ps, others)
      BY <3>1, <2>5
    <3>3. \A x \in rows : x[2] \in Nat /\ \A l : x # Row("logical", l)
      BY <2>3
    <3>4. \A p \in ps \cup others :
             /\ p \in Terms /\ term[p].svc # Nobody /\ Row("term", p) \in tx[t].held
             /\ term[p].logical \in {Nobody, tx[t].logical}
      BY <3>1, <2>6
    <3>5. ps \cup others \subseteq Terms
      BY <3>4
    <3>6. tx[t].pc \in {"new", "asked"} /\ (tx[t].pc = "asked" => Row("logical", tx[t].logical) \in tx[t].held)
      BY <2>4
    <3>7. Attaches(t, rec, changed, rows, ps, others)
      BY <3>2, <3>3, <3>4, <3>5, <3>6, <2>2, <2>5 DEF Attaches
    <3> QED BY <3>7, <2>8, AttachesFits
  <2>9. \A u \in Txs \ {t} : Aside(rec, tx[u])
    <3>1. rec.made = tx[t].made /\ rec.logical = tx[t].logical /\ DOMAIN rec.write = tx[t].asked
      BY <2>2, <2>5 DEF TxFields, Pointed
    <3> QED BY <3>1, <2>6, PointedAside
  <2> QED BY <2>3, <2>5, <2>7, <2>8, <2>9, GoesOn
<1> QED BY <1>1, <1>2

LEMMA EditApplyKeeps == ASSUME HubInv, NEW t \in Txs, EditApply(t) PROVE HubInv'
<1>1. CASE ~Mappable(t)
  BY <1>1, RefuseKeeps DEF EditApply
<1>2. CASE Mappable(t)
  <2>0. PICK shown : shown = Attached(tx[t].logical) \cap Visible
    OBVIOUS
  <2>1. PICK rec : rec = [tx[t] EXCEPT !.pc = "record", !.affected = {tx[t].logical},
                              !.write = Pointed(tx[t].logical, tx[t].asked \ shown, shown \ tx[t].asked)]
    OBVIOUS
  <2>2. PICK changed : changed = {"pc", "affected", "write"}
    OBVIOUS
  <2>3. PICK rows : rows = Rows("term", shown)
    OBVIOUS
  <2>4. TxFits(tx[t]) /\ tx[t].pc = "asked" /\ tx[t].want \subseteq tx[t].held
    BY DEF EditApply, At, Done, HubInv
  <2>5. /\ DOMAIN rec = TxFields /\ rec.pc = "record" /\ rec.affected = {tx[t].logical}
        /\ rec.write = Pointed(tx[t].logical, tx[t].asked \ shown, shown \ tx[t].asked)
        /\ \A c \in TxFields \ changed : rec[c] = tx[t][c]
        /\ changed \subseteq TxFields \ {"want", "held"}
    BY <2>1, <2>2, <2>4 DEF TxFits, TxTyped, TxFields
  <2>6. ASSUME NEW p \in tx[t].asked \cup shown
        PROVE  /\ p \in Terms /\ term[p].svc # Nobody /\ Row("term", p) \in tx[t].held
               /\ term[p].logical \in {Nobody, tx[t].logical}
    <3>1. p \in Visible /\ term[p].logical \in {Nobody, tx[t].logical}
      BY <1>2, <2>0 DEF Mappable, Attached
    <3>2. p \in tx[t].asked \/ (p \in Terms /\ term[p].logical = tx[t].logical)
      BY <2>0 DEF Attached
    <3>3. Row("term", p) \in tx[t].held
      BY <3>2, <2>4 DEF TxFits, FormFits, Rows
    <3> QED BY <3>1, <3>3, VisibleRows
  <2>7. Begin(t, rec, rows) /\ UNCHANGED <<term, table, logical>>
    BY <1>2, <2>0, <2>1, <2>3 DEF EditApply
  <2>8. \A x \in rows : x[2] \in Nat /\ \A l : x # Row("logical", l)
    BY <2>0, <2>3, IdsAssumption DEF Rows, Row, Visible
  <2>9. ASSUME NEW g, Onward(t, g, rec, changed, rows) PROVE TxFits(g)
    <3>1. Row("logical", tx[t].logical) \in tx[t].held
      BY <2>4 DEF TxFits, FormFits
    <3>2. PICK ps, others : ps = tx[t].asked \ shown /\ others = shown \ tx[t].asked
      OBVIOUS
    <3>3. rec.write = Pointed(tx[t].logical, ps, others)
      BY <3>2, <2>5
    <3>4. \A p \in ps \cup others :
             /\ p \in Terms /\ term[p].svc # Nobody /\ Row("term", p) \in tx[t].held
             /\ term[p].logical \in {Nobody, tx[t].logical}
      BY <3>2, <2>6
    <3>5. ps \cup others \subseteq Terms
      BY <3>4
    <3>6. tx[t].pc \in {"new", "asked"} /\ (tx[t].pc = "asked" => Row("logical", tx[t].logical) \in tx[t].held)
      BY <3>1, <2>4
    <3>7. Attaches(t, rec, changed, rows, ps, others)
      BY <3>3, <3>4, <3>5, <3>6, <2>2, <2>5, <2>8 DEF Attaches
    <3> QED BY <3>7, <2>9, AttachesFits
  <2>10. \A u \in Txs \ {t} : Aside(rec, tx[u])
    <3>1. rec.made = tx[t].made /\ rec.logical = tx[t].logical
      BY <2>2, <2>5 DEF TxFields
    <3>2. DOMAIN rec.write = (tx[t].asked \ shown) \cup (shown \ tx[t].asked)
      BY <2>5 DEF Pointed
    <3> QED BY <3>1, <3>2, <2>6, PointedAside
  <2> QED BY <2>5, <2>7, <2>8, <2>9, <2>10, GoesOn
<1> QED BY <1>1, <1>2

\* recordVersion: the row it updates next is there, if any.
LEMMA NextRow ==
    ASSUME HubInv, NEW ls \in SUBSET Logicals
    PROVE  /\ \A x \in NextVersion(ls) : x[2] \in Nat
           /\ ls # {} => Min(ls) \in ls /\ NextVersion(ls) = {Row("logical", Min(ls))}
           /\ \A l : Row("logical", l) \in NextVersion(ls) => l \in ls
<1>1. CASE ls = {}
  BY <1>1 DEF NextVersion
<1>2. CASE ls # {}
  <2>1. ls \in SUBSET Nat
    BY IdsAssumption
  <2>2. Min(ls) \in ls /\ Min(ls) \in Nat
    BY <1>2, <2>1, MinOfSome
  <2>3. NextVersion(ls) = {Row("logical", Min(ls))}
    BY <1>2 DEF NextVersion
  <2> QED BY <1>2, <2>2, <2>3 DEF Row
<1> QED BY <1>1, <1>2

LEMMA RecordKeeps == ASSUME HubInv, NEW t \in Txs, Record(t) PROVE HubInv'
<1>1. PICK r : r = tx[t]
  OBVIOUS
<1>2. PICK l : l = Min(r.affected)
  OBVIOUS
<1>3. PICK rest : rest = r.affected \ {l}
  OBVIOUS
<1>4. PICK entry : entry = [version |-> logical[l].version + 1, terms |-> Snapshot(t, l)]
  OBVIOUS
<1>5. PICK hist : hist = [m \in {l} \cup DOMAIN r.hist |-> IF m = l THEN entry ELSE r.hist[m]]
  OBVIOUS
<1>6. PICK rec : rec = [r EXCEPT !.affected = rest, !.hist = hist]
  OBVIOUS
<1>7. PICK changed : changed = {"affected", "hist"}
  OBVIOUS
<1>8. PICK rows : rows = NextVersion(rest)
  OBVIOUS
<1>9. TxFits(r) /\ WriteFits(r) /\ r.pc = "record" /\ r.want \subseteq r.held /\ r.affected # {}
  BY <1>1 DEF HubInv, TxFits, Record, At, Done
<1>10. /\ DOMAIN rec = TxFields /\ rec.affected = rest /\ rec.hist = hist
       /\ \A c \in TxFields \ changed : rec[c] = tx[t][c]
       /\ changed \subseteq TxFields \ {"want", "held"}
  BY <1>1, <1>6, <1>7, <1>9 DEF TxFits, TxTyped, TxFields
<1>11. r.affected \subseteq Logicals /\ rest \in SUBSET Logicals
  BY <1>3, <1>9 DEF TxFits, TxTyped
<1>12. l \in r.affected
  BY <1>2, <1>9, <1>11, NextRow
<1>13. \A m \in rest : m \in r.affected /\ r.affected # {m} /\ m \in Logicals /\ Exists(m)
  BY <1>3, <1>9, <1>11, <1>12 DEF WriteFits
<1>14. Begin(t, rec, rows) /\ UNCHANGED <<term, table, logical>>
  BY <1>1, <1>2, <1>3, <1>4, <1>5, <1>6, <1>8 DEF Record
<1>15. ASSUME NEW g, Onward(t, g, rec, changed, rows) PROVE TxFits(g)
  <2>1. /\ DOMAIN g = TxFields /\ g.want = rows /\ r.held \subseteq g.held
        /\ g.held \subseteq r.held \cup rows /\ g.pc = "record" /\ g.body = r.body
        /\ g.svc = r.svc /\ g.logical = r.logical /\ g.affected = rest
        /\ g.asked = r.asked /\ g.write = r.write /\ g.hist = hist
        /\ g.made = r.made /\ g.gone = r.gone
    BY <1>1, <1>7, <1>9, <1>10, <1>15 DEF Onward, TxFields
  <2>2. \A m : Row("logical", m) \in rows => m \in rest
    BY <1>8, <1>11, NextRow
  <2>3. DOMAIN g.hist = {l} \cup DOMAIN r.hist
    BY <2>1, <1>5
  <2>4. \A x \in rows : x[2] \in Nat
    BY <1>8, <1>11, NextRow
  <2>5. TxTyped(g)
    BY <2>1, <2>2, <2>3, <2>4, <1>9, <1>11, <1>12, <1>13 DEF TxFits, TxTyped
  <2>6. SaveFits(g)
    BY <2>1, <1>9 DEF TxFits, SaveFits
  <2>7. FormFits(g)
    BY <2>1, <1>9 DEF TxFits, FormFits
  <2>8. WriteFits(g)
    <3>1. \A p \in DOMAIN g.write : RowFits(g, p)
      <4>1. r.affected \cup DOMAIN r.hist = g.affected \cup DOMAIN g.hist
        BY <2>1, <2>3, <1>3, <1>12
      <4> QED BY <2>1, <4>1, <1>9 DEF WriteFits, RowFits
    <3>2. Sees(g) = Sees(r) /\ \A m : Shows(g, m) = Shows(r, m)
      BY <2>1 DEF Sees, Shows
    <3>3. \A m : Claims(r, m) => Claims(g, m)
      BY <2>1 DEF Claims
    <3>4. g.gone = {tb \in TablesOf(g.svc) \ g.body : LiveIn(Sees(g), tb) = {}}
      BY <2>1, <3>2, <1>9 DEF WriteFits
    <3>5. g.affected # {} => Row("logical", Min(g.affected)) \in g.want
      BY <2>1, <1>8, <1>11, NextRow
    <3>6. Claims(r, l)
      BY <1>2, <1>9 DEF WriteFits, Claims
    <3>7. entry.version \in Nat \ {0} /\ entry.terms = Shows(r, l)
      <4>1. logical[l].version \in Nat
        BY <1>11, <1>12 DEF HubInv, HubRows
      <4>2. Snapshot(t, l) = Shows(r, l)
        BY <1>1 DEF Snapshot, Shows, Seen, Sees
      <4> QED BY <4>1, <4>2, <1>4
    <3>8. ASSUME NEW m \in DOMAIN g.hist
          PROVE  Claims(g, m) /\ g.hist[m].version \in Nat \ {0} /\ g.hist[m].terms = Shows(g, m)
      <4>1. CASE m = l
        BY <4>1, <2>1, <3>2, <3>3, <3>6, <3>7, <1>5
      <4>2. CASE m # l
        <5>1. m \in DOMAIN r.hist /\ g.hist[m] = r.hist[m]
          BY <4>2, <2>1, <2>3, <1>5
        <5> QED BY <5>1, <3>2, <3>3, <1>9 DEF WriteFits
      <4> QED BY <4>1, <4>2
    <3>9. \A m \in g.affected : Exists(m)
      BY <2>1, <1>13
    <3>10. g.svc = Nobody => g.logical \in g.affected \cup DOMAIN g.hist
      BY <2>1, <2>3, <1>3, <1>9 DEF WriteFits
    <3>11. g.svc # Nobody => \A tb \in g.body : \E p \in DOMAIN g.write : g.write[p].live /\ g.write[p].table = tb
      BY <2>1, <1>9 DEF WriteFits
    <3> QED BY <3>1, <3>4, <3>5, <3>8, <3>9, <3>10, <3>11 DEF WriteFits
  <2> QED BY <2>1, <2>5, <2>6, <2>7, <2>8 DEF TxFits
<1>16. \A u \in Txs \ {t} : Aside(rec, tx[u])
  BY <1>7, <1>10, StaysAside DEF TxFields
<1>17. \A x \in rows : x[2] \in Nat
  BY <1>8, <1>11, NextRow
<1> QED BY <1>10, <1>14, <1>15, <1>16, <1>17, GoesOn

\* The ids a save inserts belong to nobody's row, and to nobody else's writing.
LEMMA FreshIds ==
    ASSUME HubInv, NEW p \in NextIds
    PROVE  p \in Terms /\ term[p].svc = Nobody /\ \A u \in Txs : p \notin DOMAIN tx[u].write
<1>1. PICK unused : unused = {q \in Terms : term[q].svc = Nobody /\ \A u \in Txs : q \notin DOMAIN tx[u].write}
  OBVIOUS
<1>2. unused \in SUBSET Nat /\ unused # {} /\ p = Min(unused)
  BY <1>1, IdsAssumption DEF NextIds
<1> QED BY <1>1, <1>2, MinOfSome

\* The logical terms on both sides of the rows that differ.
LEMMA BothSides ==
    ASSUME NEW t, NEW w
    PROVE  /\ \A p \in DOMAIN w : Differs(w[p], term[p]) =>
                  {term[p].logical, w[p].logical} \ {Nobody} \subseteq Affected(t, w)
           /\ \A l \in Affected(t, w) :
                 \/ l \in tx[t].affected
                 \/ l # Nobody /\ \E p \in DOMAIN w : l \in {term[p].logical, w[p].logical}
<1> DEFINE D == {p \in DOMAIN w : <<w[p].live, w[p].logical, w[p].table>>
                                   # <<term[p].live, term[p].logical, term[p].table>>}
           S(p) == {term[p].logical, w[p].logical}
           U == UNION {S(p) : p \in D}
<1>1. Affected(t, w) = tx[t].affected \cup (U \ {Nobody})
  BY DEF Affected
<1>2. \A p \in DOMAIN w : Differs(w[p], term[p]) <=> p \in D
  BY DEF Differs
<1>3. \A p \in D : p \in DOMAIN w /\ S(p) \subseteq U
  OBVIOUS
<1>4. \A l \in U : \E p \in D : l \in S(p)
  OBVIOUS
<1> HIDE DEF D, U
<1> QED BY <1>1, <1>2, <1>3, <1>4

LEMMA SaveWriteKeeps == ASSUME HubInv, NEW t \in Txs, SaveWrite(t) PROVE HubInv'
<1>1. PICK r : r = tx[t]
  OBVIOUS
<1>2. PICK kept \in SUBSET Own(tx[t].svc), fresh \in SUBSET NextIds : \E w \in Wanted(t, kept \cup fresh) :
         LET all == [p \in Own(tx[t].svc) \cup fresh |->
                        IF p \in DOMAIN w THEN w[p] ELSE [term[p] EXCEPT !.live = FALSE]]
             seen == [p \in Terms |-> IF p \in DOMAIN all THEN all[p] ELSE term[p]]
         IN  Begin(t, [tx[t] EXCEPT !.pc = "record", !.write = all, !.affected = Affected(t, all),
                            !.gone = Emptied(t, seen)],
                   NextVersion(Affected(t, all)))
  BY DEF SaveWrite
<1>3. PICK w \in Wanted(t, kept \cup fresh) :
         LET all == [p \in Own(tx[t].svc) \cup fresh |->
                        IF p \in DOMAIN w THEN w[p] ELSE [term[p] EXCEPT !.live = FALSE]]
             seen == [p \in Terms |-> IF p \in DOMAIN all THEN all[p] ELSE term[p]]
         IN  Begin(t, [tx[t] EXCEPT !.pc = "record", !.write = all, !.affected = Affected(t, all),
                            !.gone = Emptied(t, seen)],
                   NextVersion(Affected(t, all)))
  BY <1>2
<1>4. PICK all : all = [p \in Own(r.svc) \cup fresh |->
                          IF p \in DOMAIN w THEN w[p] ELSE [term[p] EXCEPT !.live = FALSE]]
  OBVIOUS
<1>5. PICK seen : seen = [p \in Terms |-> IF p \in DOMAIN all THEN all[p] ELSE term[p]]
  OBVIOUS
<1>6. PICK affected : affected = Affected(t, all)
  OBVIOUS
<1>7. PICK rows : rows = NextVersion(affected)
  OBVIOUS
<1>8. PICK rec : rec = [r EXCEPT !.pc = "record", !.write = all, !.affected = affected,
                             !.gone = Emptied(t, seen)]
  OBVIOUS
<1>9. PICK changed : changed = {"pc", "write", "affected", "gone"}
  OBVIOUS
<1>10. TxFits(r) /\ r.pc = "terms" /\ r.want \subseteq r.held
  BY <1>1 DEF HubInv, SaveWrite, At, Done
<1>11. r.svc \in Services /\ r.svc # Nobody /\ Rows("term", Own(r.svc)) \subseteq r.held
  BY <1>10 DEF TxFits, TxTyped, SaveFits
<1>12. /\ DOMAIN rec = TxFields /\ rec.pc = "record" /\ rec.write = all /\ rec.affected = affected
       /\ rec.gone = Emptied(t, seen)
  BY <1>8, <1>10 DEF TxFits, TxTyped, TxFields
<1>13. /\ \A c \in TxFields \ changed : rec[c] = tx[t][c]
       /\ changed \subseteq TxFields \ {"want", "held"}
  BY <1>1, <1>8, <1>9, <1>10 DEF TxFits, TxTyped, TxFields
<1>14. Begin(t, rec, rows) /\ UNCHANGED <<term, table, logical>>
  BY <1>1, <1>3, <1>4, <1>5, <1>6, <1>7, <1>8 DEF SaveWrite
<1>15. DOMAIN w = kept \cup fresh /\ r.body = {w[p].table : p \in kept \cup fresh}
  BY <1>1 DEF Wanted
<1>16. ASSUME NEW p \in kept \cup fresh
       PROVE  /\ w[p] \in [svc : {r.svc}, table : r.body, live : {TRUE},
                            logical : {Nobody} \cup r.asked \cup {term[q].logical : q \in kept \cup fresh}]
              /\ w[p].logical \in {Nobody, term[p].logical} \cup r.asked
  BY <1>1 DEF Wanted
<1>17. \A p \in Own(r.svc) : p \in Terms /\ term[p].svc = r.svc /\ term[p].live
  BY DEF Own
<1>18. \A p \in fresh : p \in Terms /\ term[p].svc = Nobody /\ \A u \in Txs : p \notin DOMAIN tx[u].write
  BY FreshIds
<1>19. \A l \in r.asked \cup r.affected : l \in Logicals /\ Exists(l)
  BY <1>10, <1>11 DEF TxFits, SaveFits
<1>20. \A p \in Terms : term[p] \in Rec /\ (term[p].logical # Nobody => Exists(term[p].logical))
  BY DEF HubInv, HubRows
<1>21. r.body \subseteq Tables
  BY <1>10 DEF TxFits, TxTyped
\* What is written.
<1>22. ASSUME NEW p \in Own(r.svc) \cup fresh
       PROVE  /\ all[p] \in Rec /\ all[p].svc = r.svc /\ (all[p].live => all[p].table \in r.body)
              /\ all[p].logical # Nobody => all[p].logical \in Logicals /\ Exists(all[p].logical)
  <2>1. CASE p \in kept \cup fresh
    <3>1. all[p] = w[p]
      BY <2>1, <1>4, <1>15
    <3>2. w[p].logical \in Logicals \cup {Nobody}
      BY <2>1, <1>16, <1>17, <1>18, <1>19, <1>20 DEF Rec
    <3>3. w[p].logical # Nobody => Exists(w[p].logical)
      BY <2>1, <1>16, <1>17, <1>18, <1>19, <1>20
    <3>4. DOMAIN w[p] = {"svc", "table", "live", "logical"} /\ w[p] \in Rec
      BY <2>1, <3>2, <1>11, <1>16, <1>21 DEF Rec
    <3> QED BY <2>1, <3>1, <3>2, <3>3, <3>4, <1>16
  <2>2. CASE p \notin kept \cup fresh
    <3>1. all[p] = [term[p] EXCEPT !.live = FALSE] /\ p \in Own(r.svc)
      BY <2>2, <1>4, <1>15
    <3>2. term[p] \in Rec /\ term[p].svc = r.svc
      BY <3>1, <1>17, <1>20
    <3>3. all[p] \in Rec /\ all[p].svc = r.svc /\ ~all[p].live /\ all[p].logical = term[p].logical
      BY <3>1, <3>2 DEF Rec
    <3> QED BY <3>1, <3>2, <3>3, <1>17, <1>20 DEF Rec
  <2> QED BY <2>1, <2>2
<1>23. DOMAIN all = Own(r.svc) \cup fresh
  BY <1>4
<1>24. \A l \in affected : l \in Logicals /\ Exists(l)
  <2> SUFFICES ASSUME NEW l \in affected PROVE l \in Logicals /\ Exists(l)
    OBVIOUS
  <2>1. l \in r.affected \/ (l # Nobody /\ \E p \in DOMAIN all : l \in {term[p].logical, all[p].logical})
    BY <1>1, <1>6, BothSides
  <2>2. ASSUME NEW p \in DOMAIN all, l # Nobody, l \in {term[p].logical, all[p].logical}
        PROVE  l \in Logicals /\ Exists(l)
    BY <2>2, <1>17, <1>18, <1>20, <1>22, <1>23 DEF Rec
  <2> QED BY <2>1, <2>2, <1>19
<1>25. \A p \in DOMAIN all : Differs(all[p], term[p]) => {term[p].logical, all[p].logical} \ {Nobody} \subseteq affected
  BY <1>6, BothSides
<1>26. affected \in SUBSET Logicals
  BY <1>24
<1>27. ASSUME NEW g, Onward(t, g, rec, changed, rows) PROVE TxFits(g)
  <2>1. /\ DOMAIN g = TxFields /\ g.want = rows /\ r.held \subseteq g.held
        /\ g.held \subseteq r.held \cup rows /\ g.pc = "record" /\ g.affected = affected
        /\ g.write = all /\ g.gone = Emptied(t, seen)
    BY <1>1, <1>9, <1>12, <1>27 DEF Onward
  <2>2. /\ g.body = r.body /\ g.svc = r.svc /\ g.logical = r.logical /\ g.asked = r.asked
        /\ g.hist = r.hist /\ g.made = r.made
    BY <1>1, <1>9, <1>27 DEF Onward, TxFields
  <2>3. \A m : Row("logical", m) \in rows => m \in affected
    BY <1>7, <1>26, NextRow
  <2>4. \A x \in rows : x[2] \in Nat
    BY <1>7, <1>26, NextRow
  <2>5. TxTyped(g)
    BY <2>1, <2>2, <2>3, <2>4, <1>10, <1>11, <1>17, <1>18, <1>22, <1>23, <1>24 DEF TxFits, TxTyped, PCs
  <2>6. SaveFits(g)
    BY <2>1, <2>2, <1>10 DEF TxFits, SaveFits
  <2>7. FormFits(g)
    BY <2>1, <2>2, <1>11 DEF FormFits
  <2>8. WriteFits(g)
    <3>1. ASSUME NEW p \in DOMAIN g.write PROVE RowFits(g, p)
      <4>1. p \in DOMAIN all /\ p \in Own(r.svc) \cup fresh
        BY <2>1, <1>23
      <4>2. term[p].svc # Nobody => p \in Own(r.svc) /\ Row("term", p) \in r.held
        BY <4>1, <1>11, <1>18 DEF Rows
      <4> QED BY <2>1, <2>2, <4>1, <4>2, <1>11, <1>17, <1>22, <1>25 DEF RowFits
    <3>2. Sees(g) = seen
      BY <2>1, <1>5 DEF Sees
    <3>3. g.gone = {tb \in TablesOf(g.svc) \ g.body : LiveIn(Sees(g), tb) = {}}
      BY <2>1, <2>2, <3>2, <1>1 DEF Emptied
    <3>4. g.affected # {} => Row("logical", Min(g.affected)) \in g.want
      BY <2>1, <1>7, <1>26, NextRow
    <3>5. DOMAIN g.hist = {}
      BY <2>2, <1>10 DEF TxFits, TxTyped
    <3>6. ASSUME NEW tb \in g.body PROVE \E p \in DOMAIN g.write : g.write[p].live /\ g.write[p].table = tb
      <4>1. PICK p \in kept \cup fresh : tb = w[p].table
        BY <2>2, <1>15
      <4>2. p \in DOMAIN all /\ all[p] = w[p]
        BY <1>1, <1>4, <1>15
      <4>3. w[p].live
        BY <1>16
      <4> QED BY <4>1, <4>2, <4>3, <2>1
    <3> QED BY <2>1, <2>2, <3>1, <3>3, <3>4, <3>5, <3>6, <1>11, <1>24 DEF WriteFits
  <2> QED BY <2>1, <2>5, <2>6, <2>7, <2>8 DEF TxFits
<1>28. \A u \in Txs \ {t} : Aside(rec, tx[u])
  <2>1. rec.made = tx[t].made /\ rec.logical = tx[t].logical
    BY <1>9, <1>13 DEF TxFields
  <2>2. ASSUME NEW u \in Txs \ {t}, NEW p \in DOMAIN rec.write PROVE p \notin DOMAIN tx[u].write
    <3>1. CASE p \in fresh
      BY <3>1, <1>18
    <3>2. CASE p \in Own(r.svc)
      <4>1. p \in Terms /\ term[p].svc # Nobody /\ Row("term", p) \in tx[t].held
        BY <3>2, <1>1, <1>11, <1>17 DEF Rows
      <4> QED BY <4>1, OneWriter
    <3> QED BY <3>1, <3>2, <1>12, <1>23
  <2>3. \A u \in Txs \ {t} : (DOMAIN rec.write) \cap (DOMAIN tx[u].write) = {}
    BY <2>2
  <2> QED BY <2>1, <2>3 DEF HubInv, TwoFit, Aside
<1>29. \A x \in rows : x[2] \in Nat
  BY <1>7, <1>26, NextRow
<1> QED BY <1>12, <1>13, <1>14, <1>27, <1>28, <1>29, GoesOn

(***************************************************************************)
(* COMMIT                                                                  *)
(***************************************************************************)
\* What a transaction about to commit has: every changed row's logical terms have their new history.
ToCommit(t) ==
    /\ TxFits(tx[t]) /\ WriteFits(tx[t]) /\ tx[t].pc = "record" /\ tx[t].affected = {}
    /\ term' = Sees(tx[t])
    /\ table' = [tb \in Tables |-> CASE tb \in tx[t].gone -> "deleted" [] tb \in tx[t].made -> "live"
                                     [] OTHER -> table[tb]]
    /\ logical' = [l \in Logicals |-> IF l \in DOMAIN tx[t].hist THEN tx[t].hist[l] ELSE logical[l]]
    /\ tx' = [tx EXCEPT ![t] = Idle]

LEMMA CommitGoes == ASSUME HubInv, NEW t \in Txs, Commit(t) PROVE ToCommit(t)
<1>1. TxFits(tx[t]) /\ tx[t].pc = "record"
  BY DEF HubInv, Commit, At
<1> QED BY <1>1 DEF TxFits, Commit, ToCommit, Seen, Sees

\* The rows before and after.
LEMMA RowsGo ==
    ASSUME HubInv, NEW t \in Txs, ToCommit(t), NEW p \in Terms
    PROVE  /\ p \notin DOMAIN tx[t].write => term'[p] = term[p]
           /\ p \in DOMAIN tx[t].write => term'[p] = tx[t].write[p] /\ RowFits(tx[t], p) /\ term'[p] \in Rec
           /\ Differs(term'[p], term[p]) =>
                 p \in DOMAIN tx[t].write /\ {term[p].logical, term'[p].logical} \ {Nobody} \subseteq DOMAIN tx[t].hist
<1>1. p \notin DOMAIN tx[t].write => term'[p] = term[p]
  BY DEF ToCommit, Sees
<1>2. p \in DOMAIN tx[t].write => term'[p] = tx[t].write[p] /\ RowFits(tx[t], p) /\ term'[p] \in Rec
  BY DEF ToCommit, Sees, WriteFits, TxFits, TxTyped
<1>3. ASSUME Differs(term'[p], term[p])
      PROVE  p \in DOMAIN tx[t].write /\ {term[p].logical, term'[p].logical} \ {Nobody} \subseteq DOMAIN tx[t].hist
  <2>1. p \in DOMAIN tx[t].write
    BY <1>1, <1>3 DEF Differs
  <2>2. tx[t].affected = {}
    BY DEF ToCommit
  <2> QED BY <2>1, <2>2, <1>2, <1>3 DEF RowFits
<1> QED BY <1>1, <1>2, <1>3

LEMMA ExistsStays ==
    ASSUME HubInv, NEW t \in Txs, ToCommit(t), NEW l
    PROVE  /\ l \in Logicals /\ Exists(l) => Exists(l)'
           /\ l \in DOMAIN tx[t].hist => l \in Logicals /\ Exists(l)' /\ Claims(tx[t], l)
           /\ l \in Logicals /\ l \notin DOMAIN tx[t].hist => logical'[l] = logical[l] /\ (Exists(l)' <=> Exists(l))
<1>1. /\ \A m \in DOMAIN tx[t].hist : /\ m \in Logicals /\ Claims(tx[t], m)
                                      /\ tx[t].hist[m].version \in Nat \ {0}
  BY DEF ToCommit, TxFits, TxTyped, WriteFits
<1>2. ASSUME NEW m \in DOMAIN tx[t].hist PROVE Exists(m)'
  <2>1. logical'[m] = tx[t].hist[m]
    BY <1>1 DEF ToCommit
  <2> QED BY <2>1, <1>1 DEF Exists
<1>3. ASSUME l \in Logicals, l \notin DOMAIN tx[t].hist PROVE logical'[l] = logical[l] /\ (Exists(l)' <=> Exists(l))
  BY <1>3 DEF ToCommit, Exists
<1> QED BY <1>1, <1>2, <1>3

\* What the service that is saved does not own stays out of it; a form moves nothing.
LEMMA FormMovesNothing ==
    ASSUME HubInv, NEW t \in Txs, ToCommit(t), tx[t].svc = Nobody
    PROVE  /\ \A p \in Terms : /\ term'[p].svc = term[p].svc /\ term'[p].table = term[p].table
                               /\ term'[p].live = term[p].live
           /\ tx[t].gone = {} /\ tx[t].made = {}
<1>1. \A p \in Terms : /\ term'[p].svc = term[p].svc /\ term'[p].table = term[p].table
                      /\ term'[p].live = term[p].live
  BY RowsGo DEF RowFits
<1>2. tx[t].made = {}
  BY DEF ToCommit, TxFits, TxTyped
<1>3. tx[t].gone \subseteq TablesOf(Nobody)
  BY DEF ToCommit, WriteFits
<1> QED BY <1>1, <1>2, <1>3, NobodysTables

\* What a save writes is of its service, before and after.
LEMMA SaveMovesOwn ==
    ASSUME HubInv, NEW t \in Txs, ToCommit(t), tx[t].svc # Nobody
    PROVE  /\ \A p \in DOMAIN tx[t].write : /\ p \in Terms /\ term'[p].svc = tx[t].svc
                                            /\ term[p].svc \in {Nobody, tx[t].svc}
                                            /\ (term'[p].live => term'[p].table \in tx[t].body)
                                            /\ (term[p].live => term[p].table \in TablesOf(tx[t].svc))
           /\ \A tb \in tx[t].gone : tb \in TablesOf(tx[t].svc) /\ tb \notin tx[t].body
           /\ tx[t].made \subseteq tx[t].body /\ tx[t].body \subseteq Tables
           /\ Row("service", tx[t].svc) \in tx[t].held
           /\ \A tb \in TablesOf(tx[t].svc) \cup (tx[t].body \ tx[t].made) : Row("table", tb) \in tx[t].held
           /\ \A tb \in tx[t].body \ tx[t].made : table[tb] = "live"
           /\ \A tb \in tx[t].made : table[tb] = "unused"
<1> PICK r : r = tx[t]
  OBVIOUS
<1>1. TxFits(r) /\ WriteFits(r) /\ r.pc = "record" /\ r.svc # Nobody
  BY DEF ToCommit
<1>2. ASSUME NEW p \in DOMAIN r.write
      PROVE  /\ p \in Terms /\ term'[p].svc = r.svc /\ term[p].svc \in {Nobody, r.svc}
             /\ (term'[p].live => term'[p].table \in r.body)
             /\ (term[p].live => term[p].table \in TablesOf(r.svc))
  <2>1. p \in Terms
    BY <1>1 DEF TxFits, TxTyped
  <2>2. term'[p] = r.write[p] /\ RowFits(r, p)
    BY <2>1, RowsGo
  <2>3. term[p].svc = Nobody => ~term[p].live
    BY <2>1 DEF HubInv, HubRows, NoTerm
  <2> QED BY <2>1, <2>2, <2>3, <1>1 DEF RowFits, TablesOf, Own
<1>3. \A tb \in r.gone : tb \in TablesOf(r.svc) /\ tb \notin r.body
  BY <1>1 DEF WriteFits
<1>4. r.made \subseteq r.body /\ r.body \subseteq Tables
  BY <1>1 DEF TxFits, TxTyped
<1>5. /\ Row("service", r.svc) \in r.held
      /\ \A tb \in TablesOf(r.svc) \cup (r.body \ r.made) : Row("table", tb) \in r.held
      /\ \A tb \in r.body \ r.made : table[tb] = "live"
      /\ \A tb \in r.made : table[tb] = "unused"
  BY <1>1 DEF TxFits, SaveFits, Rows
<1> QED BY <1>2, <1>3, <1>4, <1>5

LEMMA TableGoes ==
    ASSUME HubInv, NEW t \in Txs, ToCommit(t), NEW tb \in Tables
    PROVE  /\ tb \in tx[t].gone => table'[tb] = "deleted"
           /\ tb \notin tx[t].gone /\ tb \in tx[t].made => table'[tb] = "live"
           /\ tb \notin tx[t].gone /\ tb \notin tx[t].made => table'[tb] = table[tb]
<1>1. table'[tb] = CASE tb \in tx[t].gone -> "deleted" [] tb \in tx[t].made -> "live" [] OTHER -> table[tb]
  BY DEF ToCommit
<1>2. \A x : ~(x \in tx[t].gone /\ x \in tx[t].made)
  <2>1. CASE tx[t].svc = Nobody
    BY <2>1, FormMovesNothing
  <2>2. CASE tx[t].svc # Nobody
    BY <2>2, SaveMovesOwn
  <2> QED BY <2>1, <2>2
<1> QED BY <1>1, <1>2

LEMMA CommitRows == ASSUME HubInv, NEW t \in Txs, ToCommit(t) PROVE HubRows'
<1>1. PICK r : r = tx[t]
  OBVIOUS
<1>2. TxFits(r) /\ WriteFits(r) /\ r.pc = "record" /\ r.affected = {}
  BY <1>1 DEF ToCommit
<1>3. ASSUME NEW p \in Terms
      PROVE  /\ term'[p] \in Rec /\ (term'[p].svc = Nobody => term'[p] = NoTerm)
             /\ (term'[p].live => term'[p].table \in Tables)
             /\ (term'[p].logical # Nobody => logical'[term'[p].logical].version > 0)
  <2>1. /\ term[p] \in Rec /\ (term[p].svc = Nobody => term[p] = NoTerm)
        /\ (term[p].live => term[p].table \in Tables)
        /\ (term[p].logical # Nobody => term[p].logical \in Logicals /\ Exists(term[p].logical))
    BY DEF HubInv, HubRows, Rec
  <2>2. \A l \in Logicals : Exists(l) \/ l \in DOMAIN r.hist => logical'[l].version > 0
    BY <1>1, ExistsStays DEF Exists
  <2>3. CASE p \notin DOMAIN r.write
    <3>1. term'[p] = term[p]
      BY <1>1, <2>3, RowsGo
    <3> QED BY <2>1, <2>2, <3>1
  <2>4. CASE p \in DOMAIN r.write
    <3>1. term'[p] = r.write[p] /\ RowFits(r, p) /\ term'[p] \in Rec
      BY <1>1, <2>4, RowsGo
    <3>2. term'[p].svc # Nobody
      BY <3>1 DEF RowFits
    <3>3. term'[p].live => term'[p].table \in Tables
      <4>1. CASE r.svc = Nobody
        BY <4>1, <1>1, <2>1, FormMovesNothing
      <4>2. CASE r.svc # Nobody
        BY <4>2, <1>1, <2>4, SaveMovesOwn
      <4> QED BY <4>1, <4>2
    <3>4. ASSUME term'[p].logical # Nobody PROVE logical'[term'[p].logical].version > 0
      <4>1. term'[p].logical \in Logicals
        BY <3>1, <3>4 DEF Rec
      <4>2. Exists(term'[p].logical) \/ term'[p].logical = r.logical
        BY <3>1, <3>4 DEF RowFits
      <4>3. r.logical # Nobody => r.logical \in DOMAIN r.hist
        BY <1>2 DEF WriteFits, TxFits, TxTyped
      <4> QED BY <4>1, <4>2, <4>3, <2>2, <3>4
    <3> QED BY <3>1, <3>2, <3>3, <3>4
  <2> QED BY <2>3, <2>4
<1>4. term' \in [Terms -> Rec]
  BY <1>3 DEF ToCommit, Sees
<1>5. table' \in [Tables -> {"unused", "live", "deleted"}]
  <2>1. \A tb \in Tables : table'[tb] \in {"unused", "live", "deleted"}
    BY TableGoes DEF HubInv, HubRows
  <2> QED BY <2>1 DEF ToCommit
<1>6. DOMAIN logical' = Logicals /\ \A l \in Logicals : logical'[l].version \in Nat
  <2>1. ASSUME NEW l \in Logicals PROVE logical'[l].version \in Nat
    <3>1. CASE l \in DOMAIN r.hist
      BY <3>1, <1>1, <1>2 DEF ToCommit, WriteFits
    <3>2. CASE l \notin DOMAIN r.hist
      BY <3>2, <1>1 DEF ToCommit, HubInv, HubRows
    <3> QED BY <3>1, <3>2
  <2> QED BY <2>1 DEF ToCommit
<1>7. DOMAIN tx' = Txs
  BY DEF ToCommit, HubInv, HubRows
<1> QED BY <1>3, <1>4, <1>5, <1>6, <1>7 DEF HubRows, Exists

LEMMA CommitTables == ASSUME HubInv, NEW t \in Txs, ToCommit(t) PROVE TablesHoldTerms'
<1>1. PICK r : r = tx[t]
  OBVIOUS
<1>2. TxFits(r) /\ WriteFits(r) /\ r.pc = "record"
  BY <1>1 DEF ToCommit
<1>3. /\ \A p \in Terms : term[p].live => table[term[p].table] = "live" /\ term[p].table \in Tables
      /\ \A tb \in Tables : table[tb] = "live" => \E p \in Terms : term[p].live /\ term[p].table = tb
  BY DEF HubInv, HubRows, TablesHoldTerms, LiveIn
<1>4. HubRows'
  BY CommitRows
<1>5. CASE r.svc = Nobody
  <2>1. \A p \in Terms : term'[p].table = term[p].table /\ term'[p].live = term[p].live
    BY <1>1, <1>5, FormMovesNothing
  <2>2. \A tb \in Tables : table'[tb] = table[tb]
    BY <1>1, <1>5, FormMovesNothing, TableGoes
  <2>3. \A p \in Terms : term'[p].live => table'[term'[p].table] = "live"
    BY <1>3, <2>1, <2>2
  <2>4. ASSUME NEW tb \in Tables, table'[tb] = "live" PROVE \E p \in Terms : term'[p].live /\ term'[p].table = tb
    BY <1>3, <2>1, <2>2, <2>4
  <2> QED BY <2>3, <2>4 DEF TablesHoldTerms, LiveIn
<1>6. CASE r.svc # Nobody
  <2>1. ASSUME NEW p \in Terms, term'[p].live PROVE table'[term'[p].table] = "live"
    <3>1. PICK tb : tb = term'[p].table
      OBVIOUS
    <3>2. tb \in Tables
      BY <1>4, <2>1, <3>1 DEF HubRows
    <3>3. CASE p \in DOMAIN r.write
      <4>1. tb \in r.body /\ tb \notin r.gone /\ (tb \notin r.made => table[tb] = "live")
        BY <3>3, <3>1, <2>1, <1>1, <1>6, SaveMovesOwn
      <4> QED BY <4>1, <3>1, <3>2, <1>1, TableGoes
    <3>4. CASE p \notin DOMAIN r.write
      <4>1. term'[p] = term[p]
        BY <3>4, <1>1, RowsGo
      <4>2. tb \notin r.gone
        <5>1. p \in LiveIn(Sees(r), tb)
          BY <4>1, <3>1, <3>4, <2>1 DEF LiveIn, Sees
        <5> QED BY <5>1, <1>2 DEF WriteFits
      <4>3. table[tb] = "live"
        BY <4>1, <3>1, <2>1, <1>3
      <4> QED BY <4>2, <4>3, <3>1, <3>2, <1>1, TableGoes
    <3> QED BY <3>3, <3>4
  <2>2. ASSUME NEW tb \in Tables, table'[tb] = "live" PROVE \E p \in Terms : term'[p].live /\ term'[p].table = tb
    <3>1. CASE tb \in r.body
      <4>1. PICK p \in DOMAIN r.write : r.write[p].live /\ r.write[p].table = tb
        BY <3>1, <1>2, <1>6 DEF WriteFits
      <4>2. p \in Terms
        BY <1>1, <1>6, <4>1, SaveMovesOwn
      <4>3. term'[p] = r.write[p]
        BY <4>1, <4>2, <1>1, RowsGo
      <4> QED BY <4>1, <4>2, <4>3
    <3>2. CASE tb \notin r.body
      <4>1. tb \notin r.gone /\ tb \notin r.made /\ table[tb] = "live"
        BY <3>2, <2>2, <1>1, <1>6, TableGoes, SaveMovesOwn
      <4>2. PICK p \in Terms : term[p].live /\ term[p].table = tb
        BY <4>1, <1>3
      <4>3. CASE p \notin DOMAIN r.write
        BY <4>2, <4>3, <1>1, RowsGo
      <4>4. CASE p \in DOMAIN r.write
        <5>1. tb \in TablesOf(r.svc)
          BY <4>2, <4>4, <1>1, <1>6, SaveMovesOwn
        <5>2. LiveIn(Sees(r), tb) # {}
          BY <5>1, <4>1, <3>2, <1>2 DEF WriteFits
        <5>3. term' = Sees(r)
          BY <1>1 DEF ToCommit
        <5> QED BY <5>2, <5>3 DEF LiveIn
      <4> QED BY <4>3, <4>4
    <3> QED BY <3>1, <3>2
  <2> QED BY <2>1, <2>2 DEF TablesHoldTerms, LiveIn
<1> QED BY <1>5, <1>6

\* A term comes to be attached to a logical term, or leaves it, only if its history says so.
LEMMA TermsMoveRecorded ==
    ASSUME HubInv, NEW t \in Txs, ToCommit(t), NEW l \in Logicals, l \notin DOMAIN tx[t].hist,
           NEW p \in Terms
    PROVE  /\ (term'[p].live /\ term'[p].logical = l) <=> (term[p].live /\ term[p].logical = l)
           /\ term[p].live /\ term[p].logical = l => term'[p].table = term[p].table
           /\ term'[p].logical = l => term[p].logical = l
<1>1. CASE Differs(term'[p], term[p])
  <2>1. l # Nobody
    BY IdsAssumption
  <2>2. l \notin {term[p].logical, term'[p].logical}
    BY <1>1, <2>1, RowsGo
  <2> QED BY <2>2
<1>2. CASE ~Differs(term'[p], term[p])
  BY <1>2 DEF Differs
<1> QED BY <1>1, <1>2

LEMMA CommitHistory == ASSUME HubInv, NEW t \in Txs, ToCommit(t) PROVE HistoryMatches'
<1>1. PICK r : r = tx[t]
  OBVIOUS
<1>2. TxFits(r) /\ WriteFits(r) /\ r.pc = "record" /\ term' = Sees(r)
  BY <1>1 DEF ToCommit
<1>3. ASSUME NEW l \in Logicals, Exists(l)'
      PROVE  logical'[l].terms = {<<p, term'[p].table>> : p \in {q \in Terms : term'[q].live /\ term'[q].logical = l}}
  <2>1. CASE l \in DOMAIN r.hist
    <3>1. logical'[l] = r.hist[l]
      BY <2>1, <1>1 DEF ToCommit
    <3>2. r.hist[l].terms = Shows(r, l)
      BY <2>1, <1>2 DEF WriteFits
    <3> QED BY <3>1, <3>2, <1>2 DEF Shows
  <2>2. CASE l \notin DOMAIN r.hist
    <3>1. logical'[l] = logical[l] /\ Exists(l)
      BY <2>2, <1>1, <1>3, ExistsStays
    <3>2. logical[l].terms = {<<p, term[p].table>> : p \in {q \in Terms : term[q].live /\ term[q].logical = l}}
      BY <3>1 DEF HubInv, HistoryMatches, Attached
    <3> QED BY <2>2, <3>1, <3>2, <1>1, TermsMoveRecorded
  <2> QED BY <2>1, <2>2
<1> QED BY <1>3 DEF HistoryMatches, Attached

\* What the others know still stands: their services, their tables, and the logical terms that they
\* create or whose history they write.
LEMMA OthersServices ==
    ASSUME HubInv, NEW t \in Txs, ToCommit(t), NEW u \in Txs \ {t}, NEW s,
           s = Nobody \/ Row("service", s) \in tx[u].held
    PROVE  Own(s)' = Own(s) /\ TablesOf(s)' = TablesOf(s)
<1>1. PICK r : r = tx[t]
  OBVIOUS
<1>2. ASSUME NEW p \in Terms
      PROVE  /\ (term'[p].live /\ term'[p].svc = s) <=> (term[p].live /\ term[p].svc = s)
             /\ term[p].live /\ term[p].svc = s => term'[p].table = term[p].table
  <2>1. term[p].svc = Nobody => ~term[p].live
    BY DEF HubInv, HubRows, NoTerm
  <2>2. CASE r.svc = Nobody
    BY <2>2, <1>1, FormMovesNothing
  <2>3. CASE r.svc # Nobody
    <3>1. Row("service", r.svc) \in r.held /\ r.held \cap tx[u].held = {}
      BY <2>3, <1>1, SaveMovesOwn DEF HubInv, TwoFit
    <3>2. s # r.svc
      BY <2>3, <3>1
    <3>3. CASE p \in DOMAIN r.write
      <4>1. term'[p].svc = r.svc /\ term[p].svc \in {Nobody, r.svc}
        BY <2>3, <3>3, <1>1, SaveMovesOwn
      <4>2. ~(term[p].live /\ term[p].svc = s)
        BY <2>1, <3>2, <4>1
      <4> QED BY <3>2, <4>1, <4>2
    <3>4. CASE p \notin DOMAIN r.write
      BY <3>4, <1>1, RowsGo
    <3> QED BY <3>3, <3>4
  <2> QED BY <2>2, <2>3
<1>3. Own(s)' = Own(s)
  BY <1>2 DEF Own
<1>4. \A p \in Own(s) : term'[p].table = term[p].table
  BY <1>2 DEF Own
<1> QED BY <1>3, <1>4 DEF TablesOf

LEMMA OthersTables ==
    ASSUME HubInv, NEW t \in Txs, ToCommit(t), NEW u \in Txs \ {t}, NEW tb \in Tables
    PROVE  /\ Row("table", tb) \in tx[u].held /\ table[tb] = "live" => table'[tb] = "live"
           /\ tb \in tx[u].made /\ table[tb] = "unused" => table'[tb] = "unused"
           /\ Row("table", tb) \in tx[u].held /\ table[tb] = "live" =>
                 \A p \in Terms : (term'[p].live /\ term'[p].table = tb) <=> (term[p].live /\ term[p].table = tb)
<1>1. PICK r : r = tx[t]
  OBVIOUS
<1>2. r.held \cap tx[u].held = {} /\ r.made \cap tx[u].made = {}
  BY <1>1 DEF HubInv, TwoFit, Aside
<1>3. CASE r.svc = Nobody
  <2>1. table'[tb] = table[tb]
    BY <1>1, <1>3, FormMovesNothing, TableGoes
  <2> QED BY <2>1, <1>1, <1>3, FormMovesNothing
<1>4. CASE r.svc # Nobody
  <2>1. /\ \A x \in r.gone : Row("table", x) \in r.held /\ x \in TablesOf(r.svc)
        /\ \A x \in r.body \cup TablesOf(r.svc) : x \in r.made \/ Row("table", x) \in r.held
        /\ \A x \in r.made : table[x] = "unused"
    BY <1>1, <1>4, SaveMovesOwn
  <2>2. \A x \in TablesOf(r.svc) : table[x] = "live"
    BY DEF HubInv, TablesHoldTerms, TablesOf, Own
  <2>3. Row("table", tb) \in tx[u].held /\ table[tb] = "live" => tb \notin r.gone /\ tb \notin r.made
    BY <2>1, <1>2
  <2>4. tb \in tx[u].made /\ table[tb] = "unused" => tb \notin r.gone /\ tb \notin r.made
    BY <2>1, <2>2, <1>2
  <2>5. ASSUME Row("table", tb) \in tx[u].held, table[tb] = "live", NEW p \in Terms
        PROVE  (term'[p].live /\ term'[p].table = tb) <=> (term[p].live /\ term[p].table = tb)
    <3>1. tb \notin r.body /\ tb \notin TablesOf(r.svc)
      BY <2>1, <2>5, <1>2
    <3>2. CASE p \in DOMAIN r.write
      BY <3>1, <3>2, <1>1, <1>4, SaveMovesOwn
    <3>3. CASE p \notin DOMAIN r.write
      BY <3>3, <1>1, RowsGo
    <3> QED BY <3>2, <3>3
  <2> QED BY <2>3, <2>4, <2>5, <1>1, TableGoes
<1> QED BY <1>3, <1>4

\* A logical term is recorded by one transaction at a time.
LEMMA OneRecorder ==
    ASSUME HubInv, NEW t \in Txs, ToCommit(t), NEW u \in Txs \ {t}, NEW l \in DOMAIN tx[t].hist
    PROVE  ~Claims(tx[u], l)
<1>1. Claims(tx[t], l) /\ l \in Logicals /\ Nobody \notin Logicals
  BY ExistsStays, IdsAssumption
<1>2. /\ tx[t].held \cap tx[u].held = {}
      /\ tx[t].logical = tx[u].logical /\ tx[t].logical # Nobody => Exists(tx[t].logical)
  BY DEF HubInv, TwoFit, Aside
<1>3. /\ Row("logical", l) \in tx[t].held => Exists(l)
      /\ Row("logical", l) \in tx[u].held => Exists(l)
  BY DEF HubInv, TxFits, TxTyped
<1> QED BY <1>1, <1>2, <1>3 DEF Claims


LEMMA OthersWriting ==
    ASSUME HubInv, NEW t \in Txs, ToCommit(t), NEW u \in Txs \ {t}, NEW q, q = tx[u], WriteFits(q), q.pc = "record"
    PROVE  WriteFits(q)'
<1>1. TxFits(q) /\ Aside(tx[t], q)
  BY DEF HubInv, TwoFit
<1>2. ASSUME NEW l \in Logicals, l = q.logical, ~Exists(l) PROVE ~Exists(l)'
  <2>1. Claims(q, l)
    BY <1>2 DEF Claims
  <2>2. l \notin DOMAIN tx[t].hist
    BY <2>1, OneRecorder
  <2> QED BY <2>2, <1>2, ExistsStays
<1>3. \A l \in Logicals : Exists(l) => Exists(l)'
  BY ExistsStays
<1>4. \A l \in Logicals : Claims(q, l) => Claims(q, l)'
  BY <1>2 DEF Claims
<1>5. q.affected \subseteq Logicals /\ DOMAIN q.hist \subseteq Logicals /\ DOMAIN q.write \subseteq Terms
  BY <1>1 DEF TxFits, TxTyped
<1>6. \A p \in DOMAIN q.write : term'[p] = term[p]
  BY <1>1, <1>5, RowsGo DEF Aside
<1>7. \A p \in DOMAIN q.write : RowFits(q, p)'
  <2> SUFFICES ASSUME NEW p \in DOMAIN q.write PROVE RowFits(q, p)'
    OBVIOUS
  <2>1. RowFits(q, p) /\ term'[p] = term[p] /\ q.write[p] \in Rec
    BY <1>1, <1>6 DEF WriteFits, TxFits, TxTyped
  <2>2. \A l \in Logicals : Exists(l) => logical'[l].version > 0
    BY <1>3 DEF Exists
  <2>3. q.write[p].logical # Nobody => Exists(q.write[p].logical)' \/ q.write[p].logical = q.logical
    BY <2>1, <2>2 DEF RowFits, Rec, Exists
  <2> QED BY <2>1, <2>3 DEF RowFits, Differs
\* The rows it sees.
<1>8. \A l \in DOMAIN q.hist : Shows(q, l)' = Shows(q, l)
  <2> SUFFICES ASSUME NEW l \in DOMAIN q.hist PROVE Shows(q, l)' = Shows(q, l)
    OBVIOUS
  <2>1. l \in Logicals /\ l \notin DOMAIN tx[t].hist
    BY <1>5, OneRecorder DEF WriteFits
  <2>2. ASSUME NEW p \in Terms
        PROVE  /\ (Sees(q)'[p].live /\ Sees(q)'[p].logical = l) <=> (Sees(q)[p].live /\ Sees(q)[p].logical = l)
               /\ Sees(q)[p].live /\ Sees(q)[p].logical = l => Sees(q)'[p].table = Sees(q)[p].table
    <3>1. CASE p \in DOMAIN q.write
      BY <3>1 DEF Sees
    <3>2. CASE p \notin DOMAIN q.write
      BY <3>2, <2>1, TermsMoveRecorded DEF Sees
    <3> QED BY <3>1, <3>2
  <2> QED BY <2>2 DEF Shows
<1>9. q.svc = Nobody \/ Row("service", q.svc) \in q.held
  BY <1>1 DEF TxFits, SaveFits
<1>10. q.gone = {tb \in TablesOf(q.svc)' \ q.body : LiveIn(Sees(q)', tb) = {}}
  <2>1. TablesOf(q.svc)' = TablesOf(q.svc)
    BY <1>9, OthersServices
  <2>2. ASSUME NEW tb \in TablesOf(q.svc) PROVE LiveIn(Sees(q)', tb) = LiveIn(Sees(q), tb)
    <3>1. q.svc # Nobody
      BY NobodysTables
    <3>2. Row("table", tb) \in q.held /\ tb \in Tables
      BY <3>1, <1>1, OwnTables DEF TxFits, SaveFits, Rows
    <3>3. table[tb] = "live"
      BY DEF HubInv, TablesHoldTerms, TablesOf, Own
    <3>4. \A p \in Terms : (term'[p].live /\ term'[p].table = tb) <=> (term[p].live /\ term[p].table = tb)
      BY <3>2, <3>3, OthersTables
    <3>5. \A p \in Terms : (Sees(q)'[p].live /\ Sees(q)'[p].table = tb) <=> (Sees(q)[p].live /\ Sees(q)[p].table = tb)
      BY <3>4 DEF Sees
    <3> QED BY <3>5 DEF LiveIn
  <2>3. q.gone = {tb \in TablesOf(q.svc) \ q.body : LiveIn(Sees(q), tb) = {}}
    BY DEF WriteFits
  <2> QED BY <2>1, <2>2, <2>3
<1>11. \A l \in q.affected : Exists(l)' \/ (q.affected = {l} /\ l = q.logical)
  BY <1>3, <1>5 DEF WriteFits
<1>12. ASSUME q.affected # {}
       PROVE  \/ Row("logical", Min(q.affected)) \in q.want \cup q.held
              \/ Min(q.affected) = q.logical /\ ~Exists(Min(q.affected))'
  <2>1. PICK l : l = Min(q.affected)
    OBVIOUS
  <2>2. l \in Logicals
    BY <2>1, <1>5, <1>12, NextRow
  <2>3. Row("logical", l) \in q.want \cup q.held \/ (l = q.logical /\ ~Exists(l))
    BY <2>1, <1>12 DEF WriteFits
  <2>4. Row("logical", l) \in q.want \cup q.held \/ (l = q.logical /\ ~Exists(l)')
    BY <2>2, <2>3, <1>2
  <2> QED BY <2>1, <2>4
<1>13. \A l \in DOMAIN q.hist : /\ Claims(q, l)' /\ q.hist[l].version \in Nat \ {0}
                               /\ q.hist[l].terms = Shows(q, l)'
  BY <1>4, <1>5, <1>8 DEF WriteFits
<1>14. /\ q.svc # Nobody => \A tb \in q.body : \E p \in DOMAIN q.write : q.write[p].live /\ q.write[p].table = tb
       /\ q.svc = Nobody => q.logical \in q.affected \cup DOMAIN q.hist
  BY DEF WriteFits
<1> QED BY <1>7, <1>10, <1>11, <1>12, <1>13, <1>14 DEF WriteFits

LEMMA OthersFit ==
    ASSUME HubInv, NEW t \in Txs, ToCommit(t), NEW u \in Txs \ {t}, NEW q, q = tx[u]
    PROVE  TxFits(q)'
<1>1. TxFits(q) /\ TwoFit(tx[t], q)
  BY DEF HubInv
<1>2. \A l \in Logicals : Exists(l) => Exists(l)'
  BY ExistsStays
<1>3. TxTyped(q)'
  BY <1>1, <1>2 DEF TxFits, TxTyped
<1>4. q.svc = Nobody \/ Row("service", q.svc) \in q.held =>
         Own(q.svc)' = Own(q.svc) /\ TablesOf(q.svc)' = TablesOf(q.svc)
  BY OthersServices
<1>5. SaveFits(q)'
  <2>1. q.svc # Nobody /\ q.pc \in {"logicals", "terms", "record"} =>
          /\ \A tb \in q.body \ q.made : table'[tb] = "live"
          /\ \A tb \in q.made : table'[tb] = "unused"
    <3> SUFFICES ASSUME q.svc # Nobody, q.pc \in {"logicals", "terms", "record"}
                 PROVE  /\ \A tb \in q.body \ q.made : table'[tb] = "live"
                        /\ \A tb \in q.made : table'[tb] = "unused"
      OBVIOUS
    <3>1. /\ q.body \subseteq Tables /\ q.made \subseteq Tables
          /\ \A tb \in q.body \ q.made : Row("table", tb) \in q.held /\ table[tb] = "live"
          /\ \A tb \in q.made : table[tb] = "unused"
      BY <1>1 DEF TxFits, TxTyped, SaveFits, Rows
    <3> QED BY <3>1, OthersTables
  <2>2. q.svc # Nobody /\ q.pc \in {"logicals", "terms"} =>
           \A l \in q.asked \cup q.affected : l \in Logicals /\ Exists(l)'
    BY <1>1, <1>2 DEF TxFits, SaveFits
  <2> QED BY <2>1, <2>2, <1>1, <1>4 DEF TxFits, SaveFits
<1>6. FormFits(q)'
  <2>1. q.pc = "new" => ~Exists(q.logical)'
    <3> SUFFICES ASSUME q.pc = "new" PROVE ~Exists(q.logical)'
      OBVIOUS
    <3>1. q.logical \in Logicals /\ ~Exists(q.logical) /\ Claims(q, q.logical)
      BY <1>1 DEF TxFits, FormFits, Claims
    <3>2. q.logical \notin DOMAIN tx[t].hist
      BY <3>1, OneRecorder
    <3> QED BY <3>1, <3>2, ExistsStays
  <2>2. q.pc = "asked" => \A p \in Terms : term'[p].logical = q.logical => term[p].logical = q.logical
    <3> SUFFICES ASSUME q.pc = "asked", NEW p \in Terms, term'[p].logical = q.logical
                 PROVE  term[p].logical = q.logical
      OBVIOUS
    <3>1. Row("logical", q.logical) \in q.held /\ q.logical \in Logicals
      BY <1>1 DEF TxFits, FormFits, TxTyped
    <3>2. q.logical \notin DOMAIN tx[t].hist
      BY <3>1, OneRecorder DEF Claims
    <3> QED BY <3>1, <3>2, TermsMoveRecorded
  <2>3. q.pc = "asked" => {p \in Terms : term'[p].logical = q.logical} \subseteq {p \in Terms : term[p].logical = q.logical}
    BY <2>2
  <2> QED BY <2>1, <2>3, <1>1 DEF TxFits, FormFits, Rows
<1>7. q.pc = "record" => WriteFits(q)'
  BY <1>1, OthersWriting DEF TxFits
<1> QED BY <1>3, <1>5, <1>6, <1>7 DEF TxFits

LEMMA CommitKeeps == ASSUME HubInv, NEW t \in Txs, Commit(t) PROVE HubInv'
<1>1. ToCommit(t)
  BY CommitGoes
<1>2. DOMAIN tx' = Txs /\ tx'[t] = Idle /\ \A u \in Txs \ {t} : tx'[u] = tx[u]
  BY <1>1 DEF ToCommit, HubInv, HubRows
<1>3. ASSUME NEW u \in Txs PROVE TxFits(tx[u])'
  <2>1. PICK q : q = tx'[u]
    OBVIOUS
  <2>2. CASE u # t
    <3>1. TxFits(q)'
      BY <2>1, <2>2, <1>1, <1>2, OthersFit
    <3> QED BY <2>1, <3>1
  <2>3. CASE u = t
    <3>1. TxFits(Idle)'
      BY IdleFits, PTL
    <3> QED BY <2>3, <3>1, <1>2
  <2> QED BY <2>2, <2>3
<1>4. ASSUME NEW u \in Txs, NEW w \in Txs \ {u} PROVE TwoFit(tx[u], tx[w])'
  <2>1. PICK r, q : r = tx'[u] /\ q = tx'[w]
    OBVIOUS
  <2>2. TwoFit(r, q)
    BY <2>1, <1>2, IdleFits DEF HubInv, TwoFit, Aside
  <2>3. r.logical # Nobody => r.logical \in Logicals
    BY <2>1, <1>3 DEF TxFits, TxTyped
  <2>4. TwoFit(r, q)'
    BY <2>2, <2>3, <1>1, ExistsStays DEF TwoFit, Aside
  <2> QED BY <2>1, <2>4
<1> QED BY <1>1, <1>3, <1>4, CommitRows, CommitTables, CommitHistory DEF HubInv

LEMMA HubStarts == HubInit => HubInv
<1> SUFFICES ASSUME HubInit PROVE HubInv
  OBVIOUS
<1>1. PICK init \in InitTerms : term = [p \in Terms |-> IF p \in DOMAIN init THEN init[p] ELSE NoTerm]
  BY DEF HubInit
<1>2. ASSUME NEW p \in Terms
      PROVE  /\ term[p] \in Rec /\ (term[p].svc = Nobody => term[p] = NoTerm)
             /\ (term[p].live => term[p].table \in Tables) /\ (term[p].logical # Nobody => term[p].live)
  <2>1. CASE p \in DOMAIN init
    <3>1. init[p] \in [svc : Services, table : Tables, live : {TRUE}, logical : Logicals \cup {Nobody}]
      BY <2>1, StartAssumption
    <3>2. term[p] = init[p]
      BY <2>1, <1>1
    <3>3. init[p] \in Rec
      BY <3>1 DEF Rec
    <3> QED BY <3>1, <3>2, <3>3, IdsAssumption
  <2>2. CASE p \notin DOMAIN init
    <3>1. term[p] = NoTerm
      BY <2>2, <1>1
    <3> QED BY <3>1 DEF NoTerm, Rec
  <2> QED BY <2>1, <2>2
<1>3. ASSUME NEW l \in Logicals
      PROVE  /\ logical[l].version \in Nat
             /\ Exists(l) <=> \E p \in Terms : term[p].logical = l
             /\ logical[l].terms = {<<p, term[p].table>> : p \in {q \in Terms : term[q].logical = l}}
  <2>1. PICK ps : ps = {p \in Terms : term[p].logical = l}
    OBVIOUS
  <2>2. logical[l] = [version |-> IF ps = {} THEN 0 ELSE 1, terms |-> {<<p, term[p].table>> : p \in ps}]
    BY <2>1 DEF HubInit
  <2>3. logical[l].version = IF ps = {} THEN 0 ELSE 1
    BY <2>2
  <2>4. logical[l].terms = {<<p, term[p].table>> : p \in ps}
    BY <2>2
  <2> QED BY <2>1, <2>3, <2>4 DEF Exists
<1>4. HubRows
  <2>1. \A p \in Terms : term[p].logical # Nobody => Exists(term[p].logical)
    BY <1>2, <1>3 DEF Rec
  <2>2. /\ term \in [Terms -> Rec] /\ DOMAIN tx = Txs /\ DOMAIN logical = Logicals
        /\ table \in [Tables -> {"unused", "live", "deleted"}]
    BY <1>1, <1>2 DEF HubInit
  <2> QED BY <2>1, <2>2, <1>2, <1>3 DEF HubRows
<1>5. TablesHoldTerms
  <2>1. \A tb \in Tables : table[tb] = IF LiveIn(term, tb) = {} THEN "unused" ELSE "live"
    BY DEF HubInit
  <2>2. ASSUME NEW p \in Terms, term[p].live PROVE table[term[p].table] = "live"
    BY <2>1, <2>2, <1>2 DEF LiveIn
  <2> QED BY <2>1, <2>2 DEF TablesHoldTerms
<1>6. HistoryMatches
  <2> SUFFICES ASSUME NEW l \in Logicals PROVE logical[l].terms = {<<p, term[p].table>> : p \in Attached(l)}
    BY DEF HistoryMatches
  <2>1. Attached(l) = {q \in Terms : term[q].logical = l}
    BY <1>2, IdsAssumption DEF Attached
  <2> QED BY <2>1, <1>3
<1>7. \A t \in Txs : tx[t] = Idle
  BY DEF HubInit
<1> QED BY <1>4, <1>5, <1>6, <1>7, IdleFits DEF HubInv

\* What is behind both properties: what a transaction knows is behind a row that it has locked, or
\* is new, so that it stands until its own commit (data-service-source-tables.util.ts,
\* logical-term-write.service.ts).
THEOREM HubInvInvariant == HubSpec => []HubInv
<1>1. HubInv /\ [HubNext]_hubVars => HubInv'
  <2> SUFFICES ASSUME HubInv, [HubNext]_hubVars PROVE HubInv'
    OBVIOUS
  <2>1. ASSUME NEW t \in Txs, DeadlockVictim(t) \/ Abort(t) PROVE HubInv'
    BY <2>1, RefuseKeeps DEF DeadlockVictim, Abort, Refuse
  <2>2. ASSUME UNCHANGED <<table, term, logical, tx>> PROVE HubInv'
    <3>1. HubRows' /\ TablesHoldTerms' /\ HistoryMatches'
      BY <2>2 DEF HubInv, HubRows, TablesHoldTerms, HistoryMatches, Exists, Attached, LiveIn
    <3>2. ASSUME NEW t \in Txs PROVE TxFits(tx[t])'
      <4>1. PICK r : r = tx[t]
        OBVIOUS
      <4>2. TxFits(r)'
        BY <2>2, <4>1, FitsStays DEF HubInv
      <4> QED BY <2>2, <4>1, <4>2
    <3>3. ASSUME NEW t \in Txs, NEW u \in Txs \ {t} PROVE TwoFit(tx[t], tx[u])'
      <4>1. PICK r, q : r = tx[t] /\ q = tx[u]
        OBVIOUS
      <4>2. TwoFit(r, q)'
        BY <2>2, <4>1, PairStays DEF HubInv
      <4> QED BY <2>2, <4>1, <4>2
    <3> QED BY <3>1, <3>2, <3>3 DEF HubInv
  <2>3. ASSUME NEW t \in Txs, NEW s \in Services, SaveService(t, s) PROVE HubInv'
    BY <2>3, SaveServiceKeeps
  <2>4. ASSUME NEW t \in Txs, SaveTables(t) \/ SaveResolve(t) \/ SaveTerms(t) \/ SaveWrite(t) PROVE HubInv'
    BY <2>4, SaveTablesKeeps, SaveResolveKeeps, SaveTermsKeeps, SaveWriteKeeps
  <2>5. ASSUME NEW t \in Txs, NEW l \in Logicals, CreateLogical(t, l) \/ EditLogical(t, l) PROVE HubInv'
    BY <2>5, CreateLogicalKeeps, EditLogicalKeeps
  <2>6. ASSUME NEW t \in Txs, EditTerms(t) \/ CreateApply(t) \/ EditApply(t) PROVE HubInv'
    BY <2>6, EditTermsKeeps, CreateApplyKeeps, EditApplyKeeps
  <2>7. ASSUME NEW t \in Txs, Record(t) \/ Commit(t) \/ Resume(t) PROVE HubInv'
    BY <2>7, RecordKeeps, CommitKeeps, ResumeKeeps
  <2>8. CASE UNCHANGED hubVars
    BY <2>2, <2>8 DEF hubVars
  <2>9. ASSUME NEW s \in Services, SetStatus(s) PROVE HubInv'
    BY <2>2, <2>9 DEF SetStatus
  <2> QED BY <2>1, <2>3, <2>4, <2>5, <2>6, <2>7, <2>8, <2>9 DEF HubNext
<1> QED BY <1>1, HubStarts, PTL DEF HubSpec

\* A source table is live exactly while live terms are in it, however many services and logical-term
\* forms are saved at once, waited for, refused or cut off.
THEOREM TablesHoldTermsAlways == HubSpec => []TablesHoldTerms
<1>1. HubInv => TablesHoldTerms
  BY DEF HubInv
<1> QED BY <1>1, HubInvInvariant, PTL

\* The newest history entry of a logical term shows the terms attached to it, whoever moved them last
\* (recordVersions, called at the end of every transaction that moves a term).
THEOREM HistoryMatchesAlways == HubSpec => []HistoryMatches
<1>1. HubInv => HistoryMatches
  BY DEF HubInv
<1> QED BY <1>1, HubInvInvariant, PTL

(***************************************************************************)
(* The version numbers                                                     *)
(***************************************************************************)
\* The transactions open; a history entry that one of them has written and not committed.
Busy == {t \in Txs : tx[t].pc # "idle"}
NextEntries(r) == \A l \in DOMAIN r.hist : r.hist[l].version = logical[l].version + 1
\* Each transaction raises the version of a logical term once at most, and by one: an uncommitted
\* entry has the number after the committed one, since nobody else can commit one meanwhile.
HubCounts ==
    /\ active \in [Services -> BOOLEAN] /\ ops \in 0..MaxOps /\ switches \in 0..MaxSwitches
    /\ IsFiniteSet(Busy)
    /\ \A l \in Logicals : /\ logical[l].version + Cardinality(Busy) <= ops + 1
                           /\ ~Exists(l) => logical[l].terms = {}
    /\ \A t \in Txs : NextEntries(tx[t])

\* One transaction goes on, or is over; what it has written has the next numbers.
LEMMA CountsStay ==
    ASSUME HubInv, HubCounts, NEW t \in Txs, NEW g, tx' = [tx EXCEPT ![t] = g],
           g.pc = "idle" \/ tx[t].pc # "idle", NextEntries(g), UNCHANGED <<active, logical, ops, switches>>
    PROVE  HubCounts'
<1>1. DOMAIN tx' = Txs /\ tx'[t] = g /\ \A u \in Txs \ {t} : tx'[u] = tx[u]
  BY DEF HubInv, HubRows
<1>2. Busy' \in SUBSET Busy
  BY <1>1 DEF Busy
<1>3. /\ IsFiniteSet(Busy') /\ Cardinality(Busy') <= Cardinality(Busy)
      /\ Cardinality(Busy) \in Nat /\ Cardinality(Busy') \in Nat
  BY <1>2, FS_Subset, FS_CardinalityType DEF HubCounts
<1>4. ASSUME NEW l \in Logicals
      PROVE  /\ logical'[l].version + Cardinality(Busy') <= ops' + 1
             /\ ~Exists(l)' => logical'[l].terms = {}
  <2>1. logical[l].version \in Nat /\ ops \in Nat
    BY DEF HubInv, HubRows, HubCounts
  <2>2. logical[l].version + Cardinality(Busy) <= ops + 1
    BY DEF HubCounts
  <2>3. logical[l].version + Cardinality(Busy') <= ops + 1
    BY <1>3, <2>1, <2>2
  <2> QED BY <2>3 DEF HubCounts, Exists
<1>5. ASSUME NEW u \in Txs PROVE NextEntries(tx[u])'
  <2>1. CASE u = t
    BY <1>1, <2>1 DEF NextEntries
  <2>2. CASE u # t
    BY <1>1, <2>2 DEF HubCounts, NextEntries
  <2> QED BY <2>1, <2>2
<1> QED BY <1>3, <1>4, <1>5 DEF HubCounts

LEMMA IdleEntries == NextEntries(Idle) /\ Idle.pc = "idle"
BY DEF NextEntries, Idle

\* The statements keep the entries, but for Record's.
LEMMA BeginCounts ==
    ASSUME HubInv, HubCounts, NEW t \in Txs, tx[t].pc # "idle", NEW rec, NEW rows, Begin(t, rec, rows),
           DOMAIN rec = TxFields, NextEntries(rec), UNCHANGED <<active, logical, ops, switches>>
    PROVE  HubCounts'
<1>1. PICK g : g = [rec EXCEPT !.want = rows, !.held = @ \cup Grabbed(t, rows)]
  OBVIOUS
<1>2. g.hist = rec.hist
  BY <1>1 DEF TxFields
<1>3. tx' = [tx EXCEPT ![t] = g]
  BY <1>1 DEF Begin
<1>4. NextEntries(g)
  BY <1>2 DEF NextEntries
<1> QED BY <1>3, <1>4, CountsStay

LEMMA MoveCounts ==
    ASSUME HubInv, HubCounts, NEW t \in Txs,
           \/ SaveTables(t) \/ SaveTerms(t) \/ SaveWrite(t) \/ EditTerms(t) \/ CreateApply(t) \/ EditApply(t)
           \/ SaveResolve(t) \/ Resume(t)
    PROVE  HubCounts'
<1> DEFINE Keeps(rec) == DOMAIN rec = TxFields /\ rec.hist = tx[t].hist
<1>0. DOMAIN tx[t] = TxFields /\ NextEntries(tx[t])
  BY DEF HubInv, TxFits, TxTyped, HubCounts
<1>1. ASSUME tx[t].pc # "idle", NEW rec, NEW rows, Keeps(rec), Begin(t, rec, rows),
             UNCHANGED <<active, logical, ops, switches>>
      PROVE  HubCounts'
  <2>1. NextEntries(rec)
    BY <1>0, <1>1 DEF NextEntries
  <2> QED BY <1>1, <2>1, BeginCounts
<1>2. ASSUME Refuse(t), UNCHANGED <<active, logical, ops, switches>> PROVE HubCounts'
  BY <1>2, IdleEntries, CountsStay DEF Refuse
<1>3. CASE SaveTables(t)
  <2>1. PICK body : Begin(t, [tx[t] EXCEPT !.pc = "tables", !.body = body],
                          Rows("table", TablesOf(tx[t].svc) \cup body))
    BY <1>3 DEF SaveTables
  <2>2. PICK rec : rec = [tx[t] EXCEPT !.pc = "tables", !.body = body]
    OBVIOUS
  <2>3. Keeps(rec)
    BY <1>0, <2>2 DEF TxFields
  <2> HIDE DEF Keeps
  <2> QED BY <1>1, <1>3, <2>1, <2>2, <2>3 DEF SaveTables, At
<1>4. CASE SaveTerms(t)
  <2>1. PICK rec : rec = [tx[t] EXCEPT !.pc = "terms"]
    OBVIOUS
  <2>2. Keeps(rec)
    BY <1>0, <2>1 DEF TxFields
  <2> HIDE DEF Keeps
  <2> QED BY <1>1, <1>4, <2>1, <2>2 DEF SaveTerms, At
<1>5. CASE SaveWrite(t)
  <2>1. PICK write, affected, gone, rows :
           Begin(t, [tx[t] EXCEPT !.pc = "record", !.write = write, !.affected = affected, !.gone = gone], rows)
    BY <1>5, Zenon DEF SaveWrite
  <2>2. PICK rec : rec = [tx[t] EXCEPT !.pc = "record", !.write = write, !.affected = affected, !.gone = gone]
    OBVIOUS
  <2>3. Keeps(rec)
    BY <1>0, <2>2 DEF TxFields
  <2> HIDE DEF Keeps
  <2> QED BY <1>1, <1>5, <2>1, <2>2, <2>3 DEF SaveWrite, At
<1>6. CASE EditTerms(t)
  <2>1. PICK asked, rows : Begin(t, [tx[t] EXCEPT !.pc = "asked", !.asked = asked], rows)
    BY <1>6, Zenon DEF EditTerms
  <2>2. PICK rec : rec = [tx[t] EXCEPT !.pc = "asked", !.asked = asked]
    OBVIOUS
  <2>3. Keeps(rec)
    BY <1>0, <2>2 DEF TxFields
  <2> HIDE DEF Keeps
  <2> QED BY <1>1, <1>6, <2>1, <2>2, <2>3 DEF EditTerms, At
<1>7. CASE CreateApply(t) \/ EditApply(t)
  <2>1. CASE Refuse(t)
    BY <1>2, <1>7, <2>1 DEF CreateApply, EditApply
  <2>2. CASE ~Refuse(t)
    <3>1. PICK affected, write, rows :
             Begin(t, [tx[t] EXCEPT !.pc = "record", !.affected = affected, !.write = write], rows)
      BY <1>7, <2>2, Zenon DEF CreateApply, EditApply
    <3>2. PICK rec : rec = [tx[t] EXCEPT !.pc = "record", !.affected = affected, !.write = write]
      OBVIOUS
    <3>3. Keeps(rec)
      BY <1>0, <3>2 DEF TxFields
    <3> HIDE DEF Keeps
    <3> QED BY <1>1, <1>7, <3>1, <3>2, <3>3 DEF CreateApply, EditApply, At
  <2> QED BY <2>1, <2>2
<1>8. CASE SaveResolve(t)
  <2>1. CASE Refuse(t)
    BY <1>2, <1>8, <2>1 DEF SaveResolve
  <2>2. CASE ~Refuse(t)
    <3>1. PICK mapped, affected, made, asked, body, rows :
             Begin(t, [tx[t] EXCEPT !.pc = "logicals", !.mapped = mapped, !.affected = affected,
                                    !.made = made, !.asked = asked, !.body = body], rows)
      BY <1>8, <2>2, Zenon DEF SaveResolve
    <3>2. PICK rec : rec = [tx[t] EXCEPT !.pc = "logicals", !.mapped = mapped, !.affected = affected,
                                         !.made = made, !.asked = asked, !.body = body]
      OBVIOUS
    <3>3. Keeps(rec)
      BY <1>0, <3>2 DEF TxFields
    <3> HIDE DEF Keeps
    <3> QED BY <1>1, <1>8, <3>1, <3>2, <3>3 DEF SaveResolve, At
  <2> QED BY <2>1, <2>2
<1>9. CASE Resume(t)
  <2>1. tx[t].pc # "idle"
    BY <1>9, IdleIsIdle DEF Resume, Done, Idle
  <2>2. Keeps(tx[t])
    BY <1>0
  <2> HIDE DEF Keeps
  <2> QED BY <1>1, <1>9, <2>1, <2>2 DEF Resume
<1> QED BY <1>3, <1>4, <1>5, <1>6, <1>7, <1>8, <1>9

\* recordVersion: the entry of one more logical term.
LEMMA RecordCounts == ASSUME HubInv, HubCounts, NEW t \in Txs, Record(t) PROVE HubCounts'
<1>1. PICK l, rest, terms : l = Min(tx[t].affected) /\ rest = tx[t].affected \ {l} /\ terms = Snapshot(t, l)
  OBVIOUS
<1>2. PICK entry : entry = [version |-> logical[l].version + 1, terms |-> terms]
  OBVIOUS
<1>3. PICK hist : hist = [m \in {l} \cup DOMAIN tx[t].hist |-> IF m = l THEN entry ELSE tx[t].hist[m]]
  OBVIOUS
<1>4. PICK rec : rec = [tx[t] EXCEPT !.affected = rest, !.hist = hist]
  OBVIOUS
<1>5. Begin(t, rec, NextVersion(rest)) /\ UNCHANGED <<active, logical, ops, switches>> /\ tx[t].pc # "idle"
  BY <1>1, <1>2, <1>3, <1>4 DEF Record, At
<1>6. DOMAIN rec = TxFields /\ rec.hist = hist
  <2>1. DOMAIN tx[t] = TxFields
    BY DEF HubInv, TxFits, TxTyped
  <2> QED BY <1>4, <2>1 DEF TxFields
<1>7. ASSUME NEW m \in DOMAIN hist PROVE hist[m].version = logical[m].version + 1
  <2>1. CASE m = l
    BY <1>2, <1>3, <2>1
  <2>2. CASE m # l
    <3>1. m \in DOMAIN tx[t].hist /\ hist[m] = tx[t].hist[m]
      BY <1>3, <2>2
    <3> QED BY <3>1 DEF HubCounts, NextEntries
  <2> QED BY <2>1, <2>2
<1>8. NextEntries(rec)
  BY <1>6, <1>7 DEF NextEntries
<1> QED BY <1>5, <1>6, <1>8, BeginCounts

\* A transaction begins: one more is open.
LEMMA StartCounts ==
    ASSUME HubInv, HubCounts, NEW t \in Txs, NEW rec, NEW rows, Start(t), Begin(t, rec, rows),
           DOMAIN rec = TxFields, rec.hist = <<>>, UNCHANGED <<active, logical, switches>>
    PROVE  HubCounts'
<1>1. PICK g : g = [rec EXCEPT !.want = rows, !.held = @ \cup Grabbed(t, rows)]
  OBVIOUS
<1>2. g.hist = <<>>
  BY <1>1 DEF TxFields
<1>3. DOMAIN tx' = Txs /\ tx'[t] = g /\ \A u \in Txs \ {t} : tx'[u] = tx[u]
  BY <1>1 DEF Begin, HubInv, HubRows
<1>4. Busy' \in SUBSET (Busy \cup {t}) /\ t \notin Busy
  BY <1>3 DEF Busy, Start
<1>5. PICK more : more = Busy \cup {t}
  OBVIOUS
<1>6. /\ IsFiniteSet(more) /\ Cardinality(more) = Cardinality(Busy) + 1 /\ Cardinality(Busy) \in Nat
  BY <1>4, <1>5, FS_AddElement, FS_CardinalityType DEF HubCounts
<1>7. IsFiniteSet(Busy') /\ Cardinality(Busy') <= Cardinality(Busy) + 1 /\ Cardinality(Busy') \in Nat
  BY <1>4, <1>5, <1>6, FS_Subset, FS_CardinalityType
<1>8. ops \in Nat /\ ops' = ops + 1 /\ ops' \in 0..MaxOps
  BY HubBoundsAssumption DEF Start, HubCounts
<1>9. ASSUME NEW l \in Logicals
      PROVE  /\ logical'[l].version + Cardinality(Busy') <= ops' + 1
             /\ ~Exists(l)' => logical'[l].terms = {}
  <2>1. logical[l].version \in Nat
    BY DEF HubInv, HubRows
  <2>2. logical[l].version + Cardinality(Busy) <= ops + 1
    BY DEF HubCounts
  <2>3. logical[l].version + Cardinality(Busy') <= ops' + 1
    BY <1>6, <1>7, <1>8, <2>1, <2>2
  <2> QED BY <2>3 DEF HubCounts, Exists
<1>10. ASSUME NEW u \in Txs PROVE NextEntries(tx[u])'
  <2>1. CASE u = t
    BY <1>2, <1>3, <2>1 DEF NextEntries
  <2>2. CASE u # t
    BY <1>3, <2>2 DEF HubCounts, NextEntries
  <2> QED BY <2>1, <2>2
<1> QED BY <1>7, <1>8, <1>9, <1>10 DEF HubCounts

\* A commit ends a transaction, and raises by one the versions that it has recorded, which nobody
\* else has.
LEMMA CommitCounts == ASSUME HubInv, HubCounts, NEW t \in Txs, Commit(t) PROVE HubCounts'
<1>1. ToCommit(t) /\ UNCHANGED <<active, ops, switches>> /\ tx[t].pc = "record"
  BY CommitGoes DEF Commit, At
<1>2. DOMAIN tx' = Txs /\ tx'[t] = Idle /\ \A u \in Txs \ {t} : tx'[u] = tx[u]
  BY <1>1 DEF ToCommit, HubInv, HubRows
<1>3. Busy' = Busy \ {t} /\ t \in Busy
  BY <1>1, <1>2, IdleEntries DEF Busy
<1>4. IsFiniteSet(Busy') /\ Cardinality(Busy') = Cardinality(Busy) - 1 /\ Cardinality(Busy) \in Nat
  BY <1>3, FS_RemoveElement, FS_CardinalityType DEF HubCounts
<1>5. ASSUME NEW l \in Logicals
      PROVE  /\ logical'[l].version <= logical[l].version + 1
             /\ logical[l].version \in Nat /\ logical'[l].version \in Nat
             /\ ~Exists(l)' => logical'[l].terms = {}
  <2>1. logical[l].version \in Nat
    BY DEF HubInv, HubRows
  <2>2. CASE l \in DOMAIN tx[t].hist
    <3>1. logical'[l] = tx[t].hist[l]
      BY <1>1, <2>2 DEF ToCommit
    <3>2. tx[t].hist[l].version = logical[l].version + 1
      BY <2>2 DEF HubCounts, NextEntries
    <3> QED BY <2>1, <3>1, <3>2 DEF Exists
  <2>3. CASE l \notin DOMAIN tx[t].hist
    <3>1. logical'[l] = logical[l]
      BY <1>1, <2>3 DEF ToCommit
    <3> QED BY <2>1, <3>1 DEF HubCounts, Exists
  <2> QED BY <2>2, <2>3
<1>6. ASSUME NEW l \in Logicals PROVE logical'[l].version + Cardinality(Busy') <= ops' + 1
  <2>1. logical[l].version + Cardinality(Busy) <= ops + 1 /\ ops \in Nat
    BY DEF HubCounts
  <2> QED BY <1>1, <1>4, <1>5, <2>1
<1>7. ASSUME NEW u \in Txs PROVE NextEntries(tx[u])'
  <2>1. CASE u = t
    BY <1>2, <2>1 DEF NextEntries, Idle
  <2>2. CASE u # t
    <3>1. PICK q : q = tx[u]
      OBVIOUS
    <3>2. TxTyped(q) /\ (q.pc = "record" => WriteFits(q))
      BY <3>1 DEF HubInv, TxFits
    <3>3. ASSUME NEW l \in DOMAIN q.hist PROVE logical'[l] = logical[l]
      <4>1. Claims(q, l) /\ l \in Logicals
        BY <3>2, <3>3 DEF TxTyped, WriteFits
      <4>2. l \notin DOMAIN tx[t].hist
        BY <1>1, <2>2, <3>1, <4>1, OneRecorder
      <4> QED BY <1>1, <4>1, <4>2 DEF ToCommit
    <3>4. \A l \in DOMAIN q.hist : q.hist[l].version = logical[l].version + 1
      BY <3>1 DEF HubCounts, NextEntries
    <3>5. tx'[u] = q
      BY <1>2, <2>2, <3>1
    <3> QED BY <3>3, <3>4, <3>5 DEF NextEntries
  <2> QED BY <2>1, <2>2
<1> QED BY <1>1, <1>4, <1>5, <1>6, <1>7 DEF HubCounts

LEMMA HubCountsInitially == HubInit => HubCounts
<1> SUFFICES ASSUME HubInit PROVE HubCounts
  OBVIOUS
<1>1. Busy = {}
  BY IdleEntries DEF HubInit, Busy
<1>2. IsFiniteSet(Busy) /\ Cardinality(Busy) = 0
  BY <1>1, FS_EmptySet
<1>3. ASSUME NEW l \in Logicals
      PROVE  logical[l].version \in {0, 1} /\ (~Exists(l) => logical[l].terms = {})
  <2>1. PICK ps : ps = {p \in Terms : term[p].logical = l}
    OBVIOUS
  <2>2. logical[l] = [version |-> IF ps = {} THEN 0 ELSE 1, terms |-> {<<p, term[p].table>> : p \in ps}]
    BY <2>1 DEF HubInit
  <2>3. logical[l].version = (IF ps = {} THEN 0 ELSE 1) /\ logical[l].terms = {<<p, term[p].table>> : p \in ps}
    BY <2>2
  <2> QED BY <2>3 DEF Exists
<1>4. \A t \in Txs : NextEntries(tx[t])
  BY IdleEntries DEF HubInit, NextEntries
<1>5. ops \in 0..MaxOps /\ switches \in 0..MaxSwitches /\ active \in [Services -> BOOLEAN] /\ ops = 0
  BY HubBoundsAssumption DEF HubInit
<1> QED BY <1>2, <1>3, <1>4, <1>5 DEF HubCounts

LEMMA HubCountsStep == ASSUME HubInv, HubCounts, [HubNext]_hubVars PROVE HubCounts'
<1>1. ASSUME UNCHANGED <<logical, tx, ops>>, active' \in [Services -> BOOLEAN], switches' \in 0..MaxSwitches
      PROVE  HubCounts'
  <2>1. Busy' = Busy
    BY <1>1 DEF Busy
  <2>2. \A t \in Txs : NextEntries(tx[t])'
    BY <1>1 DEF HubCounts, NextEntries
  <2> QED BY <1>1, <2>1, <2>2 DEF HubCounts, Exists
<1>2. ASSUME NEW t \in Txs, DeadlockVictim(t) \/ Abort(t) PROVE HubCounts'
  BY <1>2, IdleEntries, CountsStay DEF DeadlockVictim, Abort, Refuse
<1>3. ASSUME NEW t \in Txs, NEW s \in Services, SaveService(t, s) PROVE HubCounts'
  <2>1. PICK rec : rec = [Idle EXCEPT !.pc = "service", !.svc = s]
    OBVIOUS
  <2>2. DOMAIN rec = TxFields /\ rec.hist = <<>>
    BY <2>1 DEF Idle, TxFields
  <2> QED BY <1>3, <2>1, <2>2, StartCounts DEF SaveService
<1>4. ASSUME NEW t \in Txs, NEW l \in Logicals, CreateLogical(t, l) PROVE HubCounts'
  <2>1. PICK asked : Begin(t, [Idle EXCEPT !.pc = "new", !.logical = l, !.asked = asked], Rows("term", asked))
    BY <1>4 DEF CreateLogical
  <2>2. PICK rec : rec = [Idle EXCEPT !.pc = "new", !.logical = l, !.asked = asked]
    OBVIOUS
  <2>3. DOMAIN rec = TxFields /\ rec.hist = <<>>
    BY <2>2 DEF Idle, TxFields
  <2> QED BY <1>4, <2>1, <2>2, <2>3, StartCounts DEF CreateLogical
<1>5. ASSUME NEW t \in Txs, NEW l \in Logicals, EditLogical(t, l) PROVE HubCounts'
  <2>1. PICK rec : rec = [Idle EXCEPT !.pc = "logicals", !.logical = l]
    OBVIOUS
  <2>2. DOMAIN rec = TxFields /\ rec.hist = <<>>
    BY <2>1 DEF Idle, TxFields
  <2> QED BY <1>5, <2>1, <2>2, StartCounts DEF EditLogical
<1>6. ASSUME NEW s \in Services, SetStatus(s) PROVE HubCounts'
  <2>1. active' \in [Services -> BOOLEAN]
    BY <1>6 DEF SetStatus, HubCounts
  <2>2. switches' \in 0..MaxSwitches
    BY <1>6, HubBoundsAssumption DEF SetStatus, HubCounts
  <2> QED BY <1>1, <1>6, <2>1, <2>2 DEF SetStatus
<1>7. CASE UNCHANGED hubVars
  BY <1>1, <1>7 DEF hubVars, HubCounts
<1> QED BY <1>2, <1>3, <1>4, <1>5, <1>6, <1>7, MoveCounts, RecordCounts, CommitCounts DEF HubNext

\* What is behind the bound on the versions: an open transaction has not raised any yet.
THEOREM HubCountsAlways == HubSpec => []HubCounts
BY HubCountsInitially, HubCountsStep, HubInvInvariant, PTL DEF HubSpec

\* Types; a transaction that is over holds no lock and has no write, and a logical term has at most
\* one version for each transaction that has begun (recordVersion).
THEOREM HubTypeCorrect == HubSpec => []HubTypeOK
<1>1. HubInv /\ HubCounts => HubTypeOK
  <2> SUFFICES ASSUME HubInv, HubCounts PROVE HubTypeOK
    OBVIOUS
  <2>1. ASSUME NEW t \in Txs
        PROVE  /\ tx[t].pc \in PCs /\ (tx[t].pc = "idle" => tx[t] = Idle)
               /\ \A p \in DOMAIN tx[t].write : tx[t].write[p] \in Rec
    BY DEF HubInv, TxFits, TxTyped
  <2>2. ASSUME NEW l \in Logicals PROVE logical[l].version \in 0..MaxOps + 1
    <3>1. Cardinality(Busy) \in Nat /\ logical[l].version \in Nat /\ ops \in 0..MaxOps
      BY FS_CardinalityType DEF HubInv, HubRows, HubCounts
    <3>2. logical[l].version + Cardinality(Busy) <= ops + 1
      BY DEF HubCounts
    <3> QED BY <3>1, <3>2, HubBoundsAssumption
  <2>3. ASSUME NEW l \in Logicals PROVE logical[l].terms \subseteq Terms \X Tables
    <3>1. CASE ~Exists(l)
      BY <3>1 DEF HubCounts
    <3>2. CASE Exists(l)
      <4>1. logical[l].terms = {<<p, term[p].table>> : p \in Attached(l)}
        BY <3>2 DEF HubInv, HistoryMatches
      <4>2. \A p \in Attached(l) : p \in Terms /\ term[p].table \in Tables
        BY DEF Attached, HubInv, HubRows
      <4> QED BY <4>1, <4>2
    <3> QED BY <3>1, <3>2
  <2>4. /\ active \in [Services -> BOOLEAN] /\ ops \in 0..MaxOps /\ switches \in 0..MaxSwitches
        /\ term \in [Terms -> Rec] /\ table \in [Tables -> {"unused", "live", "deleted"}]
    BY DEF HubInv, HubRows, HubCounts
  <2> QED BY <2>1, <2>2, <2>3, <2>4 DEF HubTypeOK
<1> QED BY <1>1, HubInvInvariant, HubCountsAlways, PTL
=============================================================================
