------------------------------ MODULE HubTerms ------------------------------
(***************************************************************************)
(* The Data Hub's source tables, physical terms and logical terms, written *)
(* by two kinds of transaction: saving a data service, which replaces its  *)
(* tables and terms (syncSourceTables), and the logical-term form, which   *)
(* replaces the physical terms attached to a logical one.  An action ends  *)
(* one statement that locks rows and begins the next: it picks the rows    *)
(* that its snapshot shows, takes those before the first one that another  *)
(* transaction holds, and waits there (Resume).  What a transaction writes *)
(* stays in its record until Commit, since nobody else can see it.  What   *)
(* the request's body says is chosen where the code first uses it; names,  *)
(* codes and the scope of a user's departments are left out.               *)
(***************************************************************************)
EXTENDS Naturals, FiniteSets, FiniteSetsExt, Relation

CONSTANTS Txs,         \* transactions open at one time
          Services, Tables, Terms, Logicals,   \* row ids, numbers
          Nobody,      \* no service, table or logical term
          InitTerms,   \* what the Data Hub may begin with: terms by id
          MaxOps, MaxSwitches,  \* bounds: transactions, changes of status
          MaxRows      \* bound: terms in a body

ASSUME IdsAssumption == /\ Services \cup Tables \cup Terms \cup Logicals \subseteq Nat
                        /\ Nobody \notin Services \cup Tables \cup Logicals
ASSUME StartAssumption ==
    \A init \in InitTerms : /\ DOMAIN init \subseteq Terms
                            /\ \A p \in DOMAIN init :
                                  init[p] \in [svc : Services, table : Tables, live : {TRUE},
                                               logical : Logicals \cup {Nobody}]

ASSUME HubBoundsAssumption == MaxOps \in Nat /\ MaxSwitches \in Nat

VARIABLES active,      \* status of each service
          table,       \* data_hub_source_tables: unused, live or deleted
          term,        \* data_hub_physical_terms: svc, table, logical, live
          logical,     \* data_hub_logical_terms: version_no, newest history snapshot
          tx,          \* the open transactions
          ops, switches \* transactions begun, changes of status made

hubVars == <<active, table, term, logical, tx, ops, switches>>

NoTerm == [svc |-> Nobody, table |-> Nobody, logical |-> Nobody, live |-> FALSE]
Idle == [pc |-> "idle", svc |-> Nobody, logical |-> Nobody, body |-> {}, mapped |-> {},
         affected |-> {}, asked |-> {}, write |-> <<>>, hist |-> <<>>, made |-> {},
         gone |-> {}, want |-> {}, held |-> {}]
PCs == {"idle", "service", "tables", "logicals", "terms", "asked", "new", "record", "commit"}

(***************************************************************************)
(* Row locks                                                               *)
(***************************************************************************)
Row(kind, id)    == <<kind, id>>
Rows(kind, ids)  == {Row(kind, i) : i \in ids}
Others(t)        == UNION {tx[u].held : u \in Txs \ {t}}
\* ORDER BY id ... FOR UPDATE: the rows before the first one another transaction holds.
Grabbed(t, rows) == {r \in rows : \A q \in rows : q[2] <= r[2] => q \notin Others(t)}
Done(t)          == tx[t].want \subseteq tx[t].held
At(t, pc)        == tx[t].pc = pc /\ Done(t)
\* rec goes on with a statement that locks these rows.
Begin(t, rec, rows) ==
    tx' = [tx EXCEPT ![t] = [rec EXCEPT !.want = rows, !.held = @ \cup Grabbed(t, rows)]]

\* The row a statement waits for is free again.
Resume(t) ==
    /\ ~Done(t) /\ ~(Grabbed(t, tx[t].want) \subseteq tx[t].held)
    /\ Begin(t, tx[t], tx[t].want)
    /\ UNCHANGED <<active, table, term, logical, ops, switches>>

Blocker(t, u) == ~Done(t) /\ \E r \in tx[t].want \ tx[t].held :
                     /\ r \in tx[u].held
                     /\ \A q \in tx[t].want \ tx[t].held : r[2] <= q[2]
WaitsFor   == TransitiveClosure([p \in Txs \X Txs |-> p[1] # p[2] /\ Blocker(p[1], p[2])], Txs)
Deadlocked(t) == WaitsFor[t, t]

\* PostgreSQL's deadlock detector; the client gets a 500.
DeadlockVictim(t) ==
    /\ Deadlocked(t)
    /\ tx' = [tx EXCEPT ![t] = Idle]
    /\ UNCHANGED <<active, table, term, logical, ops, switches>>

\* Variant that forgets to roll back.
RefuseOpen(t) == tx' = [tx EXCEPT ![t].pc = "idle"]
\* A refusal (4xx), a NO_CHANGES or a lost connection: everything is rolled back.
Refuse(t) == tx' = [tx EXCEPT ![t] = Idle]
Abort(t) ==
    /\ tx[t].pc # "idle" /\ Refuse(t)
    /\ UNCHANGED <<active, table, term, logical, ops, switches>>

(***************************************************************************)
(* What a statement of transaction t sees: the committed rows under its own*)
(* writes                                                                  *)
(***************************************************************************)
Seen(t)          == [p \in Terms |-> IF p \in DOMAIN tx[t].write THEN tx[t].write[p] ELSE term[p]]
LiveIn(rows, tb) == {p \in Terms : rows[p].live /\ rows[p].table = tb}
Own(s)           == {p \in Terms : term[p].live /\ term[p].svc = s}
Visible          == {p \in Terms : term[p].live /\ active[term[p].svc]}  \* termOfActiveServiceSql
Attached(l)      == {p \in Terms : term[p].live /\ term[p].logical = l}
Snapshot(t, l)   == {<<p, Seen(t)[p].table>> : p \in {q \in Terms : Seen(t)[q].live /\ Seen(t)[q].logical = l}}
Exists(l)        == logical[l].version > 0

Start(t) == tx[t].pc = "idle" /\ ops < MaxOps /\ ops' = ops + 1

(***************************************************************************)
(* Saving a service (create: a service nobody has terms of yet)            *)
(***************************************************************************)
\* lockService
SaveService(t, s) ==
    /\ Start(t)
    /\ Begin(t, [Idle EXCEPT !.pc = "service", !.svc = s], {Row("service", s)})
    /\ UNCHANGED <<active, table, term, logical, switches>>

TablesOf(s) == {term[p].table : p \in Own(s)}
UpTo(S, n) == {x \in SUBSET S : Cardinality(x) <= n}
Bodies == UpTo({tb \in Tables : table[tb] = "live"}, MaxRows)
\* Variant that locks only the tables the service has now.
SaveTablesPrevious(t) ==
    /\ At(t, "service")
    /\ \E body \in Bodies :
           Begin(t, [tx[t] EXCEPT !.pc = "tables", !.body = body],
                 Rows("table", TablesOf(tx[t].svc)))
    /\ UNCHANGED <<active, table, term, logical, ops, switches>>

\* lockTables: the service's tables and those in the body.
SaveTables(t) ==
    /\ At(t, "service")
    /\ \E body \in Bodies :
           Begin(t, [tx[t] EXCEPT !.pc = "tables", !.body = body],
                 Rows("table", TablesOf(tx[t].svc) \cup body))
    /\ UNCHANGED <<active, table, term, logical, ops, switches>>

\* nextval
NewTables == {tb \in Tables : table[tb] = "unused" /\ \A u \in Txs : tb \notin tx[u].made}
Usable(s, tb) == LiveIn(term, tb) \cap (Own(s) \cup Visible) # {}
\* resolveTables, then `mapped`, then lockLogicalTerms: the logical terms now behind the service's
\* terms and the renamed tables, and those the body picks.
SaveResolve(t) ==
    /\ At(t, "tables")
    /\ IF \E tb \in tx[t].body : table[tb] # "live" \/ ~Usable(tx[t].svc, tb)
       THEN Refuse(t)
       ELSE \E renamed \in SUBSET tx[t].body,
               made \in UpTo(NewTables, MaxRows - Cardinality(tx[t].body)),
               picked \in SUBSET {l \in Logicals : Exists(l)} :
              LET inRenamed == {term[p].logical : p \in UNION {LiveIn(term, tb) : tb \in renamed}}
                  mapped == ({term[p].logical : p \in Own(tx[t].svc)} \cup inRenamed) \ {Nobody}
              IN  Begin(t, [tx[t] EXCEPT !.pc = "logicals", !.mapped = mapped,
                                !.affected = inRenamed \ {Nobody}, !.made = made,
                                !.asked = picked, !.body = @ \cup made],
                        Rows("logical", mapped \cup picked))
    /\ UNCHANGED <<active, table, term, logical, ops, switches>>

\* The service's terms as they are now.
SaveTerms(t) ==
    /\ At(t, "logicals") /\ tx[t].svc # Nobody
    /\ Begin(t, [tx[t] EXCEPT !.pc = "terms"], Rows("term", Own(tx[t].svc)))
    /\ UNCHANGED <<active, table, term, logical, ops, switches>>

\* nextval: at most one new term in a save.
NextIds == LET unused == {p \in Terms : term[p].svc = Nobody
                                        /\ \A u \in Txs : p \notin DOMAIN tx[u].write}
           IN  IF unused = {} THEN {} ELSE {Min(unused)}
\* A kept term with the logical term it had or one the body names, a new one with one of those.
Wanted(t, ids) ==
    {w \in [ids -> [svc : {tx[t].svc}, table : tx[t].body, live : {TRUE},
                    logical : {Nobody} \cup tx[t].asked \cup {term[p].logical : p \in ids}]] :
        /\ \A p \in ids : w[p].logical \in {Nobody, term[p].logical} \cup tx[t].asked
        /\ tx[t].body = {w[p].table : p \in ids}
        /\ tx[t].asked \subseteq {w[p].logical : p \in ids}}

\* Variant that records only what the first reading of the mappings showed.
AffectedMapped(t, w) == tx[t].affected \cup tx[t].mapped \cup tx[t].asked
\* Both sides of every term that is left out, remapped, moved or new.
Affected(t, w) ==
    tx[t].affected \cup
    ((UNION {{term[p].logical, w[p].logical} :
                p \in {q \in DOMAIN w : <<w[q].live, w[q].logical, w[q].table>>
                                        # <<term[q].live, term[q].logical, term[q].table>>}})
     \ {Nobody})

\* The row recordVersion updates next, if any.
NextVersion(ls) == IF ls = {} THEN {} ELSE {Row("logical", Min(ls))}

\* Tables the service has left that nobody uses any more (deleteEmptyTables).
Emptied(t, rows) == {tb \in TablesOf(tx[t].svc) \ tx[t].body : LiveIn(rows, tb) = {}}

\* Terms left out are soft-deleted, kept ones updated, new ones inserted.
SaveWrite(t) ==
    /\ At(t, "terms")
    /\ \E kept \in SUBSET Own(tx[t].svc), fresh \in SUBSET NextIds :
        /\ Cardinality(kept \cup fresh) <= MaxRows
        /\ \E w \in Wanted(t, kept \cup fresh) :
          LET all == [p \in Own(tx[t].svc) \cup fresh |->
                         IF p \in DOMAIN w THEN w[p] ELSE [term[p] EXCEPT !.live = FALSE]]
              rows == [p \in Terms |-> IF p \in DOMAIN all THEN all[p] ELSE term[p]]
              affected == Affected(t, all)
          IN  Begin(t, [tx[t] EXCEPT !.pc = "record", !.write = all, !.affected = affected,
                            !.gone = Emptied(t, rows)],
                    NextVersion(affected))
    /\ UNCHANGED <<active, table, term, logical, ops, switches>>

(***************************************************************************)
(* The logical-term form                                                   *)
(***************************************************************************)
\* create: the physicals it attaches, of those the form shows.
CreateLogical(t, l) ==
    /\ Start(t) /\ ~Exists(l) /\ \A u \in Txs : tx[u].logical # l
    /\ \E asked \in SUBSET Visible :
           Begin(t, [Idle EXCEPT !.pc = "new", !.logical = l, !.asked = asked], Rows("term", asked))
    /\ UNCHANGED <<active, table, term, logical, switches>>

\* update: SELECT ... FROM data_hub_logical_terms ... FOR UPDATE
EditLogical(t, l) ==
    /\ Start(t) /\ Exists(l)
    /\ Begin(t, [Idle EXCEPT !.pc = "logicals", !.logical = l], {Row("logical", l)})
    /\ UNCHANGED <<active, table, term, logical, switches>>

\* Requested and attached physicals, in id order.
EditTerms(t) ==
    /\ At(t, "logicals") /\ tx[t].svc = Nobody
    /\ \E asked \in SUBSET {p \in Terms : term[p].svc # Nobody} :
           Begin(t, [tx[t] EXCEPT !.pc = "asked", !.asked = asked],
                 Rows("term", asked \cup {p \in Terms : term[p].logical = tx[t].logical}))
    /\ UNCHANGED <<active, table, term, logical, ops, switches>>

\* The rows pointed at l, the others at nothing.
Pointed(l, ps, others) == [p \in ps \cup others |-> [term[p] EXCEPT !.logical = IF p \in ps THEN l ELSE Nobody]]
\* assertMappable: free, or attached to this term already.
Mappable(t) == /\ tx[t].asked \subseteq Visible
               /\ \A p \in tx[t].asked : term[p].logical \in {Nobody, tx[t].logical}

CreateApply(t) ==
    /\ At(t, "new")
    /\ IF Mappable(t)
       THEN Begin(t, [tx[t] EXCEPT !.pc = "record", !.affected = {tx[t].logical},
                          !.write = Pointed(tx[t].logical, tx[t].asked, {})], {})
       ELSE Refuse(t)
    /\ UNCHANGED <<active, table, term, logical, ops, switches>>

\* Of the attached terms only those the form shows are replaced.  The row is this transaction's
\* already, so recordVersion does not wait.
EditApply(t) ==
    /\ At(t, "asked")
    /\ LET shown == Attached(tx[t].logical) \cap Visible
       IN  IF Mappable(t)
           THEN Begin(t, [tx[t] EXCEPT !.pc = "record", !.affected = {tx[t].logical},
                              !.write = Pointed(tx[t].logical, tx[t].asked \ shown, shown \ tx[t].asked)],
                      Rows("term", shown))
           ELSE Refuse(t)
    /\ UNCHANGED <<active, table, term, logical, ops, switches>>

(***************************************************************************)
(* recordVersion(s) and COMMIT                                             *)
(***************************************************************************)
\* Bump version_no, read the snapshot, insert the history row; then the next logical term.
Record(t) ==
    /\ At(t, "record") /\ tx[t].affected # {}
    /\ LET l == Min(tx[t].affected)
           rest == tx[t].affected \ {l}
           entry == [version |-> logical[l].version + 1, terms |-> Snapshot(t, l)]
           hist == [m \in {l} \cup DOMAIN tx[t].hist |-> IF m = l THEN entry ELSE tx[t].hist[m]]
       IN  Begin(t, [tx[t] EXCEPT !.affected = rest, !.hist = hist], NextVersion(rest))
    /\ UNCHANGED <<active, table, term, logical, ops, switches>>

Commit(t) ==
    /\ At(t, "record") /\ tx[t].affected = {}
    /\ term' = Seen(t)
    /\ table' = [tb \in Tables |->
                   CASE tb \in tx[t].gone -> "deleted" [] tb \in tx[t].made -> "live" [] OTHER -> table[tb]]
    /\ logical' = [l \in Logicals |-> IF l \in DOMAIN tx[t].hist THEN tx[t].hist[l] ELSE logical[l]]
    /\ tx' = [tx EXCEPT ![t] = Idle]
    /\ UNCHANGED <<active, ops, switches>>

\* setStatus: one row, locked and written at once.
SetStatus(s) ==
    /\ switches < MaxSwitches /\ switches' = switches + 1
    /\ \A u \in Txs : Row("service", s) \notin tx[u].held
    /\ active' = [active EXCEPT ![s] = ~@]
    /\ UNCHANGED <<table, term, logical, tx, ops>>

(***************************************************************************)
(* Specification                                                           *)
(***************************************************************************)
HubInit ==
    /\ active = [s \in Services |-> TRUE]
    /\ \E init \in InitTerms : term = [p \in Terms |-> IF p \in DOMAIN init THEN init[p] ELSE NoTerm]
    /\ table = [tb \in Tables |-> IF LiveIn(term, tb) = {} THEN "unused" ELSE "live"]
    /\ tx = [t \in Txs |-> Idle] /\ ops = 0 /\ switches = 0
    /\ logical = [l \in Logicals |->
                    LET ps == {p \in Terms : term[p].logical = l}
                    IN  [version |-> IF ps = {} THEN 0 ELSE 1,
                         terms |-> {<<p, term[p].table>> : p \in ps}]]

HubNext ==
    \/ \E t \in Txs :
          \/ \E s \in Services : SaveService(t, s)
          \/ SaveTables(t) \/ SaveResolve(t) \/ SaveTerms(t) \/ SaveWrite(t)
          \/ \E l \in Logicals : CreateLogical(t, l) \/ EditLogical(t, l)
          \/ EditTerms(t) \/ CreateApply(t) \/ EditApply(t)
          \/ Record(t) \/ Commit(t) \/ Resume(t) \/ DeadlockVictim(t) \/ Abort(t)
    \/ \E s \in Services : SetStatus(s)

HubSpec == HubInit /\ [][HubNext]_hubVars

(***************************************************************************)
(* Properties                                                              *)
(***************************************************************************)
Rec == [svc : Services \cup {Nobody}, table : Tables \cup {Nobody},
        logical : Logicals \cup {Nobody}, live : BOOLEAN]

\* Types; a transaction that is over, refused ones included, holds no lock and has no write.
HubTypeOK ==
    /\ active \in [Services -> BOOLEAN] /\ ops \in 0..MaxOps /\ switches \in 0..MaxSwitches
    /\ term \in [Terms -> Rec]
    /\ table \in [Tables -> {"unused", "live", "deleted"}]
    /\ \A l \in Logicals : /\ logical[l].version \in 0..MaxOps + 1
                          /\ logical[l].terms \subseteq Terms \X Tables
    /\ \A t \in Txs : /\ tx[t].pc \in PCs
                     /\ tx[t].pc = "idle" => tx[t] = Idle
                     /\ \A p \in DOMAIN tx[t].write : tx[t].write[p] \in Rec

\* A table is live exactly while it holds live terms: it is never deleted under a term that another
\* service puts into it, and the last service to leave it deletes it, whichever order the services
\* leave in, so that its name is free again (data-service-source-tables.util.ts 48-49).
TablesHoldTerms ==
    /\ \A p \in Terms : term[p].live => table[term[p].table] = "live"
    /\ \A tb \in Tables : table[tb] = "live" => LiveIn(term, tb) # {}

\* The newest history entry of a logical term shows the live physicals attached to it, in the
\* tables they are in, whoever attached, moved or deleted them last.
HistoryMatches == \A l \in Logicals :
    Exists(l) => logical[l].terms = {<<p, term[p].table>> : p \in Attached(l)}

\* The two writers never wait for each other (data-service-source-tables.util.ts 61-62).
WritersCannotDeadlock == \A t \in Txs : ~Deadlocked(t)
=============================================================================
