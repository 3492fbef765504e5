----------------------------- MODULE TermImport -----------------------------
(***************************************************************************)
(* The Excel import of source tables and terms: it looks every service of  *)
(* the file up, plans, and then saves one service after the other through  *)
(* the update of the form, with a body rebuilt from what it looked up.     *)
(* Meanwhile forms save the same services and map the same terms.  A save  *)
(* is one step here: its statements are those of HubTerms and HubServices. *)
(* A file has one new term per service.  Line numbers in comments are      *)
(* those of import-source-tables.service.ts.                               *)
(***************************************************************************)
EXTENDS Naturals, Sequences, Functions

CONSTANTS Uploaders,      \* users who import: ImportRunGuard lets each have one import under way
          Imported,       \* services
          Sheets,         \* source tables
          Logical,        \* logical terms, NoLogical among them
          NoLogical,
          Texts,          \* what all other columns of a version, or of a table, may say
          FirstText, NewCode,  \* at the start; the code of the term a file adds
          TermIds,        \* bound: ids of physical terms
          Stored,         \* the terms at the start, by id
          MaxImports, MaxForms \* bounds: imports, saves by forms

VARIABLES versions,   \* approved versions of each service, the last one active: text, linked terms
          phys,       \* data_hub_physical_terms
          sheet,      \* data_hub_source_tables: all that a table's row says but its name
          upload,     \* the imports under way
          meant,      \* auxiliary: what the last save by a form, or the file, said
          outdated,   \* auxiliary: what an import wrote though it had changed since the look-up
          imports, forms

impVars == <<versions, phys, sheet, upload, meant, outdated, imports, forms>>

NoUpload == [pc |-> "idle", file |-> <<>>, todo |-> {}, named |-> FALSE, taken |-> {},
             active |-> <<>>, terms |-> <<>>, tables |-> <<>>]
Unborn == [svc |-> 0, sheet |-> 0, code |-> NewCode, logical |-> NoLogical, live |-> FALSE]
OwnTerms(s) == {p \in TermIds : phys[p].live /\ phys[p].svc = s}
InUse       == {phys[p].sheet : p \in {q \in TermIds : phys[q].live}}
FreeIds     == {p \in TermIds : phys[p].svc = 0}
Newest(s)   == Len(versions[s])
\* f where it is defined, g elsewhere.
Over(f, g)  == [x \in (DOMAIN f) \cup (DOMAIN g) |-> IF x \in DOMAIN f THEN f[x] ELSE g[x]]
UploadGoes(u, r) == upload' = [upload EXCEPT ![u] = r] /\ UNCHANGED <<versions, phys, sheet, meant, outdated, forms>>

(***************************************************************************)
(* The import: looking up and planning                                     *)
(***************************************************************************)
\* ImportRunGuard.  A dry run writes nothing and is left out.
BeginImport(u, file) ==
    /\ upload[u].pc = "idle" /\ imports < MaxImports /\ imports' = imports + 1
    /\ UploadGoes(u, [NoUpload EXCEPT !.pc = "versions", !.file = file, !.todo = DOMAIN file])

\* tableNames, on a connection of its own.
ReadNames(u) ==
    /\ upload[u].pc \in {"versions", "tables"} /\ ~upload[u].named
    /\ UploadGoes(u, [upload[u] EXCEPT !.named = TRUE, !.taken = InUse]) /\ UNCHANGED imports

\* services: one statement for the active versions, then one for the tables of each.
ReadVersions(u) ==
    /\ upload[u].pc = "versions"
    /\ UploadGoes(u, [upload[u] EXCEPT !.pc = "tables", !.active = [s \in upload[u].todo |-> Newest(s)]])
    /\ UNCHANGED imports
ReadTables(u, s) ==
    /\ upload[u].pc = "tables" /\ s \in upload[u].todo
    /\ LET ids == {p \in versions[s][upload[u].active[s]].terms : phys[p].live}
       IN  UploadGoes(u, [upload[u] EXCEPT
                !.todo   = @ \ {s},
                !.terms  = Over([x \in {s} |-> Restrict(phys, ids)], @),
                !.tables = Over([x \in {s} |-> Restrict(sheet, {phys[p].sheet : p \in ids})], @)])
    /\ UNCHANGED imports

\* planGroups: a table the service has takes the term, if its code is new there; any other name must
\* be free in the system, and wanted by one service of the file.
Planned(u, s) ==
    LET file == upload[u].file
        seen == upload[u].terms[s]
        tb   == file[s].sheet
    IN  IF tb \in DOMAIN upload[u].tables[s]
        THEN <<tb, NewCode>> \notin {<<seen[p].sheet, seen[p].code>> : p \in DOMAIN seen}
        ELSE tb \notin upload[u].taken /\ \A x \in DOMAIN file : file[x].sheet = tb => x = s
Plan(u) ==
    /\ upload[u].pc = "tables" /\ upload[u].todo = {} /\ upload[u].named
    /\ UploadGoes(u, [upload[u] EXCEPT !.pc = "write", !.todo = {s \in DOMAIN upload[u].file : Planned(u, s)}])
    /\ UNCHANGED imports

(***************************************************************************)
(* The import: one update per service                                      *)
(***************************************************************************)
NewTerm(u, s) == [svc |-> s, code |-> NewCode, live |-> TRUE,
                  sheet |-> upload[u].file[s].sheet, logical |-> upload[u].file[s].logical]
\* Variant that sends only the tables the file names.
KeptNamed(u, s) == LET seen == upload[u].terms[s]
                   IN  Restrict(seen, {p \in DOMAIN seen : seen[p].sheet = upload[u].file[s].sheet})
\* mergedTables: every table of the service as it was looked up, its terms with their mappings.
Kept(u, s) == upload[u].terms[s]
Body(u, s) == Range(Kept(u, s)) \cup {NewTerm(u, s)}
\* The checks of syncSourceTables: the terms are the service's still, the tables live, a new table's
\* name free, and the codes not taken by another service.
Accepted(u, s) ==
    /\ DOMAIN Kept(u, s) \subseteq OwnTerms(s)
    /\ \A r \in Body(u, s) : r.sheet \in DOMAIN upload[u].tables[s] <=> r.sheet \in InUse
    /\ \A r \in Body(u, s), q \in TermIds :
          phys[q].live /\ phys[q].svc # s => <<phys[q].sheet, phys[q].code>> # <<r.sheet, r.code>>

\* What has changed since the look-up.
Changed(u, s) ==
    LET seen == upload[u].terms[s]
        tables == upload[u].tables[s]
    IN  {<<"term", p>> : p \in {q \in DOMAIN seen : phys[q] # seen[q]} \cup (OwnTerms(s) \ DOMAIN seen)}
        \cup {<<"table", tb>> : tb \in {x \in DOMAIN tables : sheet[x] # tables[x]}}
        \cup {<<"service", s>> : v \in {x \in {upload[u].active[s]} :
                                           versions[s][x].text # versions[s][Newest(s)].text}}

\* buildUpdateBody and update: the text of the version looked up, the tables and terms looked up;
\* terms that are not among them are deleted.
ImportWrite(u, s) ==
    /\ upload[u].pc = "write" /\ s \in upload[u].todo /\ Accepted(u, s)
    /\ \E id \in FreeIds :
          /\ \A p \in FreeIds : id <= p
          /\ LET deleted == [p \in OwnTerms(s) |-> [phys[p] EXCEPT !.live = FALSE]]
             IN  phys' = [Over(Kept(u, s), Over(deleted, phys)) EXCEPT ![id] = NewTerm(u, s)]
          /\ versions' = [versions EXCEPT ![s] =
                            Append(@, [text |-> @[upload[u].active[s]].text,
                                       terms |-> DOMAIN Kept(u, s) \cup {id}])]
          /\ meant' = [meant EXCEPT !.phys[id] = NewTerm(u, s)]
    /\ sheet' = Over(Restrict(upload[u].tables[s], {r.sheet : r \in Range(Kept(u, s))}), sheet)
    /\ outdated' = outdated \cup Changed(u, s)
    /\ upload' = [upload EXCEPT ![u].todo = @ \ {s}]
    /\ UNCHANGED <<imports, forms>>

\* 400, 403, 409 or a lost connection: the row is reported, the next service is written.
ImportFails(u, s) ==
    /\ upload[u].pc = "write" /\ s \in upload[u].todo
    /\ UploadGoes(u, [upload[u] EXCEPT !.todo = @ \ {s}]) /\ UNCHANGED imports
\* The report is sent, or the process ends in the middle.
ImportEnds(u) ==
    /\ upload[u].pc # "idle" /\ UploadGoes(u, NoUpload) /\ UNCHANGED imports

(***************************************************************************)
(* The forms: one change of a service, or of a term's mapping, at a time   *)
(***************************************************************************)
Form == forms < MaxForms /\ forms' = forms + 1 /\ UNCHANGED <<upload, outdated, imports>>
SaveText(s, text) ==
    /\ Form
    /\ versions' = [versions EXCEPT ![s] = Append(@, [text |-> text, terms |-> OwnTerms(s)])]
    /\ meant' = [meant EXCEPT !.text[s] = text]
    /\ UNCHANGED <<phys, sheet>>
SaveTable(s, tb, text) ==
    /\ Form /\ tb \in {phys[p].sheet : p \in OwnTerms(s)}
    /\ versions' = [versions EXCEPT ![s] = Append(@, [text |-> @[Newest(s)].text, terms |-> OwnTerms(s)])]
    /\ sheet' = [sheet EXCEPT ![tb] = text] /\ meant' = [meant EXCEPT !.sheet[tb] = text]
    /\ UNCHANGED phys
SaveRow(s, p, row) ==
    /\ Form /\ row # phys[p]
    /\ phys' = [phys EXCEPT ![p] = row] /\ meant' = [meant EXCEPT !.phys[p] = row]
    /\ LET ids == (OwnTerms(s) \ {p}) \cup {q \in {p} : row.live}
       IN  versions' = [versions EXCEPT ![s] = Append(@, [text |-> @[Newest(s)].text, terms |-> ids])]
    /\ UNCHANGED sheet
\* A term is left out, mapped otherwise, moved to another table, or added.
SaveTerm(s) ==
    \/ \E p \in OwnTerms(s) :
          \/ SaveRow(s, p, [phys[p] EXCEPT !.live = FALSE])
          \/ \E l \in Logical : SaveRow(s, p, [phys[p] EXCEPT !.logical = l])
          \/ \E tb \in InUse : SaveRow(s, p, [phys[p] EXCEPT !.sheet = tb])
    \/ \E p \in FreeIds, tb \in Sheets :
          /\ \A q \in FreeIds : p <= q
          /\ tb \in InUse \/ \A q \in TermIds : phys[q].sheet # tb
          /\ \A q \in TermIds : ~(phys[q].live /\ phys[q].sheet = tb /\ phys[q].code = NewCode)
          /\ SaveRow(s, p, [svc |-> s, sheet |-> tb, code |-> NewCode, logical |-> NoLogical, live |-> TRUE])
\* The logical-term form: no new version of the service.
MapTerm(p, l) ==
    /\ Form /\ phys[p].live
    /\ phys' = [phys EXCEPT ![p].logical = l] /\ meant' = [meant EXCEPT !.phys[p].logical = l]
    /\ UNCHANGED <<versions, sheet>>

ImpInit ==
    /\ phys = [p \in TermIds |-> IF p \in DOMAIN Stored THEN Stored[p] ELSE Unborn]
    /\ sheet = [tb \in Sheets |-> FirstText]
    /\ versions = [s \in Imported |-> <<[text |-> FirstText, terms |-> OwnTerms(s)]>>]
    /\ meant = [phys |-> phys, sheet |-> sheet, text |-> [s \in Imported |-> FirstText]]
    /\ upload = [u \in Uploaders |-> NoUpload] /\ outdated = {} /\ imports = 0 /\ forms = 0

Files == UNION {[ss -> [sheet : Sheets, logical : {NoLogical}]] : ss \in (SUBSET Imported) \ {{}}}
ImpNext ==
    \/ \E u \in Uploaders :
          \/ \E file \in Files : BeginImport(u, file)
          \/ ReadNames(u) \/ ReadVersions(u) \/ Plan(u) \/ ImportEnds(u)
          \/ \E s \in Imported : ReadTables(u, s) \/ ImportWrite(u, s) \/ ImportFails(u, s)
    \/ \E s \in Imported :
          \/ \E text \in Texts : SaveText(s, text) \/ \E tb \in Sheets : SaveTable(s, tb, text)
          \/ SaveTerm(s)
    \/ \E p \in TermIds, l \in Logical : MapTerm(p, l)

ImpSpec == ImpInit /\ [][ImpNext]_impVars

(***************************************************************************)
(* Properties                                                              *)
(***************************************************************************)
\* What a form saved stands, whatever files are imported ("keeping everything it already has", 296):
\* an import changes a term, a table or the columns of a service only where they had changed since it
\* looked them up.
SavesStand ==
    /\ \A p \in TermIds : <<"term", p>> \notin outdated => phys[p] = meant.phys[p]
    /\ \A tb \in Sheets : <<"table", tb>> \notin outdated => sheet[tb] = meant.sheet[tb]
    /\ \A s \in Imported : <<"service", s>> \notin outdated => versions[s][Newest(s)].text = meant.text[s]
=============================================================================
