----------------------------- MODULE HandlersMC -----------------------------
(***************************************************************************)
(* Four components that work outside a transaction: handlers against       *)
(* Redis, Kafka and the disk, and rights that other modules change.  They  *)
(* share no state: `part` says which of them runs, the others stay as they *)
(* began, and the fairness of data self-serve asks nothing of them.        *)
(***************************************************************************)
EXTENDS TLC, SelfServe, PaymentDocuments, CustomUpload, OwnerScope

CONSTANTS Parts, d1, d2, r1, j1, j2, p1, f1, x1, o1, o2
VARIABLE part

\* Two departments; the first has a report, and a project with a program and its document.  The
\* second project has no department.
MCTableOf == (d1 :> "department") @@ (d2 :> "department") @@ (r1 :> "report") @@ (j1 :> "project")
             @@ (j2 :> "project") @@ (p1 :> "program") @@ (f1 :> "document") @@ (x1 :> "property")
MCParentOf == (r1 :> d1) @@ (j1 :> d1) @@ (p1 :> j1) @@ (f1 :> p1)
              @@ [x \in {d1, d2, j2, x1} |-> NoRecord]
MCPermissions == {Code("report", act) : act \in {"create", "update", "delete"}}
                 \cup {Code("program", "update"), Code("department", "create"), ViewVerb, CreateVerb}
MCRulable == {<<d1, Code("report", "create")>>, <<r1, Code("report", "delete")>>,
              <<r1, Code("report", "update")>>, <<p1, Code("program", "update")>>}
MCOwned == {{}} \cup {{<<o1, y>>} : y \in {d1, Whole}}

MCInit == /\ ServeInit /\ PayInit /\ UploadInit /\ ScopeInit
          /\ part \in Parts
          /\ part # "scope" => owned = {}
MCNext ==
    \/ part = "serve"   /\ ServeNext  /\ UNCHANGED <<payVars, uploadVars, scopeVars, part>>
    \/ part = "payment" /\ PayNext    /\ UNCHANGED <<serveVars, uploadVars, scopeVars, part>>
    \/ part = "upload"  /\ UploadNext /\ UNCHANGED <<serveVars, payVars, scopeVars, part>>
    \/ part = "scope"   /\ ScopeNext  /\ UNCHANGED <<serveVars, payVars, uploadVars, part>>
MCSpec == MCInit /\ [][MCNext]_<<serveVars, payVars, uploadVars, scopeVars, part>> /\ ServeFairness
=============================================================================
