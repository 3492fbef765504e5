-------------------------- MODULE PaymentDocuments --------------------------
(***************************************************************************)
(* BI payment documents.  Who sees a document is decided four times over:  *)
(* by the list's SQL, by the check of a single document, by the SQL behind *)
(* the filters' lists of users, and by what an uploader or approver may do *)
(* with it.  Rights are data-access grants of a permission code at a       *)
(* program, or ownership of a department above it; super admins bypass all *)
(* of it and are left out.  updateStatus never changes a row (it selects   *)
(* no program and then requires one), so a document keeps its status.      *)
(***************************************************************************)
EXTENDS Naturals, FiniteSets, FiniteSetsExt

CONSTANTS Members,     \* users
          Watched,     \* those of them whose rights change
          Programs,    \* bi_payment_programs
          Documents,   \* ids of bi_payment_documents
          NoDocument,  \* no row
          MaxGrants    \* bound: grants one user has at a time

ASSUME WatchedAssumption == Watched \subseteq Members

VARIABLES grant,       \* <<code, program>> pairs a user has data access to
          owns,        \* programs under a department that the user's roles own
          program,     \* programs: not deleted, progress_status is INPROGRESS
          doc          \* bi_payment_documents with the workstep of the template

payVars == <<grant, owns, program, doc>>

Steps    == {"prepare", "ex_prepare", "recon_data", "recon_feedback"}
Codes    == {"upload", "upload_recon", "approve", "content_view"}
DocStatuses == {"draft", "submit", "approval", "rejected"}
Stored   == {d \in Documents : doc[d] # NoDocument}

(***************************************************************************)
(* Rights at a program                                                     *)
(***************************************************************************)
ViewCodes(step) == CASE step = "recon_data"     -> {"upload", "upload_recon"}
                     [] step = "recon_feedback" -> {"upload"}
                     [] OTHER                   -> {"upload", "approve"}
OwnOnly == {"upload_recon"}

\* getAccessibleRecords and isInOwnedScope skip what is deleted.
Accessible(u, code) == {p \in Programs : <<code, p>> \in grant[u] /\ program[p].live}
Owner(u, p) == p \in owns[u] /\ program[p].live
HasCapability(u, p, code) == Owner(u, p) \/ p \in Accessible(u, code)

\* resolveWorkstepScopes: the steps seen in full, and those of which only one's own documents.
FullSteps(u, p) == IF Owner(u, p) \/ p \in Accessible(u, "content_view") THEN Steps
                   ELSE {s \in Steps : \E code \in ViewCodes(s) \ OwnOnly : p \in Accessible(u, code)}
OwnSteps(u, p)  == {s \in Steps : \E code \in ViewCodes(s) \cap OwnOnly : p \in Accessible(u, code)}
                   \ FullSteps(u, p)

(***************************************************************************)
(* Reading                                                                 *)
(***************************************************************************)
\* list and stats of a program: applyWorkstepFilter without `workstep`.
Listed(u, p) ==
    {d \in Stored : /\ doc[d].program = p /\ program[p].live
                    /\ \/ doc[d].step \in FullSteps(u, p)
                       \/ doc[d].step \in OwnSteps(u, p) /\ doc[d].uploader = u}

\* Variant: the step alone decides.
CanOpenStep(u, d) == doc[d].step \in FullSteps(u, doc[d].program) \cup OwnSteps(u, doc[d].program)
\* checkDocStep: details, download, upload-status.
CanOpen(u, d) == LET p == doc[d].program
                 IN  \/ doc[d].step \in FullSteps(u, p)
                     \/ doc[d].step \in OwnSteps(u, p) /\ doc[d].uploader = u

\* Variant: a recon grant shows the whole step.
CrossListedRecon(u) ==
    {d \in Stored : \/ doc[d].program \in Accessible(u, "upload")
                    \/ /\ doc[d].program \in Accessible(u, "approve")
                       /\ doc[d].step \in {"prepare", "ex_prepare"}
                    \/ /\ doc[d].program \in Accessible(u, "upload_recon")
                       /\ doc[d].step = "recon_data"}
\* applyCrossProgramScope: the documents whose users are listed.
CrossListed(u) ==
    {d \in Stored : \/ doc[d].program \in Accessible(u, "upload")
                    \/ /\ doc[d].program \in Accessible(u, "approve")
                       /\ doc[d].step \in {"prepare", "ex_prepare"}
                    \/ /\ doc[d].program \in Accessible(u, "upload_recon")
                       /\ doc[d].step = "recon_data" /\ doc[d].uploader = u}

(***************************************************************************)
(* What one may do                                                         *)
(***************************************************************************)
MayUpload(u, p, step) == \/ HasCapability(u, p, "upload")
                         \/ step = "recon_data" /\ HasCapability(u, p, "upload_recon")

\* Variant: an approver decides any step.
MaySetAnyStep(u, d, status) ==
    LET p == doc[d].program
    IN  /\ program[p].live /\ program[p].running
        /\ \/ status = "submit" /\ doc[d].uploader = u /\ MayUpload(u, p, doc[d].step)
           \/ /\ status \in {"approval", "rejected"} /\ doc[d].status = "submit"
              /\ HasCapability(u, p, "approve")
\* canSetDocumentStatus, as isCanUpdateStatus shows it.
MaySet(u, d, status) ==
    LET p == doc[d].program
    IN  /\ program[p].live /\ program[p].running
        /\ \/ status = "submit" /\ doc[d].uploader = u /\ MayUpload(u, p, doc[d].step)
           \/ /\ status \in {"approval", "rejected"} /\ doc[d].status = "submit"
              /\ doc[d].step \in {"prepare", "ex_prepare"} /\ HasCapability(u, p, "approve")

\* upload: the body's status is stored as it is.
UploadDocument(u, d, p, step, status) ==
    /\ d \notin Stored /\ MayUpload(u, p, step)
    /\ doc' = [doc EXCEPT ![d] = [program |-> p, step |-> step, status |-> status, uploader |-> u]]
    /\ UNCHANGED <<grant, owns, program>>

(***************************************************************************)
(* Other modules: data-access rules, roles, programs                       *)
(***************************************************************************)
Regrant(u, code, p) ==
    /\ grant' = [grant EXCEPT ![u] = SymDiff(@, {<<code, p>>})]
    /\ Cardinality(grant'[u]) <= MaxGrants
    /\ UNCHANGED <<owns, program, doc>>

Reown(u, p) ==
    /\ owns' = [owns EXCEPT ![u] = SymDiff(@, {p})]
    /\ UNCHANGED <<grant, program, doc>>

\* softRemove, and progress_status.
ChangeProgram(p) ==
    /\ program[p].live
    /\ \/ program' = [program EXCEPT ![p] = [live |-> FALSE, running |-> FALSE]]
       \/ program' = [program EXCEPT ![p].running = ~@]
    /\ UNCHANGED <<grant, owns, doc>>

PayInit ==
    /\ grant = [u \in Members |-> {}]
    /\ owns = [u \in Members |-> IF u \in Watched THEN {} ELSE Programs]
    /\ program = [p \in Programs |-> [live |-> TRUE, running |-> TRUE]]
    /\ doc = [d \in Documents |-> NoDocument]

PayNext ==
    \/ \E u \in Members, d \in Documents, p \in Programs, step \in Steps, status \in DocStatuses :
          UploadDocument(u, d, p, step, status)
    \/ \E u \in Watched, p \in Programs : Reown(u, p) \/ \E code \in Codes : Regrant(u, code, p)
    \/ \E p \in Programs : ChangeProgram(p)

PaySpec == PayInit /\ [][PayNext]_payVars

(***************************************************************************)
(* Properties                                                              *)
(***************************************************************************)
\* The list of a program shows exactly the documents that can be opened one by one, and the lists of
\* users behind the filters name nobody for a document that the caller cannot open
\* (bi-payment-document.service.ts 620: the same own-filter as the list; 541-542).
ListMatchesOpen == \A u \in Members :
    /\ \A d \in Stored : d \in Listed(u, doc[d].program) <=> CanOpen(u, d)
    /\ CrossListed(u) \subseteq {d \in Stored : CanOpen(u, d)}

\* Whoever may change a document's status can open it, and what one may upload one could then open
\* (step-scope.constants.ts 9-17).
ActorsSee == \A u \in Members, d \in Stored :
    (\E status \in DocStatuses : MaySet(u, d, status))
        \/ (MayUpload(u, doc[d].program, doc[d].step) /\ doc[d].uploader = u) => CanOpen(u, d)
=============================================================================
