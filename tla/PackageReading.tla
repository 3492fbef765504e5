--------------------------- MODULE PackageReading ---------------------------
(***************************************************************************)
(* What the read endpoints of an AI Hub package make of PackageReview's    *)
(* rows: the catalogue, the detail and its download, the caller's versions,*)
(* the review queue, and the two screens that compare a submission with    *)
(* what it replaces.  A viewer is what the endpoints ask about a caller.   *)
(* The micro cache in front of the catalogue is MicroCache.  Line numbers  *)
(* in comments are those of skill-package-query.service.ts.                *)
(***************************************************************************)
EXTENDS PackageReview

Viewer == [owner : BOOLEAN, submitter : BOOLEAN, supporter : BOOLEAN, so : BOOLEAN,
           upload : BOOLEAN, approve : BOOLEAN]

(***************************************************************************)
(* The catalogue and the detail                                            *)
(***************************************************************************)
CanSeeInactive(w) == w.owner \/ w.supporter \/ w.so

\* list, for the status asked: a package without an active version is in no list.
Listed(w, status) ==
    /\ pkg.active # 0 /\ pkg.status = status
    /\ status = "inactive" => w.so \/ w.owner \/ w.supporter

\* detail
Detailed(w) == Live # {} /\ (pkg.status = "inactive" => CanSeeInactive(w))
\* resolveActiveZip
Downloads(w) == Detailed(w) /\ pkg.active \in Live

\* The detail's `isUpdate` while `hasPendingVersion` is false: the form of createVersion.
BumpOffered(w) == Detailed(w) /\ w.upload /\ (w.owner \/ w.supporter) /\ Pending = {}

(***************************************************************************)
(* Versions                                                                *)
(***************************************************************************)
\* canAccessAiHubVersion: supporters are not among them.
CanAccess(w) == w.submitter \/ w.owner \/ w.approve

\* resolveIsUpdate of versionDetail and getDiff: the form of editVersion; listVersions asks the same of
\* the submitter and the owner only.  Whether the caller may bump is not asked, so versionDetail and
\* getDiff offer an approver of another's package what the upload service answers with 403.
EditOffered(w, v) == w.upload /\ CanAccess(w) /\ ver[v].state = "rejected" /\ Newest(v)

\* Variant that finds any version with the number, submissions under their placeholder too.
PredecessorsAnyState(v) == {u \in Live : ver[u].no = ver[v].old}
\* The approved version that v was numbered after.
Predecessors(v) == {u \in Approved : ver[u].no = ver[v].old}

\* versionDetail: a pending version whose predecessor is not found is answered with 409.
VersionOpens(w, v) ==
    CanAccess(w) /\ (ver[v].state = "pending" /\ ver[v].old # 0 => Predecessors(v) # {})
\* Its comparison's base, 0 for none.
ComparisonBase(v) == IF ver[v].old = 0 THEN 0 ELSE Max(Predecessors(v))
\* getDiff's base.
DiffBase(v) == IF pkg.active \in {0, v} THEN 0 ELSE pkg.active

\* listReviews, the submission's zip and `can_review`: approvers only.
Reviewable(w) == {v \in Pending : w.approve}

(***************************************************************************)
(* The dashboard (latest-artifacts.service.ts): fetchWorkspaceStats        *)
(***************************************************************************)
\* The lifecycle counters count an active package once, under the state of its newest version.
CountsAs(state) == pkg.status = "active" /\ \E v \in Live : Newest(v) /\ ver[v].state = state
Published == pkg.status = "active" /\ pkg.active \in Approved

(***************************************************************************)
(* Properties                                                              *)
(***************************************************************************)
\* The endpoints agree, unless a stale save hit: what a list shows can be opened and downloaded,
\* and has been approved; a submission in the review queue opens, and both screens compare it
\* with the same version, the one readers have (598-614, 676-682); the form a button opens is one
\* that the upload service accepts: no Edit beside a pending version, on whichever row it shows.
\* The dashboard counts as published what the catalogue lists, and as pending what awaits review.
ReadsAgree == lost = {} =>
    \A w \in Viewer :
       /\ \A s \in Statuses : Listed(w, s) => Downloads(w) /\ pkg.active \in Approved
       /\ Published <=> Listed(w, "active")
       /\ w.approve /\ pkg.status = "active" => (CountsAs("pending") <=> Reviewable(w) # {})
       /\ \A v \in Reviewable(w) : VersionOpens(w, v) /\ ComparisonBase(v) = DiffBase(v)
       /\ \A v \in VersionIds : EditOffered(w, v) => Resubmittable(v)
=============================================================================
