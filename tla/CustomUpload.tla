---------------------------- MODULE CustomUpload ----------------------------
(***************************************************************************)
(* Custom upload: one request moves its scanned temporary files into the   *)
(* public directory one after the other, each followed by its media row,   *)
(* and takes the published files back when one of them fails.  Stored      *)
(* names are random, so requests do not meet; what happens between two     *)
(* file-system calls is a failure of the next, or the end of the process.  *)
(***************************************************************************)
EXTENDS Naturals, FiniteSets

CONSTANTS FileCount    \* files of the request, numbered 1 .. FileCount

ASSUME FileCountAssumption == FileCount \in Nat \ {0}

VARIABLES pc,          \* the request
          current,     \* the file it is at
          temp,        \* files that are in the temporary directory
          staging,        \* staging files `.part` in the public directory
          public,      \* files in the public directory under their final name
          published,   \* `published`
          media,       \* files that have a media row
          stuck        \* auxiliary: an unlink failed, or the process ended

uploadVars == <<pc, current, temp, staging, public, published, media, stuck>>

Files == 1..FileCount
ToCatch == pc' = "unpublish"

\* rename; across file systems it fails with EXDEV, and the file is copied.
MoveFile ==
    /\ pc = "move"
    /\ \/ pc' = "save" /\ public' = [public EXCEPT ![current] = "whole"]
          /\ temp' = temp \ {current} /\ published' = published \cup {current}
       \/ pc' = "copy" /\ UNCHANGED <<public, temp, published>>
       \/ ToCatch /\ UNCHANGED <<public, temp, published>>
    /\ UNCHANGED <<current, staging, media, stuck>>

\* Variant that copies onto the final name.
CopyDirect ==
    /\ pc = "copy"
    /\ IF public[current] = "none"
       THEN public' = [public EXCEPT ![current] = "half"] /\ pc' = pc
       ELSE \/ public' = [public EXCEPT ![current] = "whole"] /\ pc' = "staged"
            \/ public' = public /\ ToCatch
    /\ UNCHANGED <<current, temp, staging, published, media, stuck>>
\* copyFile: byte after byte, and it may fail half-way.
CopyFile ==
    /\ pc = "copy"
    /\ IF staging[current] = "none"
       THEN staging' = [staging EXCEPT ![current] = "half"] /\ pc' = pc
       ELSE \/ staging' = [staging EXCEPT ![current] = "whole"] /\ pc' = "staged"
            \/ staging' = staging /\ ToCatch
    /\ UNCHANGED <<current, temp, public, published, media, stuck>>

\* rename of the staging file; the unlink of the temporary one is best effort.
RenameStaged ==
    /\ pc = "staged"
    /\ \/ /\ pc' = "save" /\ public' = [public EXCEPT ![current] = staging[current]]
          /\ staging' = [staging EXCEPT ![current] = "none"] /\ published' = published \cup {current}
          /\ \E left \in SUBSET {current} : temp' = temp \ ({current} \ left)
       \/ ToCatch /\ UNCHANGED <<public, staging, published, temp>>
    /\ UNCHANGED <<current, media, stuck>>

\* createMediaRow, then the next file.
SaveRow ==
    /\ pc = "save"
    /\ \/ /\ media' = media \cup {current}
          /\ IF current = FileCount THEN pc' = "done" /\ current' = current
             ELSE pc' = "move" /\ current' = current + 1
       \/ ToCatch /\ UNCHANGED <<media, current>>
    /\ UNCHANGED <<temp, staging, public, published, stuck>>

\* Variant that records a file when its row is saved.
UnpublishSaved ==
    /\ pc = "unpublish" /\ pc' = "failed"
    /\ \E left \in SUBSET (published \cap media) :
          /\ public' = [f \in Files |-> IF f \in (published \cap media) \ left THEN "none" ELSE public[f]]
          /\ stuck' = (left # {})
    /\ UNCHANGED <<current, temp, staging, published, media>>
\* The catch: every published file is unlinked, an error of that is swallowed.
Unpublish ==
    /\ pc = "unpublish" /\ pc' = "failed"
    /\ \E left \in SUBSET published :
          /\ public' = [f \in Files |-> IF f \in published \ left THEN "none" ELSE public[f]]
          /\ stuck' = (left # {})
    /\ UNCHANGED <<current, temp, staging, published, media>>

\* The controller's finally: whatever is left in the temporary directory, best effort.
CleanupTempFiles ==
    /\ pc \in {"done", "failed"} /\ pc' = "over"
    /\ temp' \in SUBSET temp
    /\ UNCHANGED <<current, staging, public, published, media, stuck>>

Crash ==
    /\ pc \notin {"over", "dead"} /\ pc' = "dead" /\ stuck' = TRUE
    /\ UNCHANGED <<current, temp, staging, public, published, media>>

UploadInit ==
    /\ pc = "move" /\ current = 1 /\ temp = Files /\ published = {} /\ media = {} /\ stuck = FALSE
    /\ staging = [f \in Files |-> "none"] /\ public = [f \in Files |-> "none"]

UploadNext == \/ MoveFile \/ CopyFile \/ RenameStaged \/ SaveRow
              \/ Unpublish \/ CleanupTempFiles \/ Crash

UploadSpec == UploadInit /\ [][UploadNext]_uploadVars

(***************************************************************************)
(* Properties                                                              *)
(***************************************************************************)
\* A failed request leaves none of its files under a final name, rows saved or not, unless an
\* unlink failed too (custom-upload.service.ts 62-64).  Staging files and rows do stay.
NothingPublished == pc = "failed" /\ ~stuck => \A f \in Files : public[f] = "none"

\* What is served under a final name is whole, and everything a finished request answers with is
\* served and has its row (custom-upload.service.ts 105-106).
ServedWhole == /\ \A f \in Files : public[f] # "half"
               /\ pc = "done" => media = Files /\ \A f \in Files : public[f] = "whole"
=============================================================================
