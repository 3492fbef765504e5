---------------------------- MODULE ReviewLadder ----------------------------
(***************************************************************************)
(* What one AI Hub package promises its readers and its authors, without   *)
(* rows, locks or requests: numbered releases one above the other, at most *)
(* one submission under review, and the highest release on show.           *)
(***************************************************************************)
EXTENDS Naturals

VARIABLES top,     \* number of the highest release, 0 before the first
          head,    \* what became of the submission above it
          shown    \* number of the release readers get, 0 for none

Heads == {"none", "pending", "rejected"}

Init == top = 0 /\ head = "none" /\ shown = 0

\* A first submission, a new version, or the rejected one again.
Submit ==
    /\ head # "pending"
    /\ head' = "pending"
    /\ UNCHANGED <<top, shown>>

TurnDown ==
    /\ head = "pending"
    /\ head' = "rejected"
    /\ UNCHANGED <<top, shown>>

\* Numbering and publication are one step.
Release ==
    /\ head = "pending"
    /\ head' = "none"
    /\ top' = top + 1
    /\ shown' = top'

Next == Submit \/ TurnDown \/ Release

Spec == Init /\ [][Next]_<<top, head, shown>>
=============================================================================
