-------------------------- MODULE PackageReviewMC --------------------------
(***************************************************************************)
(* Instances of PackageReview for TLC.                                     *)
(***************************************************************************)
EXTENDS PackageReading, TLC

\* Callers are interchangeable: no definition names one.
Symmetry == Permutations(Clients)

ReviewCalls == {"create", "bump", "edit", "approve", "reject"}
AllCalls    == ReviewCalls \cup {"toggle"}
=============================================================================
