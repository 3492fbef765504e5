----------------------------- MODULE MicroCacheMC -----------------------------
(***************************************************************************)
(* Instances of MicroCache for TLC.                                        *)
(***************************************************************************)
EXTENDS MicroCache, TLC

\* Keys and loads are interchangeable: no definition names one.
Symmetry == Permutations(Keys) \cup Permutations(Loads)
=============================================================================
