----------------------------- MODULE MCReleaseBundle -----------------------------
(* Instances of ReleaseBundle for TLC.                                            *)
EXTENDS ReleaseBundle, TLC

CONSTANTS r1, r2, r3, r4

Symmetry == Permutations(Releases)
AnyPosition == -1..4
================================================================================
