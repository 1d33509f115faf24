----------------------------- MODULE MCBoxStore -----------------------------
(* Instances of BoxStore for TLC.                                          *)
EXTENDS BoxStore, TLC

\* Applications are interchangeable.
MCSymmetry == Permutations(Apps)
=============================================================================
