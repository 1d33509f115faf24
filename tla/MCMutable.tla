----------------------------- MODULE MCMutable -----------------------------
(* Instances of Mutable for TLC.                                           *)
EXTENDS Mutable, TLC

\* What an item contains is only compared.
MCSymmetry == Permutations(Values)
=============================================================================
