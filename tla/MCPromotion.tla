---------------------------- MODULE MCPromotion ----------------------------
(* Instances of Promotion for TLC. *)
EXTENDS Promotion, TLC

mcSymmetry == Permutations(Tasks) \cup Permutations(Calls) \cup Permutations(Runs)
=============================================================================
