----------------------------- MODULE MCTrickle -----------------------------
(* Model checking Trickle: interchangeable experts.                         *)
EXTENDS Trickle, TLC

ExpertSymmetry == Permutations(Experts)
=============================================================================
