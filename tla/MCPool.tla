------------------------------- MODULE MCPool -------------------------------
(* Instances of Pool for TLC. *)
EXTENDS Pool, TLC

Symmetry == Permutations(Threads) \cup Permutations(Jobs)
=============================================================================
