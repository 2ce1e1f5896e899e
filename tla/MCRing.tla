------------------------------- MODULE MCRing -------------------------------
(* Instances of Ring for TLC. *)
EXTENDS Ring, TLC

Symmetry == Permutations(Producers)
=============================================================================
