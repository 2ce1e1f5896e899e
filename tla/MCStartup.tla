----------------------------- MODULE MCStartup -----------------------------
(* Small instances of Startup for TLC. *)
EXTENDS Startup, TLC

Symmetry == Permutations(Brokers) \cup Permutations(Clients)
=============================================================================
