------------------------------ MODULE MCBroker ------------------------------
(* Instances of Broker for TLC. *)
EXTENDS Broker, TLC

Symmetry == Permutations(Procs \ Legacy)
=============================================================================
