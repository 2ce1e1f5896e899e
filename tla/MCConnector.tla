---------------------------- MODULE MCConnector ----------------------------
(* Small instances of Connector for TLC. *)
EXTENDS Connector

CONSTANTS a, f

(* One channel is published already. *)
OneChannel == <<a>>
=============================================================================
