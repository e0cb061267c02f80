-------------------------- MODULE MCSessionClient --------------------------
(* Instances of SessionClient for TLC. *)
EXTENDS SessionClient
=============================================================================
