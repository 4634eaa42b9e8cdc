------------------------------- MODULE MCAgent -------------------------------
(* A small instance of Agent for TLC. *)
EXTENDS Agent
=============================================================================
