----------------------------- MODULE MCEvTimer -----------------------------
(* Small instances of EvTimer for TLC. *)
EXTENDS EvTimer, TLC

Symmetric == Permutations(Timers)
=============================================================================
