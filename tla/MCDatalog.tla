------------------------------ MODULE MCDatalog ------------------------------
(* A small instance of Datalog for TLC. *)
EXTENDS Datalog, TLC

MCLens == {1, BufLen}

Symmetric == Permutations(Records)
=============================================================================
