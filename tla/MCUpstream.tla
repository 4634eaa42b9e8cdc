----------------------------- MODULE MCUpstream -----------------------------
(* Small instances of Upstream for TLC. *)
EXTENDS Upstream, TLC

Symmetric == Permutations(Msgs \ Unpackable)
=============================================================================
