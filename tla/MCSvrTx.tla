------------------------------ MODULE MCSvrTx ------------------------------
(* Small instances of SvrTx for TLC. *)
EXTENDS SvrTx, TLC

\* Agents, connections, requests and descriptors are interchangeable.
Symmetric == Permutations(Agents) \union Permutations(Conns)
                \union Permutations(Reqs) \union Permutations(Fds)
=============================================================================
