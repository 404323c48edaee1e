---------------------------- MODULE MCRaftLab3A ----------------------------
(* RaftLab3A on small clusters.  Servers are interchangeable. *)
EXTENDS RaftLab3A, TLC

Symmetry == Permutations(Server)
=============================================================================
