---------------------------- MODULE MCKVClients ----------------------------
(* KVClients on small instances.  Clients are interchangeable. *)
EXTENDS KVClients, TLC

Symmetry == Permutations(Client)
=============================================================================
