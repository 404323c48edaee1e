---------------------------- MODULE MCRaftLab3B -----------------------------
(* RaftLab3B on small clusters. *)
EXTENDS RaftLab3B, TLC

CONSTANTS a, b, c

\* One leader and two calls under way, ...
Replicated == [candidates |-> <<{a}>>, entries |-> 2, leads |-> 1, calls |-> 2]
\* ... and two candidates of one term, with a third in the next.
Contested(i, j) == [candidates |-> <<{a, i}, {j}>>, entries |-> 1, leads |-> 1, calls |-> 1]

Cases == {Replicated, Contested(b, c), Contested(c, b)}

\* Nothing tells b from c.
Symmetry == Permutations({b, c})

=============================================================================
