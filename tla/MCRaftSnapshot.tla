--------------------------- MODULE MCRaftSnapshot ---------------------------
(* RaftSnapshot on small clusters. *)
EXTENDS RaftSnapshot, TLC

CONSTANTS a, b, c

\* A leader that takes snapshots and installs them on peers that are behind, itself and
\* b or c applying, ...
Installed(i) ==
    [candidates |-> <<{a}>>, entries |-> 2, leads |-> 1, restarts |-> 0, calls |-> 1, late |-> 0,
     appliers |-> {a, i}]
\* ... sender goroutines that get the lock late, ...
Late ==
    [candidates |-> <<{a}>>, entries |-> 1, leads |-> 1, restarts |-> 0, calls |-> 1, late |-> 1,
     appliers |-> Server]
\* ... two terms with a restart, b or c the second leader, both leaders applying, ...
Restarted(i) ==
    [candidates |-> <<{a}, {i}>>, entries |-> 1, leads |-> 1, restarts |-> 1, calls |-> 1,
     late |-> 0, appliers |-> {a, i}]

\* ... and a candidate of the first term that has missed it, and the second.
Contested(i, j) ==
    [candidates |-> <<{a, i}, {j}>>, entries |-> 0, leads |-> 1, restarts |-> 0, calls |-> 1,
     late |-> 0, appliers |-> Server]

Cases == {Installed(b), Installed(c), Late, Restarted(b), Restarted(c), Contested(b, c),
          Contested(c, b)}

\* Nothing tells b from c.
Symmetry == Permutations({b, c})

=============================================================================
