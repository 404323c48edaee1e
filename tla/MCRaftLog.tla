------------------------------ MODULE MCRaftLog ------------------------------
(* RaftLog on small clusters. *)
EXTENDS RaftLog, TLC

CONSTANTS a, b, c

\* One leader whose calls overtake one another, its peers applying, ...
Reordered ==
    [candidates |-> <<{a}>>, entries |-> 2, leads |-> 1, restarts |-> 0, calls |-> 2,
     appliers |-> {b, c}]
\* ... two terms, and logs that are repaired over several calls, ...
Repaired(i) ==
    [candidates |-> <<{a}, {i}>>, entries |-> 2, leads |-> 1, restarts |-> 0, calls |-> 1,
     appliers |-> {a, i}]
\* ... two candidates of one term, one of which may be behind, and a third in the next, ...
Contested(i, j) ==
    [candidates |-> <<{a, i}, {j}>>, entries |-> 1, leads |-> 1, restarts |-> 0, calls |-> 1,
     appliers |-> Server]
\* ... and three terms with a restart and an entry each, the first leader coming back.
Restarted(i) ==
    [candidates |-> <<{a}, {i}, {a}>>, entries |-> 1, leads |-> 1, restarts |-> 1, calls |-> 1,
     appliers |-> {a, i}]

Cases == {Reordered, Repaired(b), Repaired(c), Contested(b, c), Contested(c, b),
          Restarted(b), Restarted(c)}

\* Nothing tells b from c.
Symmetry == Permutations({b, c})

=============================================================================
