--------------------------- MODULE MCRaftElection ---------------------------
(* RaftElection on small clusters.  Servers are interchangeable. *)
EXTENDS RaftElection, TLC

Symmetry == Permutations(Server)

NoRestart == \A i \in Server : boot[i] = 0
OneBehind == \E i \in Server : last[i] = Origin
NoReplication ==
    /\ \A i \in Server : last[i] = Origin
    /\ \A m \in msgs : m.type \in {"RequestVote", "VoteReply"}

\* Replication and restarts are explored one without the other, and one server at
\* least has not got the command.
OneAtATime == (NoRestart /\ OneBehind) \/ NoReplication
=============================================================================
