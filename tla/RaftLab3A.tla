------------------------------ MODULE RaftLab3A ------------------------------
(***************************************************************************)
(* The first version of the Raft server, Mit6824/lab3/lab3-A/raft.go:      *)
(* leader election and heartbeats, without a log and without persistence.  *)
(* One step is one critical section of rf.lock_.  A lost message is one    *)
(* that stays in msgs.                                                     *)
(*                                                                         *)
(* It differs from RaftElection, the model of the last version, in what    *)
(* the RequestVote handler does with a higher term (it grants the vote and *)
(* leaves the role alone), in the ticker's guard, and in heartbeats, which *)
(* are built under the lock that checked the role.                         *)
(***************************************************************************)
EXTENDS Integers, FiniteSets

CONSTANTS Server, NoOne,
          MaxElections  \* bound: elections started, by all servers together

VARIABLES term, votedFor, state,
          pc,      \* where the ticker goroutine is
          n,       \* the local n of RequestVoteHelper
          msgs,    \* requests and replies in the network
          started  \* elections started so far

vars == <<term, votedFor, state, pc, n, msgs, started>>

Majority == Cardinality(Server) \div 2 + 1

Message ==
    [type : {"RequestVote", "AppendEntries", "AppendReply"},
     src : Server, dest : Server, term : Nat]
    \cup [type : {"VoteReply"}, src : Server, dest : Server,
          election : Nat, term : Nat, granted : BOOLEAN]

\* rf.term, rf.state, rf.votedFor = t, Follower, -1
StepDown(i, t) ==
    /\ term' = [term EXCEPT ![i] = t]
    /\ votedFor' = [votedFor EXCEPT ![i] = NoOne]
    /\ state' = [state EXCEPT ![i] = "Follower"]

-----------------------------------------------------------------------------
(* The ticker goroutine and RequestVoteHelper. *)

Tick(i) ==
    /\ pc[i] = "sleep"
    /\ state[i] # "Leader"
    /\ started < MaxElections
    /\ state' = [state EXCEPT ![i] = "Candidate"]
    /\ pc' = [pc EXCEPT ![i] = "campaign"]
    /\ UNCHANGED <<term, votedFor, n, msgs, started>>

Abandon(i) ==
    /\ pc[i] \in {"campaign", "check"}
    /\ state[i] # "Candidate"
    /\ pc' = [pc EXCEPT ![i] = "sleep"]
    /\ UNCHANGED <<term, votedFor, state, n, msgs, started>>

VoteRequest(i, j) == [type |-> "RequestVote", src |-> i, dest |-> j, term |-> term[i] + 1]

StartElection(i) ==
    /\ pc[i] = "campaign" /\ state[i] = "Candidate"
    /\ started < MaxElections
    /\ started' = started + 1
    /\ term' = [term EXCEPT ![i] = @ + 1]
    /\ votedFor' = [votedFor EXCEPT ![i] = i]
    /\ n' = [n EXCEPT ![i] = 1]
    /\ msgs' = msgs \cup {VoteRequest(i, j) : j \in Server \ {i}}
    /\ pc' = [pc EXCEPT ![i] = IF 1 >= Majority THEN "decide" ELSE "check"]
    /\ UNCHANGED state

Await(i) ==
    /\ pc[i] = "check" /\ state[i] = "Candidate"
    /\ pc' = [pc EXCEPT ![i] = "select"]
    /\ UNCHANGED <<term, votedFor, state, n, msgs, started>>

LearnTerm(i, m) ==
    /\ pc[i] = "select"
    /\ m.type = "VoteReply" /\ m.dest = i /\ m.term > term[i]
    /\ StepDown(i, m.term)
    /\ pc' = [pc EXCEPT ![i] = "sleep"]
    /\ msgs' = msgs \ {m}
    /\ UNCHANGED <<n, started>>

CountVote(i, m) ==
    /\ pc[i] = "select"
    /\ m.type = "VoteReply" /\ m.dest = i /\ m.term <= term[i]
    /\ n' = [n EXCEPT ![i] = IF m.term = term[i] /\ m.granted THEN @ + 1 ELSE @]
    /\ pc' = [pc EXCEPT ![i] = IF n'[i] >= Majority THEN "decide" ELSE "check"]
    /\ msgs' = msgs \ {m}
    /\ UNCHANGED <<term, votedFor, state, started>>

ElectionTimeout(i) ==
    /\ pc[i] = "select"
    /\ pc' = [pc EXCEPT ![i] = "decide"]
    /\ UNCHANGED <<term, votedFor, state, n, msgs, started>>

BecomeLeader(i) ==
    /\ pc[i] = "decide" /\ state[i] = "Candidate" /\ n[i] >= Majority
    /\ state' = [state EXCEPT ![i] = "Leader"]
    /\ pc' = [pc EXCEPT ![i] = "sleep"]
    /\ UNCHANGED <<term, votedFor, n, msgs, started>>

Retry(i) ==
    /\ pc[i] = "decide" /\ ~(state[i] = "Candidate" /\ n[i] >= Majority)
    /\ pc' = [pc EXCEPT ![i] = "campaign"]
    /\ UNCHANGED <<term, votedFor, state, n, msgs, started>>

-----------------------------------------------------------------------------
(* The handlers. *)

Granted(j, m) == m.term > term[j] \/ (m.term = term[j] /\ votedFor[j] = NoOne)

\* RequestVote: neither a candidate nor a leader steps down.
RequestVote(j, m) ==
    /\ m.type = "RequestVote" /\ m.dest = j
    /\ IF Granted(j, m)
         THEN /\ term' = [term EXCEPT ![j] = m.term]
              /\ votedFor' = [votedFor EXCEPT ![j] = m.src]
         ELSE UNCHANGED <<term, votedFor>>
    /\ msgs' = (msgs \ {m}) \cup
               {[type |-> "VoteReply", src |-> j, dest |-> m.src, election |-> m.term,
                 term |-> term'[j], granted |-> Granted(j, m)]}
    /\ UNCHANGED <<state, pc, n, started>>

\* One round of startLearder for one peer.
Heartbeat(i, j) ==
    /\ state[i] = "Leader" /\ j # i
    /\ msgs' = msgs \cup {[type |-> "AppendEntries", src |-> i, dest |-> j, term |-> term[i]]}
    /\ UNCHANGED <<term, votedFor, state, pc, n, started>>

AppendReply(j, m) ==
    (msgs \ {m}) \cup
        {[type |-> "AppendReply", src |-> j, dest |-> m.src,
          term |-> IF m.term < term[j] THEN term[j] ELSE m.term]}

\* AppendEntries: an older term is refused, any other makes a follower.
AppendEntries(j, m) ==
    /\ m.type = "AppendEntries" /\ m.dest = j
    /\ IF m.term < term[j]
         THEN UNCHANGED <<term, votedFor, state>>
         ELSE /\ term' = [term EXCEPT ![j] = m.term]
              /\ votedFor' = [votedFor EXCEPT ![j] = IF m.term > term[j] THEN NoOne ELSE @]
              /\ state' = [state EXCEPT ![j] = "Follower"]
    /\ msgs' = AppendReply(j, m)
    /\ UNCHANGED <<pc, n, started>>

ReceiveAppendReply(i, m) ==
    /\ m.type = "AppendReply" /\ m.dest = i
    /\ IF m.term > term[i] THEN StepDown(i, m.term)
                           ELSE UNCHANGED <<term, votedFor, state>>
    /\ msgs' = msgs \ {m}
    /\ UNCHANGED <<pc, n, started>>

-----------------------------------------------------------------------------
Init ==
    /\ term = [i \in Server |-> 0]
    /\ votedFor = [i \in Server |-> NoOne]
    /\ state = [i \in Server |-> "Follower"]
    /\ pc = [i \in Server |-> "sleep"]
    /\ n = [i \in Server |-> 0]
    /\ msgs = {}
    /\ started = 0

Next ==
    \E i \in Server :
        \/ Tick(i) \/ Abandon(i) \/ StartElection(i) \/ Await(i)
        \/ ElectionTimeout(i) \/ BecomeLeader(i) \/ Retry(i)
        \/ \E j \in Server : Heartbeat(i, j)
        \/ \E m \in msgs : \/ LearnTerm(i, m) \/ CountVote(i, m) \/ RequestVote(i, m)
                           \/ AppendEntries(i, m) \/ ReceiveAppendReply(i, m)

Spec == Init /\ [][Next]_vars

-----------------------------------------------------------------------------
(* Properties. *)

\* No two servers believe at once that they lead the same term: what
\* checkOneLeader of test.go:84 demands, "term %d has %d (>1) leaders".
OneLeader ==
    \A i, j \in Server :
        state[i] = "Leader" /\ state[j] = "Leader" /\ term[i] = term[j] => i = j

=============================================================================
