---------------------------- MODULE RaftElection ----------------------------
(***************************************************************************)
(* Leader election of the Raft server in Mit6824/lab3/lab3-D/raft.go.      *)
(*                                                                         *)
(* One step is one critical section of rf.lock_: the ticker goroutine and  *)
(* the RequestVoteHelper it calls (program counter pc), the RPC handlers,  *)
(* the goroutines a leader spawns to replicate (pending), and the handling *)
(* of their replies.  A server may crash between any two steps and restart *)
(* from what persist() saved.  labrpc delivers a call at most once, in any *)
(* order, or never: a message that is lost is one that stays in msgs.      *)
(*                                                                         *)
(* The log is abstracted to the position of its last entry, which is all a *)
(* vote looks at.  votes, counted and elected are history variables: no    *)
(* guard but the bound on elections reads them.                            *)
(***************************************************************************)
EXTENDS Integers, FiniteSets

CONSTANTS Server,       \* the indices of rf.peers
          NoOne,        \* votedFor = -1
          MaxElections, \* bound: elections started, by all servers together
          MaxIndex,     \* bound: no command above this index
          MaxRestarts,  \* bound: restarts of each server
          MaxAppends    \* bound: replication calls under way at a time

ASSUME ServerAssumption == IsFiniteSet(Server) /\ NoOne \notin Server
ASSUME BoundAssumption == /\ MaxElections \in Nat
                          /\ MaxIndex \in Nat
                          /\ MaxRestarts \in Nat
                          /\ MaxAppends \in Nat

VARIABLES term,      \* rf.term
          votedFor,  \* rf.votedFor
          last,      \* term and index of the last entry of rf.log
          state,     \* rf.state
          saved,     \* what the persister holds
          pc,        \* where the ticker goroutine is
          n,         \* the local n of RequestVoteHelper
          pending,   \* followers a spawned goroutine has yet to build a request for
          boot,      \* incarnation of the server: how often it was restarted
          msgs,      \* requests and replies in the network
          votes,     \* history: <<voter, term, candidate>> of every vote given
          counted,   \* history: the servers whose votes n stands for
          elected    \* history: <<server, term>> of every election won

persistent == <<term, votedFor, last, saved>>
ghosts == <<votes, counted, elected>>
vars == <<persistent, state, pc, n, pending, boot, msgs, ghosts>>

\* Mutant of Majority: half of the cluster is enough.
Majority_Half == Cardinality(Server) \div 2

Majority == Cardinality(Server) \div 2 + 1

Position == [term : Nat, index : Nat]
Origin == [term |-> 0, index |-> 0]

\* A log is at least as up to date as another: not refused by RequestVote.
UpToDate(p, q) == p.term > q.term \/ (p.term = q.term /\ p.index >= q.index)

Request == [type : {"RequestVote", "AppendEntries", "InstallSnapshot"},
            src : Server, boot : Nat, dest : Server, term : Nat, last : Position]

\* election is the term of the request answered; the code never looks at it,
\* the goroutine that made the call holds it.
VoteReply == [type : {"VoteReply"}, src : Server, dest : Server,
              election : Nat, term : Nat, granted : BOOLEAN]

AppendReply == [type : {"AppendReply"}, src : Server, dest : Server, term : Nat]

Message == Request \cup VoteReply \cup AppendReply

-----------------------------------------------------------------------------
(* Building blocks. *)

Elections == Cardinality({v \in votes : v[1] = v[3]})

\* persist(): what server i saves is the state it has after the step.
Persist(i) ==
    saved' = [saved EXCEPT ![i] = [term |-> term'[i], votedFor |-> votedFor'[i],
                                   last |-> last'[i]]]

\* A reply is lost when the incarnation that made the call is gone.
Answer(m, r) ==
    msgs' = (msgs \ {m}) \cup (IF m.boot = boot[m.src] THEN {r} ELSE {})

\* rf.term, rf.votedFor, rf.state = t, -1, Follower
StepDown(i, t) ==
    /\ term' = [term EXCEPT ![i] = t]
    /\ votedFor' = [votedFor EXCEPT ![i] = NoOne]
    /\ state' = [state EXCEPT ![i] = "Follower"]

-----------------------------------------------------------------------------
(* The ticker goroutine and RequestVoteHelper. *)

\* Mutant of Tick: the role is not looked at.
Tick_AnyRole(i) ==
    /\ pc[i] = "sleep"
    /\ Elections < MaxElections
    /\ state' = [state EXCEPT ![i] = "Candidate"]
    /\ pc' = [pc EXCEPT ![i] = "campaign"]
    /\ UNCHANGED <<persistent, n, pending, boot, msgs, ghosts>>

\* ticker: the election timer ran out; the lock is released before the helper
\* takes it again.
Tick(i) ==
    /\ pc[i] = "sleep"
    /\ state[i] = "Follower" \/ votedFor[i] = NoOne
    /\ Elections < MaxElections
    /\ state' = [state EXCEPT ![i] = "Candidate"]
    /\ pc' = [pc EXCEPT ![i] = "campaign"]
    /\ UNCHANGED <<persistent, n, pending, boot, msgs, ghosts>>

\* Top of the helper's loop: it was deposed meanwhile.
Abandon(i) ==
    /\ pc[i] \in {"campaign", "check"}
    /\ state[i] # "Candidate"
    /\ pc' = [pc EXCEPT ![i] = "sleep"]
    /\ UNCHANGED <<persistent, state, n, pending, boot, msgs, ghosts>>

VoteRequest(i, j) ==
    [type |-> "RequestVote", src |-> i, boot |-> boot[i], dest |-> j,
     term |-> term[i] + 1, last |-> last[i]]

\* Top of the helper's loop: a new term, a vote for itself, saved, then asked for.
StartElection(i) ==
    /\ pc[i] = "campaign"
    /\ state[i] = "Candidate"
    /\ Elections < MaxElections
    /\ term' = [term EXCEPT ![i] = @ + 1]
    /\ votedFor' = [votedFor EXCEPT ![i] = i]
    /\ UNCHANGED last
    /\ Persist(i)
    /\ n' = [n EXCEPT ![i] = 1]
    /\ msgs' = msgs \cup {VoteRequest(i, j) : j \in Server \ {i}}
    /\ pc' = [pc EXCEPT ![i] = IF 1 >= Majority THEN "decide" ELSE "check"]
    /\ votes' = votes \cup {<<i, term[i] + 1, i>>}
    /\ counted' = [counted EXCEPT ![i] = {i}]
    /\ UNCHANGED <<state, pending, boot, elected>>

\* The check before the select: still a candidate, so wait on C_ or the timeout.
Await(i) ==
    /\ pc[i] = "check"
    /\ state[i] = "Candidate"
    /\ pc' = [pc EXCEPT ![i] = "select"]
    /\ UNCHANGED <<persistent, state, n, pending, boot, msgs, ghosts>>

\* A reply to this or an earlier election comes out of C_ and names a higher
\* term.  The state is not checked again after the wait.
LearnTerm(i, m) ==
    /\ pc[i] = "select"
    /\ m.type = "VoteReply" /\ m.dest = i
    /\ m.term > term[i]
    /\ StepDown(i, m.term)
    /\ UNCHANGED last
    /\ Persist(i)
    /\ msgs' = msgs \ {m}
    /\ pc' = [pc EXCEPT ![i] = "sleep"]
    /\ UNCHANGED <<n, pending, boot, ghosts>>

\* A reply comes out of C_: counted if it grants a vote in the current term.
CountVote(i, m) ==
    /\ pc[i] = "select"
    /\ m.type = "VoteReply" /\ m.dest = i
    /\ m.term <= term[i]
    /\ IF m.term = term[i] /\ m.granted
         THEN /\ n' = [n EXCEPT ![i] = @ + 1]
              /\ counted' = [counted EXCEPT ![i] = @ \cup {m.src}]
         ELSE UNCHANGED <<n, counted>>
    /\ pc' = [pc EXCEPT ![i] = IF n'[i] >= Majority THEN "decide" ELSE "check"]
    /\ msgs' = msgs \ {m}
    /\ UNCHANGED <<persistent, state, pending, boot, votes, elected>>

\* The select's timeout wins.
ElectionTimeout(i) ==
    /\ pc[i] = "select"
    /\ pc' = [pc EXCEPT ![i] = "decide"]
    /\ UNCHANGED <<persistent, state, n, pending, boot, msgs, ghosts>>

\* After the wait: leader if it is still a candidate and has a majority.
BecomeLeader(i) ==
    /\ pc[i] = "decide"
    /\ state[i] = "Candidate" /\ n[i] >= Majority
    /\ state' = [state EXCEPT ![i] = "Leader"]
    /\ pc' = [pc EXCEPT ![i] = "sleep"]
    /\ elected' = elected \cup {<<i, term[i]>>}
    /\ UNCHANGED <<persistent, n, pending, boot, msgs, votes, counted>>

\* After the wait: otherwise round the loop again.
Retry(i) ==
    /\ pc[i] = "decide"
    /\ ~(state[i] = "Candidate" /\ n[i] >= Majority)
    /\ pc' = [pc EXCEPT ![i] = "campaign"]
    /\ UNCHANGED <<persistent, state, n, pending, boot, msgs, ghosts>>

-----------------------------------------------------------------------------
(* The RequestVote handler. *)

\* Mutant of Granted: the vote already given in this term is forgotten.
Granted_VoteAgain(j, m) == m.term >= term[j] /\ UpToDate(m.last, last[j])

Granted(j, m) ==
    /\ m.term > term[j] \/ (m.term = term[j] /\ votedFor[j] \in {NoOne, m.src})
    /\ UpToDate(m.last, last[j])

\* Mutant of VoteAnswer: reply.Term is read before the request's term is adopted.
VoteAnswer_OldTerm(j, m, granted) ==
    [type |-> "VoteReply", src |-> j, dest |-> m.src, election |-> m.term,
     term |-> term[j], granted |-> granted]

VoteAnswer(j, m, granted) ==
    [type |-> "VoteReply", src |-> j, dest |-> m.src, election |-> m.term,
     term |-> IF m.term > term[j] THEN m.term ELSE term[j], granted |-> granted]

GrantVote(j, m) ==
    /\ m.type = "RequestVote" /\ m.dest = j
    /\ Granted(j, m)
    /\ term' = [term EXCEPT ![j] = m.term]
    /\ votedFor' = [votedFor EXCEPT ![j] = m.src]
    /\ state' = [state EXCEPT ![j] = IF m.term > term[j] THEN "Follower" ELSE @]
    /\ UNCHANGED last
    /\ Persist(j)
    /\ Answer(m, VoteAnswer(j, m, TRUE))
    /\ votes' = votes \cup {<<j, m.term, m.src>>}
    /\ UNCHANGED <<pc, n, pending, boot, counted, elected>>

\* A higher term is adopted, and saved, even when the log refuses the vote.
RefuseVote(j, m) ==
    /\ m.type = "RequestVote" /\ m.dest = j
    /\ ~Granted(j, m)
    /\ IF m.term > term[j]
         THEN StepDown(j, m.term) /\ UNCHANGED last /\ Persist(j)
         ELSE UNCHANGED <<persistent, state>>
    /\ Answer(m, VoteAnswer(j, m, FALSE))
    /\ UNCHANGED <<pc, n, pending, boot, ghosts>>

-----------------------------------------------------------------------------
(* Replication, as far as it changes terms, roles and the last log entry. *)

\* Start on a leader appends a command.
Start(i) ==
    /\ state[i] = "Leader"
    /\ last[i].index < MaxIndex
    /\ last' = [last EXCEPT ![i] = [term |-> term[i], index |-> @.index + 1]]
    /\ UNCHANGED <<term, votedFor>>
    /\ Persist(i)
    /\ UNCHANGED <<state, pc, n, pending, boot, msgs, ghosts>>

AppendCalls ==
    Cardinality({m \in msgs : m.type \notin {"RequestVote", "VoteReply"}})
      + Cardinality({e \in Server \X Server : e[2] \in pending[e[1]]})

\* startLearder: the loop for peer j sees a leader and spawns a sender.
Spawn(i, j) ==
    /\ state[i] = "Leader" /\ j # i
    /\ AppendCalls < MaxAppends
    /\ pending' = [pending EXCEPT ![i] = @ \cup {j}]
    /\ UNCHANGED <<persistent, state, pc, n, boot, msgs, ghosts>>

\* The spawned goroutine takes the lock again and builds its request from the
\* state it finds, without asking whether it is still the leader.
SendRequest(i, j, kind, p) ==
    /\ j \in pending[i]
    /\ kind = "AppendEntries" => p = last[i]
    /\ UpToDate(last[i], p)
    /\ pending' = [pending EXCEPT ![i] = @ \ {j}]
    /\ msgs' = msgs \cup {[type |-> kind, src |-> i, boot |-> boot[i],
                           dest |-> j, term |-> term[i], last |-> p]}
    /\ UNCHANGED <<persistent, state, pc, n, boot, ghosts>>

AppendAnswer(j, m, t) ==
    [type |-> "AppendReply", src |-> j, dest |-> m.src, term |-> t]

\* Both handlers refuse an older term.
RefuseAppend(j, m) ==
    /\ m.type \in {"AppendEntries", "InstallSnapshot"} /\ m.dest = j
    /\ m.term < term[j]
    /\ Answer(m, AppendAnswer(j, m, term[j]))
    /\ UNCHANGED <<persistent, state, pc, n, pending, boot, ghosts>>

\* Term adoption of both handlers: an equal term leaves a candidate a candidate.
Adopt(j, m) ==
    IF m.term > term[j] THEN StepDown(j, m.term)
                        ELSE UNCHANGED <<term, votedFor, state>>

\* AppendEntries: the log mismatches or there are no entries, or the entries
\* are already there, or the log now ends where the leader's does.  Only the
\* paths without entries fill in reply.Term.
AcceptAppend(j, m) ==
    /\ m.type = "AppendEntries" /\ m.dest = j
    /\ m.term >= term[j]
    /\ Adopt(j, m)
    /\ \/ UNCHANGED last /\ Answer(m, AppendAnswer(j, m, m.term))
       \/ UNCHANGED last /\ Answer(m, AppendAnswer(j, m, 0))
       \/ last' = [last EXCEPT ![j] = m.last] /\ Answer(m, AppendAnswer(j, m, 0))
    /\ Persist(j)
    /\ UNCHANGED <<pc, n, pending, boot, ghosts>>

\* InstallSnapshot: old or covered by the log, or it replaces the log.
\* reply.Term is the term before the adoption.
AcceptSnapshot(j, m) ==
    /\ m.type = "InstallSnapshot" /\ m.dest = j
    /\ m.term >= term[j]
    /\ Adopt(j, m)
    /\ last' \in {last, [last EXCEPT ![j] = m.last]}
    /\ Persist(j)
    /\ Answer(m, AppendAnswer(j, m, term[j]))
    /\ UNCHANGED <<pc, n, pending, boot, ghosts>>

\* The sender's goroutine gets the reply of either call.
ReceiveAppendReply(i, m) ==
    /\ m.type = "AppendReply" /\ m.dest = i
    /\ msgs' = msgs \ {m}
    /\ IF m.term > term[i]
         THEN StepDown(i, m.term) /\ UNCHANGED last /\ Persist(i)
         ELSE UNCHANGED <<persistent, state>>
    /\ UNCHANGED <<pc, n, pending, boot, ghosts>>

-----------------------------------------------------------------------------
(* Kill, then Make with the persister's content. *)

ToGone(i, m) == m.type \in {"VoteReply", "AppendReply"} /\ m.dest = i

Restart(i) ==
    /\ boot[i] < MaxRestarts
    /\ boot' = [boot EXCEPT ![i] = @ + 1]
    /\ term' = [term EXCEPT ![i] = saved[i].term]
    /\ votedFor' = [votedFor EXCEPT ![i] = saved[i].votedFor]
    /\ last' = [last EXCEPT ![i] = saved[i].last]
    /\ state' = [state EXCEPT ![i] = "Follower"]
    /\ pc' = [pc EXCEPT ![i] = "sleep"]
    /\ n' = [n EXCEPT ![i] = 0]
    /\ counted' = [counted EXCEPT ![i] = {}]
    /\ pending' = [pending EXCEPT ![i] = {}]
    /\ msgs' = {m \in msgs : ~ToGone(i, m)}
    /\ UNCHANGED <<saved, votes, elected>>

-----------------------------------------------------------------------------
Init ==
    /\ term = [i \in Server |-> 0]
    /\ votedFor = [i \in Server |-> NoOne]
    /\ last = [i \in Server |-> Origin]
    /\ state = [i \in Server |-> "Follower"]
    /\ saved = [i \in Server |-> [term |-> 0, votedFor |-> NoOne, last |-> Origin]]
    /\ pc = [i \in Server |-> "sleep"]
    /\ n = [i \in Server |-> 0]
    /\ pending = [i \in Server |-> {}]
    /\ boot = [i \in Server |-> 0]
    /\ msgs = {}
    /\ votes = {}
    /\ counted = [i \in Server |-> {}]
    /\ elected = {}

Helper(i) ==
    \/ Tick(i) \/ Abandon(i) \/ StartElection(i) \/ Await(i)
    \/ ElectionTimeout(i) \/ BecomeLeader(i) \/ Retry(i)
    \/ \E m \in msgs : LearnTerm(i, m) \/ CountVote(i, m)

Handler(j) ==
    \E m \in msgs : \/ GrantVote(j, m) \/ RefuseVote(j, m) \/ RefuseAppend(j, m)
                    \/ AcceptAppend(j, m) \/ AcceptSnapshot(j, m)

Replicate(i) ==
    \/ Start(i)
    \/ \E j \in Server : Spawn(i, j)
    \/ \E j \in Server, kind \in {"AppendEntries", "InstallSnapshot"} :
         \E t \in 0..last[i].term, x \in 0..last[i].index :
            SendRequest(i, j, kind, [term |-> t, index |-> x])
    \/ \E m \in msgs : ReceiveAppendReply(i, m)

Next == \E i \in Server : Helper(i) \/ Handler(i) \/ Replicate(i) \/ Restart(i)

Spec == Init /\ [][Next]_vars

-----------------------------------------------------------------------------
(* Properties. *)

\* The variables have the types of the fields of Raft and of the RPC arguments.
TypeOK ==
    /\ term \in [Server -> Nat]
    /\ votedFor \in [Server -> Server \cup {NoOne}]
    /\ last \in [Server -> Position]
    /\ state \in [Server -> {"Follower", "Candidate", "Leader"}]
    /\ saved \in [Server -> [term : Nat, votedFor : Server \cup {NoOne}, last : Position]]
    /\ pc \in [Server -> {"sleep", "campaign", "check", "select", "decide"}]
    /\ n \in [Server -> Nat]
    /\ pending \in [Server -> SUBSET Server]
    /\ boot \in [Server -> Nat]
    /\ msgs \subseteq Message
    /\ votes \subseteq Server \X Nat \X Server
    /\ counted \in [Server -> SUBSET Server]
    /\ elected \subseteq Server \X Nat

\* No term ever elects two leaders, counting the terms of servers that have
\* crashed or stepped down since (test.go:84 "term %d has %d (>1) leaders").
ElectionSafety ==
    \A e, f \in elected : e[2] = f[2] => e[1] = f[1]

\* A server never acts on a term, vote or log that a crash could take back:
\* between two critical sections the persister holds the state in memory.
DurableState ==
    \A i \in Server :
        saved[i] = [term |-> term[i], votedFor |-> votedFor[i], last |-> last[i]]

\* No step, a crash and restart included, lowers a server's term or changes
\* the vote it has given in its term.
VoteIsFinal ==
    [][\A i \in Server :
          /\ term'[i] >= term[i]
          /\ term'[i] = term[i] /\ votedFor[i] # NoOne => votedFor'[i] = votedFor[i]]_vars

\* A leader stays leader of its term until a higher term or a crash: neither the
\* ticker, whose guard lets a server that has not voted campaign whatever its
\* state, nor a message of its own term deposes it.
LeaderKeepsTerm ==
    [][\A i \in Server :
          state[i] = "Leader" /\ term'[i] = term[i] /\ boot'[i] = boot[i]
             => state'[i] = "Leader"]_vars

-----------------------------------------------------------------------------
(* The inductive invariant behind ElectionSafety. *)

\* A server gives one vote per term.
VoteOnce ==
    \A v, w \in votes : v[1] = w[1] /\ v[2] = w[2] => v[3] = w[3]

\* A voter's term is at least that of its votes, and it remembers the latest.
VoteKept ==
    \A v \in votes : /\ v[2] <= term[v[1]]
                     /\ v[2] = term[v[1]] => votedFor[v[1]] = v[3]

\* A vote call: who asks whom, and in which election.
VoteCalls == {m \in msgs : m.type \in {"RequestVote", "VoteReply"}}
Caller(m) == IF m.type = "RequestVote" THEN m.src ELSE m.dest
Callee(m) == IF m.type = "RequestVote" THEN m.dest ELSE m.src
ElectionOf(m) == IF m.type = "RequestVote" THEN m.term ELSE m.election

\* Calls belong to elections already started, and one that grants a vote is
\* backed by that vote in that very term.
CallsBacked ==
    \A m \in VoteCalls :
        /\ ElectionOf(m) <= term[Caller(m)]
        /\ m.type = "VoteReply" /\ m.granted
             => m.term = m.election /\ <<m.src, m.term, m.dest>> \in votes

\* A call is in the network once: as its request or as its reply.
OneMessagePerCall ==
    \A m, o \in VoteCalls :
        Caller(m) = Caller(o) /\ Callee(m) = Callee(o) /\ ElectionOf(m) = ElectionOf(o)
          => m = o

Collecting(i) == state[i] = "Candidate" /\ pc[i] \in {"check", "select", "decide"}

\* n counts distinct servers, each of which voted for this candidate in its
\* present term, and none of them can be counted again.
Tally ==
    \A i \in Server : Collecting(i) =>
        /\ n[i] = Cardinality(counted[i])
        /\ i \in counted[i]
        /\ \A v \in counted[i] : <<v, term[i], i>> \in votes
        /\ \A m \in VoteCalls : Caller(m) = i /\ ElectionOf(m) = term[i]
                                 => Callee(m) \notin counted[i]

\* A leader has voted for itself.
LeaderVoted == \A i \in Server : state[i] = "Leader" => votedFor[i] = i

\* Every election was won by the votes of a majority.
WonByMajority ==
    \A e \in elected : \E Q \in SUBSET Server :
        /\ Cardinality(Q) >= Majority
        /\ \A v \in Q : <<v, e[2], e[1]>> \in votes

\* Why a term elects one leader: votes are durable and given once per term, and
\* what a candidate counts are votes of distinct servers for it in that term.
ElectionInv ==
    /\ TypeOK
    /\ DurableState
    /\ VoteOnce
    /\ VoteKept
    /\ CallsBacked
    /\ OneMessagePerCall
    /\ Tally
    /\ LeaderVoted
    /\ WonByMajority

=============================================================================
