------------------------- MODULE RaftElectionProofs -------------------------
(* Proofs about RaftElection, for every cluster and every value of the bounds. *)
EXTENDS RaftElection, FiniteSetTheorems, TLAPS

\* What a message of each type carries.
LEMMA MessageFields ==
    ASSUME TypeOK, NEW m \in msgs
    PROVE  /\ m.type \in {"RequestVote", "AppendEntries", "InstallSnapshot",
                          "VoteReply", "AppendReply"}
           /\ m.src \in Server /\ m.dest \in Server /\ m.term \in Nat
           /\ m.type \in {"RequestVote", "AppendEntries", "InstallSnapshot"}
                => m \in Request /\ m.boot \in Nat /\ m.last \in Position
           /\ m.type = "VoteReply"
                => m \in VoteReply /\ m.election \in Nat /\ m.granted \in BOOLEAN
BY DEF TypeOK, Message, Request, VoteReply, AppendReply

\* Adopting a term keeps the types.
LEMMA StepDownType ==
    ASSUME TypeOK, NEW i \in Server, NEW t \in Nat, StepDown(i, t)
    PROVE  /\ term' \in [Server -> Nat]
           /\ votedFor' \in [Server -> Server \cup {NoOne}]
           /\ state' \in [Server -> {"Follower", "Candidate", "Leader"}]
BY DEF TypeOK, StepDown

\* persist() keeps the type of what is saved.
LEMMA PersistType ==
    ASSUME TypeOK, NEW i \in Server, Persist(i),
           term' \in [Server -> Nat],
           votedFor' \in [Server -> Server \cup {NoOne}],
           last' \in [Server -> Position]
    PROVE  saved' \in [Server -> [term : Nat, votedFor : Server \cup {NoOne}, last : Position]]
BY DEF TypeOK, Persist

LEMMA AnswerType ==
    ASSUME TypeOK, NEW m \in msgs, NEW r \in Message, Answer(m, r)
    PROVE  msgs' \subseteq Message
BY DEF TypeOK, Answer

\* Every variable keeps the type of the field of Raft it stands for.
THEOREM TypeCorrect == Spec => []TypeOK
<1>1. Init => TypeOK
  BY DEF Init, TypeOK, Position, Origin
<1>2. TypeOK /\ [Next]_vars => TypeOK'
  <2> SUFFICES ASSUME TypeOK, [Next]_vars
               PROVE  TypeOK'
    OBVIOUS
  <2> USE DEF TypeOK
  <2>1. ASSUME NEW i \in Server, Tick(i)
        PROVE  TypeOK'
    BY <2>1 DEF Tick, persistent, ghosts
  <2>2. ASSUME NEW i \in Server, Abandon(i)
        PROVE  TypeOK'
    BY <2>2 DEF Abandon, persistent, ghosts
  <2>3. ASSUME NEW i \in Server, StartElection(i)
        PROVE  TypeOK'
    <3>1. /\ term' \in [Server -> Nat]
          /\ votedFor' \in [Server -> Server \cup {NoOne}]
          /\ last' \in [Server -> Position]
          /\ n' \in [Server -> Nat]
          /\ pc' \in [Server -> {"sleep", "campaign", "check", "select", "decide"}]
          /\ votes' \subseteq Server \X Nat \X Server
          /\ counted' \in [Server -> SUBSET Server]
      BY <2>3 DEF StartElection
    <3>2. saved' \in [Server -> [term : Nat, votedFor : Server \cup {NoOne}, last : Position]]
      BY <2>3, <3>1, PersistType DEF StartElection
    <3>3. msgs' \subseteq Message
      BY <2>3 DEF StartElection, VoteRequest, Message, Request
    <3> QED BY <2>3, <3>1, <3>2, <3>3 DEF StartElection
  <2>4. ASSUME NEW i \in Server, Await(i)
        PROVE  TypeOK'
    BY <2>4 DEF Await, persistent, ghosts
  <2>5. ASSUME NEW i \in Server, ElectionTimeout(i)
        PROVE  TypeOK'
    BY <2>5 DEF ElectionTimeout, persistent, ghosts
  <2>6. ASSUME NEW i \in Server, BecomeLeader(i)
        PROVE  TypeOK'
    BY <2>6 DEF BecomeLeader, persistent
  <2>7. ASSUME NEW i \in Server, Retry(i)
        PROVE  TypeOK'
    BY <2>7 DEF Retry, persistent, ghosts
  <2>8. ASSUME NEW i \in Server, NEW m \in msgs, LearnTerm(i, m)
        PROVE  TypeOK'
    BY <2>8, StepDownType, PersistType, MessageFields DEF LearnTerm, ghosts
  <2>9. ASSUME NEW i \in Server, NEW m \in msgs, CountVote(i, m)
        PROVE  TypeOK'
    <3>1. /\ n' \in [Server -> Nat]
          /\ counted' \in [Server -> SUBSET Server]
      BY SMTT(60), <2>9, MessageFields DEF CountVote
    <3>2. /\ pc' \in [Server -> {"sleep", "campaign", "check", "select", "decide"}]
          /\ msgs' \subseteq Message
      BY <2>9 DEF CountVote
    <3> QED BY <2>9, <3>1, <3>2 DEF CountVote, persistent
  <2>10. ASSUME NEW j \in Server, NEW m \in msgs, GrantVote(j, m)
         PROVE  TypeOK'
    <3>1. VoteAnswer(j, m, TRUE) \in Message
      BY <2>10, MessageFields DEF GrantVote, VoteAnswer, Message, VoteReply
    <3>2. /\ term' \in [Server -> Nat]
          /\ votedFor' \in [Server -> Server \cup {NoOne}]
          /\ last' \in [Server -> Position]
          /\ state' \in [Server -> {"Follower", "Candidate", "Leader"}]
          /\ votes' \subseteq Server \X Nat \X Server
      BY <2>10, MessageFields DEF GrantVote
    <3> QED BY <2>10, <3>1, <3>2, AnswerType, PersistType DEF GrantVote
  <2>11. ASSUME NEW j \in Server, NEW m \in msgs, RefuseVote(j, m)
         PROVE  TypeOK'
    <3>1. VoteAnswer(j, m, FALSE) \in Message
      BY <2>11, MessageFields DEF RefuseVote, VoteAnswer, Message, VoteReply
    <3> QED BY <2>11, <3>1, AnswerType, StepDownType, PersistType, MessageFields
            DEF RefuseVote, persistent, ghosts
  <2>12. ASSUME NEW i \in Server, Start(i)
         PROVE  TypeOK'
    <3>1. last' \in [Server -> Position]
      BY <2>12 DEF Start, Position
    <3> QED BY <2>12, <3>1, PersistType DEF Start, ghosts
  <2>13. ASSUME NEW i \in Server, NEW j \in Server, Spawn(i, j)
         PROVE  TypeOK'
    BY <2>13 DEF Spawn, persistent, ghosts
  <2>14. ASSUME NEW i \in Server, NEW j \in Server,
                NEW kind \in {"AppendEntries", "InstallSnapshot"},
                NEW p \in Position, SendRequest(i, j, kind, p)
         PROVE  TypeOK'
    BY <2>14 DEF SendRequest, persistent, ghosts, Message, Request
  <2>15. ASSUME NEW j \in Server, NEW m \in msgs, RefuseAppend(j, m)
         PROVE  TypeOK'
    <3>1. AppendAnswer(j, m, term[j]) \in Message
      BY MessageFields DEF AppendAnswer, Message, AppendReply
    <3> QED BY <2>15, <3>1, AnswerType DEF RefuseAppend, persistent, ghosts
  <2>16. ASSUME NEW j \in Server, NEW m \in msgs, Adopt(j, m)
         PROVE  /\ term' \in [Server -> Nat]
                /\ votedFor' \in [Server -> Server \cup {NoOne}]
                /\ state' \in [Server -> {"Follower", "Candidate", "Leader"}]
    BY <2>16, StepDownType, MessageFields DEF Adopt
  <2>17. ASSUME NEW j \in Server, NEW m \in msgs, AcceptAppend(j, m)
         PROVE  TypeOK'
    <3>1. AppendAnswer(j, m, m.term) \in Message /\ AppendAnswer(j, m, 0) \in Message
      BY MessageFields DEF AppendAnswer, Message, AppendReply
    <3>2. msgs' \subseteq Message
      BY <2>17, <3>1, AnswerType DEF AcceptAppend
    <3>3. last' \in [Server -> Position]
      BY <2>17, MessageFields DEF AcceptAppend
    <3> QED BY <2>16, <2>17, <3>2, <3>3, PersistType DEF AcceptAppend, ghosts
  <2>18. ASSUME NEW j \in Server, NEW m \in msgs, AcceptSnapshot(j, m)
         PROVE  TypeOK'
    <3>1. AppendAnswer(j, m, term[j]) \in Message
      BY MessageFields DEF AppendAnswer, Message, AppendReply
    <3>2. msgs' \subseteq Message
      BY <2>18, <3>1, AnswerType DEF AcceptSnapshot
    <3>3. last' \in [Server -> Position]
      BY <2>18, MessageFields DEF AcceptSnapshot
    <3> QED BY <2>16, <2>18, <3>2, <3>3, PersistType DEF AcceptSnapshot, ghosts
  <2>19. ASSUME NEW i \in Server, NEW m \in msgs, ReceiveAppendReply(i, m)
         PROVE  TypeOK'
    BY <2>19, StepDownType, PersistType, MessageFields
       DEF ReceiveAppendReply, persistent, ghosts
  <2>20. ASSUME NEW i \in Server, Restart(i)
         PROVE  TypeOK'
    BY <2>20 DEF Restart
  <2>21. CASE UNCHANGED vars
    BY <2>21 DEF vars, persistent, ghosts
  <2>22. ASSUME NEW i \in Server, NEW t \in 0..last[i].term, NEW x \in 0..last[i].index
         PROVE  [term |-> t, index |-> x] \in Position
    BY DEF Position
  <2> HIDE DEF TypeOK
  <2> QED
    BY <2>1, <2>2, <2>3, <2>4, <2>5, <2>6, <2>7, <2>8, <2>9, <2>10, <2>11, <2>12,
       <2>13, <2>14, <2>15, <2>17, <2>18, <2>19, <2>20, <2>21, <2>22
    DEF Next, Helper, Handler, Replicate
<1> QED BY <1>1, <1>2, PTL DEF Spec

-----------------------------------------------------------------------------
(* Steps that give no vote, count none and win no election. *)

Background ==
    /\ DurableState'
    /\ UNCHANGED <<votes, elected>>
    /\ VoteCalls' \subseteq VoteCalls
    /\ \A i \in Server :
          /\ term'[i] >= term[i]
          /\ term'[i] = term[i] => votedFor'[i] = votedFor[i]
          /\ Collecting(i)' => /\ Collecting(i)
                              /\ term'[i] = term[i]
                              /\ n'[i] = n[i] /\ counted'[i] = counted[i]
          /\ state'[i] = "Leader" => state[i] = "Leader" /\ term'[i] = term[i]
          /\ state[i] = "Leader" /\ term'[i] = term[i] /\ boot'[i] = boot[i]
               => state'[i] = "Leader"

\* A step that touches only the server's own role and its helper's place.
LEMMA LocalIsBackground ==
    ASSUME TypeOK, DurableState, LeaderVoted, NEW i \in Server,
           \/ Tick(i) \/ Abandon(i) \/ Await(i) \/ ElectionTimeout(i) \/ Retry(i)
    PROVE  Background
<1>1. /\ UNCHANGED <<term, votedFor, last, saved, votes, elected, n, counted, msgs, boot>>
  BY DEF Tick, Abandon, Await, ElectionTimeout, Retry, persistent, ghosts
<1>2. DurableState' /\ VoteCalls' = VoteCalls
  BY <1>1 DEF DurableState, VoteCalls
<1>3. CASE Tick(i)
  BY <1>1, <1>2, <1>3, ServerAssumption
     DEF Background, Tick, Collecting, LeaderVoted, TypeOK
<1>4. CASE Abandon(i) \/ Await(i) \/ ElectionTimeout(i) \/ Retry(i)
  BY <1>1, <1>2, <1>4
     DEF Background, Abandon, Await, ElectionTimeout, Retry, Collecting, TypeOK,
         persistent, ghosts
<1> QED BY <1>3, <1>4

\* Adopting a higher term, or nothing, with persist().
LEMMA AdoptionIsBackground ==
    ASSUME TypeOK, DurableState, NEW i \in Server, NEW t \in Nat,
           \/ t > term[i] /\ StepDown(i, t)
           \/ UNCHANGED <<term, votedFor, state>>,
           \/ Persist(i) /\ \E p : last' = [last EXCEPT ![i] = p]
           \/ UNCHANGED persistent,
           UNCHANGED <<votes, elected, n, counted, boot>>,
           pc' = pc \/ pc' = [pc EXCEPT ![i] = "sleep"],
           VoteCalls' \subseteq VoteCalls
    PROVE  Background
<1>1. DurableState'
  BY DEF TypeOK, DurableState, Persist, StepDown, persistent
<1>2. ASSUME NEW j \in Server
      PROVE  /\ term'[j] >= term[j]
             /\ term'[j] = term[j] => votedFor'[j] = votedFor[j] /\ state'[j] = state[j]
             /\ term'[j] # term[j] => state'[j] = "Follower"
  BY DEF TypeOK, StepDown
<1>3. ASSUME NEW j \in Server
      PROVE  Collecting(j)' => Collecting(j)
  BY <1>2 DEF Collecting, TypeOK
<1> QED BY <1>1, <1>2, <1>3 DEF Background, Collecting

LEMMA LearnTermIsBackground ==
    ASSUME TypeOK, DurableState, NEW i \in Server, NEW m \in msgs, LearnTerm(i, m)
    PROVE  Background
<1>1. last' = [last EXCEPT ![i] = last[i]]
  BY DEF LearnTerm, TypeOK
<1>2. VoteCalls' \subseteq VoteCalls
  BY DEF LearnTerm, VoteCalls
<1>3. m.term \in Nat
  BY MessageFields
<1> QED BY <1>1, <1>2, <1>3, AdoptionIsBackground DEF LearnTerm, ghosts

\* The replication calls: none of their messages is a vote call.
LEMMA ReplicationIsBackground ==
    ASSUME TypeOK, DurableState, NEW i \in Server,
           \/ Replicate(i)
           \/ \E m \in msgs : RefuseAppend(i, m) \/ AcceptAppend(i, m) \/ AcceptSnapshot(i, m)
    PROVE  Background
<1>1. last = [last EXCEPT ![i] = last[i]]
  BY DEF TypeOK
<1>2. ASSUME NEW m \in msgs, NEW t, Answer(m, AppendAnswer(i, m, t)),
             m.type \in {"AppendEntries", "InstallSnapshot"}
      PROVE  VoteCalls' \subseteq VoteCalls
  BY <1>2 DEF Answer, AppendAnswer, VoteCalls
<1>3. CASE Start(i)
  <2>1. VoteCalls' = VoteCalls
    BY <1>3 DEF Start, VoteCalls
  <2> QED BY <1>3, <2>1, AdoptionIsBackground DEF Start, ghosts
<1>4. ASSUME NEW j \in Server, Spawn(i, j)
      PROVE  Background
  <2>1. VoteCalls' = VoteCalls
    BY <1>4 DEF Spawn, VoteCalls
  <2> QED BY <1>4, <2>1, AdoptionIsBackground DEF Spawn, ghosts, persistent
<1>5. ASSUME NEW j \in Server, NEW kind \in {"AppendEntries", "InstallSnapshot"},
             NEW p, SendRequest(i, j, kind, p)
      PROVE  Background
  <2>1. VoteCalls' \subseteq VoteCalls
    BY <1>5 DEF SendRequest, VoteCalls
  <2> QED BY <1>5, <2>1, AdoptionIsBackground DEF SendRequest, ghosts, persistent
<1>6. ASSUME NEW m \in msgs, ReceiveAppendReply(i, m)
      PROVE  Background
  <2>1. VoteCalls' \subseteq VoteCalls
    BY <1>6 DEF ReceiveAppendReply, VoteCalls
  <2>2. m.term \in Nat
    BY MessageFields
  <2> QED BY <1>1, <1>6, <2>1, <2>2, AdoptionIsBackground
          DEF ReceiveAppendReply, ghosts, persistent
<1>7. ASSUME NEW m \in msgs, RefuseAppend(i, m)
      PROVE  Background
  <2>1. VoteCalls' \subseteq VoteCalls
    BY <1>2, <1>7 DEF RefuseAppend
  <2> QED BY <1>7, <2>1, AdoptionIsBackground DEF RefuseAppend, ghosts, persistent
<1>8. ASSUME NEW m \in msgs, AcceptAppend(i, m)
      PROVE  Background
  <2>1. VoteCalls' \subseteq VoteCalls
    BY <1>2, <1>8 DEF AcceptAppend
  <2>2. m.term \in Nat
    BY MessageFields
  <2>3. \E p : last' = [last EXCEPT ![i] = p]
    BY <1>1, <1>8 DEF AcceptAppend
  <2> QED BY <1>8, <2>1, <2>2, <2>3, AdoptionIsBackground DEF AcceptAppend, Adopt, ghosts
<1>9. ASSUME NEW m \in msgs, AcceptSnapshot(i, m)
      PROVE  Background
  <2>1. VoteCalls' \subseteq VoteCalls
    BY <1>2, <1>9 DEF AcceptSnapshot
  <2>2. m.term \in Nat
    BY MessageFields
  <2>3. \E p : last' = [last EXCEPT ![i] = p]
    BY <1>1, <1>9 DEF AcceptSnapshot
  <2> QED BY <1>9, <2>1, <2>2, <2>3, AdoptionIsBackground DEF AcceptSnapshot, Adopt, ghosts
<1> QED BY <1>3, <1>4, <1>5, <1>6, <1>7, <1>8, <1>9 DEF Replicate

\* A restart finds in the persister what the server had in memory.
LEMMA RestartIsBackground ==
    ASSUME TypeOK, DurableState, NEW i \in Server, Restart(i)
    PROVE  Background
<1>1. UNCHANGED <<term, votedFor, last, saved>>
  BY DEF Restart, DurableState, TypeOK
<1>2. DurableState' /\ VoteCalls' \subseteq VoteCalls
  BY <1>1 DEF DurableState, VoteCalls, Restart
<1>3. ASSUME NEW j \in Server
      PROVE  /\ j # i => /\ state'[j] = state[j] /\ pc'[j] = pc[j]
                        /\ n'[j] = n[j] /\ counted'[j] = counted[j]
             /\ j = i => state'[j] = "Follower" /\ boot'[j] # boot[j]
  BY DEF Restart, TypeOK
<1> QED BY <1>1, <1>2, <1>3 DEF Background, Restart, Collecting, TypeOK

\* Steps of this kind keep the whole invariant.
LEMMA BackgroundKeepsInv ==
    ASSUME ElectionInv, TypeOK', Background
    PROVE  ElectionInv'
<1> USE DEF ElectionInv, Background
<1>1. VoteOnce' /\ WonByMajority'
  BY DEF VoteOnce, WonByMajority, Majority
<1>2. VoteKept'
  <2> SUFFICES ASSUME NEW v \in votes
               PROVE  /\ v[2] <= term'[v[1]]
                      /\ v[2] = term'[v[1]] => votedFor'[v[1]] = v[3]
    BY DEF VoteKept
  <2>1. v[1] \in Server /\ v[2] \in Nat /\ term[v[1]] \in Nat /\ term'[v[1]] \in Nat
    BY DEF TypeOK
  <2>2. /\ v[2] <= term[v[1]]
        /\ v[2] = term[v[1]] => votedFor[v[1]] = v[3]
    BY DEF VoteKept
  <2> QED BY <2>1, <2>2
<1>3. CallsBacked' /\ OneMessagePerCall'
  <2>1. ASSUME NEW m \in VoteCalls
        PROVE  /\ Caller(m) \in Server
               /\ ElectionOf(m) \in Nat
    <3>1. m \in msgs /\ m.type \in {"RequestVote", "VoteReply"}
      BY DEF VoteCalls
    <3> QED BY <3>1, MessageFields DEF Caller, ElectionOf
  <2>2. CallsBacked'
    <3> SUFFICES ASSUME NEW m \in VoteCalls
                 PROVE  /\ ElectionOf(m) <= term'[Caller(m)]
                        /\ m.type = "VoteReply" /\ m.granted
                             => m.term = m.election /\ <<m.src, m.term, m.dest>> \in votes
      BY DEF CallsBacked
    <3>1. term[Caller(m)] \in Nat /\ term'[Caller(m)] \in Nat
      BY <2>1 DEF TypeOK
    <3>2. ElectionOf(m) <= term[Caller(m)]
      BY DEF CallsBacked
    <3>3. ElectionOf(m) <= term'[Caller(m)]
      BY <2>1, <3>1, <3>2
    <3> QED BY <3>3 DEF CallsBacked
  <2> QED BY <2>2 DEF OneMessagePerCall
<1>4. Tally'
  BY DEF Tally
<1>5. LeaderVoted'
  BY DEF LeaderVoted
<1> QED BY <1>1, <1>2, <1>3, <1>4, <1>5

-----------------------------------------------------------------------------
(* Steps that give a vote. *)

\* A vote for c in term t, given by a server that was behind t or had not voted
\* for another in it, and remembered.
LEMMA NewVote ==
    ASSUME TypeOK, VoteOnce, VoteKept,
           NEW i \in Server, NEW t \in Nat, NEW c \in Server,
           votes' = votes \cup {<<i, t, c>>},
           term' = [term EXCEPT ![i] = t],
           votedFor' = [votedFor EXCEPT ![i] = c],
           t > term[i] \/ (t = term[i] /\ votedFor[i] \in {NoOne, c})
    PROVE  VoteOnce' /\ VoteKept'
<1>1. ASSUME NEW v \in votes, v[1] = i
      PROVE  v[2] <= t /\ (v[2] = t => v[3] = c)
  <2>1. /\ v[2] \in Nat /\ v[3] \in Server /\ term[i] \in Nat
        /\ v[2] <= term[i]
        /\ v[2] = term[i] => votedFor[i] = v[3]
    BY <1>1 DEF TypeOK, VoteKept
  <2> QED BY <2>1, ServerAssumption
<1>2. VoteOnce'
  BY <1>1 DEF VoteOnce
<1>3. VoteKept'
  <2> SUFFICES ASSUME NEW v \in votes'
               PROVE  /\ v[2] <= term'[v[1]]
                      /\ v[2] = term'[v[1]] => votedFor'[v[1]] = v[3]
    BY DEF VoteKept
  <2>1. term'[i] = t /\ votedFor'[i] = c
    BY DEF TypeOK
  <2>2. CASE v = <<i, t, c>>
    BY <2>1, <2>2
  <2>3. CASE v \in votes /\ v[1] = i
    BY <1>1, <2>1, <2>3
  <2>4. CASE v \in votes /\ v[1] # i
    <3>1. v[1] \in Server
      BY <2>4 DEF TypeOK
    <3>2. term'[v[1]] = term[v[1]] /\ votedFor'[v[1]] = votedFor[v[1]]
      BY <2>4, <3>1 DEF TypeOK
    <3> QED BY <2>4, <3>2 DEF VoteKept
  <2> QED BY <2>2, <2>3, <2>4
<1> QED BY <1>2, <1>3

LEMMA CallFields ==
    ASSUME TypeOK, NEW m \in VoteCalls
    PROVE  /\ m \in msgs /\ m.type \in {"RequestVote", "VoteReply"}
           /\ Caller(m) \in Server /\ Callee(m) \in Server /\ ElectionOf(m) \in Nat
<1>1. m \in msgs /\ m.type \in {"RequestVote", "VoteReply"}
  BY DEF VoteCalls
<1> QED BY <1>1, MessageFields DEF Caller, Callee, ElectionOf

\* A call whose election had started still has when terms have only grown.
LEMMA CallsStayOld ==
    ASSUME TypeOK, TypeOK', CallsBacked,
           \A i \in Server : term'[i] >= term[i],
           NEW m \in VoteCalls
    PROVE  ElectionOf(m) <= term'[Caller(m)]
<1>1. /\ Caller(m) \in Server /\ ElectionOf(m) \in Nat
      /\ term[Caller(m)] \in Nat /\ term'[Caller(m)] \in Nat
      /\ term'[Caller(m)] >= term[Caller(m)]
  BY CallFields DEF TypeOK
<1>2. ElectionOf(m) <= term[Caller(m)]
  BY DEF CallsBacked
<1> QED BY <1>1, <1>2

LEMMA StartElectionKeepsInv ==
    ASSUME ElectionInv, TypeOK', NEW i \in Server, StartElection(i)
    PROVE  ElectionInv'
<1>1. TypeOK /\ DurableState /\ term[i] \in Nat /\ term[i] + 1 \in Nat /\ term[i] + 1 > term[i]
  BY DEF ElectionInv, TypeOK
<1>2. DurableState'
  BY <1>1 DEF StartElection, DurableState, TypeOK, Persist
<1>3. VoteOnce' /\ VoteKept'
  BY <1>1, NewVote DEF ElectionInv, StartElection
<1>4. \A j \in Server : term'[j] >= term[j]
  BY <1>1 DEF StartElection, TypeOK
<1> DEFINE New == {VoteRequest(i, j) : j \in Server \ {i}}
<1>5. VoteCalls' = VoteCalls \cup New
  BY DEF StartElection, VoteCalls, VoteRequest
<1>6. ASSUME NEW m \in New
      PROVE  /\ m.type = "RequestVote" /\ Caller(m) = i /\ Callee(m) # i
             /\ ElectionOf(m) = term[i] + 1
             /\ m = VoteRequest(i, Callee(m))
  BY DEF VoteRequest, Caller, Callee, ElectionOf
<1>7. ASSUME NEW m \in VoteCalls
      PROVE  ElectionOf(m) \in Nat /\ ~(Caller(m) = i /\ ElectionOf(m) = term[i] + 1)
  <2>1. ElectionOf(m) \in Nat
    BY <1>1, CallFields
  <2>2. ElectionOf(m) <= term[Caller(m)]
    BY DEF ElectionInv, CallsBacked
  <2> QED BY <1>1, <2>1, <2>2
<1>8. term'[i] = term[i] + 1
  BY DEF StartElection, ElectionInv, TypeOK
<1> HIDE DEF New
<1>9. CallsBacked'
  <2>1. ASSUME NEW m \in VoteCalls
        PROVE  /\ ElectionOf(m) <= term'[Caller(m)]
               /\ m.type = "VoteReply" /\ m.granted
                    => m.term = m.election /\ <<m.src, m.term, m.dest>> \in votes'
    BY <1>4, CallsStayOld DEF ElectionInv, CallsBacked, StartElection
  <2>2. ASSUME NEW m \in New
        PROVE  /\ ElectionOf(m) <= term'[Caller(m)]
               /\ m.type # "VoteReply"
    <3>1. ElectionOf(m) = term'[Caller(m)]
      BY <1>6, <1>8
    <3> QED BY <1>1, <1>6, <3>1
  <2> QED BY <1>5, <2>1, <2>2 DEF CallsBacked
<1>10. OneMessagePerCall'
  BY <1>5, <1>6, <1>7 DEF ElectionInv, OneMessagePerCall
<1>11. Tally'
  <2> SUFFICES ASSUME NEW k \in Server, Collecting(k)'
               PROVE  /\ n'[k] = Cardinality(counted'[k])
                      /\ k \in counted'[k]
                      /\ \A v \in counted'[k] : <<v, term'[k], k>> \in votes'
                      /\ \A m \in VoteCalls' : Caller(m) = k /\ ElectionOf(m) = term'[k]
                            => Callee(m) \notin counted'[k]
    BY DEF Tally
  <2>1. CASE k = i
    <3>1. n'[i] = 1 /\ counted'[i] = {i} /\ <<i, term'[i], i>> \in votes'
      BY <1>8 DEF StartElection, ElectionInv, TypeOK
    <3>2. Cardinality({i}) = 1
      BY FS_Singleton
    <3> QED BY <1>5, <1>6, <1>7, <1>8, <2>1, <3>1, <3>2
  <2>2. CASE k # i
    <3>1. /\ n'[k] = n[k] /\ counted'[k] = counted[k] /\ term'[k] = term[k]
          /\ votes \subseteq votes' /\ Collecting(k)
      BY <2>2 DEF StartElection, ElectionInv, TypeOK, Collecting
    <3> QED BY <1>5, <1>6, <2>2, <3>1 DEF ElectionInv, Tally
  <2> QED BY <2>1, <2>2
<1>12. LeaderVoted'
  BY DEF ElectionInv, StartElection, LeaderVoted, TypeOK
<1>13. WonByMajority'
  <2>1. votes \subseteq votes' /\ elected' = elected
    BY DEF StartElection
  <2> QED BY <2>1 DEF ElectionInv, WonByMajority, Majority
<1> QED BY <1>2, <1>3, <1>9, <1>10, <1>11, <1>12, <1>13 DEF ElectionInv

\* The RequestVote handler turns a request into the reply of the same call.
LEMMA AnsweredCalls ==
    ASSUME ElectionInv, TypeOK', NEW j \in Server,
           NEW m \in msgs, m.type = "RequestVote", m.dest = j,
           NEW g \in BOOLEAN, Answer(m, VoteAnswer(j, m, g)),
           g => m.term >= term[j] /\ <<j, m.term, m.src>> \in votes',
           votes \subseteq votes',
           \A i \in Server : term'[i] >= term[i]
    PROVE  /\ CallsBacked' /\ OneMessagePerCall'
           /\ \A o \in VoteCalls' : \E q \in VoteCalls :
                 Caller(o) = Caller(q) /\ Callee(o) = Callee(q) /\ ElectionOf(o) = ElectionOf(q)
<1> DEFINE r == VoteAnswer(j, m, g)
<1>1. /\ TypeOK /\ m \in VoteCalls /\ m.src \in Server /\ m.term \in Nat /\ term[j] \in Nat
  BY MessageFields DEF ElectionInv, VoteCalls, TypeOK
<1>2. /\ r.type = "VoteReply" /\ r.granted = g
      /\ Caller(r) = Caller(m) /\ Callee(r) = Callee(m) /\ ElectionOf(r) = ElectionOf(m)
  BY DEF VoteAnswer, Caller, Callee, ElectionOf
<1>3. g => r.term = r.election /\ r.src = j /\ r.dest = m.src /\ r.term = m.term
  BY <1>1 DEF VoteAnswer
<1> HIDE DEF r
<1>4. VoteCalls' \subseteq (VoteCalls \ {m}) \cup {r}
  BY DEF Answer, VoteCalls, r
<1>5. CallsBacked'
  <2>1. ASSUME NEW o \in VoteCalls
        PROVE  /\ ElectionOf(o) <= term'[Caller(o)]
               /\ o.type = "VoteReply" /\ o.granted
                    => o.term = o.election /\ <<o.src, o.term, o.dest>> \in votes'
    BY CallsStayOld DEF ElectionInv, CallsBacked
  <2>2. ElectionOf(r) <= term'[Caller(r)]
    BY <1>1, <1>2, <2>1
  <2> QED BY <1>2, <1>3, <1>4, <2>1, <2>2 DEF CallsBacked
<1>6. OneMessagePerCall'
  BY <1>1, <1>2, <1>4 DEF ElectionInv, OneMessagePerCall
<1> QED BY <1>1, <1>2, <1>4, <1>5, <1>6

\* Tally survives when the servers still collecting have the same count, term
\* and calls, and votes have only grown.
LEMMA TallyKept ==
    ASSUME Tally, votes \subseteq votes',
           \A k \in Server : Collecting(k)' =>
               Collecting(k) /\ n'[k] = n[k] /\ counted'[k] = counted[k] /\ term'[k] = term[k],
           \A o \in VoteCalls' : \E q \in VoteCalls :
               Caller(o) = Caller(q) /\ Callee(o) = Callee(q) /\ ElectionOf(o) = ElectionOf(q)
    PROVE  Tally'
<1> SUFFICES ASSUME NEW k \in Server, Collecting(k)'
             PROVE  /\ n'[k] = Cardinality(counted'[k])
                    /\ k \in counted'[k]
                    /\ \A v \in counted'[k] : <<v, term'[k], k>> \in votes'
                    /\ \A o \in VoteCalls' : Caller(o) = k /\ ElectionOf(o) = term'[k]
                          => Callee(o) \notin counted'[k]
  BY DEF Tally
<1>1. Collecting(k) /\ n'[k] = n[k] /\ counted'[k] = counted[k] /\ term'[k] = term[k]
  OBVIOUS
<1>2. /\ n[k] = Cardinality(counted[k])
      /\ k \in counted[k]
      /\ \A v \in counted[k] : <<v, term[k], k>> \in votes
      /\ \A q \in VoteCalls : Caller(q) = k /\ ElectionOf(q) = term[k]
            => Callee(q) \notin counted[k]
  BY <1>1 DEF Tally
<1> QED BY <1>1, <1>2

LEMMA GrantVoteKeepsInv ==
    ASSUME ElectionInv, TypeOK', NEW j \in Server, NEW m \in msgs, GrantVote(j, m)
    PROVE  ElectionInv'
<1>1. /\ TypeOK /\ m.src \in Server /\ m.term \in Nat /\ term[j] \in Nat
      /\ m.term > term[j] \/ (m.term = term[j] /\ votedFor[j] \in {NoOne, m.src})
  BY MessageFields DEF ElectionInv, GrantVote, Granted, TypeOK
<1>2. DurableState'
  BY <1>1 DEF ElectionInv, GrantVote, DurableState, TypeOK, Persist
<1>3. VoteOnce' /\ VoteKept'
  BY <1>1, NewVote DEF ElectionInv, GrantVote
<1>4. /\ \A i \in Server : term'[i] >= term[i]
      /\ \A i \in Server : state'[i] # "Follower" => state'[i] = state[i] /\ term'[i] = term[i]
      /\ votes \subseteq votes' /\ <<j, m.term, m.src>> \in votes'
      /\ m.term >= term[j]
  BY <1>1 DEF GrantVote, TypeOK
<1>5. /\ CallsBacked' /\ OneMessagePerCall'
      /\ \A o \in VoteCalls' : \E q \in VoteCalls :
            Caller(o) = Caller(q) /\ Callee(o) = Callee(q) /\ ElectionOf(o) = ElectionOf(q)
  <2>1. m.type = "RequestVote" /\ m.dest = j /\ Answer(m, VoteAnswer(j, m, TRUE))
    BY DEF GrantVote
  <2> QED BY <1>4, <2>1, AnsweredCalls
<1>6. Tally'
  <2>1. \A k \in Server : Collecting(k)' =>
               Collecting(k) /\ n'[k] = n[k] /\ counted'[k] = counted[k] /\ term'[k] = term[k]
    BY <1>4 DEF GrantVote, Collecting
  <2> QED BY <1>4, <1>5, <2>1, TallyKept DEF ElectionInv
<1>7. LeaderVoted'
  <2> SUFFICES ASSUME NEW i \in Server, state'[i] = "Leader"
               PROVE  votedFor'[i] = i
    BY DEF LeaderVoted
  <2>1. state[i] = "Leader" /\ term'[i] = term[i] /\ votedFor[i] = i
    BY <1>4 DEF ElectionInv, LeaderVoted
  <2>2. CASE i = j
    <3>1. m.term = term[j]
      BY <1>1, <2>1, <2>2 DEF GrantVote, TypeOK
    <3>2. votedFor[j] \in {NoOne, m.src}
      BY <1>1, <3>1
    <3> QED BY <1>1, <2>1, <2>2, <3>2, ServerAssumption DEF GrantVote, TypeOK
  <2>3. CASE i # j
    BY <1>1, <2>1, <2>3 DEF GrantVote, TypeOK
  <2> QED BY <2>2, <2>3
<1>8. WonByMajority'
  <2>1. elected' = elected
    BY DEF GrantVote
  <2> QED BY <1>4, <2>1 DEF ElectionInv, WonByMajority, Majority
<1> QED BY <1>2, <1>3, <1>5, <1>6, <1>7, <1>8 DEF ElectionInv

LEMMA RefuseVoteKeepsInv ==
    ASSUME ElectionInv, TypeOK', NEW j \in Server, NEW m \in msgs, RefuseVote(j, m)
    PROVE  ElectionInv'
<1>1. /\ TypeOK /\ m.term \in Nat /\ UNCHANGED <<votes, elected, n, counted, pc, boot>>
      /\ m.type = "RequestVote" /\ m.dest = j /\ Answer(m, VoteAnswer(j, m, FALSE))
  BY MessageFields DEF ElectionInv, RefuseVote, ghosts
<1>2. DurableState'
  BY SMTT(60), <1>1 DEF ElectionInv, RefuseVote, DurableState, TypeOK, Persist, StepDown, persistent
<1>3. ASSUME NEW i \in Server
      PROVE  /\ term'[i] >= term[i]
             /\ term'[i] = term[i] => votedFor'[i] = votedFor[i] /\ state'[i] = state[i]
             /\ term'[i] # term[i] => state'[i] = "Follower"
  <2>1. term[i] \in Nat /\ term[j] \in Nat
    BY <1>1 DEF TypeOK
  <2>2. CASE m.term > term[j]
    <3>1. StepDown(j, m.term)
      BY <2>2 DEF RefuseVote
    <3> QED BY <1>1, <2>1, <2>2, <3>1 DEF StepDown, TypeOK
  <2>3. CASE ~(m.term > term[j])
    <3>1. UNCHANGED <<term, votedFor, state>>
      BY <2>3 DEF RefuseVote, persistent
    <3> QED BY <2>1, <3>1
  <2> QED BY <2>2, <2>3
<1>4. VoteOnce' /\ WonByMajority'
  BY <1>1 DEF ElectionInv, VoteOnce, WonByMajority, Majority
<1>5. VoteKept'
  <2> SUFFICES ASSUME NEW v \in votes
               PROVE  /\ v[2] <= term'[v[1]]
                      /\ v[2] = term'[v[1]] => votedFor'[v[1]] = v[3]
    BY <1>1 DEF VoteKept
  <2>1. v[1] \in Server /\ v[2] \in Nat /\ term[v[1]] \in Nat /\ term'[v[1]] \in Nat
    BY <1>1 DEF TypeOK
  <2>2. /\ v[2] <= term[v[1]]
        /\ v[2] = term[v[1]] => votedFor[v[1]] = v[3]
    BY DEF ElectionInv, VoteKept
  <2> QED BY <1>3, <2>1, <2>2
<1>6. /\ CallsBacked' /\ OneMessagePerCall'
      /\ \A o \in VoteCalls' : \E q \in VoteCalls :
            Caller(o) = Caller(q) /\ Callee(o) = Callee(q) /\ ElectionOf(o) = ElectionOf(q)
  BY <1>1, <1>3, AnsweredCalls
<1>7. Tally'
  <2>1. \A k \in Server : Collecting(k)' =>
               Collecting(k) /\ n'[k] = n[k] /\ counted'[k] = counted[k] /\ term'[k] = term[k]
    BY <1>1, <1>3 DEF Collecting
  <2> QED BY <1>1, <1>6, <2>1, TallyKept DEF ElectionInv
<1>8. LeaderVoted'
  BY <1>3 DEF ElectionInv, LeaderVoted
<1> QED BY <1>2, <1>4, <1>5, <1>6, <1>7, <1>8 DEF ElectionInv

-----------------------------------------------------------------------------
(* Counting votes and winning. *)

\* A vote is counted at most once, and only for the election it was given in.
LEMMA CountVoteKeepsInv ==
    ASSUME ElectionInv, TypeOK', NEW i \in Server, NEW m \in msgs, CountVote(i, m)
    PROVE  ElectionInv'
<1>1. /\ TypeOK
      /\ UNCHANGED <<term, votedFor, last, saved, state, votes, elected>>
      /\ m.type = "VoteReply" /\ m.dest = i /\ pc[i] = "select" /\ msgs' = msgs \ {m}
  BY DEF ElectionInv, CountVote, persistent
<1>2. VoteCalls' = VoteCalls \ {m} /\ m \in VoteCalls
  BY <1>1 DEF VoteCalls
<1>3. DurableState' /\ VoteOnce' /\ VoteKept' /\ LeaderVoted' /\ WonByMajority'
  BY <1>1 DEF ElectionInv, DurableState, VoteOnce, VoteKept, LeaderVoted, WonByMajority, Majority
<1>4. CallsBacked' /\ OneMessagePerCall'
  BY <1>1, <1>2 DEF ElectionInv, CallsBacked, OneMessagePerCall
<1>5. ASSUME NEW k \in Server, Collecting(k)'
      PROVE  Collecting(k)
  <2>1. CASE k = i
    BY <1>1, <1>5, <2>1 DEF Collecting
  <2>2. CASE k # i
    <3>1. pc'[k] = pc[k]
      BY <1>1, <2>2 DEF CountVote, TypeOK
    <3> QED BY <1>1, <1>5, <3>1 DEF Collecting
  <2> QED BY <2>1, <2>2
<1>6. ASSUME NEW k \in Server, Collecting(k)', n'[k] = n[k], counted'[k] = counted[k]
      PROVE  /\ n'[k] = Cardinality(counted'[k])
             /\ k \in counted'[k]
             /\ \A v \in counted'[k] : <<v, term'[k], k>> \in votes'
             /\ \A o \in VoteCalls' : Caller(o) = k /\ ElectionOf(o) = term'[k]
                   => Callee(o) \notin counted'[k]
  BY <1>1, <1>2, <1>5, <1>6 DEF ElectionInv, Tally
<1>7. ASSUME m.term = term[i], m.granted, Collecting(i)'
      PROVE  /\ n'[i] = Cardinality(counted'[i])
             /\ i \in counted'[i]
             /\ \A v \in counted'[i] : <<v, term'[i], i>> \in votes'
             /\ \A o \in VoteCalls' : Caller(o) = i /\ ElectionOf(o) = term'[i]
                   => Callee(o) \notin counted'[i]
  <2>1. /\ Caller(m) = i /\ Callee(m) = m.src /\ ElectionOf(m) = term[i]
        /\ <<m.src, term[i], i>> \in votes
    BY <1>1, <1>2, <1>7 DEF ElectionInv, CallsBacked, Caller, Callee, ElectionOf
  <2>2. /\ n[i] = Cardinality(counted[i]) /\ i \in counted[i]
        /\ \A v \in counted[i] : <<v, term[i], i>> \in votes
        /\ \A o \in VoteCalls : Caller(o) = i /\ ElectionOf(o) = term[i]
              => Callee(o) \notin counted[i]
    BY <1>5, <1>7 DEF ElectionInv, Tally
  <2>3. n'[i] = n[i] + 1 /\ counted'[i] = counted[i] \cup {m.src}
    BY <1>1, <1>7 DEF CountVote, TypeOK
  <2>4. m.src \notin counted[i]
    BY <1>2, <2>1, <2>2
  <2>5. IsFiniteSet(counted[i])
    <3>1. counted[i] \in SUBSET Server
      BY <1>1 DEF TypeOK
    <3> QED BY <3>1, FS_Subset, ServerAssumption
  <2>6. Cardinality(counted[i] \cup {m.src}) = Cardinality(counted[i]) + 1
    BY <2>4, <2>5, FS_AddElement
  <2>7. ASSUME NEW o \in VoteCalls', Caller(o) = i, ElectionOf(o) = term'[i]
        PROVE  Callee(o) \notin counted'[i]
    <3>1. o \in VoteCalls /\ o # m /\ ElectionOf(o) = term[i]
      BY <1>1, <1>2, <2>7
    <3>2. Callee(o) # m.src
      BY <1>2, <2>1, <2>7, <3>1 DEF ElectionInv, OneMessagePerCall
    <3> QED BY <2>2, <2>3, <2>7, <3>1, <3>2
  <2> QED BY <1>1, <2>1, <2>2, <2>3, <2>6, <2>7
<1>8. ASSUME NEW k \in Server, ~(k = i /\ m.term = term[i] /\ m.granted)
      PROVE  n'[k] = n[k] /\ counted'[k] = counted[k]
  BY <1>1, <1>8 DEF CountVote, TypeOK
<1>9. Tally'
  BY <1>6, <1>7, <1>8 DEF Tally
<1> QED BY <1>3, <1>4, <1>9 DEF ElectionInv

LEMMA BecomeLeaderKeepsInv ==
    ASSUME ElectionInv, TypeOK', NEW i \in Server, BecomeLeader(i)
    PROVE  ElectionInv'
<1>1. /\ TypeOK
      /\ UNCHANGED <<term, votedFor, last, saved, votes, n, counted, msgs>>
      /\ elected' = elected \cup {<<i, term[i]>>}
      /\ \A k \in Server : /\ Collecting(k)' => Collecting(k)
                           /\ state'[k] = "Leader" => state[k] = "Leader" \/ k = i
  BY DEF ElectionInv, BecomeLeader, persistent, Collecting, TypeOK
<1>2. /\ n[i] = Cardinality(counted[i]) /\ i \in counted[i]
      /\ \A v \in counted[i] : <<v, term[i], i>> \in votes
  BY DEF ElectionInv, Tally, BecomeLeader, Collecting
<1>3. DurableState' /\ VoteOnce' /\ VoteKept' /\ CallsBacked' /\ OneMessagePerCall'
  BY <1>1 DEF ElectionInv, DurableState, VoteOnce, VoteKept, CallsBacked,
              OneMessagePerCall, VoteCalls
<1>4. Tally'
  BY <1>1 DEF ElectionInv, Tally, VoteCalls
<1>5. LeaderVoted'
  <2>1. <<i, term[i], i>> \in votes
    BY <1>2
  <2>2. votedFor[i] = i
    BY <2>1 DEF ElectionInv, VoteKept
  <2> QED BY <1>1, <2>2 DEF ElectionInv, LeaderVoted
<1>6. WonByMajority'
  <2>1. counted[i] \in SUBSET Server /\ Cardinality(counted[i]) >= Majority
    BY <1>1, <1>2 DEF BecomeLeader, TypeOK
  <2>2. Majority' = Majority
    BY DEF Majority
  <2> QED BY <1>1, <1>2, <2>1, <2>2 DEF ElectionInv, WonByMajority
<1> QED BY <1>3, <1>4, <1>5, <1>6 DEF ElectionInv

-----------------------------------------------------------------------------
(* Every step is one of the above. *)

\* What a step is, the steps that keep to Background summed up.
LEMMA StepKinds ==
    ASSUME ElectionInv, [Next]_vars
    PROVE  \/ Background
           \/ \E i \in Server : StartElection(i) \/ BecomeLeader(i)
           \/ \E i \in Server, m \in msgs : \/ CountVote(i, m)
                                          \/ GrantVote(i, m) \/ RefuseVote(i, m)
<1>1. TypeOK /\ DurableState /\ LeaderVoted
  BY DEF ElectionInv
<1>2. CASE UNCHANGED vars
  BY <1>1, <1>2 DEF Background, vars, persistent, ghosts, VoteCalls, DurableState,
                    Collecting, TypeOK
<1>3. ASSUME NEW i \in Server, Helper(i)
      PROVE  \/ Background
             \/ StartElection(i) \/ BecomeLeader(i)
             \/ \E m \in msgs : CountVote(i, m)
  BY <1>1, <1>3, LocalIsBackground, LearnTermIsBackground DEF Helper
<1>4. ASSUME NEW i \in Server, Handler(i)
      PROVE  \/ Background
             \/ \E m \in msgs : GrantVote(i, m) \/ RefuseVote(i, m)
  BY <1>1, <1>4, ReplicationIsBackground DEF Handler
<1>5. ASSUME NEW i \in Server, Replicate(i) \/ Restart(i)
      PROVE  Background
  BY <1>1, <1>5, ReplicationIsBackground, RestartIsBackground
<1> QED BY <1>2, <1>3, <1>4, <1>5 DEF Next

\* The election invariant holds in every reachable state.
THEOREM ElectionInvariant == Spec => []ElectionInv
<1>1. Init => ElectionInv
  <2> SUFFICES ASSUME Init
               PROVE  ElectionInv
    OBVIOUS
  <2>1. TypeOK
    BY DEF Init, TypeOK, Position, Origin
  <2>2. DurableState /\ LeaderVoted
    BY DEF Init, DurableState, LeaderVoted
  <2>3. VoteOnce /\ VoteKept /\ CallsBacked /\ OneMessagePerCall /\ WonByMajority
    BY DEF Init, VoteOnce, VoteKept, CallsBacked, OneMessagePerCall, WonByMajority, VoteCalls
  <2>4. Tally
    BY DEF Init, Tally, Collecting
  <2> QED BY <2>1, <2>2, <2>3, <2>4 DEF ElectionInv
<1>2. ElectionInv /\ TypeOK' /\ [Next]_vars => ElectionInv'
  BY StepKinds, BackgroundKeepsInv, StartElectionKeepsInv, BecomeLeaderKeepsInv,
     CountVoteKeepsInv, GrantVoteKeepsInv, RefuseVoteKeepsInv
<1> QED BY <1>1, <1>2, TypeCorrect, PTL DEF Spec

\* Two majorities of one cluster share a server.
LEMMA MajoritiesMeet ==
    ASSUME NEW P \in SUBSET Server, NEW Q \in SUBSET Server,
           Cardinality(P) >= Majority, Cardinality(Q) >= Majority
    PROVE  P \cap Q # {}
<1>1. /\ Cardinality(Server) \in Nat
      /\ Cardinality(P) \in Nat /\ Cardinality(Q) \in Nat
  BY ServerAssumption, FS_Subset, FS_CardinalityType
<1>2. Cardinality(P) + Cardinality(Q) > Cardinality(Server)
  BY <1>1 DEF Majority
<1> QED BY <1>2, ServerAssumption, FS_MajoritiesIntersect

\* No term elects two leaders, whatever is lost, reordered or crashes.
THEOREM OneLeaderPerTerm == Spec => []ElectionSafety
<1>1. ElectionInv => ElectionSafety
  <2> SUFFICES ASSUME ElectionInv, NEW e \in elected, NEW f \in elected, e[2] = f[2]
               PROVE  e[1] = f[1]
    BY DEF ElectionSafety
  <2>1. PICK P \in SUBSET Server : /\ Cardinality(P) >= Majority
                                  /\ \A v \in P : <<v, e[2], e[1]>> \in votes
    BY DEF ElectionInv, WonByMajority
  <2>2. PICK Q \in SUBSET Server : /\ Cardinality(Q) >= Majority
                                  /\ \A v \in Q : <<v, f[2], f[1]>> \in votes
    BY DEF ElectionInv, WonByMajority
  <2>3. PICK v \in Server : v \in P /\ v \in Q
    BY <2>1, <2>2, MajoritiesMeet
  <2> QED BY <2>1, <2>2, <2>3 DEF ElectionInv, VoteOnce
<1> QED BY <1>1, ElectionInvariant, PTL

\* What a server acts on is what a crash would leave it.
THEOREM StateIsDurable == Spec => []DurableState
<1>1. ElectionInv => DurableState
  BY DEF ElectionInv
<1> QED BY <1>1, ElectionInvariant, PTL

\* Neither a message nor a crash takes back a term or a vote.
THEOREM VotesAreFinal == Spec => VoteIsFinal
<1> DEFINE Kept(i) == /\ term'[i] >= term[i]
                      /\ term'[i] = term[i] /\ votedFor[i] # NoOne
                            => votedFor'[i] = votedFor[i]
<1>1. ElectionInv /\ [Next]_vars => [\A i \in Server : Kept(i)]_vars
  <2> SUFFICES ASSUME ElectionInv, [Next]_vars
               PROVE  \A i \in Server : Kept(i)
    OBVIOUS
  <2>1. TypeOK
    BY DEF ElectionInv
  <2>2. CASE Background
    BY <2>2 DEF Background
  <2>3. ASSUME NEW i \in Server, StartElection(i) \/ BecomeLeader(i)
        PROVE  \A j \in Server : Kept(j)
    BY <2>1, <2>3 DEF StartElection, BecomeLeader, persistent, TypeOK
  <2>4. ASSUME NEW i \in Server, NEW m \in msgs,
               CountVote(i, m) \/ GrantVote(i, m) \/ RefuseVote(i, m)
        PROVE  \A j \in Server : Kept(j)
    <3>1. m.term \in Nat
      BY <2>1, MessageFields
    <3>2. CASE CountVote(i, m)
      BY <2>1, <3>2 DEF CountVote, persistent, TypeOK
    <3>3. CASE GrantVote(i, m)
      BY <2>1, <3>1, <3>3 DEF GrantVote, Granted, TypeOK
    <3>4. CASE RefuseVote(i, m)
      BY <2>1, <3>1, <3>4 DEF RefuseVote, StepDown, persistent, TypeOK
    <3> QED BY <2>4, <3>2, <3>3, <3>4
  <2> QED BY <2>2, <2>3, <2>4, StepKinds
<1> QED BY <1>1, ElectionInvariant, PTL DEF Spec, VoteIsFinal

\* Only a higher term or a crash ends a leadership.
THEOREM LeadersKeepTheirTerm == Spec => LeaderKeepsTerm
<1> DEFINE Kept(i) == state[i] = "Leader" /\ term'[i] = term[i] /\ boot'[i] = boot[i]
                         => state'[i] = "Leader"
<1>1. ElectionInv /\ [Next]_vars => [\A i \in Server : Kept(i)]_vars
  <2> SUFFICES ASSUME ElectionInv, [Next]_vars
               PROVE  \A i \in Server : Kept(i)
    OBVIOUS
  <2>1. TypeOK
    BY DEF ElectionInv
  <2>2. CASE Background
    BY <2>2 DEF Background
  <2>3. ASSUME NEW i \in Server, StartElection(i) \/ BecomeLeader(i)
        PROVE  \A j \in Server : Kept(j)
    BY <2>1, <2>3 DEF StartElection, BecomeLeader, TypeOK
  <2>4. ASSUME NEW i \in Server, NEW m \in msgs,
               CountVote(i, m) \/ GrantVote(i, m) \/ RefuseVote(i, m)
        PROVE  \A j \in Server : Kept(j)
    <3>1. m.term \in Nat
      BY <2>1, MessageFields
    <3>2. CASE CountVote(i, m)
      BY <2>1, <3>2 DEF CountVote, TypeOK
    <3>3. CASE GrantVote(i, m)
      BY <2>1, <3>1, <3>3 DEF GrantVote, TypeOK
    <3>4. CASE RefuseVote(i, m)
      BY <2>1, <3>1, <3>4 DEF RefuseVote, StepDown, TypeOK
    <3> QED BY <2>4, <3>2, <3>3, <3>4
  <2> QED BY <2>2, <2>3, <2>4, StepKinds
<1> QED BY <1>1, ElectionInvariant, PTL DEF Spec, LeaderKeepsTerm

=============================================================================
