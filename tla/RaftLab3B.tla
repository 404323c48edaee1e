----------------------------- MODULE RaftLab3B ------------------------------
(***************************************************************************)
(* The Raft server of lab3-B/raft.go, the first one with a log.  What      *)
(* differs from lab3-C: AppendEntries adopts a higher term only from a     *)
(* heartbeat that matches, nextIndex and matchIndex are never reset,       *)
(* heartbeats and entries are sent by different goroutines, and nothing is *)
(* saved (a server that dies stays dead, which is a server that stays      *)
(* silent).                                                                *)
(*                                                                         *)
(* As in RaftLog, a log is the sequence of its entries' terms without the  *)
(* dummy, a round of RequestVoteHelper is one step, and labrpc delivers a  *)
(* call at most once, in any order, or never.                              *)
(***************************************************************************)
EXTENDS Integers, Sequences, FiniteSets

CONSTANTS Server,     \* the indices of rf.peers
          NoOne,      \* votedFor = -1
          Bounds      \* bounds: each behaviour keeps to one of them, all its life

ASSUME ServerAssumption == IsFiniteSet(Server) /\ NoOne \notin Server
ASSUME BoundAssumption ==
    \A x \in Bounds :
        /\ \A t \in DOMAIN x.candidates : t \in Nat \ {0} /\ x.candidates[t] \subseteq Server
        /\ {x.entries, x.leads, x.calls} \subseteq Nat

VARIABLES term,        \* rf.term
          votedFor,    \* rf.votedFor
          state,       \* rf.state
          log,         \* rf.log without its dummy entry: the terms
          nextIndex,   \* rf.nextIndex
          matchIndex,  \* rf.matchIndex
          commitIndex, \* rf.commitIndex
          lastApplied, \* rf.lastApplied
          unsent,      \* requests with entries that are not encoded yet
          msgs,        \* requests and replies in the network
          leads,       \* elections won so far: each starts a set of goroutines
          bound        \* of Bounds: candidates[t] may campaign in term t, a log has at most
                       \* entries, a server wins leads elections, there are calls under way

elect == <<term, votedFor, state>>
index == <<nextIndex, matchIndex>>
net == <<unsent, msgs>>
vars == <<elect, log, index, commitIndex, lastApplied, net, leads, bound>>

Majority == Cardinality(Server) \div 2 + 1

Entry(l, k) == IF k = 0 THEN 0 ELSE l[k]
LastTerm(l) == Entry(l, Len(l))
Lesser(a, b) == IF a < b THEN a ELSE b
Greater(a, b) == IF a > b THEN a ELSE b

\* rf.term, rf.state, rf.votedFor = t, Follower, -1
StepDown(i, t) ==
    /\ term' = [term EXCEPT ![i] = t]
    /\ state' = [state EXCEPT ![i] = "Follower"]
    /\ votedFor' = [votedFor EXCEPT ![i] = NoOne]

-----------------------------------------------------------------------------
(* Elections, a round at a time. *)

UpToDate(l, k) == LastTerm(l) > LastTerm(k) \/ (LastTerm(l) = LastTerm(k) /\ Len(l) >= Len(k))

\* The RequestVote handler's decision on candidate i's request for term t.
Granted(j, i, t) ==
    /\ t > term[j] \/ (t = term[j] /\ votedFor[j] \in {NoOne, i})
    /\ UpToDate(log[i], log[j])

MayCampaign(i) ==
    LET t == term[i] + 1 IN
      state[i] # "Leader" /\ t \in DOMAIN bound.candidates /\ i \in bound.candidates[t]

\* Candidate i takes a new term and votes for itself, its requests reach the
\* servers of Q, and the round leaves it with term t, vote v and state s.
Round(i, Q, t, v, s) ==
    LET new == term[i] + 1
        raised == {j \in Q : new > term[j]}
        grants == {j \in Q : Granted(j, i, new)}
    IN  /\ term' = [j \in Server |-> IF j = i THEN t ELSE IF j \in raised THEN new ELSE term[j]]
        /\ votedFor' = [j \in Server |-> IF j = i THEN v ELSE IF j \in grants THEN i
                                          ELSE IF j \in raised THEN NoOne ELSE votedFor[j]]
        /\ state' = [j \in Server |-> IF j = i THEN s ELSE IF j \in raised THEN "Follower"
                                       ELSE state[j]]
        /\ UNCHANGED <<log, index, commitIndex, lastApplied, net, bound>>

\* Enough of the replies come in time.
Elected(i, Q) ==
    /\ MayCampaign(i) /\ leads[i] < bound.leads
    /\ Cardinality({j \in Q : Granted(j, i, term[i] + 1)}) + 1 >= Majority
    /\ Round(i, Q, term[i] + 1, i, "Leader")
    /\ leads' = [leads EXCEPT ![i] = @ + 1]

\* The timeout comes first.
Undecided(i, Q) ==
    /\ MayCampaign(i)
    /\ Round(i, Q, term[i] + 1, i, "Candidate")
    /\ UNCHANGED leads

\* The reply of a server with a higher term comes first.
Deposed(i, Q, j) ==
    /\ MayCampaign(i)
    /\ j \in Q /\ term[j] > term[i] + 1
    /\ Round(i, Q, term[j], NoOne, "Follower")
    /\ UNCHANGED leads

-----------------------------------------------------------------------------
(* The leader. *)

\* Start on a leader appends a command.
Start(i) ==
    /\ state[i] = "Leader" /\ Len(log[i]) < bound.entries
    /\ log' = [log EXCEPT ![i] = Append(@, term[i])]
    /\ UNCHANGED <<elect, index, commitIndex, lastApplied, net, leads, bound>>

Request(i, j, kind, entries) ==
    LET prev == nextIndex[i][j] - 1 IN
      [kind |-> kind, src |-> i, dest |-> j, lead |-> leads[i], term |-> term[i], prev |-> prev,
       prevTerm |-> Entry(log[i], prev), entries |-> entries, commit |-> commitIndex[i]]

MayCall(i, j) ==
    state[i] = "Leader" /\ j # i
    /\ Cardinality(msgs) + Cardinality(unsent) < bound.calls

\* What nextIndex says is in the log; otherwise rf.log[rf.nextIndex[i]-1] panics.
Indexed(i, j) == nextIndex[i][j] - 1 <= Len(log[i])

\* startLearder: an empty call to a peer.
Heartbeat(i, j) ==
    /\ MayCall(i, j) /\ Indexed(i, j)
    /\ msgs' = msgs \cup {Request(i, j, "heartbeat", <<>>)}
    /\ UNCHANGED <<elect, log, index, commitIndex, lastApplied, unsent, leads, bound>>

\* The goroutine of pushToFollowers for a peer: it waits for each answer, and the goroutine
\* of an earlier leadership does not hold back that of the present one.
SendEntries(i, j) ==
    /\ MayCall(i, j)
    /\ nextIndex[i][j] <= Len(log[i])
    /\ \A m \in msgs \cup unsent :
          ~(m.kind \in {"entries", "entriesReply"} /\ m.lead = leads[i]
            /\ IF m.kind = "entries" THEN m.src = i /\ m.dest = j ELSE m.src = j /\ m.dest = i)
    /\ unsent' = unsent \cup
          {Request(i, j, "entries", SubSeq(log[i], nextIndex[i][j], Len(log[i])))}
    /\ UNCHANGED <<elect, log, index, commitIndex, lastApplied, msgs, leads, bound>>

\* The entries share their memory with rf.log and are encoded after the lock is released:
\* an entry overwritten in between may be sent as it was or as it is.
Encode(m, torn) ==
    /\ unsent' = unsent \ {m}
    /\ msgs' = msgs \cup {[m EXCEPT !.entries =
                  [k \in 1..Len(@) |-> IF k \in torn /\ m.prev + k <= Len(log[m.src])
                                         THEN log[m.src][m.prev + k] ELSE @[k]]]}
    /\ UNCHANGED <<elect, log, index, commitIndex, lastApplied, leads, bound>>

\* Mutant of SentUpTo: the log as it is when the reply comes.
SentUpTo_Now(i, m) == Len(log[i]) + 1

\* send_index
SentUpTo(i, m) == m.next

\* A reply reaches the goroutine that made the call.  After a heartbeat matchIndex follows
\* the nextIndex of now, after entries both follow the length of the log when they were sent.
ReceiveReply(i, m) ==
    /\ m.dest = i /\ m.kind \in {"heartbeatReply", "entriesReply"}
    /\ msgs' = msgs \ {m}
    /\ IF m.term > term[i]
         THEN StepDown(i, m.term) /\ UNCHANGED index
       ELSE /\ UNCHANGED elect
            /\ nextIndex' = [nextIndex EXCEPT ![i][m.src] =
                  IF ~m.success THEN Greater(1, @ - 1)
                  ELSE IF m.kind = "entriesReply" THEN SentUpTo(i, m) ELSE @]
            /\ matchIndex' = [matchIndex EXCEPT ![i][m.src] =
                  IF m.success THEN nextIndex'[i][m.src] - 1 ELSE @]
    /\ UNCHANGED <<log, commitIndex, lastApplied, unsent, leads, bound>>

\* Mutant of Replicas: the leader counts itself twice.
Replicas_Twice(i, k) == Cardinality({j \in Server : matchIndex[i][j] >= k}) + 2

\* The leader's own matchIndex is never set: the count starts at one.
Replicas(i, k) == Cardinality({j \in Server : matchIndex[i][j] >= k}) + 1

\* pushToFollowers: the highest entry of its own term that a majority holds.
Commit(i, N) ==
    /\ state[i] = "Leader"
    /\ LET ready == {k \in commitIndex[i] + 1 .. Len(log[i]) :
                        /\ Replicas(i, k) >= Majority
                        /\ log[i][k] = term[i]}
       IN  N \in ready /\ \A k \in ready : k <= N
    /\ commitIndex' = [commitIndex EXCEPT ![i] = N]
    /\ UNCHANGED <<elect, log, index, lastApplied, net, leads, bound>>

-----------------------------------------------------------------------------
(* The AppendEntries handler. *)

IsCall(m, j) == m.dest = j /\ m.kind \in {"heartbeat", "entries"}

\* next is the sender's own: len(rf.log) when it built the request.
Reply(j, m, t, ok) ==
    msgs' = (msgs \ {m}) \cup
        {[kind |-> IF m.kind = "heartbeat" THEN "heartbeatReply" ELSE "entriesReply", src |-> j,
          dest |-> m.src, lead |-> m.lead, term |-> t, success |-> ok,
          next |-> m.prev + Len(m.entries) + 1]}

Matches(l, m) == m.prev <= Len(l) /\ Entry(l, m.prev) = m.prevTerm

\* The call is of an earlier term, or the log does not match: no term is adopted.
Refuse(j, m) ==
    /\ IsCall(m, j)
    /\ m.term < term[j] \/ ~Matches(log[j], m)
    /\ Reply(j, m, term[j], FALSE)
    /\ UNCHANGED <<elect, log, index, commitIndex, lastApplied, unsent, leads, bound>>

CommitAfter(c, m) == IF m.commit > c THEN Lesser(m.commit, m.prev + Len(m.entries)) ELSE c

\* Mutant of VoteAfter: every heartbeat takes the vote back.
VoteAfter_None(j, m) == NoOne

VoteAfter(j, m) == IF m.term > term[j] THEN NoOne ELSE votedFor[j]

\* A heartbeat that matches: the only call that makes its receiver a follower.
AcceptHeartbeat(j, m) ==
    /\ IsCall(m, j) /\ m.entries = <<>>
    /\ m.term >= term[j] /\ Matches(log[j], m)
    /\ term' = [term EXCEPT ![j] = m.term]
    /\ state' = [state EXCEPT ![j] = "Follower"]
    /\ votedFor' = [votedFor EXCEPT ![j] = VoteAfter(j, m)]
    /\ commitIndex' = [commitIndex EXCEPT ![j] = CommitAfter(@, m)]
    /\ Reply(j, m, m.term, TRUE)
    /\ UNCHANGED <<log, index, lastApplied, unsent, leads, bound>>

\* The loop over the entries: from the first one that is missing or conflicts
\* on, the log becomes the leader's; otherwise it is left as it is.
Merged(l, m) ==
    IF \A k \in 1..Len(m.entries) : m.prev + k <= Len(l) /\ l[m.prev + k] = m.entries[k]
      THEN l
      ELSE SubSeq(l, 1, m.prev) \o m.entries

\* Entries that match: term, vote and state stay what they were, reply.Term is not filled in.
AcceptEntries(j, m) ==
    /\ IsCall(m, j) /\ m.entries # <<>>
    /\ m.term >= term[j] /\ Matches(log[j], m)
    /\ log' = [log EXCEPT ![j] = Merged(@, m)]
    /\ commitIndex' = [commitIndex EXCEPT ![j] = CommitAfter(@, m)]
    /\ Reply(j, m, 0, TRUE)
    /\ UNCHANGED <<elect, index, lastApplied, unsent, leads, bound>>

-----------------------------------------------------------------------------
(* Applying and losing. *)

\* ReachToCommit: one entry at a time, sent with the lock held.
Apply(i) ==
    /\ lastApplied[i] < commitIndex[i]
    /\ lastApplied' = [lastApplied EXCEPT ![i] = @ + 1]
    /\ UNCHANGED <<elect, log, index, commitIndex, net, leads, bound>>

\* labrpc: the call fails on its way there or back, and the sender does nothing.
Lose(m) ==
    /\ msgs' = msgs \ {m}
    /\ UNCHANGED <<elect, log, index, commitIndex, lastApplied, unsent, leads, bound>>

-----------------------------------------------------------------------------
Init ==
    /\ term = [i \in Server |-> 0]
    /\ votedFor = [i \in Server |-> NoOne]
    /\ state = [i \in Server |-> "Follower"]
    /\ log = [i \in Server |-> <<>>]
    /\ nextIndex = [i \in Server |-> [j \in Server |-> 1]]
    /\ matchIndex = [i \in Server |-> [j \in Server |-> 0]]
    /\ commitIndex = [i \in Server |-> 0]
    /\ lastApplied = [i \in Server |-> 0]
    /\ unsent = {} /\ msgs = {}
    /\ leads = [i \in Server |-> 0]
    /\ bound \in Bounds

Next ==
    \/ \E i \in Server : \/ Start(i) \/ Apply(i)
                         \/ \E j \in Server : Heartbeat(i, j) \/ SendEntries(i, j)
                         \/ \E Q \in SUBSET (Server \ {i}) :
                               \/ Elected(i, Q) \/ Undecided(i, Q)
                               \/ \E j \in Q : Deposed(i, Q, j)
                         \/ \E N \in 1..Len(log[i]) : Commit(i, N)
    \/ \E m \in unsent : \E torn \in SUBSET (1..Len(m.entries)) : Encode(m, torn)
    \/ \E m \in msgs : \/ ReceiveReply(m.dest, m) \/ Lose(m) \/ Refuse(m.dest, m)
                       \/ AcceptHeartbeat(m.dest, m) \/ AcceptEntries(m.dest, m)

Spec == Init /\ [][Next]_vars

-----------------------------------------------------------------------------
(* Properties. *)

Requests == [kind : {"heartbeat", "entries"}, src : Server, dest : Server, lead : Nat, term : Nat,
             prev : Nat, prevTerm : Nat, entries : Seq(Nat), commit : Nat]
Replies == [kind : {"heartbeatReply", "entriesReply"}, src : Server, dest : Server, lead : Nat,
            term : Nat, success : BOOLEAN, next : Nat]

\* The variables have the types of the fields of Raft and of the RPC arguments, and what is
\* committed or applied is in the log.  (commitIndex may fall below lastApplied: a heartbeat
\* built for a short nextIndex with a high commit index takes it back to prev.)
TypeOK ==
    /\ {term, commitIndex, lastApplied, leads} \subseteq [Server -> Nat]
    /\ votedFor \in [Server -> Server \cup {NoOne}]
    /\ state \in [Server -> {"Follower", "Candidate", "Leader"}]
    /\ log \in [Server -> Seq(Nat)]
    /\ \A i \in Server : {lastApplied[i], commitIndex[i]} \subseteq 0..Len(log[i])
    /\ {nextIndex, matchIndex} \subseteq [Server -> [Server -> Nat]]
    /\ unsent \subseteq Requests
    /\ msgs \subseteq Requests \cup Replies
    /\ bound \in Bounds

\* Although entries leave the state of their receiver alone, no two servers lead in one term
\* (test.go: "term %d has %d (>1) leaders").
OneLeader ==
    \A i, j \in Server : state[i] = "Leader" /\ state[j] = "Leader" /\ term[i] = term[j] => i = j

\* The variables are well-typed, and what the only leader counts is true: heartbeats and
\* entries go out side by side, and a heartbeat's reply sets matchIndex from a nextIndex that
\* may have moved meanwhile.
MatchIndexTrue ==
    /\ TypeOK
    /\ \A i, j \in Server : state[i] = "Leader" =>
          /\ matchIndex[i][j] <= Len(log[j])
          /\ SubSeq(log[j], 1, matchIndex[i][j]) = SubSeq(log[i], 1, matchIndex[i][j])

\* A committed entry is in a majority of the logs, after every call that overtakes another:
\* the count starts at one for the leader, whose own matchIndex is never set.
CommittedHeld ==
    \A i \in Server : commitIndex[i] > 0 =>
        LET known == SubSeq(log[i], 1, commitIndex[i]) IN
          Cardinality({j \in Server : Len(known) <= Len(log[j])
                                       /\ SubSeq(log[j], 1, Len(known)) = known}) >= Majority

=============================================================================
