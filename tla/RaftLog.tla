------------------------------- MODULE RaftLog -------------------------------
(***************************************************************************)
(* Log replication of the Raft server in Mit6824/lab3/lab3-C/raft.go: what *)
(* Start appends, AppendEntries copies, pushToFollowers commits,           *)
(* ReachToCommit applies and persist saves, under elections and crashes.   *)
(*                                                                         *)
(* A command is identified by the term its leader gave it, so a log is the *)
(* sequence of its entries' terms; the dummy entry 0 of rf.log is implied  *)
(* (index k is rf.log[k], Len(log) is len(rf.log)-1).  A round of          *)
(* RequestVoteHelper is one step here, with any set of the other servers   *)
(* reached: the request, the voters' comparison of the logs and the count  *)
(* happen at one instant, and the goroutines of an election, step by step, *)
(* are the subject of RaftElection and RaftLab3A.  labrpc delivers an      *)
(* AppendEntries call at most once, in any order, or never: Lose is the    *)
(* call that returns false.                                                *)
(***************************************************************************)
EXTENDS Integers, Sequences, FiniteSets

CONSTANTS Server,      \* the indices of rf.peers
          NoOne,       \* votedFor = -1
          Bounds       \* bounds: each behaviour keeps to one of them, all its life

ASSUME ServerAssumption == IsFiniteSet(Server) /\ NoOne \notin Server
ASSUME BoundAssumption ==
    \A x \in Bounds :
        /\ \A t \in DOMAIN x.candidates : t \in Nat \ {0} /\ x.candidates[t] \subseteq Server
        /\ {x.entries, x.leads, x.restarts, x.calls} \subseteq Nat
        /\ x.appliers \subseteq Server

VARIABLES term,        \* rf.term
          votedFor,    \* rf.votedFor
          log,         \* rf.log without its dummy entry: the terms
          saved,       \* what the persister holds
          state,       \* rf.state
          starting,    \* elected, but startLearder has not run yet
          commitIndex, \* rf.commitIndex
          lastApplied, \* rf.lastApplied
          nextIndex,   \* rf.nextIndex
          matchIndex,  \* rf.matchIndex
          boot,        \* incarnation of the server: how often it was restarted
          msgs,        \* requests and replies in the network
          leads,       \* history: elections won by this incarnation
          applied,     \* history: <<index, entry>> of every ApplyMsg sent
          bound        \* of Bounds: candidates[t] may campaign in term t, a log has at most
                       \* entries, an incarnation wins leads elections, there are restarts
                       \* of all servers together, and calls under way; ReachToCommit gets to
                       \* run on the servers of appliers

persistent == <<term, votedFor, log, saved>>
leader == <<starting, nextIndex, matchIndex>>
vars == <<persistent, state, leader, commitIndex, lastApplied, boot, msgs, leads, applied, bound>>

\* Mutant of Majority: half of the cluster is enough.
Majority_Half == Cardinality(Server) \div 2

Majority == Cardinality(Server) \div 2 + 1

Entry(l, k) == IF k = 0 THEN 0 ELSE l[k]
LastTerm(l) == Entry(l, Len(l))
Lesser(a, b) == IF a < b THEN a ELSE b
Greater(a, b) == IF a > b THEN a ELSE b

\* persist(): what server i saves is the state it has after the step.
Persist(i) ==
    saved' = [saved EXCEPT ![i] = [term |-> term'[i], votedFor |-> votedFor'[i], log |-> log'[i]]]

\* rf.term, rf.votedFor, rf.state = t, -1, Follower
StepDown(i, t) ==
    /\ term' = [term EXCEPT ![i] = t]
    /\ votedFor' = [votedFor EXCEPT ![i] = NoOne]
    /\ state' = [state EXCEPT ![i] = "Follower"]

\* The handlers' and the senders' first test: a higher term is adopted and saved.
AdoptTerm(i, t) ==
    IF t > term[i] THEN StepDown(i, t) /\ UNCHANGED log /\ Persist(i)
                   ELSE UNCHANGED <<persistent, state>>

\* A reply is lost when the incarnation that made the call is gone.
Answer(m, r) ==
    msgs' = (msgs \ {m}) \cup (IF m.boot = boot[m.src] THEN {r} ELSE {})

-----------------------------------------------------------------------------
(* Elections. *)

UpToDate(l, k) == LastTerm(l) > LastTerm(k) \/ (LastTerm(l) = LastTerm(k) /\ Len(l) >= Len(k))

\* The RequestVote handler's decision on candidate i's request for term t.
Granted(j, i, t) ==
    /\ t > term[j] \/ (t = term[j] /\ votedFor[j] \in {NoOne, i})
    /\ UpToDate(log[i], log[j])

MayCampaign(i) ==
    LET t == term[i] + 1 IN
      state[i] # "Leader" /\ t \in DOMAIN bound.candidates /\ i \in bound.candidates[t]

\* One round of RequestVoteHelper: candidate i takes a new term and votes for
\* itself, its requests reach the servers of Q, which grant, adopt the term or
\* do neither, and the round leaves the candidate with term t and state s.
Round(i, Q, t, vote, s) ==
    LET new == term[i] + 1
        raised == {j \in Q : new > term[j]}
        grants == {j \in Q : Granted(j, i, new)}
    IN  /\ term' = [j \in Server |-> IF j = i THEN t ELSE IF j \in raised THEN new ELSE term[j]]
        /\ votedFor' = [j \in Server |-> IF j = i THEN vote ELSE IF j \in grants THEN i
                                          ELSE IF j \in raised THEN NoOne ELSE votedFor[j]]
        /\ state' = [j \in Server |-> IF j = i THEN s ELSE IF j \in raised THEN "Follower"
                                       ELSE state[j]]
        /\ saved' = [j \in Server |-> [term |-> term'[j], votedFor |-> votedFor'[j],
                                        log |-> saved[j].log]]
        /\ UNCHANGED <<log, commitIndex, lastApplied, nextIndex, matchIndex, boot, msgs, applied,
                       bound>>

\* Enough of the replies come in time.
Elected(i, Q) ==
    /\ MayCampaign(i) /\ leads[i] < bound.leads
    /\ Cardinality({j \in Q : Granted(j, i, term[i] + 1)}) + 1 >= Majority
    /\ Round(i, Q, term[i] + 1, i, "Leader")
    /\ starting' = [starting EXCEPT ![i] = TRUE]
    /\ leads' = [leads EXCEPT ![i] = @ + 1]

\* The timeout comes first.
Undecided(i, Q) ==
    /\ MayCampaign(i)
    /\ Round(i, Q, term[i] + 1, i, "Candidate")
    /\ UNCHANGED <<starting, leads>>

\* The reply of a server with a higher term comes first.
Deposed(i, Q, j) ==
    /\ MayCampaign(i)
    /\ j \in Q /\ term[j] > term[i] + 1
    /\ Round(i, Q, term[j], NoOne, "Follower")
    /\ UNCHANGED <<starting, leads>>

-----------------------------------------------------------------------------
(* The leader. *)

\* startLearder before its loop: nextIndex is reset, matchIndex is not.
InitLeader(i) ==
    /\ starting[i]
    /\ starting' = [starting EXCEPT ![i] = FALSE]
    /\ nextIndex' = [nextIndex EXCEPT ![i] = [j \in Server |-> Len(log[i]) + 1]]
    /\ UNCHANGED <<persistent, state, matchIndex, commitIndex, lastApplied, boot, msgs,
                   leads, applied, bound>>

\* The loops of startLearder and pushToFollowers run; those of an earlier
\* leadership may still do so when the next one begins.
Looping(i) == state[i] = "Leader" /\ (~starting[i] \/ leads[i] > 1)

\* Start on a leader appends a command.
Start(i) ==
    /\ state[i] = "Leader"
    /\ Len(log[i]) < bound.entries
    /\ log' = [log EXCEPT ![i] = Append(@, term[i])]
    /\ nextIndex' = [nextIndex EXCEPT ![i][i] = Len(log[i]) + 2]
    /\ UNCHANGED <<term, votedFor>>
    /\ Persist(i)
    /\ UNCHANGED <<state, starting, matchIndex, commitIndex, lastApplied, boot, msgs, leads,
                   applied, bound>>

\* full is history, not on the wire: the log the request was cut from.
AppendRequest(i, j) ==
    LET prev == nextIndex[i][j] - 1 IN
      [type |-> "AppendEntries", src |-> i, boot |-> boot[i], dest |-> j, term |-> term[i],
       prev |-> prev, prevTerm |-> Entry(log[i], prev),
       entries |-> SubSeq(log[i], prev + 1, Len(log[i])), commit |-> commitIndex[i],
       full |-> log[i]]

\* The loop of startLearder for one peer: the request is built under the lock.
SendAppend(i, j) ==
    /\ Looping(i) /\ j # i
    /\ Cardinality(msgs) < bound.calls
    /\ nextIndex[i][j] <= Len(log[i]) + 1
    /\ msgs' = msgs \cup {AppendRequest(i, j)}
    /\ UNCHANGED <<persistent, state, leader, commitIndex, lastApplied, boot, leads, applied,
                   bound>>

\* BinarySearch: one past the last entry of term t, or -1.
BinarySearch(l, t) ==
    LET below == Cardinality({k \in 0..Len(l) : Entry(l, k) <= t})
    IN  IF below > 0 /\ Entry(l, below - 1) = t THEN below ELSE -1

\* Where the sender goes on after a refusal.
Backtrack(i, m) ==
    IF m.xlen # -1 THEN Lesser(m.xlen, Len(log[i]) + 1)
    ELSE IF m.xterm # -1
         THEN LET pos == BinarySearch(log[i], m.xterm)
              IN  Lesser(IF pos < 0 THEN m.xindex ELSE pos, Len(log[i]) + 1)
    ELSE Greater(1, nextIndex[i][m.src] - 1)

\* The spawned goroutine gets its reply.  Nothing tells it whether its server
\* still leads, or leads in the term of the request.
ReceiveAppend(i, m) ==
    /\ m.type = "AppendReply" /\ m.dest = i
    /\ msgs' = msgs \ {m}
    /\ AdoptTerm(i, m.term)
    /\ IF m.term > term[i]
         THEN UNCHANGED <<nextIndex, matchIndex>>
       ELSE IF m.success
         THEN /\ nextIndex' = [nextIndex EXCEPT ![i][m.src] = m.length]
              /\ matchIndex' = [matchIndex EXCEPT ![i][m.src] = m.length - 1]
         ELSE /\ nextIndex' = [nextIndex EXCEPT ![i][m.src] = Backtrack(i, m)]
              /\ UNCHANGED matchIndex
    /\ UNCHANGED <<starting, commitIndex, lastApplied, boot, leads, applied, bound>>

\* Holders of entry N as the leader knows them.
Replicas(i, N) == {j \in Server : j = i \/ matchIndex[i][j] >= N}

\* pushToFollowers: the highest entry of its own term that a majority holds.
Commit(i, N) ==
    /\ Looping(i)
    /\ LET ready == {k \in commitIndex[i] + 1 .. Len(log[i]) :
                        Cardinality(Replicas(i, k)) >= Majority /\ log[i][k] = term[i]}
       IN  N \in ready /\ \A k \in ready : k <= N
    /\ commitIndex' = [commitIndex EXCEPT ![i] = N]
    /\ UNCHANGED <<persistent, state, leader, lastApplied, boot, msgs, leads, applied, bound>>

-----------------------------------------------------------------------------
(* The AppendEntries handler. *)

\* length is the sender's own: len(rf.log) when it built the request.
AppendAnswer(j, m, t, ok, xlen, xterm, xindex) ==
    [type |-> "AppendReply", src |-> j, dest |-> m.src, term |-> t, success |-> ok,
     xlen |-> xlen, xterm |-> xterm, xindex |-> xindex,
     length |-> m.prev + Len(m.entries) + 1]

RefuseAppend(j, m) ==
    /\ m.type = "AppendEntries" /\ m.dest = j
    /\ m.term < term[j]
    /\ Answer(m, AppendAnswer(j, m, term[j], FALSE, -1, -1, -1))
    /\ UNCHANGED <<persistent, state, leader, commitIndex, lastApplied, boot, leads, applied,
                   bound>>

\* Mutant of Matches: the term of the previous entry is not compared.
Matches_AnyTerm(l, m) == m.prev <= Len(l)

Matches(l, m) == m.prev <= Len(l) /\ Entry(l, m.prev) = m.prevTerm

\* Mutant of RunStart: the loop runs one too far.
RunStart_OneBelow(l, k) ==
    (CHOOSE a \in 1..k : /\ \A b \in a..k : l[b] = l[k]
                         /\ a = 1 \/ l[a - 1] # l[k]) - 1

\* The first entry of the run of equal terms that ends at k.
RunStart(l, k) ==
    CHOOSE a \in 1..k : /\ \A b \in a..k : l[b] = l[k]
                        /\ a = 1 \/ l[a - 1] # l[k]

\* The log does not match: the reply says where to go back to.
MismatchAppend(j, m) ==
    /\ m.type = "AppendEntries" /\ m.dest = j
    /\ m.term >= term[j]
    /\ ~Matches(log[j], m)
    /\ AdoptTerm(j, m.term)
    /\ Answer(m, IF m.prev > Len(log[j])
                   THEN AppendAnswer(j, m, m.term, FALSE, Len(log[j]) + 1, -1, -1)
                   ELSE AppendAnswer(j, m, m.term, FALSE, -1, Entry(log[j], m.prev),
                                     RunStart(log[j], m.prev)))
    /\ UNCHANGED <<leader, commitIndex, lastApplied, boot, leads, applied, bound>>

\* Mutant of Merged: what follows is replaced even when nothing conflicts.
Merged_Always(l, m) == SubSeq(l, 1, m.prev) \o m.entries

\* Mutant of Merged: entries already there are not compared.
Merged_NoCompare(l, m) ==
    IF m.prev + Len(m.entries) <= Len(l) THEN l ELSE SubSeq(l, 1, m.prev) \o m.entries

\* The loop over the entries: from the first one that is missing or conflicts
\* on, the log becomes the leader's; otherwise it is left as it is.
Merged(l, m) ==
    IF \A k \in 1..Len(m.entries) : m.prev + k <= Len(l) /\ l[m.prev + k] = m.entries[k]
      THEN l
      ELSE SubSeq(l, 1, m.prev) \o m.entries

\* Mutant of CommitAfter: the leader's commit index is taken as it is.
CommitAfter_Unguarded(c, m) == Lesser(m.commit, m.prev + Len(m.entries))

CommitAfter(c, m) == IF m.commit > c THEN Lesser(m.commit, m.prev + Len(m.entries)) ELSE c

\* The log matches.  reply.Term is filled in for a heartbeat only.
AcceptAppend(j, m) ==
    /\ m.type = "AppendEntries" /\ m.dest = j
    /\ m.term >= term[j]
    /\ Matches(log[j], m)
    /\ IF m.term > term[j] THEN StepDown(j, m.term) ELSE UNCHANGED <<term, votedFor, state>>
    /\ log' = [log EXCEPT ![j] = Merged(@, m)]
    /\ Persist(j)
    /\ commitIndex' = [commitIndex EXCEPT ![j] = CommitAfter(@, m)]
    /\ Answer(m, AppendAnswer(j, m, IF m.entries = <<>> THEN m.term ELSE 0, TRUE, -1, -1, -1))
    /\ UNCHANGED <<leader, lastApplied, boot, leads, applied, bound>>

-----------------------------------------------------------------------------
(* Applying, losing, restarting. *)

\* ReachToCommit: one entry at a time, to applyCh.
Apply(i) ==
    /\ lastApplied[i] < commitIndex[i] /\ i \in bound.appliers
    /\ lastApplied' = [lastApplied EXCEPT ![i] = @ + 1]
    /\ applied' = applied \cup {<<lastApplied[i] + 1, log[i][lastApplied[i] + 1]>>}
    /\ UNCHANGED <<persistent, state, leader, commitIndex, boot, msgs, leads, bound>>

\* labrpc: the call fails on its way there or back, and the sender does nothing.
Lose(m) ==
    /\ msgs' = msgs \ {m}
    /\ UNCHANGED <<persistent, state, leader, commitIndex, lastApplied, boot, leads, applied,
                   bound>>

NoIndex(v) == [j \in Server |-> v]

\* readPersist: the log that comes back.
Loaded(i) == saved[i].log

\* Kill, then Make with the persister's content: nextIndex is filled in before
\* readPersist, so it is that of an empty log.
Restart(i) ==
    /\ Cardinality({x \in Server \X (1..bound.restarts) : x[2] <= boot[x[1]]}) < bound.restarts
    /\ boot' = [boot EXCEPT ![i] = @ + 1]
    /\ term' = [term EXCEPT ![i] = saved[i].term]
    /\ votedFor' = [votedFor EXCEPT ![i] = saved[i].votedFor]
    /\ log' = [log EXCEPT ![i] = Loaded(i)]
    /\ state' = [state EXCEPT ![i] = "Follower"]
    /\ starting' = [starting EXCEPT ![i] = FALSE]
    /\ commitIndex' = [commitIndex EXCEPT ![i] = 0]
    /\ lastApplied' = [lastApplied EXCEPT ![i] = 0]
    /\ nextIndex' = [nextIndex EXCEPT ![i] = NoIndex(1)]
    /\ matchIndex' = [matchIndex EXCEPT ![i] = NoIndex(0)]
    /\ leads' = [leads EXCEPT ![i] = 0]
    /\ msgs' = {m \in msgs : ~(m.type = "AppendReply" /\ m.dest = i)}
    /\ UNCHANGED <<saved, applied, bound>>

-----------------------------------------------------------------------------
Init ==
    /\ term = [i \in Server |-> 0]
    /\ votedFor = [i \in Server |-> NoOne]
    /\ log = [i \in Server |-> <<>>]
    /\ saved = [i \in Server |-> [term |-> 0, votedFor |-> NoOne, log |-> <<>>]]
    /\ state = [i \in Server |-> "Follower"]
    /\ starting = [i \in Server |-> FALSE]
    /\ commitIndex = [i \in Server |-> 0]
    /\ lastApplied = [i \in Server |-> 0]
    /\ nextIndex = [i \in Server |-> NoIndex(1)]
    /\ matchIndex = [i \in Server |-> NoIndex(0)]
    /\ boot = [i \in Server |-> 0]
    /\ msgs = {}
    /\ leads = [i \in Server |-> 0]
    /\ applied = {}
    /\ bound \in Bounds

Next ==
    \/ \E i \in Server : \/ InitLeader(i) \/ Start(i) \/ Apply(i) \/ Restart(i)
                         \/ \E j \in Server : SendAppend(i, j)
                         \/ \E Q \in SUBSET (Server \ {i}) :
                               \/ Elected(i, Q) \/ Undecided(i, Q)
                               \/ \E j \in Q : Deposed(i, Q, j)
                         \/ \E N \in 1..Len(log[i]) : Commit(i, N)
    \/ \E m \in msgs : \/ ReceiveAppend(m.dest, m) \/ Lose(m)
                       \/ RefuseAppend(m.dest, m) \/ MismatchAppend(m.dest, m)
                       \/ AcceptAppend(m.dest, m)

Spec == Init /\ [][Next]_vars

-----------------------------------------------------------------------------
(* Properties. *)

Indices == [Server -> [Server -> Nat]]

AppendRequests == [type : {"AppendEntries"}, src : Server, boot : Nat, dest : Server,
                   term : Nat, prev : Nat, prevTerm : Nat, entries : Seq(Nat), commit : Nat,
                   full : Seq(Nat)]
AppendReplies == [type : {"AppendReply"}, src : Server, dest : Server, term : Nat,
                  success : BOOLEAN, xlen : Int, xterm : Int, xindex : Int, length : Nat]
Message == AppendRequests \cup AppendReplies

\* The variables have the types of the fields of Raft and of the RPC arguments.
TypeOK ==
    /\ term \in [Server -> Nat]
    /\ votedFor \in [Server -> Server \cup {NoOne}]
    /\ log \in [Server -> Seq(Nat)]
    /\ saved \in [Server -> [term : Nat, votedFor : Server \cup {NoOne}, log : Seq(Nat)]]
    /\ state \in [Server -> {"Follower", "Candidate", "Leader"}]
    /\ starting \in [Server -> BOOLEAN]
    /\ commitIndex \in [Server -> Nat]
    /\ lastApplied \in [Server -> Nat]
    /\ nextIndex \in Indices
    /\ matchIndex \in Indices
    /\ boot \in [Server -> Nat]
    /\ msgs \subseteq Message
    /\ leads \in [Server -> Nat]
    /\ applied \subseteq Nat \X Nat
    /\ bound \in Bounds

\* Two logs that agree on the entry at an index agree on everything before it,
\* through truncations, reordered calls and restarts.
LogMatching ==
    \A i, j \in Server : \A k \in 1..Lesser(Len(log[i]), Len(log[j])) :
        log[i][k] = log[j][k] => SubSeq(log[i], 1, k) = SubSeq(log[j], 1, k)

\* No two ApplyMsg with one index carry different commands, whoever sent them
\* and whether or not it has restarted since (test.go, checkLogs:
\* "commit index=%v server=%v %v != server=%v %v").
StateMachineSafety ==
    \A a, b \in applied : a[1] = b[1] => a = b

\* An entry a server knows to be committed stays in its log: neither a late call
\* nor the log of a new leader truncates it.
CommittedStay ==
    [][\A i \in Server : \A k \in 1..commitIndex[i] :
          k <= Len(log'[i]) /\ log'[i][k] = log[i][k]]_vars

\* commitIndex goes back only in a restart: an AppendEntries call that is
\* delivered late, built when the log was shorter, does not lower it.
CommitNeverBack ==
    [][\A i \in Server : boot'[i] = boot[i] => commitIndex'[i] >= commitIndex[i]]_vars

\* While a leader leads, a peer of its term holds every entry matchIndex claims.
\* A log the peer has since replaced for a later leader is not looked at.
MatchIndexTrue ==
    \A i, j \in Server : state[i] = "Leader" /\ term[j] = term[i] =>
        LET k == Lesser(matchIndex[i][j], Len(log[i])) IN
          k <= Len(log[j]) /\ SubSeq(log[j], 1, k) = SubSeq(log[i], 1, k)

\* The variables are well-typed, and what a leader sends next is in its log:
\* rf.log[rf.nextIndex[i]-1] does not run past the end, whatever hint or late reply moved
\* nextIndex.
NextIndexInLog ==
    /\ TypeOK
    /\ \A i, j \in Server : Looping(i) => nextIndex[i][j] \in 1..Len(log[i]) + 1

=============================================================================
