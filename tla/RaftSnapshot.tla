---------------------------- MODULE RaftSnapshot ----------------------------
(***************************************************************************)
(* Replication with snapshots in the Raft server of lab3-D/raft.go, with   *)
(* the service of lab3-D/server.go that it feeds: the offset log, Snapshot *)
(* and InstallSnapshot, the goroutines that send for a leader, the one     *)
(* that applies, and the service that records commands and asks for        *)
(* snapshots.                                                              *)
(*                                                                         *)
(* A command is identified by the term and the index Start returned for    *)
(* it; <<>> is the Cmd "" of the dummy entry.  log[i] is rf.log with its   *)
(* dummy, so its k-th element is rf.log[k-1]; the dummy's term is always   *)
(* last_snapShot_term_.  A snapshot is the sequence of the commands in it. *)
(* As in RaftLog a round of RequestVoteHelper is one step, and labrpc      *)
(* delivers a call at most once, in any order, or never.                   *)
(***************************************************************************)
EXTENDS Integers, Sequences, FiniteSets

CONSTANTS Server,           \* the indices of rf.peers
          NoOne,            \* votedFor = -1
          SnapShotInterval, \* of server.go
          Bounds            \* bounds: each behaviour keeps to one of them, all its life

ASSUME ServerAssumption == IsFiniteSet(Server) /\ NoOne \notin Server
ASSUME IntervalAssumption == SnapShotInterval \in Nat \ {0}
ASSUME BoundAssumption ==
    \A x \in Bounds :
        /\ \A t \in DOMAIN x.candidates : t \in Nat \ {0} /\ x.candidates[t] \subseteq Server
        /\ {x.entries, x.leads, x.restarts, x.calls, x.late} \subseteq Nat
        /\ x.appliers \subseteq Server

VARIABLES term,        \* rf.term
          votedFor,    \* rf.votedFor
          log,         \* rf.log, the dummy first
          lastSnap,    \* rf.last_snapShot_commit_
          snapshot,    \* rf.snapshot
          saved,       \* what the persister holds
          state,       \* rf.state
          starting,    \* elected, but startLearder has not run yet
          nextIndex,   \* rf.nextIndex
          matchIndex,  \* rf.matchIndex
          commitIndex, \* rf.commitIndex
          lastApplied, \* rf.lastApplied
          batch,       \* what ReachToCommit has still to do
          offers,      \* snapshots whose goroutines wait to send on applyCh
          logs,        \* rs.logs of the service; its length is rs.lastApplied
          owing,       \* the service is about to call Snapshot
          senders,     \* sender goroutines that have not taken the lock yet
          msgs,        \* requests and replies in the network
          boot,        \* incarnation of the server: how often it was restarted
          leads,       \* elections won by this incarnation
          chosen,      \* history: the commands leaders have found committed
          ended,       \* why the program has ended, "" while it runs
          bound        \* of Bounds: candidates[t] may campaign in term t, entries is the last
                       \* index of a log, an incarnation wins leads elections, there are
                       \* restarts of all servers together, calls under way, and late sender
                       \* goroutines that wait for the lock; ReachToCommit gets to run on the
                       \* servers of appliers

elect == <<term, votedFor, state>>
store == <<log, lastSnap, snapshot>>
leader == <<starting, nextIndex, matchIndex, leads>>
apply == <<lastApplied, batch>>
service == <<offers, logs, owing>>
net == <<senders, msgs>>
ghost == <<chosen, ended, bound>>
vars == <<elect, store, saved, leader, commitIndex, apply, service, net, boot, ghost>>

-----------------------------------------------------------------------------
(* The offset log. *)

\* Mutant of Majority: half of the cluster is enough.
Majority_Half == Cardinality(Server) \div 2

Majority == Cardinality(Server) \div 2 + 1

Lesser(a, b) == IF a < b THEN a ELSE b
Greater(a, b) == IF a > b THEN a ELSE b

\* indexSub(index), as a position of log[i]
Pos(i, index) == index - lastSnap[i] + 1

\* indexAdd(len(rf.log))
NextOf(i) == lastSnap[i] + Len(log[i])

\* The last index and its term: of the snapshot when there is no entry.
Last(i) == NextOf(i) - 1
LastTerm(i) == log[i][Len(log[i])].term

\* The entries of server i from index on.
From(i, index) == SubSeq(log[i], Pos(i, index), Len(log[i]))

Dummy(t) == [term |-> t, cmd |-> <<>>]
Commands(entries) == [k \in 1..Len(entries) |-> entries[k].cmd]

\* Every command of server i up to an index, those in the snapshot included.
History(i, index) == SubSeq(snapshot[i] \o Commands(Tail(log[i])), 1, index)

\* Mutant of Persist: the state is saved before the new snapshot is in place.
Persist_OldSnapshot(i) ==
    saved' = [saved EXCEPT ![i] = [term |-> term'[i], votedFor |-> votedFor'[i], log |-> log'[i],
                                    lastSnap |-> lastSnap'[i], snapshot |-> snapshot[i]]]

\* persist(): what server i saves is the state it has after the step.
Persist(i) ==
    saved' = [saved EXCEPT ![i] = [term |-> term'[i], votedFor |-> votedFor'[i], log |-> log'[i],
                                    lastSnap |-> lastSnap'[i], snapshot |-> snapshot'[i]]]

\* rf.term, rf.votedFor, rf.state = t, -1, Follower
StepDown(i, t) ==
    /\ term' = [term EXCEPT ![i] = t]
    /\ votedFor' = [votedFor EXCEPT ![i] = NoOne]
    /\ state' = [state EXCEPT ![i] = "Follower"]

\* The handlers' and the senders' first test: a higher term is adopted.
MeetTerm(i, t) == IF t > term[i] THEN StepDown(i, t) ELSE UNCHANGED elect

\* ... and saved, where nothing else is.
AdoptTerm(i, t) ==
    /\ MeetTerm(i, t)
    /\ UNCHANGED store
    /\ IF t > term[i] THEN Persist(i) ELSE UNCHANGED saved

\* A reply is lost when the incarnation that made the call is gone.
Answer(m, r) ==
    msgs' = (msgs \ {m}) \cup (IF m.boot = boot[m.src] THEN {r} ELSE {})

\* An index out of range, or log.Fatalf: all servers are in one process.
Die(why) ==
    /\ ended' = why
    /\ UNCHANGED <<elect, store, saved, leader, commitIndex, apply, service, net, boot, chosen,
                   bound>>

-----------------------------------------------------------------------------
(* Elections, a round at a time. *)

UpToDate(i, j) ==
    LastTerm(i) > LastTerm(j) \/ (LastTerm(i) = LastTerm(j) /\ Last(i) >= Last(j))

\* The RequestVote handler's decision on candidate i's request for term t.
Granted(j, i, t) ==
    /\ t > term[j] \/ (t = term[j] /\ votedFor[j] \in {NoOne, i})
    /\ UpToDate(i, j)

MayCampaign(i) ==
    LET t == term[i] + 1 IN
      state[i] # "Leader" /\ t \in DOMAIN bound.candidates /\ i \in bound.candidates[t]

\* Candidate i takes a new term and votes for itself, its requests reach the
\* servers of Q, and the round leaves it with term t, vote v and state s.
Round(i, Q, t, v, s) ==
    LET new == term[i] + 1
        raised == {j \in Q : new > term[j]}
        grants == {j \in Q : Granted(j, i, new)}
    IN  /\ term' = [j \in Server |-> IF j = i THEN t ELSE IF j \in raised THEN new ELSE term[j]]
        /\ votedFor' = [j \in Server |-> IF j = i THEN v ELSE IF j \in grants THEN i
                                          ELSE IF j \in raised THEN NoOne ELSE votedFor[j]]
        /\ state' = [j \in Server |-> IF j = i THEN s ELSE IF j \in raised THEN "Follower"
                                       ELSE state[j]]
        /\ saved' = [j \in Server |-> [saved[j] EXCEPT !.term = term'[j],
                                                        !.votedFor = votedFor'[j]]]
        /\ UNCHANGED <<store, nextIndex, matchIndex, commitIndex, apply, service, net, boot, ghost>>

\* Enough of the replies come in time.
Elected(i, Q) ==
    /\ MayCampaign(i) /\ leads[i] < bound.leads
    /\ Cardinality({j \in Q : Granted(j, i, term[i] + 1)}) + 1 >= Majority
    /\ Round(i, Q, term[i] + 1, i, "Leader")
    /\ starting' = [starting EXCEPT ![i] = TRUE]
    /\ leads' = [leads EXCEPT ![i] = @ + 1]

\* The timeout comes first.
Undecided(i, Q) ==
    /\ MayCampaign(i)
    /\ Round(i, Q, term[i] + 1, i, "Candidate")
    /\ UNCHANGED <<starting, leads>>

\* The reply of a server with a higher term comes first.
Deposed(i, Q, j) ==
    /\ MayCampaign(i)
    /\ j \in Q /\ term[j] > term[i] + 1
    /\ Round(i, Q, term[j], NoOne, "Follower")
    /\ UNCHANGED <<starting, leads>>

-----------------------------------------------------------------------------
(* The leader. *)

\* nextIndex and matchIndex of every peer start again behind snapshot and log.
Reset(i, snapIndex, last) ==
    /\ nextIndex' = [nextIndex EXCEPT ![i] = [j \in Server |-> last + 1]]
    /\ matchIndex' = [matchIndex EXCEPT ![i] = [j \in Server |-> IF j = i THEN last ELSE snapIndex]]

\* startLearder, before its loops.
InitLeader(i) ==
    /\ starting[i]
    /\ starting' = [starting EXCEPT ![i] = FALSE]
    /\ Reset(i, lastSnap[i], Last(i))
    /\ UNCHANGED <<elect, store, saved, leads, commitIndex, apply, service, net, boot, ghost>>

\* The loops of startLearder and pushToFollowers run; those of an earlier
\* leadership may still do so when the next one begins.
Looping(i) == state[i] = "Leader" /\ (~starting[i] \/ leads[i] > 1)

\* Start on a leader appends a command.
Start(i) ==
    /\ state[i] = "Leader"
    /\ Last(i) < bound.entries
    /\ log' = [log EXCEPT ![i] = Append(@, [term |-> term[i], cmd |-> <<term[i], NextOf(i)>>])]
    /\ nextIndex' = [nextIndex EXCEPT ![i][i] = NextOf(i) + 1]
    /\ matchIndex' = [matchIndex EXCEPT ![i][i] = NextOf(i)]
    /\ UNCHANGED <<elect, lastSnap, snapshot>>
    /\ Persist(i)
    /\ UNCHANGED <<starting, leads, commitIndex, apply, service, net, boot, ghost>>

\* Which request the loop decides on for a peer.
Kind(i, j) == IF nextIndex[i][j] <= lastSnap[i] THEN "InstallSnapshot" ELSE "AppendEntries"

\* full is history, not on the wire: the commands of the log the request was cut from.
AppendRequest(i, j) ==
    LET next == nextIndex[i][j] IN
      [type |-> "AppendEntries", src |-> i, boot |-> boot[i], dest |-> j, term |-> term[i],
       prev |-> next - 1, prevTerm |-> log[i][Pos(i, next - 1)].term,
       entries |-> IF NextOf(i) <= next THEN <<>> ELSE From(i, next),
       commit |-> commitIndex[i], next |-> NextOf(i), full |-> History(i, Last(i))]

SnapshotRequest(i, j) ==
    [type |-> "InstallSnapshot", src |-> i, boot |-> boot[i], dest |-> j, term |-> term[i],
     lastIncludedTerm |-> log[i][1].term, data |-> snapshot[i]]

\* The sender goroutine of server i for peer j takes the lock: it builds its
\* request from what it finds and looks at neither the state nor the term.
Build(i, j, kind) ==
    IF kind = "AppendEntries" /\ nextIndex[i][j] - 1 \notin lastSnap[i]..Last(i)
      THEN ended' = "index out of range" /\ UNCHANGED msgs
      ELSE /\ msgs' = msgs \cup {IF kind = "AppendEntries" THEN AppendRequest(i, j)
                                                           ELSE SnapshotRequest(i, j)}
           /\ UNCHANGED ended

\* The loop of startLearder for one peer, when its goroutine has the lock next.
Send(i, j) ==
    /\ Looping(i) /\ j # i
    /\ Cardinality(msgs) < bound.calls
    /\ Build(i, j, Kind(i, j))
    /\ UNCHANGED <<elect, store, saved, leader, commitIndex, apply, service, senders, boot, chosen,
                   bound>>

\* The same, when others get the lock before the goroutine ...
Spawn(i, j) ==
    /\ Looping(i) /\ j # i
    /\ Cardinality(senders) < bound.late
    /\ senders' = senders \cup {<<i, j, Kind(i, j)>>}
    /\ UNCHANGED <<elect, store, saved, leader, commitIndex, apply, service, msgs, boot, ghost>>

\* ... which comes to it in the end.
SendLate(g) ==
    /\ Cardinality(msgs) < bound.calls
    /\ senders' = senders \ {g}
    /\ Build(g[1], g[2], g[3])
    /\ UNCHANGED <<elect, store, saved, leader, commitIndex, apply, service, boot, chosen, bound>>

\* BinarySearch: one past the last element of term t, or -1.
BinarySearch(i, t) ==
    LET below == Cardinality({p \in 1..Len(log[i]) : log[i][p].term <= t})
    IN  IF below > 0 /\ log[i][below].term = t THEN below ELSE -1

\* Where the sender goes on after a refusal.
Backtrack(i, m) ==
    IF m.xlen # -1 THEN Lesser(m.xlen, NextOf(i))
    ELSE IF m.xterm # -1
         THEN LET pos == BinarySearch(i, m.xterm)
              IN  Lesser(IF pos < 0 THEN m.xindex ELSE lastSnap[i] + pos, NextOf(i))
    ELSE Greater(1, nextIndex[i][m.src] - 1)

\* Mutant of SnapshotNext: the leader's present snapshot is passed over.
SnapshotNext_Log(i) == NextOf(i)

\* Where the sender goes on after InstallSnapshot.
SnapshotNext(i) == lastSnap[i] + 1

\* The spawned goroutine gets its reply.
ReceiveReply(i, m) ==
    /\ m.dest = i /\ m.type \in {"AppendReply", "InstallReply"}
    /\ msgs' = msgs \ {m}
    /\ AdoptTerm(i, m.term)
    /\ IF m.term > term[i]
         THEN UNCHANGED <<nextIndex, matchIndex>>
       ELSE IF m.type = "InstallReply"
         THEN /\ nextIndex' = [nextIndex EXCEPT ![i][m.src] = SnapshotNext(i)]
              /\ matchIndex' = [matchIndex EXCEPT ![i][m.src] = SnapshotNext(i) - 1]
       ELSE IF m.success
         THEN /\ nextIndex' = [nextIndex EXCEPT ![i][m.src] = m.next]
              /\ matchIndex' = [matchIndex EXCEPT ![i][m.src] = m.next - 1]
         ELSE /\ nextIndex' = [nextIndex EXCEPT ![i][m.src] = Backtrack(i, m)]
              /\ UNCHANGED matchIndex
    /\ UNCHANGED <<starting, leads, commitIndex, apply, service, senders, boot, ghost>>

\* pushToFollowers: the highest entry of its own term that a majority holds.
Commit(i, N) ==
    /\ Looping(i)
    /\ LET ready == {k \in commitIndex[i] + 1 .. Last(i) :
                        /\ Cardinality({j \in Server : matchIndex[i][j] >= k}) >= Majority
                        /\ log[i][Pos(i, k)].term = term[i]}
       IN  N \in ready /\ \A k \in ready : k <= N
    /\ commitIndex' = [commitIndex EXCEPT ![i] = N]
    /\ chosen' = IF N > Len(chosen) THEN History(i, N) ELSE chosen
    /\ UNCHANGED <<elect, store, saved, leader, apply, service, net, boot, ended, bound>>

-----------------------------------------------------------------------------
(* The AppendEntries handler. *)

Calls(m, j, type) == m.type = type /\ m.dest = j

AppendAnswer(j, m, t, ok, xlen, xterm, xindex) ==
    [type |-> "AppendReply", src |-> j, dest |-> m.src, term |-> t, success |-> ok,
     xlen |-> xlen, xterm |-> xterm, xindex |-> xindex, next |-> m.next]

RefuseAppend(j, m) ==
    /\ Calls(m, j, "AppendEntries")
    /\ m.term < term[j]
    /\ Answer(m, AppendAnswer(j, m, term[j], FALSE, -1, -1, -1))
    /\ UNCHANGED <<elect, store, saved, leader, commitIndex, apply, service, senders, boot, ghost>>

\* PrevLogIndex lies below the snapshot: rf.log is indexed with a negative number.
BelowSnapshot(j, m) ==
    /\ Calls(m, j, "AppendEntries")
    /\ m.term >= term[j] /\ m.prev < lastSnap[j]
    /\ Die("index out of range")

Matches(j, m) == m.prev \in lastSnap[j]..Last(j) /\ log[j][Pos(j, m.prev)].term = m.prevTerm

\* The first element of the run of equal terms that ends at position p.
RunStart(l, p) ==
    CHOOSE a \in 1..p : /\ \A b \in a..p : l[b].term = l[p].term
                        /\ a = 1 \/ l[a - 1].term # l[p].term

\* The log does not match: the reply says where to go back to.
MismatchAppend(j, m) ==
    /\ Calls(m, j, "AppendEntries")
    /\ m.term >= term[j] /\ m.prev >= lastSnap[j]
    /\ ~Matches(j, m)
    /\ AdoptTerm(j, m.term)
    /\ LET p == Pos(j, m.prev) IN
         Answer(m, IF m.prev > Last(j)
                     THEN AppendAnswer(j, m, m.term, FALSE, NextOf(j), -1, -1)
                     ELSE AppendAnswer(j, m, m.term, FALSE, -1, log[j][p].term,
                                       lastSnap[j] + RunStart(log[j], p) - 1))
    /\ UNCHANGED <<leader, commitIndex, apply, service, senders, boot, ghost>>

\* Mutant of Merged: the entries start at the previous one's place.
Merged_OverPrev(l, p, entries) ==
    IF \A k \in 1..Len(entries) : p + k - 1 <= Len(l) /\ l[p + k - 1].term = entries[k].term
      THEN l
      ELSE SubSeq(l, 1, p - 1) \o entries

\* The loop over the entries: from the first one that is missing or conflicts
\* on, the log becomes the leader's; otherwise it is left as it is.
Merged(l, p, entries) ==
    IF \A k \in 1..Len(entries) : p + k <= Len(l) /\ l[p + k].term = entries[k].term
      THEN l
      ELSE SubSeq(l, 1, p) \o entries

CommitAfter(c, m) == IF m.commit > c THEN Lesser(m.commit, m.prev + Len(m.entries)) ELSE c

\* The log matches.  reply.Term is filled in for a heartbeat only.
AcceptAppend(j, m) ==
    /\ Calls(m, j, "AppendEntries")
    /\ m.term >= term[j]
    /\ Matches(j, m)
    /\ MeetTerm(j, m.term)
    /\ log' = [log EXCEPT ![j] = Merged(@, Pos(j, m.prev), m.entries)]
    /\ UNCHANGED <<lastSnap, snapshot>>
    /\ Persist(j)
    /\ commitIndex' = [commitIndex EXCEPT ![j] = CommitAfter(@, m)]
    /\ Answer(m, AppendAnswer(j, m, IF m.entries = <<>> THEN m.term ELSE 0, TRUE, -1, -1, -1))
    /\ UNCHANGED <<leader, apply, service, senders, boot, ghost>>

-----------------------------------------------------------------------------
(* The InstallSnapshot handler; LastIncludedIndex is the length of the data. *)

InstallAnswer(j, m) == [type |-> "InstallReply", src |-> j, dest |-> m.src, term |-> term[j]]

\* A call of an earlier term is refused, a snapshot no newer than its own ignored.
SkipSnapshot(j, m) ==
    /\ Calls(m, j, "InstallSnapshot")
    /\ m.term < term[j] \/ Len(m.data) <= lastSnap[j]
    /\ AdoptTerm(j, m.term)
    /\ Answer(m, InstallAnswer(j, m))
    /\ UNCHANGED <<leader, commitIndex, apply, service, senders, boot, ghost>>

\* The log has the snapshot's last entry.
HasEntry(j, m) ==
    LET p == Pos(j, Len(m.data)) IN p <= Len(log[j]) /\ log[j][p].term = m.lastIncludedTerm

\* What stays of the log behind the snapshot.
LogBehind(j, m) ==
    IF HasEntry(j, m) THEN From(j, Len(m.data)) ELSE <<Dummy(m.lastIncludedTerm)>>

Received(j, m) == m.data

\* The snapshot replaces the beginning of the log, or all of it; it goes to the
\* service through a goroutine of its own.
InstallSnapshot(j, m) ==
    /\ Calls(m, j, "InstallSnapshot")
    /\ m.term >= term[j] /\ Len(m.data) > lastSnap[j]
    /\ MeetTerm(j, m.term)
    /\ log' = [log EXCEPT ![j] = LogBehind(j, m)]
    /\ lastSnap' = [lastSnap EXCEPT ![j] = Len(m.data)]
    /\ snapshot' = [snapshot EXCEPT ![j] = Received(j, m)]
    /\ Persist(j)
    /\ IF commitIndex[j] < Len(m.data)
         THEN /\ commitIndex' = [commitIndex EXCEPT ![j] = Len(m.data)]
              /\ lastApplied' = [lastApplied EXCEPT ![j] = Len(m.data)]
         ELSE UNCHANGED <<commitIndex, lastApplied>>
    /\ offers' = [offers EXCEPT ![j] = @ \cup {m.data}]
    /\ Answer(m, InstallAnswer(j, m))
    /\ UNCHANGED <<leader, batch, logs, owing, senders, boot, ghost>>

-----------------------------------------------------------------------------
(* Applying: ReachToCommit, applyCh and the service. *)

Idle == [start |-> 0, commands |-> <<>>, sent |-> FALSE]

\* ReachToCommit copies what is committed and not applied, under the lock.
Fetch(i) ==
    /\ batch[i] = Idle /\ i \in bound.appliers
    /\ lastApplied[i] < commitIndex[i]
    /\ IF lastApplied[i] + 1 < lastSnap[i]
         THEN Die("index out of range")
         ELSE /\ batch' = [batch EXCEPT ![i] =
                   [start |-> lastApplied[i] + 1, sent |-> FALSE,
                    commands |-> Commands(SubSeq(log[i], Pos(i, lastApplied[i] + 1),
                                                         Pos(i, commitIndex[i])))]]
              /\ UNCHANGED <<elect, store, saved, leader, commitIndex, lastApplied, service, net,
                             boot, ghost>>

\* checkLogs: another service holds another command there.
Differs(k, c) == \E j \in Server : Len(logs[j]) >= k /\ logs[j][k] # c

\* It sends a command and applierSnap receives it, which is done with the one before: the
\* index must be the next one, and no service may differ.
Deliver(i) ==
    LET k == batch[i].start
        cmd == Head(batch[i].commands)
    IN  /\ batch[i] # Idle /\ ~batch[i].sent /\ ~owing[i]
        /\ IF k # Len(logs[i]) + 1 THEN Die("out of order")
           ELSE IF Differs(k, cmd) THEN Die("disagreement")
           ELSE /\ logs' = [logs EXCEPT ![i] = Append(@, cmd)]
                /\ owing' = [owing EXCEPT ![i] = (k + 1) % SnapShotInterval = 0]
                /\ batch' = [batch EXCEPT ![i].sent = TRUE]
                /\ UNCHANGED <<elect, store, saved, leader, commitIndex, lastApplied, offers, net,
                               boot, ghost>>

\* Back from applyCh, ReachToCommit takes the lock again for lastApplied.
SetApplied(i) ==
    LET done == batch[i] IN
    /\ done.sent
    /\ lastApplied' = [lastApplied EXCEPT ![i] = done.start]
    /\ batch' = [batch EXCEPT ![i] = IF Len(done.commands) = 1 THEN Idle
                  ELSE [start |-> done.start + 1, commands |-> Tail(done.commands), sent |-> FALSE]]
    /\ UNCHANGED <<elect, store, saved, leader, commitIndex, service, net, boot, ghost>>

\* applierSnap receives a snapshot, and ingestSnap puts it in place of what it had.
DeliverSnapshot(i, s) ==
    /\ s \in offers[i] /\ ~owing[i]
    /\ offers' = [offers EXCEPT ![i] = @ \ {s}]
    /\ logs' = [logs EXCEPT ![i] = s]
    /\ UNCHANGED <<elect, store, saved, leader, commitIndex, apply, owing, net, boot, ghost>>

\* The log that stays after a snapshot up to index.
CutLog(i, index) == <<Dummy(log[i][Pos(i, index)].term)>> \o From(i, index + 1)

\* The service has encoded its commands and calls Snapshot.
Snapshot(i) ==
    LET index == Len(logs[i]) IN
    /\ owing[i]
    /\ owing' = [owing EXCEPT ![i] = FALSE]
    /\ UNCHANGED elect
    /\ IF lastSnap[i] >= index
         THEN UNCHANGED <<store, saved, nextIndex, matchIndex>>
         ELSE /\ log' = [log EXCEPT ![i] = CutLog(i, index)]
              /\ lastSnap' = [lastSnap EXCEPT ![i] = index]
              /\ snapshot' = [snapshot EXCEPT ![i] = logs[i]]
              /\ Persist(i)
              /\ Reset(i, index, Last(i))
    /\ UNCHANGED <<starting, leads, commitIndex, apply, offers, logs, net, boot, ghost>>

-----------------------------------------------------------------------------
(* Losing, restarting. *)

\* labrpc: the call fails on its way there or back, and the sender does nothing.
Lose(m) ==
    /\ msgs' = msgs \ {m}
    /\ UNCHANGED <<elect, store, saved, leader, commitIndex, apply, service, senders, boot, ghost>>

\* Mutant of Applied: what was applied before is not remembered.
Applied_None(i) == 0

\* readPersist: commitIndex and lastApplied start again at the snapshot.
Applied(i) == saved[i].lastSnap

\* Kill, then Make with the persister's content, and the service takes the snapshot.
Restart(i) ==
    /\ Cardinality({x \in Server \X (1..bound.restarts) : x[2] <= boot[x[1]]}) < bound.restarts
    /\ boot' = [boot EXCEPT ![i] = @ + 1]
    /\ term' = [term EXCEPT ![i] = saved[i].term]
    /\ votedFor' = [votedFor EXCEPT ![i] = saved[i].votedFor]
    /\ state' = [state EXCEPT ![i] = "Follower"]
    /\ log' = [log EXCEPT ![i] = [saved[i].log EXCEPT ![1].cmd = <<>>]]
    /\ lastSnap' = [lastSnap EXCEPT ![i] = saved[i].lastSnap]
    /\ snapshot' = [snapshot EXCEPT ![i] = saved[i].snapshot]
    /\ commitIndex' = [commitIndex EXCEPT ![i] = Applied(i)]
    /\ lastApplied' = [lastApplied EXCEPT ![i] = Applied(i)]
    /\ starting' = [starting EXCEPT ![i] = FALSE]
    /\ nextIndex' = [nextIndex EXCEPT ![i] = [j \in Server |-> 0]]
    /\ matchIndex' = [matchIndex EXCEPT ![i] = [j \in Server |-> 0]]
    /\ leads' = [leads EXCEPT ![i] = 0]
    /\ batch' = [batch EXCEPT ![i] = Idle]
    /\ offers' = [offers EXCEPT ![i] = {}]
    /\ logs' = [logs EXCEPT ![i] = saved[i].snapshot]
    /\ owing' = [owing EXCEPT ![i] = FALSE]
    /\ senders' = {g \in senders : g[1] # i}
    /\ msgs' = {m \in msgs : ~(m.type \in {"AppendReply", "InstallReply"} /\ m.dest = i)}
    /\ UNCHANGED <<saved, ghost>>

-----------------------------------------------------------------------------
Zero == [i \in Server |-> 0]

Init ==
    /\ term = Zero /\ votedFor = [i \in Server |-> NoOne]
    /\ state = [i \in Server |-> "Follower"]
    /\ log = [i \in Server |-> <<Dummy(0)>>]
    /\ lastSnap = Zero /\ snapshot = [i \in Server |-> <<>>]
    /\ saved = [i \in Server |-> [term |-> 0, votedFor |-> NoOne, log |-> <<Dummy(0)>>,
                                  lastSnap |-> 0, snapshot |-> <<>>]]
    /\ starting = [i \in Server |-> FALSE] /\ leads = Zero
    /\ nextIndex = [i \in Server |-> Zero] /\ matchIndex = [i \in Server |-> Zero]
    /\ commitIndex = Zero /\ lastApplied = Zero
    /\ batch = [i \in Server |-> Idle]
    /\ offers = [i \in Server |-> {}] /\ logs = [i \in Server |-> <<>>]
    /\ owing = [i \in Server |-> FALSE]
    /\ senders = {} /\ msgs = {} /\ boot = Zero
    /\ chosen = <<>> /\ ended = "" /\ bound \in Bounds

\* All servers are threads of one process.
Live == {i \in Server : ended = ""}

Next ==
    \/ \E i \in Live : \/ InitLeader(i) \/ Start(i) \/ Restart(i)
                       \/ Fetch(i) \/ Deliver(i) \/ SetApplied(i) \/ Snapshot(i)
                       \/ \E s \in offers[i] : DeliverSnapshot(i, s)
                       \/ \E j \in Server : Send(i, j) \/ Spawn(i, j)
                       \/ \E Q \in SUBSET (Server \ {i}) :
                             \/ Elected(i, Q) \/ Undecided(i, Q)
                             \/ \E j \in Q : Deposed(i, Q, j)
                       \/ \E N \in commitIndex[i] + 1 .. Last(i) : Commit(i, N)
    \/ \E g \in {g \in senders : g[1] \in Live} : SendLate(g)
    \/ \E m \in {m \in msgs : m.dest \in Live} :
          \/ ReceiveReply(m.dest, m) \/ Lose(m)
          \/ RefuseAppend(m.dest, m) \/ BelowSnapshot(m.dest, m)
          \/ MismatchAppend(m.dest, m) \/ AcceptAppend(m.dest, m)
          \/ SkipSnapshot(m.dest, m) \/ InstallSnapshot(m.dest, m)

Spec == Init /\ [][Next]_vars

-----------------------------------------------------------------------------
(* Properties. *)

Command == Seq(Nat)
Entry == [term : Nat, cmd : Command]

AppendCalls == [type : {"AppendEntries"}, src : Server, boot : Nat, dest : Server, term : Nat,
                prev : Int, prevTerm : Nat, entries : Seq(Entry), commit : Nat, next : Nat,
                full : Seq(Command)]
SnapshotCalls == [type : {"InstallSnapshot"}, src : Server, boot : Nat, dest : Server,
                  term : Nat, lastIncludedTerm : Nat, data : Seq(Command)]
Replies == [type : {"AppendReply"}, src : Server, dest : Server, term : Nat, success : BOOLEAN,
            xlen : Int, xterm : Int, xindex : Int, next : Nat]
           \cup [type : {"InstallReply"}, src : Server, dest : Server, term : Nat]

PerServer(S) == [Server -> S]

\* The variables have the types of the fields of Raft and of the RPC arguments, and a
\* snapshot has as many commands as its index says.
TypeOK ==
    /\ {term, lastSnap, commitIndex, lastApplied, boot, leads} \subseteq PerServer(Nat)
    /\ votedFor \in PerServer(Server \cup {NoOne})
    /\ state \in PerServer({"Follower", "Candidate", "Leader"})
    /\ log \in PerServer(Seq(Entry))
    /\ {snapshot, logs} \subseteq PerServer(Seq(Command))
    /\ \A i \in Server : Len(log[i]) >= 1 /\ Len(snapshot[i]) = lastSnap[i]
    /\ {starting, owing} \subseteq PerServer(BOOLEAN)
    /\ {nextIndex, matchIndex} \subseteq PerServer(PerServer(Nat))
    /\ saved \in PerServer([term : Nat, votedFor : Server \cup {NoOne}, log : Seq(Entry),
                            lastSnap : Nat, snapshot : Seq(Command)])
    /\ batch \in PerServer([start : Nat, commands : Seq(Command), sent : BOOLEAN])
    /\ \A i \in Server : offers[i] \subseteq Seq(Command)
    /\ senders \subseteq Server \X Server \X {"AppendEntries", "InstallSnapshot"}
    /\ msgs \subseteq AppendCalls \cup SnapshotCalls \cup Replies
    /\ chosen \in Seq(Command)
    /\ ended \in {"", "index out of range", "out of order", "disagreement"}
    /\ bound \in Bounds

IsPrefixOf(s, t) == Len(s) <= Len(t) /\ s = SubSeq(t, 1, Len(s))

\* Two logs that agree on the entry at an index agree on every command before it, those
\* that only a snapshot still holds included.
LogMatching ==
    \A i, j \in Server :
        \A k \in Greater(lastSnap[i], lastSnap[j]) + 1 .. Lesser(Last(i), Last(j)) :
            log[i][Pos(i, k)].term = log[j][Pos(j, k)].term => History(i, k) = History(j, k)

\* The variables are well-typed, and what a server takes for committed, in its snapshot or in
\* its log, is what leaders have committed: no cut, install, truncation or restart changes it.
CommittedAgree ==
    /\ TypeOK
    /\ \A i \in Server : /\ lastSnap[i] <= commitIndex[i] /\ commitIndex[i] <= Last(i)
                         /\ IsPrefixOf(History(i, commitIndex[i]), chosen)

\* A majority of the disks hold every committed command, in a log or in a snapshot, so
\* that restarts lose none.
ChosenOnDisk ==
    LET Disk(i) == saved[i].snapshot \o Commands(Tail(saved[i].log)) IN
      Cardinality({i \in Server : IsPrefixOf(chosen, Disk(i))}) >= Majority

\* What a leader counts above its snapshot is true: a peer of its term that matchIndex
\* says holds an entry holds it, after any late or reordered reply.
MatchIndexTrue ==
    \A i, j \in Server :
        /\ state[i] = "Leader" /\ ~starting[i]
        /\ term[j] = term[i] /\ matchIndex[i][j] > lastSnap[i]
        => LET k == Lesser(matchIndex[i][j], Last(i)) IN
              k <= Last(j) /\ History(i, k) = History(j, k)

Promise == INSTANCE AgreedLog WITH agreed <- chosen, shown <- logs

\* The servers keep the promise of AgreedLog: one growing sequence of commands, of which
\* every service holds a prefix at any time.
KeepsPromise == Promise!Spec

=============================================================================
