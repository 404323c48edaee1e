------------------------------ MODULE RaftThreads ------------------------------
(***************************************************************************)
(* The goroutines of one Raft server of lab3-D/raft.go and what they wait  *)
(* for: the ticker with its elections, the loops a leadership starts for   *)
(* its peers and for committing, and ReachToCommit on its condition        *)
(* variable, until Kill.  What the peers do shows only in the indices a    *)
(* call or a reply brings; logs are lengths, and the terms, requests and   *)
(* contents are those of RaftElection and RaftSnapshot.                    *)
(***************************************************************************)
EXTENDS Integers, FiniteSets

CONSTANTS Peer,     \* the other servers
          MaxLog,   \* bound: index of the last entry
          MaxLeads  \* bound: elections won

ASSUME PeerAssumption == IsFiniteSet(Peer)
ASSUME BoundAssumption == MaxLog \in Nat /\ MaxLeads \in Nat

VARIABLES dead,        \* rf.dead
          state,       \* rf.state
          ticker,      \* the ticker goroutine
          leads,       \* history: elections won
          starting,    \* leaderships whose startLearder has not run yet
          loops,       \* loops of startLearder, each of a leadership and for a peer
          pushers,     \* leaderships whose loop of pushToFollowers runs
          applier,     \* the goroutine of ReachToCommit
          last,        \* index of the last entry
          held,        \* highest index of the leader's term that a majority matches
          lastSnap,    \* rf.last_snapShot_commit_
          commitIndex, \* rf.commitIndex
          known,       \* history: the highest commitIndex so far
          lastApplied, \* rf.lastApplied
          batch,       \* the indices ReachToCommit has still to send
          ended        \* the program has stopped on an index out of range

role == <<state, held>>
log == <<last, lastSnap>>
committed == <<commitIndex, known>>
leadership == <<leads, starting, loops, pushers>>
applying == <<applier, batch, lastApplied>>
vars == <<dead, ticker, role, log, leadership, committed, applying, ended>>

-----------------------------------------------------------------------------
(* The condition variable: ReachToCommit is the only one that waits for it. *)

\* Mutant of Signal: the signal is missing.
Signal_Not == UNCHANGED applier

\* rf.cond.Signal(): it wakes who waits now, and is lost on who does not.
Signal == applier' = IF applier = "Waiting" THEN "Testing" ELSE applier

SetCommit(c) ==
    /\ commitIndex' = c
    /\ known' = IF c > known THEN c ELSE known

-----------------------------------------------------------------------------
(* Kill, the ticker and the elections. *)

\* Kill only sets the flag.
Kill ==
    /\ ~dead
    /\ dead' = TRUE
    /\ UNCHANGED <<ticker, role, log, leadership, committed, applying, ended>>

\* The ticker has slept: it ends, or starts an election when it heard nobody.
Tick ==
    /\ ticker = "Sleeping"
    /\ IF dead THEN ticker' = "Ended" /\ UNCHANGED state
               ELSE /\ state # "Leader"
                    /\ ticker' = "Election" /\ state' = "Candidate"
    /\ UNCHANGED <<dead, held, log, leadership, committed, applying, ended>>

\* A majority answers in time, and startLearder is started.
Win ==
    /\ ticker = "Election" /\ state = "Candidate" /\ leads < MaxLeads
    /\ ticker' = "Sleeping" /\ state' = "Leader" /\ held' = 0
    /\ leads' = leads + 1
    /\ starting' = starting \cup {leads + 1}
    /\ UNCHANGED <<dead, log, loops, pushers, committed, applying, ended>>

\* The candidate has become a follower, or was killed: the election is over.
Abandon ==
    /\ ticker = "Election" /\ (state # "Candidate" \/ dead)
    /\ ticker' = "Sleeping"
    /\ UNCHANGED <<dead, role, log, leadership, committed, applying, ended>>

\* A call or a reply of a higher term.
StepDown ==
    /\ state # "Follower"
    /\ state' = "Follower" /\ held' = 0
    /\ UNCHANGED <<dead, ticker, log, leadership, committed, applying, ended>>

-----------------------------------------------------------------------------
(* The goroutines of a leadership. *)

\* startLearder starts a loop for each peer and the one that commits.
StartLeader(k) ==
    /\ k \in starting
    /\ starting' = starting \ {k}
    /\ loops' = loops \cup ({k} \X Peer)
    /\ pushers' = pushers \cup {k}
    /\ UNCHANGED <<dead, ticker, role, log, leads, committed, applying, ended>>

\* Mutant of Stops: only a deposed leader's loops end.
Stops_Deposed == state # "Leader"

\* The test that ends a loop of a leadership.
Stops == state # "Leader" \/ dead

\* A loop of startLearder tests first; the sending is RaftSnapshot's.
LoopEnds(g) ==
    /\ g \in loops
    /\ Stops
    /\ loops' = loops \ {g}
    /\ UNCHANGED <<dead, ticker, role, log, leads, starting, pushers, committed, applying, ended>>

\* Start on a leader.
Start ==
    /\ state = "Leader" /\ last < MaxLog
    /\ last' = last + 1
    /\ UNCHANGED <<dead, ticker, role, lastSnap, leadership, committed, applying, ended>>

\* Success replies: a majority matches an entry of the present term.
Replicated(n) ==
    /\ state = "Leader" /\ n \in held + 1 .. last
    /\ held' = n
    /\ UNCHANGED <<dead, ticker, state, log, leadership, committed, applying, ended>>

\* Mutant of PushStops: the loop ends when there is nothing to commit.
PushStops_Early == last <= commitIndex \/ Stops

\* The test that ends the loop of pushToFollowers: it goes round before it comes to it
\* when there is nothing to commit.
PushStops == last > commitIndex /\ Stops

\* A round of that loop ends it, or commits what a majority holds; others go round.
Push(k) ==
    /\ k \in pushers
    /\ IF PushStops
         THEN pushers' = pushers \ {k} /\ UNCHANGED <<committed, applier>>
         ELSE /\ ~Stops /\ held > commitIndex
              /\ SetCommit(held)
              /\ Signal
              /\ UNCHANGED pushers
    /\ UNCHANGED <<dead, ticker, role, log, leads, starting, loops, batch, lastApplied, ended>>

-----------------------------------------------------------------------------
(* What a follower hears. *)

\* A call of a higher term, or of a candidate's or follower's own, which leaves its state.
Hear == held' = 0 /\ state' \in {"Follower"} \cup ({state} \ {"Leader"})

\* AppendEntries leaves a log that ends at n, with every committed entry, and a commit
\* index of c, which is smaller after a call with a higher LeaderCommit and few entries.
HearEntries(n, c) ==
    /\ Hear
    /\ n >= c /\ c >= lastSnap /\ n >= known
    /\ last' = n /\ SetCommit(c)
    /\ Signal \/ (c = commitIndex /\ UNCHANGED applier)
    /\ UNCHANGED <<dead, ticker, lastSnap, leadership, batch, lastApplied, ended>>

\* Where the log may end behind a snapshot: it is kept if it has the snapshot's last entry.
Behind(s) == IF s <= known THEN {last} ELSE IF s < last THEN {s, last} ELSE {s}

\* InstallSnapshot moves both indices and signals nobody.
HearSnapshot(s) ==
    /\ Hear
    /\ s > lastSnap
    /\ lastSnap' = s
    /\ last' \in Behind(s)
    /\ IF commitIndex < s THEN SetCommit(s) /\ lastApplied' = s
                          ELSE UNCHANGED <<committed, lastApplied>>
    /\ UNCHANGED <<dead, ticker, leadership, applier, batch, ended>>

\* The service has applied up to s and calls Snapshot.
Snapshot(s) ==
    /\ s \in lastSnap + 1 .. lastApplied
    /\ lastSnap' = s
    /\ UNCHANGED <<dead, ticker, role, last, leadership, committed, applying, ended>>

-----------------------------------------------------------------------------
(* ReachToCommit. *)

\* Under the lock: it waits, or ends, or takes what there is to apply.
Test ==
    /\ applier = "Testing"
    /\ IF dead
         THEN applier' = "Ended" /\ UNCHANGED <<batch, ended>>
       ELSE IF lastApplied >= commitIndex
         THEN applier' = "Waiting" /\ UNCHANGED <<batch, ended>>
       ELSE IF lastApplied + 1 < lastSnap
         THEN ended' = TRUE /\ UNCHANGED <<applier, batch>>
         ELSE /\ applier' = "Sending"
              /\ batch' = lastApplied + 1 .. commitIndex
              /\ UNCHANGED ended
    /\ UNCHANGED <<dead, ticker, role, log, leadership, committed, lastApplied>>

\* A message is sent on applyCh, and the lock taken again for lastApplied.
Apply ==
    /\ applier = "Sending"
    /\ \E n \in batch :
          /\ \A k \in batch : n <= k
          /\ lastApplied' = n
          /\ batch' = batch \ {n}
    /\ applier' = IF batch' = {} THEN "Testing" ELSE applier
    /\ UNCHANGED <<dead, ticker, role, log, leadership, committed, ended>>

-----------------------------------------------------------------------------
Init ==
    /\ dead = FALSE /\ state = "Follower" /\ ticker = "Sleeping"
    /\ leads = 0 /\ starting = {} /\ loops = {} /\ pushers = {}
    /\ applier = "Testing" /\ batch = {} /\ lastApplied = 0
    /\ last = 0 /\ held = 0 /\ lastSnap = 0 /\ commitIndex = 0 /\ known = 0
    /\ ended = FALSE

Goroutine ==
    \/ Tick \/ Win \/ Abandon \/ Test \/ Apply
    \/ \E k \in 1..MaxLeads : StartLeader(k) \/ Push(k)
    \/ \E g \in loops : LoopEnds(g)

Outside ==
    \/ Kill \/ StepDown \/ Start
    \/ \E n \in 1..MaxLog : Replicated(n) \/ HearSnapshot(n) \/ Snapshot(n)
    \/ \E n, c \in 0..MaxLog : HearEntries(n, c)

Next == ~ended /\ (Goroutine \/ Outside)

Spec == Init /\ [][Next]_vars

\* The goroutines are scheduled, an election ends at its timeout, and the service
\* takes what is sent on applyCh.  Calls and replies may come or not.
Fairness ==
    /\ WF_vars(~ended /\ dead /\ Tick) /\ WF_vars(~ended /\ Abandon)
    /\ WF_vars(~ended /\ Test) /\ WF_vars(~ended /\ Apply)
    /\ \A k \in 1..MaxLeads : WF_vars(~ended /\ StartLeader(k)) /\ WF_vars(~ended /\ Push(k))
    /\ \A g \in (1..MaxLeads) \X Peer : WF_vars(~ended /\ LoopEnds(g))

FairSpec == Spec /\ Fairness

-----------------------------------------------------------------------------
(* Properties. *)

Over == dead \/ ended

\* ReachToCommit catches up: no commit index that is raised while it tests, sends or
\* waits is left unapplied for want of a signal.
CatchesUp == lastApplied < commitIndex ~> (lastApplied >= commitIndex \/ Over)

\* As long as it leads, a leader commits what a majority holds: one of its loops is
\* there to find it, however often it had nothing to do.
LeaderCommits ==
    (state = "Leader" /\ commitIndex < held) ~> (commitIndex >= held \/ state # "Leader" \/ Over)

\* After Kill the loops for the peers and the ticker end, as the comment at Kill asks of
\* any goroutine with a long-running loop.
LoopsEnd == dead ~> (ended \/ (loops = {} /\ ticker = "Ended"))

=============================================================================
