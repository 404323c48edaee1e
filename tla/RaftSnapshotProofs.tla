------------------------- MODULE RaftSnapshotProofs -------------------------
(***************************************************************************)
(* Proofs about RaftSnapshot, for any number of servers and every bound.   *)
(*                                                                         *)
(* The trail of a server is the sequence of the terms of every command it  *)
(* has, in its snapshot or in its log.  Cutting the log, installing a      *)
(* snapshot and restarting are seen through it: the first and the last     *)
(* leave it alone, an installed snapshot is a request with a log that is   *)
(* all committed.  What holds of the logs of RaftLog is then proved of the *)
(* trails, and what RaftSnapshot promises follows from it.                 *)
(***************************************************************************)
EXTENDS RaftSnapshot, FiniteSetTheorems, SequenceTheorems, TLAPS

Quorums == {Q \in SUBSET Server : Cardinality(Q) >= Majority}
Requests == {m \in msgs : m.type \in {"AppendEntries", "InstallSnapshot"}}
Answers == {m \in msgs : m.type = "AppendReply"}

At(l, k) == IF k = 0 THEN 0 ELSE l[k]
TopTerm(l) == At(l, Len(l))
Recent(l, k) == TopTerm(l) > TopTerm(k) \/ (TopTerm(l) = TopTerm(k) /\ Len(l) >= Len(k))

\* The terms of commands s, and of the commands s with the entries of log l behind them.
Terms(s) == [k \in 1..Len(s) |-> s[k][1]]
Whole(s, l) ==
    [k \in 1..Len(s) + Len(l) - 1 |-> IF k <= Len(s) THEN s[k][1] ELSE l[k - Len(s) + 1].term]
Trail == [i \in Server |-> Whole(snapshot[i], log[i])]

\* What a request was cut from, and how much of it its leader knows to be committed.
Full(m) == Terms(IF m.type = "AppendEntries" THEN m.full ELSE m.data)
CommitOf(m) == IF m.type = "AppendEntries" THEN m.commit ELSE Len(m.data)

Same(l, k, n) == n <= Len(l) /\ n <= Len(k) /\ \A x \in 1..n : l[x] = k[x]
Starts(l, k) == Same(l, k, Len(l))

\* All that the servers' trails, and those that requests were cut from, begin with.
Logs == {l \in Seq(Nat) : \/ \E i \in Server : Starts(l, Trail[i])
                          \/ \E m \in Requests : Starts(l, Full(m))}

\* Server i has won term t, or at least nobody else can.
Won(i, t) ==
    /\ t <= term[i]
    /\ \E Q \in Quorums : \A j \in Q : t < term[j] \/ (t = term[j] /\ votedFor[j] = i)

Leads(i) == state[i] = "Leader"

-----------------------------------------------------------------------------
(* What a server stores, and what it sends. *)

\* Commands are the terms and the indices that Start returned for them.
Numbered(s) == \A k \in 1..Len(s) : s[k] = <<s[k][1], k>>

\* A log goes on where its snapshot ends; what has become its dummy may still be a command.
Formed(s, l) ==
    /\ Numbered(s)
    /\ Len(l) >= 1 /\ l[1].term = At(Terms(s), Len(s))
    /\ l[1].cmd = <<>> \/ l[1].cmd = <<l[1].term, Len(s)>>
    /\ \A p \in 2..Len(l) : l[p].cmd = <<l[p].term, Len(s) + p - 1>>

\* A log as readPersist restores it.
Wiped(l) == [l EXCEPT ![1].cmd = <<>>]

\* The entries es are what follows prev in the commands c.
Behind(es, c, prev) ==
    /\ Len(es) = Len(c) - prev
    /\ \A k \in 1..Len(es) : es[k] = [term |-> c[prev + k][1], cmd |-> c[prev + k]]

\* A request has what follows prev in the commands it was cut from.
CallFits(m) ==
    /\ m.src # m.dest /\ Numbered(m.full)
    /\ m.prev \in 0..Len(m.full) /\ m.prevTerm = At(Terms(m.full), m.prev)
    /\ Behind(m.entries, m.full, m.prev)
    /\ m.next = Len(m.full) + 1

SnapshotFits(m) ==
    /\ m.src # m.dest /\ Numbered(m.data)
    /\ m.lastIncludedTerm = At(Terms(m.data), Len(m.data))

\* The hints of a refusal are indices.
AnswerFits(m) ==
    /\ m.next >= 1
    /\ m.xlen # -1 => m.xlen >= 0
    /\ m.xterm # -1 => m.xindex >= 0

AppendAnswers ==
    [type : {"AppendReply"}, src : Server, dest : Server, term : Nat, success : BOOLEAN,
     xlen : Int, xterm : Int, xindex : Int, next : Nat]
InstallAnswers == [type : {"InstallReply"}, src : Server, dest : Server, term : Nat]

OnWire(m) ==
    \/ m \in AppendCalls /\ CallFits(m)
    \/ m \in SnapshotCalls /\ SnapshotFits(m)
    \/ m \in AppendAnswers /\ AnswerFits(m)
    \/ m \in InstallAnswers

\* The types, a group of variables at a time, with what a server's log and its messages look
\* like.
Elects ==
    /\ term \in [Server -> Nat]
    /\ votedFor \in [Server -> Server \cup {NoOne}]
    /\ state \in [Server -> {"Follower", "Candidate", "Leader"}]
Stores ==
    /\ log \in [Server -> Seq(Entry)]
    /\ lastSnap \in [Server -> Nat]
    /\ snapshot \in [Server -> Seq(Command)]
    /\ \A i \in Server : Len(snapshot[i]) = lastSnap[i] /\ Formed(snapshot[i], log[i])
Counts ==
    /\ starting \in [Server -> BOOLEAN] /\ leads \in [Server -> Nat]
    /\ nextIndex \in [Server -> [Server -> Nat]] /\ matchIndex \in [Server -> [Server -> Nat]]
Applies ==
    /\ commitIndex \in [Server -> Nat] /\ lastApplied \in [Server -> Nat]
    /\ batch \in [Server -> [start : Nat, commands : Seq(Command), sent : BOOLEAN]]
Serves ==
    /\ offers \in [Server -> SUBSET Seq(Command)]
    /\ logs \in [Server -> Seq(Command)] /\ owing \in [Server -> BOOLEAN]
Wires ==
    /\ \A g \in senders : /\ g \in Server \X Server \X {"AppendEntries", "InstallSnapshot"}
                          /\ g[1] # g[2]
    /\ \A m \in msgs : OnWire(m)
Ends == {"", "index out of range", "out of order", "disagreement"}
Remains ==
    /\ boot \in [Server -> Nat]
    /\ chosen \in Seq(Command) /\ bound \in Bounds
    /\ ended \in Ends

\* What a crash leaves a server is what it has.
Disks == [term : Nat, votedFor : Server \cup {NoOne}, log : Seq(Entry), lastSnap : Nat,
          snapshot : Seq(Command)]
Durable ==
    /\ saved \in [Server -> Disks]
    /\ \A i \in Server :
          /\ saved[i].term = term[i] /\ saved[i].votedFor = votedFor[i]
          /\ saved[i].lastSnap = lastSnap[i] /\ saved[i].snapshot = snapshot[i]
          /\ log[i] = saved[i].log \/ log[i] = Wiped(saved[i].log)

Sound ==
    Elects /\ Stores /\ Counts /\ Applies /\ Serves /\ Wires /\ Remains /\ Durable

-----------------------------------------------------------------------------
(* The invariant of elections and trails. *)

RequestType(m) ==
    /\ m.src \in Server /\ m.dest \in Server /\ m.boot \in Nat /\ m.term \in Nat
    /\ Full(m) \in Seq(Nat) /\ CommitOf(m) \in Nat

AnswerType(m) ==
    /\ m.src \in Server /\ m.dest \in Server /\ m.success \in BOOLEAN /\ m.next \in Nat

Types ==
    /\ term \in [Server -> Nat]
    /\ votedFor \in [Server -> Server \cup {NoOne}]
    /\ state \in [Server -> {"Follower", "Candidate", "Leader"}]
    /\ Trail \in [Server -> Seq(Nat)]
    /\ lastSnap \in [Server -> Nat]
    /\ commitIndex \in [Server -> Nat]
    /\ matchIndex \in [Server -> [Server -> Nat]]
    /\ boot \in [Server -> Nat]
    /\ leads \in [Server -> Nat]
    /\ bound \in Bounds
    /\ \A m \in Requests : RequestType(m)
    /\ \A m \in Answers : AnswerType(m)

LeadersFit ==
    /\ \A i \in Server : Leads(i) => Won(i, term[i]) /\ term[i] > 0
    /\ \A i, j \in Server : Leads(i) /\ Leads(j) /\ term[i] = term[j] => i = j

\* Entries are of terms that were won, in order, and one entry's log is the log of all that
\* are behind it.
Agree(l, k) ==
    \A x \in 1..Len(l), y \in 1..Len(k) : x <= y /\ l[x] = k[y] => Same(l, k, x)

LogsFit ==
    /\ \A l \in Logs : \A x \in 1..Len(l) : l[x] > 0 /\ \E i \in Server : Won(i, l[x])
    /\ \A l \in Logs : \A x, y \in 1..Len(l) : x <= y => l[x] <= l[y]
    /\ \A l, k \in Logs : Agree(l, k)
    /\ \A i \in Server : \A x \in 1..Len(Trail[i]) : Trail[i][x] <= term[i]

\* A leader's log has every entry of its term.
LeaderHasAll ==
    \A i \in Server : Leads(i) =>
        \A l \in Logs : \A x \in 1..Len(l) : l[x] = term[i] => Same(l, Trail[i], x)

\* A request is cut from what its term's leader has, all of it or the beginning.
RequestFits(m) ==
    /\ m.src # m.dest
    /\ \A x \in 1..Len(Full(m)) : Full(m)[x] <= m.term
    /\ m.term > 0 /\ Won(m.src, m.term)
    /\ \A l \in Logs : \A x \in 1..Len(l) :
          l[x] = m.term => Same(l, Full(m), Lesser(x, Len(Full(m))))
    /\ \A i \in Server : Leads(i) /\ term[i] = m.term => i = m.src /\ Starts(Full(m), Trail[i])

LogInv ==
    /\ Types /\ LeadersFit /\ LogsFit /\ LeaderHasAll
    /\ \A m \in Requests : RequestFits(m)

-----------------------------------------------------------------------------
(* The invariant of commitment. *)

LeadsOnce == \A x \in Bounds : x.leads <= 1

\* What leader i counts on that server j holds beyond the leader's own snapshot.
Known(i, j) == IF j # i /\ matchIndex[i][j] > lastSnap[i] THEN matchIndex[i][j] ELSE 0

\* An incarnation leads once, and its calls are of that leadership.
LeadershipFits ==
    /\ \A i \in Server : /\ leads[i] <= 1
                         /\ Leads(i) => leads[i] = 1
                         /\ \A j \in Server : Known(i, j) > 0 => leads[i] = 1
    /\ \A m \in Requests :
          /\ m.boot <= boot[m.src]
          /\ m.boot = boot[m.src] =>
                leads[m.src] = 1 /\ (Leads(m.src) => m.term = term[m.src])
    /\ \A m \in Answers : leads[m.dest] = 1

\* Server j has told i that it holds the first n entries, or is about to.
Ack(i, j, n) ==
    \/ n <= Known(i, j)
    \/ \E m \in Answers : m.dest = i /\ m.src = j /\ m.success /\ n < m.next

\* What a leader is told is true as long as the other has not gone on to a later term.
AcksFit ==
    \A i, j \in Server : \A n \in Nat \ {0} :
        Leads(i) /\ Ack(i, j, n) =>
            /\ i # j /\ n <= Len(Trail[i]) /\ term[i] <= term[j]
            /\ term[i] = term[j] => Same(Trail[j], Trail[i], n)

\* Everything of a later term than t begins with p; a snapshot may be shorter.
Spread(p, t) ==
    /\ \A l \in Logs : (\E x \in 1..Len(l) : t < l[x]) => Starts(p, l)
    /\ \A i \in Server : Leads(i) /\ t < term[i] => Starts(p, Trail[i])
    /\ \A m \in Requests : t < m.term => Starts(p, Full(m)) \/ Starts(Full(m), p)

Holds(S, p, t) == \A j \in S : t <= term[j] /\ Starts(p, Trail[j])

\* Servers in Q, a majority, will never hold the first n entries of leader i.
Lost(i, n) ==
    \E Q \in Quorums : \A j \in Q : j # i /\ term[i] < term[j] /\ ~Ack(i, j, n)

Told(i, n) == {i} \cup {j \in Server : Ack(i, j, n)}
Upto(l, n) == SubSeq(l, 1, n)

\* Either an entry of a leader can no longer be committed, or whoever holds it keeps it and
\* later leaders have it.
FateFits ==
    \A i \in Server : Leads(i) =>
        \A n \in 1..Len(Trail[i]) : Trail[i][n] = term[i] =>
            \/ Lost(i, n)
            \/ /\ Spread(Upto(Trail[i], n), term[i])
               /\ Holds(Told(i, n), Upto(Trail[i], n), term[i])

\* What a trail may begin with.
Prefixes == UNION {{Upto(Trail[j], n) : n \in 1..Len(Trail[j])} : j \in Server}

\* A majority holds p and keeps it, and every later leader has it: p is committed.
Chosen(p) ==
    /\ Spread(p, p[Len(p)])
    /\ \E Q \in Quorums : Holds(Q, p, p[Len(p)])

\* The first c entries of l are committed, by term t.
Committed(l, c, t) ==
    c > 0 => \E p \in Prefixes : Chosen(p) /\ p[Len(p)] <= t /\ Same(l, p, c)

CommitFits ==
    /\ \A i \in Server : Committed(Trail[i], commitIndex[i], term[i])
    /\ \A m \in Requests : Committed(Full(m), CommitOf(m), m.term)

-----------------------------------------------------------------------------
(* The invariant of the services. *)

\* The commands that leaders have found committed are.
ChosenFits ==
    /\ Numbered(chosen)
    /\ \E t \in Nat : Committed(Terms(chosen), Len(chosen), t)
    /\ \A i \in Server : lastSnap[i] <= commitIndex[i] /\ commitIndex[i] <= Len(chosen)
    /\ \A m \in Requests : CommitOf(m) <= Len(chosen)

\* A command on its way to a service is the one that was chosen, or a dummy's.
BatchFits(i) ==
    batch[i] # Idle =>
        /\ batch[i].start >= 1 /\ Len(batch[i].commands) >= 1
        /\ batch[i].start + Len(batch[i].commands) - 1 <= commitIndex[i]
        /\ \A k \in 1..Len(batch[i].commands) :
              batch[i].commands[k] \in {<<>>, chosen[batch[i].start + k - 1]}

\* Services hold, and are offered, what their servers take for committed.
ServiceFits ==
    \A i \in Server :
        /\ IsPrefixOf(logs[i], chosen) /\ Len(logs[i]) <= commitIndex[i]
        /\ \A s \in offers[i] : IsPrefixOf(s, chosen) /\ Len(s) <= commitIndex[i]
        /\ BatchFits(i)

SafeInv ==
    /\ Sound /\ LogInv /\ LeadershipFits /\ AcksFit /\ FateFits /\ CommitFits
    /\ ChosenFits /\ ServiceFits

\* A sender goroutine comes to the lock while its server still leads: a server that leads no
\* more would build its request with a term that it has not won.
SendersLead == \A g \in senders : Leads(g[1])

\* No service hears the Cmd "" of a dummy entry.
DummyUnheard == \A i \in Server : \A k \in 1..Len(logs[i]) : logs[i][k] # <<>>

-----------------------------------------------------------------------------
(* Logs. *)

LEMMA SameFacts ==
    ASSUME NEW l \in Seq(Nat), NEW k \in Seq(Nat), NEW n \in Nat
    PROVE  /\ Same(l, k, n) => Same(k, l, n)
           /\ \A x \in Nat : x <= n /\ Same(l, k, n) => Same(l, k, x)
           /\ \A h \in Seq(Nat) : Same(l, k, n) /\ Same(k, h, n) => Same(l, h, n)
           /\ n <= Len(l) => Same(l, l, n)
<1>1. Len(l) \in Nat /\ Len(k) \in Nat
  OBVIOUS
<1>2. ASSUME NEW x \in Nat, x <= n, Same(l, k, n)
      PROVE  Same(l, k, x)
  BY <1>1, <1>2 DEF Same
<1>3. ASSUME NEW h \in Seq(Nat), Same(l, k, n), Same(k, h, n)
      PROVE  Same(l, h, n)
  BY <1>3 DEF Same
<1> QED BY <1>1, <1>2, <1>3 DEF Same

\* The first n entries of a log.
LEMMA UptoFacts ==
    ASSUME NEW l \in Seq(Nat), NEW n \in Nat, n <= Len(l)
    PROVE  /\ Upto(l, n) \in Seq(Nat)
           /\ Len(Upto(l, n)) = n
           /\ \A x \in 1..n : Upto(l, n)[x] = l[x]
<1>1. \A x \in 1..n : l[x] \in Nat
  BY ElementOfSeq
<1>2. /\ SubSeq(l, 1, n) \in Seq(Nat)
      /\ Len(SubSeq(l, 1, n)) = IF 1 <= n THEN n - 1 + 1 ELSE 0
      /\ \A x \in 1..n - 1 + 1 : SubSeq(l, 1, n)[x] = l[1 + x - 1]
  BY SMTT(40), <1>1, SubSeqProperties, 1 \in Int, n \in Int
<1> QED BY <1>2 DEF Upto

\* The entries of a log from n on.
LEMMA FromFacts ==
    ASSUME NEW l \in Seq(Nat), NEW n \in Nat, n <= Len(l)
    PROVE  /\ SubSeq(l, n + 1, Len(l)) \in Seq(Nat)
           /\ Len(SubSeq(l, n + 1, Len(l))) = Len(l) - n
           /\ \A x \in 1..Len(l) - n : SubSeq(l, n + 1, Len(l))[x] = l[n + x]
<1>0. Len(l) \in Nat
  OBVIOUS
<1>1. \A x \in n + 1..Len(l) : l[x] \in Nat
  BY <1>0, ElementOfSeq
<1>2. /\ SubSeq(l, n + 1, Len(l)) \in Seq(Nat)
      /\ Len(SubSeq(l, n + 1, Len(l))) = IF n + 1 <= Len(l) THEN Len(l) - (n + 1) + 1 ELSE 0
      /\ \A x \in 1..Len(l) - (n + 1) + 1 :
            SubSeq(l, n + 1, Len(l))[x] = l[n + 1 + x - 1]
  BY SMTT(40), <1>0, <1>1, SubSeqProperties, n + 1 \in Int, Len(l) \in Int
<1> QED BY <1>0, <1>2

\* A log and one entry more.
LEMMA AppendFacts ==
    ASSUME NEW l \in Seq(Nat), NEW e \in Nat
    PROVE  /\ Append(l, e) \in Seq(Nat)
           /\ Len(Append(l, e)) = Len(l) + 1
           /\ Append(l, e)[Len(l) + 1] = e
           /\ Same(l, Append(l, e), Len(l))
<1>1. /\ Append(l, e) \in Seq(Nat) /\ Len(Append(l, e)) = Len(l) + 1
      /\ Append(l, e)[Len(l) + 1] = e
      /\ \A x \in 1..Len(l) : Append(l, e)[x] = l[x]
  BY AppendProperties
<1> QED BY <1>1 DEF Same

\* A nonempty set of indices has a lowest one.
LEMMA Lowest ==
    ASSUME NEW T \in SUBSET Nat, T # {}
    PROVE  \E x \in T : \A y \in T : x <= y
<1> DEFINE Below(y) == {z \in T : z < y}
           All == {Below(y) : y \in T}
<1>1. \A y \in T : Below(y) \in FiniteSubsetsOf(Nat)
  <2> TAKE y \in T
  <2>1. y \in Nat /\ \A z \in Below(y) : z \in Nat /\ z < y
    OBVIOUS
  <2> HIDE DEF Below
  <2>2. 0 \in Int /\ y \in Int /\ Below(y) \in SUBSET (0..y)
    BY <2>1
  <2>3. IsFiniteSet(0..y)
    BY <2>2, FS_Interval, Zenon
  <2>4. IsFiniteSet(Below(y))
    BY <2>2, <2>3, FS_Subset, Zenon
  <2> QED BY <2>1, <2>4, Zenon DEF FiniteSubsetsOf
<1>2. All \subseteq FiniteSubsetsOf(Nat) /\ All # {}
  BY <1>1
<1>3. PICK A \in All : \A B \in All : ~(<<B, A>> \in StrictSubsetOrdering(Nat))
  BY <1>2, FS_StrictSubsetOrderingWellFounded, WFMin, Zenon
<1>4. PICK x \in T : A = Below(x)
  BY <1>3
<1>5. ASSUME NEW y \in T, y < x PROVE FALSE
  <2>1. x \in Nat /\ y \in Nat /\ \A z \in T : z \in Nat
    OBVIOUS
  <2>2. \A z \in T : z < y => z < x
    BY <1>5, <2>1
  <2>3. Below(y) \subseteq Below(x) /\ y \in Below(x) /\ (y \in Below(y) => y < y)
    BY <1>5, <2>2, Zenon
  <2>4. y \notin Below(y)
    BY <2>1, <2>3
  <2>5. Below(y) \in All /\ Below(y) \in SUBSET Nat /\ Below(x) \in SUBSET Nat
    OBVIOUS
  <2> HIDE DEF Below, All
  <2>6. <<Below(y), Below(x)>> \in StrictSubsetOrdering(Nat)
    BY <2>3, <2>4, <2>5 DEF StrictSubsetOrdering
  <2> QED BY <2>5, <2>6, <1>3, <1>4
<1>6. \A y \in T : x <= y
  BY <1>5
<1> QED BY <1>6

-----------------------------------------------------------------------------
(* Kinds of steps. *)

\* Terms go up, and within a term a vote is final.
TermsGrow ==
    \A j \in Server : /\ term[j] <= term'[j]
                      /\ term[j] = term'[j] => votedFor[j] = NoOne \/ votedFor'[j] = votedFor[j]

\* Of the servers of S, those that lead after the step did so before it.
LeadersKept(S) ==
    \A i \in S : Leads(i)' => Leads(i) /\ term'[i] = term[i] /\ Trail'[i] = Trail[i]

\* Server j keeps its log or takes that of a request.
Takes(j) ==
    \/ Trail'[j] = Trail[j]
    \/ \E m \in Requests : /\ m.dest = j /\ term[j] <= m.term /\ term'[j] = m.term
                           /\ ~Starts(Full(m), Trail[j]) /\ Trail'[j] = Full(m)

Follows ==
    /\ TermsGrow /\ LeadersKept(Server)
    /\ \A j \in Server : Takes(j)
    /\ Requests' \subseteq Requests

\* Leader i sends r, which is cut from the beginning of its trail.
Sends(i, r) ==
    /\ Leads(i) /\ r.src = i /\ r.dest # i /\ r.term = term[i] /\ r.boot = boot[i]
    /\ Starts(Full(r), Trail[i]) /\ CommitOf(r) <= commitIndex[i] /\ CommitOf(r) <= Len(Full(r))
    /\ UNCHANGED <<term, votedFor, Trail, state>>
    /\ Requests' = Requests \cup {r}

Writes(i) ==
    /\ Leads(i)
    /\ Trail' = [Trail EXCEPT ![i] = Append(Trail[i], term[i])]
    /\ UNCHANGED <<term, votedFor, state>>
    /\ Requests' = Requests

\* The servers of V vote for i, in the term after its own.
Votes(i, V) ==
    \A j \in V : /\ \/ term[j] < term[i] + 1
                    \/ term[j] = term[i] + 1 /\ votedFor[j] \in {NoOne, i}
                 /\ term'[j] = term[i] + 1 /\ votedFor'[j] = i
                 /\ Recent(Trail[i], Trail[j])

Wins(i) ==
    /\ TermsGrow /\ LeadersKept(Server \ {i}) /\ term'[i] = term[i] + 1 /\ ~Leads(i)
    /\ UNCHANGED Trail
    /\ Requests' = Requests
    /\ \E V \in Quorums : i \in V /\ Votes(i, V)

\* Two majorities of one cluster share a server.
LEMMA QuorumsMeet ==
    ASSUME NEW P \in Quorums, NEW Q \in Quorums
    PROVE  \E j \in Server : j \in P /\ j \in Q
<1>1. /\ P \in SUBSET Server /\ Q \in SUBSET Server
      /\ Cardinality(P) >= Majority /\ Cardinality(Q) >= Majority
  BY DEF Quorums
<1>2. /\ Cardinality(Server) \in Nat
      /\ Cardinality(P) \in Nat /\ Cardinality(Q) \in Nat
  BY <1>1, ServerAssumption, FS_Subset, FS_CardinalityType
<1>3. Cardinality(P) + Cardinality(Q) > Cardinality(Server)
  BY <1>1, <1>2 DEF Majority
<1>4. P \cap Q # {}
  BY <1>1, <1>3, ServerAssumption, FS_MajoritiesIntersect
<1> QED BY <1>1, <1>4

\* Whoever has won a term has won it for good.
LEMMA WonStays ==
    ASSUME Types, Types', TermsGrow, NEW i \in Server, NEW t \in Nat, Won(i, t)
    PROVE  Won(i, t)'
<1>1. PICK Q \in Quorums : \A j \in Q : t < term[j] \/ (t = term[j] /\ votedFor[j] = i)
  BY DEF Won
<1>2. Q \in SUBSET Server
  BY DEF Quorums
<1>3. i # NoOne
  BY ServerAssumption
<1>4. ASSUME NEW j \in Q
      PROVE  t < term'[j] \/ (t = term'[j] /\ votedFor'[j] = i)
  <2>1. term[j] \in Nat /\ term'[j] \in Nat /\ term[j] <= term'[j]
    BY <1>2 DEF Types, TermsGrow
  <2>2. term[j] = term'[j] => votedFor[j] = NoOne \/ votedFor'[j] = votedFor[j]
    BY <1>2 DEF TermsGrow
  <2> QED BY <1>1, <1>3, <2>1, <2>2
<1>5. t <= term'[i]
  <2>1. t <= term[i] /\ term[i] <= term'[i] /\ term[i] \in Nat /\ term'[i] \in Nat
    BY DEF Won, Types, TermsGrow
  <2> QED BY <2>1
<1> QED BY <1>4, <1>5 DEF Won, Quorums

\* Nobody has won the term that a server is elected in.
LEMMA NobodyWon ==
    ASSUME Types, NEW i \in Server, Wins(i), NEW k \in Server
    PROVE  ~Won(k, term[i] + 1)
<1> SUFFICES ASSUME Won(k, term[i] + 1) PROVE FALSE
  OBVIOUS
<1>1. PICK Q \in Quorums : \A j \in Q : \/ term[i] + 1 < term[j]
                                        \/ term[i] + 1 = term[j] /\ votedFor[j] = k
  BY DEF Won
<1>2. PICK V \in Quorums : i \in V /\ Votes(i, V)
  BY DEF Wins
<1>3. PICK j \in Server : j \in Q /\ j \in V
  BY QuorumsMeet
<1>4. term[i] \in Nat /\ term[j] \in Nat /\ term[k] \in Nat
  BY DEF Types
<1>5. term[j] = term[i] + 1 /\ votedFor[j] = k /\ votedFor[j] \in {NoOne, i}
  BY <1>1, <1>2, <1>3, <1>4 DEF Votes
<1>6. k = i
  BY <1>5, ServerAssumption
<1>7. term[i] + 1 <= term[k]
  BY DEF Won
<1> QED BY <1>4, <1>6, <1>7

\* What every step does: the types hold, and the step is of one of four kinds.
StepFits ==
    /\ Types'
    /\ \/ Follows
       \/ \E i \in Server : Writes(i) \/ Wins(i) \/ \E r \in Requests' : Sends(i, r)

\* Steps that leave terms, votes and logs alone.
LEMMA QuietFollows ==
    ASSUME Types, UNCHANGED <<term, votedFor, Trail, state>>, Requests' \subseteq Requests
    PROVE  Follows
<1>1. TermsGrow
  BY DEF TermsGrow, Types
<1>2. LeadersKept(Server) /\ \A j \in Server : Takes(j)
  BY DEF LeadersKept, Takes, Leads
<1> QED BY <1>1, <1>2 DEF Follows

\* The steps of one server, which then follows.
LEMMA DemotedFollows ==
    ASSUME Types, Types', NEW j \in Server,
           \A k \in Server \ {j} : /\ term'[k] = term[k] /\ votedFor'[k] = votedFor[k]
                                   /\ Trail'[k] = Trail[k] /\ state'[k] = state[k],
           state'[j] # "Leader",
           term[j] < term'[j] \/ (term[j] = term'[j] /\ votedFor'[j] = votedFor[j]),
           Takes(j), Requests' \subseteq Requests
    PROVE  Follows
<1>1. TermsGrow
  <2>1. term[j] \in Nat /\ term'[j] \in Nat
    BY DEF Types
  <2>2. \A k \in Server : term[k] \in Nat
    BY DEF Types
  <2>3. /\ term[j] <= term'[j]
        /\ term[j] = term'[j] => votedFor'[j] = votedFor[j]
    BY <2>1
  <2>4. \A k \in Server \ {j} : term[k] <= term'[k] /\ votedFor'[k] = votedFor[k]
    BY <2>2
  <2> QED BY <2>3, <2>4 DEF TermsGrow
<1>2. LeadersKept(Server)
  BY DEF LeadersKept, Leads
<1>3. \A k \in Server : Takes(k)
  BY DEF Takes
<1> QED BY <1>1, <1>2, <1>3 DEF Follows

-----------------------------------------------------------------------------
(* Elections and trails. *)

\* A log begins with itself, and with what its beginnings begin with.
LEMMA StartsWith ==
    ASSUME NEW l \in Seq(Nat)
    PROVE  /\ Starts(l, l)
           /\ \A k, h \in Seq(Nat) : Starts(h, k) /\ Starts(k, l) => Starts(h, l)
BY DEF Starts, Same

\* What a log and one more entry begins with.
LEMMA StartsAppend ==
    ASSUME NEW l \in Seq(Nat), NEW e \in Nat, NEW k \in Seq(Nat)
    PROVE  Starts(k, Append(l, e)) <=> Starts(k, l) \/ k = Append(l, e)
<1>1. PICK h \in Seq(Nat) : h = Append(l, e)
  BY AppendFacts
<1>2. /\ Len(l) \in Nat /\ Len(k) \in Nat /\ Len(h) = Len(l) + 1
      /\ \A x \in 1..Len(l) : h[x] = l[x]
  BY <1>1, AppendFacts DEF Same
<1>3. ASSUME Starts(k, l) PROVE Starts(k, h)
  <2>1. Len(k) <= Len(l) /\ \A x \in 1..Len(k) : k[x] = l[x]
    BY <1>3 DEF Starts, Same
  <2>2. \A x \in 1..Len(k) : x \in 1..Len(l)
    BY <1>2, <2>1
  <2>3. \A x \in 1..Len(k) : k[x] = h[x]
    BY <1>2, <2>1, <2>2
  <2> QED BY <1>2, <2>1, <2>3 DEF Starts, Same
<1>4. Starts(h, h)
  BY StartsWith
<1>5. ASSUME Starts(k, h), Len(k) <= Len(l) PROVE Starts(k, l)
  <2>1. \A x \in 1..Len(k) : k[x] = h[x]
    BY <1>5 DEF Starts, Same
  <2>2. \A x \in 1..Len(k) : x \in 1..Len(l)
    BY <1>2, <1>5
  <2>3. \A x \in 1..Len(k) : k[x] = l[x]
    BY <1>2, <2>1, <2>2
  <2> QED BY <1>2, <1>5, <2>3 DEF Starts, Same
<1>6. ASSUME Starts(k, h), ~(Len(k) <= Len(l)) PROVE k = h
  <2>1. Len(k) = Len(h) /\ \A x \in 1..Len(k) : k[x] = h[x]
    BY <1>2, <1>6 DEF Starts, Same
  <2> QED BY <2>1, SeqEqual
<1> QED BY <1>1, <1>3, <1>4, <1>5, <1>6

\* Logs are sequences of terms.
LEMMA LogTypes ==
    ASSUME Types
    PROVE  /\ Logs \subseteq Seq(Nat)
           /\ \A i \in Server : /\ Trail[i] \in Logs /\ Trail[i] \in Seq(Nat)
                                /\ Len(Trail[i]) \in Nat
           /\ \A m \in Requests : Full(m) \in Logs
<1>1. ASSUME NEW i \in Server
      PROVE  Trail[i] \in Logs /\ Trail[i] \in Seq(Nat) /\ Len(Trail[i]) \in Nat
  <2>1. Trail[i] \in Seq(Nat)
    BY DEF Types
  <2> QED BY <2>1, StartsWith DEF Logs
<1>2. ASSUME NEW m \in Requests
      PROVE  Full(m) \in Logs
  <2>1. Full(m) \in Seq(Nat)
    BY DEF Types, RequestType
  <2> QED BY <2>1, StartsWith DEF Logs
<1> QED BY <1>1, <1>2 DEF Logs

\* The fields of the messages.
LEMMA RequestTypes ==
    ASSUME Types, NEW m \in Requests
    PROVE  /\ m.src \in Server /\ m.dest \in Server /\ m.boot \in Nat /\ m.term \in Nat
           /\ Full(m) \in Seq(Nat) /\ Len(Full(m)) \in Nat /\ CommitOf(m) \in Nat
BY DEF Types, RequestType

LEMMA AnswerTypes ==
    ASSUME Types, NEW m \in Answers
    PROVE  m.src \in Server /\ m.dest \in Server /\ m.success \in BOOLEAN /\ m.next \in Nat
BY DEF Types, AnswerType

\* Unless a command is written, every log was there before.
LEMMA SameLogs ==
    ASSUME Types, Types',
           \/ Follows
           \/ \E i \in Server : Wins(i) \/ \E r \in Requests' : Sends(i, r)
    PROVE  /\ Logs' \subseteq Logs
           /\ TermsGrow /\ \A j \in Server : Takes(j)
<1>l. /\ \A i \in Server : Trail[i] \in Seq(Nat) /\ Trail'[i] \in Seq(Nat)
      /\ \A m \in Requests : Full(m) \in Seq(Nat)
      /\ \A m \in Requests' : Full(m) \in Seq(Nat)
  BY DEF Types, RequestType
<1>d. /\ Logs = {l \in Seq(Nat) : \/ \E i \in Server : Starts(l, Trail[i])
                                  \/ \E m \in Requests : Starts(l, Full(m))}
      /\ Logs' = {l \in Seq(Nat) : \/ \E i \in Server : Starts(l, Trail'[i])
                                   \/ \E m \in Requests' : Starts(l, Full(m))}
  BY DEF Logs
<1>1. ASSUME \A i \in Server : \/ Trail'[i] = Trail[i]
                               \/ \E m \in Requests : Trail'[i] = Full(m),
             \A m \in Requests' : m \in Requests \/ \E i \in Server : Starts(Full(m), Trail[i])
      PROVE  Logs' \subseteq Logs
  <2> SUFFICES ASSUME NEW l \in Logs' PROVE l \in Logs
    OBVIOUS
  <2>1. l \in Seq(Nat)
    BY <1>d
  <2>2. CASE \E i \in Server : Starts(l, Trail'[i])
    BY <1>1, <1>d, <2>1, <2>2
  <2>3. ASSUME NEW m \in Requests', Starts(l, Full(m)) PROVE l \in Logs
    <3>1. CASE m \in Requests
      BY <1>d, <2>1, <2>3, <3>1
    <3>2. ASSUME NEW i \in Server, Starts(Full(m), Trail[i]) PROVE l \in Logs
      <4>1. Full(m) \in Seq(Nat) /\ Trail[i] \in Seq(Nat)
        BY <1>l
      <4>2. Starts(l, Trail[i])
        BY <2>1, <2>3, <3>2, <4>1, StartsWith
      <4> QED BY <1>d, <2>1, <4>2
    <3> QED BY <1>1, <3>1, <3>2
  <2> QED BY <1>d, <2>2, <2>3
<1>3. CASE Follows
  <2>1. \A i \in Server : \/ Trail'[i] = Trail[i]
                          \/ \E m \in Requests : Trail'[i] = Full(m)
    BY <1>3 DEF Follows, Takes
  <2>2. \A m \in Requests' : m \in Requests
    BY <1>3 DEF Follows
  <2> QED BY <1>1, <1>3, <2>1, <2>2 DEF Follows
<1>4. ASSUME NEW i \in Server, Wins(i)
      PROVE  Logs' \subseteq Logs /\ TermsGrow /\ \A j \in Server : Takes(j)
  <2>1. Trail' = Trail /\ Requests' = Requests /\ TermsGrow
    BY <1>4 DEF Wins
  <2> QED BY <1>1, <2>1 DEF Takes
<1>5. ASSUME NEW i \in Server, NEW r, Sends(i, r)
      PROVE  Logs' \subseteq Logs /\ TermsGrow /\ \A k \in Server : Takes(k)
  <2>1. /\ Trail' = Trail /\ Requests' = Requests \cup {r} /\ Starts(Full(r), Trail[i])
        /\ term' = term /\ votedFor' = votedFor
    BY <1>5 DEF Sends
  <2>2. TermsGrow
    BY <2>1 DEF TermsGrow, Types
  <2>3. Logs' \subseteq Logs
    BY <1>1, <2>1
  <2> QED BY <2>1, <2>2, <2>3 DEF Takes
<1> QED BY <1>3, <1>4, <1>5

LEMMA LogsFitStays ==
    ASSUME LogInv, Types', TermsGrow, Logs' \subseteq Logs, \A j \in Server : Takes(j)
    PROVE  LogsFit'
<1>0. Types /\ LogsFit /\ \A m \in Requests : RequestFits(m)
  BY DEF LogInv
<1>1. \A l \in Logs' : \A x \in 1..Len(l) : l[x] > 0 /\ \E i \in Server : Won(i, l[x])'
  <2> SUFFICES ASSUME NEW l \in Logs', NEW x \in 1..Len(l)
               PROVE  l[x] > 0 /\ \E i \in Server : Won(i, l[x])'
    OBVIOUS
  <2>1. l \in Logs /\ l \in Seq(Nat)
    BY <1>0, LogTypes
  <2>2. l[x] \in Nat
    BY <2>1, ElementOfSeq
  <2>3. PICK i \in Server : l[x] > 0 /\ Won(i, l[x])
    BY <1>0, <2>1 DEF LogsFit
  <2>4. Won(i, l[x])'
    BY <1>0, <2>2, <2>3, WonStays
  <2> QED BY <2>3, <2>4
<1>2. \A l \in Logs' : \A x, y \in 1..Len(l) : x <= y => l[x] <= l[y]
  BY <1>0 DEF LogsFit
<1>3. \A l, k \in Logs' : Agree(l, k)
  BY <1>0 DEF LogsFit
<1>4. \A i \in Server : \A x \in 1..Len(Trail'[i]) : Trail'[i][x] <= term'[i]
  <2> SUFFICES ASSUME NEW i \in Server, NEW x \in 1..Len(Trail'[i])
               PROVE  Trail'[i][x] <= term'[i]
    OBVIOUS
  <2>1. /\ term[i] \in Nat /\ term'[i] \in Nat /\ term[i] <= term'[i]
        /\ Trail[i] \in Seq(Nat)
    BY <1>0 DEF Types, TermsGrow
  <2>2. CASE Trail'[i] = Trail[i]
    <3>1. Trail[i][x] \in Nat /\ Trail[i][x] <= term[i]
      BY <1>0, <2>1, <2>2, ElementOfSeq DEF LogsFit
    <3> QED BY SMTT(40), <2>1, <2>2, <3>1
  <2>3. CASE Trail'[i] # Trail[i]
    <3>1. PICK m \in Requests : term'[i] = m.term /\ Trail'[i] = Full(m)
      BY <2>3 DEF Takes
    <3> QED BY <1>0, <3>1 DEF RequestFits
  <2> QED BY <2>2, <2>3
<1> QED BY <1>1, <1>2, <1>3, <1>4 DEF LogsFit

LEMMA LeadersFitStays ==
    ASSUME LogInv, Types', TermsGrow, LeadersKept(Server)
    PROVE  LeadersFit'
<1>0. Types /\ LeadersFit
  BY DEF LogInv
<1>1. ASSUME NEW i \in Server, Leads(i)'
      PROVE  Won(i, term[i])' /\ term'[i] > 0
  <2>1. Leads(i) /\ term'[i] = term[i]
    BY <1>1 DEF LeadersKept
  <2>2. Won(i, term[i]) /\ term[i] > 0 /\ term[i] \in Nat
    BY <1>0, <2>1 DEF LeadersFit, Types
  <2>3. PICK t \in Nat : t = term[i]
    BY <2>2
  <2>4. Won(i, t)'
    BY <1>0, <2>2, <2>3, WonStays
  <2>5. t = term'[i]
    BY <2>1, <2>3
  <2> QED BY <2>1, <2>2, <2>4, <2>5 DEF Won
<1>2. ASSUME NEW i \in Server, NEW j \in Server, Leads(i)', Leads(j)', term'[i] = term'[j]
      PROVE  i = j
  <2>1. Leads(i) /\ Leads(j) /\ term[i] = term[j]
    BY <1>2 DEF LeadersKept
  <2> QED BY <1>0, <2>1 DEF LeadersFit
<1> QED BY <1>1, <1>2 DEF LeadersFit

LEMMA LeaderHasAllStays ==
    ASSUME LogInv, Logs' \subseteq Logs, LeadersKept(Server)
    PROVE  LeaderHasAll'
<1> SUFFICES ASSUME NEW i \in Server, Leads(i)', NEW l \in Logs', NEW x \in 1..Len(l),
                    l[x] = term'[i]
             PROVE  Same(l, Trail'[i], x)
  BY DEF LeaderHasAll
<1>1. Leads(i) /\ term'[i] = term[i] /\ Trail'[i] = Trail[i] /\ l \in Logs
  BY DEF LeadersKept
<1>2. Same(l, Trail[i], x)
  BY <1>1 DEF LogInv, LeaderHasAll
<1> QED BY <1>1, <1>2

LEMMA RequestFitsStays ==
    ASSUME LogInv, Types', TermsGrow, Logs' \subseteq Logs, LeadersKept(Server),
           NEW m \in Requests
    PROVE  RequestFits(m)'
<1>0. Types /\ RequestFits(m)
  BY DEF LogInv
<1>1. m.term \in Nat /\ m.src \in Server
  BY <1>0, RequestTypes
<1>2. Won(m.src, m.term)'
  BY <1>0, <1>1, WonStays DEF RequestFits
<1>3. \A l \in Logs' : \A x \in 1..Len(l) :
        l[x] = m.term => Same(l, Full(m), Lesser(x, Len(Full(m))))
  BY <1>0 DEF RequestFits
<1>4. \A i \in Server : Leads(i)' /\ term'[i] = m.term => i = m.src /\ Starts(Full(m), Trail'[i])
  BY <1>0 DEF RequestFits, LeadersKept
<1> QED BY <1>0, <1>2, <1>3, <1>4 DEF RequestFits

LEMMA FollowsKeepsInv ==
    ASSUME LogInv, StepFits, Follows
    PROVE  LogInv'
<1>1. Types /\ Types' /\ LeadersKept(Server)
      /\ Requests' \subseteq Requests
  BY DEF StepFits, LogInv, Follows
<1>2. TermsGrow /\ Logs' \subseteq Logs /\ \A j \in Server : Takes(j)
  BY <1>1, SameLogs
<1>3. LogsFit' /\ LeadersFit' /\ LeaderHasAll'
  BY <1>1, <1>2, LogsFitStays, LeadersFitStays, LeaderHasAllStays
<1>4. \A m \in Requests' : RequestFits(m)'
  BY <1>1, <1>2, RequestFitsStays
<1> QED BY <1>1, <1>3, <1>4 DEF LogInv

\* A beginning of a log that has all of a term has all of it that it is long enough for.
LEMMA LesserSame ==
    ASSUME NEW l \in Seq(Nat), NEW k \in Seq(Nat), NEW h \in Seq(Nat), NEW x \in Nat,
           Same(l, k, x), Starts(h, k)
    PROVE  Same(l, h, Lesser(x, Len(h)))
<1>1. Len(l) \in Nat /\ Len(h) \in Nat /\ Len(k) \in Nat /\ Len(h) <= Len(k)
  BY DEF Starts, Same
<1>2. PICK y \in Nat : y = Lesser(x, Len(h)) /\ y <= x /\ y <= Len(h)
  BY <1>1 DEF Lesser
<1>3. Same(l, k, y)
  BY <1>2, SameFacts
<1>4. Same(h, k, y)
  BY <1>1, <1>2, SameFacts DEF Starts
<1>5. Same(k, h, y)
  BY <1>2, <1>4, SameFacts
<1>6. Same(l, h, y)
  BY <1>2, <1>3, <1>5, SameFacts
<1> QED BY <1>2, <1>6

LEMMA SendsKeepsInv ==
    ASSUME LogInv, StepFits, NEW i \in Server, NEW r \in Requests', Sends(i, r)
    PROVE  LogInv'
<1>1. Types /\ Types'
  BY DEF StepFits, LogInv
<1>2. TermsGrow /\ Logs' \subseteq Logs /\ \A k \in Server : Takes(k)
  BY <1>1, SameLogs
<1>3. LeadersKept(Server)
  BY DEF Sends, LeadersKept, Leads
<1>4. LogsFit' /\ LeadersFit' /\ LeaderHasAll'
  BY <1>1, <1>2, <1>3, LogsFitStays, LeadersFitStays, LeaderHasAllStays
<1>5. RequestFits(r)'
  <2>1. /\ Leads(i) /\ r.src = i /\ r.dest # i /\ r.term = term[i] /\ Starts(Full(r), Trail[i])
        /\ term' = term /\ votedFor' = votedFor /\ state' = state /\ Trail' = Trail
    BY DEF Sends
  <2>2. PICK f \in Seq(Nat) : f = Full(r)
    BY <1>1 DEF Types, RequestType
  <2>3. /\ Trail[i] \in Seq(Nat) /\ Trail[i] \in Logs /\ term[i] \in Nat /\ Len(f) \in Nat
        /\ Len(Trail[i]) \in Nat
    <3>1. Trail[i] \in Seq(Nat) /\ Trail[i] \in Logs
      BY <1>1, LogTypes
    <3>2. term \in [Server -> Nat]
      BY <1>1, Zenon DEF Types
    <3> QED BY <3>1, <3>2
  <2>4. Len(f) <= Len(Trail[i]) /\ \A x \in 1..Len(f) : f[x] = Trail[i][x]
    BY <2>1, <2>2 DEF Starts, Same
  <2>5. \A x \in 1..Len(f) : f[x] <= term[i]
    <3> TAKE x \in 1..Len(f)
    <3>1. x \in 1..Len(Trail[i])
      BY <2>3, <2>4
    <3> QED BY <2>4, <3>1 DEF LogInv, LogsFit
  <2>6. term[i] > 0 /\ Won(i, term[i])
    BY <2>1 DEF LogInv, LeadersFit
  <2>7. Won(r.src, r.term)'
    <3>1. PICK t \in Nat : t = term[i]
      BY <2>3
    <3>2. Won(i, t)'
      BY <1>1, <1>2, <2>6, <3>1, WonStays
    <3>3. r.term = t /\ r.src = i
      BY <2>1, <3>1
    <3> QED BY <3>2, <3>3
  <2>8. ASSUME NEW l \in Logs', NEW x \in 1..Len(l), l[x] = r.term
        PROVE  Same(l, f, Lesser(x, Len(f)))
    <3>1. l \in Logs /\ l \in Seq(Nat) /\ Len(l) \in Nat
      BY <1>1, <1>2, LogTypes
    <3>2. Same(l, Trail[i], x) /\ x \in Nat
      BY <2>1, <2>8, <3>1 DEF LogInv, LeaderHasAll
    <3>3. Starts(f, Trail[i])
      BY <2>1, <2>2
    <3> QED BY <2>3, <3>1, <3>2, <3>3, LesserSame
  <2>9. ASSUME NEW k \in Server, Leads(k)', term'[k] = r.term
        PROVE  k = r.src /\ Starts(f, Trail'[k])
    <3>1. Leads(k) /\ term[k] = term[i]
      BY <2>1, <2>9 DEF Leads
    <3>2. k = i
      BY <2>1, <3>1 DEF LogInv, LeadersFit
    <3> QED BY <2>1, <2>2, <3>2
  <2>10. r.src # r.dest /\ r.term > 0
    BY <2>1, <2>6
  <2>11. \A x \in 1..Len(Full(r)) : Full(r)[x] <= r.term
    BY <2>1, <2>2, <2>5
  <2>12. \A l \in Logs' : \A x \in 1..Len(l) :
           l[x] = r.term => Same(l, Full(r), Lesser(x, Len(Full(r))))
    BY <2>2, <2>8
  <2>13. \A k \in Server : Leads(k)' /\ term'[k] = r.term
                           => k = r.src /\ Starts(Full(r), Trail'[k])
    BY <2>2, <2>9
  <2> QED BY <2>7, <2>10, <2>11, <2>12, <2>13 DEF RequestFits
<1>6. \A m \in Requests' : RequestFits(m)'
  <2>1. \A m \in Requests : RequestFits(m)'
    BY <1>1, <1>2, <1>3, RequestFitsStays
  <2>2. Requests' = Requests \cup {r}
    BY DEF Sends
  <2> QED BY <1>5, <2>1, <2>2
<1> QED BY <1>1, <1>4, <1>6 DEF LogInv

\* The term of an election is new to every log, request and leader.
LEMMA WinsAreNew ==
    ASSUME LogInv, NEW i \in Server, Wins(i)
    PROVE  /\ \A l \in Logs : \A x \in 1..Len(l) : l[x] # term[i] + 1
           /\ \A m \in Requests : m.term # term[i] + 1
           /\ \A j \in Server : Leads(j) => term[j] # term[i] + 1
<1>0. Types /\ LogsFit /\ LeadersFit /\ \A m \in Requests : RequestFits(m)
  BY DEF LogInv
<1>1. \A k \in Server : ~Won(k, term[i] + 1)
  BY <1>0, NobodyWon
<1>2. \A l \in Logs : \A x \in 1..Len(l) : l[x] # term[i] + 1
  BY <1>0, <1>1 DEF LogsFit
<1>3. \A m \in Requests : m.term # term[i] + 1
  BY <1>0, <1>1, RequestTypes DEF RequestFits
<1>4. \A j \in Server : Leads(j) => term[j] # term[i] + 1
  BY <1>0, <1>1 DEF LeadersFit
<1> QED BY <1>2, <1>3, <1>4

LEMMA WinsKeepsInv ==
    ASSUME LogInv, StepFits, NEW i \in Server, Wins(i)
    PROVE  LogInv'
<1>1. Types /\ Types'
  BY DEF StepFits, LogInv
<1>2. TermsGrow /\ Logs' \subseteq Logs /\ \A k \in Server : Takes(k)
  BY <1>1, SameLogs
<1>3. LogsFit'
  BY <1>1, <1>2, LogsFitStays
<1>4. /\ term[i] \in Nat /\ term'[i] = term[i] + 1 /\ Trail' = Trail /\ Requests' = Requests
      /\ \A j \in Server \ {i} : Leads(j)' => Leads(j) /\ term'[j] = term[j]
  BY <1>1 DEF Wins, LeadersKept, Types
<1>5. LeadersFit'
  <2>1. Won(i, term[i])'
    <3>1. PICK V \in Quorums : i \in V /\ Votes(i, V)
      BY DEF Wins
    <3>2. \A j \in V : term'[j] = term'[i] /\ votedFor'[j] = i
      BY <1>4, <3>1 DEF Votes
    <3>3. term'[i] <= term'[i]
      BY <1>4
    <3> QED BY <3>2, <3>3 DEF Won, Quorums
  <2>2. term'[i] > 0
    BY <1>4
  <2>3. ASSUME NEW j \in Server \ {i}, Leads(j)'
        PROVE  Won(j, term[j])' /\ term'[j] > 0 /\ term'[j] # term'[i]
    <3>1. Leads(j) /\ term'[j] = term[j]
      BY <1>4, <2>3
    <3>2. Won(j, term[j]) /\ term[j] > 0 /\ term[j] \in Nat
      BY <1>1, <3>1 DEF LogInv, LeadersFit, Types
    <3>3. PICK t \in Nat : t = term[j]
      BY <3>2
    <3>4. Won(j, t)'
      BY <1>1, <1>2, <3>2, <3>3, WonStays
    <3>5. term[j] # term[i] + 1
      BY <3>1, WinsAreNew
    <3>6. t = term'[j]
      BY <3>1, <3>3
    <3> QED BY <1>4, <3>1, <3>2, <3>4, <3>5, <3>6 DEF Won
  <2>4. ASSUME NEW j \in Server, NEW k \in Server, Leads(j)', Leads(k)', term'[j] = term'[k]
        PROVE  j = k
    <3>1. CASE j # i /\ k # i
      <4>1. Leads(j) /\ Leads(k) /\ term[j] = term[k]
        BY <1>4, <2>4, <3>1
      <4> QED BY <4>1 DEF LogInv, LeadersFit
    <3> QED BY <2>3, <2>4, <3>1
  <2> QED BY <2>1, <2>2, <2>3, <2>4 DEF LeadersFit
<1>6. LeaderHasAll'
  <2> SUFFICES ASSUME NEW j \in Server, Leads(j)', NEW l \in Logs', NEW x \in 1..Len(l),
                      l[x] = term'[j]
               PROVE  Same(l, Trail'[j], x)
    BY DEF LeaderHasAll
  <2>1. j # i
    BY <1>2, <1>4, WinsAreNew
  <2>2. Leads(j) /\ term'[j] = term[j] /\ l \in Logs
    BY <1>2, <1>4, <2>1
  <2> QED BY <1>4, <2>2 DEF LogInv, LeaderHasAll
<1>7. ASSUME NEW m \in Requests
      PROVE  RequestFits(m)'
  <2>1. m.term \in Nat /\ m.src \in Server /\ RequestFits(m)
    BY <1>1, RequestTypes DEF LogInv
  <2>2. Won(m.src, m.term)'
    BY <1>1, <1>2, <2>1, WonStays DEF RequestFits
  <2>3. \A l \in Logs' : \A x \in 1..Len(l) :
          l[x] = m.term => Same(l, Full(m), Lesser(x, Len(Full(m))))
    BY <1>2, <2>1 DEF RequestFits
  <2>4. ASSUME NEW j \in Server, Leads(j)', term'[j] = m.term
        PROVE  j = m.src /\ Starts(Full(m), Trail'[j])
    <3>1. j # i
      BY <1>4, <2>4, WinsAreNew
    <3> QED BY <1>4, <2>1, <2>4, <3>1 DEF RequestFits
  <2> QED BY <2>1, <2>2, <2>3, <2>4 DEF RequestFits
<1> QED BY <1>1, <1>3, <1>4, <1>5, <1>6, <1>7 DEF LogInv

\* What a leader writes makes one new log.
LEMMA WrittenLogs ==
    ASSUME Types, NEW i \in Server, Writes(i)
    PROVE  \A l \in Logs' : l \in Logs \/ l = Append(Trail[i], term[i])
<1> SUFFICES ASSUME NEW l \in Logs', l # Append(Trail[i], term[i]) PROVE l \in Logs
  OBVIOUS
<1>1. l \in Seq(Nat) /\ \/ \E j \in Server : Starts(l, Trail'[j])
                        \/ \E m \in Requests' : Starts(l, Full(m))
  BY DEF Logs
<1>2. /\ Requests' = Requests /\ Trail[i] \in Seq(Nat) /\ term[i] \in Nat
      /\ Trail'[i] = Append(Trail[i], term[i])
      /\ \A j \in Server \ {i} : Trail'[j] = Trail[j]
  BY DEF Writes, Types
<1>3. CASE \E m \in Requests' : Starts(l, Full(m))
  BY <1>1, <1>2, <1>3 DEF Logs
<1>4. ASSUME NEW j \in Server, Starts(l, Trail'[j]) PROVE l \in Logs
  <2>1. CASE j # i
    BY <1>1, <1>2, <1>4, <2>1 DEF Logs
  <2>2. CASE j = i
    <3>1. Starts(l, Append(Trail[i], term[i]))
      BY <1>2, <1>4, <2>2
    <3>2. Starts(l, Trail[i])
      BY <1>1, <1>2, <3>1, StartsAppend
    <3> QED BY <1>1, <3>2 DEF Logs
  <2> QED BY <2>1, <2>2
<1> QED BY <1>1, <1>3, <1>4

LEMMA WritesKeepsInv ==
    ASSUME LogInv, StepFits, NEW i \in Server, Writes(i)
    PROVE  LogInv'
<1>1. /\ Types /\ Types'
      /\ LogsFit /\ LeadersFit /\ LeaderHasAll /\ \A m \in Requests : RequestFits(m)
  BY DEF StepFits, LogInv
<1>2. PICK t \in Nat, l0 \in Seq(Nat), n \in Nat, l1 \in Seq(Nat) :
        /\ t = term[i] /\ l0 = Trail[i] /\ n = Len(l0) /\ l1 = Append(l0, t)
  <2>1. term[i] \in Nat /\ Trail[i] \in Seq(Nat) /\ Len(Trail[i]) \in Nat
    BY <1>1 DEF Types
  <2> QED BY <2>1, AppendFacts
<1>3. /\ l1 \in Seq(Nat) /\ Len(l1) = n + 1 /\ l1[n + 1] = t /\ Same(l0, l1, n)
      /\ l0 \in Seq(Nat) /\ n = Len(l0) /\ n \in Nat /\ t \in Nat
  BY <1>2, AppendFacts
<1>4. /\ Leads(i) /\ term' = term /\ votedFor' = votedFor /\ state' = state
      /\ Requests' = Requests
      /\ Trail'[i] = l1 /\ \A j \in Server \ {i} : Trail'[j] = Trail[j]
  BY <1>1, <1>2 DEF Writes, Types
<1>5. \A l \in Logs' : l \in Logs \/ l = l1
  BY <1>1, <1>2, WrittenLogs
<1>6. l0 \in Logs /\ Logs \subseteq Seq(Nat)
  BY <1>1, <1>2, LogTypes
<1>7. ASSUME NEW j \in Server, NEW u \in Nat, Won(j, u)
      PROVE  Won(j, u)'
  BY <1>4, <1>7 DEF Won, Quorums
\* What the new log has of the old ones.
<1>8. /\ \A x \in 1..n : l1[x] = l0[x]
      /\ \A x \in 1..n + 1 : x \in 1..n \/ x = n + 1
  BY <1>3 DEF Same
<1>9. Leads(i) /\ Won(i, t) /\ t > 0 /\ \A x \in 1..n : l0[x] <= t
  BY <1>1, <1>2, <1>4 DEF LeadersFit, LogsFit
<1>10. ASSUME NEW l \in Logs, NEW x \in 1..Len(l), l[x] = t
       PROVE  Same(l, l0, x) /\ x <= n
  <2>1. Same(l, l0, x)
    BY <1>1, <1>2, <1>4, <1>10 DEF LeaderHasAll
  <2> QED BY <1>3, <2>1 DEF Same
<1>11. LogsFit'
  <2>1. \A l \in Logs' : \A x \in 1..Len(l) : l[x] > 0 /\ \E j \in Server : Won(j, l[x])'
    <3> SUFFICES ASSUME NEW l \in Logs', NEW x \in 1..Len(l)
                 PROVE  l[x] > 0 /\ \E j \in Server : Won(j, l[x])'
      OBVIOUS
    <3>1. ASSUME NEW k \in Logs, NEW y \in 1..Len(k)
          PROVE  k[y] > 0 /\ \E j \in Server : Won(j, k[y])'
      <4>1. k[y] \in Nat
        BY <1>6, ElementOfSeq
      <4>2. k[y] > 0 /\ \E j \in Server : Won(j, k[y])
        BY <1>1 DEF LogsFit
      <4> QED BY <1>7, <4>1, <4>2
    <3>2. CASE l \in Logs
      BY <3>1, <3>2
    <3>3. CASE l = l1
      <4>1. CASE x \in 1..n
        BY <1>3, <1>6, <1>8, <3>1, <3>3, <4>1
      <4>2. CASE x = n + 1
        <5>1. Won(i, t)'
          BY <1>7, <1>9, <1>3
        <5> QED BY <1>3, <1>9, <3>3, <4>2, <5>1
      <4> QED BY <1>3, <1>8, <3>3, <4>1, <4>2
    <3> QED BY <1>5, <3>2, <3>3
  <2>2. \A l \in Logs' : \A x, y \in 1..Len(l) : x <= y => l[x] <= l[y]
    <3>1. ASSUME NEW x \in 1..n + 1, NEW y \in 1..n + 1, x <= y
          PROVE  l1[x] <= l1[y]
      <4>1. \A z \in 1..n : l0[z] \in Nat
        BY <1>3, ElementOfSeq
      <4>2. CASE y \in 1..n
        <5>1. x \in 1..n
          BY <1>3, <3>1, <4>2
        <5> QED BY <1>1, <1>3, <1>6, <1>8, <3>1, <4>2, <5>1 DEF LogsFit
      <4>3. CASE y = n + 1 /\ x \in 1..n
        BY <1>3, <1>8, <1>9, <4>3
      <4>4. CASE y = n + 1 /\ x = n + 1
        BY <1>3, <4>4
      <4> QED BY <1>8, <4>2, <4>3, <4>4
    <3> QED BY <1>1, <1>3, <1>5, <3>1 DEF LogsFit
  <2>3. \A l, k \in Logs' : Agree(l, k)
    <3>1. ASSUME NEW k \in Logs
          PROVE  Agree(l1, k)
      <4> SUFFICES ASSUME NEW x \in 1..Len(l1), NEW y \in 1..Len(k), x <= y, l1[x] = k[y]
                   PROVE  Same(l1, k, x)
        BY DEF Agree
      <4>1. k \in Seq(Nat) /\ Len(k) \in Nat
        BY <1>6
      <4>2. CASE x \in 1..n
        <5>1. Agree(l0, k) /\ l0[x] = k[y]
          BY <1>1, <1>6, <1>8, <4>2 DEF LogsFit
        <5>2. Same(l0, k, x)
          BY <1>3, <4>2, <5>1 DEF Agree
        <5> QED BY <1>3, <1>8, <4>2, <5>2 DEF Same
      <4>3. CASE x = n + 1
        <5>1. k[y] = t
          BY <1>3, <4>3
        <5>2. y <= n
          BY <1>10, <5>1
        <5> QED BY <1>3, <4>1, <4>3, <5>2
      <4> QED BY <1>3, <1>8, <4>2, <4>3
    <3>2. ASSUME NEW k \in Logs
          PROVE  Agree(k, l1)
      <4> SUFFICES ASSUME NEW x \in 1..Len(k), NEW y \in 1..Len(l1), x <= y, k[x] = l1[y]
                   PROVE  Same(k, l1, x)
        BY DEF Agree
      <4>1. k \in Seq(Nat) /\ Len(k) \in Nat
        BY <1>6
      <4>2. Same(k, l0, x)
        <5>1. CASE y \in 1..n
          <6>1. Agree(k, l0) /\ k[x] = l0[y]
            BY <1>1, <1>6, <1>8, <5>1 DEF LogsFit
          <6> QED BY <1>3, <5>1, <6>1 DEF Agree
        <5>2. CASE y = n + 1
          BY <1>3, <1>10, <5>2
        <5> QED BY <1>3, <1>8, <5>1, <5>2
      <4> QED BY SMTT(40), <1>3, <1>8, <4>1, <4>2 DEF Same
    <3>3. Agree(l1, l1)
      <4>1. \A x \in 1..Len(l1) : Same(l1, l1, x)
        BY <1>3 DEF Same
      <4> QED BY <4>1 DEF Agree
    <3> QED BY <1>1, <1>5, <3>1, <3>2, <3>3 DEF LogsFit
  <2>4. \A j \in Server : \A x \in 1..Len(Trail'[j]) : Trail'[j][x] <= term'[j]
    <3> SUFFICES ASSUME NEW j \in Server, NEW x \in 1..Len(Trail'[j])
                 PROVE  Trail'[j][x] <= term'[j]
      OBVIOUS
    <3>1. CASE j # i
      BY <1>1, <1>4, <3>1 DEF LogsFit
    <3>2. CASE j = i
      <4>1. \A y \in 1..n + 1 : l1[y] <= t
        BY SMTT(40), <1>3, <1>8, <1>9
      <4>2. Trail'[j] = l1 /\ term'[j] = t /\ x \in 1..n + 1
        BY <1>2, <1>3, <1>4, <3>2
      <4> QED BY <4>1, <4>2
    <3> QED BY <3>1, <3>2
  <2> QED BY <2>1, <2>2, <2>3, <2>4 DEF LogsFit
<1>12. LeadersFit'
  <2>1. ASSUME NEW j \in Server, Leads(j)'
        PROVE  Won(j, term[j])' /\ term'[j] > 0
    BY <1>1, <1>4, <2>1 DEF LeadersFit, Leads, Won, Quorums
  <2> QED BY <1>1, <1>4, <2>1 DEF LeadersFit, Leads
<1>13. LeaderHasAll'
  <2> SUFFICES ASSUME NEW j \in Server, Leads(j)', NEW l \in Logs', NEW x \in 1..Len(l),
                      l[x] = term'[j]
               PROVE  Same(l, Trail'[j], x)
    BY DEF LeaderHasAll
  <2>1. Leads(j) /\ l[x] = term[j]
    BY <1>4 DEF Leads
  <2>2. CASE j = i
    <3>1. CASE l \in Logs
      <4>1. l[x] = t
        BY <1>2, <2>1, <2>2
      <4>2. Same(l, l0, x) /\ x <= n
        BY <1>10, <3>1, <4>1
      <4>3. Len(l) \in Nat /\ \A y \in 1..x : y \in 1..n
        BY SMTT(40), <1>3, <1>6, <3>1, <4>2
      <4>4. Same(l, l1, x)
        BY <1>3, <1>8, <4>2, <4>3 DEF Same
      <4> QED BY <1>4, <2>2, <4>4
    <3>2. CASE l = l1
      BY SMTT(60), <1>3, <1>4, <2>2, <3>2 DEF Same
    <3> QED BY <1>5, <3>1, <3>2
  <2>3. CASE j # i
    <3>1. l \in Logs \/ (l = l1 /\ x \in 1..n)
      <4>1. term[j] # t
        BY <1>1, <1>2, <1>4, <2>1, <2>3 DEF LeadersFit
      <4> QED BY <1>3, <1>5, <1>8, <2>1, <4>1
    <3>2. Trail'[j] = Trail[j]
      BY <1>4, <2>3
    <3>3. CASE l \in Logs
      BY <1>1, <2>1, <3>2, <3>3 DEF LeaderHasAll
    <3>4. CASE l = l1 /\ x \in 1..n
      <4>1. l0[x] = term[j]
        BY <1>8, <2>1, <3>4
      <4>2. Same(l0, Trail[j], x)
        BY <1>1, <1>3, <1>6, <2>1, <3>4, <4>1 DEF LeaderHasAll
      <4> QED BY <1>3, <1>8, <3>2, <3>4, <4>2 DEF Same
    <3> QED BY <3>1, <3>3, <3>4
  <2> QED BY <2>2, <2>3
<1>14. ASSUME NEW m \in Requests
       PROVE  RequestFits(m)'
  <2>1. /\ m.term \in Nat /\ m.src \in Server /\ RequestFits(m) /\ Full(m) \in Seq(Nat)
        /\ Len(Full(m)) \in Nat
    BY <1>1, RequestTypes
  <2>2. Won(m.src, m.term)'
    BY <1>7, <2>1 DEF RequestFits
  <2>3. ASSUME NEW l \in Logs', NEW x \in 1..Len(l), l[x] = m.term
        PROVE  Same(l, Full(m), Lesser(x, Len(Full(m))))
    <3>1. CASE l \in Logs
      BY <2>1, <2>3, <3>1 DEF RequestFits
    <3>2. CASE l = l1 /\ x \in 1..n
      <4>1. Same(l0, Full(m), Lesser(x, Len(Full(m))))
        BY <1>3, <1>6, <1>8, <2>1, <2>3, <3>2 DEF RequestFits
      <4>2. Lesser(x, Len(Full(m))) <= n /\ Lesser(x, Len(Full(m))) \in Nat
        BY SMTT(40), <1>3, <2>1, <3>2 DEF Lesser
      <4>3. PICK y \in Nat : y = Lesser(x, Len(Full(m)))
        BY <4>2
      <4>4. Same(l0, Full(m), y) /\ y <= n
        BY <4>1, <4>2, <4>3
      <4>5. Same(l1, l0, y)
        BY <1>3, <4>3, <4>4, SameFacts
      <4>6. Same(l, Full(m), y)
        BY <1>3, <2>1, <3>2, <4>3, <4>4, <4>5, SameFacts
      <4> QED BY <4>3, <4>6
    <3>3. CASE l = l1 /\ x = n + 1
      <4>1. Starts(Full(m), l0)
        BY <1>2, <1>3, <1>4, <2>1, <2>3, <3>3 DEF RequestFits
      <4>2. Len(Full(m)) <= n /\ \A y \in 1..Len(Full(m)) : Full(m)[y] = l0[y]
        BY <1>3, <4>1 DEF Starts, Same
      <4>3. Lesser(x, Len(Full(m))) = Len(Full(m))
        BY <1>3, <2>1, <3>3, <4>2 DEF Lesser
      <4>4. Starts(Full(m), l1)
        BY <1>2, <1>3, <2>1, <4>1, StartsAppend
      <4>5. Same(l1, Full(m), Len(Full(m)))
        BY <1>3, <2>1, <4>4, SameFacts DEF Starts
      <4> QED BY <3>3, <4>3, <4>5
    <3> QED BY <1>3, <1>5, <1>8, <3>1, <3>2, <3>3
  <2>4. ASSUME NEW j \in Server, Leads(j)', term'[j] = m.term
        PROVE  j = m.src /\ Starts(Full(m), Trail'[j])
    <3>1. j = m.src /\ Starts(Full(m), Trail[j])
      BY <1>4, <2>1, <2>4 DEF RequestFits, Leads
    <3>2. CASE j # i
      BY <1>4, <3>1, <3>2
    <3>3. CASE j = i
      <4>1. Starts(Full(m), l0)
        BY <1>2, <3>1, <3>3
      <4>2. Starts(Full(m), l1)
        <5>1. Len(Full(m)) <= n /\ \A y \in 1..Len(Full(m)) : Full(m)[y] = l0[y]
          BY <1>3, <4>1 DEF Starts, Same
        <5>2. \A y \in 1..Len(Full(m)) : y \in 1..n
          BY <1>3, <2>1, <5>1
        <5>3. \A y \in 1..Len(Full(m)) : Full(m)[y] = l1[y]
          BY <1>8, <5>1, <5>2
        <5> QED BY <1>3, <2>1, <5>1, <5>3 DEF Starts, Same
      <4> QED BY <1>4, <3>1, <3>3, <4>2
    <3> QED BY <3>2, <3>3
  <2> QED BY <2>1, <2>2, <2>3, <2>4 DEF RequestFits
<1> QED BY <1>1, <1>4, <1>11, <1>12, <1>13, <1>14 DEF LogInv

LEMMA LogInvStays ==
    ASSUME LogInv, StepFits
    PROVE  LogInv'
BY FollowsKeepsInv, SendsKeepsInv, WinsKeepsInv, WritesKeepsInv DEF StepFits

-----------------------------------------------------------------------------
(* Leaderships and acknowledgements. *)

\* Server j has just taken a request of leader i that has the first n entries.
Acked(i, j, n) ==
    \E m \in Requests : /\ m.src = i /\ m.dest = j /\ m.term = term[i]
                        /\ term[j] <= m.term /\ term'[j] = m.term
                        /\ n <= Len(Full(m)) /\ Starts(Full(m), Trail'[j])

\* A leader after a step was leader before it, if anyone has told it anything; and it is told
\* nothing but what it was, or what a server has just taken.
AckStep ==
    \A i, j \in Server : \A n \in Nat \ {0} :
        Leads(i)' /\ Ack(i, j, n)' =>
            Leads(i) /\ term'[i] = term[i] /\ (Ack(i, j, n) \/ Acked(i, j, n))

LeadersSame == \A i \in Server : Leads(i)' => Leads(i) /\ term'[i] = term[i]

\* What a leader counts on stays, or is forgotten, or a reply says it.
KnownStep ==
    \A i, j \in Server :
        \/ Known(i, j)' = 0
        \/ Known(i, j)' = Known(i, j)
        \/ \E r \in Answers : /\ r.dest = i /\ r.src = j /\ r.success
                              /\ Known(i, j)' = r.next - 1

\* A new request is of a leader's term, ...
RequestStep ==
    \A m \in Requests' :
        m \in Requests \/ (Leads(m.src) /\ m.term = term[m.src] /\ m.boot = boot[m.src])

\* ... and a new answer is to the incarnation that made the call, of what the other now has.
AnswerStep ==
    \A r \in Answers' : r \in Answers \/
        \E m \in Requests :
            /\ m.src = r.dest /\ m.dest = r.src /\ m.boot = boot[m.src]
            /\ r.success => /\ term[m.dest] <= m.term /\ term'[m.dest] = m.term
                            /\ r.next = Len(Full(m)) + 1 /\ Starts(Full(m), Trail'[m.dest])

LEMMA FollowsLeadersSame ==
    ASSUME Follows
    PROVE  LeadersSame
BY DEF Follows, LeadersKept, LeadersSame

\* What the steps have in common that neither elect nor restart.
LEMMA StepAcks ==
    ASSUME Types, Types', LeadershipFits, LeadersSame, UNCHANGED <<leads, boot>>,
           KnownStep, RequestStep, AnswerStep
    PROVE  AckStep /\ LeadershipFits'
<1>1. ASSUME NEW r \in Answers', r \notin Answers
      PROVE  leads[r.dest] = 1
  BY <1>1 DEF AnswerStep, LeadershipFits
<1>2. ASSUME NEW i \in Server, NEW j \in Server, NEW n \in Nat \ {0}, Leads(i)', Ack(i, j, n)'
      PROVE  Leads(i) /\ term'[i] = term[i] /\ (Ack(i, j, n) \/ Acked(i, j, n))
  <2>1. Leads(i) /\ term'[i] = term[i]
    BY <1>2 DEF LeadersSame
  <2>2. ASSUME NEW r \in Answers', r.dest = i, r.src = j, r.success, n < r.next
        PROVE  Ack(i, j, n) \/ Acked(i, j, n)
    <3>1. CASE r \in Answers
      BY <2>2, <3>1 DEF Ack
    <3>2. CASE r \notin Answers
      <4>1. PICK m \in Requests :
              /\ m.src = i /\ m.dest = j /\ m.boot = boot[m.src]
              /\ term[j] <= m.term /\ term'[j] = m.term
              /\ r.next = Len(Full(m)) + 1 /\ Starts(Full(m), Trail'[j])
        BY <2>2, <3>2 DEF AnswerStep
      <4>2. m.term = term[i]
        BY <2>1, <4>1 DEF LeadershipFits
      <4>3. Len(Full(m)) \in Nat
        BY RequestTypes
      <4>4. n <= Len(Full(m))
        BY <2>2, <4>1, <4>3
      <4> QED BY <4>1, <4>2, <4>4 DEF Acked
    <3> QED BY <3>1, <3>2
  <2>3. ASSUME n <= Known(i, j)'
        PROVE  Ack(i, j, n)
    <3>1. CASE Known(i, j)' = 0
      BY <2>3, <3>1
    <3>2. CASE Known(i, j)' = Known(i, j)
      BY <2>3, <3>2 DEF Ack
    <3>3. ASSUME NEW r \in Answers, r.dest = i, r.src = j, r.success,
                 Known(i, j)' = r.next - 1
          PROVE  Ack(i, j, n)
      <4>1. r.next \in Nat
        BY AnswerTypes
      <4>2. n < r.next
        BY <2>3, <3>3, <4>1
      <4> QED BY <3>3, <4>2 DEF Ack
    <3> QED BY <3>1, <3>2, <3>3 DEF KnownStep
  <2> QED BY <1>2, <2>1, <2>2, <2>3 DEF Ack
<1>3. AckStep
  BY <1>2 DEF AckStep
<1>4. ASSUME NEW i \in Server
      PROVE  /\ leads'[i] <= 1
             /\ Leads(i)' => leads'[i] = 1
             /\ \A j \in Server : Known(i, j)' > 0 => leads'[i] = 1
  <2>1. leads'[i] <= 1 /\ (Leads(i)' => leads'[i] = 1)
    BY DEF LeadershipFits, LeadersSame
  <2>2. ASSUME NEW j \in Server, Known(i, j)' > 0
        PROVE  leads'[i] = 1
    <3>1. CASE Known(i, j)' = 0
      BY <2>2, <3>1
    <3>2. CASE Known(i, j)' = Known(i, j)
      BY <2>2, <3>2 DEF LeadershipFits
    <3>3. CASE \E r \in Answers : r.dest = i
      BY <3>3 DEF LeadershipFits
    <3> QED BY <3>1, <3>2, <3>3 DEF KnownStep
  <2> QED BY <2>1, <2>2
<1>5. ASSUME NEW m \in Requests'
      PROVE  /\ m.boot <= boot'[m.src]
             /\ m.boot = boot'[m.src] =>
                   leads'[m.src] = 1 /\ (Leads(m.src)' => m.term = term'[m.src])
  <2>1. m.src \in Server /\ m.boot \in Nat
    BY DEF Types, RequestType
  <2>2. CASE m \in Requests
    BY <2>1, <2>2 DEF LeadershipFits, LeadersSame
  <2>3. CASE Leads(m.src) /\ m.term = term[m.src] /\ m.boot = boot[m.src]
    <3>1. m.boot <= boot'[m.src]
      BY <2>1, <2>3
    <3>2. leads'[m.src] = 1 /\ (Leads(m.src)' => m.term = term'[m.src])
      BY <2>1, <2>3 DEF LeadershipFits, LeadersSame
    <3> QED BY <3>1, <3>2
  <2> QED BY <2>2, <2>3 DEF RequestStep
<1>6. \A r \in Answers' : leads'[r.dest] = 1
  BY <1>1 DEF LeadershipFits
<1> QED BY <1>3, <1>4, <1>5, <1>6 DEF LeadershipFits

\* An incarnation that is elected has not led before: nobody has told it anything.
LEMMA ElectionAcks ==
    ASSUME Types, Types', LeadershipFits, NEW i \in Server, Wins(i), leads[i] = 0,
           leads' = [leads EXCEPT ![i] = 1],
           UNCHANGED <<boot, matchIndex, lastSnap, msgs>>
    PROVE  AckStep /\ LeadershipFits'
<1>1. Requests' = Requests /\ Answers' = Answers
  BY DEF Requests, Answers
<1>2. \A k, j \in Server : Known(k, j)' = Known(k, j)
  BY DEF Known
<1>3. /\ \A j \in Server : ~(Known(i, j) > 0) /\ Known(i, j) \in Nat
      /\ \A r \in Answers : r.dest # i
      /\ \A m \in Requests : m.src = i => m.boot # boot[i]
  <2>1. leads[i] # 1
    OBVIOUS
  <2>2. \A j \in Server : Known(i, j) \in Nat
    BY DEF Types, Known
  <2> QED BY <2>1, <2>2 DEF LeadershipFits
<1>4. \A k \in Server \ {i} : /\ Leads(k)' => Leads(k) /\ term'[k] = term[k]
                              /\ leads'[k] = leads[k]
  BY DEF Wins, LeadersKept, Types
<1>5. AckStep
  <2> SUFFICES ASSUME NEW k \in Server, NEW j \in Server, NEW n \in Nat \ {0}, Leads(k)',
                      Ack(k, j, n)'
               PROVE  Leads(k) /\ term'[k] = term[k] /\ Ack(k, j, n)
    BY DEF AckStep
  <2>1. Ack(k, j, n)
    BY <1>1, <1>2 DEF Ack
  <2>2. k # i
    <3>1. ASSUME Ack(i, j, n)
          PROVE  FALSE
      <4>1. ~(n <= Known(i, j))
        BY <1>3
      <4> QED BY <1>3, <3>1, <4>1 DEF Ack
    <3> QED BY <2>1, <3>1
  <2> QED BY <1>4, <2>1, <2>2
<1>6. leads'[i] = 1
  BY DEF Types
<1>7. ASSUME NEW k \in Server
      PROVE  /\ leads'[k] <= 1
             /\ Leads(k)' => leads'[k] = 1
             /\ \A j \in Server : Known(k, j)' > 0 => leads'[k] = 1
  <2>1. CASE k = i
    BY <1>6, <2>1
  <2>2. CASE k # i
    BY <1>2, <1>4, <2>2 DEF LeadershipFits
  <2> QED BY <2>1, <2>2
<1>8. ASSUME NEW m \in Requests'
      PROVE  /\ m.boot <= boot'[m.src]
             /\ m.boot = boot'[m.src] =>
                   leads'[m.src] = 1 /\ (Leads(m.src)' => m.term = term'[m.src])
  <2>1. m \in Requests /\ m.src \in Server
    BY <1>1, RequestTypes
  <2>2. CASE m.src = i
    BY <1>3, <2>1, <2>2 DEF LeadershipFits
  <2>3. CASE m.src # i
    BY <1>4, <2>1, <2>3 DEF LeadershipFits
  <2> QED BY <2>2, <2>3
<1>9. ASSUME NEW r \in Answers'
      PROVE  leads'[r.dest] = 1
  <2>1. r \in Answers /\ r.dest \in Server /\ r.dest # i
    BY <1>1, <1>3, AnswerTypes
  <2> QED BY <1>4, <2>1 DEF LeadershipFits
<1> QED BY <1>5, <1>7, <1>8, <1>9 DEF LeadershipFits

\* The calls of the incarnations before are not answered.
LEMMA RebootAcks ==
    ASSUME Types, Types', LeadershipFits, NEW i \in Server, LeadersSame, ~Leads(i)',
           boot' = [boot EXCEPT ![i] = @ + 1], leads' = [leads EXCEPT ![i] = 0],
           \A j \in Server : Known(i, j)' = 0,
           \A k \in Server \ {i}, j \in Server : Known(k, j)' = Known(k, j),
           Requests' = Requests, Answers' = {r \in Answers : r.dest # i}
    PROVE  AckStep /\ LeadershipFits'
<1>1. /\ \A k \in Server \ {i} : boot'[k] = boot[k] /\ leads'[k] = leads[k]
      /\ boot'[i] = boot[i] + 1 /\ boot[i] \in Nat /\ leads'[i] = 0
  BY DEF Types
<1>2. AckStep
  <2> SUFFICES ASSUME NEW k \in Server, NEW j \in Server, NEW n \in Nat \ {0}, Leads(k)',
                      Ack(k, j, n)'
               PROVE  Leads(k) /\ term'[k] = term[k] /\ Ack(k, j, n)
    BY DEF AckStep
  <2>1. k # i
    OBVIOUS
  <2> QED BY <2>1 DEF Ack, LeadersSame
<1>3. ASSUME NEW k \in Server
      PROVE  /\ leads'[k] <= 1
             /\ Leads(k)' => leads'[k] = 1
             /\ \A j \in Server : Known(k, j)' > 0 => leads'[k] = 1
  <2>1. CASE k = i
    BY <1>1, <2>1
  <2>2. CASE k # i
    BY <1>1, <2>2 DEF LeadershipFits, LeadersSame
  <2> QED BY <2>1, <2>2
<1>4. ASSUME NEW m \in Requests'
      PROVE  /\ m.boot <= boot'[m.src]
             /\ m.boot = boot'[m.src] =>
                   leads'[m.src] = 1 /\ (Leads(m.src)' => m.term = term'[m.src])
  <2>1. m \in Requests /\ m.src \in Server /\ m.boot \in Nat
    BY RequestTypes
  <2>2. CASE m.src = i
    <3>1. m.boot <= boot[i]
      BY <2>1, <2>2 DEF LeadershipFits
    <3> QED BY <1>1, <2>1, <2>2, <3>1
  <2>3. CASE m.src # i
    BY <1>1, <2>1, <2>3 DEF LeadershipFits, LeadersSame
  <2> QED BY <2>2, <2>3
<1>5. ASSUME NEW r \in Answers'
      PROVE  leads'[r.dest] = 1
  <2>1. r \in Answers /\ r.dest \in Server /\ r.dest # i
    BY AnswerTypes
  <2> QED BY <1>1, <2>1 DEF LeadershipFits
<1> QED BY <1>2, <1>3, <1>4, <1>5 DEF LeadershipFits

-----------------------------------------------------------------------------
(* What is held and spread stays so. *)

LEMMA StartsFacts ==
    ASSUME NEW p \in Seq(Nat), NEW l \in Seq(Nat), Starts(p, l)
    PROVE  /\ Len(p) \in Nat /\ Len(l) \in Nat /\ Len(p) <= Len(l)
           /\ \A x \in 1..Len(p) : p[x] = l[x]
           /\ p = Upto(l, Len(p))
           /\ \A k \in Seq(Nat) : \A n \in Nat : Len(p) <= n /\ Same(l, k, n) => Starts(p, k)
           /\ \A k \in Seq(Nat) : Starts(l, k) => Starts(p, k)
<1>1. Len(p) \in Nat /\ Len(l) \in Nat /\ Len(p) <= Len(l) /\ \A x \in 1..Len(p) : p[x] = l[x]
  BY DEF Starts, Same
<1>2. PICK q : q = Upto(l, Len(p))
  OBVIOUS
<1>3. q \in Seq(Nat) /\ Len(q) = Len(p) /\ \A x \in 1..Len(p) : q[x] = l[x]
  BY <1>1, <1>2, UptoFacts
<1>4. p = q
  BY <1>1, <1>3, SeqEqual
<1>5. ASSUME NEW k \in Seq(Nat), NEW n \in Nat, Len(p) <= n, Same(l, k, n)
      PROVE  Starts(p, k)
  BY <1>1, <1>5 DEF Starts, Same
<1>6. \A k \in Seq(Nat) : Starts(l, k) => Starts(p, k)
  BY <1>1, <1>5 DEF Starts
<1> QED BY <1>1, <1>2, <1>4, <1>5, <1>6

\* A candidate whose log is as up to date as one that begins with p begins with p itself,
\* if everything of later terms does.
LEMMA Electable ==
    ASSUME LogInv, NEW i \in Server, NEW j \in Server, Recent(Trail[i], Trail[j]),
           NEW p \in Seq(Nat), Len(p) > 0, Starts(p, Trail[j]), Spread(p, p[Len(p)])
    PROVE  Starts(p, Trail[i])
<1>1. /\ Trail[i] \in Logs /\ Trail[j] \in Logs /\ Trail[i] \in Seq(Nat) /\ Trail[j] \in Seq(Nat)
      /\ Len(Trail[i]) \in Nat /\ Len(Trail[j]) \in Nat
  BY LogTypes DEF LogInv
<1>2. PICK l \in Logs, k \in Logs, n \in Nat, t \in Nat :
        l = Trail[i] /\ k = Trail[j] /\ n = Len(p) /\ t = p[Len(p)]
  <2>1. Len(p) \in Nat /\ p[Len(p)] \in Nat
    BY ElementOfSeq
  <2> QED BY <1>1, <2>1
<1>3. /\ l \in Seq(Nat) /\ k \in Seq(Nat) /\ Len(l) \in Nat /\ Len(k) \in Nat
      /\ n \in 1..Len(p) /\ n <= Len(k) /\ n \in 1..Len(k) /\ k[n] = t /\ t \in Nat
      /\ Recent(l, k) /\ Starts(p, k) /\ Spread(p, t)
  BY SMTT(40), <1>1, <1>2, StartsFacts
<1>4. /\ \A x \in 1..Len(k) : k[x] > 0
      /\ \A x, y \in 1..Len(k) : x <= y => k[x] <= k[y]
      /\ Agree(k, l)
  BY DEF LogInv, LogsFit
<1>5. TopTerm(k) = k[Len(k)] /\ t <= k[Len(k)] /\ t > 0 /\ k[Len(k)] \in Nat
  <2>1. Len(k) \in 1..Len(k) /\ Len(k) # 0 /\ n <= Len(k)
    BY <1>3
  <2>2. k[Len(k)] \in Nat
    BY <1>3, <2>1, ElementOfSeq
  <2> QED BY <1>3, <1>4, <2>1, <2>2 DEF TopTerm, At
<1>6. TopTerm(l) >= t /\ TopTerm(l) \in Nat
  <2>1. TopTerm(l) \in Nat
    <3>1. CASE Len(l) = 0
      BY <3>1 DEF TopTerm, At
    <3>2. CASE Len(l) # 0
      <4>0. Len(l) \in 1..Len(l)
        BY <1>3, <3>2
      <4>1. l[Len(l)] \in Nat
        BY <1>3, <4>0, ElementOfSeq
      <4> QED BY <3>2, <4>1 DEF TopTerm, At
    <3> QED BY <3>1, <3>2
  <2> QED BY SMTT(40), <1>3, <1>5, <2>1 DEF Recent
<1>7. Len(l) > 0 /\ Len(l) \in 1..Len(l) /\ TopTerm(l) = l[Len(l)]
  BY SMTT(40), <1>3, <1>5, <1>6 DEF TopTerm, At
<1>8. CASE TopTerm(l) > t
  BY <1>2, <1>3, <1>7, <1>8 DEF Spread
<1>9. CASE TopTerm(l) = t
  <2>1. TopTerm(k) = TopTerm(l) /\ Len(l) >= Len(k)
    BY SMTT(40), <1>3, <1>5, <1>9 DEF Recent
  <2>2. n <= Len(l) /\ k[n] = l[Len(l)]
    BY <1>3, <1>7, <1>9, <2>1
  <2>3. Same(k, l, n)
    BY <1>3, <1>4, <1>7, <2>2 DEF Agree
  <2> QED BY <1>2, <1>3, <2>3, StartsFacts
<1> QED BY <1>6, <1>8, <1>9

\* A request of leader i, when it is sent.
Cut(m, i) ==
    /\ Starts(Full(m), Trail[i]) /\ m.term = term[i]
    /\ CommitOf(m) <= commitIndex[i] /\ CommitOf(m) <= Len(Full(m))

\* What follows a step of each kind: terms grow, a leader's log grows, every log and every
\* request is an old one, or comes from a leader.
LEMMA StepFacts ==
    ASSUME LogInv, StepFits
    PROVE  /\ TermsGrow
           /\ \A j \in Server : \/ Takes(j)
                                \/ Leads(j) /\ Trail'[j] = Append(Trail[j], term[j])
           /\ \A j \in Server : Leads(j)' => \/ Leads(j) /\ term'[j] = term[j]
                                             \/ Wins(j)
           /\ \A l \in Logs' : \/ l \in Logs
                               \/ \E i \in Server : Leads(i) /\ l = Append(Trail[i], term[i])
           /\ \A m \in Requests' : \/ m \in Requests
                                   \/ \E i \in Server : Leads(i) /\ Cut(m, i)
<1>0. Types /\ Types'
  BY DEF LogInv, StepFits
<1>1. CASE Follows
  <2>1. Logs' \subseteq Logs
    BY <1>0, <1>1, SameLogs
  <2> QED BY <1>1, <2>1 DEF Follows, LeadersKept
<1>2. ASSUME NEW i \in Server, Wins(i)
      PROVE  /\ TermsGrow /\ \A j \in Server : Takes(j)
             /\ \A j \in Server : Leads(j)' => (Leads(j) /\ term'[j] = term[j]) \/ Wins(j)
             /\ Logs' \subseteq Logs /\ Requests' = Requests
  <2>1. Logs' \subseteq Logs /\ TermsGrow /\ \A j \in Server : Takes(j)
    BY <1>0, <1>2, SameLogs
  <2> QED BY <1>2, <2>1 DEF Wins, LeadersKept
<1>3. ASSUME NEW i \in Server, NEW r \in Requests', Sends(i, r)
      PROVE  /\ TermsGrow /\ \A k \in Server : Takes(k)
             /\ \A k \in Server : Leads(k)' => Leads(k) /\ term'[k] = term[k]
             /\ Logs' \subseteq Logs
             /\ \A m \in Requests' : m \in Requests \/ (Leads(i) /\ Cut(m, i))
  <2>1. Logs' \subseteq Logs /\ TermsGrow /\ \A k \in Server : Takes(k)
    BY <1>0, <1>3, SameLogs
  <2>2. Leads(i) /\ Cut(r, i) /\ Requests' = Requests \cup {r}
    BY <1>3 DEF Sends, Cut
  <2>3. \A k \in Server : Leads(k)' => Leads(k) /\ term'[k] = term[k]
    BY <1>3 DEF Sends, Leads
  <2> QED BY <2>1, <2>2, <2>3
<1>4. ASSUME NEW i \in Server, Writes(i)
      PROVE  /\ TermsGrow
             /\ \A j \in Server : Takes(j) \/ (Leads(j) /\ Trail'[j] = Append(Trail[j], term[j]))
             /\ \A j \in Server : Leads(j)' => Leads(j) /\ term'[j] = term[j]
             /\ \A l \in Logs' : l \in Logs \/ (Leads(i) /\ l = Append(Trail[i], term[i]))
             /\ Requests' = Requests
  <2>1. /\ Leads(i) /\ term' = term /\ votedFor' = votedFor /\ state' = state
        /\ Trail'[i] = Append(Trail[i], term[i]) /\ \A j \in Server \ {i} : Trail'[j] = Trail[j]
        /\ Requests' = Requests
    BY <1>0, <1>4 DEF Writes, Types
  <2>2. TermsGrow
    BY <1>0, <2>1 DEF TermsGrow, Types
  <2>3. \A j \in Server : Takes(j) \/ (Leads(j) /\ Trail'[j] = Append(Trail[j], term[j]))
    BY <2>1 DEF Takes
  <2>4. \A l \in Logs' : l \in Logs \/ l = Append(Trail[i], term[i])
    BY <1>0, <1>4, WrittenLogs
  <2> QED BY <2>1, <2>2, <2>3, <2>4 DEF Leads
<1> QED
  <2>1. CASE \E i \in Server : Wins(i)
    BY <1>2, <2>1
  <2>2. CASE \E i \in Server : \E r \in Requests' : Sends(i, r)
    BY <1>3, <2>2
  <2>3. CASE \E i \in Server : Writes(i)
    BY <1>4, <2>3
  <2> QED
    <3>1. \/ Follows
          \/ \E i \in Server : Wins(i)
          \/ \E i \in Server : \E r \in Requests' : Sends(i, r)
          \/ \E i \in Server : Writes(i)
      BY DEF StepFits
    <3> QED BY <3>1, <1>1, <2>1, <2>2, <2>3

\* Of two beginnings of one log one begins with the other.
LEMMA OneStartsOther ==
    ASSUME NEW l \in Seq(Nat), NEW p \in Seq(Nat), NEW q \in Seq(Nat), Starts(p, l), Starts(q, l)
    PROVE  Starts(p, q) \/ Starts(q, p)
<1>1. /\ Len(p) \in Nat /\ Len(q) \in Nat
      /\ \A x \in 1..Len(p) : p[x] = l[x]
      /\ \A x \in 1..Len(q) : q[x] = l[x]
  BY DEF Starts, Same
<1>2. CASE Len(p) <= Len(q)
  <2>1. \A x \in 1..Len(p) : x \in 1..Len(q)
    BY <1>1, <1>2
  <2> QED BY <1>1, <1>2, <2>1 DEF Starts, Same
<1>3. CASE Len(q) <= Len(p)
  <2>1. \A x \in 1..Len(q) : x \in 1..Len(p)
    BY <1>1, <1>3
  <2> QED BY <1>1, <1>3, <2>1 DEF Starts, Same
<1> QED BY <1>1, <1>2, <1>3

LEMMA SpreadStays ==
    ASSUME LogInv, StepFits, NEW p \in Seq(Nat), NEW t \in Nat, Spread(p, t),
           \A k \in Server : Wins(k) /\ t < term[k] + 1 => Starts(p, Trail[k])
    PROVE  Spread(p, t)'
<1>0. Types
  BY DEF LogInv
<1>1. /\ \A j \in Server : Leads(j)' => (Leads(j) /\ term'[j] = term[j]) \/ Wins(j)
      /\ \A l \in Logs' : \/ l \in Logs
                          \/ \E i \in Server : Leads(i) /\ l = Append(Trail[i], term[i])
      /\ \A m \in Requests' : \/ m \in Requests
                              \/ \E i \in Server : Leads(i) /\ Cut(m, i)
  BY StepFacts
<1>2. /\ \A j \in Server : /\ Trail[j] \in Seq(Nat) /\ Len(Trail[j]) \in Nat /\ term[j] \in Nat
                           /\ Trail[j] \in Logs
      /\ Logs \subseteq Seq(Nat)
  BY <1>0, LogTypes DEF Types
<1>3. ASSUME NEW i \in Server, Starts(p, Trail[i])
      PROVE  Starts(p, Append(Trail[i], term[i]))
  <2>1. /\ Append(Trail[i], term[i]) \in Seq(Nat)
        /\ Same(Trail[i], Append(Trail[i], term[i]), Len(Trail[i]))
    BY <1>2, AppendFacts
  <2> QED BY ZenonT(60), <1>2, <1>3, <2>1, StartsFacts
<1>4. ASSUME NEW l \in Logs', NEW x \in 1..Len(l), t < l[x]
      PROVE  Starts(p, l)
  <2>1. CASE l \in Logs
    BY <1>4, <2>1 DEF Spread
  <2>2. ASSUME NEW i \in Server, Leads(i), l = Append(Trail[i], term[i])
        PROVE  Starts(p, l)
    <3>1. /\ l \in Seq(Nat) /\ Len(l) = Len(Trail[i]) + 1 /\ l[Len(Trail[i]) + 1] = term[i]
          /\ Same(Trail[i], l, Len(Trail[i]))
      BY <1>2, <2>2, AppendFacts
    <3>2. CASE x = Len(Trail[i]) + 1
      BY <1>3, <1>4, <2>2, <3>1, <3>2 DEF Spread
    <3>3. CASE x \in 1..Len(Trail[i])
      <4>1. l[x] = Trail[i][x]
        BY <3>1, <3>3 DEF Same
      <4>2. Starts(p, Trail[i])
        BY <1>2, <1>4, <3>3, <4>1 DEF Spread
      <4> QED BY <1>3, <2>2, <4>2
    <3>4. x = Len(Trail[i]) + 1 \/ x \in 1..Len(Trail[i])
      <4>1. PICK n \in Nat : n = Len(Trail[i])
        BY <1>2
      <4>2. x \in 1..n + 1
        BY <3>1, <4>1
      <4>3. x = n + 1 \/ x \in 1..n
        BY <4>2
      <4> QED BY <4>1, <4>3
    <3> QED BY <3>2, <3>3, <3>4
  <2> QED BY <1>1, <2>1, <2>2
<1>5. ASSUME NEW i \in Server, Leads(i)', t < term'[i]
      PROVE  Starts(p, Trail'[i])
  <2>1. CASE Wins(i)
    <3>1. term'[i] = term[i] + 1 /\ Trail' = Trail
      BY <2>1 DEF Wins
    <3> QED BY <1>5, <2>1, <3>1
  <2>2. CASE Leads(i) /\ term'[i] = term[i]
    <3>1. Starts(p, Trail[i])
      BY <1>5, <2>2 DEF Spread
    <3>2. Takes(i) \/ Trail'[i] = Append(Trail[i], term[i])
      BY StepFacts
    <3>3. CASE Takes(i)
      <4>1. CASE Trail'[i] = Trail[i]
        BY <3>1, <4>1
      <4>2. ASSUME NEW m \in Requests, term'[i] = m.term, ~Starts(Full(m), Trail[i])
            PROVE  FALSE
        BY <2>2, <4>2 DEF LogInv, RequestFits
      <4> QED BY <3>3, <4>1, <4>2 DEF Takes
    <3> QED BY <1>3, <3>1, <3>2, <3>3
  <2> QED BY <1>1, <1>5, <2>1, <2>2
<1>6. ASSUME NEW m \in Requests', t < m.term
      PROVE  Starts(p, Full(m)) \/ Starts(Full(m), p)
  <2>1. CASE m \in Requests
    BY <1>6, <2>1 DEF Spread
  <2>2. ASSUME NEW i \in Server, Leads(i), Cut(m, i)
        PROVE  Starts(p, Full(m)) \/ Starts(Full(m), p)
    <3>1. Starts(p, Trail[i]) /\ Starts(Full(m), Trail[i])
      BY <1>6, <2>2 DEF Spread, Cut
    <3>2. Full(m) \in Seq(Nat)
      BY DEF StepFits, Types, RequestType
    <3> QED BY <1>2, <3>1, <3>2, OneStartsOther
  <2> QED BY <1>1, <2>1, <2>2
<1> QED BY <1>4, <1>5, <1>6 DEF Spread

LEMMA HoldsStays ==
    ASSUME LogInv, StepFits, Types', NEW j \in Server,
           NEW p \in Seq(Nat), Len(p) > 0, Spread(p, p[Len(p)]),
           Starts(p, Trail[j]), p[Len(p)] <= term[j]
    PROVE  Starts(p, Trail'[j]) /\ p[Len(p)] <= term'[j]
<1>0. Types
  BY DEF LogInv
<1>1. TermsGrow /\ (Takes(j) \/ Trail'[j] = Append(Trail[j], term[j]))
  BY StepFacts
<1>2. PICK t \in Nat, n \in Nat : t = p[Len(p)] /\ n = Len(p)
  <2>1. Len(p) \in Nat /\ p[Len(p)] \in Nat
    BY ElementOfSeq
  <2> QED BY <2>1
<1>3. /\ Trail[j] \in Seq(Nat) /\ Len(Trail[j]) \in Nat /\ Trail[j] \in Logs
      /\ term[j] \in Nat /\ term'[j] \in Nat
      /\ t \in Nat /\ n \in 1..Len(p) /\ n \in 1..Len(Trail[j]) /\ Trail[j][n] = t
      /\ t <= term[j] /\ Spread(p, t)
  <2>1. /\ Trail[j] \in Seq(Nat) /\ Len(Trail[j]) \in Nat /\ Trail[j] \in Logs
        /\ term[j] \in Nat /\ term'[j] \in Nat
    BY <1>0, LogTypes DEF Types
  <2>2. n \in 1..Len(p) /\ Len(p) <= Len(Trail[j]) /\ Trail[j][n] = p[n]
    BY SMTT(40), <1>2, <2>1, StartsFacts
  <2> QED BY <1>2, <2>1, <2>2
<1>4. t <= term'[j]
  <2>1. term[j] <= term'[j]
    BY <1>1 DEF TermsGrow
  <2>2. t <= term[j]
    BY <1>2
  <2>3. t \in Nat /\ term[j] \in Nat /\ term'[j] \in Nat
    BY <1>0, <1>2 DEF Types
  <2> QED BY <2>1, <2>2, <2>3
<1>5. CASE Trail'[j] = Trail[j]
  BY <1>2, <1>4, <1>5
<1>6. CASE Trail'[j] = Append(Trail[j], term[j])
  <2>1. /\ Append(Trail[j], term[j]) \in Seq(Nat)
        /\ Same(Trail[j], Append(Trail[j], term[j]), Len(Trail[j]))
    BY <1>3, AppendFacts
  <2>2. Starts(p, Append(Trail[j], term[j]))
    BY ZenonT(60), <1>3, <2>1, StartsFacts
  <2> QED BY <1>2, <1>4, <1>6, <2>2
<1>7. ASSUME NEW m \in Requests, m.term = term'[j], term[j] <= m.term,
             ~Starts(Full(m), Trail[j]), Trail'[j] = Full(m)
      PROVE  Starts(p, Full(m))
  <2>1. Full(m) \in Seq(Nat) /\ Len(Full(m)) \in Nat /\ m.term \in Nat
    BY <1>0, RequestTypes
  <2>2. CASE t < m.term
    <3>1. Starts(p, Full(m)) \/ Starts(Full(m), p)
      BY <1>3, <2>2 DEF Spread
    <3>2. ~Starts(Full(m), p)
      BY <1>3, <1>7, <2>1, StartsWith
    <3> QED BY <3>1, <3>2
  <2>3. CASE t = m.term
    <3>1. Same(Trail[j], Full(m), Lesser(n, Len(Full(m))))
      BY <1>3, <2>3 DEF LogInv, RequestFits
    <3>2. CASE n <= Len(Full(m))
      <4>1. Same(Trail[j], Full(m), n)
        BY <3>1, <3>2 DEF Lesser
      <4> QED BY <1>2, <1>3, <2>1, <4>1, StartsFacts
    <3>3. CASE Len(Full(m)) < n
      <4>1. Same(Trail[j], Full(m), Len(Full(m)))
        BY <1>3, <2>1, <3>1, <3>3 DEF Lesser
      <4>2. Same(Full(m), Trail[j], Len(Full(m)))
        BY <1>3, <2>1, <4>1, SameFacts
      <4> QED BY <1>7, <4>2 DEF Starts
    <3> QED BY <1>3, <2>1, <3>2, <3>3
  <2> QED BY <1>3, <1>4, <1>7, <2>1, <2>2, <2>3
<1> QED BY <1>1, <1>2, <1>4, <1>5, <1>6, <1>7 DEF Takes

\* What a log may begin with: never nothing.
LEMMA PrefixTypes ==
    ASSUME Types, NEW p \in Prefixes
    PROVE  /\ p \in Seq(Nat) /\ Len(p) \in Nat /\ Len(p) > 0 /\ p[Len(p)] \in Nat
           /\ \E j \in Server : Starts(p, Trail[j])
<1>1. PICK j \in Server : \E n \in 1..Len(Trail[j]) : p = Upto(Trail[j], n)
  BY DEF Prefixes
<1>n. PICK n \in 1..Len(Trail[j]) : p = Upto(Trail[j], n)
  BY <1>1
<1>2. Trail[j] \in Seq(Nat) /\ Len(Trail[j]) \in Nat /\ n \in Nat /\ n > 0 /\ n <= Len(Trail[j])
  BY <1>n DEF Types
<1>3. p \in Seq(Nat) /\ Len(p) = n /\ \A x \in 1..n : p[x] = Trail[j][x]
  BY <1>n, <1>2, UptoFacts
<1>4. p[Len(p)] \in Nat
  BY <1>2, <1>3, ElementOfSeq
<1> QED BY <1>1, <1>2, <1>3, <1>4 DEF Starts, Same

\* A candidate that wins has every committed entry.
LEMMA ChosenElected ==
    ASSUME LogInv, NEW p \in Seq(Nat), Len(p) > 0, Chosen(p), NEW k \in Server, Wins(k)
    PROVE  Starts(p, Trail[k])
<1>1. PICK Q \in Quorums : Holds(Q, p, p[Len(p)])
  BY DEF Chosen
<1>2. PICK V \in Quorums : Votes(k, V)
  BY DEF Wins
<1>3. PICK j \in Server : j \in Q /\ j \in V
  BY QuorumsMeet
<1>4. Starts(p, Trail[j]) /\ Recent(Trail[k], Trail[j]) /\ Spread(p, p[Len(p)])
  BY <1>1, <1>2, <1>3 DEF Holds, Votes, Chosen
<1> QED BY <1>3, <1>4, Electable

\* What is committed stays committed.
LEMMA ChosenStays ==
    ASSUME LogInv, StepFits, NEW p \in Prefixes, Chosen(p)
    PROVE  p \in Prefixes' /\ Chosen(p)'
<1>0. Types /\ Types'
  BY DEF LogInv, StepFits
<1>1. p \in Seq(Nat) /\ Len(p) \in Nat /\ Len(p) > 0 /\ p[Len(p)] \in Nat
  BY <1>0, PrefixTypes
<1>2. PICK t \in Nat : t = p[Len(p)]
  BY <1>1
<1>3. Spread(p, t)
  BY <1>2 DEF Chosen
<1>4. \A k \in Server : Wins(k) => Starts(p, Trail[k])
  BY <1>1, ChosenElected
<1>5. Spread(p, t)'
  BY <1>1, <1>2, <1>3, <1>4, SpreadStays
<1>6. PICK Q \in Quorums : Holds(Q, p, t)
  BY <1>2 DEF Chosen
<1>7. ASSUME NEW j \in Q
      PROVE  t <= term'[j] /\ Starts(p, Trail'[j]) /\ j \in Server
  <2>1. j \in Server /\ t <= term[j] /\ Starts(p, Trail[j])
    BY <1>6 DEF Holds, Quorums
  <2> QED BY <1>0, <1>1, <1>2, <1>3, <2>1, HoldsStays
<1>8. Holds(Q, p, t)' /\ Q \in Quorums'
  BY <1>7 DEF Holds, Quorums
<1>9. PICK j \in Server : j \in Q
  BY QuorumsMeet
<1>10. p \in Prefixes'
  <2>1. Starts(p, Trail'[j]) /\ Trail'[j] \in Seq(Nat)
    BY <1>0, <1>7, <1>9 DEF Types
  <2>2. p = Upto(Trail'[j], Len(p)) /\ Len(p) <= Len(Trail'[j]) /\ Len(Trail'[j]) \in Nat
    BY <1>1, <2>1, StartsFacts
  <2>3. Len(p) \in 1..Len(Trail'[j])
    BY <1>1, <2>2
  <2>4. p \in {Upto(Trail'[j], n) : n \in 1..Len(Trail'[j])}
    BY <2>2, <2>3
  <2> QED BY <2>4 DEF Prefixes
<1>11. Chosen(p)'
  BY <1>2, <1>5, <1>8, Zenon DEF Chosen
<1> QED BY <1>10, <1>11

\* Of two committed prefixes one begins with the other.
LEMMA ChosenAgree ==
    ASSUME LogInv, NEW p \in Prefixes, NEW q \in Prefixes, Chosen(p), Chosen(q)
    PROVE  \A x \in Nat : x \in 1..Len(p) /\ x \in 1..Len(q) => p[x] = q[x]
<1>1. PICK P \in Quorums, Q \in Quorums : Holds(P, p, p[Len(p)]) /\ Holds(Q, q, q[Len(q)])
  BY DEF Chosen
<1>2. PICK j \in Server : j \in P /\ j \in Q
  BY QuorumsMeet
<1>3. Starts(p, Trail[j]) /\ Starts(q, Trail[j])
  BY <1>1, <1>2 DEF Holds
<1> QED BY <1>3 DEF Starts, Same

\* The committed entries of a server stay in its log, and stay committed.
LEMMA CommittedStays ==
    ASSUME LogInv, StepFits, NEW i \in Server, NEW c \in Nat, Committed(Trail[i], c, term[i])
    PROVE  Committed(Trail[i], c, term[i])' /\ Same(Trail'[i], Trail[i], c)
<1>0. /\ Types /\ Types' /\ TermsGrow
      /\ Takes(i) \/ Trail'[i] = Append(Trail[i], term[i])
  BY StepFacts DEF LogInv, StepFits
<1>1. /\ Trail[i] \in Seq(Nat) /\ Len(Trail[i]) \in Nat /\ Trail'[i] \in Seq(Nat)
      /\ Len(Trail'[i]) \in Nat /\ term[i] \in Nat /\ term'[i] \in Nat /\ term[i] <= term'[i]
  BY SMTT(40), <1>0 DEF Types, TermsGrow
<1>2. CASE c = 0
  BY <1>1, <1>2 DEF Committed, Same
<1>3. CASE c > 0
  <2>1. PICK p \in Prefixes : Chosen(p) /\ p[Len(p)] <= term[i] /\ Same(Trail[i], p, c)
    BY <1>3 DEF Committed
  <2>2. /\ p \in Seq(Nat) /\ Len(p) \in Nat /\ Len(p) > 0 /\ p[Len(p)] \in Nat
        /\ p \in Prefixes' /\ Chosen(p)'
    BY <1>0, <2>1, PrefixTypes, ChosenStays
  <2>3. c <= Len(p) /\ c <= Len(Trail[i])
    BY <2>1 DEF Same
  <2>4. Same(Trail'[i], p, c)
    <3>1. CASE Trail'[i] = Trail[i]
      BY <2>1, <3>1
    <3>2. CASE Trail'[i] = Append(Trail[i], term[i])
      <4>1. Same(Trail[i], Trail'[i], Len(Trail[i]))
        BY <1>1, <3>2, AppendFacts
      <4>2. Same(Trail'[i], Trail[i], c)
        BY <1>1, <2>3, <4>1, SameFacts
      <4> QED BY <1>1, <2>1, <2>2, <4>2, SameFacts
    <3>3. ASSUME NEW m \in Requests, term'[i] = m.term, term[i] <= m.term,
                 ~Starts(Full(m), Trail[i]), Trail'[i] = Full(m)
          PROVE  Same(Trail'[i], p, c)
      <4>1. Full(m) \in Seq(Nat) /\ Len(Full(m)) \in Nat /\ m.term \in Nat
        BY <1>0, RequestTypes
      <4>2. CASE p[Len(p)] < m.term
        <5>1. Starts(p, Full(m)) \/ Starts(Full(m), p)
          BY <2>1, <4>2 DEF Chosen, Spread
        <5>2. CASE c <= Len(Full(m))
          <6>1. Same(p, Full(m), c)
            <7>1. CASE Starts(p, Full(m))
              BY <2>2, <2>3, <4>1, <7>1, SameFacts DEF Starts
            <7>2. CASE Starts(Full(m), p)
              <8>1. Same(Full(m), p, c)
                BY <2>2, <4>1, <5>2, <7>2, SameFacts DEF Starts
              <8> QED BY <2>2, <4>1, <8>1, SameFacts
            <7> QED BY <5>1, <7>1, <7>2
          <6> QED BY <2>2, <3>3, <4>1, <6>1, SameFacts
        <5>3. CASE Len(Full(m)) < c
          <6>1. Starts(Full(m), p)
            <7>1. ~Starts(p, Full(m))
              BY <2>2, <2>3, <4>1, <5>3 DEF Starts, Same
            <7> QED BY <5>1, <7>1
          <6>2. Same(p, Trail[i], c)
            BY <1>1, <2>1, <2>2, SameFacts
          <6>3. Same(Full(m), p, Len(Full(m))) /\ Same(p, Trail[i], Len(Full(m)))
            BY <1>1, <2>2, <4>1, <5>3, <6>1, <6>2, SameFacts DEF Starts
          <6>4. Starts(Full(m), Trail[i])
            BY <1>1, <2>2, <4>1, <6>3, SameFacts DEF Starts
          <6> QED BY <3>3, <6>4
        <5> QED BY <4>1, <5>2, <5>3
      <4>3. CASE p[Len(p)] = m.term
        <5>1. PICK j \in Server : Starts(p, Trail[j])
          BY <1>0, PrefixTypes
        <5>2. /\ Trail[j] \in Seq(Nat) /\ Len(Trail[j]) \in Nat /\ Trail[j] \in Logs
              /\ Len(p) \in 1..Len(Trail[j]) /\ Trail[j][Len(p)] = m.term
              /\ Same(p, Trail[j], Len(p))
          <6>1. Trail[j] \in Seq(Nat) /\ Len(Trail[j]) \in Nat /\ Trail[j] \in Logs
            BY <1>0, LogTypes
          <6>2. Len(p) \in 1..Len(p)
            BY <2>2
          <6>3. Len(p) <= Len(Trail[j]) /\ p[Len(p)] = Trail[j][Len(p)]
            BY SMTT(40), <2>2, <5>1, <6>1, <6>2, StartsFacts
          <6> QED BY <2>2, <4>3, <5>1, <6>1, <6>3 DEF Starts
        <5>3. Same(Trail[j], Full(m), Lesser(Len(p), Len(Full(m))))
          BY <5>2 DEF LogInv, RequestFits
        <5>4. CASE c <= Len(Full(m))
          <6>1. c <= Lesser(Len(p), Len(Full(m))) /\ Lesser(Len(p), Len(Full(m))) \in Nat
            BY <2>2, <2>3, <4>1, <5>4 DEF Lesser
          <6>2. Same(Trail[j], Full(m), c) /\ Same(p, Trail[j], c)
            BY <2>2, <2>3, <4>1, <5>2, <5>3, <6>1, SameFacts
          <6>3. Same(p, Full(m), c)
            BY <2>2, <4>1, <5>2, <6>2, SameFacts
          <6> QED BY <2>2, <3>3, <4>1, <6>3, SameFacts
        <5>5. CASE Len(Full(m)) < c
          <6>1. PICK n \in Nat : n = Len(Full(m))
            BY <4>1
          <6>2. n <= c /\ n <= Len(p) /\ Lesser(Len(p), Len(Full(m))) = n
            BY <2>2, <2>3, <4>1, <5>5, <6>1 DEF Lesser
          <6>3. Same(Trail[j], Full(m), n) /\ Same(p, Trail[j], n) /\ Same(Trail[i], p, n)
            <7>1. Same(Trail[j], Full(m), n)
              BY <5>3, <6>2
            <7>2. Same(p, Trail[j], n)
              BY <1>1, <2>2, <5>2, <6>2, SameFacts
            <7>3. Same(Trail[i], p, n)
              BY SMTT(60), <1>1, <2>1, <2>2, <5>2, <6>2, SameFacts
            <7> QED BY <7>1, <7>2, <7>3
          <6>4. Same(Trail[i], Trail[j], n)
            BY <1>1, <2>2, <5>2, <6>3, SameFacts
          <6>5. Same(Trail[i], Full(m), n)
            BY <1>1, <4>1, <5>2, <6>3, <6>4, SameFacts
          <6>6. Starts(Full(m), Trail[i])
            BY <1>1, <4>1, <6>1, <6>5, SameFacts DEF Starts
          <6> QED BY <3>3, <6>6
        <5> QED BY <4>1, <5>4, <5>5
      <4>4. p[Len(p)] <= m.term
        BY <1>1, <2>1, <2>2, <3>3, <4>1
      <4> QED BY <2>2, <4>1, <4>2, <4>3, <4>4
    <3> QED BY <1>0, <3>1, <3>2, <3>3 DEF Takes
  <2>5. p[Len(p)] <= term'[i]
    BY <1>1, <2>1, <2>2
  <2>6. Committed(Trail[i], c, term[i])'
    BY <2>2, <2>4, <2>5 DEF Committed
  <2>7. Same(Trail'[i], Trail[i], c)
    <3>1. Same(p, Trail[i], c)
      BY <1>1, <2>1, <2>2, SameFacts
    <3> QED BY <1>1, <2>2, <2>4, <3>1, SameFacts
  <2> QED BY <2>6, <2>7
<1> QED BY <1>2, <1>3

\* A leader's log grows while it leads.
LEMMA LeaderGrows ==
    ASSUME LogInv, StepFits, LogInv', NEW i \in Server, Leads(i), Leads(i)', term'[i] = term[i]
    PROVE  /\ Trail'[i] = Trail[i] \/ Trail'[i] = Append(Trail[i], term[i])
           /\ Starts(Trail[i], Trail'[i])
<1>0. Types /\ Types' /\ (Takes(i) \/ Trail'[i] = Append(Trail[i], term[i]))
  BY StepFacts DEF LogInv
<1>1. Trail[i] \in Seq(Nat) /\ term[i] \in Nat /\ Len(Trail[i]) \in Nat
  BY <1>0 DEF Types
<1>2. ASSUME NEW m \in Requests, term'[i] = m.term, ~Starts(Full(m), Trail[i])
      PROVE  FALSE
  BY ZenonT(60), <1>2 DEF LogInv, RequestFits
<1>3. Trail'[i] = Trail[i] \/ Trail'[i] = Append(Trail[i], term[i])
  BY <1>0, <1>2 DEF Takes
<1>4. CASE Trail'[i] = Trail[i]
  BY <1>1, <1>4 DEF Starts, Same
<1>5. CASE Trail'[i] = Append(Trail[i], term[i])
  BY <1>1, <1>5, AppendFacts DEF Starts
<1> QED BY <1>3, <1>4, <1>5

\* What server j has taken of a request of leader i is in the logs of both.
LEMMA AckedFacts ==
    ASSUME LogInv, StepFits, NEW i \in Server, NEW j \in Server, NEW n \in Nat \ {0},
           Leads(i), Acked(i, j, n)
    PROVE  /\ i # j /\ term[j] <= term[i] /\ term'[j] = term[i] /\ n <= Len(Trail[i])
           /\ Same(Trail'[j], Trail[i], n)
<1>0. Types /\ Types'
  BY DEF LogInv, StepFits
<1>1. PICK m \in Requests : /\ m.src = i /\ m.dest = j /\ m.term = term[i]
                            /\ term[j] <= m.term /\ term'[j] = m.term
                            /\ n <= Len(Full(m)) /\ Starts(Full(m), Trail'[j])
  BY DEF Acked
<1>2. Full(m) \in Seq(Nat) /\ Len(Full(m)) \in Nat
  BY <1>0, RequestTypes
<1>3. m.src # m.dest /\ Starts(Full(m), Trail[i])
  BY <1>1 DEF LogInv, RequestFits
<1>4. /\ Trail[i] \in Seq(Nat) /\ Trail'[j] \in Seq(Nat) /\ Len(Trail[i]) \in Nat
      /\ Len(Trail'[j]) \in Nat
  <2>1. Trail[i] \in Seq(Nat) /\ Trail'[j] \in Seq(Nat)
    BY <1>0 DEF Types
  <2> QED BY <2>1
<1>5. /\ Len(Full(m)) <= Len(Trail[i]) /\ \A x \in 1..Len(Full(m)) : Full(m)[x] = Trail[i][x]
      /\ Len(Full(m)) <= Len(Trail'[j]) /\ \A x \in 1..Len(Full(m)) : Full(m)[x] = Trail'[j][x]
  BY <1>1, <1>3 DEF Starts, Same
<1>6. n <= Len(Trail[i]) /\ n <= Len(Trail'[j])
  BY SMTT(40), <1>1, <1>2, <1>4, <1>5
<1>7. ASSUME NEW x \in 1..n
      PROVE  Trail'[j][x] = Trail[i][x]
  <2>1. x \in 1..Len(Full(m))
    BY <1>1, <1>2
  <2> QED BY <1>5, <2>1
<1>8. Same(Trail'[j], Trail[i], n)
  BY <1>6, <1>7 DEF Same
<1> QED BY <1>1, <1>3, <1>6, <1>8

LEMMA AcksFitStays ==
    ASSUME LogInv, LogInv', StepFits, AckStep, AcksFit
    PROVE  AcksFit'
<1> SUFFICES ASSUME NEW i \in Server, NEW j \in Server, NEW n \in Nat \ {0},
                    Leads(i)', Ack(i, j, n)'
             PROVE  /\ i # j /\ n <= Len(Trail'[i]) /\ term'[i] <= term'[j]
                    /\ term'[i] = term'[j] => Same(Trail'[j], Trail'[i], n)
  BY DEF AcksFit
<1>0. Types /\ Types' /\ TermsGrow
  BY StepFacts DEF LogInv
<1>1. Leads(i) /\ term'[i] = term[i] /\ (Ack(i, j, n) \/ Acked(i, j, n))
  BY DEF AckStep
<1>2. Starts(Trail[i], Trail'[i])
  BY <1>1, LeaderGrows
<1>t. /\ term[i] \in Nat /\ term[j] \in Nat /\ term'[j] \in Nat /\ term[j] <= term'[j]
      /\ term'[i] = term[i]
  BY <1>0, <1>1 DEF Types, TermsGrow
<1>3. /\ Trail[i] \in Seq(Nat) /\ Trail'[i] \in Seq(Nat) /\ Len(Trail[i]) \in Nat
      /\ Len(Trail'[i]) \in Nat /\ Len(Trail[i]) <= Len(Trail'[i])
      /\ Trail[j] \in Seq(Nat) /\ Trail'[j] \in Seq(Nat) /\ Len(Trail[j]) \in Nat
  <2>1. /\ Trail[i] \in Seq(Nat) /\ Trail'[i] \in Seq(Nat) /\ Trail[j] \in Seq(Nat)
        /\ Trail'[j] \in Seq(Nat)
    BY <1>0 DEF Types
  <2>2. Len(Trail[i]) <= Len(Trail'[i])
    BY <1>2 DEF Starts, Same
  <2> QED BY <2>1, <2>2
<1>4. ASSUME n <= Len(Trail[i]), Same(Trail'[j], Trail[i], n)
      PROVE  Same(Trail'[j], Trail'[i], n)
  <2>1. Same(Trail[i], Trail'[i], n)
    BY <1>2, <1>3, <1>4, SameFacts DEF Starts
  <2> QED BY <1>3, <1>4, <2>1, SameFacts
<1>5. CASE Acked(i, j, n)
  <2>1. /\ i # j /\ term'[j] = term[i] /\ n <= Len(Trail[i]) /\ Same(Trail'[j], Trail[i], n)
    BY <1>1, <1>5, AckedFacts
  <2>2. Same(Trail'[j], Trail'[i], n)
    BY <1>4, <2>1
  <2>3. n <= Len(Trail'[i])
    BY <1>3, <2>1
  <2>4. term'[i] <= term'[j]
    BY <1>t, <2>1
  <2> QED BY <2>1, <2>2, <2>3, <2>4
<1>6. CASE Ack(i, j, n)
  <2>1. /\ i # j /\ n <= Len(Trail[i]) /\ term[i] <= term[j]
        /\ term[i] = term[j] => Same(Trail[j], Trail[i], n)
    BY <1>1, <1>6 DEF AcksFit
  <2>2. term'[i] <= term'[j] /\ n <= Len(Trail'[i])
    <3>1. term'[i] <= term'[j]
      <4>1. term[i] <= term[j]
        BY <2>1
      <4> QED BY <1>t, <4>1
    <3>2. n <= Len(Trail'[i])
      BY <1>3, <2>1
    <3> QED BY <3>1, <3>2
  <2>3. ASSUME term'[i] = term'[j]
        PROVE  Same(Trail'[j], Trail[i], n)
    <3>1. term[j] = term[i] /\ Same(Trail[j], Trail[i], n)
      <4>0. term[i] <= term[j]
        BY <2>1
      <4>1. term[j] = term[i]
        BY <1>t, <2>3, <4>0
      <4> QED BY <2>1, <4>1
    <3>2. Takes(j) \/ Trail'[j] = Append(Trail[j], term[j])
      BY StepFacts
    <3>3. CASE Trail'[j] = Trail[j]
      BY <3>1, <3>3
    <3>4. CASE Trail'[j] = Append(Trail[j], term[j])
      <4>1. Same(Trail[j], Trail'[j], Len(Trail[j])) /\ n <= Len(Trail[j])
        BY <1>3, <3>1, <3>4, AppendFacts DEF Same
      <4>2. Same(Trail'[j], Trail[j], n)
        BY <1>3, <4>1, SameFacts
      <4> QED BY <1>3, <3>1, <4>2, SameFacts
    <3>5. ASSUME NEW m \in Requests, term'[j] = m.term, ~Starts(Full(m), Trail[j]),
                 Trail'[j] = Full(m)
          PROVE  Same(Trail'[j], Trail[i], n)
      <4>1. Full(m) \in Seq(Nat) /\ Len(Full(m)) \in Nat
        BY <1>0, RequestTypes
      <4>2. Starts(Full(m), Trail[i])
        BY ZenonT(60), <1>1, <2>3, <3>5 DEF LogInv, RequestFits
      <4>3. CASE n <= Len(Full(m))
        BY <1>3, <3>5, <4>1, <4>2, <4>3, SameFacts DEF Starts
      <4>4. CASE Len(Full(m)) < n
        <5>1. Same(Trail[i], Trail[j], n)
          BY <1>3, <3>1, SameFacts
        <5>2. Starts(Full(m), Trail[j])
          BY <1>3, <4>1, <4>2, <4>4, <5>1, StartsFacts
        <5> QED BY <3>5, <5>2
      <4> QED BY <4>1, <4>3, <4>4
    <3> QED BY <3>2, <3>3, <3>4, <3>5 DEF Takes
  <2> QED BY <1>4, <2>1, <2>2, <2>3
<1> QED BY <1>1, <1>5, <1>6

\* Whoever has won a later term than leader i's has the votes of servers that will never hold
\* an entry of i's log that they have not told it of.
LEMMA LaterTermLoses ==
    ASSUME Types', NEW i \in Server, NEW n \in Nat, NEW k \in Server, NEW u \in Nat,
           Won(k, u)', term'[i] < u, \A j \in Server : j # i => ~Ack(i, j, n)'
    PROVE  Lost(i, n)'
<1>1. PICK Q \in Quorums' : \A j \in Q : u < term'[j] \/ (u = term'[j] /\ votedFor'[j] = k)
  BY DEF Won
<1>2. ASSUME NEW j \in Q
      PROVE  j # i /\ term'[i] < term'[j] /\ ~Ack(i, j, n)'
  <2>1. j \in Server
    BY DEF Quorums
  <2>2. term'[i] \in Nat /\ term'[j] \in Nat
    BY <2>1 DEF Types
  <2>3. u <= term'[j]
    BY <1>1, <2>2
  <2>4. term'[i] < term'[j]
    BY <2>2, <2>3
  <2> QED BY <2>1, <2>2, <2>4
<1> QED BY <1>1, <1>2 DEF Lost

\* An entry that can no longer be committed never can.
LEMMA LostStays ==
    ASSUME LogInv, StepFits, AckStep, NEW i \in Server, NEW n \in Nat \ {0},
           Leads(i), Leads(i)', term'[i] = term[i], Lost(i, n)
    PROVE  Lost(i, n)'
<1>0. Types /\ Types' /\ TermsGrow
  BY StepFacts DEF LogInv, StepFits
<1>1. PICK Q \in Quorums : \A j \in Q : j # i /\ term[i] < term[j] /\ ~Ack(i, j, n)
  BY DEF Lost
<1>2. ASSUME NEW j \in Q
      PROVE  j # i /\ term'[i] < term'[j] /\ ~Ack(i, j, n)'
  <2>1. j \in Server /\ j # i /\ term[i] < term[j] /\ ~Ack(i, j, n)
    BY <1>1 DEF Quorums
  <2>2. /\ term[i] \in Nat /\ term[j] \in Nat /\ term'[j] \in Nat /\ term[j] <= term'[j]
    BY <1>0, <2>1 DEF Types, TermsGrow
  <2>3. ~Acked(i, j, n)
    <3>1. Acked(i, j, n) => term[j] <= term[i]
      BY <2>1, AckedFacts
    <3> QED BY <2>1, <2>2, <3>1
  <2>4. ~Ack(i, j, n)'
    BY <2>1, <2>3 DEF AckStep
  <2>5. term'[i] < term'[j]
    BY <2>1, <2>2
  <2> QED BY <2>1, <2>4, <2>5
<1>3. Quorums' = Quorums
  BY DEF Quorums
<1> QED BY <1>2, <1>3 DEF Lost

\* An entry that can be committed still can, unless a candidate wins without it.
LEMMA FateStays ==
    ASSUME LogInv, LogInv', StepFits, AckStep, AcksFit,
           NEW i \in Server, Leads(i), Leads(i)', term'[i] = term[i],
           NEW p \in Seq(Nat), Len(p) > 0, p[Len(p)] = term[i], Starts(p, Trail[i]),
           Spread(p, term[i]), Holds(Told(i, Len(p)), p, term[i])
    PROVE  \/ Lost(i, Len(p))'
           \/ Spread(p, term[i])' /\ Holds(Told(i, Len(p)), p, term[i])'
<1>0. Types /\ Types' /\ TermsGrow
  BY StepFacts DEF LogInv, StepFits
<1>1. PICK t \in Nat, n \in Nat \ {0} : t = term[i] /\ n = Len(p)
  BY SMTT(40), <1>0 DEF Types
<1>2. /\ t = term[i] /\ t = term'[i] /\ t \in Nat /\ n \in Nat /\ n # 0
      /\ Spread(p, t) /\ Holds(Told(i, n), p, t)
  BY <1>1
<1>3. ASSUME NEW k \in Server, Wins(k), t < term[k] + 1, ~Starts(p, Trail[k])
      PROVE  Lost(i, n)'
  <2>1. PICK V \in Quorums : Votes(k, V)
    BY <1>3 DEF Wins
  <2>2. ASSUME NEW j \in V
        PROVE  j # i /\ term'[i] < term'[j] /\ ~Ack(i, j, n)'
    <3>1. j \in Server /\ term'[j] = term[k] + 1 /\ Recent(Trail[k], Trail[j])
      BY <2>1 DEF Votes, Quorums
    <3>2. j \notin Told(i, n)
      <4> SUFFICES ASSUME j \in Told(i, n) PROVE FALSE
        OBVIOUS
      <4>1. Starts(p, Trail[j])
        BY <1>2 DEF Holds
      <4> QED BY <1>1, <1>2, <1>3, <3>1, <4>1, Electable
    <3>3. j # i /\ ~Ack(i, j, n)
      BY <3>1, <3>2 DEF Told
    <3>4. t < term'[j]
      BY <1>3, <3>1
    <3>5. ~Acked(i, j, n)
      <4>1. Acked(i, j, n) => term'[j] = t
        BY <1>1, <3>1, AckedFacts
      <4> QED BY <1>2, <3>4, <4>1
    <3>6. ~Ack(i, j, n)'
      BY <1>1, <3>1, <3>3, <3>5 DEF AckStep
    <3> QED BY <1>2, <3>3, <3>4, <3>6
  <2>3. Quorums' = Quorums
    BY DEF Quorums
  <2> QED BY <2>2, <2>3 DEF Lost
<1>4. ASSUME \A k \in Server : Wins(k) /\ t < term[k] + 1 => Starts(p, Trail[k])
      PROVE  Spread(p, t)' /\ Holds(Told(i, n), p, t)'
  <2>1. Spread(p, t)'
    BY <1>2, <1>4, SpreadStays
  <2>2. ASSUME NEW j \in Server, j = i \/ Ack(i, j, n)'
        PROVE  t <= term'[j] /\ Starts(p, Trail'[j])
    <3>1. CASE j = i \/ Ack(i, j, n)
      <4>1. t <= term[j] /\ Starts(p, Trail[j])
        BY <1>2, <3>1 DEF Holds, Told
      <4> QED BY <1>0, <1>1, <1>2, <4>1, HoldsStays
    <3>2. CASE Acked(i, j, n)
      <4>1. term'[j] = term[i] /\ n <= Len(Trail[i]) /\ Same(Trail'[j], Trail[i], n)
        BY <1>1, <3>2, AckedFacts
      <4>2. Trail[i] \in Seq(Nat) /\ Trail'[j] \in Seq(Nat)
        BY <1>0 DEF Types
      <4>3. Same(Trail[i], Trail'[j], n)
        BY <1>2, <4>1, <4>2, SameFacts
      <4>4. Starts(p, Trail'[j])
        BY <1>1, <1>2, <4>2, <4>3, StartsFacts
      <4> QED BY <1>2, <4>1, <4>4
    <3> QED BY <1>1, <2>2, <3>1, <3>2 DEF AckStep
  <2>3. Holds(Told(i, n), p, t)'
    BY <2>2 DEF Holds, Told
  <2> QED BY <2>1, <2>3
<1>5. CASE \E k \in Server : Wins(k) /\ t < term[k] + 1 /\ ~Starts(p, Trail[k])
  BY <1>1, <1>3, <1>5
<1>6. CASE \A k \in Server : Wins(k) /\ t < term[k] + 1 => Starts(p, Trail[k])
  <2>1. Spread(p, t)' /\ Holds(Told(i, n), p, t)'
    BY <1>4, <1>6
  <2>2. PICK s : s = term[i]
    OBVIOUS
  <2>3. s = t /\ n = Len(p)
    BY <1>1, <2>2
  <2> QED BY <1>1, <2>1, <1>2 DEF Holds, Told
<1> QED BY <1>5, <1>6

\* A new entry is held by nobody else, and nothing is of a later term, or it is lost.
LEMMA NewFate ==
    ASSUME LogInv, LogInv', StepFits, AckStep, AcksFit,
           NEW i \in Server, Leads(i), Leads(i)', term'[i] = term[i],
           Trail'[i] = Append(Trail[i], term[i])
    PROVE  \/ Lost(i, Len(Trail[i]))'
           \/ /\ Spread(Trail[i], term[i])'
              /\ Holds(Told(i, Len(Trail[i])), Trail[i], term[i])'
<1>0. Types /\ Types' /\ LogsFit' /\ LeadersFit' /\ \A m \in Requests' : RequestFits(m)'
  BY DEF LogInv, StepFits
<1>1. Trail[i] \in Seq(Nat) /\ term[i] \in Nat /\ Len(Trail[i]) \in Nat
  BY <1>0 DEF Types
<1>2. PICK t \in Nat, p \in Seq(Nat), n \in Nat \ {0} :
        t = term'[i] /\ p = Trail'[i] /\ n = Len(Trail'[i])
  <2>1. term'[i] \in Nat /\ Trail'[i] \in Seq(Nat)
    BY <1>0 DEF Types
  <2>2. Len(Trail'[i]) = Len(Trail[i]) + 1
    BY <1>1, AppendFacts
  <2>3. Len(Trail'[i]) \in Nat \ {0}
    BY <1>1, <2>2
  <2> QED BY <2>1, <2>3
<1>3. /\ t \in Nat /\ n \in Nat /\ n # 0 /\ n = Len(Trail[i]) + 1 /\ t = term[i] /\ t = term'[i]
      /\ p = Trail'[i] /\ p \in Seq(Nat) /\ n = Len(p)
  BY <1>1, <1>2, AppendFacts
<1>4. ASSUME NEW j \in Server, j # i
      PROVE  ~Ack(i, j, n)'
  <2>1. Ack(i, j, n) => n <= Len(Trail[i])
    BY <1>2 DEF AcksFit
  <2>2. Acked(i, j, n) => n <= Len(Trail[i])
    BY <1>2, AckedFacts
  <2>3. ~(n <= Len(Trail[i]))
    BY <1>1, <1>3
  <2> QED BY <1>2, <2>1, <2>2, <2>3 DEF AckStep
<1>5. ASSUME NEW k \in Server, NEW u \in Nat, Won(k, u)', t < u
      PROVE  Lost(i, n)'
  BY <1>0, <1>3, <1>4, <1>5, LaterTermLoses
<1>6. ASSUME ~Lost(i, n)'
      PROVE  Spread(p, t)'
  <2>1. ASSUME NEW l \in Logs', NEW x \in 1..Len(l), t < l[x]
        PROVE  FALSE
    <3>1. l \in Seq(Nat)
      BY DEF Logs
    <3>2. l[x] \in Nat
      BY <3>1, ElementOfSeq
    <3>3. PICK k \in Server : Won(k, l[x])'
      BY <1>0 DEF LogsFit
    <3> QED BY <1>5, <1>6, <2>1, <3>2, <3>3
  <2>2. ASSUME NEW k \in Server, Leads(k)', t < term'[k]
        PROVE  FALSE
    <3>1. PICK u \in Nat : u = term'[k]
      BY <1>0 DEF Types
    <3>2. Won(k, term[k])'
      BY <1>0, <2>2 DEF LeadersFit
    <3>3. Won(k, u)'
      BY <3>1, <3>2 DEF Won
    <3> QED BY <1>5, <1>6, <2>2, <3>1, <3>3
  <2>3. ASSUME NEW m \in Requests', t < m.term
        PROVE  FALSE
    <3>1. m.term \in Nat /\ m.src \in Server
      BY <1>0 DEF Types, RequestType
    <3>2. Won(m.src, m.term)'
      BY <1>0 DEF RequestFits
    <3> QED BY <1>5, <1>6, <2>3, <3>1, <3>2
  <2> QED BY <2>1, <2>2, <2>3 DEF Spread
<1>7. Holds(Told(i, n), p, t)'
  <2>1. Starts(p, Trail'[i]) /\ t <= term'[i]
    <3>1. Starts(p, p)
      BY <1>3, StartsWith
    <3> QED BY <1>3, <3>1
  <2>2. \A j \in Server : j = i \/ ~Ack(i, j, n)'
    BY <1>4
  <2> QED BY <2>1, <2>2 DEF Holds, Told
<1>8. Spread(Trail[i], term[i])' <=> Spread(p, t)'
  BY <1>3 DEF Spread
<1>9. Holds(Told(i, Len(Trail[i])), Trail[i], term[i])' <=> Holds(Told(i, n), p, t)'
  BY <1>2, <1>3 DEF Holds, Told
<1>10. Lost(i, Len(Trail[i]))' <=> Lost(i, n)'
  BY <1>2 DEF Lost
<1> QED BY <1>6, <1>7, <1>8, <1>9, <1>10

LEMMA FateFitsStays ==
    ASSUME LogInv, LogInv', StepFits, AckStep, AcksFit, FateFits
    PROVE  FateFits'
<1> SUFFICES ASSUME NEW i \in Server, Leads(i)', NEW n \in 1..Len(Trail'[i]),
                    Trail'[i][n] = term'[i]
             PROVE  \/ Lost(i, n)'
                    \/ /\ Spread(Upto(Trail[i], n), term[i])'
                       /\ Holds(Told(i, n), Upto(Trail[i], n), term[i])'
  BY DEF FateFits
<1>0. Types /\ Types'
  BY DEF LogInv
<1>1. /\ Trail[i] \in Seq(Nat) /\ Trail'[i] \in Seq(Nat) /\ term[i] \in Nat
  BY <1>0 DEF Types
<1>2. Len(Trail[i]) \in Nat /\ Len(Trail'[i]) \in Nat /\ n \in Nat /\ n > 0 /\ n <= Len(Trail'[i])
  BY <1>1
<1>3. Leads(i) /\ term'[i] = term[i]
  <2>1. CASE Wins(i)
    <3>1. Trail'[i] = Trail[i] /\ term'[i] = term[i] + 1 /\ Trail[i] \in Logs
      BY <1>0, <2>1, LogTypes DEF Wins
    <3> QED BY <2>1, <3>1, WinsAreNew
  <2> QED BY <2>1, StepFacts
<1>4. PICK p : p = Upto(Trail'[i], n)
  OBVIOUS
<1>5. p \in Seq(Nat) /\ Len(p) = n /\ \A x \in 1..n : p[x] = Trail'[i][x]
  BY <1>1, <1>2, <1>4, UptoFacts
<1>6. Starts(p, Trail'[i]) /\ p[Len(p)] = term[i] /\ Len(p) > 0
  <2>1. Starts(p, Trail'[i])
    BY <1>2, <1>5 DEF Starts, Same
  <2>2. n \in 1..n
    BY <1>2
  <2> QED BY <1>2, <1>3, <1>5, <2>1, <2>2
<1>7. CASE n <= Len(Trail[i])
  <2>1. Starts(Trail[i], Trail'[i])
    BY <1>3, LeaderGrows
  <2>2. \A x \in 1..n : Trail[i][x] = Trail'[i][x]
    BY <1>2, <1>7, <2>1 DEF Starts, Same
  <2>3. p = Upto(Trail[i], n)
    <3>1. PICK q : q = Upto(Trail[i], n)
      OBVIOUS
    <3>2. q \in Seq(Nat) /\ Len(q) = n /\ \A x \in 1..n : q[x] = Trail[i][x]
      BY <1>1, <1>2, <1>7, <3>1, UptoFacts
    <3>3. p = q
      BY <1>5, <2>2, <3>2, SeqEqual
    <3> QED BY <3>1, <3>3
  <2>4. Starts(p, Trail[i])
    <3>1. \A x \in 1..n : p[x] = Trail[i][x]
      BY <1>5, <2>2
    <3> QED BY <1>2, <1>5, <1>7, <3>1 DEF Starts, Same
  <2>5. n \in 1..Len(Trail[i]) /\ Trail[i][n] = term[i]
    <3>1. n \in 1..n /\ n \in 1..Len(Trail[i])
      BY <1>2, <1>7
    <3> QED BY <1>3, <2>2, <3>1
  <2>6. \/ Lost(i, n)
        \/ Spread(p, term[i]) /\ Holds(Told(i, n), p, term[i])
    BY <1>3, <2>3, <2>5 DEF FateFits
  <2>7. CASE Lost(i, n)
    BY <1>2, <1>3, <2>7, LostStays
  <2>8. CASE Spread(p, term[i]) /\ Holds(Told(i, n), p, term[i])
    <3>1. \/ Lost(i, n)'
          \/ Spread(p, term[i])' /\ Holds(Told(i, n), p, term[i])'
      BY <1>3, <1>5, <1>6, <2>4, <2>8, FateStays
    <3> QED BY <1>4, <3>1, Zenon
  <2> QED BY <2>6, <2>7, <2>8
<1>8. CASE Len(Trail[i]) < n
  <2>1. Trail'[i] = Append(Trail[i], term[i]) /\ n = Len(Trail'[i])
    <3>1. Trail'[i] = Trail[i] \/ Trail'[i] = Append(Trail[i], term[i])
      BY <1>3, LeaderGrows
    <3>2. Len(Append(Trail[i], term[i])) = Len(Trail[i]) + 1
      BY <1>1, AppendFacts
    <3> QED BY <1>2, <1>8, <3>1, <3>2
  <2>2. \/ Lost(i, Len(Trail[i]))'
        \/ /\ Spread(Trail[i], term[i])'
           /\ Holds(Told(i, Len(Trail[i])), Trail[i], term[i])'
    BY <1>3, <2>1, NewFate
  <2>3. p = Trail'[i]
    BY <1>1, <1>5, <2>1, SeqEqual
  <2>4. Upto(Trail'[i], n) = Trail'[i] /\ n = Len(Trail'[i])
    BY <1>4, <2>1, <2>3
  <2>5. \/ Lost(i, n)'
        \/ Spread(p, term[i])' /\ Holds(Told(i, n), p, term[i])'
    BY <2>2, <2>3, <2>4, Zenon
  <2> QED BY <1>4, <2>5, Zenon
<1> QED BY <1>2, <1>7, <1>8

-----------------------------------------------------------------------------
(* Committing. *)

\* Server i learns that its first n commands are committed: it counts them, or a leader says so.
Commits(i, n) ==
    \/ Committed(Trail[i], n, term[i])
    \/ \E m \in Requests : /\ CommitOf(m) = n /\ m.term = term'[i]
                           /\ Starts(Full(m), Trail'[i])

\* A commit index goes up when a server learns of a commit, and back when it restarts.
CommitStep ==
    \A i \in Server : \/ commitIndex'[i] <= commitIndex[i]
                      \/ \E n \in Nat : commitIndex'[i] = n /\ Commits(i, n)

LEMMA QuietCommits ==
    ASSUME Types, UNCHANGED commitIndex
    PROVE  CommitStep
<1>1. \A i \in Server : commitIndex[i] \in Nat
  BY DEF Types
<1>2. \A i \in Server : commitIndex'[i] <= commitIndex[i]
  BY <1>1
<1> QED BY <1>2 DEF CommitStep

\* A beginning of what is committed is.
LEMMA CommittedLess ==
    ASSUME Types, NEW l \in Seq(Nat), NEW k \in Seq(Nat), NEW c \in Nat, NEW d \in Nat, NEW t,
           Committed(l, c, t), d <= c, d <= Len(k), Starts(k, l)
    PROVE  Committed(k, d, t)
<1>1. CASE d = 0
  BY <1>1 DEF Committed
<1>2. CASE d > 0
  <2>1. c > 0
    BY <1>2
  <2>2. PICK p \in Prefixes : Chosen(p) /\ p[Len(p)] <= t /\ Same(l, p, c)
    BY <2>1 DEF Committed
  <2>3. p \in Seq(Nat) /\ Len(k) \in Nat
    BY <2>2, PrefixTypes
  <2>4. Same(l, p, d) /\ Same(k, l, d)
    BY <2>2, <2>3, SameFacts DEF Starts
  <2>5. Same(k, p, d)
    BY <2>3, <2>4, SameFacts
  <2> QED BY <2>2, <2>5 DEF Committed
<1> QED BY <1>1, <1>2

\* What a leader counts is committed.
LEMMA CountIsCommitted ==
    ASSUME LogInv, FateFits, NEW i \in Server, NEW N \in 1..Len(Trail[i]), Leads(i),
           NEW R \in Quorums, \A j \in R : j = i \/ N <= Known(i, j), Trail[i][N] = term[i]
    PROVE  Committed(Trail[i], N, term[i])
<1>0. Types
  BY DEF LogInv
<1>1. /\ Trail[i] \in Seq(Nat) /\ Len(Trail[i]) \in Nat /\ term[i] \in Nat
      /\ N \in Nat /\ N > 0 /\ N <= Len(Trail[i])
  <2>1. Trail[i] \in Seq(Nat) /\ term[i] \in Nat
    BY <1>0 DEF Types
  <2> QED BY <2>1
<1>4. R \subseteq Told(i, N)
  BY DEF Quorums, Told, Ack
<1>5. ~Lost(i, N)
  <2> SUFFICES ASSUME Lost(i, N) PROVE FALSE
    OBVIOUS
  <2>1. PICK Q \in Quorums : \A j \in Q : j # i /\ ~Ack(i, j, N)
    BY DEF Lost
  <2>2. PICK j \in Server : j \in Q /\ j \in R
    BY QuorumsMeet
  <2> QED BY <1>4, <2>1, <2>2 DEF Told
<1>6. /\ Spread(Upto(Trail[i], N), term[i])
      /\ Holds(Told(i, N), Upto(Trail[i], N), term[i])
  BY <1>5 DEF FateFits
<1>7. PICK p : p = Upto(Trail[i], N)
  OBVIOUS
<1>8. p \in Seq(Nat) /\ Len(p) = N /\ \A x \in 1..N : p[x] = Trail[i][x]
  BY <1>1, <1>7, UptoFacts
<1>9. p[Len(p)] = term[i] /\ Same(Trail[i], p, N)
  <2>1. N \in 1..N
    BY <1>1
  <2> QED BY <1>1, <1>8, <2>1 DEF Same
<1>10. Chosen(p)
  <2>1. Holds(R, p, term[i])
    BY <1>4, <1>6, <1>7 DEF Holds
  <2> QED BY <1>6, <1>7, <1>9, <2>1 DEF Chosen
<1>11. p \in Prefixes
  BY <1>7 DEF Prefixes
<1>12. p[Len(p)] <= term[i]
  BY <1>1, <1>9
<1> QED BY <1>9, <1>10, <1>11, <1>12 DEF Committed

LEMMA CommitFitsStays ==
    ASSUME LogInv, LogInv', StepFits, CommitStep, CommitFits
    PROVE  CommitFits'
<1>0. Types /\ Types' /\ TermsGrow
  BY StepFacts DEF LogInv
<1>1. ASSUME NEW i \in Server
      PROVE  /\ commitIndex[i] \in Nat /\ commitIndex'[i] \in Nat
             /\ term[i] \in Nat /\ term'[i] \in Nat
             /\ Trail[i] \in Seq(Nat) /\ Trail'[i] \in Seq(Nat) /\ term[i] <= term'[i]
  BY <1>0 DEF Types, TermsGrow
<1>2. ASSUME NEW i \in Server, NEW n \in Nat, Commits(i, n)
      PROVE  Committed(Trail[i], n, term[i])'
  <2>1. CASE Committed(Trail[i], n, term[i])
    BY <2>1, CommittedStays
  <2>2. ASSUME NEW m \in Requests, CommitOf(m) = n, m.term = term'[i],
               Starts(Full(m), Trail'[i]), n > 0
        PROVE  Committed(Trail[i], n, term[i])'
    <3>1. PICK p \in Prefixes : Chosen(p) /\ p[Len(p)] <= m.term /\ Same(Full(m), p, n)
      BY <2>2 DEF CommitFits, Committed
    <3>2. p \in Seq(Nat) /\ p \in Prefixes' /\ Chosen(p)'
      BY <1>0, <3>1, PrefixTypes, ChosenStays
    <3>3. Full(m) \in Seq(Nat) /\ Len(Full(m)) \in Nat /\ n <= Len(Full(m))
      BY <1>0, <3>1, RequestTypes DEF Same
    <3>4. Same(Full(m), Trail'[i], n)
      BY <1>1, <2>2, <3>3, SameFacts DEF Starts
    <3>5. Same(Trail'[i], p, n)
      <4>1. Same(Trail'[i], Full(m), n)
        BY <1>1, <3>3, <3>4, SameFacts
      <4> QED BY <1>1, <3>1, <3>2, <3>3, <4>1, SameFacts
    <3> QED BY <2>2, <3>1, <3>2, <3>5 DEF Committed
  <2>3. CASE n = 0
    BY <2>3 DEF Committed
  <2> QED BY <1>2, <2>1, <2>2, <2>3 DEF Commits
<1>3. ASSUME NEW i \in Server
      PROVE  Committed(Trail[i], commitIndex[i], term[i])'
  <2>1. ASSUME commitIndex'[i] <= commitIndex[i]
        PROVE  Committed(Trail[i], commitIndex[i], term[i])'
    <3>1. PICK c \in Nat, d \in Nat : c = commitIndex[i] /\ d = commitIndex'[i]
      BY <1>1
    <3>2. Committed(Trail[i], c, term[i])
      BY <3>1 DEF CommitFits
    <3>3. Committed(Trail[i], d, term[i])
      <4>1. d <= c
        BY <2>1, <3>1
      <4>2. d <= Len(Trail[i])
        <5>1. c > 0 => c <= Len(Trail[i])
          BY <3>2 DEF Committed, Same
        <5> QED BY <1>1, <4>1, <5>1
      <4>3. Starts(Trail[i], Trail[i])
        BY <1>1, StartsWith
      <4> QED BY <1>0, <1>1, <3>2, <4>1, <4>2, <4>3, CommittedLess
    <3>4. Committed(Trail[i], d, term[i])'
      BY <3>3, CommittedStays
    <3> QED BY <3>1, <3>4 DEF Committed
  <2>3. ASSUME NEW n \in Nat, commitIndex'[i] = n, Commits(i, n)
        PROVE  Committed(Trail[i], commitIndex[i], term[i])'
    <3>1. Committed(Trail[i], n, term[i])'
      BY <1>2, <2>3
    <3> QED BY <2>3, <3>1 DEF Committed
  <2> QED BY <2>1, <2>3 DEF CommitStep
<1>4. ASSUME NEW l, NEW c, NEW t, Committed(l, c, t)
      PROVE  Committed(l, c, t)'
  BY <1>4, ChosenStays DEF Committed
<1>5. ASSUME NEW m \in Requests'
      PROVE  Committed(Full(m), CommitOf(m), m.term)'
  <2>1. CASE m \in Requests
    BY <1>4, <2>1 DEF CommitFits
  <2>2. ASSUME NEW i \in Server, Cut(m, i)
        PROVE  Committed(Full(m), CommitOf(m), m.term)
    <3>1. Full(m) \in Seq(Nat) /\ CommitOf(m) \in Nat
      BY <1>0, RequestTypes DEF Types, RequestType
    <3>2. /\ Starts(Full(m), Trail[i]) /\ m.term = term[i]
          /\ CommitOf(m) <= commitIndex[i] /\ CommitOf(m) <= Len(Full(m))
      BY <2>2 DEF Cut
    <3>3. Committed(Trail[i], commitIndex[i], m.term)
      BY <3>2 DEF CommitFits
    <3> QED BY <1>0, <1>1, <3>1, <3>2, <3>3, CommittedLess
  <2>3. Committed(Full(m), CommitOf(m), m.term)
    BY <2>1, <2>2, StepFacts DEF CommitFits
  <2> QED BY <1>4, <2>3
<1> QED BY <1>3, <1>5 DEF CommitFits

-----------------------------------------------------------------------------
(* Snapshots, logs and trails. *)

\* The commands of a log with entries of the terms of l.
Numbering(l, n) == [x \in 1..n |-> <<l[x], x>>]

\* The terms of numbered commands say which they are.
LEMMA NumberedFacts ==
    ASSUME NEW s \in Seq(Command), Numbered(s)
    PROVE  /\ Terms(s) \in Seq(Nat) /\ Len(Terms(s)) = Len(s) /\ Len(s) \in Nat
           /\ \A k \in 1..Len(s) : Terms(s)[k] = s[k][1] /\ s[k] = <<Terms(s)[k], k>>
           /\ s = Numbering(Terms(s), Len(s))
<1>1. ASSUME NEW k \in 1..Len(s)
      PROVE  s[k][1] \in Nat /\ s[k] = <<s[k][1], k>>
  <2>1. s[k] \in Seq(Nat) /\ s[k] = <<s[k][1], k>>
    BY ElementOfSeq DEF Command, Numbered
  <2>2. PICK e, c : e = s[k][1] /\ c = s[k]
    OBVIOUS
  <2>3. c \in Seq(Nat) /\ c = <<e, k>>
    BY <2>1, <2>2
  <2>4. Len(c) = 2 /\ c[1] = e
    BY <2>3
  <2>5. c[1] \in Nat
    BY <2>3, <2>4, ElementOfSeq
  <2> QED BY <2>1, <2>2, <2>4, <2>5
<1>2. Len(s) \in Nat
  OBVIOUS
<1>3. Terms(s) \in Seq(Nat) /\ Len(Terms(s)) = Len(s)
      /\ \A k \in 1..Len(s) : Terms(s)[k] = s[k][1]
  BY <1>1, <1>2 DEF Terms
<1>4. PICK u : u = Terms(s)
  OBVIOUS
<1>5. \A k \in 1..Len(s) : s[k] = <<u[k], k>>
  BY <1>1, <1>3, <1>4
<1>6. s = [k \in 1..Len(s) |-> s[k]]
  OBVIOUS
<1>7. s = Numbering(u, Len(s))
  BY <1>5, <1>6 DEF Numbering
<1> QED BY <1>2, <1>3, <1>4, <1>5, <1>7

\* Numbered commands of the first n terms of a log.
LEMMA NumberingFacts ==
    ASSUME NEW l \in Seq(Nat), NEW n \in Nat, n <= Len(l)
    PROVE  /\ Numbering(l, n) \in Seq(Command) /\ Len(Numbering(l, n)) = n
           /\ \A x \in 1..n : Numbering(l, n)[x] = <<l[x], x>>
           /\ Numbered(Numbering(l, n)) /\ Terms(Numbering(l, n)) = Upto(l, n)
<1>1. \A x \in 1..n : l[x] \in Nat
  BY ElementOfSeq
<1>2. \A x \in 1..n : <<l[x], x>> \in Seq(Nat)
  BY <1>1
<1>3. /\ Numbering(l, n) \in Seq(Command) /\ Len(Numbering(l, n)) = n
      /\ \A x \in 1..n : Numbering(l, n)[x] = <<l[x], x>>
  BY <1>2 DEF Numbering, Command
<1>4. PICK s : s = Numbering(l, n)
  OBVIOUS
<1>5. s \in Seq(Command) /\ Len(s) = n /\ \A x \in 1..n : s[x] = <<l[x], x>>
  BY <1>3, <1>4
<1>6. \A x \in 1..n : s[x][1] = l[x]
  BY <1>5
<1>7. Numbered(s)
  BY <1>5, <1>6 DEF Numbered
<1>8. Terms(s) \in Seq(Nat) /\ Len(Terms(s)) = n /\ \A x \in 1..n : Terms(s)[x] = l[x]
  BY <1>5, <1>6, <1>7, NumberedFacts
<1>9. Upto(l, n) \in Seq(Nat) /\ Len(Upto(l, n)) = n /\ \A x \in 1..n : Upto(l, n)[x] = l[x]
  BY UptoFacts
<1>10. Terms(s) = Upto(l, n)
  BY <1>8, <1>9, SeqEqual
<1> QED BY <1>3, <1>4, <1>7, <1>10

\* A snapshot and the log behind it, as one sequence of terms.
LEMMA WholeFacts ==
    ASSUME NEW s \in Seq(Command), NEW l \in Seq(Entry), Formed(s, l)
    PROVE  /\ Len(s) \in Nat /\ Len(l) \in Nat /\ Len(l) >= 1
           /\ Whole(s, l) \in Seq(Nat) /\ Len(Whole(s, l)) = Len(s) + Len(l) - 1
           /\ \A k \in 1..Len(s) : Whole(s, l)[k] = Terms(s)[k]
           /\ \A p \in 1..Len(l) : l[p].term = At(Whole(s, l), Len(s) + p - 1)
           /\ TopTerm(Whole(s, l)) = l[Len(l)].term
           /\ Starts(Terms(s), Whole(s, l))
<1>1. /\ Len(s) \in Nat /\ Len(l) \in Nat /\ Len(l) >= 1
      /\ Terms(s) \in Seq(Nat) /\ Len(Terms(s)) = Len(s)
      /\ \A k \in 1..Len(s) : Terms(s)[k] = s[k][1]
      /\ l[1].term = At(Terms(s), Len(s))
  BY NumberedFacts DEF Formed
<1>2. ASSUME NEW p \in 1..Len(l)
      PROVE  l[p].term \in Nat
  <2>1. l[p] \in Entry
    BY ElementOfSeq
  <2> QED BY <2>1 DEF Entry
<1>3. ASSUME NEW k \in 1..Len(s)
      PROVE  s[k][1] \in Nat
  <2>1. Terms(s)[k] \in Nat
    BY <1>1, ElementOfSeq
  <2> QED BY <1>1, <2>1
<1>4. PICK n \in Nat, r \in Nat : n = Len(s) /\ r = Len(s) + Len(l) - 1
  <2>1. Len(s) + Len(l) - 1 \in Nat
    BY <1>1
  <2> QED BY <1>1, <2>1
<1>5. PICK w : w = [k \in 1..r |-> IF k <= n THEN s[k][1] ELSE l[k - n + 1].term]
  OBVIOUS
<1>6. w = Whole(s, l)
  BY <1>4, <1>5 DEF Whole
<1>7. ASSUME NEW k \in 1..r
      PROVE  (IF k <= n THEN s[k][1] ELSE l[k - n + 1].term) \in Nat
  <2>1. CASE k <= n
    BY <1>3, <1>4, <2>1
  <2>2. CASE ~(k <= n)
    <3>1. k - n + 1 \in 1..Len(l)
      BY <1>1, <1>4, <2>2
    <3> QED BY <1>2, <2>2, <3>1
  <2> QED BY <2>1, <2>2
<1>8. w \in Seq(Nat) /\ Len(w) = r /\ \A k \in 1..r :
        w[k] = IF k <= n THEN s[k][1] ELSE l[k - n + 1].term
  BY <1>5, <1>7
<1>9. ASSUME NEW k \in 1..n
      PROVE  w[k] = Terms(s)[k]
  <2>1. k \in 1..r /\ k <= n /\ k \in 1..Len(s)
    BY <1>1, <1>4
  <2>2. w[k] = s[k][1]
    BY <1>8, <2>1
  <2> QED BY <1>1, <2>1, <2>2
<1>10. ASSUME NEW p \in 1..Len(l)
       PROVE  l[p].term = At(w, n + p - 1)
  <2>1. CASE p = 1
    <3>1. At(w, n) = At(Terms(s), n)
      BY <1>9 DEF At
    <3> QED BY <1>1, <1>4, <2>1, <3>1
  <2>2. CASE p > 1
    <3>1. n + p - 1 \in 1..r /\ ~(n + p - 1 <= n) /\ n + p - 1 # 0 /\ (n + p - 1) - n + 1 = p
      BY <1>1, <1>4, <2>2
    <3> QED BY <1>8, <3>1 DEF At
  <2> QED BY <2>1, <2>2
<1>11. TopTerm(w) = l[Len(l)].term
  <2>1. Len(l) \in 1..Len(l) /\ n + Len(l) - 1 = r
    BY <1>1, <1>4
  <2> QED BY <1>8, <1>10, <2>1 DEF TopTerm
<1>12. Starts(Terms(s), w)
  BY <1>1, <1>4, <1>8, <1>9 DEF Starts, Same
<1> QED BY <1>1, <1>4, <1>6, <1>8, <1>9, <1>10, <1>11, <1>12

\* The commands of a snapshot and the log behind it are numbered, up to any index.
LEMMA HistoryFacts ==
    ASSUME NEW s \in Seq(Command), NEW l \in Seq(Entry), Formed(s, l),
           NEW n \in Nat, n <= Len(Whole(s, l))
    PROVE  SubSeq(s \o Commands(Tail(l)), 1, n) = Numbering(Whole(s, l), n)
<1>1. /\ Len(s) \in Nat /\ Len(l) \in Nat /\ Len(l) >= 1
      /\ Whole(s, l) \in Seq(Nat) /\ Len(Whole(s, l)) = Len(s) + Len(l) - 1
      /\ \A k \in 1..Len(s) : Whole(s, l)[k] = Terms(s)[k]
      /\ \A p \in 1..Len(l) : l[p].term = At(Whole(s, l), Len(s) + p - 1)
  BY WholeFacts
<1>2. PICK w, t, c, h :
         /\ w \in Seq(Nat)
         /\ w = Whole(s, l) /\ t = Tail(l) /\ c = Commands(Tail(l)) /\ h = s \o Commands(Tail(l))
  BY <1>1
<1>3. t \in Seq(Entry) /\ Len(t) = Len(l) - 1 /\ \A k \in 1..Len(t) : t[k] = l[k + 1]
  <2>1. l # <<>>
    BY <1>1
  <2> QED BY <1>2, <2>1, HeadTailProperties
<1>4. c \in Seq(Command) /\ Len(c) = Len(l) - 1 /\ \A k \in 1..Len(c) : c[k] = l[k + 1].cmd
  <2>1. ASSUME NEW k \in 1..Len(t)
        PROVE  t[k].cmd \in Command
    <3>1. t[k] \in Entry
      BY <1>3, ElementOfSeq
    <3> QED BY <3>1 DEF Entry
  <2>2. Len(t) \in Nat
    BY <1>1, <1>3
  <2>3. c = [k \in 1..Len(t) |-> t[k].cmd]
    BY <1>2 DEF Commands
  <2>4. c \in Seq(Command) /\ Len(c) = Len(t) /\ \A k \in 1..Len(t) : c[k] = t[k].cmd
    BY <2>1, <2>2, <2>3
  <2> QED BY <1>3, <2>4
<1>5. /\ h \in Seq(Command) /\ Len(h) = Len(w)
      /\ \A k \in 1..Len(w) : h[k] = IF k <= Len(s) THEN s[k] ELSE c[k - Len(s)]
  <2>1. h = s \o c
    BY <1>2
  <2>2. /\ h \in Seq(Command) /\ Len(h) = Len(s) + Len(c)
        /\ \A k \in 1..Len(s) + Len(c) : h[k] = IF k <= Len(s) THEN s[k] ELSE c[k - Len(s)]
    BY <1>4, <2>1, ConcatProperties
  <2>3. Len(s) + Len(c) = Len(w)
    BY <1>1, <1>2, <1>4
  <2> QED BY <2>2, <2>3
<1>6. ASSUME NEW k \in 1..Len(w)
      PROVE  h[k] = <<w[k], k>>
  <2>1. CASE k <= Len(s)
    <3>1. k \in 1..Len(s)
      BY <2>1
    <3>2. s[k] = <<Terms(s)[k], k>>
      BY <3>1, NumberedFacts DEF Formed
    <3> QED BY <1>1, <1>2, <1>5, <2>1, <3>1, <3>2
  <2>2. CASE ~(k <= Len(s))
    <3>0. PICK n0 \in Nat, n1 \in Nat : n0 = Len(s) /\ n1 = Len(l)
      BY <1>1
    <3>l. Len(w) = n0 + n1 - 1 /\ Len(c) = n1 - 1 /\ k \in 1..n0 + n1 - 1 /\ ~(k <= n0)
      BY <1>1, <1>2, <1>4, <2>2, <3>0
    <3>p. k - n0 + 1 \in Nat
      BY <3>l
    <3>1. PICK p \in Nat : p = k - n0 + 1
      BY <3>p
    <3>2. p \in 2..Len(l) /\ k - Len(s) \in 1..Len(c) /\ Len(s) + p - 1 = k /\ k # 0
      <4>1. p \in 2..n1 /\ k - n0 \in 1..n1 - 1 /\ n0 + p - 1 = k /\ k # 0
        BY <3>l, <3>1
      <4> QED BY <3>0, <3>l, <4>1
    <3>3. l[p].cmd = <<l[p].term, k>>
      BY <3>2 DEF Formed
    <3>4. l[p].term = w[k]
      <4>1. p \in 1..Len(l)
        BY <3>2
      <4>2. l[p].term = At(w, k)
        BY <1>1, <1>2, <3>2, <4>1
      <4> QED BY <3>2, <4>2 DEF At
    <3>5. h[k] = l[p].cmd
      <4>1. h[k] = c[k - Len(s)]
        BY <1>5, <2>2
      <4>2. c[k - Len(s)] = l[(k - Len(s)) + 1].cmd
        BY <1>4, <3>2
      <4> QED BY <3>0, <3>1, <4>1, <4>2
    <3> QED BY <3>3, <3>4, <3>5
  <2> QED BY <2>1, <2>2
<1>7. n <= Len(h) /\ n <= Len(w) /\ Len(h) \in Nat
  BY <1>2, <1>5
<1>8. \A k \in 1..n : h[k] \in Command
  BY <1>5, <1>7, ElementOfSeq
<1>9. SubSeq(h, 1, n) = [k \in 1..n |-> h[k]]
  BY <1>7
<1>10. \A k \in 1..n : h[k] = <<w[k], k>>
  BY <1>6, <1>7
<1> QED BY <1>2, <1>9, <1>10 DEF Numbering

\* Commands that agree are those of the same log.
LEMMA NumberingSame ==
    ASSUME NEW l \in Seq(Nat), NEW k \in Seq(Nat), NEW n \in Nat, n <= Len(l), n <= Len(k)
    PROVE  Numbering(l, n) = Numbering(k, n) <=> Same(l, k, n)
<1>1. PICK a, b : a = Numbering(l, n) /\ b = Numbering(k, n)
  OBVIOUS
<1>2. /\ a \in Seq(Command) /\ Len(a) = n /\ \A x \in 1..n : a[x] = <<l[x], x>>
      /\ b \in Seq(Command) /\ Len(b) = n /\ \A x \in 1..n : b[x] = <<k[x], x>>
  BY <1>1, NumberingFacts
<1>3. ASSUME a = b, NEW x \in 1..n
      PROVE  l[x] = k[x]
  BY <1>2, <1>3
<1>4. ASSUME Same(l, k, n)
      PROVE  a = b
  <2>1. \A x \in 1..n : a[x] = b[x]
    BY <1>2, <1>4 DEF Same
  <2> QED BY <1>2, <2>1, SeqEqual
<1> QED BY <1>1, <1>3, <1>4 DEF Same

\* Of two sequences of numbered commands one is a prefix of the other when their terms are.
LEMMA PrefixIs ==
    ASSUME NEW s \in Seq(Command), NEW t \in Seq(Command), Numbered(s), Numbered(t)
    PROVE  IsPrefixOf(s, t) <=> Starts(Terms(s), Terms(t))
<1>1. /\ Terms(s) \in Seq(Nat) /\ Len(Terms(s)) = Len(s) /\ Len(s) \in Nat
      /\ \A k \in 1..Len(s) : s[k] = <<Terms(s)[k], k>>
      /\ Terms(t) \in Seq(Nat) /\ Len(Terms(t)) = Len(t) /\ Len(t) \in Nat
      /\ \A k \in 1..Len(t) : t[k] = <<Terms(t)[k], k>>
  BY NumberedFacts
<1>2. ASSUME Len(s) <= Len(t)
      PROVE  s = SubSeq(t, 1, Len(s)) <=> \A k \in 1..Len(s) : s[k] = t[k]
  <2>1. SubSeq(t, 1, Len(s)) = [k \in 1..Len(s) |-> t[k]]
    BY <1>1, <1>2
  <2>2. s = [k \in 1..Len(s) |-> s[k]]
    OBVIOUS
  <2> QED BY <2>1, <2>2
<1>3. ASSUME Len(s) <= Len(t), NEW k \in 1..Len(s)
      PROVE  s[k] = t[k] <=> Terms(s)[k] = Terms(t)[k]
  <2>1. k \in 1..Len(t)
    BY <1>1, <1>3
  <2>2. PICK a, b, c, d : a = s[k] /\ b = t[k] /\ c = Terms(s)[k] /\ d = Terms(t)[k]
    OBVIOUS
  <2>3. a = <<c, k>> /\ b = <<d, k>>
    BY <1>1, <2>1, <2>2
  <2>4. a = b <=> c = d
    BY <2>3
  <2> QED BY <2>2, <2>4
<1>4. Starts(Terms(s), Terms(t)) <=>
        Len(s) <= Len(t) /\ \A k \in 1..Len(s) : Terms(s)[k] = Terms(t)[k]
  BY <1>1 DEF Starts, Same
<1> QED BY <1>2, <1>3, <1>4 DEF IsPrefixOf

\* A log that goes on where its snapshot ends, told by the terms of both.
LEMMA FormedIs ==
    ASSUME NEW s \in Seq(Command), NEW l \in Seq(Entry), NEW f \in Seq(Nat), Numbered(s),
           Len(l) >= 1, Len(f) = Len(s) + Len(l) - 1, Starts(Terms(s), f),
           \A p \in 1..Len(l) : l[p].term = At(f, Len(s) + p - 1),
           l[1].cmd = <<>> \/ l[1].cmd = <<l[1].term, Len(s)>>,
           \A p \in 2..Len(l) : l[p].cmd = <<l[p].term, Len(s) + p - 1>>
    PROVE  Formed(s, l) /\ Whole(s, l) = f
<1>1. /\ Len(s) \in Nat /\ Len(l) \in Nat /\ Len(f) \in Nat
      /\ Terms(s) \in Seq(Nat) /\ Len(Terms(s)) = Len(s)
      /\ \A k \in 1..Len(s) : Terms(s)[k] = f[k]
  BY NumberedFacts DEF Starts, Same
<1>2. l[1].term = At(Terms(s), Len(s))
  <2>1. 1 \in 1..Len(l) /\ Len(s) + 1 - 1 = Len(s)
    BY <1>1
  <2>2. l[1].term = At(f, Len(s))
    BY <2>1
  <2> QED BY <1>1, <2>2 DEF At
<1>3. Formed(s, l)
  BY <1>2 DEF Formed
<1>4. PICK w \in Seq(Nat) : w = Whole(s, l)
  BY <1>3, WholeFacts
<1>5. /\ Len(w) = Len(f)
      /\ \A k \in 1..Len(s) : w[k] = Terms(s)[k]
      /\ \A p \in 1..Len(l) : l[p].term = At(w, Len(s) + p - 1)
  BY <1>3, <1>4, WholeFacts
<1>6. ASSUME NEW k \in 1..Len(w)
      PROVE  w[k] = f[k]
  <2>1. CASE k <= Len(s)
    BY <1>1, <1>5, <2>1
  <2>2. CASE ~(k <= Len(s))
    <3>1. k - Len(s) + 1 \in 1..Len(l) /\ Len(s) + (k - Len(s) + 1) - 1 = k /\ k # 0
      BY <1>1, <1>5, <2>2
    <3>2. At(w, k) = At(f, k)
      BY <1>5, <3>1
    <3> QED BY <3>1, <3>2 DEF At
  <2> QED BY <2>1, <2>2
<1>7. w = f
  BY <1>5, <1>6, SeqEqual
<1> QED BY <1>3, <1>4, <1>7

\* Start appends a command.
LEMMA FormedAppend ==
    ASSUME NEW s \in Seq(Command), NEW l \in Seq(Entry), Formed(s, l), NEW t \in Nat,
           NEW e, e = [term |-> t, cmd |-> <<t, Len(s) + Len(l)>>]
    PROVE  /\ Append(l, e) \in Seq(Entry) /\ Formed(s, Append(l, e))
           /\ Whole(s, Append(l, e)) = Append(Whole(s, l), t)
<1>1. /\ Len(s) \in Nat /\ Len(l) \in Nat /\ Len(l) >= 1
      /\ Whole(s, l) \in Seq(Nat) /\ Len(Whole(s, l)) = Len(s) + Len(l) - 1
      /\ \A p \in 1..Len(l) : l[p].term = At(Whole(s, l), Len(s) + p - 1)
      /\ Starts(Terms(s), Whole(s, l)) /\ Terms(s) \in Seq(Nat)
  BY WholeFacts, NumberedFacts DEF Formed
<1>2. PICK w, h, f : w \in Seq(Nat) /\ w = Whole(s, l) /\ h = Append(l, e) /\ f = Append(w, t)
  BY <1>1
<1>3. e \in Entry
  <2>1. Len(s) + Len(l) \in Nat
    BY <1>1
  <2>2. <<t, Len(s) + Len(l)>> \in Seq(Nat)
    BY <2>1
  <2> QED BY <2>2 DEF Entry, Command
<1>4. /\ h \in Seq(Entry) /\ Len(h) = Len(l) + 1 /\ h[Len(l) + 1] = e
      /\ \A x \in 1..Len(l) : h[x] = l[x]
  BY <1>2, <1>3, AppendProperties
<1>5. /\ f \in Seq(Nat) /\ Len(f) = Len(w) + 1 /\ f[Len(w) + 1] = t
      /\ \A x \in 1..Len(w) : f[x] = w[x]
  BY <1>2, AppendFacts DEF Same
<1>6. Starts(Terms(s), f)
  <2>1. /\ Len(Terms(s)) \in Nat /\ Len(Terms(s)) <= Len(w)
        /\ \A x \in 1..Len(Terms(s)) : Terms(s)[x] = w[x]
    <3>1. Starts(Terms(s), w) /\ Terms(s) \in Seq(Nat)
      BY <1>1, <1>2
    <3> QED BY <3>1 DEF Starts, Same
  <2> QED BY <1>1, <1>2, <1>5, <2>1 DEF Starts, Same
<1>7. ASSUME NEW p \in 1..Len(h)
      PROVE  /\ h[p].term = At(f, Len(s) + p - 1)
             /\ p # 1 => h[p].cmd = <<h[p].term, Len(s) + p - 1>>
  <2>1. CASE p \in 1..Len(l)
    <3>1. h[p] = l[p] /\ h[p].term = At(w, Len(s) + p - 1)
      BY <1>1, <1>2, <1>4, <2>1
    <3>2. Len(s) + p - 1 \in 0..Len(w)
      BY <1>1, <1>2, <2>1
    <3>3. At(w, Len(s) + p - 1) = At(f, Len(s) + p - 1)
      <4>0. Len(s) + p - 1 \in Nat
        BY <1>1, <2>1
      <4>1. PICK k \in Nat : k = Len(s) + p - 1
        BY <4>0
      <4>2. k # 0 => k \in 1..Len(w)
        BY <3>2, <4>1
      <4>3. At(w, k) = At(f, k)
        BY <1>5, <4>2 DEF At
      <4> QED BY <4>1, <4>3
    <3>4. p # 1 => p \in 2..Len(l)
      BY <1>1, <2>1
    <3> QED BY <3>1, <3>3, <3>4 DEF Formed
  <2>2. CASE p = Len(l) + 1
    <3>1. h[p] = e /\ Len(s) + p - 1 = Len(w) + 1 /\ Len(s) + p - 1 = Len(s) + Len(l)
      BY <1>1, <1>2, <1>4, <2>2
    <3>2. At(f, Len(s) + p - 1) = t
      BY <1>1, <1>2, <1>5, <3>1 DEF At
    <3> QED BY <3>1, <3>2
  <2>3. p \in 1..Len(l) \/ p = Len(l) + 1
    <3>1. PICK n \in Nat : n = Len(l)
      BY <1>1
    <3>2. p \in 1..n + 1
      BY <1>4, <3>1
    <3>3. p \in 1..n \/ p = n + 1
      BY <3>2
    <3> QED BY <3>1, <3>3
  <2> QED BY <2>1, <2>2, <2>3
<1>8. h[1] = l[1] /\ Len(h) >= 1 /\ Len(f) = Len(s) + Len(h) - 1
  BY <1>1, <1>2, <1>4, <1>5
<1>9. l[1].cmd = <<>> \/ l[1].cmd = <<l[1].term, Len(s)>>
  BY DEF Formed
<1>10. Formed(s, h) /\ Whole(s, h) = f
  <2>1. h[1].cmd = <<>> \/ h[1].cmd = <<h[1].term, Len(s)>>
    BY <1>8, <1>9
  <2>2. \A p \in 2..Len(h) : h[p].cmd = <<h[p].term, Len(s) + p - 1>>
    <3> TAKE p \in 2..Len(h)
    <3>1. p \in 1..Len(h) /\ p # 1
      BY <1>1, <1>4
    <3> QED BY <1>7, <3>1
  <2>3. Numbered(s)
    BY DEF Formed
  <2> QED BY <1>4, <1>5, <1>6, <1>7, <1>8, <2>1, <2>2, <2>3, FormedIs
<1> QED BY <1>2, <1>4, <1>10

\* The log behind a later snapshot of the same commands.
LEMMA FormedLater ==
    ASSUME NEW s \in Seq(Command), NEW l \in Seq(Entry), Formed(s, l),
           NEW d \in Seq(Command), Numbered(d), Len(s) < Len(d), Starts(Terms(d), Whole(s, l)),
           NEW h \in Seq(Entry), NEW q \in Nat, q = Len(d) - Len(s) + 1,
           Len(h) = Len(l) - q + 1, h[1].term = l[q].term,
           h[1].cmd = <<>> \/ h[1].cmd = l[q].cmd,
           \A x \in 2..Len(h) : h[x] = l[q + x - 1]
    PROVE  Formed(d, h) /\ Whole(d, h) = Whole(s, l)
<1>1. /\ Len(s) \in Nat /\ Len(l) \in Nat /\ Len(l) >= 1
      /\ Whole(s, l) \in Seq(Nat) /\ Len(Whole(s, l)) = Len(s) + Len(l) - 1
      /\ \A p \in 1..Len(l) : l[p].term = At(Whole(s, l), Len(s) + p - 1)
  BY WholeFacts
<1>2. PICK w \in Seq(Nat) : w = Whole(s, l)
  BY <1>1
<1>3. /\ Len(d) \in Nat /\ Len(Terms(d)) = Len(d) /\ Len(d) <= Len(w)
  BY <1>2, NumberedFacts DEF Starts, Same
<1>n. PICK a \in Nat, b \in Nat, c \in Nat, e \in Nat :
         a = Len(s) /\ b = Len(l) /\ c = Len(d) /\ e = Len(h)
  <2>1. Len(h) \in Nat
    OBVIOUS
  <2> QED BY <1>1, <1>3, <2>1
<1>m. e = b - q + 1 /\ q = c - a + 1 /\ a < c /\ c <= a + b - 1 /\ b >= 1
  BY <1>1, <1>2, <1>3, <1>n
<1>4. Len(h) \in Nat /\ Len(h) >= 1 /\ q \in 2..Len(l) /\ Len(w) = Len(d) + Len(h) - 1
  <2>1. e >= 1 /\ q \in 2..b /\ a + b - 1 = c + e - 1
    BY <1>m, <1>n
  <2> QED BY <1>1, <1>2, <1>n, <2>1
<1>5. ASSUME NEW p \in 1..Len(h)
      PROVE  h[p].term = At(w, Len(d) + p - 1)
  <2>1. q + p - 1 \in 1..Len(l) /\ Len(s) + (q + p - 1) - 1 = Len(d) + p - 1
    <3>1. p \in 1..e
      BY <1>n
    <3>2. q + p - 1 \in 1..b /\ a + (q + p - 1) - 1 = c + p - 1
      BY <1>m, <1>n, <3>1
    <3> QED BY <1>n, <3>2
  <2>2. l[q + p - 1].term = At(w, Len(d) + p - 1)
    BY <1>1, <1>2, <2>1
  <2>3. h[p].term = l[q + p - 1].term
    <3>1. CASE p = 1
      BY <1>4, <3>1
    <3>2. CASE p # 1
      <4>1. p \in 2..Len(h)
        BY <1>4, <3>2
      <4> QED BY <4>1
    <3> QED BY <3>1, <3>2
  <2> QED BY <2>2, <2>3
<1>6. ASSUME NEW p \in 2..Len(h)
      PROVE  h[p].cmd = <<h[p].term, Len(d) + p - 1>>
  <2>1. q + p - 1 \in 2..Len(l) /\ Len(s) + (q + p - 1) - 1 = Len(d) + p - 1
    <3>1. p \in 2..e
      BY <1>n
    <3>2. q + p - 1 \in 2..b /\ a + (q + p - 1) - 1 = c + p - 1
      BY <1>m, <1>n, <3>1
    <3> QED BY <1>n, <3>2
  <2>2. l[q + p - 1].cmd = <<l[q + p - 1].term, Len(d) + p - 1>>
    BY <2>1 DEF Formed
  <2> QED BY <2>2
<1>7. h[1].cmd = <<>> \/ h[1].cmd = <<h[1].term, Len(d)>>
  <2>1. l[q].cmd = <<l[q].term, Len(s) + q - 1>> /\ Len(s) + q - 1 = Len(d)
    <3>1. a + q - 1 = c
      BY <1>m, <1>n
    <3> QED BY <1>4, <1>n, <3>1 DEF Formed
  <2> QED BY <2>1
<1> QED BY <1>2, <1>3, <1>4, <1>5, <1>6, <1>7, FormedIs

\* A snapshot with nothing behind it.
LEMMA FormedSnapshot ==
    ASSUME NEW d \in Seq(Command), Numbered(d), NEW t, t = At(Terms(d), Len(d))
    PROVE  /\ <<Dummy(t)>> \in Seq(Entry) /\ Formed(d, <<Dummy(t)>>)
           /\ Whole(d, <<Dummy(t)>>) = Terms(d)
<1>1. Terms(d) \in Seq(Nat) /\ Len(Terms(d)) = Len(d) /\ Len(d) \in Nat
  BY NumberedFacts
<1>2. t \in Nat
  <2>1. CASE Len(d) = 0
    BY <2>1 DEF At
  <2>2. CASE Len(d) # 0
    <3>1. Len(d) \in 1..Len(Terms(d))
      BY <1>1, <2>2
    <3>2. Terms(d)[Len(d)] \in Nat
      BY <1>1, <3>1, ElementOfSeq
    <3> QED BY <2>2, <3>2 DEF At
  <2> QED BY <2>1, <2>2
<1>3. PICK e, h : e = Dummy(t) /\ h = <<Dummy(t)>>
  OBVIOUS
<1>4. e \in Entry /\ e.term = t /\ e.cmd = <<>>
  <2>1. <<>> \in Seq(Nat)
    OBVIOUS
  <2> QED BY <1>2, <1>3, <2>1 DEF Dummy, Entry, Command
<1>5. h \in Seq(Entry) /\ Len(h) = 1 /\ h[1] = e
  <2>1. h = <<e>>
    BY <1>3
  <2> QED BY <1>4, <2>1
<1>6. Starts(Terms(d), Terms(d))
  BY <1>1, StartsWith
<1>7. \A p \in 1..Len(h) : h[p].term = At(Terms(d), Len(d) + p - 1)
  <2> TAKE p \in 1..Len(h)
  <2>1. p = 1 /\ Len(d) + p - 1 = Len(d)
    BY <1>1, <1>5
  <2> QED BY <1>4, <1>5, <2>1
<1>8. \A p \in 2..Len(h) : h[p].cmd = <<h[p].term, Len(d) + p - 1>>
  BY <1>5
<1>s. /\ Len(Terms(d)) = Len(d) + Len(h) - 1 /\ Len(h) >= 1
      /\ h[1].cmd = <<>> \/ h[1].cmd = <<h[1].term, Len(d)>>
  BY <1>1, <1>4, <1>5
<1>9. Formed(d, h) /\ Whole(d, h) = Terms(d)
  BY <1>1, <1>s, <1>5, <1>6, <1>7, <1>8, FormedIs
<1> QED BY <1>3, <1>5, <1>9

\* readPersist leaves the terms of a log alone.
LEMMA WipedFacts ==
    ASSUME NEW l \in Seq(Entry), Len(l) >= 1
    PROVE  /\ Wiped(l) \in Seq(Entry) /\ Len(Wiped(l)) = Len(l)
           /\ Wiped(Wiped(l)) = Wiped(l)
           /\ \A p \in 2..Len(l) : Wiped(l)[p] = l[p]
           /\ \A s \in Seq(Command) :
                 Formed(s, l) => Formed(s, Wiped(l)) /\ Whole(s, Wiped(l)) = Whole(s, l)
<1>1. Len(l) \in Nat /\ 1 \in 1..Len(l)
  OBVIOUS
<1>2. PICK h : h = Wiped(l)
  OBVIOUS
<1>3. PICK e : e = [l[1] EXCEPT !.cmd = <<>>]
  OBVIOUS
<1>4. e \in Entry /\ e.term = l[1].term /\ e.cmd = <<>>
  <2>1. l[1] \in Entry
    BY <1>1, ElementOfSeq
  <2>2. <<>> \in Seq(Nat)
    OBVIOUS
  <2> QED BY <1>3, <2>1, <2>2 DEF Entry, Command
<1>5. h = [l EXCEPT ![1] = e]
  BY <1>2, <1>3 DEF Wiped
<1>6. /\ h \in Seq(Entry) /\ Len(h) = Len(l)
      /\ \A p \in 1..Len(l) : h[p] = IF p = 1 THEN e ELSE l[p]
  BY <1>1, <1>4, <1>5, ExceptSeq
<1>7. Wiped(h) = h
  <2>1. h[1] = e /\ [e EXCEPT !.cmd = <<>>] = e
    <3>1. e = [term |-> e.term, cmd |-> <<>>]
      BY <1>4 DEF Entry
    <3>2. [e EXCEPT !.cmd = <<>>] = e
      BY <3>1
    <3> QED BY <1>1, <1>6, <3>2
  <2>2. Wiped(h) = [h EXCEPT ![1] = [h[1] EXCEPT !.cmd = <<>>]]
    BY DEF Wiped
  <2>3. Wiped(h) = [h EXCEPT ![1] = e]
    BY <2>1, <2>2
  <2>4. [h EXCEPT ![1] = e] \in Seq(Entry) /\ Len([h EXCEPT ![1] = e]) = Len(h)
        /\ \A p \in 1..Len(h) : [h EXCEPT ![1] = e][p] = IF p = 1 THEN e ELSE h[p]
    BY <1>1, <1>4, <1>6, ExceptSeq
  <2>5. \A p \in 1..Len(h) : [h EXCEPT ![1] = e][p] = h[p]
    BY <2>1, <2>4
  <2> QED BY <1>6, <2>3, <2>4, <2>5, SeqEqual
<1>8. \A p \in 2..Len(l) : h[p] = l[p]
  BY <1>1, <1>6
<1>9. ASSUME NEW s \in Seq(Command), Formed(s, l)
      PROVE  Formed(s, h) /\ Whole(s, h) = Whole(s, l)
  <2>1. /\ Whole(s, l) \in Seq(Nat) /\ Len(Whole(s, l)) = Len(s) + Len(l) - 1
        /\ \A p \in 1..Len(l) : l[p].term = At(Whole(s, l), Len(s) + p - 1)
        /\ Starts(Terms(s), Whole(s, l)) /\ Numbered(s)
    BY <1>9, WholeFacts DEF Formed
  <2>2. ASSUME NEW p \in 1..Len(h)
        PROVE  h[p].term = At(Whole(s, l), Len(s) + p - 1)
    <3>1. h[p].term = l[p].term
      BY <1>4, <1>6
    <3> QED BY <1>6, <2>1, <3>1
  <2>3. h[1].cmd = <<>>
    BY <1>1, <1>4, <1>6
  <2>4. \A p \in 2..Len(h) : h[p].cmd = <<h[p].term, Len(s) + p - 1>>
    BY <1>6, <1>8, <1>9 DEF Formed
  <2> QED BY <1>6, <2>1, <2>2, <2>3, <2>4, FormedIs
<1> QED BY <1>2, <1>6, <1>7, <1>8, <1>9

\* The log after a request that matches it: the commands it was cut from, unless it has them.
LEMMA FormedMerged ==
    ASSUME NEW s \in Seq(Command), NEW l \in Seq(Entry), Formed(s, l),
           NEW c \in Seq(Command), Numbered(c), NEW prev \in Nat,
           Len(s) <= prev, prev <= Len(c), prev - Len(s) + 1 <= Len(l),
           Same(Terms(c), Whole(s, l), prev),
           NEW es \in Seq(Entry), Behind(es, c, prev),
           NEW p \in Nat, p = prev - Len(s) + 1
    PROVE  /\ Merged(l, p, es) \in Seq(Entry) /\ Formed(s, Merged(l, p, es))
           /\ Whole(s, Merged(l, p, es)) = IF Starts(Terms(c), Whole(s, l)) THEN Whole(s, l)
                                                                              ELSE Terms(c)
<1>1. /\ Len(s) \in Nat /\ Len(l) \in Nat /\ Len(l) >= 1
      /\ Whole(s, l) \in Seq(Nat) /\ Len(Whole(s, l)) = Len(s) + Len(l) - 1
      /\ \A x \in 1..Len(l) : l[x].term = At(Whole(s, l), Len(s) + x - 1)
      /\ Starts(Terms(s), Whole(s, l)) /\ Terms(s) \in Seq(Nat) /\ Len(Terms(s)) = Len(s)
      /\ Numbered(s)
  BY WholeFacts, NumberedFacts DEF Formed
<1>2. /\ Terms(c) \in Seq(Nat) /\ Len(Terms(c)) = Len(c) /\ Len(c) \in Nat
      /\ \A k \in 1..Len(c) : Terms(c)[k] = c[k][1] /\ c[k] = <<Terms(c)[k], k>>
  BY NumberedFacts
<1>3. PICK w \in Seq(Nat), f \in Seq(Nat) : w = Whole(s, l) /\ f = Terms(c)
  BY <1>1, <1>2
<1>4. PICK a \in Nat, b \in Nat, n \in Nat, z \in Nat :
         a = Len(s) /\ b = Len(l) /\ n = Len(c) /\ z = Len(es)
  <2>1. Len(es) \in Nat
    OBVIOUS
  <2> QED BY <1>1, <1>2, <2>1
<1>5. /\ a <= prev /\ prev <= n /\ prev - a + 1 <= b /\ z = n - prev /\ p = prev - a + 1
      /\ p \in Nat /\ p >= 1 /\ p <= b /\ Len(w) = a + b - 1 /\ Len(f) = n /\ b >= 1
  <2>1. /\ a <= prev /\ prev <= n /\ prev - a + 1 <= b /\ z = n - prev /\ p = prev - a + 1
        /\ Len(w) = a + b - 1 /\ Len(f) = n /\ b >= 1
    BY <1>1, <1>2, <1>3, <1>4 DEF Behind
  <2> QED BY <1>4, <2>1
<1>6. \A x \in 1..prev : f[x] = w[x]
  BY <1>3 DEF Same
<1>7. ASSUME NEW k \in 1..z
      PROVE  /\ prev + k \in 1..n /\ es[k].term = f[prev + k]
             /\ es[k].cmd = <<f[prev + k], prev + k>>
  <2>1. prev + k \in 1..n
    BY <1>4, <1>5
  <2>2. f[prev + k] = c[prev + k][1] /\ c[prev + k] = <<f[prev + k], prev + k>>
    BY <1>2, <1>3, <1>4, <2>1
  <2>3. es[k] = [term |-> c[prev + k][1], cmd |-> c[prev + k]]
    BY <1>4 DEF Behind
  <2> QED BY <2>1, <2>2, <2>3
<1>8. ASSUME NEW k \in 1..z, p + k <= b
      PROVE  l[p + k].term = w[prev + k]
  <2>1. p + k \in 1..b /\ a + (p + k) - 1 = prev + k /\ prev + k # 0
    <3>1. k \in Nat /\ k >= 1
      BY <1>4
    <3>2. a + p = prev + 1
      BY <1>4, <1>5
    <3>3. a + (p + k) - 1 = prev + k
      BY <1>4, <1>5, <3>1, <3>2
    <3>4. p + k \in 1..b 
      BY <1>4, <1>5, <1>8, <3>1
    <3>5. prev + k # 0
      BY <3>1
    <3> QED BY <3>3, <3>4, <3>5
  <2>2. l[p + k].term = At(w, prev + k)
    BY <1>1, <1>3, <1>4, <2>1
  <2> QED BY <2>1, <2>2 DEF At
<1> DEFINE Old == \A k \in 1..Len(es) : p + k <= Len(l) /\ l[p + k].term = es[k].term
<1>9. Old <=> \A k \in 1..z : p + k <= b /\ l[p + k].term = es[k].term
  BY <1>4
<1> HIDE DEF Old
<1>10. ASSUME Old
       PROVE  Starts(f, w)
  <2>1. ASSUME NEW x \in 1..n
        PROVE  f[x] = w[x] /\ x <= a + b - 1
    <3>1. CASE x <= prev
      <4>1. x \in 1..prev /\ x <= a + b - 1
        BY <1>4, <1>5, <3>1
      <4> QED BY <1>6, <4>1
    <3>2. CASE ~(x <= prev)
      <4>1. PICK k \in Nat : k = x - prev
        BY <1>4, <3>2
      <4>2. k \in 1..z /\ prev + k = x
        BY <1>4, <1>5, <3>2, <4>1
      <4>3. p + k <= b /\ l[p + k].term = es[k].term
        BY <1>9, <1>10, <4>2
      <4>4. es[k].term = f[x] /\ l[p + k].term = w[x]
        BY <1>7, <1>8, <4>2, <4>3
      <4>5. x <= a + b - 1
        BY <1>4, <1>5, <4>1, <4>2, <4>3
      <4> QED BY <4>3, <4>4, <4>5
    <3> QED BY <3>1, <3>2
  <2>2. n <= a + b - 1
    <3>1. CASE n = 0
      BY <1>4, <1>5, <3>1
    <3>2. CASE n # 0
      <4>1. n \in 1..n
        BY <1>4, <3>2
      <4> QED BY <2>1, <4>1
    <3> QED BY <3>1, <3>2
  <2>3. Len(f) <= Len(f) /\ Len(f) <= Len(w) /\ \A x \in 1..Len(f) : f[x] = w[x]
    <3>1. Len(f) <= Len(f)
      BY <1>4, <1>5
    <3>2. Len(f) <= Len(w)
      BY <1>5, <2>2
    <3>3. \A x \in 1..Len(f) : f[x] = w[x]
      BY <1>5, <2>1
    <3> QED BY <3>1, <3>2, <3>3
  <2> QED BY <2>3 DEF Starts, Same
<1>11. ASSUME Starts(f, w)
       PROVE  Old
  <2>1. n <= a + b - 1 /\ \A x \in 1..n : f[x] = w[x]
    BY <1>5, <1>11 DEF Starts, Same
  <2>2. ASSUME NEW k \in 1..z
        PROVE  p + k <= b /\ l[p + k].term = es[k].term
    <3>1. p + k <= b
      BY <1>4, <1>5, <2>1
    <3>2. prev + k \in 1..n /\ es[k].term = f[prev + k]
      BY <1>7
    <3> QED BY <1>8, <2>1, <3>1, <3>2
  <2> QED BY <1>9, <2>2
<1>12. CASE Old
  <2>1. Merged(l, p, es) = l
    BY <1>12 DEF Merged, Old
  <2> QED BY <1>3, <1>10, <1>12, <2>1
<1>13. CASE ~Old
  <2>1. PICK u, h : u = SubSeq(l, 1, p) /\ h = SubSeq(l, 1, p) \o es
    OBVIOUS
  <2>2. Merged(l, p, es) = h
    BY <1>13, <2>1 DEF Merged, Old
  <2>3. u \in Seq(Entry) /\ Len(u) = p /\ \A x \in 1..p : u[x] = l[x]
    <3>1. \A x \in 1..p : l[x] \in Entry
      <4>1. \A x \in 1..p : x \in 1..Len(l)
        BY <1>4, <1>5
      <4> QED BY <4>1, ElementOfSeq
    <3>2. SubSeq(l, 1, p) = [x \in 1..p |-> l[x]]
      BY <1>4, <1>5
    <3>3. u = [x \in 1..p |-> l[x]]
      BY <2>1, <3>2
    <3> QED BY <3>1, <3>3
  <2>4. /\ h \in Seq(Entry) /\ Len(h) = p + z
        /\ \A x \in 1..p + z : h[x] = IF x <= p THEN l[x] ELSE es[x - p]
    <3>1. h = u \o es
      BY <2>1
    <3>2. /\ h \in Seq(Entry) /\ Len(h) = p + z
          /\ \A x \in 1..p + z : h[x] = IF x <= p THEN u[x] ELSE es[x - p]
      <4>1. /\ h \in Seq(Entry) /\ Len(h) = Len(u) + Len(es)
            /\ \A x \in 1..Len(u) + Len(es) :
                  h[x] = IF x <= Len(u) THEN u[x] ELSE es[x - Len(u)]
        BY <2>3, <3>1, ConcatProperties, Zenon
      <4>2. Len(u) = p /\ Len(es) = z
        BY <1>4, <2>3
      <4> QED BY <4>1, <4>2
    <3>3. \A x \in 1..p + z : x <= p => x \in 1..p
      BY <1>4, <1>5
    <3> QED BY <2>3, <3>2, <3>3
  <2>5. ASSUME NEW x \in 1..p + z
        PROVE  /\ h[x].term = At(f, a + x - 1)
               /\ x # 1 => h[x].cmd = <<h[x].term, a + x - 1>>
    <3>1. CASE x <= p
      <4>x. x \in Nat /\ x >= 1
        BY <1>4
      <4>y. a + x - 1 \in Nat
        BY <1>4, <4>x
      <4>1. PICK y \in Nat : y = a + x - 1
        BY <4>y
      <4>2. x \in 1..b /\ (x # 1 => x \in 2..b) /\ (y # 0 => y \in 1..prev)
        <5>0. p <= b
          BY <1>5
        <5>1. x <= b
          BY <3>1, <4>x, <5>0
        <5>2. y <= prev
          BY <1>4, <1>5, <3>1, <4>1, <4>x
        <5>3. x \in 1..b
          BY <4>x, <5>1
        <5>4. x # 1 => x \in 2..b
          BY <4>x, <5>1
        <5>5. y # 0 => y \in 1..prev
          BY <4>1, <5>2
        <5> QED BY <5>3, <5>4, <5>5
      <4>3. l[x].term = At(w, y) /\ h[x] = l[x]
        BY <1>1, <1>3, <1>4, <2>4, <3>1, <4>1, <4>2
      <4>4. At(w, y) = At(f, y)
        BY <1>6, <4>2 DEF At
      <4>5. x # 1 => l[x].cmd = <<l[x].term, y>>
        BY <1>4, <4>1, <4>2 DEF Formed
      <4> QED BY <4>1, <4>3, <4>4, <4>5
    <3>2. CASE ~(x <= p)
      <4>x. x \in Nat /\ x > p /\ x <= p + z
        BY <1>4, <3>2
      <4>y. x - p \in Nat
        BY <4>x
      <4>1. PICK k \in Nat : k = x - p
        BY <4>y
      <4>2. k \in 1..z /\ prev + k = a + x - 1 /\ prev + k # 0
        <5>1. k >= 1 /\ k <= z
          BY <1>4, <4>1, <4>x
        <5>2. prev + k = a + x - 1
          BY <1>4, <1>5, <4>1, <4>x
        <5>3. prev + k # 0
          BY <5>1
        <5> QED BY <1>4, <5>1, <5>2, <5>3
      <4>3. h[x] = es[k]
        BY <2>4, <3>2, <4>1
      <4>4. es[k].term = f[prev + k] /\ es[k].cmd = <<f[prev + k], prev + k>>
        BY <1>7, <4>2
      <4> QED BY <4>2, <4>3, <4>4 DEF At
    <3> QED BY <3>1, <3>2
  <2>6. h[1] = l[1] /\ Len(h) >= 1 /\ Len(f) = Len(s) + Len(h) - 1
    <3>1. 1 \in 1..p + z /\ 1 <= p /\ n = a + (p + z) - 1 /\ p + z >= 1
      BY <1>4, <1>5
    <3> QED BY <1>4, <1>5, <2>4, <3>1
  <2>7. h[1].cmd = <<>> \/ h[1].cmd = <<h[1].term, Len(s)>>
    BY <2>6 DEF Formed
  <2>8. \A x \in 1..Len(h) : h[x].term = At(f, Len(s) + x - 1)
    BY <1>4, <2>4, <2>5
  <2>9. \A x \in 2..Len(h) : h[x].cmd = <<h[x].term, Len(s) + x - 1>>
    <3> TAKE x \in 2..Len(h)
    <3>1. x \in 1..p + z /\ x # 1
      BY <1>4, <1>5, <2>4
    <3> QED BY <1>4, <2>5, <3>1
  <2>10. Starts(Terms(s), f)
    <3>1. Len(Terms(s)) = a /\ \A x \in 1..a : Terms(s)[x] = w[x]
      BY <1>1, <1>3, <1>4 DEF Starts, Same
    <3>2. \A x \in 1..a : Terms(s)[x] = f[x]
      <4> TAKE x \in 1..a
      <4>1. x \in 1..prev
        BY <1>4, <1>5
      <4> QED BY <1>6, <3>1, <4>1
    <3>3. a <= n
      BY <1>4, <1>5
    <3>4. /\ Len(Terms(s)) <= Len(Terms(s)) /\ Len(Terms(s)) <= Len(f)
          /\ \A x \in 1..Len(Terms(s)) : Terms(s)[x] = f[x]
      <4>1. Len(Terms(s)) = a /\ Len(f) = n /\ a <= a
        BY <1>4, <1>5, <3>1
      <4> QED BY <3>2, <3>3, <4>1
    <3> QED BY <3>4 DEF Starts, Same
  <2>11. Formed(s, h) /\ Whole(s, h) = f
    BY <1>1, <2>4, <2>6, <2>7, <2>8, <2>9, <2>10, FormedIs
  <2>12. ~Starts(f, w)
    BY <1>11, <1>13
  <2> QED BY <1>3, <2>2, <2>4, <2>11, <2>12
<1> QED BY <1>12, <1>13

-----------------------------------------------------------------------------
(* Servers and messages. *)

\* What a server has, seen through its trail.
LEMMA ServerFacts ==
    ASSUME Stores, NEW i \in Server
    PROVE  /\ log[i] \in Seq(Entry) /\ snapshot[i] \in Seq(Command) /\ lastSnap[i] \in Nat
           /\ Len(log[i]) \in Nat /\ Len(log[i]) >= 1 /\ Len(snapshot[i]) = lastSnap[i]
           /\ Formed(snapshot[i], log[i]) /\ Numbered(snapshot[i])
           /\ Trail[i] = Whole(snapshot[i], log[i])
           /\ Trail[i] \in Seq(Nat) /\ Len(Trail[i]) = Last(i)
           /\ Last(i) \in Nat /\ Last(i) >= lastSnap[i]
           /\ NextOf(i) = Last(i) + 1 /\ Last(i) = lastSnap[i] + Len(log[i]) - 1
           /\ LastTerm(i) = TopTerm(Trail[i])
           /\ Starts(Terms(snapshot[i]), Trail[i])
<1>1. /\ log[i] \in Seq(Entry) /\ snapshot[i] \in Seq(Command) /\ lastSnap[i] \in Nat
      /\ Len(snapshot[i]) = lastSnap[i] /\ Formed(snapshot[i], log[i])
      /\ Trail[i] = Whole(snapshot[i], log[i])
  BY DEF Stores, Trail
<1>2. PICK s, l, w : s = snapshot[i] /\ l = log[i] /\ w = Trail[i]
  OBVIOUS
<1>3. /\ Len(s) \in Nat /\ Len(l) \in Nat /\ Len(l) >= 1
      /\ w \in Seq(Nat) /\ Len(w) = Len(s) + Len(l) - 1
      /\ TopTerm(w) = l[Len(l)].term
      /\ Starts(Terms(s), w) /\ Numbered(s)
  BY <1>1, <1>2, WholeFacts DEF Formed
<1>4. Last(i) = lastSnap[i] + Len(log[i]) - 1 /\ NextOf(i) = lastSnap[i] + Len(log[i])
  <2>1. PICK a \in Nat, b \in Nat : a = lastSnap[i] /\ b = Len(log[i])
    BY <1>1, <1>2, <1>3
  <2>2. NextOf(i) = a + b /\ Last(i) = (a + b) - 1
    BY <2>1 DEF Last, NextOf
  <2>3. \A x, y \in Nat : (x + y) - 1 = x + y - 1
    OBVIOUS
  <2> QED BY <2>1, <2>2, <2>3
<1>5. Len(log[i]) \in Nat /\ Len(log[i]) >= 1 /\ Len(Trail[i]) = lastSnap[i] + Len(log[i]) - 1
  BY <1>1, <1>2, <1>3
<1>6. Last(i) \in Nat /\ Last(i) >= lastSnap[i] /\ NextOf(i) = Last(i) + 1
  BY <1>1, <1>4, <1>5
<1>7. LastTerm(i) = TopTerm(Trail[i])
  BY <1>2, <1>3 DEF LastTerm
<1> QED BY <1>1, <1>2, <1>3, <1>4, <1>5, <1>6, <1>7

\* The entry at an index that is in the log.
LEMMA EntryFacts ==
    ASSUME Stores, NEW i \in Server, NEW k \in Nat, lastSnap[i] <= k, k <= Last(i)
    PROVE  /\ Pos(i, k) \in 1..Len(log[i]) /\ Pos(i, k) = k - lastSnap[i] + 1
           /\ log[i][Pos(i, k)].term = At(Trail[i], k)
           /\ log[i][Pos(i, k)].term \in Nat
<1>1. /\ log[i] \in Seq(Entry) /\ snapshot[i] \in Seq(Command) /\ lastSnap[i] \in Nat
      /\ Formed(snapshot[i], log[i]) /\ Trail[i] = Whole(snapshot[i], log[i])
      /\ Len(log[i]) \in Nat /\ Len(snapshot[i]) = lastSnap[i]
      /\ Last(i) = lastSnap[i] + Len(log[i]) - 1 
  BY ServerFacts
<1>2. PICK p \in Nat : p = k - lastSnap[i] + 1
  <2>1. k - lastSnap[i] + 1 \in Nat
    BY <1>1
  <2> QED BY <2>1
<1>3. Pos(i, k) = p
  BY <1>2 DEF Pos
<1>4. p \in 1..Len(log[i]) /\ lastSnap[i] + p - 1 = k
  <2>1. PICK a \in Nat, b \in Nat : a = lastSnap[i] /\ b = Len(log[i])
    BY <1>1
  <2>2. a <= k /\ k <= a + b - 1 /\ p = k - a + 1
    BY <1>1, <1>2, <2>1
  <2>3. p >= 1 /\ p <= b /\ a + p - 1 = k
    BY <2>2
  <2> QED BY <2>1, <2>3
<1>5. log[i][p].term = At(Trail[i], k)
  BY <1>1, <1>4, WholeFacts
<1>6. log[i][p].term \in Nat
  <2>1. log[i][p] \in Entry
    BY <1>1, <1>4, ElementOfSeq
  <2> QED BY <2>1 DEF Entry
<1> QED BY <1>2, <1>3, <1>4, <1>5, <1>6

\* The commands of a server up to an index.
LEMMA HistoryIs ==
    ASSUME Stores, NEW i \in Server, NEW k \in Nat, k <= Last(i)
    PROVE  /\ History(i, k) = Numbering(Trail[i], k)
           /\ History(i, k) \in Seq(Command) /\ Len(History(i, k)) = k
           /\ Numbered(History(i, k)) /\ Terms(History(i, k)) = Upto(Trail[i], k)
<1>1. /\ log[i] \in Seq(Entry) /\ snapshot[i] \in Seq(Command)
      /\ Formed(snapshot[i], log[i]) /\ Trail[i] = Whole(snapshot[i], log[i])
      /\ Trail[i] \in Seq(Nat) /\ Len(Trail[i]) = Last(i)
  BY ServerFacts
<1>2. History(i, k) = Numbering(Trail[i], k)
  BY <1>1, HistoryFacts DEF History
<1>3. /\ Numbering(Trail[i], k) \in Seq(Command) /\ Len(Numbering(Trail[i], k)) = k
      /\ Numbered(Numbering(Trail[i], k)) /\ Terms(Numbering(Trail[i], k)) = Upto(Trail[i], k)
  BY <1>1, NumberingFacts
<1> QED BY <1>2, <1>3

\* A snapshot is the beginning of what its server has.
LEMMA SnapshotIs ==
    ASSUME Stores, NEW i \in Server
    PROVE  snapshot[i] = Numbering(Trail[i], lastSnap[i])
<1>1. /\ snapshot[i] \in Seq(Command) /\ Len(snapshot[i]) = lastSnap[i]
      /\ Numbered(snapshot[i]) /\ Starts(Terms(snapshot[i]), Trail[i])
      /\ Trail[i] \in Seq(Nat) /\ Len(Trail[i]) \in Nat /\ lastSnap[i] \in Nat
  BY ServerFacts
<1>2. PICK s, f : s = snapshot[i] /\ f = Terms(snapshot[i])
  OBVIOUS
<1>3. f \in Seq(Nat) /\ Len(f) = lastSnap[i] /\ s = Numbering(f, lastSnap[i])
  BY <1>1, <1>2, NumberedFacts
<1>4. Same(f, Trail[i], lastSnap[i]) /\ lastSnap[i] <= Len(Trail[i])
  BY <1>1, <1>2, <1>3 DEF Starts, Same
<1>5. lastSnap[i] <= Len(f)
  BY <1>1, <1>3
<1>6. Numbering(f, lastSnap[i]) = Numbering(Trail[i], lastSnap[i])
  BY <1>1, <1>3, <1>4, <1>5, NumberingSame
<1> QED BY <1>2, <1>3, <1>6

\* The messages, by type.
LEMMA WireFacts ==
    ASSUME Wires, NEW m \in msgs
    PROVE  /\ m.type \in {"AppendEntries", "InstallSnapshot", "AppendReply", "InstallReply"}
           /\ m.type = "AppendEntries" => m \in AppendCalls /\ CallFits(m)
           /\ m.type = "InstallSnapshot" => m \in SnapshotCalls /\ SnapshotFits(m)
           /\ m.type = "AppendReply" => m \in AppendAnswers /\ AnswerFits(m)
           /\ m.type = "InstallReply" => m \in InstallAnswers
<1>1. OnWire(m)
  BY DEF Wires
<1>2. CASE m \in AppendCalls /\ CallFits(m)
  <2>1. m.type = "AppendEntries"
    BY <1>2 DEF AppendCalls
  <2> QED BY <1>2, <2>1
<1>3. CASE m \in SnapshotCalls /\ SnapshotFits(m)
  <2>1. m.type = "InstallSnapshot"
    BY <1>3 DEF SnapshotCalls
  <2> QED BY <1>3, <2>1
<1>4. CASE m \in AppendAnswers /\ AnswerFits(m)
  <2>1. m.type = "AppendReply"
    BY <1>4 DEF AppendAnswers
  <2> QED BY <1>4, <2>1
<1>5. CASE m \in InstallAnswers
  <2>1. m.type = "InstallReply"
    BY <1>5 DEF InstallAnswers
  <2> QED BY <1>5, <2>1
<1> QED BY <1>1, <1>2, <1>3, <1>4, <1>5 DEF OnWire

\* The fields of a request.
LEMMA AppendCallFacts ==
    ASSUME NEW m, m \in AppendCalls, CallFits(m)
    PROVE  /\ m.src \in Server /\ m.dest \in Server /\ m.src # m.dest
           /\ m.boot \in Nat /\ m.term \in Nat /\ m.commit \in Nat
           /\ m.full \in Seq(Command) /\ Numbered(m.full) /\ m.entries \in Seq(Entry)
           /\ m.prev \in Nat /\ m.prev <= Len(m.full) /\ Len(m.full) \in Nat
           /\ m.prevTerm = At(Full(m), m.prev) /\ Behind(m.entries, m.full, m.prev)
           /\ Len(m.entries) = Len(m.full) - m.prev
           /\ m.next = Len(m.full) + 1 /\ m.next \in Nat
           /\ Full(m) = Terms(m.full) /\ Full(m) \in Seq(Nat) /\ Len(Full(m)) = Len(m.full)
           /\ CommitOf(m) = m.commit
           /\ m.type = "AppendEntries"
<1>1. /\ m.type = "AppendEntries" /\ m.src \in Server /\ m.dest \in Server
      /\ m.boot \in Nat /\ m.term \in Nat /\ m.commit \in Nat
      /\ m.full \in Seq(Command) /\ m.entries \in Seq(Entry) /\ m.next \in Nat
  BY DEF AppendCalls
<1>2. /\ m.src # m.dest /\ Numbered(m.full) /\ m.prev \in 0..Len(m.full)
      /\ m.prevTerm = At(Terms(m.full), m.prev) /\ Behind(m.entries, m.full, m.prev)
      /\ m.next = Len(m.full) + 1
  BY DEF CallFits
<1>3. Full(m) = Terms(m.full) /\ CommitOf(m) = m.commit
  BY <1>1 DEF Full, CommitOf
<1>4. PICK c : c = m.full
  OBVIOUS
<1>5. Terms(c) \in Seq(Nat) /\ Len(Terms(c)) = Len(c) /\ Len(c) \in Nat
  BY <1>1, <1>2, <1>4, NumberedFacts
<1>6. m.prev \in Nat /\ m.prev <= Len(m.full)
  BY <1>2, <1>4, <1>5
<1>7. Len(m.entries) = Len(m.full) - m.prev
  BY <1>2 DEF Behind
<1> QED BY <1>1, <1>2, <1>3, <1>4, <1>5, <1>6, <1>7

LEMMA SnapshotCallFacts ==
    ASSUME NEW m, m \in SnapshotCalls, SnapshotFits(m)
    PROVE  /\ m.src \in Server /\ m.dest \in Server /\ m.src # m.dest
           /\ m.boot \in Nat /\ m.term \in Nat
           /\ m.data \in Seq(Command) /\ Numbered(m.data) /\ Len(m.data) \in Nat
           /\ m.lastIncludedTerm = At(Full(m), Len(m.data)) /\ m.lastIncludedTerm \in Nat
           /\ Full(m) = Terms(m.data) /\ Full(m) \in Seq(Nat) /\ Len(Full(m)) = Len(m.data)
           /\ CommitOf(m) = Len(m.data)
           /\ m.type = "InstallSnapshot"
<1>1. /\ m.type = "InstallSnapshot" /\ m.src \in Server /\ m.dest \in Server
      /\ m.boot \in Nat /\ m.term \in Nat /\ m.data \in Seq(Command)
      /\ m.lastIncludedTerm \in Nat
  BY DEF SnapshotCalls
<1>2. /\ m.src # m.dest /\ Numbered(m.data)
      /\ m.lastIncludedTerm = At(Terms(m.data), Len(m.data))
  BY DEF SnapshotFits
<1>3. Full(m) = Terms(m.data) /\ CommitOf(m) = Len(m.data)
  BY <1>1 DEF Full, CommitOf
<1>4. PICK c : c = m.data
  OBVIOUS
<1>5. Terms(c) \in Seq(Nat) /\ Len(Terms(c)) = Len(c) /\ Len(c) \in Nat
  BY <1>1, <1>2, <1>4, NumberedFacts
<1> QED BY <1>1, <1>2, <1>3, <1>4, <1>5

\* The types that the proofs about trails need.
LEMMA SoundTypes == Sound => Types
<1> SUFFICES ASSUME Sound PROVE Types
  OBVIOUS
<1>1. Elects /\ Stores /\ Counts /\ Applies /\ Wires /\ Remains
  BY DEF Sound
<1>2. /\ term \in [Server -> Nat]
      /\ votedFor \in [Server -> Server \cup {NoOne}]
      /\ state \in [Server -> {"Follower", "Candidate", "Leader"}]
      /\ lastSnap \in [Server -> Nat]
      /\ commitIndex \in [Server -> Nat]
      /\ matchIndex \in [Server -> [Server -> Nat]]
      /\ boot \in [Server -> Nat]
      /\ leads \in [Server -> Nat]
      /\ bound \in Bounds
  BY <1>1, Zenon DEF Elects, Stores, Counts, Applies, Remains
<1>3. Trail \in [Server -> Seq(Nat)]
  <2>1. \A i \in Server : Trail[i] \in Seq(Nat)
    BY <1>1, ServerFacts
  <2>2. Trail = [i \in Server |-> Trail[i]]
    BY DEF Trail
  <2> QED BY <2>1, <2>2
<1>4. ASSUME NEW m \in Requests
      PROVE  RequestType(m)
  <2>1. m \in msgs /\ (m.type = "AppendEntries" \/ m.type = "InstallSnapshot")
    BY DEF Requests
  <2>2. CASE m.type = "AppendEntries"
    <3>1. m \in AppendCalls /\ CallFits(m)
      BY <1>1, <2>1, <2>2, WireFacts
    <3> QED BY <3>1, AppendCallFacts DEF RequestType
  <2>3. CASE m.type = "InstallSnapshot"
    <3>1. m \in SnapshotCalls /\ SnapshotFits(m)
      BY <1>1, <2>1, <2>3, WireFacts
    <3> QED BY <3>1, SnapshotCallFacts DEF RequestType
  <2> QED BY <2>1, <2>2, <2>3
<1>5. ASSUME NEW m \in Answers
      PROVE  AnswerType(m)
  <2>1. m \in AppendAnswers
    BY <1>1, WireFacts DEF Answers
  <2> QED BY <2>1 DEF AppendAnswers, AnswerType
<1> QED BY <1>2, <1>3, <1>4, <1>5 DEF Types

-----------------------------------------------------------------------------
(* What steps have in common. *)

\* A higher term is adopted, and a leader that meets one leads no more.
LEMMA MeetFacts ==
    ASSUME Elects, NEW j \in Server, NEW t \in Nat, MeetTerm(j, t)
    PROVE  /\ Elects'
           /\ \A k \in Server \ {j} : /\ term'[k] = term[k] /\ votedFor'[k] = votedFor[k]
                                      /\ state'[k] = state[k]
           /\ \/ t <= term[j] /\ term' = term /\ votedFor' = votedFor /\ state' = state
              \/ term[j] < t /\ term'[j] = t /\ state'[j] = "Follower" /\ votedFor'[j] = NoOne
           /\ LeadersSame
<1>0. term[j] \in Nat
  BY DEF Elects
<1>1. CASE t > term[j]
  <2>1. /\ term' = [term EXCEPT ![j] = t]
        /\ votedFor' = [votedFor EXCEPT ![j] = NoOne]
        /\ state' = [state EXCEPT ![j] = "Follower"]
    BY <1>1 DEF MeetTerm, StepDown
  <2>2. term'[j] = t /\ votedFor'[j] = NoOne /\ state'[j] = "Follower" /\ term[j] < t
    BY <1>0, <1>1, <2>1 DEF Elects
  <2>3. \A k \in Server \ {j} : /\ term'[k] = term[k] /\ votedFor'[k] = votedFor[k]
                                /\ state'[k] = state[k]
    BY <2>1 DEF Elects
  <2>4. Elects'
    <3>1. term' \in [Server -> Nat]
      BY <2>1 DEF Elects
    <3>2. votedFor' \in [Server -> Server \cup {NoOne}]
      BY <2>1 DEF Elects
    <3>3. state' \in [Server -> {"Follower", "Candidate", "Leader"}]
      BY <2>1 DEF Elects
    <3> QED BY <3>1, <3>2, <3>3 DEF Elects
  <2>5. LeadersSame
    <3> SUFFICES ASSUME NEW k \in Server, state'[k] = "Leader"
                 PROVE  state[k] = "Leader" /\ term'[k] = term[k]
      BY DEF LeadersSame, Leads
    <3>1. k # j
      BY <2>2
    <3> QED BY <2>3, <3>1
  <2> QED BY <2>2, <2>3, <2>4, <2>5
<1>2. CASE ~(t > term[j])
  <2>1. term' = term /\ votedFor' = votedFor /\ state' = state /\ t <= term[j]
    BY <1>0, <1>2 DEF MeetTerm, elect
  <2>2. Elects' /\ LeadersSame
    BY <2>1 DEF Elects, LeadersSame, Leads
  <2> QED BY <2>1, <2>2
<1> QED BY <1>1, <1>2

\* What a server saves is what it has after the step.
LEMMA PersistDurable ==
    ASSUME Elects', Stores', Durable, NEW j \in Server, Persist(j),
           \A k \in Server \ {j} :
              /\ term'[k] = term[k] /\ votedFor'[k] = votedFor[k] /\ log'[k] = log[k]
              /\ lastSnap'[k] = lastSnap[k] /\ snapshot'[k] = snapshot[k]
    PROVE  Durable'
<1>1. PICK d : d = [term |-> term'[j], votedFor |-> votedFor'[j], log |-> log'[j],
                    lastSnap |-> lastSnap'[j], snapshot |-> snapshot'[j]]
  OBVIOUS
<1>2. saved' = [saved EXCEPT ![j] = d] /\ saved \in [Server -> Disks]
  BY <1>1 DEF Persist, Durable
<1>3. d \in Disks
  BY <1>1 DEF Disks, Elects, Stores
<1>4. saved' \in [Server -> Disks]
  BY <1>2, <1>3
<1>5. saved'[j] = d /\ \A k \in Server \ {j} : saved'[k] = saved[k]
  BY <1>2
<1>6. ASSUME NEW k \in Server
      PROVE  /\ saved'[k].term = term'[k] /\ saved'[k].votedFor = votedFor'[k]
             /\ saved'[k].lastSnap = lastSnap'[k] /\ saved'[k].snapshot = snapshot'[k]
             /\ log'[k] = saved'[k].log \/ log'[k] = Wiped(saved'[k].log)
  <2>1. CASE k = j
    BY <1>1, <1>5, <2>1
  <2>2. CASE k # j
    <3>1. saved'[k] = saved[k] /\ k \in Server \ {j}
      BY <1>5, <2>2
    <3>2. /\ saved[k].term = term[k] /\ saved[k].votedFor = votedFor[k]
          /\ saved[k].lastSnap = lastSnap[k] /\ saved[k].snapshot = snapshot[k]
          /\ log[k] = saved[k].log \/ log[k] = Wiped(saved[k].log)
      BY DEF Durable
    <3> QED BY <3>1, <3>2
  <2> QED BY <2>1, <2>2
<1> QED BY <1>4, <1>6 DEF Durable

\* A server that adopts a term saves it.
LEMMA AdoptFacts ==
    ASSUME Sound, NEW j \in Server, NEW t \in Nat, AdoptTerm(j, t)
    PROVE  /\ Elects' /\ Stores' /\ Durable' /\ Trail' = Trail /\ UNCHANGED store
           /\ \A k \in Server \ {j} : /\ term'[k] = term[k] /\ votedFor'[k] = votedFor[k]
                                      /\ state'[k] = state[k]
           /\ \/ t <= term[j] /\ term' = term /\ votedFor' = votedFor /\ state' = state
              \/ term[j] < t /\ term'[j] = t /\ state'[j] = "Follower" /\ votedFor'[j] = NoOne
           /\ LeadersSame
<1>1. Elects /\ Stores /\ Durable /\ MeetTerm(j, t) /\ UNCHANGED store
  BY DEF Sound, AdoptTerm
<1>2. /\ Elects' /\ LeadersSame
      /\ \A k \in Server \ {j} : /\ term'[k] = term[k] /\ votedFor'[k] = votedFor[k]
                                 /\ state'[k] = state[k]
      /\ \/ t <= term[j] /\ term' = term /\ votedFor' = votedFor /\ state' = state
         \/ term[j] < t /\ term'[j] = t /\ state'[j] = "Follower" /\ votedFor'[j] = NoOne
  BY <1>1, MeetFacts
<1>3. log' = log /\ lastSnap' = lastSnap /\ snapshot' = snapshot
  BY <1>1 DEF store
<1>4. Stores' /\ Trail' = Trail
  BY <1>1, <1>3 DEF Stores, Trail
<1>5. Durable'
  <2>1. CASE t > term[j]
    <3>1. Persist(j)
      BY <2>1 DEF AdoptTerm
    <3> QED BY <1>1, <1>2, <1>3, <1>4, <3>1, PersistDurable
  <2>2. CASE ~(t > term[j])
    <3>1. saved' = saved /\ term' = term /\ votedFor' = votedFor
      BY <2>2 DEF AdoptTerm, MeetTerm, elect
    <3> QED BY <1>1, <1>3, <3>1 DEF Durable
  <2> QED BY <2>1, <2>2
<1> QED BY <1>1, <1>2, <1>4, <1>5

\* Messages that get lost, or are taken.
LEMMA FewerMessages ==
    ASSUME Wires, msgs' \subseteq msgs, senders' = senders
    PROVE  /\ Wires' /\ Requests' \subseteq Requests /\ Answers' \subseteq Answers
           /\ AnswerStep /\ RequestStep
BY DEF Wires, Requests, Answers, AnswerStep, RequestStep

\* A request is answered with r, or its caller is gone.
LEMMA AnswerFacts ==
    ASSUME Wires, NEW m \in Requests, NEW r, r.type \in {"AppendReply", "InstallReply"},
           OnWire(r), Answer(m, r), senders' = senders,
           r.type = "AppendReply" =>
              /\ r.dest = m.src /\ r.src = m.dest
              /\ r.success => /\ term[m.dest] <= m.term /\ term'[m.dest] = m.term
                              /\ r.next = Len(Full(m)) + 1 /\ Starts(Full(m), Trail'[m.dest])
    PROVE  Wires' /\ Requests' \subseteq Requests /\ AnswerStep /\ RequestStep
<1>1. \A x \in msgs' : x \in msgs \/ (x = r /\ m.boot = boot[m.src])
  BY DEF Answer
<1>2. Wires'
  BY <1>1 DEF Wires
<1>3. Requests' \subseteq Requests
  BY <1>1 DEF Requests
<1>4. AnswerStep
  <2> SUFFICES ASSUME NEW x \in Answers', x \notin Answers
               PROVE  \E q \in Requests :
                         /\ q.src = x.dest /\ q.dest = x.src /\ q.boot = boot[q.src]
                         /\ x.success =>
                               /\ term[q.dest] <= q.term /\ term'[q.dest] = q.term
                               /\ x.next = Len(Full(q)) + 1 /\ Starts(Full(q), Trail'[q.dest])
    BY DEF AnswerStep
  <2>1. x = r /\ m.boot = boot[m.src] /\ r.type = "AppendReply"
    BY <1>1 DEF Answers
  <2> QED BY <2>1
<1>5. RequestStep
  BY <1>3 DEF RequestStep
<1> QED BY <1>2, <1>3, <1>4, <1>5

\* The counts stay, or a leader starts its counting over.
LEMMA KnownSame ==
    ASSUME UNCHANGED <<matchIndex, lastSnap>>
    PROVE  KnownStep
BY DEF KnownStep, Known

LEMMA KnownForgets ==
    ASSUME Types, Types', NEW i \in Server, matchIndex' = matchIndex,
           \A k \in Server \ {i} : lastSnap'[k] = lastSnap[k], lastSnap[i] <= lastSnap'[i]
    PROVE  KnownStep
<1>1. ASSUME NEW k \in Server, NEW j \in Server
      PROVE  Known(k, j)' = 0 \/ Known(k, j)' = Known(k, j)
  <2>1. CASE k # i
    BY <2>1 DEF Known
  <2>2. CASE k = i
    <3>1. lastSnap[k] \in Nat /\ lastSnap'[k] \in Nat /\ matchIndex[k][j] \in Nat
      BY DEF Types
    <3> QED BY <2>2, <3>1 DEF Known
  <2> QED BY <2>1, <2>2
<1> QED BY <1>1 DEF KnownStep

\* Commit indices lie between what a server has put in its snapshot and what is chosen.
Bounded ==
    \A i \in Server : lastSnap[i] <= commitIndex[i] /\ commitIndex[i] <= Len(chosen)

\* What a step does to trails, acknowledgements and commit indices.
Kept == StepFits /\ AckStep /\ LeadershipFits' /\ CommitStep /\ Bounded'

\* A step that leaves terms, logs and commit indices alone.
LEMMA QuietKept ==
    ASSUME SafeInv, Sound', UNCHANGED <<term, votedFor, state, store, commitIndex, chosen>>,
           UNCHANGED <<leads, boot>>, Requests' \subseteq Requests, KnownStep, AnswerStep
    PROVE  Kept
<1>1. Types /\ LeadershipFits /\ ChosenFits
  BY DEF SafeInv, LogInv
<1>2. Types'
  <2>1. (Sound => Types)'
    BY SoundTypes, PTL
  <2> QED BY <2>1
<1>3. log' = log /\ lastSnap' = lastSnap /\ snapshot' = snapshot
  BY DEF store
<1>4. Trail' = Trail
  BY <1>3 DEF Trail
<1>5. Follows
  BY <1>1, <1>4, QuietFollows
<1>6. LeadersSame
  BY <1>5, FollowsLeadersSame
<1>7. RequestStep
  BY DEF RequestStep
<1>8. AckStep /\ LeadershipFits'
  BY <1>1, <1>2, <1>6, <1>7, StepAcks
<1>9. CommitStep
  BY <1>1, QuietCommits
<1>10. Bounded'
  BY <1>1, <1>3 DEF ChosenFits, Bounded
<1> QED BY <1>2, <1>5, <1>8, <1>9, <1>10 DEF Kept, StepFits

\* A step of server j that leaves logs and commit indices alone, but not the term.
LEMMA AdoptKept ==
    ASSUME SafeInv, Sound', NEW j \in Server, NEW t \in Nat, AdoptTerm(j, t),
           UNCHANGED <<commitIndex, chosen, leads, boot>>,
           Requests' \subseteq Requests, KnownStep, AnswerStep
    PROVE  Kept
<1>1. Types /\ LeadershipFits /\ ChosenFits /\ Sound
  BY DEF SafeInv, LogInv
<1>2. Types'
  <2>1. (Sound => Types)'
    BY SoundTypes, PTL
  <2> QED BY <2>1
<1>3. /\ Trail' = Trail /\ UNCHANGED store
      /\ \A k \in Server \ {j} : /\ term'[k] = term[k] /\ votedFor'[k] = votedFor[k]
                                 /\ state'[k] = state[k]
      /\ \/ t <= term[j] /\ term' = term /\ votedFor' = votedFor /\ state' = state
         \/ term[j] < t /\ term'[j] = t /\ state'[j] = "Follower"
      /\ LeadersSame
  BY <1>1, AdoptFacts
<1>4. Follows
  <2>1. CASE term' = term /\ votedFor' = votedFor /\ state' = state
    BY <1>1, <1>3, <2>1, QuietFollows
  <2>2. CASE term[j] < term'[j] /\ state'[j] = "Follower"
    <3>1. Takes(j)
      BY <1>3 DEF Takes
    <3> QED BY <1>1, <1>2, <1>3, <2>2, <3>1, DemotedFollows
  <2> QED BY <1>3, <2>1, <2>2
<1>7. RequestStep
  BY DEF RequestStep
<1>8. AckStep /\ LeadershipFits'
  BY <1>1, <1>2, <1>3, <1>7, StepAcks
<1>9. CommitStep
  BY <1>1, QuietCommits
<1>10. Bounded'
  BY <1>1, <1>3 DEF ChosenFits, Bounded, store
<1> QED BY <1>2, <1>4, <1>8, <1>9, <1>10 DEF Kept, StepFits

-----------------------------------------------------------------------------
(* The actions, one by one: each keeps what is stored and sent in form, takes its place among *)
(* the kinds of steps, and leaves the services with what is chosen.                           *)

Fits == Sound' /\ Kept /\ ServiceFits'

\* What a step leaves alone keeps its form.
LEMMA SameGroups ==
    ASSUME Sound
    PROVE  /\ UNCHANGED elect => Elects'
           /\ UNCHANGED store => Stores'
           /\ UNCHANGED leader => Counts'
           /\ UNCHANGED <<commitIndex, apply>> => Applies'
           /\ UNCHANGED service => Serves'
           /\ UNCHANGED net => Wires'
           /\ UNCHANGED <<boot, ghost>> => Remains'
           /\ UNCHANGED <<elect, store, saved>> => Durable'
<1>0. Elects /\ Stores /\ Counts /\ Applies /\ Serves /\ Wires /\ Remains /\ Durable
  BY DEF Sound
<1>1. UNCHANGED elect => Elects'
  BY <1>0 DEF elect, Elects
<1>2. UNCHANGED store => Stores'
  BY <1>0 DEF store, Stores
<1>3. UNCHANGED leader => Counts'
  BY <1>0 DEF leader, Counts
<1>4. UNCHANGED <<commitIndex, apply>> => Applies'
  BY <1>0 DEF apply, Applies
<1>5. UNCHANGED service => Serves'
  BY <1>0 DEF service, Serves
<1>6. UNCHANGED net => Wires'
  BY <1>0 DEF net, Wires
<1>7. UNCHANGED <<boot, ghost>> => Remains'
  BY <1>0 DEF ghost, Remains
<1>8. UNCHANGED <<elect, store, saved>> => Durable'
  BY <1>0 DEF elect, store, Durable
<1> QED BY <1>1, <1>2, <1>3, <1>4, <1>5, <1>6, <1>7, <1>8

\* Services that a step leaves alone hold what is chosen, while commit indices grow.
LEMMA ServicesStay ==
    ASSUME ServiceFits, Applies, Applies', UNCHANGED <<batch, logs, chosen>>, Serves,
           \A i \in Server : commitIndex[i] <= commitIndex'[i],
           \A i \in Server : \A s \in offers'[i] :
              s \in offers[i] \/ (IsPrefixOf(s, chosen) /\ Len(s) <= commitIndex'[i])
    PROVE  ServiceFits'
<1> SUFFICES ASSUME NEW i \in Server
             PROVE  /\ IsPrefixOf(logs'[i], chosen') /\ Len(logs'[i]) <= commitIndex'[i]
                    /\ \A s \in offers'[i] : IsPrefixOf(s, chosen') /\ Len(s) <= commitIndex'[i]
                    /\ BatchFits(i)'
  BY DEF ServiceFits
<1>1. PICK c \in Nat, d \in Nat : c = commitIndex[i] /\ d = commitIndex'[i] /\ c <= d
  BY DEF Applies
<1>2. IsPrefixOf(logs[i], chosen) /\ Len(logs[i]) <= c /\ Len(logs[i]) \in Nat
  BY <1>1 DEF ServiceFits, Serves
<1>3. ASSUME NEW s \in offers'[i]
      PROVE  IsPrefixOf(s, chosen) /\ Len(s) <= d
  <2>1. CASE s \in offers[i]
    <3>1. IsPrefixOf(s, chosen) /\ Len(s) <= c /\ Len(s) \in Nat
      BY <1>1, <2>1 DEF ServiceFits, Serves
    <3> QED BY <1>1, <3>1
  <2>2. CASE IsPrefixOf(s, chosen) /\ Len(s) <= commitIndex'[i]
    BY <1>1, <2>2
  <2> QED BY <2>1, <2>2
<1>4. BatchFits(i)'
  <2>1. BatchFits(i)
    BY DEF ServiceFits
  <2>2. PICK b : b = batch[i]
    OBVIOUS
  <2>3. b # Idle => b.start \in Nat /\ Len(b.commands) \in Nat
    BY <2>2 DEF Applies
  <2>4. b # Idle =>
          /\ b.start >= 1 /\ Len(b.commands) >= 1
          /\ b.start + Len(b.commands) - 1 <= c
          /\ \A k \in 1..Len(b.commands) : b.commands[k] \in {<<>>, chosen[b.start + k - 1]}
    BY <1>1, <2>1, <2>2 DEF BatchFits
  <2>5. b # Idle => b.start + Len(b.commands) - 1 <= d
    BY <1>1, <2>3, <2>4
  <2> QED BY <1>1, <2>2, <2>4, <2>5 DEF BatchFits
<1> QED BY <1>1, <1>2, <1>3, <1>4

\* Where commit indices stay as well.
LEMMA QuietServices ==
    ASSUME SafeInv, UNCHANGED <<batch, offers, logs, commitIndex, chosen>>
    PROVE  ServiceFits'
<1>1. ServiceFits
  BY DEF SafeInv
<1> QED BY <1>1 DEF ServiceFits, BatchFits

\* The program ends.
LEMMA DieFits ==
    ASSUME SafeInv, NEW why \in Ends, Die(why)
    PROVE  Fits
<1>1. Sound /\ LeadershipFits
  BY DEF SafeInv
<1>2. UNCHANGED <<elect, store, saved, leader, commitIndex, apply, service, net, boot, chosen,
                  bound>> /\ ended' = why
  BY DEF Die
<1>3. Remains'
  BY <1>1, <1>2 DEF Remains, Sound
<1>4. Sound'
  BY <1>1, <1>2, <1>3, SameGroups DEF Sound
<1>5. Kept
  <2>1. UNCHANGED <<term, votedFor, state, store, commitIndex, chosen>>
    BY <1>2 DEF elect
  <2>2. UNCHANGED <<leads, boot>> /\ UNCHANGED <<matchIndex, lastSnap>> /\ msgs' = msgs
    BY <1>2 DEF leader, store, net
  <2>3. Requests' \subseteq Requests /\ AnswerStep /\ KnownStep
    BY <2>2, KnownSame DEF Requests, Answers, AnswerStep
  <2> QED BY <1>4, <2>1, <2>2, <2>3, QuietKept
<1>6. ServiceFits'
  BY <1>2, QuietServices DEF apply, service
<1> QED BY <1>4, <1>5, <1>6 DEF Fits

\* A step that changes nothing.
LEMMA StutterFits ==
    ASSUME SafeInv, UNCHANGED vars
    PROVE  Fits
<1>1. Sound
  BY DEF SafeInv
<1>2. UNCHANGED <<elect, store, saved, leader, commitIndex, apply, service, net, boot, ghost>>
  BY DEF vars
<1>4. Sound'
  BY <1>1, <1>2, SameGroups DEF Sound
<1>5. Kept
  <2>1. UNCHANGED <<term, votedFor, state, store, commitIndex, chosen>>
    BY <1>2 DEF elect, ghost
  <2>2. UNCHANGED <<leads, boot>> /\ UNCHANGED <<matchIndex, lastSnap>> /\ msgs' = msgs
    BY <1>2 DEF leader, store, net
  <2>3. Requests' \subseteq Requests /\ AnswerStep /\ KnownStep
    BY <2>2, KnownSame DEF Requests, Answers, AnswerStep
  <2> QED BY <1>4, <2>1, <2>2, <2>3, QuietKept
<1>6. ServiceFits'
  BY <1>2, QuietServices DEF apply, service, ghost
<1> QED BY <1>4, <1>5, <1>6 DEF Fits

\* A message gets lost.
LEMMA LoseFits ==
    ASSUME SafeInv, NEW m, Lose(m)
    PROVE  Fits
<1>1. Sound
  BY DEF SafeInv
<1>2. /\ UNCHANGED <<elect, store, saved, leader, commitIndex, apply, service, boot, ghost>>
      /\ msgs' \subseteq msgs /\ senders' = senders
  BY DEF Lose
<1>3. Wires' /\ Requests' \subseteq Requests /\ AnswerStep
  BY <1>1, <1>2, FewerMessages DEF Sound
<1>4. Sound'
  BY <1>1, <1>2, <1>3, SameGroups DEF Sound
<1>5. Kept
  <2>1. UNCHANGED <<term, votedFor, state, store, commitIndex, chosen>>
    BY <1>2 DEF elect, ghost
  <2>2. UNCHANGED <<leads, boot>> /\ UNCHANGED <<matchIndex, lastSnap>>
    BY <1>2 DEF leader, store
  <2>3. KnownStep
    BY <2>2, KnownSame
  <2> QED BY <1>3, <1>4, <2>1, <2>2, <2>3, QuietKept
<1>6. ServiceFits'
  BY <1>2, QuietServices DEF apply, service, ghost
<1> QED BY <1>4, <1>5, <1>6 DEF Fits

\* A leader starts a goroutine.
LEMMA SpawnFits ==
    ASSUME SafeInv, NEW i \in Server, NEW j \in Server, Spawn(i, j)
    PROVE  Fits
<1>1. Sound
  BY DEF SafeInv
<1>2. /\ UNCHANGED <<elect, store, saved, leader, commitIndex, apply, service, boot, ghost>>
      /\ msgs' = msgs /\ senders' = senders \cup {<<i, j, Kind(i, j)>>} /\ j # i
  BY DEF Spawn
<1>3. Wires'
  BY <1>1, <1>2 DEF Wires, Sound, Kind
<1>4. Sound'
  BY <1>1, <1>2, <1>3, SameGroups DEF Sound
<1>5. Kept
  <2>1. UNCHANGED <<term, votedFor, state, store, commitIndex, chosen>>
    BY <1>2 DEF elect, ghost
  <2>2. UNCHANGED <<leads, boot>> /\ UNCHANGED <<matchIndex, lastSnap>>
    BY <1>2 DEF leader, store
  <2>3. Requests' \subseteq Requests /\ AnswerStep /\ KnownStep
    BY <1>2, <2>2, KnownSame DEF Requests, Answers, AnswerStep
  <2> QED BY <1>4, <2>1, <2>2, <2>3, QuietKept
<1>6. ServiceFits'
  BY <1>2, QuietServices DEF apply, service, ghost
<1> QED BY <1>4, <1>5, <1>6 DEF Fits

\* A new leader sets its counts back.
LEMMA InitLeaderFits ==
    ASSUME SafeInv, NEW i \in Server, InitLeader(i)
    PROVE  Fits
<1>1. Sound
  BY DEF SafeInv
<1>2. /\ UNCHANGED <<elect, store, saved, leads, commitIndex, apply, service, net, boot, ghost>>
      /\ starting' = [starting EXCEPT ![i] = FALSE]
      /\ nextIndex' = [nextIndex EXCEPT ![i] = [j \in Server |-> Last(i) + 1]]
      /\ matchIndex' = [matchIndex EXCEPT ![i] =
                            [j \in Server |-> IF j = i THEN Last(i) ELSE lastSnap[i]]]
  BY DEF InitLeader, Reset
<1>3. Last(i) \in Nat /\ lastSnap[i] \in Nat
  BY <1>1, ServerFacts DEF Sound
<1>4. Counts'
  <2>1. /\ [j \in Server |-> Last(i) + 1] \in [Server -> Nat]
        /\ [j \in Server |-> IF j = i THEN Last(i) ELSE lastSnap[i]] \in [Server -> Nat]
    BY <1>3
  <2> QED BY <1>1, <1>2, <2>1 DEF Counts, Sound
<1>5. Sound'
  BY <1>1, <1>2, <1>4, SameGroups DEF Sound
<1>6. KnownStep
  <2> SUFFICES ASSUME NEW k \in Server, NEW j \in Server
               PROVE  Known(k, j)' = 0 \/ Known(k, j)' = Known(k, j)
    BY DEF KnownStep
  <2>1. lastSnap' = lastSnap
    BY <1>2 DEF store
  <2>2. CASE k = i
    <3>1. j # i => matchIndex'[i][j] = lastSnap[i]
      BY <1>1, <1>2 DEF Counts, Sound
    <3>2. j # i => ~(matchIndex'[i][j] > lastSnap'[i])
      BY <1>3, <2>1, <3>1
    <3> QED BY <2>2, <3>2 DEF Known
  <2>3. CASE k # i
    <3>1. matchIndex'[k] = matchIndex[k]
      BY <1>1, <1>2, <2>3 DEF Counts, Sound
    <3> QED BY <2>1, <3>1 DEF Known
  <2> QED BY <2>2, <2>3
<1>7. Kept
  <2>1. UNCHANGED <<term, votedFor, state, store, commitIndex, chosen>>
    BY <1>2 DEF elect, ghost
  <2>2. Requests' \subseteq Requests /\ AnswerStep
    BY <1>2 DEF Requests, Answers, AnswerStep, net
  <2> QED BY <1>2, <1>5, <1>6, <2>1, <2>2, QuietKept
<1>8. ServiceFits'
  BY <1>2, QuietServices DEF apply, service, ghost
<1> QED BY <1>5, <1>7, <1>8 DEF Fits

\* A sender goes on at an index.
LEMMA BacktrackType ==
    ASSUME Sound, NEW i \in Server, NEW m \in AppendAnswers, AnswerFits(m)
    PROVE  Backtrack(i, m) \in Nat
<1>1. /\ NextOf(i) \in Nat /\ lastSnap[i] \in Nat /\ Len(log[i]) \in Nat
      /\ nextIndex[i][m.src] \in Nat /\ m.xlen \in Int /\ m.xterm \in Int /\ m.xindex \in Int
  <2>1. NextOf(i) \in Nat /\ lastSnap[i] \in Nat /\ Len(log[i]) \in Nat
    BY ServerFacts DEF Sound
  <2>2. m.src \in Server /\ m.xlen \in Int /\ m.xterm \in Int /\ m.xindex \in Int
    BY DEF AppendAnswers
  <2>3. nextIndex \in [Server -> [Server -> Nat]]
    BY Zenon DEF Counts, Sound
  <2> QED BY <2>1, <2>2, <2>3
<1>2. \A a, b \in Nat : Lesser(a, b) \in Nat
  BY DEF Lesser
<1>3. BinarySearch(i, m.xterm) \in Int
  <2> DEFINE T == {p \in 1..Len(log[i]) : log[i][p].term <= m.xterm}
  <2>1. IsFiniteSet(1..Len(log[i]))
    <3>1. 1 \in Int /\ Len(log[i]) \in Int
      BY <1>1
    <3> QED BY <3>1, FS_Interval, Zenon
  <2>2. IsFiniteSet(T)
    <3>1. T \subseteq 1..Len(log[i])
      BY Zenon
    <3> QED BY <2>1, <3>1, FS_Subset, Zenon
  <2>3. Cardinality(T) \in Nat
    BY <2>2, FS_CardinalityType
  <2> QED BY <2>3 DEF BinarySearch
<1>4. CASE m.xlen # -1
  <2>1. m.xlen \in Nat
    BY <1>1, <1>4 DEF AnswerFits
  <2> QED BY <1>1, <1>2, <1>4, <2>1 DEF Backtrack
<1>5. CASE m.xlen = -1 /\ m.xterm # -1
  <2>1. m.xindex \in Nat
    BY <1>1, <1>5 DEF AnswerFits
  <2>2. PICK pos \in Int : pos = BinarySearch(i, m.xterm)
    BY <1>3
  <2>3. (IF pos < 0 THEN m.xindex ELSE lastSnap[i] + pos) \in Nat
    BY <1>1, <2>1
  <2>4. Backtrack(i, m) = Lesser(IF pos < 0 THEN m.xindex ELSE lastSnap[i] + pos, NextOf(i))
    BY <1>5, <2>2 DEF Backtrack
  <2> QED BY <1>1, <1>2, <2>3, <2>4
<1>6. CASE m.xlen = -1 /\ m.xterm = -1
  <2>1. Backtrack(i, m) = Greater(1, nextIndex[i][m.src] - 1)
    BY <1>6 DEF Backtrack
  <2> QED BY <1>1, <2>1 DEF Greater
<1> QED BY <1>1, <1>4, <1>5, <1>6

\* A leader counts what a reply tells it.
LEMMA ReceiveReplyFits ==
    ASSUME SafeInv, NEW i \in Server, NEW m \in msgs, ReceiveReply(i, m)
    PROVE  Fits
<1>1. Sound /\ Wires /\ Counts /\ Stores
  BY DEF SafeInv, Sound
<1>2. /\ m.dest = i /\ m.type \in {"AppendReply", "InstallReply"}
      /\ msgs' = msgs \ {m}
      /\ AdoptTerm(i, m.term)
      /\ UNCHANGED <<starting, leads, commitIndex, apply, service, senders, boot, ghost>>
  BY DEF ReceiveReply
<1>3. /\ m.type = "AppendReply" => m \in AppendAnswers /\ AnswerFits(m)
      /\ m.type = "InstallReply" => m \in InstallAnswers
  BY <1>1, WireFacts
<1>4. m.term \in Nat /\ m.src \in Server
  BY <1>2, <1>3 DEF AppendAnswers, InstallAnswers
<1>5. Elects' /\ Stores' /\ Durable' /\ UNCHANGED store
  BY <1>1, <1>2, <1>4, AdoptFacts
<1>6. Wires' /\ Requests' \subseteq Requests /\ AnswerStep
  BY <1>1, <1>2, FewerMessages
<1>7. lastSnap' = lastSnap /\ lastSnap[i] \in Nat
  BY <1>1, <1>5, ServerFacts DEF store
<1>8. \/ UNCHANGED matchIndex /\ UNCHANGED nextIndex
      \/ UNCHANGED matchIndex /\ \E n \in Nat : nextIndex' = [nextIndex EXCEPT ![i][m.src] = n]
      \/ \E n \in Nat : /\ nextIndex' = [nextIndex EXCEPT ![i][m.src] = n]
                        /\ matchIndex' = [matchIndex EXCEPT ![i][m.src] = n - 1]
                        /\ n >= 1
                        /\ \/ n - 1 = lastSnap[i]
                           \/ n = m.next /\ m \in Answers /\ m.success
  <2>1. CASE m.term > term[i]
    BY <2>1 DEF ReceiveReply
  <2>2. CASE ~(m.term > term[i]) /\ m.type = "InstallReply"
    <3>1. PICK n \in Nat : n = SnapshotNext(i)
      BY <1>7 DEF SnapshotNext
    <3>2. /\ nextIndex' = [nextIndex EXCEPT ![i][m.src] = n]
          /\ matchIndex' = [matchIndex EXCEPT ![i][m.src] = n - 1]
      BY <2>2, <3>1 DEF ReceiveReply
    <3>3. n >= 1 /\ n - 1 = lastSnap[i]
      BY <1>7, <3>1 DEF SnapshotNext
    <3> QED BY <3>2, <3>3
  <2>3. CASE ~(m.term > term[i]) /\ m.type = "AppendReply"
    <3>1. m \in AppendAnswers /\ AnswerFits(m) /\ m \in Answers
      BY <1>3, <2>3 DEF Answers
    <3>2. m.next \in Nat /\ m.next >= 1
      BY <3>1 DEF AppendAnswers, AnswerFits
    <3>3. CASE m.success
      <4>1. /\ nextIndex' = [nextIndex EXCEPT ![i][m.src] = m.next]
            /\ matchIndex' = [matchIndex EXCEPT ![i][m.src] = m.next - 1]
        BY <2>3, <3>3 DEF ReceiveReply
      <4> QED BY <3>1, <3>2, <3>3, <4>1
    <3>4. CASE ~m.success
      <4>1. /\ nextIndex' = [nextIndex EXCEPT ![i][m.src] = Backtrack(i, m)]
            /\ UNCHANGED matchIndex
        BY <2>3, <3>4 DEF ReceiveReply
      <4>2. Backtrack(i, m) \in Nat
        BY <1>1, <3>1, BacktrackType
      <4> QED BY <4>1, <4>2
    <3> QED BY <3>3, <3>4
  <2> QED BY <1>2, <2>1, <2>2, <2>3
<1>9. Counts' /\ KnownStep
  <2>1. CASE UNCHANGED matchIndex /\ UNCHANGED nextIndex
    <3>1. KnownStep
      BY <1>7, <2>1, KnownSame
    <3> QED BY <1>1, <1>2, <2>1, <3>1 DEF Counts
  <2>2. ASSUME UNCHANGED matchIndex, NEW n \in Nat, nextIndex' = [nextIndex EXCEPT ![i][m.src] = n]
        PROVE  Counts' /\ KnownStep
    <3>1. KnownStep
      BY <1>7, <2>2, KnownSame
    <3> QED BY <1>1, <1>2, <1>4, <2>2, <3>1 DEF Counts
  <2>3. ASSUME NEW n \in Nat, nextIndex' = [nextIndex EXCEPT ![i][m.src] = n],
               matchIndex' = [matchIndex EXCEPT ![i][m.src] = n - 1], n >= 1,
               \/ n - 1 = lastSnap[i]
               \/ n = m.next /\ m \in Answers /\ m.success
        PROVE  Counts' /\ KnownStep
    <3>1. Counts'
      <4>1. n - 1 \in Nat
        BY <2>3
      <4> QED BY <1>1, <1>2, <1>4, <2>3, <4>1 DEF Counts
    <3>2. ASSUME NEW k \in Server, NEW j \in Server
          PROVE  \/ Known(k, j)' = 0
                 \/ Known(k, j)' = Known(k, j)
                 \/ \E r \in Answers : /\ r.dest = k /\ r.src = j /\ r.success
                                       /\ Known(k, j)' = r.next - 1
      <4>1. CASE k = i /\ j = m.src
        <5>1. matchIndex'[k][j] = n - 1
          BY <1>1, <1>4, <2>3, <4>1 DEF Counts
        <5>2. Known(k, j)' = 0 \/ Known(k, j)' = n - 1
          BY <5>1 DEF Known
        <5>3. n - 1 = lastSnap[i] => Known(k, j)' = 0
          BY <1>7, <4>1, <5>1 DEF Known
        <5> QED BY <1>2, <2>3, <4>1, <5>2, <5>3
      <4>2. CASE ~(k = i /\ j = m.src)
        <5>1. matchIndex'[k][j] = matchIndex[k][j]
          BY <1>1, <1>4, <2>3, <4>2 DEF Counts
        <5> QED BY <1>7, <5>1 DEF Known
      <4> QED BY <4>1, <4>2
    <3>3. KnownStep
      BY <3>2 DEF KnownStep
    <3> QED BY <3>1, <3>3
  <2> QED BY <1>8, <2>1, <2>2, <2>3
<1>10. Sound'
  BY <1>1, <1>2, <1>5, <1>6, <1>9, SameGroups DEF Sound
<1>11. Kept
  <2>1. UNCHANGED <<commitIndex, chosen, leads, boot>>
    BY <1>2 DEF ghost
  <2> QED BY <1>2, <1>4, <1>6, <1>9, <1>10, <2>1, AdoptKept
<1>12. ServiceFits'
  BY <1>2, QuietServices DEF apply, service, ghost
<1> QED BY <1>10, <1>11, <1>12 DEF Fits

\* Where a run of equal terms starts.
LEMMA RunStartFacts ==
    ASSUME NEW l, NEW p \in Nat \ {0}
    PROVE  RunStart(l, p) \in 1..p
<1> DEFINE T == {a \in 1..p : \A b \in a..p : l[b].term = l[p].term}
<1>1. T \in SUBSET Nat
  OBVIOUS
<1>2. p \in T
  <2>1. \A b \in p..p : b = p
    OBVIOUS
  <2> QED BY <2>1
<1>3. PICK x \in T : \A y \in T : x <= y
  BY <1>1, <1>2, Lowest
<1>4. x \in 1..p /\ \A b \in x..p : l[b].term = l[p].term
  OBVIOUS
<1>5. x = 1 \/ l[x - 1].term # l[p].term
  <2> SUFFICES ASSUME x # 1, l[x - 1].term = l[p].term PROVE FALSE
    OBVIOUS
  <2>1. x - 1 \in 1..p
    BY <1>4
  <2>2. \A b \in x - 1..p : b = x - 1 \/ b \in x..p
    BY <1>4
  <2>3. \A b \in x - 1..p : l[b].term = l[p].term
    BY <1>4, <2>2
  <2>4. x - 1 \in T
    BY <2>1, <2>3
  <2>5. x <= x - 1
    BY <1>3, <2>4
  <2> QED BY <1>4, <2>5
<1>6. \E a \in 1..p : /\ \A b \in a..p : l[b].term = l[p].term
                      /\ a = 1 \/ l[a - 1].term # l[p].term
  BY <1>4, <1>5
<1> HIDE DEF T
<1> QED BY <1>6 DEF RunStart

\* A refusal is well formed.
LEMMA RefusalFits ==
    ASSUME NEW m \in AppendCalls, CallFits(m), NEW t, t \in Nat, NEW xlen, NEW xterm, NEW xindex,
           xlen \in Int, xterm \in Int, xindex \in Int,
           NEW r, r = [type |-> "AppendReply", src |-> m.dest, dest |-> m.src, term |-> t,
                       success |-> FALSE, xlen |-> xlen, xterm |-> xterm, xindex |-> xindex,
                       next |-> m.next],
           xlen # -1 => xlen >= 0, xterm # -1 => xindex >= 0
    PROVE  /\ OnWire(r) /\ r.type = "AppendReply" /\ r.dest = m.src /\ r.src = m.dest
           /\ ~r.success
<1>1. m.src \in Server /\ m.dest \in Server /\ m.next \in Nat /\ m.next = Len(m.full) + 1
  BY AppendCallFacts
<1>2. Len(m.full) \in Nat
  BY AppendCallFacts
<1>3. r = [type |-> "AppendReply", src |-> m.dest, dest |-> m.src, term |-> t, success |-> FALSE,
           xlen |-> xlen, xterm |-> xterm, xindex |-> xindex, next |-> m.next]
  OBVIOUS
<1>4. r \in AppendAnswers
  <2>1. PICK a, b, n : a = m.dest /\ b = m.src /\ n = m.next
    OBVIOUS
  <2>2. a \in Server /\ b \in Server /\ n \in Nat
    BY <1>1, <2>1
  <2>3. r = [type |-> "AppendReply", src |-> a, dest |-> b, term |-> t, success |-> FALSE,
             xlen |-> xlen, xterm |-> xterm, xindex |-> xindex, next |-> n]
    BY <1>3, <2>1
  <2> QED BY <2>2, <2>3 DEF AppendAnswers
<1>5. AnswerFits(r)
  <2>1. r.next = m.next /\ r.xlen = xlen /\ r.xterm = xterm /\ r.xindex = xindex
    BY <1>3
  <2>2. m.next >= 1
    BY <1>1, <1>2
  <2> QED BY <2>1, <2>2 DEF AnswerFits
<1>6. r.type = "AppendReply" /\ r.dest = m.src /\ r.src = m.dest /\ ~r.success
  BY <1>3
<1> QED BY <1>4, <1>5, <1>6, Zenon DEF OnWire

\* A handler that only adopts the term and says so.
LEMMA AnswersFits ==
    ASSUME SafeInv, NEW m \in Requests, NEW t \in Nat, m.dest \in Server, AdoptTerm(m.dest, t),
           NEW r, Answer(m, r), OnWire(r),
           \/ r.type = "InstallReply"
           \/ r.type = "AppendReply" /\ r.dest = m.src /\ r.src = m.dest /\ ~r.success,
           UNCHANGED <<leader, commitIndex, apply, service, senders, boot, ghost>>
    PROVE  Fits
<1>1. Sound /\ Wires
  BY DEF SafeInv, Sound
<1>2. Elects' /\ Stores' /\ Durable' /\ UNCHANGED store
  BY <1>1, AdoptFacts
<1>3. senders' = senders
  OBVIOUS
<1>4. Wires' /\ Requests' \subseteq Requests /\ AnswerStep
  <2>1. /\ r.type \in {"AppendReply", "InstallReply"}
        /\ r.type = "AppendReply" => r.dest = m.src /\ r.src = m.dest /\ ~r.success
    OBVIOUS
  <2> QED BY <1>1, <1>3, <2>1, AnswerFacts
<1>5. Sound'
  BY <1>1, <1>2, <1>4, SameGroups DEF Sound
<1>6. UNCHANGED <<commitIndex, chosen, leads, boot>> /\ UNCHANGED <<matchIndex, lastSnap>>
  BY <1>2 DEF ghost, leader, store
<1>7. KnownStep
  BY <1>6, KnownSame
<1>8. Kept
  BY <1>4, <1>5, <1>6, <1>7, AdoptKept
<1>9. ServiceFits'
  BY QuietServices DEF apply, service, ghost
<1> QED BY <1>5, <1>8, <1>9 DEF Fits

\* A call of an earlier term is refused.
LEMMA RefuseAppendFits ==
    ASSUME SafeInv, NEW j \in Server, NEW m \in msgs, RefuseAppend(j, m)
    PROVE  Fits
<1>1. Sound /\ Wires /\ Elects
  BY DEF SafeInv, Sound
<1>2. /\ m.type = "AppendEntries" /\ m.dest = j /\ m.term < term[j]
      /\ UNCHANGED <<elect, store, saved>>
      /\ UNCHANGED <<leader, commitIndex, apply, service, senders, boot, ghost>>
  BY DEF RefuseAppend, Calls
<1>3. PICK r : r = [type |-> "AppendReply", src |-> m.dest, dest |-> m.src, term |-> term[j],
                    success |-> FALSE, xlen |-> -1, xterm |-> -1, xindex |-> -1, next |-> m.next]
  OBVIOUS
<1>4. m \in AppendCalls /\ CallFits(m) /\ m.term \in Nat
  BY <1>1, <1>2, WireFacts, AppendCallFacts
<1>5. term[j] \in Nat /\ -1 \in Int
  BY <1>1 DEF Elects
<1>6. OnWire(r) /\ r.type = "AppendReply" /\ r.dest = m.src /\ r.src = m.dest /\ ~r.success
  BY <1>3, <1>4, <1>5, RefusalFits
<1>7. Answer(m, r)
  BY <1>2, <1>3 DEF RefuseAppend, AppendAnswer
<1>8. AdoptTerm(m.dest, m.term)
  <2>1. ~(m.term > term[j])
    BY <1>2, <1>4, <1>5
  <2> QED BY <1>2, <2>1 DEF AdoptTerm, MeetTerm
<1>9. m \in Requests
  BY <1>2 DEF Requests
<1> QED BY <1>2, <1>4, <1>6, <1>7, <1>8, <1>9, AnswersFits

\* A call whose previous entry is not there is refused with a hint.
LEMMA MismatchAppendFits ==
    ASSUME SafeInv, NEW j \in Server, NEW m \in msgs, MismatchAppend(j, m)
    PROVE  Fits
<1>1. Sound /\ Wires /\ Stores
  BY DEF SafeInv, Sound
<1>2. /\ m.type = "AppendEntries" /\ m.dest = j /\ m.prev >= lastSnap[j]
      /\ AdoptTerm(j, m.term)
      /\ UNCHANGED <<leader, commitIndex, apply, service, senders, boot, ghost>>
  BY DEF MismatchAppend, Calls
<1>3. m \in AppendCalls /\ CallFits(m) /\ m.term \in Nat /\ m.prev \in Nat
  BY <1>1, <1>2, WireFacts, AppendCallFacts
<1>4. /\ NextOf(j) = Last(j) + 1 /\ Last(j) \in Nat /\ lastSnap[j] \in Nat /\ NextOf(j) \in Nat
      /\ -1 \in Int
  <2>1. NextOf(j) = Last(j) + 1 /\ Last(j) \in Nat /\ lastSnap[j] \in Nat
    BY <1>1, ServerFacts
  <2> QED BY <2>1
<1>5. m \in Requests
  BY <1>2 DEF Requests
<1>6. PICK p : p = Pos(j, m.prev)
  OBVIOUS
<1>7. \E r : /\ Answer(m, r) /\ OnWire(r) /\ r.type = "AppendReply"
             /\ r.dest = m.src /\ r.src = m.dest /\ ~r.success
  <2>1. CASE m.prev > Last(j)
    <3>1. PICK n \in Nat : n = NextOf(j)
      BY <1>4
    <3>2. PICK r : r = [type |-> "AppendReply", src |-> m.dest, dest |-> m.src, term |-> m.term,
                        success |-> FALSE, xlen |-> n, xterm |-> -1, xindex |-> -1,
                        next |-> m.next]
      OBVIOUS
    <3>3. Answer(m, r)
      BY <1>2, <2>1, <3>1, <3>2 DEF MismatchAppend, AppendAnswer
    <3>4. OnWire(r) /\ r.type = "AppendReply" /\ r.dest = m.src /\ r.src = m.dest /\ ~r.success
      <4>1. n >= 0 /\ n \in Int
        OBVIOUS
      <4> QED BY <1>3, <1>4, <3>2, <4>1, RefusalFits
    <3> QED BY <3>3, <3>4
  <2>2. CASE ~(m.prev > Last(j))
    <3>1. m.prev <= Last(j)
      BY <1>3, <1>4, <2>2
    <3>2. p \in 1..Len(log[j]) /\ log[j][p].term \in Nat
      BY <1>1, <1>2, <1>3, <1>6, <3>1, EntryFacts
    <3>3. p \in Nat \ {0}
      BY <1>1, <3>2, ServerFacts
    <3>4. PICK t \in Nat, x \in Nat :
             t = log[j][p].term /\ x = lastSnap[j] + RunStart(log[j], p) - 1
      <4>1. PICK s \in 1..p : s = RunStart(log[j], p)
        BY <3>3, RunStartFacts
      <4>2. lastSnap[j] + s - 1 \in Nat
        BY <1>4, <3>3, <4>1
      <4> QED BY <3>2, <4>1, <4>2
    <3>5. PICK r : r = [type |-> "AppendReply", src |-> m.dest, dest |-> m.src, term |-> m.term,
                        success |-> FALSE, xlen |-> -1, xterm |-> t, xindex |-> x,
                        next |-> m.next]
      OBVIOUS
    <3>6. Answer(m, r)
      BY <1>2, <1>6, <2>2, <3>4, <3>5 DEF MismatchAppend, AppendAnswer
    <3>7. OnWire(r) /\ r.type = "AppendReply" /\ r.dest = m.src /\ r.src = m.dest /\ ~r.success
      <4>1. t \in Int /\ x >= 0 /\ x \in Int
        OBVIOUS
      <4> QED BY <1>3, <1>4, <3>5, <4>1, RefusalFits
    <3> QED BY <3>6, <3>7
  <2> QED BY <2>1, <2>2
<1>8. PICK r : /\ Answer(m, r) /\ OnWire(r) /\ r.type = "AppendReply"
               /\ r.dest = m.src /\ r.src = m.dest /\ ~r.success
  BY <1>7
<1> QED BY <1>2, <1>3, <1>5, <1>8, AnswersFits

\* A snapshot is refused, or nothing new.
LEMMA SkipSnapshotFits ==
    ASSUME SafeInv, NEW j \in Server, NEW m \in msgs, SkipSnapshot(j, m)
    PROVE  Fits
<1>1. Sound /\ Wires /\ Elects
  BY DEF SafeInv, Sound
<1>2. /\ m.type = "InstallSnapshot" /\ m.dest = j /\ AdoptTerm(j, m.term)
      /\ UNCHANGED <<leader, commitIndex, apply, service, senders, boot, ghost>>
  BY DEF SkipSnapshot, Calls
<1>3. m \in SnapshotCalls /\ SnapshotFits(m) /\ m.term \in Nat /\ m.src \in Server
  BY <1>1, <1>2, WireFacts, SnapshotCallFacts
<1>4. PICK r : r = [type |-> "InstallReply", src |-> j, dest |-> m.src, term |-> term[j]]
  OBVIOUS
<1>5. Answer(m, r)
  BY <1>4 DEF SkipSnapshot, InstallAnswer
<1>6. OnWire(r) /\ r.type = "InstallReply"
  <2>1. term[j] \in Nat
    BY <1>1 DEF Elects
  <2> QED BY <1>3, <1>4, <2>1 DEF OnWire, InstallAnswers
<1>7. m \in Requests
  BY <1>2 DEF Requests
<1> QED BY <1>2, <1>3, <1>5, <1>6, <1>7, AnswersFits

\* A call whose previous entry is behind the snapshot ends the program.
LEMMA BelowSnapshotFits ==
    ASSUME SafeInv, NEW j \in Server, NEW m \in msgs, BelowSnapshot(j, m)
    PROVE  Fits
<1>1. "index out of range" \in Ends
  BY Zenon DEF Ends
<1>2. Die("index out of range")
  BY Zenon DEF BelowSnapshot
<1> QED BY <1>1, <1>2, DieFits, Zenon

\* Start adds an entry of the leader's term to its log.
LEMMA StartFits ==
    ASSUME SafeInv, NEW i \in Server, Start(i)
    PROVE  Fits
<1>1. Sound /\ Stores /\ Elects /\ Counts /\ Durable
  BY DEF SafeInv, Sound
<1>2. Types /\ LeadershipFits /\ ChosenFits
  BY DEF SafeInv, LogInv
<1>3. /\ Leads(i)
      /\ log' = [log EXCEPT ![i] = Append(@, [term |-> term[i], cmd |-> <<term[i], NextOf(i)>>])]
      /\ nextIndex' = [nextIndex EXCEPT ![i][i] = NextOf(i) + 1]
      /\ matchIndex' = [matchIndex EXCEPT ![i][i] = NextOf(i)]
      /\ UNCHANGED <<elect, lastSnap, snapshot>> /\ Persist(i)
      /\ UNCHANGED <<starting, leads, commitIndex, apply, service, net, boot, ghost>>
  BY DEF Start, Leads
<1>4. /\ log[i] \in Seq(Entry) /\ snapshot[i] \in Seq(Command) /\ Formed(snapshot[i], log[i])
      /\ Trail[i] = Whole(snapshot[i], log[i]) /\ Len(snapshot[i]) = lastSnap[i]
      /\ NextOf(i) \in Nat
  <2>1. /\ log[i] \in Seq(Entry) /\ snapshot[i] \in Seq(Command) /\ Formed(snapshot[i], log[i])
        /\ Trail[i] = Whole(snapshot[i], log[i]) /\ Len(snapshot[i]) = lastSnap[i]
        /\ NextOf(i) = Last(i) + 1 /\ Last(i) \in Nat
    BY <1>1, ServerFacts
  <2> QED BY <2>1
<1>5. PICK t \in Nat : t = term[i]
  BY <1>1 DEF Elects
<1>6. PICK e : e = [term |-> t, cmd |-> <<t, NextOf(i)>>]
  OBVIOUS
<1>7. PICK l : l = Append(log[i], e)
  OBVIOUS
<1>8. log' = [log EXCEPT ![i] = l]
  BY <1>3, <1>5, <1>6, <1>7
<1>9. /\ l \in Seq(Entry) /\ Formed(snapshot[i], l)
      /\ Whole(snapshot[i], l) = Append(Trail[i], t)
  <2>1. e = [term |-> t, cmd |-> <<t, Len(snapshot[i]) + Len(log[i])>>]
    BY <1>4, <1>6 DEF NextOf
  <2>2. /\ Append(log[i], e) \in Seq(Entry) /\ Formed(snapshot[i], Append(log[i], e))
        /\ Whole(snapshot[i], Append(log[i], e)) = Append(Whole(snapshot[i], log[i]), t)
    BY <1>4, <2>1, FormedAppend, Zenon
  <2> QED BY <1>4, <1>7, <2>2, Zenon
<1>10. log'[i] = l /\ \A k \in Server \ {i} : log'[k] = log[k]
  BY <1>1, <1>8 DEF Stores
<1>11. UNCHANGED <<term, votedFor, state>> /\ snapshot' = snapshot /\ lastSnap' = lastSnap
  BY <1>3 DEF elect
<1>12. Stores'
  <2>1. log' \in [Server -> Seq(Entry)]
    BY <1>1, <1>8, <1>9 DEF Stores
  <2>2. \A k \in Server : Len(snapshot[k]) = lastSnap[k] /\ Formed(snapshot[k], log'[k])
    BY <1>1, <1>9, <1>10 DEF Stores
  <2> QED BY <1>1, <1>11, <2>1, <2>2 DEF Stores
<1>13. Trail' = [Trail EXCEPT ![i] = Append(Trail[i], term[i])]
  <2>1. Trail' = [k \in Server |-> Whole(snapshot[k], log'[k])]
    BY <1>11 DEF Trail
  <2>2. Trail = [k \in Server |-> Whole(snapshot[k], log[k])]
    BY DEF Trail
  <2> QED BY <1>5, <1>9, <1>10, <2>1, <2>2
<1>14. Elects' /\ Durable'
  <2>1. Elects'
    BY <1>1, <1>11 DEF Elects
  <2>2. Durable'
    BY <1>1, <1>3, <1>10, <1>11, <1>12, <2>1, PersistDurable
  <2> QED BY <2>1, <2>2
<1>15. Counts'
  <2>1. NextOf(i) + 1 \in Nat
    BY <1>4
  <2> QED BY <1>1, <1>3, <1>4, <2>1 DEF Counts
<1>16. Sound'
  BY <1>1, <1>3, <1>12, <1>14, <1>15, SameGroups DEF Sound
<1>17. Types'
  <2>1. (Sound => Types)'
    BY SoundTypes, PTL
  <2> QED BY <1>16, <2>1
<1>18. Requests' = Requests /\ Answers' = Answers
  BY <1>3 DEF Requests, Answers, net
<1>19. StepFits
  <2>1. Writes(i)
    BY <1>3, <1>11, <1>13, <1>18 DEF Writes
  <2> QED BY <1>17, <2>1 DEF StepFits
<1>20. KnownStep
  <2> SUFFICES ASSUME NEW k \in Server, NEW j \in Server
               PROVE  Known(k, j)' = Known(k, j)
    BY DEF KnownStep
  <2>1. j # k => matchIndex'[k][j] = matchIndex[k][j]
    BY <1>1, <1>3 DEF Counts
  <2> QED BY <1>11, <2>1 DEF Known
<1>21. LeadersSame
  BY <1>11 DEF LeadersSame, Leads
<1>22. RequestStep /\ AnswerStep
  BY <1>18 DEF RequestStep, AnswerStep
<1>23. UNCHANGED <<leads, boot>> /\ commitIndex' = commitIndex /\ chosen' = chosen
  BY <1>3 DEF ghost
<1>24. AckStep /\ LeadershipFits'
  BY <1>2, <1>17, <1>20, <1>21, <1>22, <1>23, StepAcks
<1>25. CommitStep /\ Bounded'
  BY <1>2, <1>11, <1>23, QuietCommits DEF ChosenFits, Bounded
<1>26. ServiceFits'
  BY <1>3, QuietServices DEF apply, service, ghost
<1> QED BY <1>16, <1>19, <1>24, <1>25, <1>26 DEF Fits, Kept

\* The entries of a log that are behind prev.
LEMMA EntriesBehind ==
    ASSUME NEW s \in Seq(Command), NEW l \in Seq(Entry), Formed(s, l),
           NEW f \in Seq(Nat), f = Whole(s, l), NEW n \in Nat, n = Len(f), NEW prev \in Nat,
           NEW a \in Nat, a = Len(s), a <= prev, prev < n, NEW q \in Nat, q = prev - a + 2
    PROVE  /\ SubSeq(l, q, Len(l)) \in Seq(Entry)
           /\ Behind(SubSeq(l, q, Len(l)), Numbering(f, n), prev)
<1>1. PICK b \in Nat : b = Len(l)
  OBVIOUS
<1>2. n = a + b - 1 /\ b >= 1 /\ \A p \in 1..b : l[p].term = At(f, a + p - 1)
  BY <1>1, WholeFacts
<1>3. q >= 2 /\ q <= b
  BY <1>2
<1>4. PICK es : es = SubSeq(l, q, b)
  OBVIOUS
<1>5. /\ es \in Seq(Entry) /\ Len(es) = b - q + 1
      /\ \A x \in 1..b - q + 1 : es[x] = l[q + x - 1]
  <2>1. \A x \in q..b : l[x] \in Entry
    BY <1>1, <1>3, ElementOfSeq
  <2> QED BY <1>3, <1>4, <2>1, SubSeqProperties, q \in Int, b \in Int
<1>6. b - q + 1 = n - prev
  BY <1>1, <1>2
<1>7. Len(Numbering(f, n)) = n /\ \A x \in 1..n : Numbering(f, n)[x] = <<f[x], x>>
  <2>1. n <= Len(f)
    <3>1. PICK y \in Nat : y = Len(f)
      OBVIOUS
    <3>2. n = y
      BY <3>1
    <3>3. n <= y
      BY <3>2
    <3> QED BY <3>1, <3>3
  <2> QED BY <2>1, NumberingFacts, Zenon
<1>8. PICK c : c = Numbering(f, n)
  OBVIOUS
<1>9. ASSUME NEW x \in 1..n - prev
      PROVE  /\ prev + x \in 1..n
             /\ l[q + x - 1] = [term |-> f[prev + x], cmd |-> <<f[prev + x], prev + x>>]
  <2>0. PICK p, y : p = q + x - 1 /\ y = prev + x
    OBVIOUS
  <2>1. p \in Nat /\ y \in Nat /\ p = q + x - 1 /\ y = prev + x
    BY <1>3, <2>0
  <2>2. p \in 2..b /\ p \in 1..b /\ y \in 1..n /\ y # 0 /\ a + p - 1 = y
    <3>1. x \in Nat /\ 1 <= x /\ x <= n - prev
      OBVIOUS
    <3>2. y \in 1..n /\ y # 0
      BY SMTT(30), <2>1, <3>1
    <3>3. a + p - 1 = y
      BY SMTT(30), <2>1, <3>1
    <3>4. 2 <= p
      BY SMTT(30), <1>3, <2>1, <3>1
    <3>5. p <= b
      <4>1. n = a + b - 1 /\ y <= n
        BY SMTT(30), <1>2, <3>2
      <4> QED BY SMTT(30), <2>1, <3>3, <4>1
    <3> QED BY <2>1, <3>2, <3>3, <3>4, <3>5
  <2>3. l[p] \in Entry
    BY <1>1, <2>2, ElementOfSeq
  <2>4. l[p].term = f[y]
    <3>1. l[p].term = At(f, y)
      BY <1>2, <2>2
    <3> QED BY <2>2, <3>1 DEF At
  <2>5. l[p].cmd = <<l[p].term, y>>
    BY <1>1, <2>2 DEF Formed
  <2>6. l[p] = [term |-> f[y], cmd |-> <<f[y], y>>]
    BY <2>3, <2>4, <2>5 DEF Entry
  <2> QED BY <2>1, <2>2, <2>6
<1>10. ASSUME NEW x \in 1..Len(es)
       PROVE  es[x] = [term |-> c[prev + x][1], cmd |-> c[prev + x]]
  <2>1. x \in 1..n - prev
    BY <1>5, <1>6
  <2>2. es[x] = l[q + x - 1]
    BY <1>5, <1>6, <2>1
  <2>3. PICK y : y = prev + x /\ y \in 1..n
    BY <1>9, <2>1
  <2>4. l[q + x - 1] = [term |-> f[y], cmd |-> <<f[y], y>>]
    BY <1>9, <2>1, <2>3
  <2>5. c[y] = <<f[y], y>> /\ c[y][1] = f[y]
    BY <1>7, <1>8, <2>3
  <2> QED BY <2>2, <2>3, <2>4, <2>5
<1> QED BY <1>1, <1>4, <1>5, <1>6, <1>7, <1>8, <1>10 DEF Behind

\* The request that a leader builds is cut from its log, or is its snapshot.
LEMMA BuiltFits ==
    ASSUME SafeInv, NEW i \in Server, NEW j \in Server, j # i, Leads(i), NEW r,
           \/ r = SnapshotRequest(i, j)
           \/ r = AppendRequest(i, j) /\ nextIndex[i][j] - 1 \in lastSnap[i]..Last(i)
    PROVE  /\ OnWire(r) /\ r.type \in {"AppendEntries", "InstallSnapshot"}
           /\ r.src = i /\ r.dest = j /\ r.term = term[i] /\ r.boot = boot[i]
           /\ Starts(Full(r), Trail[i])
           /\ CommitOf(r) <= commitIndex[i] /\ CommitOf(r) <= Len(Full(r))
<1>1. Sound /\ Stores /\ Elects /\ Counts /\ Applies /\ Remains
  BY DEF SafeInv, Sound
<1>2. Types /\ ChosenFits /\ CommitFits
  BY DEF SafeInv, LogInv
<1>3. /\ log[i] \in Seq(Entry) /\ snapshot[i] \in Seq(Command) /\ lastSnap[i] \in Nat
      /\ Len(log[i]) \in Nat /\ Len(log[i]) >= 1 /\ Len(snapshot[i]) = lastSnap[i]
      /\ Formed(snapshot[i], log[i]) /\ Numbered(snapshot[i])
      /\ Trail[i] \in Seq(Nat) /\ Len(Trail[i]) = Last(i)
      /\ Last(i) \in Nat /\ Last(i) >= lastSnap[i]
      /\ NextOf(i) = Last(i) + 1 /\ Last(i) = lastSnap[i] + Len(log[i]) - 1
      /\ Starts(Terms(snapshot[i]), Trail[i])
  BY <1>1, ServerFacts
<1>4. term[i] \in Nat /\ commitIndex[i] \in Nat /\ boot[i] \in Nat
  BY <1>1 DEF Elects, Applies, Remains
<1>5. lastSnap[i] <= commitIndex[i]
  BY <1>2 DEF ChosenFits
<1>6. commitIndex[i] <= Last(i)
  <2>1. Committed(Trail[i], commitIndex[i], term[i])
    BY <1>2 DEF CommitFits
  <2>2. commitIndex[i] > 0 => commitIndex[i] <= Len(Trail[i])
    BY <2>1 DEF Committed, Same
  <2> QED BY <1>3, <1>4, <2>2
<1>7. CASE r = SnapshotRequest(i, j)
  <2>1. PICK d, b, t, u : /\ d = snapshot[i] /\ b = boot[i] /\ t = term[i]
                          /\ u = log[i][1].term
    OBVIOUS
  <2>2. r = [type |-> "InstallSnapshot", src |-> i, boot |-> b, dest |-> j, term |-> t,
             lastIncludedTerm |-> u, data |-> d]
    BY <1>7, <2>1 DEF SnapshotRequest
  <2>3. u = At(Terms(d), Len(d)) /\ d \in Seq(Command) /\ Numbered(d) /\ Len(d) = lastSnap[i]
    BY <1>3, <2>1 DEF Formed
  <2>4. u \in Nat
    <3>1. log[i][1] \in Entry
      BY <1>3, ElementOfSeq
    <3> QED BY <2>1, <3>1 DEF Entry
  <2>5. r \in SnapshotCalls
    BY <1>4, <2>1, <2>2, <2>3, <2>4 DEF SnapshotCalls
  <2>6. SnapshotFits(r)
    BY <2>2, <2>3 DEF SnapshotFits
  <2>7. /\ r.type = "InstallSnapshot" /\ r.src = i /\ r.dest = j /\ r.term = t /\ r.boot = b
        /\ r.data = d
    BY <2>2
  <2>8. Full(r) = Terms(d) /\ CommitOf(r) = lastSnap[i] /\ Len(Full(r)) = Len(d)
    BY <2>3, <2>7, NumberedFacts DEF Full, CommitOf
  <2>9. CommitOf(r) <= commitIndex[i] /\ CommitOf(r) <= Len(Full(r))
    BY <1>3, <1>5, <2>3, <2>8
  <2> QED BY <1>3, <2>1, <2>5, <2>6, <2>7, <2>8, <2>9 DEF OnWire
<1>8. CASE r = AppendRequest(i, j) /\ nextIndex[i][j] - 1 \in lastSnap[i]..Last(i)
  <2>1. PICK prev \in Nat : prev = nextIndex[i][j] - 1
    BY <1>3, <1>8
  <2>2. lastSnap[i] <= prev /\ prev <= Last(i) /\ nextIndex[i][j] \in Nat
    BY <1>1, <1>8, <2>1 DEF Counts
  <2>3. nextIndex[i][j] = prev + 1
    BY <2>1, <2>2
  <2>4. PICK es : es = IF NextOf(i) <= nextIndex[i][j] THEN <<>> ELSE From(i, nextIndex[i][j])
    OBVIOUS
  <2>5. PICK c : c = History(i, Last(i))
    OBVIOUS
  <2>6. /\ c \in Seq(Command) /\ Numbered(c) /\ Len(c) = Last(i)
        /\ Terms(c) = Upto(Trail[i], Last(i)) /\ c = Numbering(Trail[i], Last(i))
    BY <1>1, <1>3, <2>5, HistoryIs
  <2>7. Terms(c) = Trail[i]
    <3>1. Starts(Trail[i], Trail[i])
      BY <1>3, StartsWith
    <3> QED BY <1>3, <2>6, <3>1, StartsFacts
  <2>8. PICK u : u = log[i][Pos(i, prev)].term
    OBVIOUS
  <2>9. u = At(Terms(c), prev) /\ u \in Nat
    BY <1>1, <2>2, <2>7, <2>8, EntryFacts
  <2>10. es \in Seq(Entry) /\ Behind(es, c, prev)
    <3>1. CASE NextOf(i) <= nextIndex[i][j]
      <4>1. es = <<>> /\ Len(c) - prev = 0
        BY <1>3, <2>2, <2>3, <2>4, <2>6, <3>1
      <4>2. Len(es) = 0 /\ es \in Seq(Entry)
        BY <4>1
      <4> QED BY <4>1, <4>2 DEF Behind
    <3>2. CASE ~(NextOf(i) <= nextIndex[i][j])
      <4>1. prev < Last(i)
        BY <1>3, <2>2, <2>3, <3>2
      <4>0. PICK a \in Nat : a = Len(snapshot[i])
        BY <1>3
      <4>2. PICK q \in Nat : q = prev - a + 2
        BY <1>3, <2>2, <4>0
      <4>3. Pos(i, nextIndex[i][j]) = q
        <5>1. PICK x \in Nat : x = lastSnap[i]
          BY <1>3
        <5>2. q = prev - x + 2 /\ Pos(i, nextIndex[i][j]) = nextIndex[i][j] - x + 1
          BY <1>3, <4>0, <4>2, <5>1 DEF Pos
        <5> QED BY <2>3, <5>2
      <4>4. es = SubSeq(log[i], q, Len(log[i]))
        BY <2>4, <3>2, <4>3 DEF From
      <4>5. Trail[i] = Whole(snapshot[i], log[i]) /\ a <= prev
        BY <1>1, <1>3, <2>2, <4>0, ServerFacts
      <4> QED BY <1>3, <2>6, <4>0, <4>1, <4>2, <4>4, <4>5, EntriesBehind
    <3> QED BY <3>1, <3>2
  <2>11. PICK b, t, k, n : b = boot[i] /\ t = term[i] /\ k = commitIndex[i] /\ n = NextOf(i)
    OBVIOUS
  <2>12. r = [type |-> "AppendEntries", src |-> i, boot |-> b, dest |-> j, term |-> t,
              prev |-> prev, prevTerm |-> u, entries |-> es, commit |-> k, next |-> n,
              full |-> c]
    BY <1>8, <2>1, <2>4, <2>5, <2>8, <2>11 DEF AppendRequest
  <2>13. r \in AppendCalls
    <3>1. prev \in Int /\ n \in Nat
      BY <1>3, <2>11
    <3> QED BY <1>4, <2>6, <2>9, <2>10, <2>11, <2>12, <3>1 DEF AppendCalls
  <2>14. /\ r.type = "AppendEntries" /\ r.src = i /\ r.dest = j /\ r.term = t /\ r.boot = b
         /\ r.prev = prev /\ r.prevTerm = u /\ r.entries = es /\ r.commit = k /\ r.next = n
         /\ r.full = c
    BY <2>12
  <2>15. CallFits(r)
    <3>1. prev \in 0..Len(c) /\ n = Len(c) + 1
      BY <1>3, <2>2, <2>6, <2>11
    <3> QED BY <2>6, <2>9, <2>10, <2>14, <3>1 DEF CallFits
  <2>16. Full(r) = Trail[i] /\ CommitOf(r) = commitIndex[i]
    BY <2>7, <2>11, <2>14 DEF Full, CommitOf
  <2>17. Starts(Trail[i], Trail[i])
    BY <1>3, StartsWith
  <2>18. commitIndex[i] <= commitIndex[i] /\ commitIndex[i] <= Len(Trail[i])
    BY <1>3, <1>4, <1>6
  <2> QED BY <2>11, <2>13, <2>14, <2>15, <2>16, <2>17, <2>18 DEF OnWire
<1> QED BY <1>7, <1>8

\* A goroutine of a leader has the lock: it sends, or the program ends.
LEMMA BuildFits ==
    ASSUME SafeInv, NEW i \in Server, NEW j \in Server, j # i, Leads(i), NEW kind,
           Build(i, j, kind), senders' \subseteq senders,
           UNCHANGED <<elect, store, saved, leader, commitIndex, apply, service, boot, chosen,
                       bound>>
    PROVE  Fits
<1>1. Sound /\ Wires /\ Remains
  BY DEF SafeInv, Sound
<1>2. Types /\ LeadershipFits /\ ChosenFits
  BY DEF SafeInv, LogInv
<1>3. /\ UNCHANGED <<term, votedFor, state, store, commitIndex, chosen>>
      /\ UNCHANGED <<leads, boot>> /\ UNCHANGED <<matchIndex, lastSnap>> /\ Trail' = Trail
  BY DEF elect, leader, store, Trail
<1>4. ServiceFits'
  BY QuietServices DEF apply, service
<1>5. KnownStep
  BY <1>3, KnownSame
<1>6. CASE ended' \in Ends /\ msgs' = msgs
  <2>2. Remains'
    BY <1>1, <1>6 DEF Remains
  <2>3. Wires'
    BY <1>1, <1>6 DEF Wires
  <2>4. Sound'
    BY <1>1, <2>2, <2>3, SameGroups DEF Sound
  <2>5. Requests' \subseteq Requests /\ AnswerStep
    BY <1>6 DEF Requests, Answers, AnswerStep
  <2>6. Kept
    BY <1>3, <1>5, <2>4, <2>5, QuietKept
  <2> QED BY <1>4, <2>4, <2>6 DEF Fits
<1>7. ASSUME NEW r, msgs' = msgs \cup {r}, ended' = ended,
             \/ r = SnapshotRequest(i, j)
             \/ r = AppendRequest(i, j) /\ nextIndex[i][j] - 1 \in lastSnap[i]..Last(i)
      PROVE  Fits
  <2>1. /\ OnWire(r) /\ r.type \in {"AppendEntries", "InstallSnapshot"}
        /\ r.src = i /\ r.dest = j /\ r.term = term[i] /\ r.boot = boot[i]
        /\ Starts(Full(r), Trail[i])
        /\ CommitOf(r) <= commitIndex[i] /\ CommitOf(r) <= Len(Full(r))
    BY <1>7, BuiltFits
  <2>2. Wires'
    BY <1>1, <1>7, <2>1 DEF Wires
  <2>3. Remains'
    BY <1>1, <1>7 DEF Remains
  <2>4. Sound'
    BY <1>1, <2>2, <2>3, SameGroups DEF Sound
  <2>5. Types'
    <3>1. (Sound => Types)'
      BY SoundTypes, PTL
    <3> QED BY <2>4, <3>1
  <2>6. Requests' = Requests \cup {r} /\ Answers' = Answers
    BY <1>7, <2>1 DEF Requests, Answers
  <2>7. StepFits
    <3>1. Sends(i, r)
      BY <1>3, <2>1, <2>6 DEF Sends
    <3> QED BY <2>5, <2>6, <3>1 DEF StepFits
  <2>8. LeadersSame
    BY <1>3 DEF LeadersSame, Leads
  <2>9. RequestStep /\ AnswerStep
    BY <2>1, <2>6 DEF RequestStep, AnswerStep
  <2>10. AckStep /\ LeadershipFits'
    BY <1>2, <1>3, <1>5, <2>5, <2>8, <2>9, StepAcks
  <2>11. CommitStep /\ Bounded'
    BY <1>2, <1>3, QuietCommits DEF ChosenFits, Bounded
  <2> QED BY <1>4, <2>4, <2>7, <2>10, <2>11 DEF Fits, Kept
<1>8. CASE kind = "AppendEntries" /\ nextIndex[i][j] - 1 \notin lastSnap[i]..Last(i)
  <2>1. ended' \in Ends /\ msgs' = msgs
    BY <1>8, Zenon DEF Build, Ends
  <2> QED BY <1>6, <2>1, Zenon
<1>9. CASE kind = "AppendEntries" /\ nextIndex[i][j] - 1 \in lastSnap[i]..Last(i)
  <2>1. msgs' = msgs \cup {AppendRequest(i, j)} /\ ended' = ended
    BY <1>9, Zenon DEF Build
  <2> QED BY <1>7, <1>9, <2>1, Zenon
<1>10. CASE kind # "AppendEntries"
  <2>1. msgs' = msgs \cup {SnapshotRequest(i, j)} /\ ended' = ended
    BY <1>10, Zenon DEF Build
  <2> QED BY <1>7, <2>1, Zenon
<1> QED BY <1>8, <1>9, <1>10, Zenon

LEMMA SendFits ==
    ASSUME SafeInv, NEW i \in Server, NEW j \in Server, Send(i, j)
    PROVE  Fits
<1>1. /\ Leads(i) /\ j # i /\ Build(i, j, Kind(i, j)) /\ senders' = senders
      /\ UNCHANGED <<elect, store, saved, leader, commitIndex, apply, service, boot, chosen,
                     bound>>
  BY DEF Send, Looping, Leads
<1> QED BY <1>1, BuildFits

LEMMA SendLateFits ==
    ASSUME SafeInv, SendersLead, NEW g \in senders, SendLate(g)
    PROVE  Fits
<1>1. Leads(g[1]) /\ g[1] # g[2] /\ g[1] \in Server /\ g[2] \in Server
  BY DEF SendersLead, SafeInv, Sound, Wires
<1>2. /\ Build(g[1], g[2], g[3]) /\ senders' \subseteq senders
      /\ UNCHANGED <<elect, store, saved, leader, commitIndex, apply, service, boot, chosen,
                     bound>>
  BY DEF SendLate
<1> QED BY <1>1, <1>2, BuildFits

\* What a server has that takes a request.
Taken(j, m) == IF Starts(Full(m), Trail[j]) THEN Trail[j] ELSE Full(m)

\* A server that meets the term of a request is of that term, and does not lead it.
LEMMA MetFacts ==
    ASSUME SafeInv, NEW j \in Server, NEW m \in Requests, m.dest = j, term[j] <= m.term,
           MeetTerm(j, m.term)
    PROVE  /\ term'[j] = m.term /\ state'[j] # "Leader"
           /\ term[j] < term'[j] \/ (term[j] = term'[j] /\ votedFor'[j] = votedFor[j])
           /\ \A k \in Server \ {j} : /\ term'[k] = term[k] /\ votedFor'[k] = votedFor[k]
                                      /\ state'[k] = state[k]
           /\ Elects' /\ LeadersSame
<1>1. Elects /\ Types
  BY DEF SafeInv, LogInv, Sound
<1>2. m.term \in Nat /\ term[j] \in Nat
  BY <1>1, RequestTypes DEF Types
<1>3. /\ Elects' /\ LeadersSame
      /\ \A k \in Server \ {j} : /\ term'[k] = term[k] /\ votedFor'[k] = votedFor[k]
                                 /\ state'[k] = state[k]
      /\ \/ m.term <= term[j] /\ term' = term /\ votedFor' = votedFor /\ state' = state
         \/ term[j] < m.term /\ term'[j] = m.term /\ state'[j] = "Follower"
  BY <1>1, <1>2, MeetFacts
<1>4. CASE m.term <= term[j] /\ term' = term /\ votedFor' = votedFor /\ state' = state
  <2>1. term[j] = m.term
    BY <1>2, <1>4
  <2>2. RequestFits(m)
    BY DEF SafeInv, LogInv
  <2>3. ~Leads(j)
    BY <2>1, <2>2 DEF RequestFits
  <2> QED BY <1>3, <1>4, <2>1, <2>3 DEF Leads
<1>5. CASE term[j] < m.term /\ term'[j] = m.term /\ state'[j] = "Follower"
  BY <1>3, <1>5
<1> QED BY <1>3, <1>4, <1>5

\* A server that takes a request takes what its leader had, and learns what that knew.
LEMMA TakesKept ==
    ASSUME SafeInv, Sound', NEW j \in Server, NEW m \in Requests, m.dest = j, term[j] <= m.term,
           MeetTerm(j, m.term), Trail'[j] = Taken(j, m),
           \A k \in Server \ {j} : /\ Trail'[k] = Trail[k] /\ commitIndex'[k] = commitIndex[k]
                                   /\ lastSnap'[k] = lastSnap[k],
           commitIndex'[j] = commitIndex[j] \/ commitIndex'[j] = CommitOf(m),
           lastSnap'[j] <= commitIndex'[j], UNCHANGED <<leads, boot, chosen>>,
           Requests' \subseteq Requests, KnownStep, RequestStep, AnswerStep
    PROVE  Kept
<1>1. Types /\ LeadershipFits /\ ChosenFits
  BY DEF SafeInv, LogInv
<1>2. Types'
  <2>1. (Sound => Types)'
    BY SoundTypes, PTL
  <2> QED BY <2>1
<1>3. /\ term'[j] = m.term /\ state'[j] # "Leader"
      /\ term[j] < term'[j] \/ (term[j] = term'[j] /\ votedFor'[j] = votedFor[j])
      /\ \A k \in Server \ {j} : /\ term'[k] = term[k] /\ votedFor'[k] = votedFor[k]
                                 /\ state'[k] = state[k]
      /\ LeadersSame
  BY MetFacts
<1>4. Full(m) \in Seq(Nat) /\ CommitOf(m) \in Nat
  BY <1>1, RequestTypes
<1>5. Starts(Full(m), Trail'[j])
  BY <1>4, StartsWith DEF Taken
<1>6. StepFits
  <2>1. Takes(j)
    BY <1>3 DEF Takes, Taken
  <2>2. Follows
    BY <1>1, <1>2, <1>3, <2>1, DemotedFollows
  <2> QED BY <1>2, <2>2 DEF StepFits
<1>7. AckStep /\ LeadershipFits'
  BY <1>1, <1>2, <1>3, StepAcks
<1>8. CommitStep
  <2> SUFFICES ASSUME NEW k \in Server
               PROVE  \/ commitIndex'[k] <= commitIndex[k]
                      \/ \E n \in Nat : commitIndex'[k] = n /\ Commits(k, n)
    BY DEF CommitStep
  <2>1. commitIndex[k] \in Nat
    BY <1>1 DEF Types
  <2>2. CASE commitIndex'[k] = commitIndex[k]
    BY <2>1, <2>2
  <2>3. CASE k = j /\ commitIndex'[j] = CommitOf(m)
    <3>1. Commits(j, CommitOf(m))
      BY <1>3, <1>5 DEF Commits
    <3> QED BY <1>4, <2>3, <3>1
  <2> QED BY <2>2, <2>3
<1>9. Bounded'
  <2>1. \A k \in Server : lastSnap[k] <= commitIndex[k] /\ commitIndex[k] <= Len(chosen)
    BY <1>1 DEF ChosenFits
  <2>2. CommitOf(m) <= Len(chosen)
    BY <1>1 DEF ChosenFits
  <2>3. \A k \in Server : lastSnap'[k] <= commitIndex'[k] /\ commitIndex'[k] <= Len(chosen)
    BY <2>1, <2>2
  <2> QED BY <2>3 DEF Bounded
<1> QED BY <1>6, <1>7, <1>8, <1>9 DEF Kept

\* The handler takes the entries of a call that matches.
LEMMA AcceptAppendFits ==
    ASSUME SafeInv, NEW j \in Server, NEW m \in msgs, AcceptAppend(j, m)
    PROVE  Fits
<1>1. Sound /\ Wires /\ Stores /\ Durable /\ Applies /\ Serves
  BY DEF SafeInv, Sound
<1>2. Types /\ LogInv /\ ChosenFits /\ CommitFits /\ ServiceFits
  BY DEF SafeInv, LogInv
<1>3. /\ m.type = "AppendEntries" /\ m.dest = j /\ m.term >= term[j] /\ Matches(j, m)
      /\ MeetTerm(j, m.term)
      /\ log' = [log EXCEPT ![j] = Merged(@, Pos(j, m.prev), m.entries)]
      /\ UNCHANGED <<lastSnap, snapshot>> /\ Persist(j)
      /\ commitIndex' = [commitIndex EXCEPT ![j] = CommitAfter(@, m)]
      /\ UNCHANGED <<leader, apply, service, senders, boot, ghost>>
  BY DEF AcceptAppend, Calls
<1>4. m \in AppendCalls /\ CallFits(m) /\ m \in Requests
  BY <1>1, <1>3, WireFacts DEF Requests
<1>5. /\ m.src \in Server /\ m.dest \in Server /\ m.src # m.dest
      /\ m.boot \in Nat /\ m.term \in Nat /\ m.commit \in Nat
      /\ m.full \in Seq(Command) /\ Numbered(m.full) /\ m.entries \in Seq(Entry)
      /\ m.prev \in Nat /\ m.prev <= Len(m.full) /\ Len(m.full) \in Nat
      /\ m.prevTerm = At(Full(m), m.prev) /\ Behind(m.entries, m.full, m.prev)
      /\ Len(m.entries) = Len(m.full) - m.prev
      /\ m.next = Len(m.full) + 1 /\ m.next \in Nat
      /\ Full(m) = Terms(m.full) /\ Full(m) \in Seq(Nat) /\ Len(Full(m)) = Len(m.full)
      /\ CommitOf(m) = m.commit
  BY <1>4, AppendCallFacts
<1>6. /\ log[j] \in Seq(Entry) /\ snapshot[j] \in Seq(Command) /\ lastSnap[j] \in Nat
      /\ Len(snapshot[j]) = lastSnap[j] /\ Formed(snapshot[j], log[j])
      /\ Trail[j] = Whole(snapshot[j], log[j]) /\ Trail[j] \in Seq(Nat) /\ Len(Trail[j]) = Last(j)
      /\ Last(j) \in Nat /\ Last(j) = lastSnap[j] + Len(log[j]) - 1 /\ Len(log[j]) \in Nat
  BY <1>1, ServerFacts
<1>7. lastSnap[j] <= m.prev /\ m.prev <= Last(j)
  BY <1>3, <1>5, <1>6 DEF Matches
<1>70. PICK a \in Nat, b \in Nat, c \in Nat, q \in Nat :
          a = Len(snapshot[j]) /\ b = Len(log[j]) /\ c = Len(m.full) /\ q = m.prev
  BY <1>5, <1>6
<1>71. a <= q /\ q <= a + b - 1 /\ q <= c /\ Len(Trail[j]) = a + b - 1 /\ Len(Full(m)) = c
  BY <1>5, <1>6, <1>7, <1>70
<1>72. q - a + 1 \in Nat /\ q - a + 1 <= b
  BY <1>71
<1>8. Same(Full(m), Trail[j], m.prev)
  <2>1. At(Trail[j], m.prev) = At(Full(m), m.prev)
    <3>1. log[j][Pos(j, m.prev)].term = At(Trail[j], m.prev)
      BY <1>1, <1>5, <1>7, EntryFacts
    <3> QED BY <1>3, <1>5, <3>1 DEF Matches
  <2>2. CASE m.prev = 0
    <3>1. 0 <= Len(Full(m)) /\ 0 <= Len(Trail[j]) /\ \A x \in 1..0 : Full(m)[x] = Trail[j][x]
      BY <1>5, <1>6
    <3> QED BY <2>2, <3>1 DEF Same
  <2>3. CASE m.prev # 0
    <3>1. Full(m) \in Logs /\ Trail[j] \in Logs
      BY <1>2, <1>4, LogTypes
    <3>2. Agree(Full(m), Trail[j])
      BY <1>2, <3>1 DEF LogInv, LogsFit
    <3>3. Full(m)[m.prev] = Trail[j][m.prev]
      BY <2>1, <2>3 DEF At
    <3>4. m.prev \in 1..Len(Full(m)) /\ m.prev \in 1..Len(Trail[j]) /\ m.prev <= m.prev
      <4>1. q # 0 /\ q \in 1..Len(Full(m)) /\ q \in 1..Len(Trail[j]) /\ q <= q
        <5>1. PICK v \in Nat : v = Len(Trail[j])
          BY <1>6
        <5>2. q <= v
          <6>1. v = a + b - 1
            BY <1>71, <5>1
          <6> QED BY <1>71, <6>1
        <5>3. q # 0
          BY <1>70, <2>3
        <5>4. q >= 1 /\ q <= c
          BY <1>71, <5>3
        <5> QED BY <1>71, <5>1, <5>2, <5>3, <5>4
      <4> QED BY <1>70, <4>1
    <3> QED BY <3>2, <3>3, <3>4 DEF Agree
  <2> QED BY <2>2, <2>3
<1>9. PICK p \in Nat : p = m.prev - Len(snapshot[j]) + 1
  BY <1>70, <1>72
<1>10. Pos(j, m.prev) = p
  BY <1>6, <1>9 DEF Pos
<1>11. PICK l : l = Merged(log[j], p, m.entries)
  OBVIOUS
<1>12. /\ l \in Seq(Entry) /\ Formed(snapshot[j], l)
       /\ Whole(snapshot[j], l) = Taken(j, m)
  <2>1. Len(snapshot[j]) <= m.prev /\ m.prev - Len(snapshot[j]) + 1 <= Len(log[j])
    BY <1>70, <1>71, <1>72
  <2>2. Same(Terms(m.full), Whole(snapshot[j], log[j]), m.prev)
    BY <1>5, <1>6, <1>8
  <2>3. /\ l \in Seq(Entry) /\ Formed(snapshot[j], l)
        /\ Whole(snapshot[j], l) =
             IF Starts(Terms(m.full), Whole(snapshot[j], log[j])) THEN Whole(snapshot[j], log[j])
                                                                  ELSE Terms(m.full)
    <3>1. PICK s, k, g, es, prev : /\ s = snapshot[j] /\ k = log[j] /\ g = m.full
                                   /\ es = m.entries /\ prev = m.prev
      OBVIOUS
    <3>2. /\ s \in Seq(Command) /\ k \in Seq(Entry) /\ Formed(s, k) /\ g \in Seq(Command)
          /\ Numbered(g) /\ prev \in Nat /\ es \in Seq(Entry) /\ Behind(es, g, prev)
          /\ prev <= Len(g)
      BY <1>5, <1>6, <3>1
    <3>3. /\ Len(s) <= prev /\ prev - Len(s) + 1 <= Len(k) /\ p = prev - Len(s) + 1
          /\ Same(Terms(g), Whole(s, k), prev) /\ l = Merged(k, p, es)
      BY <1>9, <1>11, <2>1, <2>2, <3>1
    <3>4. /\ l \in Seq(Entry) /\ Formed(s, l)
          /\ Whole(s, l) = IF Starts(Terms(g), Whole(s, k)) THEN Whole(s, k) ELSE Terms(g)
      BY SMTT(60), <3>2, <3>3, FormedMerged
    <3> QED BY <3>1, <3>4
  <2> QED BY <1>5, <1>6, <2>3 DEF Taken
<1>13. log' = [log EXCEPT ![j] = l] /\ snapshot' = snapshot /\ lastSnap' = lastSnap
  BY <1>3, <1>10, <1>11
<1>14. log'[j] = l /\ \A k \in Server \ {j} : log'[k] = log[k]
  BY <1>1, <1>13 DEF Stores
<1>15. Stores'
  <2>1. log' \in [Server -> Seq(Entry)]
    BY <1>1, <1>12, <1>13 DEF Stores
  <2>2. \A k \in Server : Len(snapshot[k]) = lastSnap[k] /\ Formed(snapshot[k], log'[k])
    BY <1>1, <1>12, <1>14 DEF Stores
  <2> QED BY <1>1, <1>13, <2>1, <2>2 DEF Stores
<1>16. Trail'[j] = Taken(j, m) /\ \A k \in Server \ {j} : Trail'[k] = Trail[k]
  <2>1. Trail' = [k \in Server |-> Whole(snapshot[k], log'[k])]
    BY <1>13 DEF Trail
  <2>2. Trail = [k \in Server |-> Whole(snapshot[k], log[k])]
    BY DEF Trail
  <2> QED BY <1>12, <1>14, <2>1, <2>2
<1>17. term[j] <= m.term
  <2>1. term[j] \in Nat
    BY <1>2 DEF Types
  <2> QED BY <1>3, <1>5, <2>1
<1>18. /\ term'[j] = m.term /\ Elects'
       /\ \A k \in Server \ {j} : /\ term'[k] = term[k] /\ votedFor'[k] = votedFor[k]
  BY <1>3, <1>4, <1>17, MetFacts
<1>19. Durable'
  BY <1>1, <1>3, <1>13, <1>14, <1>15, <1>18, PersistDurable
<1>20. /\ commitIndex'[j] \in Nat /\ commitIndex[j] <= commitIndex'[j]
       /\ commitIndex'[j] = commitIndex[j] \/ commitIndex'[j] = CommitOf(m)
       /\ \A k \in Server \ {j} : commitIndex'[k] = commitIndex[k]
       /\ Applies'
  <2>1. PICK v \in Nat : v = commitIndex[j]
    BY <1>1 DEF Applies
  <2>2. m.commit > 0 => m.commit <= Len(m.full)
    <3>1. Committed(Full(m), m.commit, m.term)
      BY <1>2, <1>4, <1>5 DEF CommitFits
    <3> QED BY <1>5, <3>1 DEF Committed, Same
  <2>3. m.prev + Len(m.entries) = Len(m.full)
    BY <1>5
  <2>4. CommitAfter(v, m) = IF m.commit > v THEN m.commit ELSE v
    <3>1. m.commit > v => Lesser(m.commit, Len(m.full)) = m.commit
      <4>1. m.commit > v => m.commit <= Len(m.full)
        BY <1>5, <2>2
      <4> QED BY <1>5, <4>1 DEF Lesser
    <3> QED BY <2>3, <3>1 DEF CommitAfter
  <2>5. PICK d \in Nat : d = CommitAfter(v, m)
    BY <1>5, <2>4
  <2>6. commitIndex' = [commitIndex EXCEPT ![j] = d]
    BY <1>3, <2>1, <2>5
  <2>7. v <= d /\ (d = v \/ d = CommitOf(m))
    BY <1>5, <2>4, <2>5
  <2>8. commitIndex'[j] = d /\ \A k \in Server \ {j} : commitIndex'[k] = commitIndex[k]
    BY <1>1, <2>6 DEF Applies
  <2>9. Applies'
    BY <1>1, <1>3, <2>6 DEF Applies, apply
  <2> QED BY <2>1, <2>7, <2>8, <2>9
<1>21. Wires' /\ Requests' \subseteq Requests /\ AnswerStep /\ RequestStep
  <2>1. PICK t : t = IF m.entries = <<>> THEN m.term ELSE 0
    OBVIOUS
  <2>2. PICK r : r = [type |-> "AppendReply", src |-> j, dest |-> m.src, term |-> t,
                      success |-> TRUE, xlen |-> -1, xterm |-> -1, xindex |-> -1,
                      next |-> m.next]
    OBVIOUS
  <2>3. Answer(m, r)
    BY <2>1, <2>2 DEF AcceptAppend, AppendAnswer
  <2>4. t \in Nat /\ -1 \in Int
    BY <1>5, <2>1
  <2>5. r \in AppendAnswers
    BY <1>5, <2>2, <2>4 DEF AppendAnswers
  <2>6. /\ r.type = "AppendReply" /\ r.dest = m.src /\ r.src = j /\ r.next = m.next
        /\ r.xlen = -1 /\ r.xterm = -1
    BY <2>2
  <2>7. AnswerFits(r)
    <3>1. r.next >= 1
      BY <1>5, <2>6
    <3> QED BY <2>6, <3>1 DEF AnswerFits
  <2>8. OnWire(r)
    BY <2>5, <2>7, Zenon DEF OnWire
  <2>9. Starts(Full(m), Trail'[j])
    BY <1>5, <1>16, StartsWith DEF Taken
  <2>10. r.next = Len(Full(m)) + 1
    BY <1>5, <2>6
  <2>11. r.type \in {"AppendReply", "InstallReply"} /\ senders' = senders
    BY <1>3, <2>6
  <2>12. r.type = "AppendReply" =>
            /\ r.dest = m.src /\ r.src = m.dest
            /\ r.success => /\ term[m.dest] <= m.term /\ term'[m.dest] = m.term
                            /\ r.next = Len(Full(m)) + 1 /\ Starts(Full(m), Trail'[m.dest])
    BY <1>3, <1>17, <1>18, <2>6, <2>9, <2>10
  <2> QED BY <1>1, <1>4, <2>3, <2>8, <2>11, <2>12, AnswerFacts
<1>22. Sound'
  BY <1>1, <1>3, <1>15, <1>18, <1>19, <1>20, <1>21, SameGroups DEF Sound
<1>23. UNCHANGED <<leads, boot, chosen>> /\ UNCHANGED <<matchIndex, lastSnap>>
  BY <1>3 DEF leader, ghost
<1>24. Kept
  <2>1. lastSnap'[j] <= commitIndex'[j]
    <3>1. lastSnap[j] <= commitIndex[j] /\ commitIndex[j] \in Nat
      BY <1>1, <1>2 DEF ChosenFits, Applies
    <3> QED BY <1>6, <1>13, <1>20, <3>1
  <2>2. KnownStep
    BY <1>23, KnownSame
  <2>3. \A k \in Server \ {j} : /\ Trail'[k] = Trail[k] /\ commitIndex'[k] = commitIndex[k]
                                /\ lastSnap'[k] = lastSnap[k]
    BY <1>13, <1>16, <1>20
  <2> QED BY <1>3, <1>4, <1>16, <1>17, <1>20, <1>21, <1>22, <1>23, <2>1, <2>2, <2>3, TakesKept
<1>25. ServiceFits'
  <2>1. \A k \in Server : commitIndex[k] <= commitIndex'[k]
    <3>1. \A k \in Server : commitIndex[k] \in Nat
      BY <1>1 DEF Applies
    <3> QED BY <1>20, <3>1
  <2>2. UNCHANGED <<batch, logs, chosen>> /\ offers' = offers
    BY <1>3 DEF apply, service, ghost
  <2> QED BY <1>1, <1>2, <1>20, <2>1, <2>2, ServicesStay
<1> QED BY <1>22, <1>24, <1>25 DEF Fits

\* Of two commits the longer begins with the shorter.
LEMMA CommittedSame ==
    ASSUME LogInv, NEW l \in Seq(Nat), NEW k \in Seq(Nat), NEW c \in Nat, NEW d \in Nat, c <= d,
           d <= Len(k), NEW t, NEW u, Committed(l, c, t), Committed(k, d, u)
    PROVE  Same(l, k, c)
<1>1. CASE c = 0
  <2>1. 0 <= Len(l) /\ 0 <= Len(k) /\ \A x \in 1..0 : l[x] = k[x]
    OBVIOUS
  <2> QED BY <1>1, <2>1 DEF Same
<1>2. CASE c > 0
  <2>1. d > 0
    BY <1>2
  <2>2. PICK p \in Prefixes : Chosen(p) /\ Same(l, p, c)
    BY <1>2 DEF Committed
  <2>3. PICK q \in Prefixes : Chosen(q) /\ Same(k, q, d)
    BY <2>1 DEF Committed
  <2>4. \A x \in Nat : x \in 1..Len(p) /\ x \in 1..Len(q) => p[x] = q[x]
    BY <2>2, <2>3, ChosenAgree
  <2>5. /\ c <= Len(l) /\ c <= Len(p) /\ \A x \in 1..c : l[x] = p[x]
        /\ d <= Len(k) /\ d <= Len(q) /\ \A x \in 1..d : k[x] = q[x]
    BY <2>2, <2>3 DEF Same
  <2>6. Len(p) \in Nat /\ Len(q) \in Nat
    BY PrefixTypes DEF LogInv
  <2>7. ASSUME NEW x \in 1..c PROVE l[x] = k[x]
    <3>1. x \in Nat /\ x \in 1..Len(p) /\ x \in 1..Len(q) /\ x \in 1..d
      BY <2>5, <2>6, <2>7
    <3> QED BY <2>4, <2>5, <2>7, <3>1
  <2>8. c <= Len(k)
    BY <2>5
  <2> QED BY <2>5, <2>7, <2>8 DEF Same
<1> QED BY <1>1, <1>2

\* What is committed is what was chosen.
LEMMA CommittedIsChosen ==
    ASSUME LogInv, ChosenFits, chosen \in Seq(Command), NEW s \in Seq(Command), Numbered(s),
           Len(s) <= Len(chosen), NEW t, Committed(Terms(s), Len(s), t)
    PROVE  IsPrefixOf(s, chosen)
<1>1. PICK u \in Nat : Committed(Terms(chosen), Len(chosen), u)
  BY DEF ChosenFits
<1>2. Numbered(chosen)
  BY DEF ChosenFits
<1>3. /\ Terms(s) \in Seq(Nat) /\ Len(Terms(s)) = Len(s) /\ Len(s) \in Nat
      /\ Terms(chosen) \in Seq(Nat) /\ Len(Terms(chosen)) = Len(chosen) /\ Len(chosen) \in Nat
  BY <1>2, NumberedFacts
<1>4. PICK a \in Nat, b \in Nat : a = Len(s) /\ b = Len(chosen)
  BY <1>3
<1>5. a <= b /\ b <= Len(Terms(chosen))
  BY <1>3, <1>4
<1>6. Same(Terms(s), Terms(chosen), a)
  BY <1>1, <1>3, <1>4, <1>5, CommittedSame
<1>7. Starts(Terms(s), Terms(chosen))
  BY <1>3, <1>4, <1>6 DEF Starts
<1> QED BY <1>2, <1>7, PrefixIs

\* A server installs a newer snapshot and offers it to its service.
LEMMA InstallSnapshotFits ==
    ASSUME SafeInv, NEW j \in Server, NEW m \in msgs, InstallSnapshot(j, m)
    PROVE  Fits
<1>1. Sound /\ Wires /\ Stores /\ Durable /\ Applies /\ Serves /\ Remains
  BY DEF SafeInv, Sound
<1>2. Types /\ LogInv /\ ChosenFits /\ CommitFits /\ ServiceFits
  BY DEF SafeInv, LogInv
<1>3. /\ m.type = "InstallSnapshot" /\ m.dest = j /\ m.term >= term[j]
      /\ Len(m.data) > lastSnap[j] /\ MeetTerm(j, m.term)
      /\ log' = [log EXCEPT ![j] = LogBehind(j, m)]
      /\ lastSnap' = [lastSnap EXCEPT ![j] = Len(m.data)]
      /\ snapshot' = [snapshot EXCEPT ![j] = m.data]
      /\ Persist(j)
      /\ offers' = [offers EXCEPT ![j] = @ \cup {m.data}]
      /\ UNCHANGED <<leader, batch, logs, owing, senders, boot, ghost>>
  BY DEF InstallSnapshot, Calls, Received
<1>4. m \in SnapshotCalls /\ SnapshotFits(m) /\ m \in Requests
  BY <1>1, <1>3, WireFacts DEF Requests
<1>5. /\ m.src \in Server /\ m.dest \in Server /\ m.src # m.dest
      /\ m.boot \in Nat /\ m.term \in Nat
      /\ m.data \in Seq(Command) /\ Numbered(m.data) /\ Len(m.data) \in Nat
      /\ m.lastIncludedTerm = At(Full(m), Len(m.data)) /\ m.lastIncludedTerm \in Nat
      /\ Full(m) = Terms(m.data) /\ Full(m) \in Seq(Nat) /\ Len(Full(m)) = Len(m.data)
      /\ CommitOf(m) = Len(m.data)
  BY <1>4, SnapshotCallFacts
<1>6. /\ log[j] \in Seq(Entry) /\ snapshot[j] \in Seq(Command) /\ lastSnap[j] \in Nat
      /\ Len(snapshot[j]) = lastSnap[j] /\ Formed(snapshot[j], log[j])
      /\ Trail[j] = Whole(snapshot[j], log[j]) /\ Trail[j] \in Seq(Nat) /\ Len(Trail[j]) = Last(j)
      /\ Last(j) \in Nat /\ Last(j) = lastSnap[j] + Len(log[j]) - 1 /\ Len(log[j]) \in Nat
  BY <1>1, ServerFacts
<1>7. PICK a \in Nat, b \in Nat, n \in Nat : a = lastSnap[j] /\ b = Len(log[j]) /\ n = Len(m.data)
  BY <1>5, <1>6
<1>8. a < n /\ Last(j) = a + b - 1 /\ n - a + 1 \in Nat
  BY <1>3, <1>6, <1>7
<1>9. PICK q \in Nat : q = n - a + 1
  BY <1>8
<1>90. n # 0 /\ a <= n /\ 1 <= q
  <2>1. n # 0
    BY <1>8
  <2>2. a <= n
    BY <1>8
  <2>3. 1 <= q
    BY <1>8, <1>9
  <2> QED BY <2>1, <2>2, <2>3
<1>91. q <= b <=> n <= Last(j)
  <2>1. PICK z \in Nat : z = Last(j) /\ z = a + b - 1
    BY <1>6, <1>8
  <2>2. q <= b <=> n <= z
    BY <1>9, <2>1
  <2> QED BY <2>1, <2>2
<1>10. Pos(j, n) = q
  BY <1>7, <1>9 DEF Pos
<1>11. HasEntry(j, m) <=> q <= b /\ log[j][q].term = m.lastIncludedTerm
  BY <1>7, <1>10 DEF HasEntry
<1>12. q <= b => n <= Last(j) /\ log[j][q].term = Trail[j][n]
  <2> SUFFICES ASSUME q <= b PROVE n <= Last(j) /\ log[j][q].term = Trail[j][n]
    OBVIOUS
  <2>1. n <= Last(j) /\ lastSnap[j] <= n /\ n # 0
    BY <1>7, <1>90, <1>91
  <2>2. log[j][q].term = At(Trail[j], n)
    BY <1>1, <1>10, <2>1, EntryFacts
  <2> QED BY <2>1, <2>2 DEF At
<1>13. m.lastIncludedTerm = Full(m)[n] /\ n # 0
  BY <1>5, <1>7, <1>90 DEF At
<1>14. HasEntry(j, m) <=> Starts(Full(m), Trail[j])
  <2>1. ASSUME HasEntry(j, m) PROVE Starts(Full(m), Trail[j])
    <3>1. n <= Last(j) /\ Full(m)[n] = Trail[j][n]
      BY <1>11, <1>12, <1>13, <2>1
    <3>2. Full(m) \in Logs /\ Trail[j] \in Logs
      BY <1>2, <1>4, LogTypes
    <3>3. Agree(Full(m), Trail[j])
      BY <1>2, <3>2 DEF LogInv, LogsFit
    <3>4. n \in 1..Len(Full(m)) /\ n \in 1..Len(Trail[j]) /\ n <= n
      BY <1>5, <1>6, <1>7, <1>13, <3>1
    <3>5. Same(Full(m), Trail[j], n)
      BY <3>1, <3>3, <3>4 DEF Agree
    <3> QED BY <1>5, <1>7, <3>5 DEF Starts
  <2>2. ASSUME Starts(Full(m), Trail[j]) PROVE HasEntry(j, m)
    <3>1. n <= Last(j) /\ Full(m)[n] = Trail[j][n]
      <4>1. Same(Full(m), Trail[j], n)
        BY <1>5, <1>7, <2>2 DEF Starts
      <4>2. n \in 1..n
        BY <1>13
      <4> QED BY <1>6, <4>1, <4>2 DEF Same
    <3>2. q <= b
      BY <1>91, <3>1
    <3> QED BY <1>11, <1>12, <1>13, <3>1, <3>2
  <2> QED BY <2>1, <2>2
<1>15. PICK h : h = LogBehind(j, m)
  OBVIOUS
<1>16. h \in Seq(Entry) /\ Formed(m.data, h) /\ Whole(m.data, h) = Taken(j, m)
  <2>1. CASE HasEntry(j, m)
    <3>1. h = SubSeq(log[j], q, b) /\ q <= b /\ 1 <= q
      <4>1. h = From(j, n)
        BY <1>7, <1>15, <2>1 DEF LogBehind
      <4> QED BY <1>7, <1>10, <1>11, <1>90, <2>1, <4>1 DEF From
    <3>2. /\ h \in Seq(Entry) /\ Len(h) = b - q + 1
          /\ \A x \in 1..b - q + 1 : h[x] = log[j][q + x - 1]
      <4>1. \A x \in q..b : log[j][x] \in Entry
        <5>1. \A x \in q..b : x \in 1..b
          BY <3>1
        <5>2. \A x \in 1..b : log[j][x] \in Entry
          BY <1>6, <1>7, ElementOfSeq
        <5> QED BY <5>1, <5>2
      <4> QED BY <3>1, <4>1, SubSeqProperties, q \in Int, b \in Int
    <3>3. h[1] = log[j][q]
      <4>1. 1 \in 1..b - q + 1 /\ q + 1 - 1 = q
        BY <3>1
      <4>2. h[1] = log[j][q + 1 - 1]
        BY <3>2, <4>1
      <4> QED BY <4>1, <4>2
    <3>4. \A x \in 2..Len(h) : h[x] = log[j][q + x - 1]
      BY <3>1, <3>2
    <3>5. /\ Len(snapshot[j]) < Len(m.data) /\ q = Len(m.data) - Len(snapshot[j]) + 1
          /\ Starts(Terms(m.data), Whole(snapshot[j], log[j]))
      BY <1>5, <1>6, <1>7, <1>8, <1>9, <1>14, <2>1
    <3>6. /\ Len(h) = Len(log[j]) - q + 1 /\ h[1].term = log[j][q].term
          /\ h[1].cmd = <<>> \/ h[1].cmd = log[j][q].cmd
      BY <1>7, <3>2, <3>3
    <3>7. Formed(m.data, h) /\ Whole(m.data, h) = Whole(snapshot[j], log[j])
      <4>1. PICK s, k, d : s = snapshot[j] /\ k = log[j] /\ d = m.data
        OBVIOUS
      <4>2. /\ s \in Seq(Command) /\ k \in Seq(Entry) /\ Formed(s, k)
            /\ d \in Seq(Command) /\ Numbered(d) /\ h \in Seq(Entry)
        BY <1>5, <1>6, <3>2, <4>1
      <4>3. /\ Len(s) < Len(d) /\ Starts(Terms(d), Whole(s, k)) /\ q = Len(d) - Len(s) + 1
            /\ Len(h) = Len(k) - q + 1 /\ h[1].term = k[q].term
            /\ h[1].cmd = <<>> \/ h[1].cmd = k[q].cmd
            /\ \A x \in 2..Len(h) : h[x] = k[q + x - 1]
        BY <3>4, <3>5, <3>6, <4>1
      <4>4. Formed(d, h) /\ Whole(d, h) = Whole(s, k)
        BY ZenonT(60), <4>2, <4>3, FormedLater
      <4> QED BY <4>1, <4>4
    <3> QED BY <1>6, <1>14, <2>1, <3>2, <3>7 DEF Taken
  <2>2. CASE ~HasEntry(j, m)
    <3>1. h = <<Dummy(m.lastIncludedTerm)>>
      BY <1>15, <2>2 DEF LogBehind
    <3>2. m.lastIncludedTerm = At(Terms(m.data), Len(m.data))
      BY <1>5
    <3>3. h \in Seq(Entry) /\ Formed(m.data, h) /\ Whole(m.data, h) = Terms(m.data)
      BY <1>5, <3>1, <3>2, FormedSnapshot
    <3> QED BY <1>5, <1>14, <2>2, <3>3 DEF Taken
  <2> QED BY <2>1, <2>2
<1>17. /\ log'[j] = h /\ lastSnap'[j] = n /\ snapshot'[j] = m.data
       /\ \A k \in Server \ {j} : /\ log'[k] = log[k] /\ lastSnap'[k] = lastSnap[k]
                                  /\ snapshot'[k] = snapshot[k]
  BY <1>1, <1>3, <1>7, <1>15 DEF Stores
<1>18. Stores'
  <2>1. log' \in [Server -> Seq(Entry)]
    BY <1>1, <1>3, <1>15, <1>16 DEF Stores
  <2>2. lastSnap' \in [Server -> Nat] /\ snapshot' \in [Server -> Seq(Command)]
    BY <1>1, <1>3, <1>5 DEF Stores
  <2>3. \A k \in Server : Len(snapshot'[k]) = lastSnap'[k] /\ Formed(snapshot'[k], log'[k])
    BY <1>1, <1>7, <1>16, <1>17 DEF Stores
  <2> QED BY <2>1, <2>2, <2>3 DEF Stores
<1>19. Trail'[j] = Taken(j, m) /\ \A k \in Server \ {j} : Trail'[k] = Trail[k]
  <2>1. Trail' = [k \in Server |-> Whole(snapshot'[k], log'[k])]
    BY DEF Trail
  <2>2. Trail = [k \in Server |-> Whole(snapshot[k], log[k])]
    BY DEF Trail
  <2> QED BY <1>16, <1>17, <2>1, <2>2
<1>20. term[j] <= m.term
  <2>1. term[j] \in Nat
    BY <1>2 DEF Types
  <2> QED BY <1>3, <1>5, <2>1
<1>21. /\ term'[j] = m.term /\ Elects'
       /\ \A k \in Server \ {j} : /\ term'[k] = term[k] /\ votedFor'[k] = votedFor[k]
  BY <1>3, <1>4, <1>20, MetFacts
<1>22. Durable'
  BY <1>1, <1>3, <1>17, <1>18, <1>21, PersistDurable
<1>23. /\ commitIndex'[j] \in Nat /\ commitIndex[j] <= commitIndex'[j] /\ n <= commitIndex'[j]
       /\ commitIndex'[j] = commitIndex[j] \/ commitIndex'[j] = CommitOf(m)
       /\ \A k \in Server \ {j} : commitIndex'[k] = commitIndex[k]
       /\ Applies'
  <2>1. commitIndex[j] \in Nat
    BY <1>1 DEF Applies
  <2>2. CASE commitIndex[j] < Len(m.data)
    <3>1. /\ commitIndex' = [commitIndex EXCEPT ![j] = n]
          /\ lastApplied' = [lastApplied EXCEPT ![j] = n]
      BY <1>7, <2>2 DEF InstallSnapshot
    <3>2. commitIndex'[j] = n /\ \A k \in Server \ {j} : commitIndex'[k] = commitIndex[k]
      BY <1>1, <3>1 DEF Applies
    <3>3. Applies'
      BY <1>1, <1>3, <3>1 DEF Applies
    <3>4. commitIndex[j] <= n /\ n <= n
      BY <1>7, <2>1, <2>2
    <3> QED BY <1>5, <1>7, <3>2, <3>3, <3>4
  <2>3. CASE ~(commitIndex[j] < Len(m.data))
    <3>1. commitIndex' = commitIndex /\ lastApplied' = lastApplied
      BY <2>3 DEF InstallSnapshot
    <3>2. Applies'
      BY <1>1, <1>3, <3>1 DEF Applies
    <3>3. commitIndex[j] <= commitIndex[j] /\ n <= commitIndex[j]
      BY <1>7, <2>1, <2>3
    <3> QED BY <2>1, <3>1, <3>2, <3>3
  <2> QED BY <2>2, <2>3
<1>24. Wires' /\ Requests' \subseteq Requests /\ AnswerStep /\ RequestStep
  <2>1. PICK t : t = term[j]
    OBVIOUS
  <2>2. PICK r : r = [type |-> "InstallReply", src |-> j, dest |-> m.src, term |-> t]
    OBVIOUS
  <2>3. Answer(m, r)
    BY <2>1, <2>2 DEF InstallSnapshot, InstallAnswer
  <2>4. r \in InstallAnswers /\ r.type = "InstallReply"
    <3>1. t \in Nat
      BY <1>2, <2>1 DEF Types
    <3> QED BY <1>5, <2>2, <3>1 DEF InstallAnswers
  <2>5. OnWire(r)
    BY <2>4, Zenon DEF OnWire
  <2>6. r.type \in {"AppendReply", "InstallReply"} /\ r.type # "AppendReply" /\ senders' = senders
    BY <1>3, <2>4
  <2> QED BY <1>1, <1>4, <2>3, <2>5, <2>6, AnswerFacts
<1>25. Serves' /\ Counts' /\ Remains'
  <2>1. Serves'
    BY <1>1, <1>3, <1>5 DEF Serves
  <2>2. Counts' /\ Remains'
    BY <1>1, <1>3, SameGroups
  <2> QED BY <2>1, <2>2
<1>26. Sound'
  BY <1>18, <1>21, <1>22, <1>23, <1>24, <1>25 DEF Sound
<1>27. UNCHANGED <<leads, boot, chosen>> /\ matchIndex' = matchIndex
  BY <1>3 DEF leader, ghost
<1>28. Kept
  <2>1. lastSnap'[j] <= commitIndex'[j]
    BY <1>17, <1>23
  <2>2. KnownStep
    <3>1. (Sound => Types)'
      BY SoundTypes, PTL
    <3>2. lastSnap[j] <= lastSnap'[j]
      BY <1>7, <1>8, <1>17
    <3> QED BY <1>2, <1>17, <1>26, <1>27, <3>1, <3>2, KnownForgets
  <2>3. \A k \in Server \ {j} : /\ Trail'[k] = Trail[k] /\ commitIndex'[k] = commitIndex[k]
                                /\ lastSnap'[k] = lastSnap[k]
    BY <1>17, <1>19, <1>23
  <2> QED BY <1>3, <1>4, <1>19, <1>20, <1>23, <1>24, <1>26, <1>27, <2>1, <2>2, <2>3, TakesKept
<1>29. ServiceFits'
  <2>1. \A k \in Server : commitIndex[k] <= commitIndex'[k]
    <3>1. \A k \in Server : commitIndex[k] \in Nat
      BY <1>1 DEF Applies
    <3> QED BY <1>23, <3>1
  <2>2. UNCHANGED <<batch, logs, chosen>>
    BY <1>3 DEF ghost
  <2>3. IsPrefixOf(m.data, chosen)
    <3>1. Len(m.data) <= Len(chosen)
      BY <1>2, <1>4, <1>5 DEF ChosenFits
    <3>2. Committed(Terms(m.data), Len(m.data), m.term)
      BY <1>2, <1>4, <1>5 DEF CommitFits
    <3>3. chosen \in Seq(Command)
      BY <1>1 DEF Remains
    <3> QED BY <1>2, <1>5, <3>1, <3>2, <3>3, CommittedIsChosen
  <2>4. \A k \in Server : \A s \in offers'[k] : s \in offers[k] \/ (k = j /\ s = m.data)
    BY <1>1, <1>3 DEF Serves
  <2>5. \A k \in Server : \A s \in offers'[k] :
           s \in offers[k] \/ (IsPrefixOf(s, chosen) /\ Len(s) <= commitIndex'[k])
    BY <1>7, <1>23, <2>3, <2>4
  <2> QED BY <1>1, <1>2, <1>23, <2>1, <2>2, <2>5, ServicesStay
<1> QED BY <1>26, <1>28, <1>29 DEF Fits

\* Commands that are a prefix of others, one by one.
LEMMA PrefixFacts ==
    ASSUME NEW s \in Seq(Command), NEW c \in Seq(Command)
    PROVE  /\ IsPrefixOf(s, c) <=> Len(s) <= Len(c) /\ \A x \in 1..Len(s) : s[x] = c[x]
           /\ IsPrefixOf(s, c) /\ Numbered(c) => Numbered(s)
<1>1. PICK a \in Nat, b \in Nat : a = Len(s) /\ b = Len(c)
  OBVIOUS
<1>2. PICK p : p = SubSeq(c, 1, a)
  OBVIOUS
<1>3. ASSUME a <= b
      PROVE  p \in Seq(Command) /\ Len(p) = a /\ \A x \in 1..a : p[x] = c[x]
  <2>1. \A x \in 1..a : c[x] \in Command
    <3>1. \A x \in 1..b : c[x] \in Command
      BY <1>1, ElementOfSeq
    <3> QED BY <1>3, <3>1
  <2>2. /\ p \in Seq(Command) /\ Len(p) = IF 1 <= a THEN a - 1 + 1 ELSE 0
        /\ \A x \in 1..a - 1 + 1 : p[x] = c[1 + x - 1]
    BY SMTT(40), <1>2, <2>1, SubSeqProperties, 1 \in Int, a \in Int
  <2> QED BY <2>2
<1>4. IsPrefixOf(s, c) <=> a <= b /\ s = p
  BY <1>1, <1>2 DEF IsPrefixOf
<1>5. a <= b => (s = p <=> \A x \in 1..a : s[x] = c[x])
  <2> SUFFICES ASSUME a <= b PROVE s = p <=> \A x \in 1..a : s[x] = c[x]
    OBVIOUS
  <2>1. p \in Seq(Command) /\ Len(p) = a /\ \A x \in 1..a : p[x] = c[x]
    BY <1>3
  <2>2. ASSUME \A x \in 1..a : s[x] = c[x] PROVE s = p
    <3>1. Len(s) = Len(p) /\ \A x \in 1..Len(s) : s[x] = p[x]
      BY <1>1, <2>1, <2>2
    <3> QED BY <2>1, <3>1, SeqEqual
  <2> QED BY <2>1, <2>2
<1>6. IsPrefixOf(s, c) <=> a <= b /\ \A x \in 1..a : s[x] = c[x]
  BY <1>4, <1>5
<1>7. ASSUME a <= b, \A x \in 1..a : s[x] = c[x], Numbered(c) PROVE Numbered(s)
  <2>1. \A x \in 1..a : x \in 1..b
    BY <1>7
  <2>2. \A x \in 1..a : c[x] = <<c[x][1], x>>
    BY <1>1, <1>7, <2>1 DEF Numbered
  <2>3. \A x \in 1..a : s[x] = <<s[x][1], x>>
    BY <1>7, <2>2
  <2> QED BY <1>1, <2>3 DEF Numbered
<1> QED BY <1>1, <1>6, <1>7

\* What a server takes for committed is chosen.
LEMMA ChosenIs ==
    ASSUME SafeInv, NEW i \in Server
    PROVE  /\ chosen \in Seq(Command) /\ Len(chosen) \in Nat /\ commitIndex[i] \in Nat
           /\ commitIndex[i] <= Last(i) /\ commitIndex[i] <= Len(chosen)
           /\ lastSnap[i] <= commitIndex[i]
           /\ Same(Trail[i], Terms(chosen), commitIndex[i])
           /\ \A x \in 1..commitIndex[i] : chosen[x] = <<Trail[i][x], x>>
<1>1. Sound /\ Stores /\ Applies /\ Remains
  BY DEF SafeInv, Sound
<1>2. LogInv /\ Types /\ ChosenFits /\ CommitFits
  BY DEF SafeInv, LogInv
<1>3. chosen \in Seq(Command) /\ Numbered(chosen) /\ commitIndex[i] \in Nat
  BY <1>1, <1>2 DEF Remains, ChosenFits, Applies
<1>4. /\ Terms(chosen) \in Seq(Nat) /\ Len(Terms(chosen)) = Len(chosen) /\ Len(chosen) \in Nat
      /\ \A k \in 1..Len(chosen) : chosen[k] = <<Terms(chosen)[k], k>>
  BY <1>3, NumberedFacts
<1>5. Trail[i] \in Seq(Nat) /\ Len(Trail[i]) = Last(i) /\ Last(i) \in Nat
  BY <1>1, ServerFacts
<1>6. PICK c \in Nat, d \in Nat : c = commitIndex[i] /\ d = Len(chosen)
  BY <1>3, <1>4
<1>7. lastSnap[i] <= commitIndex[i] /\ c <= d
  BY <1>2, <1>6 DEF ChosenFits
<1>8. Committed(Trail[i], c, term[i])
  BY <1>2, <1>6 DEF CommitFits
<1>9. PICK u \in Nat : Committed(Terms(chosen), d, u)
  BY <1>2, <1>6 DEF ChosenFits
<1>10. Same(Trail[i], Terms(chosen), c)
  <2>1. d <= Len(Terms(chosen))
    BY <1>4, <1>6
  <2> QED BY <1>2, <1>4, <1>5, <1>7, <1>8, <1>9, <2>1, CommittedSame
<1>11. c <= Last(i) /\ \A x \in 1..c : Trail[i][x] = Terms(chosen)[x]
  BY <1>5, <1>10 DEF Same
<1>12. \A x \in 1..c : chosen[x] = <<Trail[i][x], x>>
  <2>1. \A x \in 1..c : x \in 1..d
    BY <1>7
  <2> QED BY <1>4, <1>6, <1>11, <2>1
<1> QED BY <1>3, <1>4, <1>6, <1>7, <1>10, <1>11, <1>12

\* What commits can make of the chosen commands.
ChosenStep ==
    \E c \in Seq(Command) :
       /\ chosen' = c /\ Numbered(c) /\ Len(chosen) <= Len(c)
       /\ \E t \in Nat : Committed(Terms(c), Len(c), t)

\* A leader finds that a majority holds what it has.
LEMMA CommitsFit ==
    ASSUME SafeInv, NEW i \in Server, NEW N \in Nat, N \in commitIndex[i] + 1 .. Last(i),
           Commit(i, N)
    PROVE  Fits /\ ChosenStep
<1>1. Sound /\ Stores /\ Counts /\ Applies /\ Remains /\ Serves
  BY DEF SafeInv, Sound
<1>2. LogInv /\ Types /\ LeadershipFits /\ FateFits /\ ChosenFits /\ CommitFits /\ ServiceFits
  BY DEF SafeInv, LogInv
<1>3. PICK R : R = {j \in Server : matchIndex[i][j] >= N}
  OBVIOUS
<1>4. /\ Leads(i) /\ Cardinality(R) >= Majority /\ log[i][Pos(i, N)].term = term[i]
      /\ commitIndex' = [commitIndex EXCEPT ![i] = N]
      /\ chosen' = IF N > Len(chosen) THEN History(i, N) ELSE chosen
      /\ UNCHANGED <<elect, store, saved, leader, apply, service, net, boot, ended, bound>>
  BY <1>3 DEF Commit, Looping, Leads
<1>5. /\ chosen \in Seq(Command) /\ Len(chosen) \in Nat /\ commitIndex[i] \in Nat
      /\ commitIndex[i] <= Last(i) /\ commitIndex[i] <= Len(chosen)
      /\ lastSnap[i] <= commitIndex[i]
  BY ChosenIs
<1>6. Trail[i] \in Seq(Nat) /\ Len(Trail[i]) = Last(i) /\ Last(i) \in Nat /\ lastSnap[i] \in Nat
  BY <1>1, ServerFacts
<1>7. lastSnap[i] < N /\ commitIndex[i] < N /\ N <= Last(i) /\ N # 0
  BY <1>5, <1>6
<1>8. Trail[i][N] = term[i]
  <2>1. lastSnap[i] <= N
    BY <1>6, <1>7
  <2>2. log[i][Pos(i, N)].term = At(Trail[i], N)
    BY <1>1, <1>7, <2>1, EntryFacts
  <2> QED BY <1>4, <1>7, <2>2 DEF At
<1>9. Committed(Trail[i], N, term[i])
  <2>1. R \in Quorums
    BY <1>3, <1>4 DEF Quorums
  <2>2. ASSUME NEW j \in R PROVE j = i \/ N <= Known(i, j)
    <3>1. matchIndex[i][j] \in Nat /\ matchIndex[i][j] >= N
      BY <1>1, <1>3, <2>2 DEF Counts
    <3>2. matchIndex[i][j] > lastSnap[i] /\ N <= matchIndex[i][j]
      BY <1>6, <1>7, <3>1
    <3> QED BY <3>2 DEF Known
  <2>3. N \in 1..Len(Trail[i])
    BY <1>6, <1>7
  <2> QED BY <1>2, <1>4, <1>8, <2>1, <2>2, <2>3, CountIsCommitted
<1>10. PICK c : c = IF N > Len(chosen) THEN History(i, N) ELSE chosen
  OBVIOUS
<1>11. /\ c \in Seq(Command) /\ Numbered(c) /\ Len(chosen) <= Len(c) /\ N <= Len(c)
       /\ IsPrefixOf(chosen, c) /\ \E t \in Nat : Committed(Terms(c), Len(c), t)
  <2>1. CASE N > Len(chosen)
    <3>1. /\ c \in Seq(Command) /\ Len(c) = N /\ Numbered(c)
          /\ Terms(c) = Upto(Trail[i], N)
      BY <1>1, <1>7, <1>10, <2>1, HistoryIs
    <3>2. /\ Upto(Trail[i], N) \in Seq(Nat) /\ Len(Upto(Trail[i], N)) = N
          /\ \A x \in 1..N : Upto(Trail[i], N)[x] = Trail[i][x]
      BY <1>6, <1>7, UptoFacts
    <3>3. term[i] \in Nat /\ N <= N /\ Starts(Terms(c), Trail[i])
      BY <1>2, <1>6, <1>7, <3>1, <3>2 DEF Types, Starts, Same
    <3>4. Committed(Terms(c), Len(c), term[i])
      <4>1. Committed(Terms(c), N, term[i])
        <5>1. N <= Len(Terms(c)) /\ Terms(c) \in Seq(Nat)
          BY <3>1, <3>2, <3>3
        <5> QED BY <1>2, <1>6, <1>9, <3>3, <5>1, CommittedLess
      <4> QED BY <3>1, <4>1
    <3>5. PICK u \in Nat : Committed(Terms(chosen), Len(chosen), u)
      BY <1>2 DEF ChosenFits
    <3>6. Numbered(chosen)
      BY <1>2 DEF ChosenFits
    <3>7. Terms(chosen) \in Seq(Nat) /\ Len(Terms(chosen)) = Len(chosen)
      BY <1>5, <3>6, NumberedFacts
    <3>8. Same(Terms(chosen), Terms(c), Len(chosen))
      <4>1. PICK d \in Nat : d = Len(chosen)
        BY <1>5
      <4>2. d <= N /\ N <= Len(Terms(c)) /\ Terms(c) \in Seq(Nat)
        BY <2>1, <3>1, <3>2, <4>1
      <4>3. Committed(Terms(c), N, term[i])
        BY <3>1, <3>4
      <4> QED BY <1>2, <3>5, <3>7, <4>1, <4>2, <4>3, CommittedSame
    <3>9. IsPrefixOf(chosen, c)
      <4>1. Starts(Terms(chosen), Terms(c))
        BY <3>7, <3>8 DEF Starts
      <4> QED BY <1>5, <3>1, <3>6, <4>1, PrefixIs
    <3>10. Len(chosen) <= Len(c) /\ N <= Len(c)
      BY <1>5, <2>1, <3>1
    <3> QED BY <3>1, <3>3, <3>4, <3>9, <3>10
  <2>2. CASE ~(N > Len(chosen))
    <3>1. c = chosen /\ N <= Len(chosen) /\ Len(chosen) <= Len(chosen)
      BY <1>5, <1>10, <2>2
    <3>2. IsPrefixOf(chosen, chosen)
      BY <1>5, <3>1, PrefixFacts
    <3> QED BY <1>2, <1>5, <3>1, <3>2 DEF ChosenFits
  <2> QED BY <2>1, <2>2
<1>12. chosen' = c
  BY <1>4, <1>10
<1>13. ChosenStep
  BY <1>11, <1>12 DEF ChosenStep
<1>14. /\ commitIndex'[i] = N /\ \A k \in Server \ {i} : commitIndex'[k] = commitIndex[k]
       /\ Applies'
  <2>1. commitIndex'[i] = N /\ \A k \in Server \ {i} : commitIndex'[k] = commitIndex[k]
    BY <1>1, <1>4 DEF Applies
  <2>2. Applies'
    BY <1>1, <1>4 DEF Applies, apply
  <2> QED BY <2>1, <2>2
<1>15. Sound'
  <2>1. Remains'
    BY <1>1, <1>4, <1>11, <1>12 DEF Remains
  <2> QED BY <1>1, <1>4, <1>14, <2>1, SameGroups DEF Sound
<1>16. Types'
  <2>1. (Sound => Types)'
    BY SoundTypes, PTL
  <2> QED BY <1>15, <2>1
<1>17. /\ UNCHANGED <<term, votedFor, state, Trail, lastSnap>> /\ UNCHANGED <<leads, boot>>
       /\ UNCHANGED matchIndex /\ Requests' = Requests /\ Answers' = Answers
  BY <1>4 DEF elect, store, leader, net, Trail, Requests, Answers
<1>18. StepFits
  <2>1. Follows
    BY <1>2, <1>17, QuietFollows
  <2> QED BY <1>16, <2>1 DEF StepFits
<1>19. AckStep /\ LeadershipFits'
  <2>1. LeadersSame /\ RequestStep /\ AnswerStep /\ KnownStep
    BY <1>17, KnownSame DEF LeadersSame, Leads, RequestStep, AnswerStep
  <2> QED BY <1>2, <1>16, <1>17, <2>1, StepAcks
<1>20. CommitStep
  <2> SUFFICES ASSUME NEW k \in Server
               PROVE  \/ commitIndex'[k] <= commitIndex[k]
                      \/ \E n \in Nat : commitIndex'[k] = n /\ Commits(k, n)
    BY DEF CommitStep
  <2>1. commitIndex[k] \in Nat
    BY <1>1 DEF Applies
  <2>2. CASE k = i
    BY <1>9, <1>14, <2>2 DEF Commits
  <2>3. CASE k # i
    BY <1>14, <2>1, <2>3
  <2> QED BY <2>2, <2>3
<1>21. Bounded'
  <2> SUFFICES ASSUME NEW k \in Server
               PROVE  lastSnap'[k] <= commitIndex'[k] /\ commitIndex'[k] <= Len(chosen')
    BY DEF Bounded
  <2>1. CASE k = i
    <3>1. lastSnap[i] <= N
      BY <1>6, <1>7
    <3> QED BY <1>11, <1>12, <1>14, <1>17, <2>1, <3>1
  <2>2. CASE k # i
    <3>1. /\ lastSnap[k] <= commitIndex[k] /\ commitIndex[k] <= Len(chosen)
          /\ commitIndex[k] \in Nat
      BY ChosenIs
    <3>2. Len(c) \in Nat
      BY <1>11
    <3> QED BY <1>5, <1>11, <1>12, <1>14, <1>17, <2>2, <3>1, <3>2
  <2> QED BY <2>1, <2>2
<1>22. ServiceFits'
  <2>1. \A x \in 1..Len(chosen) : c[x] = chosen[x]
    BY <1>5, <1>11, PrefixFacts
  <2> SUFFICES ASSUME NEW k \in Server
               PROVE  /\ IsPrefixOf(logs'[k], chosen') /\ Len(logs'[k]) <= commitIndex'[k]
                      /\ \A s \in offers'[k] : IsPrefixOf(s, chosen') /\ Len(s) <= commitIndex'[k]
                      /\ BatchFits(k)'
    BY DEF ServiceFits
  <2>2. /\ commitIndex[k] \in Nat /\ commitIndex'[k] \in Nat /\ commitIndex[k] <= commitIndex'[k]
        /\ commitIndex[k] <= Len(chosen)
    <3>1. commitIndex[k] \in Nat /\ commitIndex[k] <= Len(chosen)
      BY ChosenIs
    <3> QED BY <1>7, <1>14, <3>1
  <2>3. ASSUME NEW s \in Seq(Command), IsPrefixOf(s, chosen), Len(s) <= commitIndex[k]
        PROVE  IsPrefixOf(s, chosen') /\ Len(s) <= commitIndex'[k]
    <3>1. Len(s) \in Nat /\ Len(s) <= Len(chosen) /\ \A x \in 1..Len(s) : s[x] = chosen[x]
      BY <1>5, <2>3, PrefixFacts
    <3>2. \A x \in 1..Len(s) : x \in 1..Len(chosen)
      BY <1>5, <3>1
    <3>3. \A x \in 1..Len(s) : s[x] = c[x]
      BY <2>1, <3>1, <3>2
    <3>4. Len(c) \in Nat
      BY <1>11
    <3>5. Len(s) <= Len(c) /\ Len(s) <= commitIndex'[k]
      <4>1. \A x, y, z \in Nat : x <= y /\ y <= z => x <= z
        OBVIOUS
      <4> QED BY <1>5, <1>11, <2>2, <2>3, <3>1, <3>4, <4>1
    <3> QED BY <1>11, <1>12, <3>3, <3>5, PrefixFacts
  <2>4. /\ logs'[k] = logs[k] /\ offers'[k] = offers[k] /\ batch' = batch
        /\ logs[k] \in Seq(Command) /\ \A s \in offers[k] : s \in Seq(Command)
    BY <1>1, <1>4 DEF service, apply, Serves
  <2>5. /\ IsPrefixOf(logs[k], chosen) /\ Len(logs[k]) <= commitIndex[k]
        /\ \A s \in offers[k] : IsPrefixOf(s, chosen) /\ Len(s) <= commitIndex[k]
        /\ BatchFits(k)
    BY <1>2 DEF ServiceFits
  <2>6. BatchFits(k)'
    <3>1. PICK b : b = batch[k]
      OBVIOUS
    <3> SUFFICES ASSUME b # Idle
                 PROVE  /\ b.start >= 1 /\ Len(b.commands) >= 1
                        /\ b.start + Len(b.commands) - 1 <= commitIndex'[k]
                        /\ \A x \in 1..Len(b.commands) :
                              b.commands[x] \in {<<>>, chosen'[b.start + x - 1]}
      BY <2>4, <3>1 DEF BatchFits
    <3>2. b.start \in Nat /\ Len(b.commands) \in Nat
      BY <1>1, <3>1 DEF Applies
    <3>3. PICK a \in Nat, n \in Nat : a = b.start /\ n = Len(b.commands)
      BY <3>2
    <3>4. /\ a >= 1 /\ n >= 1 /\ a + n - 1 <= commitIndex[k]
          /\ \A x \in 1..n : b.commands[x] \in {<<>>, chosen[a + x - 1]}
      BY <2>5, <3>1, <3>3 DEF BatchFits
    <3>5. a + n - 1 <= commitIndex'[k]
      BY <2>2, <3>4
    <3>6. \A x \in 1..n : a + x - 1 \in 1..Len(chosen)
      BY <1>5, <2>2, <3>4
    <3>7. \A x \in 1..n : b.commands[x] \in {<<>>, chosen'[a + x - 1]}
      BY <1>12, <2>1, <3>4, <3>6
    <3> QED BY <3>3, <3>4, <3>5, <3>7
  <2> QED BY <2>3, <2>4, <2>5, <2>6
<1> QED BY <1>13, <1>15, <1>18, <1>19, <1>20, <1>21, <1>22 DEF Fits, Kept

\* The command of an entry, or of the dummy.
LEMMA CmdFacts ==
    ASSUME Stores, NEW i \in Server, NEW k \in Nat, k >= 1, lastSnap[i] <= k, k <= Last(i)
    PROVE  /\ log[i][Pos(i, k)].cmd \in {<<>>, <<Trail[i][k], k>>}
           /\ log[i][Pos(i, k)].cmd \in Command
<1>1. /\ log[i] \in Seq(Entry) /\ Len(snapshot[i]) = lastSnap[i] /\ lastSnap[i] \in Nat
      /\ Formed(snapshot[i], log[i]) /\ Len(log[i]) \in Nat
  BY ServerFacts
<1>2. /\ Pos(i, k) \in 1..Len(log[i]) /\ Pos(i, k) = k - lastSnap[i] + 1
      /\ log[i][Pos(i, k)].term = At(Trail[i], k)
  BY EntryFacts
<1>3. PICK a \in Nat, b \in Nat, p \in Nat :
          a = lastSnap[i] /\ b = Len(log[i]) /\ p = Pos(i, k)
  BY <1>1, <1>2
<1>4. p \in 1..b /\ p = k - a + 1
  BY <1>2, <1>3
<1>5. log[i][p].term = Trail[i][k]
  BY <1>2, <1>3 DEF At
<1>6. CASE p = 1
  <2>1. k = a
    BY <1>4, <1>6
  <2>2. log[i][1].cmd = <<>> \/ log[i][1].cmd = <<log[i][1].term, a>>
    BY <1>1, <1>3 DEF Formed
  <2>3. log[i][p] \in Entry
    BY <1>1, <1>3, <1>4, ElementOfSeq
  <2> QED BY <1>3, <1>5, <1>6, <2>1, <2>2, <2>3 DEF Entry
<1>7. CASE p # 1
  <2>1. p \in 2..b /\ a + p - 1 = k
    BY <1>4, <1>7
  <2>2. log[i][p].cmd = <<log[i][p].term, a + p - 1>>
    BY <1>1, <1>3, <2>1 DEF Formed
  <2>3. log[i][p] \in Entry
    BY <1>1, <1>3, <1>4, ElementOfSeq
  <2> QED BY <1>3, <1>5, <2>1, <2>2, <2>3 DEF Entry
<1> QED BY <1>6, <1>7

\* ReachToCommit copies what its server takes for committed.
LEMMA FetchFits ==
    ASSUME SafeInv, NEW i \in Server, Fetch(i)
    PROVE  Fits
<1>1. Sound /\ Stores /\ Applies /\ ServiceFits
  BY DEF SafeInv, Sound
<1>2. CASE lastApplied[i] + 1 < lastSnap[i]
  <2>1. "index out of range" \in Ends
    BY Zenon DEF Ends
  <2>2. Die("index out of range")
    BY <1>2, Zenon DEF Fetch
  <2> QED BY <2>1, <2>2, DieFits, Zenon
<1>3. CASE ~(lastApplied[i] + 1 < lastSnap[i])
  <2>1. /\ lastApplied[i] < commitIndex[i]
        /\ batch' = [batch EXCEPT ![i] =
              [start |-> lastApplied[i] + 1, sent |-> FALSE,
               commands |-> Commands(SubSeq(log[i], Pos(i, lastApplied[i] + 1),
                                                    Pos(i, commitIndex[i])))]]
        /\ UNCHANGED <<elect, store, saved, leader, commitIndex, lastApplied, service, net,
                       boot, ghost>>
    BY <1>3, Zenon DEF Fetch
  <2>2. /\ commitIndex[i] <= Last(i) /\ lastSnap[i] <= commitIndex[i]
        /\ \A x \in 1..commitIndex[i] : chosen[x] = <<Trail[i][x], x>>
    BY ChosenIs
  <2>3. PICK k \in Nat, c \in Nat, a \in Nat, z \in Nat, b \in Nat :
           /\ k = lastApplied[i] + 1 /\ c = commitIndex[i] /\ a = lastSnap[i] /\ z = Last(i)
           /\ b = Len(log[i])
    <3>1. lastApplied[i] \in Nat /\ commitIndex[i] \in Nat
      BY <1>1 DEF Applies
    <3>2. lastApplied[i] + 1 \in Nat
      BY <3>1
    <3> QED BY <1>1, <3>1, <3>2, ServerFacts
  <2>4. a <= k /\ 1 <= k /\ k <= c /\ c <= z
    <3>1. lastApplied[i] \in Nat
      BY <1>1 DEF Applies
    <3> QED BY <1>3, <2>1, <2>2, <2>3, <3>1
  <2>5. PICK p \in Nat, q \in Nat : p = Pos(i, k) /\ q = Pos(i, c)
    <3>1. Pos(i, k) = k - a + 1 /\ Pos(i, c) = c - a + 1
      BY <2>3 DEF Pos
    <3> QED BY <2>4, <3>1
  <2>6. p = k - a + 1 /\ q = c - a + 1
    BY <2>3, <2>5 DEF Pos
  <2>7. 1 <= p /\ p <= q /\ q <= b /\ q - p = c - k
    <3>1. q \in 1..b
      <4>1. a <= c
        BY <2>4
      <4> QED BY <1>1, <2>3, <2>4, <2>5, <4>1, EntryFacts
    <3>2. 1 <= p /\ p <= q /\ q - p = c - k
      BY <2>4, <2>6
    <3> QED BY <3>1, <3>2
  <2>8. PICK es : es = SubSeq(log[i], p, q)
    OBVIOUS
  <2>9. Len(es) = q - p + 1 /\ \A x \in 1..q - p + 1 : es[x] = log[i][p + x - 1]
    <3>1. log[i] \in Seq(Entry)
      BY <1>1, ServerFacts
    <3>2. \A x \in p..q : log[i][x] \in Entry
      <4>1. \A x \in p..q : x \in 1..b
        BY <2>7
      <4>2. \A x \in 1..b : log[i][x] \in Entry
        BY <2>3, <3>1, ElementOfSeq
      <4> QED BY <4>1, <4>2
    <3> QED BY <2>7, <2>8, <3>2, SubSeqProperties, p \in Int, q \in Int
  <2>10. PICK n \in Nat : n = q - p + 1
    BY <2>7
  <2>11. n >= 1 /\ k + n - 1 = c
    BY <2>7, <2>10
  <2>12. \A x \in 1..n : /\ es[x].cmd \in Command
                         /\ es[x].cmd \in {<<>>, chosen[k + x - 1]}
    <3> TAKE x \in 1..n
    <3>1. PICK y \in Nat : y = k + x - 1
      BY <2>4
    <3>2. a <= y /\ 1 <= y /\ y <= c /\ y <= z
      BY <2>4, <2>11, <3>1
    <3>3. Pos(i, y) = p + x - 1
      <4>1. Pos(i, y) = y - a + 1
        BY <2>3 DEF Pos
      <4>2. y - a + 1 = p + x - 1
        BY <2>6, <3>1
      <4> QED BY <4>1, <4>2
    <3>4. es[x] = log[i][p + x - 1]
      BY <2>9, <2>10
    <3>5. es[x] = log[i][Pos(i, y)]
      BY <3>3, <3>4
    <3>6. /\ log[i][Pos(i, y)].cmd \in {<<>>, <<Trail[i][y], y>>}
          /\ log[i][Pos(i, y)].cmd \in Command
      BY <1>1, <2>3, <3>2, CmdFacts
    <3>7. chosen[y] = <<Trail[i][y], y>>
      BY <2>2, <2>3, <3>2
    <3> QED BY <3>1, <3>5, <3>6, <3>7
  <2>13. PICK cs : cs = Commands(es)
    OBVIOUS
  <2>14. /\ cs \in Seq(Command) /\ Len(cs) = n
         /\ \A x \in 1..n : cs[x] \in {<<>>, chosen[k + x - 1]}
    <3>1. cs = [x \in 1..n |-> es[x].cmd]
      BY <2>9, <2>10, <2>13 DEF Commands
    <3> QED BY <2>12, <3>1
  <2>15. PICK d : d = [start |-> k, sent |-> FALSE, commands |-> cs]
    OBVIOUS
  <2>16. batch' = [batch EXCEPT ![i] = d]
    BY <2>1, <2>3, <2>5, <2>8, <2>13, <2>15
  <2>17. batch'[i] = d /\ \A j \in Server \ {i} : batch'[j] = batch[j]
    BY <1>1, <2>16 DEF Applies
  <2>18. Applies'
    <3>1. d \in [start : Nat, commands : Seq(Command), sent : BOOLEAN]
      BY <2>14, <2>15
    <3> QED BY <1>1, <2>1, <2>16, <3>1 DEF Applies
  <2>19. Sound'
    BY <1>1, <2>1, <2>18, SameGroups DEF Sound
  <2>20. Kept
    <3>1. UNCHANGED <<term, votedFor, state, store, commitIndex, chosen>>
      BY <2>1 DEF elect, ghost
    <3>2. UNCHANGED <<leads, boot>> /\ UNCHANGED <<matchIndex, lastSnap>> /\ msgs' = msgs
      BY <2>1 DEF leader, store, net
    <3>3. Requests' \subseteq Requests /\ AnswerStep /\ KnownStep
      BY <3>2, KnownSame DEF Requests, Answers, AnswerStep
    <3> QED BY <2>19, <3>1, <3>2, <3>3, QuietKept
  <2>21. ServiceFits'
    <3> SUFFICES ASSUME NEW j \in Server
                 PROVE  BatchFits(j)'
      BY <1>1, <2>1 DEF ServiceFits, service, ghost
    <3>1. BatchFits(j)
      BY <1>1 DEF ServiceFits
    <3>2. chosen' = chosen /\ commitIndex' = commitIndex
      BY <2>1 DEF ghost
    <3>3. CASE j # i
      BY <2>17, <3>1, <3>2, <3>3 DEF BatchFits
    <3>4. CASE j = i
      <4>1. d.start = k /\ d.commands = cs
        BY <2>15
      <4>2. d.start >= 1 /\ Len(d.commands) >= 1
        BY <2>4, <2>11, <2>14, <4>1
      <4>3. d.start + Len(d.commands) - 1 <= commitIndex[j]
        <5>1. k + n - 1 <= c
          BY <2>11
        <5> QED BY <2>3, <2>14, <3>4, <4>1, <5>1
      <4>4. \A x \in 1..Len(d.commands) : d.commands[x] \in {<<>>, chosen[d.start + x - 1]}
        BY <2>14, <4>1
      <4> QED BY <2>17, <3>2, <3>4, <4>2, <4>3, <4>4 DEF BatchFits
    <3> QED BY <3>3, <3>4
  <2> QED BY <2>19, <2>20, <2>21 DEF Fits
<1> QED BY <1>2, <1>3

\* A service takes the next command, and what it takes is no dummy's.
LEMMA DeliverFits ==
    ASSUME SafeInv, DummyUnheard', NEW i \in Server, Deliver(i)
    PROVE  Fits
<1>1. Sound /\ Applies /\ Serves /\ Remains /\ ServiceFits
  BY DEF SafeInv, Sound
<1>2. PICK k, cmd : k = batch[i].start /\ cmd = Head(batch[i].commands)
  OBVIOUS
<1>3. batch[i] # Idle
  BY Zenon DEF Deliver
<1>4. CASE k # Len(logs[i]) + 1
  <2>1. "out of order" \in Ends
    BY Zenon DEF Ends
  <2>2. Die("out of order")
    BY <1>2, <1>4, Zenon DEF Deliver
  <2> QED BY <2>1, <2>2, DieFits, Zenon
<1>5. CASE k = Len(logs[i]) + 1 /\ Differs(k, cmd)
  <2>1. "disagreement" \in Ends
    BY Zenon DEF Ends
  <2>2. Die("disagreement")
    BY <1>2, <1>5, Zenon DEF Deliver
  <2> QED BY <2>1, <2>2, DieFits, Zenon
<1>6. CASE k = Len(logs[i]) + 1 /\ ~Differs(k, cmd)
  <2>1. /\ logs' = [logs EXCEPT ![i] = Append(@, cmd)]
        /\ owing' = [owing EXCEPT ![i] = (k + 1) % SnapShotInterval = 0]
        /\ batch' = [batch EXCEPT ![i].sent = TRUE]
        /\ UNCHANGED <<elect, store, saved, leader, commitIndex, lastApplied, offers, net,
                       boot, ghost>>
    BY <1>2, <1>6, Zenon DEF Deliver
  <2>2. PICK b : b = batch[i]
    OBVIOUS
  <2>3. PICK cs : cs = b.commands
    OBVIOUS
  <2>4. b \in [start : Nat, commands : Seq(Command), sent : BOOLEAN]
    BY <1>1, <2>2 DEF Applies
  <2>5. k \in Nat /\ cs \in Seq(Command) /\ Len(cs) \in Nat /\ k = b.start
    BY <1>2, <2>2, <2>3, <2>4
  <2>6. PICK n \in Nat : n = Len(cs)
    BY <2>5
  <2>7. /\ k >= 1 /\ n >= 1 /\ k + n - 1 <= commitIndex[i]
        /\ \A x \in 1..n : cs[x] \in {<<>>, chosen[k + x - 1]}
    <3>1. BatchFits(i)
      BY <1>1 DEF ServiceFits
    <3> QED BY <1>3, <2>2, <2>3, <2>5, <2>6, <3>1 DEF BatchFits
  <2>8. /\ chosen \in Seq(Command) /\ Len(chosen) \in Nat /\ commitIndex[i] \in Nat
        /\ commitIndex[i] <= Len(chosen)
    BY ChosenIs
  <2>9. cmd = cs[1] /\ cmd \in Command /\ cmd \in {<<>>, chosen[k]}
    <3>1. cs # <<>>
      BY <2>6, <2>7
    <3>2. cmd = cs[1]
      BY <1>2, <2>2, <2>3, <3>1
    <3>3. 1 \in 1..Len(cs) /\ k + 1 - 1 = k
      BY <2>5, <2>6, <2>7
    <3>4. cs[1] \in Command
      BY <2>5, <3>3, ElementOfSeq
    <3>5. cs[1] \in {<<>>, chosen[k + 1 - 1]}
      BY <2>6, <2>7, <3>3
    <3> QED BY <3>2, <3>3, <3>4, <3>5
  <2>10. PICK s \in Seq(Command) : s = logs[i]
    BY <1>1 DEF Serves
  <2>11. /\ Append(s, cmd) \in Seq(Command) /\ Len(Append(s, cmd)) = Len(s) + 1
         /\ Append(s, cmd)[Len(s) + 1] = cmd
         /\ \A x \in 1..Len(s) : Append(s, cmd)[x] = s[x]
    BY <2>9, AppendProperties
  <2>12. logs'[i] = Append(s, cmd) /\ \A j \in Server \ {i} : logs'[j] = logs[j]
    BY <1>1, <2>1, <2>10 DEF Serves
  <2>13. cmd = chosen[k]
    <3>1. Len(s) \in Nat
      OBVIOUS
    <3>2. Len(s) + 1 \in 1..Len(Append(s, cmd))
      BY <2>11, <3>1
    <3>3. logs'[i][Len(s) + 1] # <<>>
      BY <2>12, <3>2 DEF DummyUnheard
    <3> QED BY <2>9, <2>11, <2>12, <3>3
  <2>14. k <= commitIndex[i] /\ k <= Len(chosen)
    BY <2>5, <2>7, <2>8
  <2>15. IsPrefixOf(Append(s, cmd), chosen) /\ Len(Append(s, cmd)) <= commitIndex[i]
    <3>1. Len(s) <= Len(chosen) /\ \A x \in 1..Len(s) : s[x] = chosen[x]
      <4>1. IsPrefixOf(s, chosen)
        BY <1>1, <2>10 DEF ServiceFits
      <4> QED BY <2>8, <4>1, PrefixFacts
    <3>2. PICK a \in Nat : a = Len(s)
      OBVIOUS
    <3>3. k = a + 1 /\ Len(Append(s, cmd)) = k
      BY <1>6, <2>10, <2>11, <3>2
    <3>4. ASSUME NEW x \in 1..k PROVE Append(s, cmd)[x] = chosen[x]
      <4>1. x \in 1..a \/ x = k
        BY <3>3, <3>4
      <4> QED BY <2>11, <2>13, <3>1, <3>2, <3>3, <4>1
    <3> QED BY <2>8, <2>11, <2>14, <3>3, <3>4, PrefixFacts
  <2>16. Serves'
    <3>1. logs' \in [Server -> Seq(Command)]
      BY <1>1, <2>1, <2>10, <2>11 DEF Serves
    <3>2. owing' \in [Server -> BOOLEAN]
      BY <1>1, <2>1 DEF Serves
    <3> QED BY <1>1, <2>1, <3>1, <3>2 DEF Serves
  <2>17. PICK d : d = [b EXCEPT !.sent = TRUE]
    OBVIOUS
  <2>18. /\ d \in [start : Nat, commands : Seq(Command), sent : BOOLEAN]
         /\ d.start = b.start /\ d.commands = b.commands
    BY <2>4, <2>17
  <2>19. batch' = [batch EXCEPT ![i] = d]
    BY <2>1, <2>2, <2>17
  <2>20. batch'[i] = d /\ \A j \in Server \ {i} : batch'[j] = batch[j]
    BY <1>1, <2>19 DEF Applies
  <2>21. Applies'
    BY <1>1, <2>1, <2>18, <2>19 DEF Applies
  <2>22. Sound'
    BY <1>1, <2>1, <2>16, <2>21, SameGroups DEF Sound
  <2>23. Kept
    <3>1. UNCHANGED <<term, votedFor, state, store, commitIndex, chosen>>
      BY <2>1 DEF elect, ghost
    <3>2. UNCHANGED <<leads, boot>> /\ UNCHANGED <<matchIndex, lastSnap>> /\ msgs' = msgs
      BY <2>1 DEF leader, store, net
    <3>3. Requests' \subseteq Requests /\ AnswerStep /\ KnownStep
      BY <3>2, KnownSame DEF Requests, Answers, AnswerStep
    <3> QED BY <2>22, <3>1, <3>2, <3>3, QuietKept
  <2>24. ServiceFits'
    <3>1. chosen' = chosen /\ commitIndex' = commitIndex /\ offers' = offers
      BY <2>1 DEF ghost
    <3> SUFFICES ASSUME NEW j \in Server
                 PROVE  /\ IsPrefixOf(logs'[j], chosen) /\ Len(logs'[j]) <= commitIndex[j]
                        /\ BatchFits(j)'
      BY <1>1, <3>1 DEF ServiceFits
    <3>2. BatchFits(j) /\ IsPrefixOf(logs[j], chosen) /\ Len(logs[j]) <= commitIndex[j]
      BY <1>1 DEF ServiceFits
    <3>3. CASE j # i
      BY <2>12, <2>20, <3>1, <3>2, <3>3 DEF BatchFits
    <3>4. CASE j = i
      <4>1. BatchFits(i)'
        BY <1>3, <2>2, <2>18, <2>20, <3>1, <3>2, <3>4 DEF BatchFits
      <4> QED BY <2>12, <2>15, <3>4, <4>1
    <3> QED BY <3>3, <3>4
  <2> QED BY <2>22, <2>23, <2>24 DEF Fits
<1> QED BY <1>4, <1>5, <1>6

\* ReachToCommit goes on to the next command.
LEMMA SetAppliedFits ==
    ASSUME SafeInv, NEW i \in Server, SetApplied(i)
    PROVE  Fits
<1>1. Sound /\ Applies /\ Serves /\ ServiceFits
  BY DEF SafeInv, Sound
<1>2. PICK b : b = batch[i]
  OBVIOUS
<1>3. PICK d : d = IF Len(b.commands) = 1 THEN Idle
                   ELSE [start |-> b.start + 1, commands |-> Tail(b.commands), sent |-> FALSE]
  OBVIOUS
<1>4. /\ b.sent
      /\ lastApplied' = [lastApplied EXCEPT ![i] = b.start]
      /\ batch' = [batch EXCEPT ![i] = d]
      /\ UNCHANGED <<elect, store, saved, leader, commitIndex, service, net, boot, ghost>>
  BY <1>2, <1>3 DEF SetApplied
<1>5. b # Idle
  <2>1. ~Idle.sent
    BY DEF Idle
  <2> QED BY <1>4, <2>1
<1>6. b \in [start : Nat, commands : Seq(Command), sent : BOOLEAN]
  BY <1>1, <1>2 DEF Applies
<1>7. PICK k \in Nat, cs \in Seq(Command), n \in Nat, c \in Nat :
          k = b.start /\ cs = b.commands /\ n = Len(cs) /\ c = commitIndex[i]
  <2>1. b.start \in Nat /\ b.commands \in Seq(Command) /\ commitIndex[i] \in Nat
    BY <1>1, <1>6 DEF Applies
  <2>2. Len(b.commands) \in Nat
    BY <2>1
  <2> QED BY <2>1, <2>2
<1>8. /\ k >= 1 /\ n >= 1 /\ k + n - 1 <= c
      /\ \A x \in 1..n : cs[x] \in {<<>>, chosen[k + x - 1]}
  <2>1. BatchFits(i)
    BY <1>1 DEF ServiceFits
  <2> QED BY <1>2, <1>5, <1>7, <2>1 DEF BatchFits
<1>9. /\ d \in [start : Nat, commands : Seq(Command), sent : BOOLEAN]
      /\ d # Idle => /\ d.start >= 1 /\ Len(d.commands) >= 1
                     /\ d.start + Len(d.commands) - 1 <= c
                     /\ \A x \in 1..Len(d.commands) :
                           d.commands[x] \in {<<>>, chosen[d.start + x - 1]}
  <2>1. CASE n = 1
    <3>1. d = Idle
      BY <1>3, <1>7, <2>1
    <3>2. Idle \in [start : Nat, commands : Seq(Command), sent : BOOLEAN]
      BY DEF Idle
    <3> QED BY <3>1, <3>2
  <2>2. CASE n # 1
    <3>1. PICK t : t = Tail(cs)
      OBVIOUS
    <3>2. PICK e \in Nat : e = n - 1
      BY <1>8
    <3>3. t \in Seq(Command) /\ Len(t) = e /\ \A x \in 1..e : t[x] = cs[x + 1]
      <4>1. cs # <<>>
        BY <1>7, <1>8
      <4>2. t \in Seq(Command) /\ Len(t) = Len(cs) - 1
        BY <3>1, <4>1, HeadTailProperties
      <4>3. \A x \in 1..Len(t) : t[x] = cs[x + 1]
        BY <3>1, <4>1, <4>2
      <4> QED BY <1>7, <3>2, <4>2, <4>3
    <3>4. PICK u \in Nat : u = k + 1
      OBVIOUS
    <3>5. d = [start |-> u, commands |-> t, sent |-> FALSE]
      BY <1>3, <1>7, <2>2, <3>1, <3>4
    <3>6. d.start = u /\ d.commands = t
      BY <3>5
    <3>7. u >= 1 /\ e >= 1 /\ u + e - 1 <= c
      BY <1>8, <2>2, <3>2, <3>4
    <3>8. ASSUME NEW x \in 1..e PROVE t[x] \in {<<>>, chosen[u + x - 1]}
      <4>1. x + 1 \in 1..n /\ k + (x + 1) - 1 = u + x - 1
        BY <3>2, <3>4, <3>8
      <4>2. cs[x + 1] \in {<<>>, chosen[k + (x + 1) - 1]}
        BY <1>8, <4>1
      <4> QED BY <3>3, <4>1, <4>2
    <3>9. d \in [start : Nat, commands : Seq(Command), sent : BOOLEAN]
      BY <3>3, <3>5
    <3> QED BY <3>3, <3>6, <3>7, <3>8, <3>9
  <2> QED BY <2>1, <2>2
<1>10. batch'[i] = d /\ \A j \in Server \ {i} : batch'[j] = batch[j]
  BY <1>1, <1>4 DEF Applies
<1>11. Applies'
  <2>1. lastApplied' \in [Server -> Nat]
    BY <1>1, <1>4, <1>7 DEF Applies
  <2> QED BY <1>1, <1>4, <1>9, <2>1 DEF Applies
<1>12. Sound'
  BY <1>1, <1>4, <1>11, SameGroups DEF Sound
<1>13. Kept
  <2>1. UNCHANGED <<term, votedFor, state, store, commitIndex, chosen>>
    BY <1>4 DEF elect, ghost
  <2>2. UNCHANGED <<leads, boot>> /\ UNCHANGED <<matchIndex, lastSnap>> /\ msgs' = msgs
    BY <1>4 DEF leader, store, net
  <2>3. Requests' \subseteq Requests /\ AnswerStep /\ KnownStep
    BY <2>2, KnownSame DEF Requests, Answers, AnswerStep
  <2> QED BY <1>12, <2>1, <2>2, <2>3, QuietKept
<1>14. ServiceFits'
  <2>1. chosen' = chosen /\ commitIndex' = commitIndex /\ offers' = offers /\ logs' = logs
    BY <1>4 DEF ghost, service
  <2> SUFFICES ASSUME NEW j \in Server PROVE BatchFits(j)'
    BY <1>1, <2>1 DEF ServiceFits
  <2>2. CASE j # i
    BY <1>1, <1>10, <2>1, <2>2 DEF ServiceFits, BatchFits
  <2>3. CASE j = i
    BY <1>7, <1>9, <1>10, <2>1, <2>3 DEF BatchFits
  <2> QED BY <2>2, <2>3
<1> QED BY <1>12, <1>13, <1>14 DEF Fits

\* A service puts a snapshot in place of what it has.
LEMMA DeliverSnapshotFits ==
    ASSUME SafeInv, NEW i \in Server, NEW s \in offers[i], DeliverSnapshot(i, s)
    PROVE  Fits
<1>1. Sound /\ Serves /\ ServiceFits
  BY DEF SafeInv, Sound
<1>2. /\ offers' = [offers EXCEPT ![i] = @ \ {s}]
      /\ logs' = [logs EXCEPT ![i] = s]
      /\ UNCHANGED <<elect, store, saved, leader, commitIndex, apply, owing, net, boot, ghost>>
  BY DEF DeliverSnapshot
<1>3. s \in Seq(Command)
  BY <1>1 DEF Serves
<1>4. Serves'
  <2>1. logs' \in [Server -> Seq(Command)]
    BY <1>1, <1>2, <1>3 DEF Serves
  <2>2. offers' \in [Server -> SUBSET Seq(Command)]
    BY <1>1, <1>2 DEF Serves
  <2> QED BY <1>1, <1>2, <2>1, <2>2 DEF Serves
<1>5. Sound'
  BY <1>1, <1>2, <1>4, SameGroups DEF Sound
<1>6. Kept
  <2>1. UNCHANGED <<term, votedFor, state, store, commitIndex, chosen>>
    BY <1>2 DEF elect, ghost
  <2>2. UNCHANGED <<leads, boot>> /\ UNCHANGED <<matchIndex, lastSnap>> /\ msgs' = msgs
    BY <1>2 DEF leader, store, net
  <2>3. Requests' \subseteq Requests /\ AnswerStep /\ KnownStep
    BY <2>2, KnownSame DEF Requests, Answers, AnswerStep
  <2> QED BY <1>5, <2>1, <2>2, <2>3, QuietKept
<1>7. ServiceFits'
  <2>1. chosen' = chosen /\ commitIndex' = commitIndex /\ batch' = batch
    BY <1>2 DEF ghost, apply
  <2>2. logs'[i] = s /\ \A j \in Server \ {i} : logs'[j] = logs[j]
    BY <1>1, <1>2 DEF Serves
  <2>3. \A j \in Server : offers'[j] \subseteq offers[j]
    BY <1>1, <1>2 DEF Serves
  <2> SUFFICES ASSUME NEW j \in Server
               PROVE  /\ IsPrefixOf(logs'[j], chosen) /\ Len(logs'[j]) <= commitIndex[j]
                      /\ \A x \in offers'[j] : IsPrefixOf(x, chosen) /\ Len(x) <= commitIndex[j]
                      /\ BatchFits(j)'
    BY <2>1 DEF ServiceFits
  <2>4. /\ IsPrefixOf(logs[j], chosen) /\ Len(logs[j]) <= commitIndex[j]
        /\ \A x \in offers[j] : IsPrefixOf(x, chosen) /\ Len(x) <= commitIndex[j]
        /\ BatchFits(j)
    BY <1>1 DEF ServiceFits
  <2>5. BatchFits(j)'
    BY <2>1, <2>4 DEF BatchFits
  <2>6. IsPrefixOf(logs'[j], chosen) /\ Len(logs'[j]) <= commitIndex[j]
    BY <2>2, <2>4
  <2> QED BY <2>3, <2>4, <2>5, <2>6
<1> QED BY <1>5, <1>6, <1>7 DEF Fits

\* A step that leaves terms and trails alone, whatever it cuts.
LEMMA CutKept ==
    ASSUME SafeInv, Sound', UNCHANGED <<term, votedFor, state, Trail, commitIndex, chosen>>,
           UNCHANGED <<leads, boot>>, Requests' \subseteq Requests, KnownStep, AnswerStep,
           \A i \in Server : lastSnap'[i] <= commitIndex[i]
    PROVE  Kept
<1>1. Types /\ LeadershipFits /\ ChosenFits
  BY DEF SafeInv, LogInv
<1>2. Types'
  <2>1. (Sound => Types)'
    BY SoundTypes, PTL
  <2> QED BY <2>1
<1>3. Follows
  BY <1>1, QuietFollows
<1>4. LeadersSame
  BY <1>3, FollowsLeadersSame
<1>5. RequestStep
  BY DEF RequestStep
<1>6. AckStep /\ LeadershipFits'
  BY <1>1, <1>2, <1>4, <1>5, StepAcks
<1>7. CommitStep
  BY <1>1, QuietCommits
<1>8. Bounded'
  BY <1>1 DEF ChosenFits, Bounded
<1> QED BY <1>2, <1>3, <1>6, <1>7, <1>8 DEF Kept, StepFits

\* A server cuts its log at what its service has encoded.
LEMMA SnapshotFitsIn ==
    ASSUME SafeInv, NEW i \in Server, Snapshot(i)
    PROVE  Fits
<1>1. Sound /\ Stores /\ Durable /\ Elects /\ Counts /\ Serves /\ ServiceFits /\ Remains
  BY DEF SafeInv, Sound
<1>2. Types /\ ChosenFits
  BY DEF SafeInv, LogInv
<1>3. /\ owing' = [owing EXCEPT ![i] = FALSE]
      /\ UNCHANGED elect
      /\ UNCHANGED <<starting, leads, commitIndex, apply, offers, logs, net, boot, ghost>>
  BY DEF Snapshot
<1>4. Elects' /\ Applies' /\ Serves' /\ Wires' /\ Remains'
  <2>1. Serves'
    BY <1>1, <1>3 DEF Serves
  <2> QED BY <1>1, <1>3, <2>1, SameGroups
<1>5. ServiceFits'
  BY <1>3, QuietServices DEF apply, ghost
<1>6. UNCHANGED <<leads, boot>> /\ Requests' \subseteq Requests /\ AnswerStep
  BY <1>3 DEF net, Requests, Answers, AnswerStep
<1>7. CASE lastSnap[i] >= Len(logs[i])
  <2>1. UNCHANGED <<store, saved, nextIndex, matchIndex>>
    BY <1>7 DEF Snapshot
  <2>2. Stores' /\ Counts' /\ Durable'
    BY <1>1, <1>3, <2>1, SameGroups DEF leader
  <2>3. Sound'
    BY <1>4, <2>2 DEF Sound
  <2>4. UNCHANGED <<term, votedFor, state, store, commitIndex, chosen>>
    BY <1>3, <2>1 DEF elect, ghost
  <2>5. KnownStep
    BY <2>1, KnownSame DEF store
  <2> QED BY <1>5, <1>6, <2>3, <2>4, <2>5, QuietKept DEF Fits
<1>8. CASE ~(lastSnap[i] >= Len(logs[i]))
  <2>1. PICK d \in Seq(Command) : d = logs[i]
    BY <1>1 DEF Serves
  <2>2. PICK n \in Nat : n = Len(d)
    OBVIOUS
  <2>3. PICK h : h = CutLog(i, n)
    OBVIOUS
  <2>4. /\ log' = [log EXCEPT ![i] = h]
        /\ lastSnap' = [lastSnap EXCEPT ![i] = n]
        /\ snapshot' = [snapshot EXCEPT ![i] = d]
        /\ Persist(i)
        /\ nextIndex' = [nextIndex EXCEPT ![i] = [j \in Server |-> Last(i) + 1]]
        /\ matchIndex' = [matchIndex EXCEPT ![i] =
                              [j \in Server |-> IF j = i THEN Last(i) ELSE n]]
    BY <1>8, <2>1, <2>2, <2>3 DEF Snapshot, Reset
  <2>5. /\ log[i] \in Seq(Entry) /\ snapshot[i] \in Seq(Command) /\ lastSnap[i] \in Nat
        /\ Len(snapshot[i]) = lastSnap[i] /\ Formed(snapshot[i], log[i])
        /\ Trail[i] = Whole(snapshot[i], log[i]) /\ Trail[i] \in Seq(Nat)
        /\ Len(Trail[i]) = Last(i) /\ Last(i) \in Nat
        /\ Last(i) = lastSnap[i] + Len(log[i]) - 1 /\ Len(log[i]) \in Nat
    BY <1>1, ServerFacts
  <2>6. PICK a \in Nat, b \in Nat, z \in Nat :
           a = lastSnap[i] /\ b = Len(log[i]) /\ z = Last(i)
    BY <2>5
  <2>7. a < n /\ z = a + b - 1
    BY <1>8, <2>1, <2>2, <2>5, <2>6
  <2>8. n <= commitIndex[i] /\ commitIndex[i] \in Nat /\ n <= z /\ IsPrefixOf(d, chosen)
    <3>1. IsPrefixOf(d, chosen) /\ n <= commitIndex[i]
      BY <1>1, <2>1, <2>2 DEF ServiceFits
    <3>2. commitIndex[i] <= z /\ commitIndex[i] \in Nat
      BY <2>6, ChosenIs
    <3> QED BY <3>1, <3>2
  <2>9. PICK q \in Nat : q = n - a + 1
    BY <2>7
  <2>10. 1 <= q /\ q <= b /\ Pos(i, n) = q /\ Pos(i, n + 1) = q + 1
    <3>1. 1 <= q /\ q <= b
      BY <2>7, <2>8, <2>9
    <3>2. Pos(i, n) = n - a + 1
      BY <2>6 DEF Pos
    <3>3. Pos(i, n + 1) = (n + 1) - a + 1
      BY <2>6 DEF Pos
    <3>4. (n + 1) - a + 1 = q + 1
      BY <2>9
    <3> QED BY <2>9, <3>1, <3>2, <3>3, <3>4
  <2>11. Numbered(d) /\ Starts(Terms(d), Trail[i])
    <3>1. chosen \in Seq(Command) /\ \A x \in 1..commitIndex[i] : chosen[x] = <<Trail[i][x], x>>
      BY ChosenIs
    <3>2. Numbered(d)
      BY <1>2, <2>8, <3>1, PrefixFacts DEF ChosenFits
    <3>3. \A x \in 1..n : d[x] = chosen[x]
      BY <2>2, <2>8, <3>1, PrefixFacts
    <3>4. /\ Terms(d) \in Seq(Nat) /\ Len(Terms(d)) = n
          /\ \A x \in 1..n : Terms(d)[x] = d[x][1]
      BY <2>2, <3>2, NumberedFacts
    <3>5. ASSUME NEW x \in 1..n PROVE Terms(d)[x] = Trail[i][x]
      <4>1. x \in 1..commitIndex[i]
        BY <2>8, <3>5
      <4>2. d[x] = <<Trail[i][x], x>>
        BY <3>1, <3>3, <4>1
      <4>3. d[x][1] = Trail[i][x]
        BY <4>2
      <4> QED BY <3>4, <4>3
    <3>6. n <= Len(Terms(d)) /\ n <= Len(Trail[i])
      BY <2>5, <2>6, <2>8, <3>4
    <3> QED BY <3>2, <3>4, <3>5, <3>6 DEF Starts, Same
  <2>12. PICK u, es : u = log[i][q].term /\ es = SubSeq(log[i], q + 1, b)
    OBVIOUS
  <2>13. h = <<Dummy(u)>> \o es
    BY <2>3, <2>6, <2>10, <2>12 DEF CutLog, From
  <2>14. \A x \in 1..b : log[i][x] \in Entry
    BY <2>5, <2>6, ElementOfSeq
  <2>15. /\ es \in Seq(Entry) /\ Len(es) = b - q
         /\ \A x \in 1..b - q : es[x] = log[i][q + x]
    <3>1. \A x \in q + 1..b : log[i][x] \in Entry
      <4>1. \A x \in q + 1..b : x \in 1..b
        BY <2>10
      <4> QED BY <2>14, <4>1
    <3>2. /\ es \in Seq(Entry) /\ Len(es) = IF q + 1 <= b THEN b - (q + 1) + 1 ELSE 0
          /\ \A x \in 1..b - (q + 1) + 1 : es[x] = log[i][q + 1 + x - 1]
      BY SMTT(40), <2>12, <3>1, SubSeqProperties, q + 1 \in Int, b \in Int
    <3>3. b - (q + 1) + 1 = b - q /\ (~(q + 1 <= b) => b - q = 0)
      BY <2>10
    <3>4. Len(es) = b - q
      BY <3>2, <3>3
    <3>5. ASSUME NEW x \in 1..b - q PROVE es[x] = log[i][q + x]
      <4>1. x \in 1..b - (q + 1) + 1
        BY <3>3
      <4>2. es[x] = log[i][q + 1 + x - 1]
        BY <3>2, <4>1
      <4>3. q + 1 + x - 1 = q + x
        OBVIOUS
      <4> QED BY <4>2, <4>3
    <3> QED BY <3>2, <3>4, <3>5
  <2>16. u \in Nat
    <3>1. q \in 1..b
      BY <2>10
    <3> QED BY <2>12, <2>14, <3>1 DEF Entry
  <2>17. <<Dummy(u)>> \in Seq(Entry)
    <3>1. Dummy(u) \in Entry
      BY <2>16 DEF Dummy, Entry, Command
    <3> QED BY <3>1
  <2>18. /\ h \in Seq(Entry) /\ Len(h) = b - q + 1 /\ h[1] = Dummy(u)
         /\ \A x \in 2..Len(h) : h[x] = log[i][q + x - 1]
    <3>1. PICK w \in Nat : w = b - q
      BY <2>10
    <3>2. h \in Seq(Entry) /\ Len(h) = 1 + w /\ h[1] = Dummy(u)
      BY <2>13, <2>15, <2>17, <3>1
    <3>3. ASSUME NEW x \in 2..1 + w PROVE h[x] = log[i][q + x - 1]
      <4>1. x - 1 \in 1..w /\ q + (x - 1) = q + x - 1
        BY <3>3
      <4>2. h[x] = es[x - 1]
        BY <2>13, <2>15, <2>17, <3>1, <3>3
      <4> QED BY <2>15, <3>1, <4>1, <4>2
    <3>4. 1 + w = b - q + 1
      BY <3>1
    <3> QED BY <3>2, <3>3, <3>4
  <2>19. Formed(d, h) /\ Whole(d, h) = Trail[i]
    <3>1. PICK s, k : s = snapshot[i] /\ k = log[i]
      OBVIOUS
    <3>2. /\ s \in Seq(Command) /\ k \in Seq(Entry) /\ Formed(s, k) /\ Numbered(d)
          /\ h \in Seq(Entry)
      BY <2>5, <2>11, <2>18, <3>1
    <3>3. /\ Len(s) < Len(d) /\ Starts(Terms(d), Whole(s, k)) /\ q = Len(d) - Len(s) + 1
          /\ Len(h) = Len(k) - q + 1
      BY <2>2, <2>5, <2>6, <2>7, <2>9, <2>11, <2>18, <3>1
    <3>4. h[1].term = k[q].term /\ (h[1].cmd = <<>> \/ h[1].cmd = k[q].cmd)
      BY <2>12, <2>18, <3>1 DEF Dummy
    <3>5. \A x \in 2..Len(h) : h[x] = k[q + x - 1]
      BY <2>18, <3>1
    <3>6. Formed(d, h) /\ Whole(d, h) = Whole(s, k)
      BY ZenonT(60), <3>2, <3>3, <3>4, <3>5, FormedLater
    <3> QED BY <2>5, <3>1, <3>6
  <2>20. /\ log'[i] = h /\ lastSnap'[i] = n /\ snapshot'[i] = d
         /\ \A k \in Server \ {i} : /\ log'[k] = log[k] /\ lastSnap'[k] = lastSnap[k]
                                    /\ snapshot'[k] = snapshot[k]
    BY <1>1, <2>4 DEF Stores
  <2>21. Stores'
    <3>1. log' \in [Server -> Seq(Entry)]
      BY <1>1, <2>4, <2>18 DEF Stores
    <3>2. lastSnap' \in [Server -> Nat] /\ snapshot' \in [Server -> Seq(Command)]
      BY <1>1, <2>4 DEF Stores
    <3>3. \A k \in Server : Len(snapshot'[k]) = lastSnap'[k] /\ Formed(snapshot'[k], log'[k])
      BY <1>1, <2>2, <2>19, <2>20 DEF Stores
    <3> QED BY <3>1, <3>2, <3>3 DEF Stores
  <2>22. Trail' = Trail
    <3>1. Trail' = [k \in Server |-> Whole(snapshot'[k], log'[k])]
      BY DEF Trail
    <3>2. Trail = [k \in Server |-> Whole(snapshot[k], log[k])]
      BY DEF Trail
    <3>3. \A k \in Server : Whole(snapshot'[k], log'[k]) = Whole(snapshot[k], log[k])
      BY <2>5, <2>19, <2>20
    <3> QED BY <3>1, <3>2, <3>3
  <2>23. Durable'
    <3>1. \A k \in Server \ {i} : term'[k] = term[k] /\ votedFor'[k] = votedFor[k]
      BY <1>3 DEF elect
    <3> QED BY <1>1, <1>4, <2>4, <2>20, <2>21, <3>1, PersistDurable
  <2>24. Counts'
    <3>1. /\ [j \in Server |-> Last(i) + 1] \in [Server -> Nat]
          /\ [j \in Server |-> IF j = i THEN Last(i) ELSE n] \in [Server -> Nat]
      BY <2>5
    <3> QED BY <1>1, <1>3, <2>4, <3>1 DEF Counts
  <2>25. Sound'
    BY <1>4, <2>21, <2>23, <2>24 DEF Sound
  <2>26. KnownStep
    <3> SUFFICES ASSUME NEW k \in Server, NEW j \in Server
                 PROVE  Known(k, j)' = 0 \/ Known(k, j)' = Known(k, j)
      BY DEF KnownStep
    <3>1. CASE k = i
      <4>1. j # i => matchIndex'[i][j] = n
        BY <1>1, <2>4 DEF Counts
      <4>2. j # i => ~(matchIndex'[i][j] > lastSnap'[i])
        BY <2>20, <4>1
      <4> QED BY <3>1, <4>2 DEF Known
    <3>2. CASE k # i
      <4>1. matchIndex'[k] = matchIndex[k]
        BY <1>1, <2>4, <3>2 DEF Counts
      <4> QED BY <2>20, <3>2, <4>1 DEF Known
    <3> QED BY <3>1, <3>2
  <2>27. \A k \in Server : lastSnap'[k] <= commitIndex[k]
    BY <1>2, <2>8, <2>20 DEF ChosenFits
  <2>28. UNCHANGED <<term, votedFor, state, Trail, commitIndex, chosen>>
    BY <1>3, <2>22 DEF elect, ghost
  <2>29. Kept
    BY <1>6, <2>25, <2>26, <2>27, <2>28, CutKept
  <2> QED BY <1>5, <2>25, <2>29 DEF Fits
<1> QED BY <1>7, <1>8

\* What readPersist restores is what the server had, but for a dummy's command.
LEMMA RestoredFacts ==
    ASSUME Sound, NEW i \in Server, Restart(i)
    PROVE  /\ Elects' /\ Stores' /\ Durable' /\ Trail' = Trail
           /\ UNCHANGED <<term, votedFor, lastSnap, snapshot>>
           /\ state'[i] = "Follower" /\ \A k \in Server \ {i} : state'[k] = state[k]
<1>0. Elects /\ Stores /\ Durable
  BY DEF Sound
<1>1. /\ saved[i].term = term[i] /\ saved[i].votedFor = votedFor[i]
      /\ saved[i].lastSnap = lastSnap[i] /\ saved[i].snapshot = snapshot[i]
      /\ log[i] = saved[i].log \/ log[i] = Wiped(saved[i].log)
      /\ saved[i] \in Disks
  BY <1>0 DEF Durable
<1>2. term' = term /\ votedFor' = votedFor
  BY <1>0, <1>1 DEF Restart, Elects
<1>3. lastSnap' = lastSnap /\ snapshot' = snapshot
  BY <1>0, <1>1 DEF Restart, Stores
<1>4. state' = [state EXCEPT ![i] = "Follower"]
  BY DEF Restart
<1>5. state'[i] = "Follower" /\ \A k \in Server \ {i} : state'[k] = state[k]
  BY <1>0, <1>4 DEF Elects
<1>6. Elects'
  BY <1>0, <1>2, <1>4 DEF Elects
<1>7. log' = [log EXCEPT ![i] = Wiped(saved[i].log)] /\ saved' = saved
  BY DEF Restart, Wiped
<1>8. PICK l : l = log[i]
  OBVIOUS
<1>9. PICK d : d = saved[i].log
  OBVIOUS
<1>10. PICK s : s = snapshot[i]
  OBVIOUS
<1>11. l \in Seq(Entry) /\ d \in Seq(Entry) /\ s \in Seq(Command) /\ Formed(s, l) /\ Len(l) >= 1
  <2>1. d \in Seq(Entry)
    BY <1>1, <1>9 DEF Disks
  <2> QED BY <1>0, <1>8, <1>10, <2>1, ServerFacts
<1>12. Formed(s, Wiped(d)) /\ Whole(s, Wiped(d)) = Whole(s, l) /\ Wiped(d) \in Seq(Entry)
  <2>1. CASE l = d
    BY <1>11, <2>1, WipedFacts
  <2>2. CASE l = Wiped(d)
    BY <1>11, <2>2
  <2> QED BY <1>1, <1>8, <1>9, <2>1, <2>2
<1>13. log'[i] = Wiped(d) /\ \A k \in Server \ {i} : log'[k] = log[k]
  BY <1>0, <1>7, <1>9 DEF Stores
<1>14. Stores'
  <2>1. log' \in [Server -> Seq(Entry)]
    BY <1>0, <1>7, <1>9, <1>12 DEF Stores
  <2>2. \A k \in Server : Formed(snapshot[k], log'[k])
    BY <1>0, <1>10, <1>12, <1>13 DEF Stores
  <2> QED BY <1>0, <1>3, <2>1, <2>2 DEF Stores
<1>15. Trail' = Trail
  <2>1. Trail' = [k \in Server |-> Whole(snapshot'[k], log'[k])]
    BY DEF Trail
  <2>2. Trail = [k \in Server |-> Whole(snapshot[k], log[k])]
    BY DEF Trail
  <2>3. \A k \in Server : Whole(snapshot'[k], log'[k]) = Whole(snapshot[k], log[k])
    BY <1>3, <1>8, <1>10, <1>12, <1>13
  <2> QED BY <2>1, <2>2, <2>3
<1>16. Durable'
  <2>1. \A k \in Server : log'[k] = saved[k].log \/ log'[k] = Wiped(saved[k].log)
    BY <1>0, <1>9, <1>13 DEF Durable
  <2> QED BY <1>0, <1>2, <1>3, <1>7, <2>1 DEF Durable
<1> QED BY <1>2, <1>3, <1>5, <1>6, <1>14, <1>15, <1>16

\* A server restarts from its disk, and its service from the snapshot there.
LEMMA RestartFits ==
    ASSUME SafeInv, NEW i \in Server, Restart(i)
    PROVE  Fits
<1>0. Sound /\ Types /\ LeadershipFits /\ ChosenFits /\ ServiceFits
  BY DEF SafeInv, LogInv
<1>1. /\ Elects /\ Stores /\ Counts /\ Applies /\ Serves /\ Wires /\ Remains /\ Durable
  BY <1>0 DEF Sound
<1>2. /\ Elects' /\ Stores' /\ Durable' /\ Trail' = Trail
      /\ UNCHANGED <<term, votedFor, lastSnap, snapshot>>
      /\ state'[i] = "Follower" /\ \A k \in Server \ {i} : state'[k] = state[k]
  BY <1>0, RestoredFacts
<1>3. saved[i].lastSnap = lastSnap[i] /\ saved[i].snapshot = snapshot[i]
  BY <1>1 DEF Durable
<1>4. /\ boot' = [boot EXCEPT ![i] = @ + 1] /\ leads' = [leads EXCEPT ![i] = 0]
      /\ starting' = [starting EXCEPT ![i] = FALSE]
      /\ nextIndex' = [nextIndex EXCEPT ![i] = [j \in Server |-> 0]]
      /\ matchIndex' = [matchIndex EXCEPT ![i] = [j \in Server |-> 0]]
      /\ commitIndex' = [commitIndex EXCEPT ![i] = lastSnap[i]]
      /\ lastApplied' = [lastApplied EXCEPT ![i] = lastSnap[i]]
      /\ batch' = [batch EXCEPT ![i] = Idle]
      /\ offers' = [offers EXCEPT ![i] = {}]
      /\ logs' = [logs EXCEPT ![i] = snapshot[i]]
      /\ owing' = [owing EXCEPT ![i] = FALSE]
      /\ senders' = {g \in senders : g[1] # i}
      /\ msgs' = {m \in msgs : ~(m.type \in {"AppendReply", "InstallReply"} /\ m.dest = i)}
      /\ chosen' = chosen /\ ended' = ended /\ bound' = bound
  BY <1>3 DEF Restart, Applied, ghost
<1>5. lastSnap[i] \in Nat /\ snapshot[i] \in Seq(Command) /\ Len(snapshot[i]) = lastSnap[i]
  BY <1>1, ServerFacts
<1>6. Counts'
  BY <1>1, <1>4 DEF Counts
<1>7. Applies'
  <2>1. Idle \in [start : Nat, commands : Seq(Command), sent : BOOLEAN]
    BY DEF Idle
  <2> QED BY <1>1, <1>4, <1>5, <2>1 DEF Applies
<1>8. Serves'
  BY <1>1, <1>4, <1>5 DEF Serves
<1>9. Wires'
  BY <1>1, <1>4 DEF Wires
<1>10. Remains'
  BY <1>1, <1>4 DEF Remains
<1>11. Sound'
  BY <1>2, <1>6, <1>7, <1>8, <1>9, <1>10 DEF Sound
<1>12. Types'
  <2>1. (Sound => Types)'
    BY SoundTypes, PTL
  <2> QED BY <1>11, <2>1
<1>13. Requests' = Requests /\ Answers' = {r \in Answers : r.dest # i}
  BY <1>4 DEF Requests, Answers
<1>14. Follows
  <2>1. Takes(i)
    BY <1>2 DEF Takes
  <2>2. term[i] = term'[i] /\ votedFor'[i] = votedFor[i] /\ state'[i] # "Leader"
    BY <1>2
  <2>3. \A k \in Server \ {i} : /\ term'[k] = term[k] /\ votedFor'[k] = votedFor[k]
                                /\ Trail'[k] = Trail[k] /\ state'[k] = state[k]
    BY <1>2
  <2> QED BY <1>0, <1>12, <1>13, <2>1, <2>2, <2>3, DemotedFollows
<1>15. AckStep /\ LeadershipFits'
  <2>1. LeadersSame
    BY <1>14, FollowsLeadersSame
  <2>2. ~Leads(i)'
    BY <1>2 DEF Leads
  <2>3. \A j \in Server : Known(i, j)' = 0
    <3>1. \A j \in Server : matchIndex'[i][j] = 0
      BY <1>1, <1>4 DEF Counts
    <3>2. lastSnap'[i] \in Nat
      BY <1>2, <1>5
    <3> QED BY <3>1, <3>2 DEF Known
  <2>4. \A k \in Server \ {i}, j \in Server : Known(k, j)' = Known(k, j)
    <3>1. \A k \in Server \ {i} : matchIndex'[k] = matchIndex[k]
      BY <1>1, <1>4 DEF Counts
    <3> QED BY <1>2, <3>1 DEF Known
  <2> QED BY <1>0, <1>4, <1>12, <1>13, <2>1, <2>2, <2>3, <2>4, RebootAcks
<1>16. /\ commitIndex'[i] = lastSnap[i] /\ \A k \in Server \ {i} : commitIndex'[k] = commitIndex[k]
  BY <1>1, <1>4 DEF Applies
<1>17. \A k \in Server : /\ lastSnap[k] <= commitIndex[k] /\ commitIndex[k] <= Len(chosen)
                         /\ lastSnap[k] \in Nat /\ commitIndex[k] \in Nat
  BY <1>0, <1>1 DEF ChosenFits, Applies, Stores
<1>18. Len(chosen) \in Nat
  BY <1>1 DEF Remains
<1>19. CommitStep
  <2>1. \A k \in Server : commitIndex'[k] <= commitIndex[k]
    BY <1>16, <1>17
  <2> QED BY <2>1 DEF CommitStep
<1>20. Bounded'
  <2>1. ASSUME NEW k \in Server
        PROVE  lastSnap[k] <= commitIndex'[k] /\ commitIndex'[k] <= Len(chosen)
    <3>1. CASE k = i
      BY <1>16, <1>17, <1>18, <3>1
    <3>2. CASE k # i
      BY <1>16, <1>17, <3>2
    <3> QED BY <3>1, <3>2
  <2> QED BY <1>2, <1>4, <2>1 DEF Bounded
<1>21. ServiceFits'
  <2>1. IsPrefixOf(snapshot[i], chosen)
    <3>1. PICK s : s = snapshot[i]
      OBVIOUS
    <3>2. PICK n \in Nat, c \in Nat : n = lastSnap[i] /\ c = commitIndex[i] /\ n <= c
      BY <1>17
    <3>3. /\ chosen \in Seq(Command) /\ c <= Len(chosen)
          /\ \A x \in 1..c : chosen[x] = <<Trail[i][x], x>>
      BY <3>2, ChosenIs
    <3>4. s = Numbering(Trail[i], n)
      BY <1>1, <3>1, <3>2, SnapshotIs
    <3>5. ASSUME NEW x \in 1..n PROVE s[x] = chosen[x]
      <4>1. x \in 1..c
        BY <3>2
      <4>2. s[x] = <<Trail[i][x], x>>
        BY <3>4 DEF Numbering
      <4> QED BY <3>3, <4>1, <4>2
    <3>6. s \in Seq(Command) /\ Len(s) = n
      BY <1>5, <3>1, <3>2
    <3>7. n <= Len(chosen)
      BY <1>18, <3>2, <3>3
    <3> QED BY <3>1, <3>3, <3>5, <3>6, <3>7, PrefixFacts
  <2>2. logs'[i] = snapshot[i] /\ offers'[i] = {} /\ batch'[i] = Idle
    BY <1>1, <1>4 DEF Serves, Applies
  <2>3. \A k \in Server \ {i} : /\ logs'[k] = logs[k] /\ offers'[k] = offers[k]
                                /\ batch'[k] = batch[k]
    BY <1>1, <1>4 DEF Serves, Applies
  <2>4. BatchFits(i)'
    BY <2>2 DEF BatchFits
  <2>5. ASSUME NEW k \in Server \ {i} PROVE BatchFits(k)'
    <3>1. batch'[k] = batch[k] /\ commitIndex'[k] = commitIndex[k] /\ chosen' = chosen
      BY <1>4, <1>16, <2>3
    <3>2. BatchFits(k)
      BY <1>0 DEF ServiceFits
    <3> QED BY <3>1, <3>2 DEF BatchFits
  <2>6. Len(snapshot[i]) <= lastSnap[i]
    BY <1>5
  <2> SUFFICES ASSUME NEW k \in Server
               PROVE  /\ IsPrefixOf(logs'[k], chosen') /\ Len(logs'[k]) <= commitIndex'[k]
                      /\ \A s \in offers'[k] : IsPrefixOf(s, chosen') /\ Len(s) <= commitIndex'[k]
                      /\ BatchFits(k)'
    BY DEF ServiceFits
  <2>7. CASE k = i
    BY <1>4, <1>16, <2>1, <2>2, <2>4, <2>6, <2>7
  <2>8. CASE k # i
    BY <1>0, <1>4, <1>16, <2>3, <2>5, <2>8 DEF ServiceFits
  <2> QED BY <2>7, <2>8
<1>22. Kept
  BY <1>12, <1>14, <1>15, <1>19, <1>20 DEF Kept, StepFits
<1> QED BY <1>11, <1>21, <1>22 DEF Fits

\* A round of an election, whatever comes of it.
RoundFits(i, Q, t, vote, s) ==
    /\ Elects' /\ Durable' /\ TermsGrow /\ LeadersKept(Server \ {i}) /\ Trail' = Trail
    /\ term'[i] = t /\ votedFor'[i] = vote /\ state'[i] = s
    /\ \A j \in Q : Granted(j, i, term[i] + 1) => term'[j] = term[i] + 1 /\ votedFor'[j] = i

LEMMA RoundIs ==
    ASSUME Sound, NEW i \in Server, NEW Q \in SUBSET (Server \ {i}), NEW t \in Nat,
           NEW vote \in Server \cup {NoOne}, NEW s \in {"Follower", "Candidate", "Leader"},
           term[i] < t, Round(i, Q, t, vote, s)
    PROVE  RoundFits(i, Q, t, vote, s)
<1>0. Elects /\ Stores /\ Durable
  BY DEF Sound
<1>n. PICK new : new = term[i] + 1
  OBVIOUS
<1>i. new \in Nat /\ term \in [Server -> Nat] /\ votedFor \in [Server -> Server \cup {NoOne}]
  <2>1. term \in [Server -> Nat] /\ votedFor \in [Server -> Server \cup {NoOne}]
    BY <1>0 DEF Elects
  <2>2. term[i] \in Nat
    BY <2>1
  <2>3. new \in Nat
    BY <1>n, <2>2
  <2> QED BY <2>1, <2>3
<1>1. PICK raised, grants :
        /\ raised = {j \in Q : new > term[j]}
        /\ grants = {j \in Q : Granted(j, i, new)}
        /\ term' = [j \in Server |-> IF j = i THEN t ELSE IF j \in raised THEN new ELSE term[j]]
        /\ votedFor' = [j \in Server |-> IF j = i THEN vote ELSE IF j \in grants THEN i
                                          ELSE IF j \in raised THEN NoOne ELSE votedFor[j]]
        /\ state' = [j \in Server |-> IF j = i THEN s ELSE IF j \in raised THEN "Follower"
                                       ELSE state[j]]
  BY <1>n, ZenonT(60) DEF Round
<1>2. saved' = [j \in Server |-> [saved[j] EXCEPT !.term = term'[j], !.votedFor = votedFor'[j]]]
  BY Zenon DEF Round
<1>s. log' = log /\ lastSnap' = lastSnap /\ snapshot' = snapshot
  <2>1. UNCHANGED store
    BY Zenon DEF Round
  <2> QED BY <2>1 DEF store
<1>3. Elects'
  <2>1. term' \in [Server -> Nat]
    BY <1>1, <1>i
  <2>2. votedFor' \in [Server -> Server \cup {NoOne}]
    BY <1>1, <1>i
  <2>3. state' \in [Server -> {"Follower", "Candidate", "Leader"}]
    BY <1>0, <1>1 DEF Elects
  <2> QED BY <2>1, <2>2, <2>3 DEF Elects
<1>4. Durable'
  <2>1. ASSUME NEW j \in Server
        PROVE  /\ saved'[j] \in Disks
               /\ saved'[j].term = term'[j] /\ saved'[j].votedFor = votedFor'[j]
               /\ saved'[j].log = saved[j].log /\ saved'[j].lastSnap = saved[j].lastSnap
               /\ saved'[j].snapshot = saved[j].snapshot
    <3>1. saved[j] \in Disks /\ term'[j] \in Nat /\ votedFor'[j] \in Server \cup {NoOne}
      BY <1>0, <1>3 DEF Durable, Elects
    <3>2. saved'[j] = [saved[j] EXCEPT !.term = term'[j], !.votedFor = votedFor'[j]]
      BY <1>2, Zenon
    <3> QED BY <3>1, <3>2 DEF Disks
  <2>2. saved' \in [Server -> Disks]
    <3>1. PICK f : f = saved'
      OBVIOUS
    <3>2. f = [j \in Server |-> f[j]]
      BY <1>2, <3>1, Zenon
    <3>3. \A j \in Server : f[j] \in Disks
      BY <2>1, <3>1
    <3>4. f \in [Server -> Disks]
      BY <3>2, <3>3, Zenon
    <3> QED BY <3>1, <3>4
  <2>3. \A j \in Server : /\ saved'[j].lastSnap = lastSnap'[j]
                          /\ saved'[j].snapshot = snapshot'[j]
    BY <1>0, <1>s, <2>1 DEF Durable
  <2>4. \A j \in Server : log'[j] = saved'[j].log \/ log'[j] = Wiped(saved'[j].log)
    <3>1. ASSUME NEW j \in Server
          PROVE  log'[j] = saved'[j].log \/ log'[j] = Wiped(saved'[j].log)
      <4>1. log[j] = saved[j].log \/ log[j] = Wiped(saved[j].log)
        BY <1>0 DEF Durable
      <4>2. saved'[j].log = saved[j].log
        BY <2>1
      <4> QED BY <1>s, <4>1, <4>2
    <3> QED BY <3>1
  <2> QED BY <2>1, <2>2, <2>3, <2>4 DEF Durable
<1>5. TermsGrow
  <2> SUFFICES ASSUME NEW j \in Server
               PROVE  /\ term[j] <= term'[j]
                      /\ term[j] = term'[j] => \/ votedFor[j] = NoOne
                                               \/ votedFor'[j] = votedFor[j]
    BY DEF TermsGrow
  <2>1. term[j] \in Nat
    BY <1>i
  <2>2. CASE j = i
    BY <1>1, <2>1, <2>2
  <2>3. CASE j # i /\ j \in raised
    BY <1>1, <1>i, <2>1, <2>3
  <2>4. CASE j # i /\ j \notin raised /\ j \in grants
    <3>1. term'[j] = term[j] /\ votedFor'[j] = i
      BY <1>1, <2>4
    <3>2. j \in Q /\ Granted(j, i, new) /\ ~(new > term[j])
      BY <1>1, <2>4
    <3>3. votedFor[j] \in {NoOne, i}
      BY <3>2 DEF Granted
    <3> QED BY <2>1, <3>1, <3>3
  <2>5. CASE j # i /\ j \notin raised /\ j \notin grants
    BY <1>1, <2>1, <2>5
  <2> QED BY <2>2, <2>3, <2>4, <2>5
<1>7. Trail' = Trail
  BY <1>s DEF Trail
<1>6. LeadersKept(Server \ {i})
  <2> SUFFICES ASSUME NEW j \in Server \ {i}, state'[j] = "Leader"
               PROVE  state[j] = "Leader" /\ term'[j] = term[j] /\ Trail'[j] = Trail[j]
    BY DEF LeadersKept, Leads
  <2>1. j \notin raised
    BY <1>1
  <2> QED BY <1>1, <1>7, <2>1
<1>8. ASSUME NEW j \in Q, Granted(j, i, new)
      PROVE  term'[j] = new /\ votedFor'[j] = i
  <2>1. j \in Server /\ j # i /\ j \in grants /\ term[j] \in Nat
    BY <1>1, <1>i, <1>8
  <2>2. votedFor'[j] = i
    BY <1>1, <2>1
  <2>3. CASE j \in raised
    BY <1>1, <2>1, <2>3
  <2>4. CASE j \notin raised
    <3>1. term'[j] = term[j] /\ ~(new > term[j])
      BY <1>1, <2>1, <2>4
    <3>2. term[j] = new
      BY <1>8, <1>i, <2>1, <3>1 DEF Granted
    <3> QED BY <2>2, <3>1, <3>2
  <2> QED BY <2>2, <2>3, <2>4
<1>9. term'[i] = t /\ votedFor'[i] = vote /\ state'[i] = s
  BY <1>1
<1> QED BY <1>n, <1>3, <1>4, <1>5, <1>6, <1>7, <1>8, <1>9 DEF RoundFits

\* What a round leaves alone.
LEMMA RoundLeaves ==
    ASSUME NEW i, NEW Q, NEW t, NEW vote, NEW s, Round(i, Q, t, vote, s)
    PROVE  /\ UNCHANGED store /\ UNCHANGED <<nextIndex, matchIndex>>
           /\ UNCHANGED <<commitIndex, apply>> /\ UNCHANGED service /\ UNCHANGED net
           /\ UNCHANGED <<boot, ghost>>
<1>1. UNCHANGED <<store, nextIndex, matchIndex, commitIndex, apply, service, net, boot, ghost>>
  BY Zenon DEF Round
<1> QED BY <1>1

LEMMA RoundSound ==
    ASSUME Sound, NEW i \in Server, NEW Q, NEW t, NEW vote, NEW s, Round(i, Q, t, vote, s),
           Elects', Durable', starting' \in [Server -> BOOLEAN], leads' \in [Server -> Nat]
    PROVE  Sound'
<1>1. /\ UNCHANGED store /\ UNCHANGED <<nextIndex, matchIndex>>
      /\ UNCHANGED <<commitIndex, apply>> /\ UNCHANGED service /\ UNCHANGED net
      /\ UNCHANGED <<boot, ghost>>
  BY RoundLeaves
<1>2. Counts'
  BY <1>1 DEF Sound, Counts
<1>3. Stores' /\ Applies' /\ Serves' /\ Wires' /\ Remains'
  BY <1>1, SameGroups
<1> QED BY <1>2, <1>3 DEF Sound

\* A round that elects nobody.
LEMMA FailedRoundFits ==
    ASSUME SafeInv, NEW i \in Server, NEW Q \in SUBSET (Server \ {i}),
           Undecided(i, Q) \/ \E j \in Q : Deposed(i, Q, j)
    PROVE  Fits
<1>0. Sound /\ Types /\ LeadershipFits /\ ChosenFits /\ Elects /\ Counts
  BY DEF SafeInv, LogInv, Sound
<1>1. term[i] \in Nat /\ i \in Server \cup {NoOne} /\ NoOne \in Server \cup {NoOne}
  BY <1>0 DEF Elects
<1>2. UNCHANGED <<starting, leads>>
  BY DEF Undecided, Deposed
<1>3. PICK t \in Nat, vote \in Server \cup {NoOne}, s \in {"Follower", "Candidate"} :
         term[i] < t /\ Round(i, Q, t, vote, s)
  <2>1. CASE Undecided(i, Q)
    <3>1. Round(i, Q, term[i] + 1, i, "Candidate")
      BY <2>1 DEF Undecided
    <3>2. term[i] + 1 \in Nat /\ term[i] < term[i] + 1
      BY <1>1
    <3> QED BY <1>1, <3>1, <3>2
  <2>2. CASE \E j \in Q : Deposed(i, Q, j)
    <3>1. PICK j \in Q : Deposed(i, Q, j)
      BY <2>2
    <3>2. Round(i, Q, term[j], NoOne, "Follower") /\ term[j] > term[i] + 1
      BY <3>1 DEF Deposed
    <3>3. term[j] \in Nat /\ term[i] < term[j]
      BY SMTT(40), <1>0, <1>1, <3>2 DEF Elects
    <3> QED BY <1>1, <3>2, <3>3
  <2> QED BY <2>1, <2>2
<1>4. /\ Elects' /\ Durable' /\ TermsGrow /\ LeadersKept(Server \ {i}) /\ Trail' = Trail
      /\ state'[i] # "Leader"
  <2>1. s \in {"Follower", "Candidate", "Leader"}
    OBVIOUS
  <2>2. RoundFits(i, Q, t, vote, s)
    BY <1>0, <1>3, <2>1, RoundIs
  <2>3. state'[i] = s
    BY <2>2 DEF RoundFits
  <2> QED BY <2>2, <2>3 DEF RoundFits
<1>5. Sound'
  <2>1. starting' \in [Server -> BOOLEAN] /\ leads' \in [Server -> Nat]
    BY <1>0, <1>2 DEF Counts
  <2> QED BY <1>0, <1>3, <1>4, <2>1, RoundSound
<1>6. Types'
  <2>1. (Sound => Types)'
    BY SoundTypes, PTL
  <2> QED BY <1>5, <2>1
<1>7. /\ UNCHANGED <<log, lastSnap, snapshot, matchIndex, commitIndex, msgs, boot, chosen>>
      /\ UNCHANGED <<batch, offers, logs>>
  BY <1>3, RoundLeaves DEF store, service, net, ghost, apply
<1>8. Requests' = Requests /\ Answers' = Answers
  BY <1>7 DEF Requests, Answers
<1>9. Follows
  <2>1. LeadersKept(Server)
    BY <1>4 DEF LeadersKept, Leads
  <2>2. \A j \in Server : Takes(j)
    BY <1>4 DEF Takes
  <2>3. Requests' \subseteq Requests
    BY <1>8
  <2> QED BY <1>4, <2>1, <2>2, <2>3 DEF Follows
<1>10. AckStep /\ LeadershipFits'
  <2>1. LeadersSame
    BY <1>9, FollowsLeadersSame
  <2>2. KnownStep
    BY <1>7, KnownSame
  <2>3. RequestStep /\ AnswerStep
    BY <1>8 DEF RequestStep, AnswerStep
  <2> QED BY <1>0, <1>2, <1>6, <1>7, <2>1, <2>2, <2>3, StepAcks
<1>11. CommitStep
  BY <1>0, <1>7, QuietCommits
<1>12. Bounded'
  BY <1>0, <1>7 DEF ChosenFits, Bounded
<1>13. ServiceFits'
  BY <1>7, QuietServices
<1>14. Kept
  BY <1>6, <1>9, <1>10, <1>11, <1>12 DEF Kept, StepFits
<1> QED BY <1>5, <1>13, <1>14 DEF Fits

\* A majority votes for a candidate.
LEMMA ElectedFits ==
    ASSUME SafeInv, LeadsOnce, NEW i \in Server, NEW Q \in SUBSET (Server \ {i}), Elected(i, Q)
    PROVE  Fits
<1>0. Sound /\ Types /\ LeadershipFits /\ ChosenFits /\ Elects /\ Counts /\ Stores
  BY DEF SafeInv, LogInv, Sound
<1>1. /\ Round(i, Q, term[i] + 1, i, "Leader") /\ state[i] # "Leader"
      /\ starting' = [starting EXCEPT ![i] = TRUE] /\ leads' = [leads EXCEPT ![i] = @ + 1]
      /\ Cardinality({j \in Q : Granted(j, i, term[i] + 1)}) + 1 >= Majority
      /\ leads[i] < bound.leads
  BY DEF Elected, MayCampaign
<1>2. term[i] \in Nat /\ term[i] + 1 \in Nat /\ term[i] < term[i] + 1
  BY <1>0 DEF Elects
<1>3. /\ Elects' /\ Durable' /\ TermsGrow /\ LeadersKept(Server \ {i}) /\ Trail' = Trail
      /\ term'[i] = term[i] + 1 /\ votedFor'[i] = i
      /\ \A j \in Q : Granted(j, i, term[i] + 1) => term'[j] = term[i] + 1 /\ votedFor'[j] = i
  <2>1. RoundFits(i, Q, term[i] + 1, i, "Leader")
    BY <1>0, <1>1, <1>2, RoundIs
  <2> QED BY <2>1 DEF RoundFits
<1>4. Sound'
  <2>1. starting' \in [Server -> BOOLEAN] /\ leads' \in [Server -> Nat]
    BY <1>0, <1>1 DEF Counts
  <2> QED BY <1>0, <1>1, <1>3, <2>1, RoundSound
<1>5. Types'
  <2>1. (Sound => Types)'
    BY SoundTypes, PTL
  <2> QED BY <1>4, <2>1
<1>6. /\ UNCHANGED <<log, lastSnap, snapshot, matchIndex, commitIndex, msgs, boot, chosen>>
      /\ UNCHANGED <<batch, offers, logs>>
  BY <1>1, RoundLeaves DEF store, service, net, ghost, apply
<1>7. leads[i] = 0 /\ leads' = [leads EXCEPT ![i] = 1]
  <2>1. bound \in Bounds
    BY <1>0 DEF Types
  <2>2. bound.leads <= 1 /\ bound.leads \in Nat
    BY <2>1, BoundAssumption DEF LeadsOnce
  <2>3. leads[i] \in Nat
    BY <1>0 DEF Counts
  <2>4. leads[i] = 0
    BY <1>1, <2>2, <2>3
  <2> QED BY <1>1, <2>4
<1>8. PICK grants : grants = {j \in Q : Granted(j, i, term[i] + 1)}
  OBVIOUS
<1>9. PICK V : V = grants \cup {i}
  OBVIOUS
<1>10. V \in Quorums
  <2>1. grants \in SUBSET Server /\ i \notin grants /\ V \in SUBSET Server
    BY <1>8, <1>9
  <2>2. IsFiniteSet(grants)
    BY <2>1, ServerAssumption, FS_Subset
  <2>3. Cardinality(V) = Cardinality(grants) + 1
    BY <1>9, <2>1, <2>2, FS_AddElement
  <2> QED BY <1>1, <1>8, <2>1, <2>3 DEF Quorums
<1>11. ASSUME NEW j \in Server
       PROVE  /\ LastTerm(j) = TopTerm(Trail[j]) /\ Last(j) = Len(Trail[j])
              /\ Len(Trail[j]) \in Nat
  BY <1>0, ServerFacts
<1>12. Votes(i, V)
  <2> SUFFICES ASSUME NEW j \in V
               PROVE  /\ \/ term[j] < term[i] + 1
                         \/ term[j] = term[i] + 1 /\ votedFor[j] \in {NoOne, i}
                      /\ term'[j] = term[i] + 1 /\ votedFor'[j] = i
                      /\ Recent(Trail[i], Trail[j])
    BY DEF Votes
  <2>1. CASE j = i
    <3>1. Recent(Trail[i], Trail[i])
      BY <1>11 DEF Recent
    <3> QED BY <1>2, <1>3, <2>1, <3>1
  <2>2. CASE j # i
    <3>1. j \in Q /\ Granted(j, i, term[i] + 1) /\ term[j] \in Nat
      BY <1>0, <1>8, <1>9, <2>2 DEF Elects
    <3>2. term'[j] = term[i] + 1 /\ votedFor'[j] = i
      BY <1>3, <3>1
    <3>3. Recent(Trail[i], Trail[j])
      <4>1. UpToDate(i, j)
        BY <3>1 DEF Granted
      <4>2. j \in Server
        BY <3>1
      <4>3. \/ LastTerm(i) > LastTerm(j)
            \/ LastTerm(i) = LastTerm(j) /\ Last(i) >= Last(j)
        BY <4>1 DEF UpToDate
      <4> QED BY <1>11, <4>2, <4>3 DEF Recent
    <3>4. \/ term[j] < term[i] + 1
          \/ term[j] = term[i] + 1 /\ votedFor[j] \in {NoOne, i}
      BY <1>2, <3>1 DEF Granted
    <3> QED BY <3>2, <3>3, <3>4
  <2> QED BY <2>1, <2>2
<1>13. Wins(i)
  <2>1. Requests' = Requests
    BY <1>6 DEF Requests
  <2> QED BY <1>1, <1>3, <1>9, <1>10, <1>12, <2>1 DEF Wins, Leads
<1>14. AckStep /\ LeadershipFits'
  BY <1>0, <1>5, <1>6, <1>7, <1>13, ElectionAcks
<1>15. CommitStep
  BY <1>0, <1>6, QuietCommits
<1>16. Bounded'
  BY <1>0, <1>6 DEF ChosenFits, Bounded
<1>17. ServiceFits'
  BY <1>6, QuietServices
<1>18. Kept
  BY <1>5, <1>13, <1>14, <1>15, <1>16 DEF Kept, StepFits
<1> QED BY <1>4, <1>17, <1>18 DEF Fits

\* A step that leaves the chosen commands alone.
LEMMA SameChosen ==
    ASSUME SafeInv, chosen' = chosen
    PROVE  ChosenStep
<1>1. Sound /\ ChosenFits
  BY DEF SafeInv
<1>2. chosen \in Seq(Command)
  BY <1>1 DEF Sound, Remains
<1>3. PICK c : c = chosen
  OBVIOUS
<1>4. c \in Seq(Command) /\ Numbered(c) /\ \E t \in Nat : Committed(Terms(c), Len(c), t)
  BY <1>1, <1>2, <1>3 DEF ChosenFits
<1>5. Len(c) <= Len(c)
  BY <1>4
<1> QED BY <1>3, <1>4, <1>5 DEF ChosenStep

LEMMA DieLeaves ==
    ASSUME NEW why, Die(why)
    PROVE  chosen' = chosen
BY DEF Die

\* The steps of one server.
LEMMA ServerSteps ==
    ASSUME SafeInv, DummyUnheard', LeadsOnce, NEW i \in Server,
           \/ InitLeader(i) \/ Start(i) \/ Restart(i)
           \/ Fetch(i) \/ Deliver(i) \/ SetApplied(i) \/ Snapshot(i)
           \/ \E s \in offers[i] : DeliverSnapshot(i, s)
           \/ \E j \in Server : Send(i, j) \/ Spawn(i, j)
           \/ \E Q \in SUBSET (Server \ {i}) :
                 \/ Elected(i, Q) \/ Undecided(i, Q)
                 \/ \E j \in Q : Deposed(i, Q, j)
           \/ \E N \in commitIndex[i] + 1 .. Last(i) : Commit(i, N)
    PROVE  Fits /\ ChosenStep
<1>1. CASE InitLeader(i)
  <2>1. chosen' = chosen
    BY <1>1 DEF InitLeader, ghost
  <2> QED BY <1>1, <2>1, InitLeaderFits, SameChosen
<1>2. CASE Start(i)
  <2>1. chosen' = chosen
    BY <1>2 DEF Start, ghost
  <2> QED BY <1>2, <2>1, StartFits, SameChosen
<1>3. CASE Restart(i)
  <2>1. chosen' = chosen
    BY <1>3 DEF Restart, ghost
  <2> QED BY <1>3, <2>1, RestartFits, SameChosen
<1>4. CASE Fetch(i)
  <2>1. chosen' = chosen
    BY <1>4, DieLeaves, Zenon DEF Fetch, ghost
  <2> QED BY <1>4, <2>1, FetchFits, SameChosen
<1>5. CASE Deliver(i)
  <2>1. chosen' = chosen
    BY <1>5, DieLeaves, Zenon DEF Deliver, ghost
  <2> QED BY <1>5, <2>1, DeliverFits, SameChosen
<1>6. CASE SetApplied(i)
  <2>1. chosen' = chosen
    BY <1>6 DEF SetApplied, ghost
  <2> QED BY <1>6, <2>1, SetAppliedFits, SameChosen
<1>7. CASE Snapshot(i)
  <2>1. chosen' = chosen
    BY <1>7 DEF Snapshot, ghost
  <2> QED BY <1>7, <2>1, SnapshotFitsIn, SameChosen
<1>8. ASSUME NEW s \in offers[i], DeliverSnapshot(i, s)
      PROVE  Fits /\ ChosenStep
  <2>1. chosen' = chosen
    BY <1>8 DEF DeliverSnapshot, ghost
  <2> QED BY <1>8, <2>1, DeliverSnapshotFits, SameChosen
<1>9. ASSUME NEW j \in Server, Send(i, j)
      PROVE  Fits /\ ChosenStep
  <2>1. chosen' = chosen
    BY <1>9 DEF Send
  <2> QED BY <1>9, <2>1, SendFits, SameChosen
<1>10. ASSUME NEW j \in Server, Spawn(i, j)
      PROVE  Fits /\ ChosenStep
  <2>1. chosen' = chosen
    BY <1>10 DEF Spawn, ghost
  <2> QED BY <1>10, <2>1, SpawnFits, SameChosen
<1>11. ASSUME NEW Q \in SUBSET (Server \ {i}),
             Elected(i, Q) \/ Undecided(i, Q) \/ \E j \in Q : Deposed(i, Q, j)
      PROVE  Fits /\ ChosenStep
  <2>1. chosen' = chosen
    <3>1. \E t, vote, s : Round(i, Q, t, vote, s)
      BY <1>11, Zenon DEF Elected, Undecided, Deposed
    <3> QED BY <3>1, RoundLeaves DEF ghost
  <2> QED BY <1>11, <2>1, ElectedFits, FailedRoundFits, SameChosen
<1>12. ASSUME NEW N \in commitIndex[i] + 1 .. Last(i), Commit(i, N)
      PROVE  Fits /\ ChosenStep
  <2>1. N \in Nat
    <3>1. commitIndex[i] \in Nat /\ Last(i) \in Nat
      BY ServerFacts DEF SafeInv, Sound, Applies
    <3> QED BY <3>1
  <2> QED BY <1>12, <2>1, CommitsFit
<1> QED
  BY <1>1, <1>2, <1>3, <1>4, <1>5, <1>6, <1>7, <1>8, <1>9, <1>10, <1>11, <1>12

\* The steps of a message that arrives.
LEMMA MessageSteps ==
    ASSUME SafeInv, NEW m \in msgs, m.dest \in Server,
           \/ ReceiveReply(m.dest, m) \/ Lose(m)
           \/ RefuseAppend(m.dest, m) \/ BelowSnapshot(m.dest, m)
           \/ MismatchAppend(m.dest, m) \/ AcceptAppend(m.dest, m)
           \/ SkipSnapshot(m.dest, m) \/ InstallSnapshot(m.dest, m)
    PROVE  Fits /\ ChosenStep
<1>1. CASE ReceiveReply(m.dest, m)
  <2>1. chosen' = chosen
    BY <1>1 DEF ReceiveReply, ghost
  <2> QED BY <1>1, <2>1, ReceiveReplyFits, SameChosen
<1>2. CASE RefuseAppend(m.dest, m)
  <2>1. chosen' = chosen
    BY <1>2 DEF RefuseAppend, ghost
  <2> QED BY <1>2, <2>1, RefuseAppendFits, SameChosen
<1>3. CASE BelowSnapshot(m.dest, m)
  <2>1. chosen' = chosen
    BY <1>3, DieLeaves, Zenon DEF BelowSnapshot
  <2> QED BY <1>3, <2>1, BelowSnapshotFits, SameChosen
<1>4. CASE MismatchAppend(m.dest, m)
  <2>1. chosen' = chosen
    BY <1>4 DEF MismatchAppend, ghost
  <2> QED BY <1>4, <2>1, MismatchAppendFits, SameChosen
<1>5. CASE AcceptAppend(m.dest, m)
  <2>1. chosen' = chosen
    BY <1>5 DEF AcceptAppend, ghost
  <2> QED BY <1>5, <2>1, AcceptAppendFits, SameChosen
<1>6. CASE SkipSnapshot(m.dest, m)
  <2>1. chosen' = chosen
    BY <1>6 DEF SkipSnapshot, ghost
  <2> QED BY <1>6, <2>1, SkipSnapshotFits, SameChosen
<1>7. CASE InstallSnapshot(m.dest, m)
  <2>1. chosen' = chosen
    BY <1>7 DEF InstallSnapshot, ghost
  <2> QED BY <1>7, <2>1, InstallSnapshotFits, SameChosen
<1>8. CASE Lose(m)
  <2>1. chosen' = chosen
    BY <1>8 DEF Lose, ghost
  <2> QED BY <1>8, <2>1, LoseFits, SameChosen
<1> QED
  BY <1>1, <1>2, <1>3, <1>4, <1>5, <1>6, <1>7, <1>8

\* Every step fits.
LEMMA NextFits ==
    ASSUME SafeInv, SendersLead, DummyUnheard', LeadsOnce, [Next]_vars
    PROVE  Fits /\ ChosenStep
<1>0. \A i : i \in Live => i \in Server
  BY Zenon DEF Live
<1>1. CASE UNCHANGED vars
  <2>1. chosen' = chosen
    BY <1>1 DEF vars, ghost
  <2> QED BY <1>1, <2>1, StutterFits, SameChosen
<1>2. ASSUME NEW i \in Live,
             \/ InitLeader(i) \/ Start(i) \/ Restart(i)
             \/ Fetch(i) \/ Deliver(i) \/ SetApplied(i) \/ Snapshot(i)
             \/ \E s \in offers[i] : DeliverSnapshot(i, s)
             \/ \E j \in Server : Send(i, j) \/ Spawn(i, j)
             \/ \E Q \in SUBSET (Server \ {i}) :
                   \/ Elected(i, Q) \/ Undecided(i, Q)
                   \/ \E j \in Q : Deposed(i, Q, j)
             \/ \E N \in commitIndex[i] + 1 .. Last(i) : Commit(i, N)
      PROVE  Fits /\ ChosenStep
  <2>1. i \in Server
    BY <1>0, Zenon
  <2> QED BY <1>2, <2>1, ServerSteps
<1>3. ASSUME NEW g \in {g \in senders : g[1] \in Live}, SendLate(g)
      PROVE  Fits /\ ChosenStep
  <2>1. chosen' = chosen
    BY <1>3 DEF SendLate
  <2> QED BY <1>3, <2>1, SendLateFits, SameChosen
<1>4. ASSUME NEW m \in {m \in msgs : m.dest \in Live},
             \/ ReceiveReply(m.dest, m) \/ Lose(m)
             \/ RefuseAppend(m.dest, m) \/ BelowSnapshot(m.dest, m)
             \/ MismatchAppend(m.dest, m) \/ AcceptAppend(m.dest, m)
             \/ SkipSnapshot(m.dest, m) \/ InstallSnapshot(m.dest, m)
      PROVE  Fits /\ ChosenStep
  <2>1. m \in msgs /\ m.dest \in Server
    BY <1>0, Zenon
  <2> QED BY <1>4, <2>1, MessageSteps
<1>5. Next \/ UNCHANGED vars
  OBVIOUS
<1>6. CASE Next
  BY <1>2, <1>3, <1>4, <1>6, ZenonT(60) DEF Next
<1> QED BY <1>1, <1>5, <1>6

\* What leaders have found committed stays committed, and covers all commit indices.
LEMMA ChosenFitsStays ==
    ASSUME LogInv, LogInv', StepFits, ChosenFits, ChosenStep, Bounded', Remains
    PROVE  ChosenFits'
<1>0. Types /\ Types'
  BY DEF LogInv
<1>1. PICK c \in Seq(Command), t \in Nat :
         /\ chosen' = c /\ Numbered(c) /\ Len(chosen) <= Len(c) /\ Committed(Terms(c), Len(c), t)
  BY DEF ChosenStep
<1>2. Committed(Terms(c), Len(c), t)'
  <2>1. ASSUME NEW l, NEW n, Committed(l, n, t)
        PROVE  Committed(l, n, t)'
    BY <2>1, ChosenStays DEF Committed
  <2>2. PICK l, n : l = Terms(c) /\ n = Len(c)
    OBVIOUS
  <2>3. Committed(l, n, t)'
    BY <1>1, <2>1, <2>2
  <2>4. Terms(c)' = Terms(c)
    BY DEF Terms
  <2> QED BY <2>2, <2>3, <2>4
<1>3. Len(chosen) \in Nat /\ Len(c) \in Nat
  BY DEF Remains
<1>4. ASSUME NEW m \in Requests' PROVE CommitOf(m) <= Len(c)
  <2>1. m \in Requests \/ \E i \in Server : Leads(i) /\ Cut(m, i)
    BY StepFacts
  <2>2. CommitOf(m) \in Nat
    BY <1>0 DEF Types, RequestType
  <2>3. CommitOf(m) <= Len(chosen)
    <3>1. CASE m \in Requests
      BY <3>1 DEF ChosenFits
    <3>2. ASSUME NEW i \in Server, Cut(m, i) PROVE CommitOf(m) <= Len(chosen)
      <4>1. CommitOf(m) <= commitIndex[i] /\ commitIndex[i] <= Len(chosen)
        BY <3>2 DEF Cut, ChosenFits
      <4>2. commitIndex[i] \in Nat
        BY <1>0 DEF Types
      <4> QED BY <1>3, <2>2, <4>1, <4>2
    <3> QED BY <2>1, <3>1, <3>2
  <2> QED BY <1>1, <1>3, <2>2, <2>3
<1>5. \A m \in Requests' : CommitOf(m)' <= Len(chosen')
  BY <1>1, <1>4 DEF CommitOf
<1>6. Numbered(chosen)'
  BY <1>1 DEF Numbered
<1>7. \E u \in Nat : Committed(Terms(chosen), Len(chosen), u)'
  <2>1. chosen' = c' /\ Terms(chosen)' = Terms(c)' /\ Len(chosen)' = Len(c)'
    BY <1>1 DEF Terms
  <2>2. Committed(Terms(chosen), Len(chosen), t)'
    BY <1>2, <2>1 DEF Committed
  <2> QED BY <2>2
<1>8. \A i \in Server : lastSnap'[i] <= commitIndex'[i] /\ commitIndex'[i] <= Len(chosen')
  BY DEF Bounded
<1> QED BY <1>5, <1>6, <1>7, <1>8 DEF ChosenFits

\* The invariant is inductive.
LEMMA SafeInvStays ==
    ASSUME SafeInv, SendersLead, DummyUnheard', LeadsOnce, [Next]_vars
    PROVE  SafeInv'
<1>1. Sound' /\ Kept /\ ServiceFits' /\ ChosenStep
  BY NextFits DEF Fits
<1>2. StepFits /\ AckStep /\ LeadershipFits' /\ CommitStep /\ Bounded'
  BY <1>1 DEF Kept
<1>3. Sound /\ LogInv /\ AcksFit /\ FateFits /\ CommitFits /\ ChosenFits
  BY DEF SafeInv
<1>4. LogInv'
  BY <1>2, <1>3, LogInvStays
<1>5. AcksFit'
  BY <1>2, <1>3, <1>4, AcksFitStays
<1>6. FateFits'
  BY <1>2, <1>3, <1>4, FateFitsStays
<1>7. CommitFits'
  BY <1>2, <1>3, <1>4, CommitFitsStays
<1>8. ChosenFits'
  BY <1>1, <1>2, <1>3, <1>4, ChosenFitsStays DEF Sound
<1> QED BY <1>1, <1>2, <1>4, <1>5, <1>6, <1>7, <1>8 DEF SafeInv

-----------------------------------------------------------------------------
(* The beginning. *)

\* The variables at first.
LEMMA InitIs ==
    ASSUME Init
    PROVE  /\ term = Zero /\ votedFor = [i \in Server |-> NoOne]
           /\ state = [i \in Server |-> "Follower"]
           /\ log = [i \in Server |-> <<Dummy(0)>>]
           /\ lastSnap = Zero /\ snapshot = [i \in Server |-> <<>>]
           /\ saved = [i \in Server |-> [term |-> 0, votedFor |-> NoOne, log |-> <<Dummy(0)>>,
                                         lastSnap |-> 0, snapshot |-> <<>>]]
           /\ starting = [i \in Server |-> FALSE] /\ leads = Zero
           /\ nextIndex = [i \in Server |-> Zero] /\ matchIndex = [i \in Server |-> Zero]
           /\ commitIndex = Zero /\ lastApplied = Zero
           /\ batch = [i \in Server |-> Idle]
           /\ offers = [i \in Server |-> {}] /\ logs = [i \in Server |-> <<>>]
           /\ owing = [i \in Server |-> FALSE]
           /\ senders = {} /\ msgs = {} /\ boot = Zero
           /\ chosen = <<>> /\ ended = "" /\ bound \in Bounds
BY Zenon DEF Init

\* What is stored and sent has its form at first.
LEMMA SoundInit ==
    ASSUME Init
    PROVE  Sound
<1>1. /\ term = [i \in Server |-> 0] /\ votedFor = [i \in Server |-> NoOne]
      /\ state = [i \in Server |-> "Follower"] /\ lastSnap = [i \in Server |-> 0]
  BY InitIs, Zenon DEF Zero
<1>2. Elects
  BY <1>1 DEF Elects
<1>3. PICK d, h : d = <<>> /\ h = <<Dummy(0)>>
  OBVIOUS
<1>t. d \in Seq(Command)
  BY <1>3
<1>4. Len(d) = 0 /\ Numbered(d) /\ 0 = At(Terms(d), Len(d))
  BY <1>3 DEF Numbered, At
<1>5. h \in Seq(Entry) /\ Formed(d, h)
  <2>0. PICK t : t = 0
    OBVIOUS
  <2>1. <<Dummy(t)>> \in Seq(Entry) /\ Formed(d, <<Dummy(t)>>)
    <3>1. t = At(Terms(d), Len(d))
      BY <1>4, <2>0
    <3> QED BY <1>t, <1>4, <3>1, FormedSnapshot, Zenon
  <2> QED BY <1>3, <2>0, <2>1
<1>6. log = [i \in Server |-> h] /\ snapshot = [i \in Server |-> d]
  BY <1>3, InitIs, Zenon
<1>7. Stores
  BY <1>1, <1>t, <1>4, <1>5, <1>6 DEF Stores
<1>8. Counts
  <2>1. Zero \in [Server -> Nat]
    BY DEF Zero
  <2>2. starting = [i \in Server |-> FALSE] /\ leads = Zero
    BY InitIs, Zenon
  <2>3. nextIndex = [i \in Server |-> Zero] /\ matchIndex = [i \in Server |-> Zero]
    BY InitIs, Zenon
  <2> QED BY <2>1, <2>2, <2>3 DEF Counts
<1>9. Applies
  <2>1. PICK e : e = Idle
    OBVIOUS
  <2>2. e \in [start : Nat, commands : Seq(Command), sent : BOOLEAN]
    BY <2>1 DEF Idle
  <2>3. /\ batch = [i \in Server |-> e]
        /\ commitIndex = [i \in Server |-> 0] /\ lastApplied = [i \in Server |-> 0]
    BY <2>1, InitIs, Zenon DEF Zero
  <2> QED BY <2>2, <2>3 DEF Applies
<1>10. Serves
  <2>1. /\ offers = [i \in Server |-> {}] /\ logs = [i \in Server |-> d]
        /\ owing = [i \in Server |-> FALSE]
    BY <1>3, InitIs, Zenon
  <2> QED BY <1>t, <2>1 DEF Serves
<1>11. Wires
  <2>1. senders = {} /\ msgs = {}
    BY InitIs, Zenon
  <2> QED BY <2>1 DEF Wires
<1>12. Remains
  <2>1. boot = [i \in Server |-> 0] /\ chosen = d /\ bound \in Bounds /\ ended = ""
    BY <1>3, InitIs, Zenon DEF Zero
  <2>2. ended \in Ends
    BY <2>1, Zenon DEF Ends
  <2>3. boot \in [Server -> Nat]
    <3>1. boot = [i \in Server |-> 0]
      BY InitIs, Zenon DEF Zero
    <3> HIDE <2>1, <2>2
    <3>2. [i \in Server |-> 0] \in [Server -> Nat]
      OBVIOUS
    <3> QED BY <3>1, <3>2, Zenon
  <2>4. chosen \in Seq(Command) /\ bound \in Bounds
    BY <1>t, <2>1, Zenon
  <2> QED BY <2>2, <2>3, <2>4, Zenon DEF Remains
<1>13. Durable
  <2>1. PICK e : e = [term |-> 0, votedFor |-> NoOne, log |-> h, lastSnap |-> 0, snapshot |-> d]
    OBVIOUS
  <2>2. e \in Disks
    BY <1>t, <1>5, <2>1 DEF Disks
  <2>3. saved = [i \in Server |-> e]
    BY <1>3, <2>1, InitIs, Zenon
  <2> QED BY <1>1, <1>6, <2>1, <2>2, <2>3 DEF Durable
<1> QED BY <1>2, <1>7, <1>8, <1>9, <1>10, <1>11, <1>12, <1>13 DEF Sound

LEMMA SafeInit ==
    ASSUME Init
    PROVE  SafeInv
<1>1. Sound /\ Types
  BY SoundInit, SoundTypes
<1>2. /\ Requests = {} /\ Answers = {} /\ chosen = <<>>
      /\ \A i \in Server : /\ ~Leads(i) /\ commitIndex[i] = 0 /\ leads[i] = 0
                           /\ lastSnap[i] = 0 /\ \A j \in Server : matchIndex[i][j] = 0
                           /\ logs[i] = <<>> /\ offers[i] = {} /\ batch[i] = Idle
                           /\ log[i] = <<Dummy(0)>>
  <2>1. msgs = {} /\ chosen = <<>>
    BY InitIs, Zenon
  <2>2. Requests = {} /\ Answers = {}
    BY <2>1 DEF Requests, Answers
  <2>3. ASSUME NEW i \in Server
        PROVE  /\ commitIndex[i] = 0 /\ leads[i] = 0 /\ lastSnap[i] = 0
               /\ \A j \in Server : matchIndex[i][j] = 0
    <3>1. commitIndex[i] = Zero[i] /\ leads[i] = Zero[i] /\ lastSnap[i] = Zero[i]
      BY InitIs, Zenon
    <3>2. matchIndex[i] = Zero
      BY InitIs, Zenon
    <3>3. \A j \in Server : Zero[j] = 0
      BY DEF Zero
    <3> QED BY <3>1, <3>2, <3>3
  <2>4. ASSUME NEW i \in Server
        PROVE  logs[i] = <<>> /\ offers[i] = {} /\ batch[i] = Idle /\ log[i] = <<Dummy(0)>>
    BY InitIs, Zenon
  <2>5. ASSUME NEW i \in Server PROVE ~Leads(i)
    <3>1. state[i] = "Follower"
      BY InitIs, Zenon
    <3> QED BY <3>1 DEF Leads
  <2> QED BY <2>1, <2>2, <2>3, <2>4, <2>5
<1>3. \A i, j \in Server : Known(i, j) = 0
  BY <1>2 DEF Known
<1>4. LogInv
  <2>1. ASSUME NEW i \in Server PROVE Trail[i] \in Seq(Nat) /\ Len(Trail[i]) = 0
    <3>1. Len(log[i]) = 1
      <4>1. PICK e : e = Dummy(0)
        OBVIOUS
      <4>2. log[i] = <<e>>
        BY <1>2, <4>1, Zenon
      <4> QED BY <4>2
    <3>2. Trail[i] \in Seq(Nat) /\ Len(Trail[i]) = lastSnap[i] + Len(log[i]) - 1
      BY <1>1, ServerFacts DEF Sound
    <3> QED BY <1>2, <3>1, <3>2
  <2>2. \A l \in Logs : 1..Len(l) = {}
    <3>1. ASSUME NEW l \in Logs PROVE 1..Len(l) = {}
      <4>1. l \in Seq(Nat) /\ \E i \in Server : Starts(l, Trail[i])
        BY <1>2 DEF Logs
      <4>2. Len(l) \in Nat /\ Len(l) <= 0
        BY <2>1, <4>1 DEF Starts, Same
      <4> QED BY <4>2
    <3> QED BY <3>1
  <2>3. LogsFit
    BY <2>1, <2>2 DEF LogsFit, Agree
  <2> QED BY <1>1, <1>2, <2>3 DEF LogInv, LeadersFit, LeaderHasAll
<1>5. LeadershipFits
  BY <1>2, <1>3 DEF LeadershipFits
<1>6. AcksFit /\ FateFits
  BY <1>2 DEF AcksFit, FateFits
<1>7. CommitFits
  BY <1>2 DEF CommitFits, Committed
<1>8. ChosenFits
  <2>1. Len(chosen) = 0
    BY <1>2
  <2>2. Committed(Terms(chosen), Len(chosen), 0)
    BY <2>1 DEF Committed
  <2>3. \E t \in Nat : Committed(Terms(chosen), Len(chosen), t)
    BY <2>2
  <2>4. Numbered(chosen)
    BY <2>1 DEF Numbered
  <2> QED BY <1>2, <2>1, <2>3, <2>4 DEF ChosenFits
<1>9. ServiceFits
  <2>1. IsPrefixOf(<<>>, chosen)
    BY <1>2 DEF IsPrefixOf
  <2> QED BY <1>2, <2>1 DEF ServiceFits, BatchFits
<1> QED BY <1>1, <1>4, <1>5, <1>6, <1>7, <1>8, <1>9 DEF SafeInv

-----------------------------------------------------------------------------
(* What RaftSnapshot promises. *)

\* In every reachable state trails and requests agree as elections leave them, what leaders
\* are told is true, what is committed is in the trail of every later leader, and services
\* hold the beginning of what is chosen.
THEOREM SafeInvariant ==
    LeadsOnce /\ Spec /\ []SendersLead /\ []DummyUnheard => []SafeInv
<1>1. Init => SafeInv
  BY SafeInit
<1>2. LeadsOnce /\ SendersLead /\ DummyUnheard' /\ SafeInv /\ [Next]_vars
      => SafeInv' /\ LeadsOnce'
  <2>1. LeadsOnce => LeadsOnce'
    BY DEF LeadsOnce
  <2> QED BY <2>1, SafeInvStays
<1> QED BY <1>1, <1>2, PTL DEF Spec

\* A history is the numbered beginning of a trail, and trails that share an entry agree up to it.
THEOREM LogsMatch ==
    LeadsOnce /\ Spec /\ []SendersLead /\ []DummyUnheard => []LogMatching
<1>1. SafeInv => LogMatching
  <2> SUFFICES ASSUME SafeInv, NEW i \in Server, NEW j \in Server,
                      NEW k \in Greater(lastSnap[i], lastSnap[j]) + 1
                                .. Lesser(Last(i), Last(j)),
                      log[i][Pos(i, k)].term = log[j][Pos(j, k)].term
               PROVE  History(i, k) = History(j, k)
    BY DEF LogMatching
  <2>1. Stores /\ LogInv /\ Types
    BY DEF SafeInv, Sound, LogInv
  <2>2. /\ lastSnap[i] \in Nat /\ lastSnap[j] \in Nat /\ Last(i) \in Nat /\ Last(j) \in Nat
        /\ Trail[i] \in Seq(Nat) /\ Trail[j] \in Seq(Nat)
        /\ Len(Trail[i]) = Last(i) /\ Len(Trail[j]) = Last(j)
    BY <2>1, ServerFacts
  <2>3. /\ k \in Nat /\ k >= 1 /\ lastSnap[i] <= k /\ lastSnap[j] <= k
        /\ k <= Last(i) /\ k <= Last(j)
    <3>1. PICK a \in Nat, b \in Nat, y \in Nat, z \in Nat :
             a = lastSnap[i] /\ b = lastSnap[j] /\ y = Last(i) /\ z = Last(j)
      BY <2>2
    <3>2. k \in Greater(a, b) + 1 .. Lesser(y, z)
      BY <3>1
    <3>3. k \in Nat /\ k >= 1 /\ a <= k /\ b <= k
      BY <3>2 DEF Greater, Lesser
    <3>4. k <= y /\ k <= z
      BY <3>2, <3>3 DEF Greater, Lesser
    <3> QED BY <3>1, <3>3, <3>4
  <2>4. At(Trail[i], k) = At(Trail[j], k)
    BY <2>1, <2>3, EntryFacts
  <2>5. Trail[i][k] = Trail[j][k] /\ k \in 1..Len(Trail[i]) /\ k \in 1..Len(Trail[j])
    BY <2>2, <2>3, <2>4 DEF At
  <2>6. Agree(Trail[i], Trail[j])
    <3>1. Trail[i] \in Logs /\ Trail[j] \in Logs
      BY <2>1, LogTypes
    <3> QED BY <2>1, <3>1 DEF LogInv, LogsFit
  <2>7. Same(Trail[i], Trail[j], k)
    BY <2>3, <2>5, <2>6 DEF Agree
  <2>8. Numbering(Trail[i], k) = Numbering(Trail[j], k)
    BY <2>2, <2>3, <2>7, NumberingSame
  <2> QED BY <2>1, <2>3, <2>8, HistoryIs
<1> QED BY <1>1, SafeInvariant, PTL

\* A peer in the leader's term holds every entry that matchIndex claims above the snapshot.
THEOREM MatchesAreTrue ==
    LeadsOnce /\ Spec /\ []SendersLead /\ []DummyUnheard => []MatchIndexTrue
<1>1. SafeInv => MatchIndexTrue
  <2> SUFFICES ASSUME SafeInv, NEW i \in Server, NEW j \in Server, Leads(i),
                      term[j] = term[i], matchIndex[i][j] > lastSnap[i],
                      NEW k, k = Lesser(matchIndex[i][j], Last(i))
               PROVE  k <= Last(j) /\ History(i, k) = History(j, k)
    BY DEF MatchIndexTrue, Leads
  <2>1. Stores /\ AcksFit /\ Types
    BY DEF SafeInv, Sound, LogInv
  <2>2. /\ lastSnap[i] \in Nat /\ Last(i) \in Nat /\ Last(j) \in Nat
        /\ Trail[i] \in Seq(Nat) /\ Trail[j] \in Seq(Nat)
        /\ Len(Trail[i]) = Last(i) /\ Len(Trail[j]) = Last(j)
    BY <2>1, ServerFacts
  <2>3. matchIndex[i][j] \in Nat
    BY <2>1 DEF Types
  <2>4. k \in Nat /\ k <= matchIndex[i][j] /\ k <= Last(i)
    BY <2>2, <2>3 DEF Lesser
  <2>5. CASE j = i
    BY <2>4, <2>5
  <2>6. CASE j # i
    <3>1. Known(i, j) = matchIndex[i][j]
      BY <2>6 DEF Known
    <3>2. Same(Trail[j], Trail[i], k)
      <4>1. CASE k = 0
        BY <2>2, <4>1 DEF Same
      <4>2. CASE k # 0
        <5>1. k \in Nat \ {0} /\ Ack(i, j, k)
          BY <2>4, <3>1, <4>2 DEF Ack
        <5> QED BY <2>1, <5>1 DEF AcksFit
      <4> QED BY <4>1, <4>2
    <3>3. k <= Last(j)
      BY <2>2, <3>2 DEF Same
    <3>4. Numbering(Trail[j], k) = Numbering(Trail[i], k)
      BY <2>2, <2>4, <3>2, <3>3, NumberingSame
    <3> QED BY <2>1, <2>4, <3>3, <3>4, HistoryIs
  <2> QED BY <2>5, <2>6
<1> QED BY <1>1, SafeInvariant, PTL

\* The groups of the variables are well-typed as TypeOK says.
LEMMA SoundTypeOK ==
    ASSUME Sound
    PROVE  TypeOK
<1>0. /\ Elects /\ Stores /\ Counts /\ Applies /\ Serves /\ Wires /\ Remains /\ Durable
  BY DEF Sound
<1>1. {term, lastSnap, commitIndex, lastApplied, boot, leads} \subseteq PerServer(Nat)
  <2>1. /\ term \in [Server -> Nat] /\ lastSnap \in [Server -> Nat]
        /\ commitIndex \in [Server -> Nat] /\ lastApplied \in [Server -> Nat]
        /\ boot \in [Server -> Nat] /\ leads \in [Server -> Nat]
    BY <1>0, Zenon DEF Elects, Stores, Applies, Remains, Counts
  <2> QED BY <2>1, Zenon DEF PerServer
<1>2. votedFor \in PerServer(Server \cup {NoOne})
  BY <1>0, Zenon DEF Elects, PerServer
<1>3. state \in PerServer({"Follower", "Candidate", "Leader"})
  BY <1>0, Zenon DEF Elects, PerServer
<1>4. log \in PerServer(Seq(Entry))
  BY <1>0, Zenon DEF Stores, PerServer
<1>5. {snapshot, logs} \subseteq PerServer(Seq(Command))
  <2>1. snapshot \in [Server -> Seq(Command)] /\ logs \in [Server -> Seq(Command)]
    BY <1>0, Zenon DEF Stores, Serves
  <2> QED BY <2>1, Zenon DEF PerServer
<1>6. \A i \in Server : Len(log[i]) >= 1 /\ Len(snapshot[i]) = lastSnap[i]
  BY <1>0, ServerFacts
<1>7. {starting, owing} \subseteq PerServer(BOOLEAN)
  <2>1. starting \in [Server -> BOOLEAN] /\ owing \in [Server -> BOOLEAN]
    BY <1>0, Zenon DEF Counts, Serves
  <2> QED BY <2>1, Zenon DEF PerServer
<1>8. {nextIndex, matchIndex} \subseteq PerServer(PerServer(Nat))
  <2>1. nextIndex \in [Server -> [Server -> Nat]] /\ matchIndex \in [Server -> [Server -> Nat]]
    BY <1>0, Zenon DEF Counts
  <2> QED BY <2>1, Zenon DEF PerServer
<1>9. saved \in PerServer([term : Nat, votedFor : Server \cup {NoOne}, log : Seq(Entry),
                           lastSnap : Nat, snapshot : Seq(Command)])
  BY <1>0, Zenon DEF Durable, Disks, PerServer
<1>10. batch \in PerServer([start : Nat, commands : Seq(Command), sent : BOOLEAN])
  BY <1>0, Zenon DEF Applies, PerServer
<1>11. \A i \in Server : offers[i] \subseteq Seq(Command)
  <2>1. offers \in [Server -> SUBSET Seq(Command)]
    BY <1>0, Zenon DEF Serves
  <2> QED BY <2>1
<1>12. senders \subseteq Server \X Server \X {"AppendEntries", "InstallSnapshot"}
  BY <1>0, Zenon DEF Wires
<1>13. msgs \subseteq AppendCalls \cup SnapshotCalls \cup Replies
  <2>1. \A m \in msgs : \/ m \in AppendCalls \/ m \in SnapshotCalls
                        \/ m \in AppendAnswers \/ m \in InstallAnswers
    BY <1>0, Zenon DEF Wires, OnWire
  <2>2. Replies = AppendAnswers \cup InstallAnswers
    BY Zenon DEF Replies, AppendAnswers, InstallAnswers
  <2> QED BY <2>1, <2>2, Zenon
<1>14. chosen \in Seq(Command) /\ bound \in Bounds
  BY <1>0, Zenon DEF Remains
<1>15. ended \in {"", "index out of range", "out of order", "disagreement"}
  BY <1>0, Zenon DEF Remains, Ends
<1> QED BY <1>1, <1>2, <1>3, <1>4, <1>5, <1>6, <1>7, <1>8, <1>9, <1>10, <1>11, <1>12, <1>13,
           <1>14, <1>15, Zenon DEF TypeOK

\* The variables are well-typed, and what a server takes for committed is what was chosen: the
\* trail of the server and the chosen commands are the same up to its commit index.
THEOREM CommittedAgrees ==
    LeadsOnce /\ Spec /\ []SendersLead /\ []DummyUnheard => []CommittedAgree
<1>1. SafeInv => CommittedAgree
  <2> SUFFICES ASSUME SafeInv
               PROVE  CommittedAgree
    OBVIOUS
  <2>1. TypeOK
    BY SoundTypeOK DEF SafeInv
  <2>2. ASSUME NEW i \in Server
        PROVE  /\ lastSnap[i] <= commitIndex[i] /\ commitIndex[i] <= Last(i)
               /\ IsPrefixOf(History(i, commitIndex[i]), chosen)
    <3>1. PICK c : c = commitIndex[i]
      OBVIOUS
    <3>2. /\ chosen \in Seq(Command) /\ c \in Nat /\ c <= Last(i) /\ c <= Len(chosen)
          /\ lastSnap[i] <= c /\ \A x \in 1..c : chosen[x] = <<Trail[i][x], x>>
      BY <3>1, ChosenIs
    <3>3. PICK h : h = History(i, c)
      OBVIOUS
    <3>4. h \in Seq(Command) /\ Len(h) = c /\ h = Numbering(Trail[i], c)
      BY <3>2, <3>3, HistoryIs DEF SafeInv, Sound
    <3>5. \A x \in 1..c : h[x] = chosen[x]
      BY <3>2, <3>4 DEF Numbering
    <3>6. IsPrefixOf(h, chosen)
      BY <3>2, <3>4, <3>5, PrefixFacts
    <3> QED BY <3>1, <3>2, <3>3, <3>6
  <2> QED BY <2>1, <2>2 DEF CommittedAgree
<1> QED BY <1>1, SafeInvariant, PTL

\* What a disk holds is the history of its server.
LEMMA DiskIs ==
    ASSUME Sound, NEW i \in Server
    PROVE  /\ saved[i].snapshot \o Commands(Tail(saved[i].log))
                 = snapshot[i] \o Commands(Tail(log[i]))
           /\ Len(snapshot[i] \o Commands(Tail(log[i]))) = Last(i)
<1>0. Stores /\ Durable
  BY DEF Sound
<1>1. /\ saved[i] \in Disks /\ saved[i].snapshot = snapshot[i]
      /\ log[i] = saved[i].log \/ log[i] = Wiped(saved[i].log)
  BY <1>0 DEF Durable
<1>2. PICK s, l, d : s = snapshot[i] /\ l = log[i] /\ d = saved[i].log
  OBVIOUS
<1>3. /\ s \in Seq(Command) /\ l \in Seq(Entry) /\ Len(l) >= 1 /\ Len(l) \in Nat /\ Len(s) \in Nat
      /\ Last(i) = Len(s) + Len(l) - 1
  BY <1>0, <1>2, ServerFacts
<1>4. d \in Seq(Entry) /\ (l = d \/ l = Wiped(d))
  BY <1>1, <1>2 DEF Disks
<1>5. Tail(l) = Tail(d) /\ Tail(l) \in Seq(Entry) /\ Len(Tail(l)) = Len(l) - 1
  <2>1. Tail(l) \in Seq(Entry) /\ Len(Tail(l)) = Len(l) - 1
    BY <1>3
  <2>2. CASE l = d
    BY <2>1, <2>2
  <2>3. CASE l = Wiped(d)
    <3>1. Len(l) = Len(d)
      BY <1>4, <2>3 DEF Wiped
    <3>2. Len(d) >= 1 /\ Len(d) \in Nat
      BY <1>3, <3>1
    <3>3. \A p \in 2..Len(d) : l[p] = d[p]
      BY <1>4, <2>3, <3>2, WipedFacts
    <3>4. Tail(d) \in Seq(Entry) /\ Len(Tail(d)) = Len(d) - 1
      BY <1>4, <3>2
    <3>5. ASSUME NEW x \in 1..Len(d) - 1 PROVE Tail(l)[x] = Tail(d)[x]
      <4>1. x + 1 \in 2..Len(d)
        BY <3>2
      <4>2. Tail(l)[x] = l[x + 1] /\ Tail(d)[x] = d[x + 1]
        BY <1>3, <1>4, <3>1, <3>2
      <4> QED BY <3>3, <4>1, <4>2
    <3> QED BY <2>1, <3>1, <3>4, <3>5, SeqEqual
  <2> QED BY <1>4, <2>2, <2>3
<1>6. PICK k : k = Tail(l)
  OBVIOUS
<1>7. Commands(k) \in Seq(Command) /\ Len(Commands(k)) = Len(k)
  <2>1. k \in Seq(Entry) /\ Len(k) \in Nat
    BY <1>5, <1>6
  <2>2. \A x \in 1..Len(k) : k[x] \in Entry
    BY <2>1, ElementOfSeq
  <2>3. \A x \in 1..Len(k) : k[x].cmd \in Command
    BY <2>2 DEF Entry
  <2> QED BY <2>1, <2>3 DEF Commands
<1>8. Len(s \o Commands(k)) = Len(s) + Len(k)
  BY <1>3, <1>7
<1>9. Len(s) + Len(k) = Last(i)
  BY <1>3, <1>5, <1>6
<1> QED BY <1>1, <1>2, <1>5, <1>6, <1>8, <1>9

\* The quorum that keeps what is committed has it on its disks.
THEOREM ChosenIsOnDisk ==
    Server # {} /\ LeadsOnce /\ Spec /\ []SendersLead /\ []DummyUnheard => []ChosenOnDisk
<1> SUFFICES ASSUME Server # {}
             PROVE  LeadsOnce /\ Spec /\ []SendersLead /\ []DummyUnheard => []ChosenOnDisk
  OBVIOUS
<1>1. SafeInv => ChosenOnDisk
  <2> SUFFICES ASSUME SafeInv
               PROVE  ChosenOnDisk
    OBVIOUS
  <2>0. Sound /\ Stores /\ LogInv /\ Types /\ ChosenFits /\ Remains
    BY DEF SafeInv, Sound, LogInv
  <2>1. PICK Q \in Quorums : \A j \in Q : Same(Terms(chosen), Trail[j], Len(chosen))
    <3>1. chosen \in Seq(Command) /\ Numbered(chosen)
      BY <2>0 DEF Remains, ChosenFits
    <3>2. Terms(chosen) \in Seq(Nat) /\ Len(Terms(chosen)) = Len(chosen) /\ Len(chosen) \in Nat
      BY <3>1, NumberedFacts
    <3>3. CASE Len(chosen) = 0
      <4>1. Server \in Quorums
        <5>1. Cardinality(Server) \in Nat /\ Cardinality(Server) # 0
          BY ServerAssumption, FS_CardinalityType, FS_EmptySet
        <5>2. Cardinality(Server) >= Majority
          BY <5>1 DEF Majority
        <5> QED BY <5>2 DEF Quorums
      <4>2. \A j \in Server : Len(Trail[j]) \in Nat
        BY <2>0, LogTypes
      <4>3. \A j \in Server : Same(Terms(chosen), Trail[j], Len(chosen))
        BY <3>2, <3>3, <4>2 DEF Same
      <4> QED BY <4>1, <4>3
    <3>4. CASE Len(chosen) # 0
      <4>1. PICK t \in Nat : Committed(Terms(chosen), Len(chosen), t)
        BY <2>0 DEF ChosenFits
      <4>2. PICK p \in Prefixes : Chosen(p) /\ Same(Terms(chosen), p, Len(chosen))
        BY <3>2, <3>4, <4>1 DEF Committed
      <4>3. p \in Seq(Nat) /\ Len(p) \in Nat
        BY <2>0, <4>2, PrefixTypes
      <4>4. PICK Q \in Quorums : Holds(Q, p, p[Len(p)])
        BY <4>2 DEF Chosen
      <4>5. ASSUME NEW j \in Q PROVE Same(Terms(chosen), Trail[j], Len(chosen))
        <5>1. Starts(p, Trail[j]) /\ j \in Server
          BY <4>4 DEF Holds, Quorums
        <5>2. Trail[j] \in Seq(Nat)
          BY <2>0, <5>1 DEF Types
        <5>3. Len(chosen) <= Len(p)
          BY <4>2 DEF Same
        <5>4. Same(p, Trail[j], Len(chosen))
          BY <3>2, <4>3, <5>1, <5>2, <5>3, SameFacts DEF Starts
        <5> QED BY <3>2, <4>2, <4>3, <5>2, <5>4, SameFacts
      <4> QED BY <4>4, <4>5
    <3> QED BY <3>3, <3>4
  <2>2. ASSUME NEW i \in Server, Same(Terms(chosen), Trail[i], Len(chosen))
        PROVE  IsPrefixOf(chosen, saved[i].snapshot \o Commands(Tail(saved[i].log)))
    <3>1. PICK D : D = snapshot[i] \o Commands(Tail(log[i]))
      OBVIOUS
    <3>2. saved[i].snapshot \o Commands(Tail(saved[i].log)) = D /\ Len(D) = Last(i)
      BY <2>0, <3>1, DiskIs
    <3>3. PICK n \in Nat : n = Len(chosen)
      BY <2>0 DEF Remains
    <3>4. /\ chosen = Numbering(Terms(chosen), n) /\ Terms(chosen) \in Seq(Nat)
          /\ Len(Terms(chosen)) = n
      BY <2>0, <3>3, NumberedFacts DEF Remains, ChosenFits
    <3>5. n <= Last(i) /\ Trail[i] \in Seq(Nat) /\ Len(Trail[i]) = Last(i)
      <4>1. Trail[i] \in Seq(Nat) /\ Len(Trail[i]) = Last(i)
        BY <2>0, ServerFacts
      <4> QED BY <2>2, <3>3, <4>1 DEF Same
    <3>6. SubSeq(D, 1, n) = Numbering(Trail[i], n)
      BY <2>0, <3>1, <3>5, HistoryIs DEF History
    <3>7. Numbering(Terms(chosen), n) = Numbering(Trail[i], n)
      <4>1. Same(Terms(chosen), Trail[i], n) /\ n <= Len(Terms(chosen)) /\ n <= Len(Trail[i])
        BY <2>2, <3>3, <3>4, <3>5
      <4> QED BY <3>4, <3>5, <4>1, NumberingSame
    <3>8. chosen = SubSeq(D, 1, Len(chosen)) /\ Len(chosen) <= Len(D)
      BY <3>2, <3>3, <3>4, <3>5, <3>6, <3>7
    <3> QED BY <3>2, <3>8 DEF IsPrefixOf
  <2>3. PICK H : H = {i \in Server : IsPrefixOf(chosen, saved[i].snapshot
                                                          \o Commands(Tail(saved[i].log)))}
    OBVIOUS
  <2>4. Q \subseteq H /\ H \subseteq Server /\ Q \subseteq Server
    BY <2>1, <2>2, <2>3 DEF Quorums
  <2>5. /\ IsFiniteSet(H) /\ Cardinality(Q) <= Cardinality(H) /\ Cardinality(Q) \in Nat
        /\ Cardinality(H) \in Nat
    <3>1. IsFiniteSet(H)
      BY <2>4, ServerAssumption, FS_Subset
    <3>2. IsFiniteSet(Q) /\ Cardinality(Q) <= Cardinality(H)
      BY <2>4, <3>1, FS_Subset
    <3>3. Cardinality(Q) \in Nat /\ Cardinality(H) \in Nat
      BY <3>1, <3>2, FS_CardinalityType
    <3> QED BY <3>1, <3>2, <3>3
  <2>6. Cardinality(H) >= Majority
    <3>1. Cardinality(Q) >= Majority
      BY DEF Quorums
    <3>2. Majority \in Nat
      <4>1. Cardinality(Server) \in Nat
        BY ServerAssumption, FS_CardinalityType
      <4> QED BY <4>1 DEF Majority
    <3> QED BY <2>5, <3>1, <3>2
  <2> QED BY <2>3, <2>6, Zenon DEF ChosenOnDisk
<1> QED BY <1>1, SafeInvariant, PTL

-----------------------------------------------------------------------------
(* The promise of AgreedLog. *)

\* A step that a service sees leaves the chosen commands alone.
ServiceStep ==
    \/ UNCHANGED logs
    \/ chosen' = chosen /\ \E i \in Server : \E s : logs' = [logs EXCEPT ![i] = s]

LEMMA DieServes ==
    ASSUME NEW why, Die(why)
    PROVE  UNCHANGED logs
BY DEF Die, service

LEMMA ServiceSteps ==
    ASSUME [Next]_vars
    PROVE  ServiceStep
<1>0. \A i : i \in Live => i \in Server
  BY Zenon DEF Live
<1>1. CASE UNCHANGED vars
  BY <1>1 DEF vars, service, ServiceStep
<1>2. ASSUME NEW i \in Server,
             \/ InitLeader(i) \/ Start(i) \/ SetApplied(i) \/ Snapshot(i)
             \/ \E j \in Server : Spawn(i, j)
      PROVE  UNCHANGED logs
  BY <1>2 DEF InitLeader, Start, SetApplied, Snapshot, Spawn, service
<1>3. ASSUME NEW i \in Server, NEW Q,
             Elected(i, Q) \/ Undecided(i, Q) \/ \E j \in Q : Deposed(i, Q, j)
      PROVE  UNCHANGED logs
  <2>1. \E t, vote, s : Round(i, Q, t, vote, s)
    BY <1>3, Zenon DEF Elected, Undecided, Deposed
  <2> QED BY <2>1, RoundLeaves DEF service
<1>4. ASSUME NEW i \in Server, Restart(i)
      PROVE  ServiceStep
  <2>1. chosen' = chosen /\ logs' = [logs EXCEPT ![i] = saved[i].snapshot]
    BY <1>4, Zenon DEF Restart, ghost
  <2> QED BY <2>1 DEF ServiceStep
<1>5. ASSUME NEW i \in Server, NEW s, DeliverSnapshot(i, s)
      PROVE  ServiceStep
  <2>1. chosen' = chosen /\ logs' = [logs EXCEPT ![i] = s]
    BY <1>5, Zenon DEF DeliverSnapshot, ghost
  <2> QED BY <2>1 DEF ServiceStep
<1>6. ASSUME NEW i \in Server, Fetch(i)
      PROVE  UNCHANGED logs
  BY <1>6, DieServes, Zenon DEF Fetch, service
<1>7. ASSUME NEW i \in Server, Deliver(i)
      PROVE  ServiceStep
  <2>1. \/ \E why : Die(why)
        \/ chosen' = chosen /\ \E cmd : logs' = [logs EXCEPT ![i] = Append(@, cmd)]
    BY <1>7, Zenon DEF Deliver, ghost
  <2>2. CASE \E why : Die(why)
    BY <2>2, DieServes DEF ServiceStep
  <2>3. ASSUME NEW cmd, chosen' = chosen, logs' = [logs EXCEPT ![i] = Append(logs[i], cmd)]
        PROVE  ServiceStep
    BY <2>3 DEF ServiceStep
  <2> QED BY <2>1, <2>2, <2>3
<1>8. ASSUME NEW i \in Server, NEW N, Commit(i, N)
      PROVE  UNCHANGED logs
  BY <1>8, Zenon DEF Commit, service
<1>9. ASSUME NEW i \in Server, NEW j \in Server, Send(i, j)
      PROVE  UNCHANGED logs
  BY <1>9, Zenon DEF Send, service
<1>10. ASSUME NEW g, SendLate(g)
       PROVE  UNCHANGED logs
  BY <1>10, Zenon DEF SendLate, service
<1>11. ASSUME NEW m,
              \/ ReceiveReply(m.dest, m) \/ Lose(m)
              \/ RefuseAppend(m.dest, m) \/ BelowSnapshot(m.dest, m)
              \/ MismatchAppend(m.dest, m) \/ AcceptAppend(m.dest, m)
              \/ SkipSnapshot(m.dest, m) \/ InstallSnapshot(m.dest, m)
       PROVE  UNCHANGED logs
  <2>1. CASE ReceiveReply(m.dest, m) \/ Lose(m)
    BY <2>1, Zenon DEF ReceiveReply, Lose, service
  <2>2. CASE RefuseAppend(m.dest, m) \/ MismatchAppend(m.dest, m) \/ AcceptAppend(m.dest, m)
    BY <2>2, Zenon DEF RefuseAppend, MismatchAppend, AcceptAppend, service
  <2>3. CASE SkipSnapshot(m.dest, m) \/ InstallSnapshot(m.dest, m)
    BY <2>3, Zenon DEF SkipSnapshot, InstallSnapshot, service
  <2>4. CASE BelowSnapshot(m.dest, m)
    BY <2>4, DieServes, Zenon DEF BelowSnapshot
  <2> QED BY <1>11, <2>1, <2>2, <2>3, <2>4, Zenon
<1>12. UNCHANGED logs => ServiceStep
  BY DEF ServiceStep
<1>13. Next \/ UNCHANGED vars
  OBVIOUS
<1>14. CASE Next
  BY <1>0, <1>2, <1>3, <1>4, <1>5, <1>6, <1>7, <1>8, <1>9, <1>10, <1>11, <1>12, <1>14, ZenonT(90)
     DEF Next
<1> QED BY <1>1, <1>13, <1>14

\* What commits add comes behind what was chosen.
LEMMA ChosenGrows ==
    ASSUME SafeInv, ChosenStep
    PROVE  IsPrefixOf(chosen, chosen')
<1>1. LogInv /\ ChosenFits /\ chosen \in Seq(Command)
  BY DEF SafeInv, Sound, Remains
<1>2. PICK c \in Seq(Command), t \in Nat :
         /\ chosen' = c /\ Numbered(c) /\ Len(chosen) <= Len(c) /\ Committed(Terms(c), Len(c), t)
  BY DEF ChosenStep
<1>3. Numbered(chosen) /\ \E u \in Nat : Committed(Terms(chosen), Len(chosen), u)
  BY <1>1 DEF ChosenFits
<1>4. /\ Terms(chosen) \in Seq(Nat) /\ Len(Terms(chosen)) = Len(chosen) /\ Len(chosen) \in Nat
      /\ Terms(c) \in Seq(Nat) /\ Len(Terms(c)) = Len(c) /\ Len(c) \in Nat
  <2>1. /\ Terms(chosen) \in Seq(Nat) /\ Len(Terms(chosen)) = Len(chosen) /\ Len(chosen) \in Nat
    BY <1>1, <1>3, NumberedFacts
  <2>2. Terms(c) \in Seq(Nat) /\ Len(Terms(c)) = Len(c) /\ Len(c) \in Nat
    BY <1>2, NumberedFacts
  <2> QED BY <2>1, <2>2
<1>5. Same(Terms(chosen), Terms(c), Len(chosen))
  <2>1. PICK l \in Seq(Nat), k \in Seq(Nat), m \in Nat, n \in Nat, u \in Nat :
           /\ l = Terms(chosen) /\ k = Terms(c) /\ m = Len(chosen) /\ n = Len(c)
           /\ Committed(l, m, u)
    BY <1>3, <1>4
  <2>2. m <= n /\ n <= Len(k) /\ Committed(k, n, t)
    BY <1>2, <1>4, <2>1
  <2>3. Same(l, k, m)
    BY <1>1, <2>1, <2>2, CommittedSame
  <2> QED BY <2>1, <2>3
<1>6. Starts(Terms(chosen), Terms(c))
  BY <1>4, <1>5 DEF Starts
<1>7. IsPrefixOf(chosen, c)
  BY <1>1, <1>2, <1>3, <1>6, PrefixIs
<1> QED BY <1>2, <1>7

\* The servers keep the promise of AgreedLog, step by step: a commit agrees on more, a command,
\* a snapshot or a restart shows a service a beginning of it, and the other steps stutter.
THEOREM PromiseIsKept ==
    LeadsOnce /\ Spec /\ []SendersLead /\ []DummyUnheard => KeepsPromise
<1>1. Init => Promise!Init
  <2> SUFFICES ASSUME Init PROVE Promise!Init
    OBVIOUS
  <2>1. chosen = <<>> /\ logs = [i \in Server |-> <<>>]
    BY InitIs, Zenon
  <2> QED BY <2>1 DEF Promise!Init
<1>2. /\ LeadsOnce /\ SafeInv /\ SafeInv' /\ SendersLead /\ DummyUnheard' /\ [Next]_vars
      => [Promise!Next]_<<chosen, logs>>
  <2> SUFFICES ASSUME LeadsOnce, SafeInv, SafeInv', SendersLead, DummyUnheard', [Next]_vars
               PROVE  Promise!Next \/ UNCHANGED <<chosen, logs>>
    OBVIOUS
  <2>1. ChosenStep /\ ServiceStep
    BY NextFits, ServiceSteps
  <2>2. IsPrefixOf(chosen, chosen')
    BY <2>1, ChosenGrows
  <2>3. CASE UNCHANGED logs /\ chosen' # chosen
    <3>1. Promise!Agree
      BY <2>2, <2>3 DEF Promise!Agree, Promise!IsPrefixOf, IsPrefixOf
    <3> QED BY <3>1 DEF Promise!Next
  <2>4. ASSUME chosen' = chosen, NEW i \in Server, NEW s, logs' = [logs EXCEPT ![i] = s]
        PROVE  Promise!Next
    <3>1. logs'[i] = s
      BY <2>4 DEF SafeInv, Sound, Serves
    <3>2. IsPrefixOf(logs'[i], chosen')
      BY DEF SafeInv, ServiceFits
    <3>3. IsPrefixOf(logs'[i], chosen)
      BY <2>4, <3>2
    <3>4. logs' = [logs EXCEPT ![i] = logs'[i]]
      BY <2>4, <3>1
    <3>5. Promise!Show(i)
      BY <2>4, <3>3, <3>4 DEF Promise!Show, Promise!IsPrefixOf, IsPrefixOf
    <3> QED BY <3>5 DEF Promise!Next
  <2> QED BY <2>1, <2>3, <2>4 DEF ServiceStep
<1>3. LeadsOnce => LeadsOnce'
  BY DEF LeadsOnce
<1> QED BY <1>1, <1>2, <1>3, SafeInvariant, PTL DEF Spec, KeepsPromise, Promise!Spec

\* Only Spawn leaves a sender goroutine waiting.
LEMMA SenderSteps ==
    ASSUME [Next]_vars
    PROVE  /\ bound' = bound
           /\ senders' \subseteq senders \/ \E i \in Server, j \in Server : Spawn(i, j)
<1>0. \A i : i \in Live => i \in Server
  BY Zenon DEF Live
<1>1. CASE UNCHANGED vars
  BY <1>1 DEF vars, net, ghost
<1>2. ASSUME NEW why, Die(why)
      PROVE  bound' = bound /\ senders' = senders
  BY <1>2 DEF Die, net
<1>3. ASSUME NEW i, InitLeader(i) \/ Start(i) \/ SetApplied(i) \/ Snapshot(i)
      PROVE  bound' = bound /\ senders' = senders
  BY <1>3 DEF InitLeader, Start, SetApplied, Snapshot, net, ghost
<1>4. ASSUME NEW i, NEW Q, Elected(i, Q) \/ Undecided(i, Q) \/ \E j \in Q : Deposed(i, Q, j)
      PROVE  bound' = bound /\ senders' = senders
  <2>1. \E t, vote, s : Round(i, Q, t, vote, s)
    BY <1>4, Zenon DEF Elected, Undecided, Deposed
  <2> QED BY <2>1, RoundLeaves DEF net, ghost
<1>5. ASSUME NEW i, Restart(i)
      PROVE  bound' = bound /\ senders' \subseteq senders
  <2>1. bound' = bound /\ senders' = {g \in senders : g[1] # i}
    BY <1>5, Zenon DEF Restart, ghost
  <2> QED BY <2>1
<1>6. ASSUME NEW i, Fetch(i) \/ Deliver(i) \/ \E s : DeliverSnapshot(i, s)
      PROVE  bound' = bound /\ senders' = senders
  BY <1>2, <1>6, Zenon DEF Fetch, Deliver, DeliverSnapshot, net, ghost
<1>7. ASSUME NEW i, NEW N, Commit(i, N)
      PROVE  bound' = bound /\ senders' = senders
  BY <1>7, Zenon DEF Commit, net
<1>8. ASSUME NEW i, NEW j, Send(i, j)
      PROVE  bound' = bound /\ senders' = senders
  BY <1>8, Zenon DEF Send
<1>9. ASSUME NEW i, NEW j, Spawn(i, j)
      PROVE  bound' = bound
  BY <1>9, Zenon DEF Spawn, ghost
<1>10. ASSUME NEW g, SendLate(g)
       PROVE  bound' = bound /\ senders' \subseteq senders
  <2>1. bound' = bound /\ senders' = senders \ {g}
    BY <1>10, Zenon DEF SendLate
  <2> QED BY <2>1
<1>11. ASSUME NEW m,
              \/ ReceiveReply(m.dest, m) \/ Lose(m)
              \/ RefuseAppend(m.dest, m) \/ BelowSnapshot(m.dest, m)
              \/ MismatchAppend(m.dest, m) \/ AcceptAppend(m.dest, m)
              \/ SkipSnapshot(m.dest, m) \/ InstallSnapshot(m.dest, m)
       PROVE  bound' = bound /\ senders' = senders
  <2>1. CASE ReceiveReply(m.dest, m) \/ Lose(m)
    BY <2>1, Zenon DEF ReceiveReply, Lose, ghost
  <2>2. CASE RefuseAppend(m.dest, m) \/ MismatchAppend(m.dest, m) \/ AcceptAppend(m.dest, m)
    BY <2>2, Zenon DEF RefuseAppend, MismatchAppend, AcceptAppend, ghost
  <2>3. CASE SkipSnapshot(m.dest, m) \/ InstallSnapshot(m.dest, m)
    BY <2>3, Zenon DEF SkipSnapshot, InstallSnapshot, ghost
  <2>4. CASE BelowSnapshot(m.dest, m)
    BY <1>2, <2>4, Zenon DEF BelowSnapshot
  <2> QED BY <1>11, <2>1, <2>2, <2>3, <2>4, Zenon
<1>12. \A S, T : S = T => S \subseteq T
  OBVIOUS
<1>13. Next \/ UNCHANGED vars
  OBVIOUS
<1>14. CASE Next
  BY <1>0, <1>3, <1>4, <1>5, <1>6, <1>7, <1>8, <1>9, <1>10, <1>11, <1>12, <1>14, ZenonT(90)
     DEF Next
<1> QED BY <1>1, <1>13, <1>14

\* Where no sender goroutine is kept from the lock, none comes to it late: what the theorems
\* above assume of the senders holds.
THEOREM NoSenderLate ==
    (\A x \in Bounds : x.late = 0) /\ Spec => []SendersLead
<1> SUFFICES ASSUME \A x \in Bounds : x.late = 0
             PROVE  Spec => []SendersLead
  OBVIOUS
<1> DEFINE Inv == senders = {} /\ bound \in Bounds
<1>1. Init => Inv
  BY InitIs, Zenon
<1>2. Inv /\ [Next]_vars => Inv'
  <2> SUFFICES ASSUME senders = {}, bound \in Bounds, [Next]_vars
               PROVE  senders' = {} /\ bound' \in Bounds
    OBVIOUS
  <2>1. ~ \E i \in Server, j \in Server : Spawn(i, j)
    <3>1. bound.late = 0
      OBVIOUS
    <3>2. Cardinality(senders) = 0
      BY FS_EmptySet
    <3>3. \A i, j : Spawn(i, j) => Cardinality(senders) < bound.late
      BY Zenon DEF Spawn
    <3> QED BY <3>1, <3>2, <3>3
  <2> QED BY <2>1, SenderSteps
<1>3. Inv => SendersLead
  BY DEF SendersLead
<1> QED BY <1>1, <1>2, <1>3, PTL DEF Spec

=============================================================================
