---------------------------- MODULE RaftLogProofs ----------------------------
(***************************************************************************)
(* Proofs about RaftLog, for any number of servers and every bound.        *)
(*                                                                         *)
(* LogInv holds of every behaviour, and with it LogMatching.  What is said *)
(* of commitment needs the calls of a leader to be answered to the same    *)
(* leadership, which the code ensures as long as no incarnation of a       *)
(* server leads twice (LeadsOnce).                                         *)
(***************************************************************************)
EXTENDS RaftLog, FiniteSetTheorems, SequenceTheorems, TLAPS

Quorums == {Q \in SUBSET Server : Cardinality(Q) >= Majority}
Requests == {m \in msgs : m.type = "AppendEntries"}
Replies == {m \in msgs : m.type = "AppendReply"}

\* Every log there is: the servers' and those that requests were cut from.
Logs == {log[i] : i \in Server} \cup {m.full : m \in Requests}

Same(l, k, n) == n <= Len(l) /\ n <= Len(k) /\ \A x \in 1..n : l[x] = k[x]
Starts(l, k) == Same(l, k, Len(l))

\* None of the entries e that follow index p in a request is missing from l or conflicts.
Has(l, p, e) == \A k \in 1..Len(e) : p + k <= Len(l) /\ l[p + k] = e[k]

\* Server i has won term t, or at least nobody else can.
Won(i, t) ==
    /\ t <= term[i]
    /\ \E Q \in Quorums : \A j \in Q : t < term[j] \/ (t = term[j] /\ votedFor[j] = i)

Leads(i) == state[i] = "Leader"

-----------------------------------------------------------------------------
(* The invariant of elections and logs. *)

\* A hint of a refusal is an index of the log, or one past it.
HintFits(m) ==
    /\ m.length >= 1
    /\ ~m.success => \/ m.xlen >= 1
                     \/ m.xlen = -1 /\ (m.xterm = -1 \/ m.xindex >= 1)

Types ==
    /\ term \in [Server -> Nat]
    /\ votedFor \in [Server -> Server \cup {NoOne}]
    /\ log \in [Server -> Seq(Nat)]
    /\ state \in [Server -> {"Follower", "Candidate", "Leader"}]
    /\ starting \in [Server -> BOOLEAN]
    /\ commitIndex \in [Server -> Nat]
    /\ lastApplied \in [Server -> Nat]
    /\ nextIndex \in [Server -> [Server -> Nat \ {0}]]
    /\ matchIndex \in Indices
    /\ boot \in [Server -> Nat]
    /\ msgs \subseteq Message
    /\ leads \in [Server -> Nat]
    /\ bound \in Bounds

\* What a crash leaves a server is what it has.
Durable ==
    saved = [i \in Server |-> [term |-> term[i], votedFor |-> votedFor[i], log |-> log[i]]]

LeadersFit ==
    /\ \A i \in Server : Leads(i) => Won(i, term[i]) /\ term[i] > 0
    /\ \A i, j \in Server : Leads(i) /\ Leads(j) /\ term[i] = term[j] => i = j

\* Entries are of terms that were won, in order, and one entry's log is the log of all that
\* are behind it.
Agree(l, k) ==
    \A x \in 1..Len(l), y \in 1..Len(k) : x <= y /\ l[x] = k[y] => Same(l, k, x)

LogsFit ==
    /\ \A l \in Logs : \A x \in 1..Len(l) : l[x] > 0 /\ \E i \in Server : Won(i, l[x])
    /\ \A l \in Logs : \A x, y \in 1..Len(l) : x <= y => l[x] <= l[y]
    /\ \A l, k \in Logs : Agree(l, k)
    /\ \A i \in Server : \A x \in 1..Len(log[i]) : log[i][x] <= term[i]

\* A leader's log has every entry of its term.
LeaderHasAll ==
    \A i \in Server : Leads(i) =>
        \A l \in Logs : \A x \in 1..Len(l) : l[x] = term[i] => Same(l, log[i], x)

\* A request is cut from a log of its term's leader.
RequestFits(m) ==
    /\ m.src # m.dest
    /\ m.prev <= Len(m.full) /\ m.prevTerm = Entry(m.full, m.prev)
    /\ m.entries = SubSeq(m.full, m.prev + 1, Len(m.full))
    /\ \A x \in 1..Len(m.full) : m.full[x] <= m.term
    /\ m.term > 0 /\ Won(m.src, m.term)
    /\ \A l \in Logs : \A x \in 1..Len(l) :
          l[x] = m.term => Same(l, m.full, Lesser(x, Len(m.full)))
    /\ \A i \in Server : Leads(i) /\ term[i] = m.term => i = m.src /\ Starts(m.full, log[i])

LogInv ==
    /\ Types /\ Durable /\ LeadersFit /\ LogsFit /\ LeaderHasAll
    /\ \A m \in Requests : RequestFits(m)
    /\ \A m \in Replies : HintFits(m)

-----------------------------------------------------------------------------
(* The invariant of commitment. *)

LeadsOnce == \A x \in Bounds : x.leads <= 1

\* An incarnation leads once, and its calls are of that leadership.
LeadershipFits ==
    /\ \A i \in Server : /\ leads[i] <= 1
                         /\ Leads(i) => leads[i] = 1
                         /\ \A j \in Server : matchIndex[i][j] > 0 => leads[i] = 1
    /\ \A m \in Requests :
          /\ m.boot <= boot[m.src]
          /\ m.boot = boot[m.src] =>
                leads[m.src] = 1 /\ (Leads(m.src) => m.term = term[m.src])
    /\ \A m \in Replies : leads[m.dest] = 1

\* Server j has told i that it holds the first n entries, or is about to.
Ack(i, j, n) ==
    \/ n <= matchIndex[i][j]
    \/ \E m \in Replies : m.dest = i /\ m.src = j /\ m.success /\ n < m.length

\* What a leader is told is true as long as the other has not gone on to a later term.
AcksFit ==
    \A i, j \in Server : \A n \in Nat \ {0} :
        Leads(i) /\ Ack(i, j, n) =>
            /\ i # j /\ n <= Len(log[i]) /\ term[i] <= term[j]
            /\ term[i] = term[j] => Same(log[j], log[i], n)

\* Everything of a later term than t begins with p.
Spread(p, t) ==
    /\ \A l \in Logs : (\E x \in 1..Len(l) : t < l[x]) => Starts(p, l)
    /\ \A i \in Server : Leads(i) /\ t < term[i] => Starts(p, log[i])
    /\ \A m \in Requests : t < m.term => Starts(p, m.full)

Holds(S, p, t) == \A j \in S : t <= term[j] /\ Starts(p, log[j])

\* Servers in Q, a majority, will never hold the first n entries of leader i.
Lost(i, n) ==
    \E Q \in Quorums : \A j \in Q : j # i /\ term[i] < term[j] /\ ~Ack(i, j, n)

Told(i, n) == {i} \cup {j \in Server : Ack(i, j, n)}
Upto(l, n) == SubSeq(l, 1, n)

\* Either an entry of a leader can no longer be committed, or whoever holds it keeps it and
\* later leaders have it.
FateFits ==
    \A i \in Server : Leads(i) =>
        \A n \in 1..Len(log[i]) : log[i][n] = term[i] =>
            \/ Lost(i, n)
            \/ /\ Spread(Upto(log[i], n), term[i])
               /\ Holds(Told(i, n), Upto(log[i], n), term[i])

\* What a log may begin with.
Prefixes == UNION {{Upto(log[j], n) : n \in 1..Len(log[j])} : j \in Server}

\* A majority holds p and keeps it, and every later leader has it: p is committed.
Chosen(p) ==
    /\ Spread(p, p[Len(p)])
    /\ \E Q \in Quorums : Holds(Q, p, p[Len(p)])

\* The first c entries of l are committed, by term t.
Committed(l, c, t) ==
    c > 0 => \E p \in Prefixes : Chosen(p) /\ p[Len(p)] <= t /\ Same(l, p, c)

CommitFits ==
    /\ \A i \in Server : Committed(log[i], commitIndex[i], term[i])
    /\ \A m \in Requests : Committed(m.full, m.commit, m.term)
    /\ applied \subseteq Nat \X Nat
    /\ \A a \in applied :
          \E p \in Prefixes : Chosen(p) /\ a[1] \in 1..Len(p) /\ a[2] = p[a[1]]

NextFits ==
    \A i, j \in Server : Looping(i) => nextIndex[i][j] <= Len(log[i]) + 1

SafeInv == LogInv /\ LeadershipFits /\ AcksFit /\ FateFits /\ CommitFits /\ NextFits

-----------------------------------------------------------------------------
(* Logs. *)

LEMMA SameFacts ==
    ASSUME NEW l \in Seq(Nat), NEW k \in Seq(Nat), NEW n \in Nat
    PROVE  /\ Same(l, k, n) => Same(k, l, n)
           /\ \A x \in Nat : x <= n /\ Same(l, k, n) => Same(l, k, x)
           /\ \A h \in Seq(Nat) : Same(l, k, n) /\ Same(k, h, n) => Same(l, h, n)
           /\ n <= Len(l) => Same(l, l, n)
<1>1. Len(l) \in Nat /\ Len(k) \in Nat
  OBVIOUS
<1>2. ASSUME NEW x \in Nat, x <= n, Same(l, k, n)
      PROVE  Same(l, k, x)
  BY <1>1, <1>2 DEF Same
<1>3. ASSUME NEW h \in Seq(Nat), Same(l, k, n), Same(k, h, n)
      PROVE  Same(l, h, n)
  BY <1>3 DEF Same
<1> QED BY <1>1, <1>2, <1>3 DEF Same

\* The first n entries of a log.
LEMMA UptoFacts ==
    ASSUME NEW l \in Seq(Nat), NEW n \in Nat, n <= Len(l)
    PROVE  /\ Upto(l, n) \in Seq(Nat)
           /\ Len(Upto(l, n)) = n
           /\ \A x \in 1..n : Upto(l, n)[x] = l[x]
<1>1. \A x \in 1..n : l[x] \in Nat
  BY ElementOfSeq
<1>2. /\ SubSeq(l, 1, n) \in Seq(Nat)
      /\ Len(SubSeq(l, 1, n)) = IF 1 <= n THEN n - 1 + 1 ELSE 0
      /\ \A x \in 1..n - 1 + 1 : SubSeq(l, 1, n)[x] = l[1 + x - 1]
  BY SMTT(40), <1>1, SubSeqProperties, 1 \in Int, n \in Int
<1> QED BY <1>2 DEF Upto

\* The entries of a log from n on.
LEMMA FromFacts ==
    ASSUME NEW l \in Seq(Nat), NEW n \in Nat, n <= Len(l)
    PROVE  /\ SubSeq(l, n + 1, Len(l)) \in Seq(Nat)
           /\ Len(SubSeq(l, n + 1, Len(l))) = Len(l) - n
           /\ \A x \in 1..Len(l) - n : SubSeq(l, n + 1, Len(l))[x] = l[n + x]
<1>0. Len(l) \in Nat
  OBVIOUS
<1>1. \A x \in n + 1..Len(l) : l[x] \in Nat
  BY <1>0, ElementOfSeq
<1>2. /\ SubSeq(l, n + 1, Len(l)) \in Seq(Nat)
      /\ Len(SubSeq(l, n + 1, Len(l))) = IF n + 1 <= Len(l) THEN Len(l) - (n + 1) + 1 ELSE 0
      /\ \A x \in 1..Len(l) - (n + 1) + 1 :
            SubSeq(l, n + 1, Len(l))[x] = l[n + 1 + x - 1]
  BY SMTT(40), <1>0, <1>1, SubSeqProperties, n + 1 \in Int, Len(l) \in Int
<1> QED BY <1>0, <1>2

\* A log and one entry more.
LEMMA AppendFacts ==
    ASSUME NEW l \in Seq(Nat), NEW e \in Nat
    PROVE  /\ Append(l, e) \in Seq(Nat)
           /\ Len(Append(l, e)) = Len(l) + 1
           /\ Append(l, e)[Len(l) + 1] = e
           /\ Same(l, Append(l, e), Len(l))
<1>1. /\ Append(l, e) \in Seq(Nat) /\ Len(Append(l, e)) = Len(l) + 1
      /\ Append(l, e)[Len(l) + 1] = e
      /\ \A x \in 1..Len(l) : Append(l, e)[x] = l[x]
  BY AppendProperties
<1> QED BY <1>1 DEF Same

\* A log that matches a request that was cut from another one has, after the loop over the
\* entries, all of that other one: it had it before, or it is replaced by it.
LEMMA MergedIs ==
    ASSUME NEW l \in Seq(Nat), NEW m, m.full \in Seq(Nat), m.prev \in Nat,
           m.prev <= Len(m.full), m.entries = SubSeq(m.full, m.prev + 1, Len(m.full)),
           Same(l, m.full, m.prev)
    PROVE  /\ Starts(m.full, l) => Merged(l, m) = l
           /\ ~Starts(m.full, l) => Merged(l, m) = m.full
           /\ m.prev + Len(m.entries) = Len(m.full)
<1>0. PICK f \in Seq(Nat), p \in Nat, e \in Seq(Nat) : f = m.full /\ p = m.prev /\ e = m.entries
  BY FromFacts, Zenon
<1>i. p \in Nat /\ p <= Len(f) /\ e = SubSeq(f, p + 1, Len(f)) /\ Same(l, f, p)
  BY <1>0, Zenon
<1>1. /\ e \in Seq(Nat) /\ Len(e) = Len(f) - p /\ Len(f) \in Nat /\ Len(l) \in Nat
      /\ \A x \in 1..Len(f) - p : e[x] = f[p + x]
  <2>1. f \in Seq(Nat) /\ p \in Nat /\ p <= Len(f) /\ e = SubSeq(f, p + 1, Len(f))
    BY <1>i
  <2>2. /\ SubSeq(f, p + 1, Len(f)) \in Seq(Nat)
        /\ Len(SubSeq(f, p + 1, Len(f))) = Len(f) - p
        /\ \A x \in 1..Len(f) - p : SubSeq(f, p + 1, Len(f))[x] = f[p + x]
    BY <2>1, FromFacts
  <2>3. Len(f) \in Nat /\ Len(l) \in Nat
    OBVIOUS
  <2> QED BY <2>1, <2>2, <2>3, Zenon
<1>s. p <= Len(l) /\ \A x \in 1..p : l[x] = f[x]
  BY <1>i DEF Same
<1>2. ASSUME \A k \in 1..Len(e) : p + k <= Len(l) /\ l[p + k] = e[k]
      PROVE  Starts(f, l)
  <2>1. Len(f) <= Len(l)
    <3>1. CASE Len(f) = p
      BY <1>1, <1>s, <3>1
    <3>2. CASE Len(f) > p
      <4>1. PICK y : y = Len(f) - p
        OBVIOUS
      <4>2. y \in 1..Len(e) /\ p + y = Len(f)
        BY <1>1, <3>2, <4>1
      <4> QED BY <1>2, <4>2
    <3>3. Len(f) \in Nat /\ p \in Nat /\ p <= Len(f)
      BY <1>1, <1>i
    <3> QED BY <3>1, <3>2, <3>3
  <2>2. ASSUME NEW x \in 1..Len(f)
        PROVE  f[x] = l[x]
    <3>1. CASE x <= p
      BY SMTT(60), <1>s, <3>1
    <3>2. CASE x > p
      <4>1. PICK y \in Nat : y = x - p
        BY <3>2
      <4>2. y \in 1..Len(e) /\ y \in 1..Len(f) - p /\ p + y = x
        BY <1>1, <3>2, <4>1
      <4>3. l[p + y] = e[y] /\ e[y] = f[p + y]
        BY <1>1, <1>2, <4>2
      <4> QED BY <4>2, <4>3
    <3> QED BY <3>1, <3>2
  <2> QED BY <1>1, <2>1, <2>2 DEF Starts, Same
<1>3. ASSUME Starts(f, l), NEW k \in 1..Len(e)
      PROVE  p + k <= Len(l) /\ l[p + k] = e[k]
  <2>1. p + k \in 1..Len(f) /\ k \in 1..Len(f) - p
    BY <1>1
  <2>2. e[k] = f[p + k]
    BY <1>1, <2>1
  <2>3. PICK z : z = p + k
    OBVIOUS
  <2>4. z \in 1..Len(f) /\ e[k] = f[z]
    BY <2>1, <2>2, <2>3
  <2>5. z <= Len(l) /\ f[z] = l[z]
    <3>1. Len(f) <= Len(l) /\ \A x \in 1..Len(f) : f[x] = l[x]
      BY <1>3 DEF Starts, Same
    <3>2. Len(f) \in Nat /\ Len(l) \in Nat
      BY <1>1
    <3> QED BY <2>4, <3>1, <3>2
  <2> QED BY <2>3, <2>4, <2>5
<1>4. PICK u : u = SubSeq(l, 1, p)
  OBVIOUS
<1>5. /\ u \in Seq(Nat) /\ Len(u) = p
      /\ \A x \in 1..p : u[x] = l[x]
  BY <1>s, <1>4, UptoFacts DEF Upto
<1>6. PICK c : c = u \o e
  OBVIOUS
<1>7. /\ c \in Seq(Nat) /\ Len(c) = Len(u) + Len(e)
      /\ \A x \in 1..Len(u) + Len(e) : c[x] = IF x <= Len(u) THEN u[x] ELSE e[x - Len(u)]
  <2>0. u \in Seq(Nat) /\ e \in Seq(Nat)
    BY <1>1, <1>5
  <2>1. /\ u \o e \in Seq(Nat) /\ Len(u \o e) = Len(u) + Len(e)
        /\ \A x \in 1..Len(u) + Len(e) :
              (u \o e)[x] = IF x <= Len(u) THEN u[x] ELSE e[x - Len(u)]
    BY <2>0, ConcatProperties
  <2> QED BY <1>6, <2>1, Zenon
<1>8. Len(u) + Len(e) = Len(f) /\ Len(c) = Len(f) /\ Len(u) = p
  BY <1>1, <1>5, <1>7
<1>9. ASSUME NEW x \in 1..Len(f)
      PROVE  c[x] = f[x]
  <2>1. c[x] = IF x <= p THEN u[x] ELSE e[x - p]
    BY <1>7, <1>8
  <2>2. CASE x <= p
    <3>1. x \in 1..p
      BY <1>1, <2>2
    <3>2. c[x] = u[x]
      BY <2>1, <2>2
    <3> QED BY <1>s, <1>5, <3>1, <3>2, Zenon
  <2>3. CASE x > p
    <3>1. PICK y \in Nat : y = x - p
      BY <1>1, <2>3
    <3>2. y \in 1..Len(f) - p /\ p + y = x
      BY <1>1, <2>3, <3>1
    <3>3. c[x] = e[y]
      BY <1>1, <2>1, <2>3, <3>1
    <3> QED BY <1>1, <3>2, <3>3
  <2> QED BY <1>1, <2>2, <2>3
<1>10. c = f
  BY <1>7, <1>8, <1>9, SeqEqual
<1>11. Has(l, p, e) <=> Starts(f, l)
  BY <1>2, <1>3 DEF Has
<1>12. Merged(l, m) = IF Has(l, p, e) THEN l ELSE SubSeq(l, 1, p) \o e
  BY <1>0, Zenon DEF Merged, Has
<1>13. p + Len(e) = Len(f)
  BY <1>i, <1>1
<1> QED BY <1>0, <1>4, <1>6, <1>10, <1>11, <1>12, <1>13, Zenon

\* A nonempty set of indices has a lowest one.
LEMMA Lowest ==
    ASSUME NEW T \in SUBSET Nat, T # {}
    PROVE  \E x \in T : \A y \in T : x <= y
<1> DEFINE Below(y) == {z \in T : z < y}
           All == {Below(y) : y \in T}
<1>1. \A y \in T : Below(y) \in FiniteSubsetsOf(Nat)
  <2> TAKE y \in T
  <2>1. y \in Nat /\ \A z \in Below(y) : z \in Nat /\ z < y
    OBVIOUS
  <2> HIDE DEF Below
  <2>2. 0 \in Int /\ y \in Int /\ Below(y) \in SUBSET (0..y)
    BY <2>1
  <2>3. IsFiniteSet(0..y)
    BY <2>2, FS_Interval, Zenon
  <2>4. IsFiniteSet(Below(y))
    BY <2>2, <2>3, FS_Subset, Zenon
  <2> QED BY <2>1, <2>4, Zenon DEF FiniteSubsetsOf
<1>2. All \subseteq FiniteSubsetsOf(Nat) /\ All # {}
  BY <1>1
<1>3. PICK A \in All : \A B \in All : ~(<<B, A>> \in StrictSubsetOrdering(Nat))
  BY <1>2, FS_StrictSubsetOrderingWellFounded, WFMin, Zenon
<1>4. PICK x \in T : A = Below(x)
  BY <1>3
<1>5. ASSUME NEW y \in T, y < x PROVE FALSE
  <2>1. x \in Nat /\ y \in Nat /\ \A z \in T : z \in Nat
    OBVIOUS
  <2>2. \A z \in T : z < y => z < x
    BY <1>5, <2>1
  <2>3. Below(y) \subseteq Below(x) /\ y \in Below(x) /\ (y \in Below(y) => y < y)
    BY <1>5, <2>2, Zenon
  <2>4. y \notin Below(y)
    BY <2>1, <2>3
  <2>5. Below(y) \in All /\ Below(y) \in SUBSET Nat /\ Below(x) \in SUBSET Nat
    OBVIOUS
  <2> HIDE DEF Below, All
  <2>6. <<Below(y), Below(x)>> \in StrictSubsetOrdering(Nat)
    BY <2>3, <2>4, <2>5 DEF StrictSubsetOrdering
  <2> QED BY <2>5, <2>6, <1>3, <1>4
<1>6. \A y \in T : x <= y
  BY <1>5
<1> QED BY <1>6

\* The run of equal terms that ends at k begins at an entry of the log.
LEMMA RunStartType ==
    ASSUME NEW l \in Seq(Nat), NEW k \in 1..Len(l)
    PROVE  RunStart(l, k) \in 1..k
<1>0. Len(l) \in Nat /\ k \in Nat /\ k \in 1..k
  OBVIOUS
<1>1. PICK T : T = {a \in 1..k : \A b \in a..k : l[b] = l[k]}
  OBVIOUS
<1>2. T \in SUBSET Nat /\ k \in T
  BY <1>0, <1>1
<1>3. PICK x \in T : \A y \in T : x <= y
  BY <1>2, Lowest, Zenon
<1>4. x \in 1..k /\ \A b \in x..k : l[b] = l[k]
  BY <1>1, <1>3
<1>5. x = 1 \/ l[x - 1] # l[k]
  <2> SUFFICES ASSUME x # 1, l[x - 1] = l[k] PROVE FALSE
    OBVIOUS
  <2>1. PICK y : y = x - 1
    OBVIOUS
  <2>2. y \in 1..k /\ y < x
    BY <1>0, <1>4, <2>1
  <2>3. \A b \in y..k : b = y \/ b \in x..k
    BY <1>0, <1>4, <2>1
  <2>4. l[y] = l[k]
    BY <2>1
  <2>5. \A b \in y..k : l[b] = l[k]
    BY <1>4, <2>3, <2>4, Zenon
  <2>6. y \in T
    BY <1>1, <2>2, <2>5, Zenon
  <2> QED BY <1>0, <1>3, <1>4, <2>2, <2>6
<1>6. \E a \in 1..k : (\A b \in a..k : l[b] = l[k]) /\ (a = 1 \/ l[a - 1] # l[k])
  BY <1>4, <1>5, Zenon
<1> QED BY <1>6, Zenon DEF RunStart

-----------------------------------------------------------------------------
(* Kinds of steps. *)

\* Terms go up, and within a term a vote is final.
TermsGrow ==
    \A j \in Server : /\ term[j] <= term'[j]
                      /\ term[j] = term'[j] => votedFor[j] = NoOne \/ votedFor'[j] = votedFor[j]

\* Of the servers of S, those that lead after the step did so before it.
LeadersKept(S) ==
    \A i \in S : Leads(i)' => Leads(i) /\ term'[i] = term[i] /\ log'[i] = log[i]

\* Server j keeps its log or takes that of a request.
Takes(j) ==
    \/ log'[j] = log[j]
    \/ \E m \in Requests : /\ m.dest = j /\ term[j] <= m.term /\ term'[j] = m.term
                           /\ ~Starts(m.full, log[j]) /\ log'[j] = m.full

Follows ==
    /\ TermsGrow /\ LeadersKept(Server)
    /\ \A j \in Server : Takes(j)
    /\ Requests' \subseteq Requests

Sends(i, j) ==
    /\ Leads(i) /\ i # j /\ nextIndex[i][j] <= Len(log[i]) + 1
    /\ UNCHANGED <<term, votedFor, log, state>>
    /\ Requests' = Requests \cup {AppendRequest(i, j)}

Writes(i) ==
    /\ Leads(i)
    /\ log' = [log EXCEPT ![i] = Append(log[i], term[i])]
    /\ UNCHANGED <<term, votedFor, state>>
    /\ Requests' = Requests

\* The servers of V vote for i, in the term after its own.
Votes(i, V) ==
    \A j \in V : /\ \/ term[j] < term[i] + 1
                    \/ term[j] = term[i] + 1 /\ votedFor[j] \in {NoOne, i}
                 /\ term'[j] = term[i] + 1 /\ votedFor'[j] = i
                 /\ UpToDate(log[i], log[j])

Wins(i) ==
    /\ TermsGrow /\ LeadersKept(Server \ {i}) /\ term'[i] = term[i] + 1 /\ ~Leads(i)
    /\ UNCHANGED log
    /\ Requests' = Requests
    /\ \E V \in Quorums : i \in V /\ Votes(i, V)

\* Two majorities of one cluster share a server.
LEMMA QuorumsMeet ==
    ASSUME NEW P \in Quorums, NEW Q \in Quorums
    PROVE  \E j \in Server : j \in P /\ j \in Q
<1>1. /\ P \in SUBSET Server /\ Q \in SUBSET Server
      /\ Cardinality(P) >= Majority /\ Cardinality(Q) >= Majority
  BY DEF Quorums
<1>2. /\ Cardinality(Server) \in Nat
      /\ Cardinality(P) \in Nat /\ Cardinality(Q) \in Nat
  BY <1>1, ServerAssumption, FS_Subset, FS_CardinalityType
<1>3. Cardinality(P) + Cardinality(Q) > Cardinality(Server)
  BY <1>1, <1>2 DEF Majority
<1>4. P \cap Q # {}
  BY <1>1, <1>3, ServerAssumption, FS_MajoritiesIntersect
<1> QED BY <1>1, <1>4

\* The fields of the messages.
LEMMA RequestTypes ==
    ASSUME Types, NEW m \in Requests
    PROVE  /\ m \in AppendRequests
           /\ m.src \in Server /\ m.dest \in Server /\ m.boot \in Nat /\ m.term \in Nat
           /\ m.prev \in Nat /\ m.prevTerm \in Nat /\ m.entries \in Seq(Nat)
           /\ m.commit \in Nat /\ m.full \in Seq(Nat)
<1>1. m \in Message /\ m.type = "AppendEntries"
  BY DEF Types, Requests
<1>2. m \in AppendRequests
  BY <1>1 DEF Message, AppendReplies
<1> QED BY <1>2 DEF AppendRequests

LEMMA ReplyTypes ==
    ASSUME Types, NEW m \in Replies
    PROVE  /\ m \in AppendReplies
           /\ m.src \in Server /\ m.dest \in Server /\ m.term \in Nat /\ m.success \in BOOLEAN
           /\ m.xlen \in Int /\ m.xterm \in Int /\ m.xindex \in Int /\ m.length \in Nat
<1>1. m \in Message /\ m.type = "AppendReply"
  BY DEF Types, Replies
<1>2. m \in AppendReplies
  BY <1>1 DEF Message, AppendRequests
<1> QED BY <1>2 DEF AppendReplies

\* What is in the network is a request or a reply.
LEMMA MessageKinds ==
    ASSUME Types, NEW m \in msgs
    PROVE  /\ m.type = "AppendEntries" => m \in Requests
           /\ m.type = "AppendReply" => m \in Replies
           /\ m \in Requests \/ m \in Replies
           /\ m \in Requests => m \notin Replies
<1>1. m \in Message
  BY DEF Types
<1>2. m.type \in {"AppendEntries", "AppendReply"}
  BY <1>1 DEF Message, AppendRequests, AppendReplies
<1> QED BY <1>2 DEF Requests, Replies

\* The answer to a request takes its place, or nothing does.
LEMMA AnswerIs ==
    ASSUME Types, NEW m \in Requests, NEW r \in AppendReplies, Answer(m, r)
    PROVE  /\ msgs' \subseteq Message
           /\ Requests' \subseteq Requests
           /\ Replies' \subseteq Replies \cup {r}
           /\ r \in Replies' => r \in Replies \/ m.boot = boot[m.src]
<1>1. msgs' \subseteq (msgs \ {m}) \cup {r} /\ (m.boot # boot[m.src] => msgs' = msgs \ {m})
  BY DEF Answer
<1>2. r.type = "AppendReply" /\ r \in Message
  BY DEF AppendReplies, Message
<1>3. msgs \subseteq Message
  BY DEF Types
<1>4. ASSUME NEW x \in msgs'
      PROVE  x \in msgs \/ x = r
  BY <1>1
<1> QED BY <1>1, <1>2, <1>3, <1>4 DEF Requests, Replies

LEMMA RefusalType ==
    ASSUME Types, NEW m \in Requests, NEW t \in Nat,
           NEW xlen \in Int, NEW xterm \in Int, NEW xindex \in Int
    PROVE  /\ AppendAnswer(m.dest, m, t, FALSE, xlen, xterm, xindex) \in AppendReplies
           /\ AppendAnswer(m.dest, m, t, FALSE, xlen, xterm, xindex).length >= 1
<1>1. /\ m.src \in Server /\ m.dest \in Server /\ m.prev \in Nat /\ m.entries \in Seq(Nat)
      /\ Len(m.entries) \in Nat
  BY RequestTypes
<1>2. m.prev + Len(m.entries) + 1 \in Nat /\ m.prev + Len(m.entries) + 1 >= 1
  BY <1>1
<1> QED BY <1>1, <1>2 DEF AppendAnswer, AppendReplies

\* Server i saves what it has after the step, and the others keep what they had.
LEMMA PersistKeepsDurable ==
    ASSUME Types, Types', Durable, NEW i \in Server, Persist(i),
           \A j \in Server \ {i} : /\ term'[j] = term[j] /\ votedFor'[j] = votedFor[j]
                                   /\ log'[j] = log[j]
    PROVE  Durable'
BY DEF Durable, Persist, Types

\* Whoever has won a term has won it for good.
LEMMA WonStays ==
    ASSUME Types, Types', TermsGrow, NEW i \in Server, NEW t \in Nat, Won(i, t)
    PROVE  Won(i, t)'
<1>1. PICK Q \in Quorums : \A j \in Q : t < term[j] \/ (t = term[j] /\ votedFor[j] = i)
  BY DEF Won
<1>2. Q \in SUBSET Server
  BY DEF Quorums
<1>3. i # NoOne
  BY ServerAssumption
<1>4. ASSUME NEW j \in Q
      PROVE  t < term'[j] \/ (t = term'[j] /\ votedFor'[j] = i)
  <2>1. term[j] \in Nat /\ term'[j] \in Nat /\ term[j] <= term'[j]
    BY <1>2 DEF Types, TermsGrow
  <2>2. term[j] = term'[j] => votedFor[j] = NoOne \/ votedFor'[j] = votedFor[j]
    BY <1>2 DEF TermsGrow
  <2> QED BY <1>1, <1>3, <2>1, <2>2
<1>5. t <= term'[i]
  <2>1. t <= term[i] /\ term[i] <= term'[i] /\ term[i] \in Nat /\ term'[i] \in Nat
    BY DEF Won, Types, TermsGrow
  <2> QED BY <2>1
<1> QED BY <1>4, <1>5 DEF Won, Quorums

\* Nobody has won the term that a server is elected in.
LEMMA NobodyWon ==
    ASSUME Types, NEW i \in Server, Wins(i), NEW k \in Server
    PROVE  ~Won(k, term[i] + 1)
<1> SUFFICES ASSUME Won(k, term[i] + 1) PROVE FALSE
  OBVIOUS
<1>1. PICK Q \in Quorums : \A j \in Q : \/ term[i] + 1 < term[j]
                                        \/ term[i] + 1 = term[j] /\ votedFor[j] = k
  BY DEF Won
<1>2. PICK V \in Quorums : i \in V /\ Votes(i, V)
  BY DEF Wins
<1>3. PICK j \in Server : j \in Q /\ j \in V
  BY QuorumsMeet
<1>4. term[i] \in Nat /\ term[j] \in Nat /\ term[k] \in Nat
  BY DEF Types
<1>5. term[j] = term[i] + 1 /\ votedFor[j] = k /\ votedFor[j] \in {NoOne, i}
  BY <1>1, <1>2, <1>3, <1>4 DEF Votes
<1>6. k = i
  BY <1>5, ServerAssumption
<1>7. term[i] + 1 <= term[k]
  BY DEF Won
<1> QED BY <1>4, <1>6, <1>7

\* What every step does: the types hold, the disk is up to date, the hints are indices, and
\* the step is of one of four kinds.
StepFits ==
    /\ Types' /\ Durable' /\ \A m \in Replies' : HintFits(m)
    /\ \/ Follows
       \/ \E i \in Server : Writes(i) \/ Wins(i) \/ \E j \in Server : Sends(i, j)

\* Steps that leave terms, votes and logs alone.
LEMMA QuietFollows ==
    ASSUME Types, UNCHANGED <<term, votedFor, log, state>>, Requests' \subseteq Requests
    PROVE  Follows
<1>1. TermsGrow
  BY DEF TermsGrow, Types
<1>2. LeadersKept(Server) /\ \A j \in Server : Takes(j)
  BY DEF LeadersKept, Takes, Leads
<1> QED BY <1>1, <1>2 DEF Follows

\* The steps of one server, which then follows.
LEMMA DemotedFollows ==
    ASSUME Types, Types', NEW j \in Server,
           \A k \in Server \ {j} : /\ term'[k] = term[k] /\ votedFor'[k] = votedFor[k]
                                   /\ log'[k] = log[k] /\ state'[k] = state[k],
           state'[j] # "Leader",
           term[j] < term'[j] \/ (term[j] = term'[j] /\ votedFor'[j] = votedFor[j]),
           Takes(j), Requests' \subseteq Requests
    PROVE  Follows
<1>1. TermsGrow
  <2>1. term[j] \in Nat /\ term'[j] \in Nat
    BY DEF Types
  <2>2. \A k \in Server : term[k] \in Nat
    BY DEF Types
  <2>3. /\ term[j] <= term'[j]
        /\ term[j] = term'[j] => votedFor'[j] = votedFor[j]
    BY <2>1
  <2>4. \A k \in Server \ {j} : term[k] <= term'[k] /\ votedFor'[k] = votedFor[k]
    BY <2>2
  <2> QED BY <2>3, <2>4 DEF TermsGrow
<1>2. LeadersKept(Server)
  BY DEF LeadersKept, Leads
<1>3. \A k \in Server : Takes(k)
  BY DEF Takes
<1> QED BY <1>1, <1>2, <1>3 DEF Follows

LEMMA DurableStays ==
    ASSUME Durable, UNCHANGED persistent
    PROVE  Durable'
BY DEF Durable, persistent

\* No request or reply is new.
LEMMA FewerMessages ==
    ASSUME Types, msgs' \subseteq msgs, \A m \in Replies : HintFits(m)
    PROVE  /\ msgs' \subseteq Message
           /\ Requests' \subseteq Requests /\ Replies' \subseteq Replies
           /\ \A m \in Replies' : HintFits(m)
BY DEF Types, Requests, Replies

LEMMA InitLeaderFits ==
    ASSUME LogInv, NEW i \in Server, InitLeader(i)
    PROVE  StepFits
<1>1. Len(log[i]) + 1 \in Nat \ {0}
  BY DEF LogInv, Types
<1>2. Types'
  <2>1. nextIndex' \in [Server -> [Server -> Nat \ {0}]]
    BY <1>1 DEF LogInv, Types, InitLeader
  <2>2. starting' \in [Server -> BOOLEAN]
    BY DEF LogInv, Types, InitLeader
  <2> QED BY <2>1, <2>2 DEF LogInv, Types, InitLeader, persistent, Indices
<1>3. Durable'
  BY DurableStays DEF LogInv, InitLeader
<1>4. Requests' \subseteq Requests /\ \A m \in Replies' : HintFits(m)
  BY FewerMessages DEF LogInv, InitLeader
<1>5. Follows
  BY <1>4, QuietFollows DEF LogInv, InitLeader, persistent
<1> QED BY <1>2, <1>3, <1>4, <1>5 DEF StepFits

LEMMA StartFits ==
    ASSUME LogInv, NEW i \in Server, Start(i)
    PROVE  StepFits /\ Writes(i)
<1>1. Len(log[i]) + 2 \in Nat \ {0} /\ log[i] \in Seq(Nat) /\ term[i] \in Nat
  BY DEF LogInv, Types
<1>2. Append(log[i], term[i]) \in Seq(Nat)
  BY <1>1, AppendFacts
<1>3. Types'
  <2>1. nextIndex' \in [Server -> [Server -> Nat \ {0}]]
    BY <1>1 DEF LogInv, Types, Start
  <2>2. log' \in [Server -> Seq(Nat)]
    BY <1>2 DEF LogInv, Types, Start
  <2> QED BY <2>1, <2>2 DEF LogInv, Types, Start, Indices
<1>4. Durable'
  <2>1. /\ Persist(i)
        /\ \A j \in Server \ {i} : /\ term'[j] = term[j] /\ votedFor'[j] = votedFor[j]
                                   /\ log'[j] = log[j]
    BY DEF Start, LogInv, Types
  <2> QED BY <1>3, <2>1, PersistKeepsDurable DEF LogInv
<1>5. \A m \in Replies' : HintFits(m)
  BY FewerMessages DEF LogInv, Start
<1>6. Writes(i)
  <2>1. Requests' = Requests
    BY DEF Start, Requests
  <2>2. UNCHANGED <<term, votedFor, state>> /\ Leads(i)
    BY DEF Start, Leads
  <2>3. log' = [log EXCEPT ![i] = Append(log[i], term[i])]
    BY DEF Start
  <2> QED BY <2>1, <2>2, <2>3 DEF Writes
<1> QED BY <1>3, <1>4, <1>5, <1>6 DEF StepFits

LEMMA ApplyFits ==
    ASSUME LogInv, NEW i \in Server, Apply(i)
    PROVE  StepFits
<1>2. Types'
  <2>1. lastApplied' \in [Server -> Nat]
    BY DEF LogInv, Types, Apply
  <2> QED BY <2>1 DEF LogInv, Types, Apply, persistent, leader, Indices
<1>3. Durable'
  BY DurableStays DEF LogInv, Apply
<1>4. Requests' \subseteq Requests /\ \A m \in Replies' : HintFits(m)
  BY FewerMessages DEF LogInv, Apply
<1>5. Follows
  BY <1>4, QuietFollows DEF LogInv, Apply, persistent
<1> QED BY <1>2, <1>3, <1>4, <1>5 DEF StepFits

LEMMA CommitFitsStep ==
    ASSUME LogInv, NEW i \in Server, NEW N \in 1..Len(log[i]), Commit(i, N)
    PROVE  StepFits
<1>1. Types'
  <2>1. N \in Nat
    BY DEF LogInv, Types
  <2>2. commitIndex' \in [Server -> Nat]
    BY <2>1 DEF LogInv, Types, Commit
  <2> QED BY <2>2 DEF LogInv, Types, Commit, persistent, leader, Indices
<1>3. Durable'
  BY DurableStays DEF LogInv, Commit
<1>4. Requests' \subseteq Requests /\ \A m \in Replies' : HintFits(m)
  BY FewerMessages DEF LogInv, Commit
<1>5. Follows
  BY <1>4, QuietFollows DEF LogInv, Commit, persistent
<1> QED BY <1>1, <1>3, <1>4, <1>5 DEF StepFits

LEMMA LoseFits ==
    ASSUME LogInv, NEW m \in msgs, Lose(m)
    PROVE  StepFits
<1>1. /\ msgs' \subseteq Message
      /\ Requests' \subseteq Requests /\ \A r \in Replies' : HintFits(r)
  BY FewerMessages DEF LogInv, Lose
<1>2. Types'
  BY <1>1 DEF LogInv, Types, Lose, persistent, leader, Indices
<1>3. Durable'
  BY DurableStays DEF LogInv, Lose
<1>4. Follows
  BY <1>1, QuietFollows DEF LogInv, Lose, persistent
<1> QED BY <1>1, <1>2, <1>3, <1>4 DEF StepFits

LEMMA StutterFits ==
    ASSUME LogInv, UNCHANGED vars
    PROVE  StepFits
<1>1. /\ msgs' \subseteq Message
      /\ Requests' \subseteq Requests /\ \A r \in Replies' : HintFits(r)
  BY FewerMessages DEF LogInv, vars
<1>2. Types'
  BY DEF LogInv, Types, vars, persistent, leader, Indices
<1>3. Durable'
  BY DurableStays DEF LogInv, vars
<1>4. Follows
  BY <1>1, QuietFollows DEF LogInv, vars, persistent
<1> QED BY <1>1, <1>2, <1>3, <1>4 DEF StepFits

LEMMA SendAppendFits ==
    ASSUME LogInv, NEW i \in Server, NEW j \in Server, SendAppend(i, j)
    PROVE  StepFits /\ Sends(i, j)
<1>1. AppendRequest(i, j) \in AppendRequests
  <2>1. nextIndex[i][j] \in Nat \ {0} /\ log[i] \in Seq(Nat) /\ Len(log[i]) \in Nat
    BY DEF LogInv, Types
  <2>2. PICK p : p = nextIndex[i][j] - 1
    OBVIOUS
  <2>3. p \in Nat /\ p <= Len(log[i])
    BY <2>1, <2>2 DEF SendAppend
  <2>4. Entry(log[i], p) \in Nat
    BY <2>1, <2>3, ElementOfSeq DEF Entry
  <2>5. SubSeq(log[i], p + 1, Len(log[i])) \in Seq(Nat)
    BY <2>1, <2>3, FromFacts
  <2>6. boot[i] \in Nat /\ term[i] \in Nat /\ commitIndex[i] \in Nat
    BY DEF LogInv, Types
  <2> QED BY <2>1, <2>2, <2>3, <2>4, <2>5, <2>6 DEF AppendRequest, AppendRequests
<1>2. Requests' = Requests \cup {AppendRequest(i, j)} /\ Replies' = Replies
  <2>1. AppendRequest(i, j).type = "AppendEntries"
    BY DEF AppendRequest
  <2>2. msgs' = msgs \cup {AppendRequest(i, j)}
    BY DEF SendAppend
  <2> QED BY <2>1, <2>2 DEF Requests, Replies
<1>3. Types'
  <2>1. msgs' \subseteq Message
    BY <1>1 DEF LogInv, Types, SendAppend, Message
  <2> QED BY <2>1 DEF LogInv, Types, SendAppend, persistent, leader, Indices
<1>4. Durable'
  BY DurableStays DEF LogInv, SendAppend
<1>5. Sends(i, j)
  <2>1. state[i] = "Leader" /\ i # j /\ nextIndex[i][j] <= Len(log[i]) + 1
    BY DEF SendAppend, Looping
  <2>2. UNCHANGED <<term, votedFor, log, state>>
    BY DEF SendAppend, persistent
  <2> QED BY <1>2, <2>1, <2>2 DEF Sends, Leads
<1>6. \A m \in Replies' : HintFits(m)
  BY <1>2 DEF LogInv
<1> QED BY <1>3, <1>4, <1>5, <1>6 DEF StepFits

LEMMA RefuseFits ==
    ASSUME LogInv, NEW m \in msgs, RefuseAppend(m.dest, m)
    PROVE  StepFits
<1>0. m \in Requests /\ m.dest \in Server /\ term[m.dest] \in Nat
  <2>1. m \in Requests /\ Types
    BY DEF RefuseAppend, Requests, LogInv
  <2>2. m.dest \in Server
    BY <2>1, RequestTypes
  <2> QED BY <2>1, <2>2 DEF Types
<1>1. PICK r : r = AppendAnswer(m.dest, m, term[m.dest], FALSE, -1, -1, -1)
  OBVIOUS
<1>2. r \in AppendReplies /\ HintFits(r)
  <2>0. Types /\ -1 \in Int
    BY DEF LogInv
  <2>1. r \in AppendReplies /\ r.length >= 1
    BY <1>0, <1>1, <2>0, RefusalType
  <2>2. r.xlen = -1 /\ r.xterm = -1
    BY <1>1 DEF AppendAnswer
  <2> QED BY <2>1, <2>2 DEF HintFits
<1>3. Answer(m, r)
  BY <1>1 DEF RefuseAppend
<1>4. msgs' \subseteq Message /\ Requests' \subseteq Requests /\ Replies' \subseteq Replies \cup {r}
  BY <1>0, <1>2, <1>3, AnswerIs DEF LogInv
<1>5. \A x \in Replies' : HintFits(x)
  BY <1>2, <1>4 DEF LogInv
<1>6. Types'
  BY <1>4 DEF LogInv, Types, RefuseAppend, persistent, leader, Indices
<1>7. Durable'
  BY DurableStays DEF LogInv, RefuseAppend
<1>8. Follows
  BY <1>4, QuietFollows DEF LogInv, RefuseAppend, persistent
<1> QED BY <1>5, <1>6, <1>7, <1>8 DEF StepFits

\* A server that adopts a term keeps its log.
LEMMA AdoptFollows ==
    ASSUME LogInv, NEW j \in Server, NEW t \in Nat, AdoptTerm(j, t),
           Requests' \subseteq Requests
    PROVE  /\ term' \in [Server -> Nat] /\ votedFor' \in [Server -> Server \cup {NoOne}]
           /\ log' = log /\ state' \in [Server -> {"Follower", "Candidate", "Leader"}]
           /\ Types' => Durable' /\ Follows
           /\ \A i \in Server \ {j} : term'[i] = term[i] /\ state'[i] = state[i]
           /\ IF t > term[j] THEN term'[j] = t /\ ~Leads(j)' ELSE UNCHANGED <<term, state>>
<1>1. CASE t > term[j]
  <2>1. /\ term' = [term EXCEPT ![j] = t] /\ votedFor' = [votedFor EXCEPT ![j] = NoOne]
        /\ state' = [state EXCEPT ![j] = "Follower"] /\ log' = log /\ Persist(j)
    BY <1>1 DEF AdoptTerm, StepDown
  <2>2. /\ term' \in [Server -> Nat] /\ votedFor' \in [Server -> Server \cup {NoOne}]
        /\ state' \in [Server -> {"Follower", "Candidate", "Leader"}]
        /\ state'[j] # "Leader" /\ term[j] < term'[j] /\ term'[j] = t
    BY <1>1, <2>1 DEF LogInv, Types
  <2>3. \A k \in Server \ {j} : /\ term'[k] = term[k] /\ votedFor'[k] = votedFor[k]
                                /\ log'[k] = log[k] /\ state'[k] = state[k]
    BY <2>1 DEF LogInv, Types
  <2>4. Takes(j)
    BY <2>1 DEF Takes
  <2>5. ASSUME Types'
        PROVE  Durable' /\ Follows
    <3>1. Follows
      BY <2>2, <2>3, <2>4, <2>5, DemotedFollows DEF LogInv
    <3>2. Durable'
      BY <2>1, <2>3, <2>5, PersistKeepsDurable DEF LogInv
    <3> QED BY <3>1, <3>2
  <2> QED BY <1>1, <2>1, <2>2, <2>3, <2>5 DEF Leads
<1>2. CASE ~(t > term[j])
  <2>1. UNCHANGED <<persistent, state>>
    BY <1>2 DEF AdoptTerm
  <2>2. Durable'
    BY <2>1, DurableStays DEF LogInv
  <2>3. Follows
    BY <2>1, QuietFollows DEF LogInv, persistent
  <2>4. UNCHANGED <<term, votedFor, log, state>>
    BY <2>1 DEF persistent
  <2> QED BY <1>2, <2>2, <2>3, <2>4 DEF LogInv, Types
<1> QED BY <1>1, <1>2

\* Where the sender goes on is an index.
LEMMA BacktrackType ==
    ASSUME LogInv, NEW i \in Server, NEW m \in Replies, ~m.success
    PROVE  Backtrack(i, m) \in Nat \ {0}
<1>0. Types
  BY DEF LogInv
<1>r. m.src \in Server /\ m.xlen \in Int /\ m.xterm \in Int /\ m.xindex \in Int
  BY <1>0, ReplyTypes
<1>1. /\ Len(log[i]) \in Nat /\ log[i] \in Seq(Nat)
      /\ nextIndex[i][m.src] \in Nat \ {0}
      /\ m.xlen \in Int /\ m.xterm \in Int /\ m.xindex \in Int
  <2>1. log[i] \in Seq(Nat)
    BY <1>0 DEF Types
  <2>2. nextIndex[i][m.src] \in Nat \ {0}
    BY <1>0, <1>r DEF Types, Indices
  <2> QED BY <1>r, <2>1, <2>2
<1>2. m.xlen >= 1 \/ (m.xlen = -1 /\ (m.xterm = -1 \/ m.xindex >= 1))
  BY DEF LogInv, HintFits
<1>3. PICK b : b = BinarySearch(log[i], m.xterm)
  OBVIOUS
<1>4. b = -1 \/ b \in Nat \ {0}
  <2>1. PICK S : S = {k \in 0..Len(log[i]) : Entry(log[i], k) <= m.xterm}
    OBVIOUS
  <2>2. IsFiniteSet(0..Len(log[i]))
    <3>1. Len(log[i]) \in Int /\ 0 \in Int
      BY <1>1
    <3> QED BY <3>1, FS_Interval
  <2>3. Cardinality(S) \in Nat
    BY <2>1, <2>2, FS_Subset, FS_CardinalityType
  <2>4. b = IF Cardinality(S) > 0 /\ Entry(log[i], Cardinality(S) - 1) = m.xterm
              THEN Cardinality(S) ELSE -1
    BY <1>3, <2>1 DEF BinarySearch
  <2> QED BY <2>3, <2>4
<1>5. CASE m.xlen # -1
  BY SMTT(40), <1>1, <1>2, <1>5 DEF Backtrack, Lesser
<1>6. CASE m.xlen = -1 /\ m.xterm # -1
  <2>1. m.xindex >= 1
    BY <1>2, <1>6
  <2>2. Backtrack(i, m) = Lesser(IF b < 0 THEN m.xindex ELSE b, Len(log[i]) + 1)
    BY <1>3, <1>6 DEF Backtrack
  <2> QED BY SMTT(60), <1>1, <1>4, <2>1, <2>2 DEF Lesser
<1>7. CASE m.xlen = -1 /\ m.xterm = -1
  BY <1>1, <1>7 DEF Backtrack, Greater
<1> QED BY <1>5, <1>6, <1>7

LEMMA ReceiveFits ==
    ASSUME LogInv, NEW m \in msgs, ReceiveAppend(m.dest, m)
    PROVE  StepFits
<1>0. m \in Replies
  BY DEF ReceiveAppend, Replies
<1>1. PICK i \in Server : i = m.dest
  BY <1>0, ReplyTypes DEF LogInv
<1>2. /\ m.src \in Server /\ m.term \in Nat /\ m.length \in Nat /\ m.length >= 1
      /\ m.success \in BOOLEAN
  BY <1>0, ReplyTypes DEF LogInv, HintFits
<1>3. /\ msgs' \subseteq Message
      /\ Requests' \subseteq Requests /\ \A r \in Replies' : HintFits(r)
  BY FewerMessages DEF LogInv, ReceiveAppend
<1>4. AdoptTerm(i, m.term)
  BY <1>1 DEF ReceiveAppend
<1>5. nextIndex' \in [Server -> [Server -> Nat \ {0}]] /\ matchIndex' \in Indices
  <2>1. CASE m.term > term[i]
    BY <1>1, <2>1 DEF ReceiveAppend, LogInv, Types
  <2>2. CASE ~(m.term > term[i]) /\ m.success
    <3>1. /\ nextIndex' = [nextIndex EXCEPT ![i][m.src] = m.length]
          /\ matchIndex' = [matchIndex EXCEPT ![i][m.src] = m.length - 1]
      BY <1>1, <2>2 DEF ReceiveAppend
    <3>2. m.length \in Nat \ {0} /\ m.length - 1 \in Nat
      BY <1>2
    <3> QED BY <1>2, <3>1, <3>2 DEF LogInv, Types, Indices
  <2>3. CASE ~(m.term > term[i]) /\ ~m.success
    <3>1. /\ nextIndex' = [nextIndex EXCEPT ![i][m.src] = Backtrack(i, m)]
          /\ matchIndex' = matchIndex
      BY <1>1, <2>3 DEF ReceiveAppend
    <3>2. Backtrack(i, m) \in Nat \ {0}
      BY <1>0, <2>3, BacktrackType
    <3> QED BY <1>2, <3>1, <3>2 DEF LogInv, Types
  <2> QED BY <1>2, <2>1, <2>2, <2>3
<1>6. /\ term' \in [Server -> Nat] /\ votedFor' \in [Server -> Server \cup {NoOne}]
      /\ log' = log /\ state' \in [Server -> {"Follower", "Candidate", "Leader"}]
      /\ Types' => Durable' /\ Follows
  BY <1>2, <1>3, <1>4, AdoptFollows
<1>7. Types'
  BY <1>3, <1>5, <1>6 DEF LogInv, Types, ReceiveAppend
<1> QED BY <1>3, <1>6, <1>7 DEF StepFits

LEMMA MismatchFits ==
    ASSUME LogInv, NEW m \in msgs, MismatchAppend(m.dest, m)
    PROVE  StepFits
<1>0. m \in Requests /\ Types
  BY DEF MismatchAppend, Requests, LogInv
<1>1. PICK j \in Server : j = m.dest
  BY <1>0, RequestTypes
<1>2. m.term \in Nat /\ m.prev \in Nat /\ log[j] \in Seq(Nat) /\ Len(log[j]) \in Nat
  <2>1. log[j] \in Seq(Nat)
    BY <1>0 DEF Types
  <2>2. m.term \in Nat /\ m.prev \in Nat
    BY <1>0, RequestTypes
  <2> QED BY <2>1, <2>2
<1>3. PICK r : Answer(m, r) /\
        r = IF m.prev > Len(log[j])
              THEN AppendAnswer(m.dest, m, m.term, FALSE, Len(log[j]) + 1, -1, -1)
              ELSE AppendAnswer(m.dest, m, m.term, FALSE, -1, Entry(log[j], m.prev),
                                RunStart(log[j], m.prev))
  BY <1>1 DEF MismatchAppend
<1>4. r \in AppendReplies /\ HintFits(r)
  <2>1. CASE m.prev > Len(log[j])
    <3>1. Len(log[j]) + 1 \in Int /\ -1 \in Int
      BY <1>2
    <3>2. r \in AppendReplies /\ r.length >= 1
      BY <1>0, <1>2, <1>3, <2>1, <3>1, RefusalType
    <3>3. r.xlen = Len(log[j]) + 1
      BY <1>3, <2>1 DEF AppendAnswer
    <3> QED BY <1>2, <3>2, <3>3 DEF HintFits
  <2>2. CASE ~(m.prev > Len(log[j]))
    <3>1. RequestFits(m) /\ ~Matches(log[j], m)
      BY <1>0, <1>1 DEF LogInv, MismatchAppend
    <3>2. m.prev # 0
      BY <1>2, <3>1 DEF Matches, RequestFits, Entry
    <3>3. m.prev \in 1..Len(log[j])
      BY <1>2, <2>2, <3>2
    <3>4. RunStart(log[j], m.prev) \in 1..m.prev
      BY <1>2, <3>3, RunStartType
    <3>5. Entry(log[j], m.prev) \in Int
      BY <1>2, <3>3, ElementOfSeq DEF Entry
    <3>6. RunStart(log[j], m.prev) \in Int /\ RunStart(log[j], m.prev) >= 1 /\ -1 \in Int
      BY <1>2, <3>4
    <3>7. r \in AppendReplies /\ r.length >= 1
      BY <1>0, <1>2, <1>3, <2>2, <3>5, <3>6, RefusalType
    <3>8. r.xlen = -1 /\ r.xindex = RunStart(log[j], m.prev)
      BY <1>3, <2>2 DEF AppendAnswer
    <3> QED BY <3>6, <3>7, <3>8 DEF HintFits
  <2> QED BY <2>1, <2>2
<1>5. msgs' \subseteq Message /\ Requests' \subseteq Requests /\ Replies' \subseteq Replies \cup {r}
  <2>1. Answer(m, r)
    BY <1>3
  <2>2. r \in AppendReplies
    BY <1>4
  <2> QED BY <1>0, <2>1, <2>2, AnswerIs
<1>6. AdoptTerm(j, m.term)
  BY <1>1 DEF MismatchAppend
<1>7. /\ term' \in [Server -> Nat] /\ votedFor' \in [Server -> Server \cup {NoOne}]
      /\ log' = log /\ state' \in [Server -> {"Follower", "Candidate", "Leader"}]
      /\ Types' => Durable' /\ Follows
  BY <1>2, <1>5, <1>6, AdoptFollows
<1>8. Types'
  BY <1>0, <1>5, <1>7 DEF Types, MismatchAppend, leader, Indices
<1>9. \A x \in Replies' : HintFits(x)
  BY <1>4, <1>5 DEF LogInv
<1> QED BY <1>7, <1>8, <1>9 DEF StepFits

\* A log that matches a request has all of it up to the entry before the new ones.
LEMMA MatchesIs ==
    ASSUME LogInv, NEW m \in Requests, NEW j \in Server, Matches(log[j], m)
    PROVE  Same(log[j], m.full, m.prev)
<1>0. Types /\ LogsFit /\ RequestFits(m)
  BY DEF LogInv
<1>1. /\ m.prev \in Nat /\ log[j] \in Seq(Nat) /\ m.full \in Seq(Nat)
      /\ Len(log[j]) \in Nat /\ Len(m.full) \in Nat
  <2>1. log[j] \in Seq(Nat)
    BY <1>0 DEF Types
  <2>2. m.prev \in Nat /\ m.full \in Seq(Nat)
    BY <1>0, RequestTypes
  <2> QED BY <2>1, <2>2
<1>2. m.prev <= Len(log[j]) /\ m.prev <= Len(m.full) /\ Entry(log[j], m.prev) = Entry(m.full, m.prev)
  BY <1>0 DEF Matches, RequestFits
<1>3. CASE m.prev = 0
  BY <1>1, <1>3 DEF Same
<1>4. CASE m.prev # 0
  <2>1. log[j] \in Logs /\ m.full \in Logs
    BY DEF Logs
  <2>2. Agree(log[j], m.full)
    BY <1>0, <2>1 DEF LogsFit
  <2>3. m.prev \in 1..Len(log[j]) /\ m.prev \in 1..Len(m.full) /\ log[j][m.prev] = m.full[m.prev]
    BY <1>1, <1>2, <1>4 DEF Entry
  <2> QED BY SMTT(40), <1>1, <2>2, <2>3 DEF Agree
<1> QED BY <1>3, <1>4

LEMMA AcceptFits ==
    ASSUME LogInv, NEW m \in msgs, AcceptAppend(m.dest, m)
    PROVE  /\ StepFits /\ Follows /\ m \in Requests
           /\ m.term = term'[m.dest] /\ term[m.dest] <= m.term
           /\ ~Leads(m.dest)'
           /\ log'[m.dest] = IF Starts(m.full, log[m.dest]) THEN log[m.dest] ELSE m.full
           /\ m.prev + Len(m.entries) = Len(m.full)
<1>0. m \in Requests /\ Types /\ RequestFits(m)
  BY DEF AcceptAppend, Requests, LogInv
<1>1. PICK j \in Server : j = m.dest
  BY <1>0, RequestTypes
<1>2. /\ m.term \in Nat /\ m.prev \in Nat /\ log[j] \in Seq(Nat) /\ m.full \in Seq(Nat)
      /\ Len(m.full) \in Nat /\ m.commit \in Nat
      /\ m.entries \in Seq(Nat) /\ Len(m.entries) \in Nat /\ term[j] \in Nat
      /\ commitIndex[j] \in Nat
  <2>1. log[j] \in Seq(Nat) /\ term[j] \in Nat /\ commitIndex[j] \in Nat
    BY <1>0 DEF Types
  <2>2. /\ m.term \in Nat /\ m.prev \in Nat /\ m.full \in Seq(Nat) /\ m.commit \in Nat
        /\ m.entries \in Seq(Nat)
    BY <1>0, RequestTypes
  <2> QED BY <2>1, <2>2
<1>3. m.term >= term[j] /\ Matches(log[j], m)
  BY <1>1 DEF AcceptAppend
<1>4. /\ Starts(m.full, log[j]) => Merged(log[j], m) = log[j]
      /\ ~Starts(m.full, log[j]) => Merged(log[j], m) = m.full
      /\ m.prev + Len(m.entries) = Len(m.full)
  <2>1. Same(log[j], m.full, m.prev)
    BY <1>0, <1>3, MatchesIs
  <2>2. m.prev <= Len(m.full) /\ m.entries = SubSeq(m.full, m.prev + 1, Len(m.full))
    BY <1>0 DEF RequestFits
  <2> QED BY <1>2, <2>1, <2>2, MergedIs
<1>5. log' = [log EXCEPT ![j] = Merged(log[j], m)]
  BY <1>1 DEF AcceptAppend
<1>6. /\ log' \in [Server -> Seq(Nat)]
      /\ log'[j] = IF Starts(m.full, log[j]) THEN log[j] ELSE m.full
      /\ \A k \in Server \ {j} : log'[k] = log[k]
  BY <1>0, <1>2, <1>4, <1>5 DEF Types
<1>7. /\ term' \in [Server -> Nat] /\ votedFor' \in [Server -> Server \cup {NoOne}]
      /\ state' \in [Server -> {"Follower", "Candidate", "Leader"}]
      /\ term'[j] = m.term /\ state'[j] # "Leader"
      /\ term[j] < term'[j] \/ (term[j] = term'[j] /\ votedFor'[j] = votedFor[j])
      /\ \A k \in Server \ {j} : /\ term'[k] = term[k] /\ votedFor'[k] = votedFor[k]
                                 /\ state'[k] = state[k]
  <2>1. CASE m.term > term[j]
    <3>1. /\ term' = [term EXCEPT ![j] = m.term] /\ votedFor' = [votedFor EXCEPT ![j] = NoOne]
          /\ state' = [state EXCEPT ![j] = "Follower"]
      BY <1>1, <2>1 DEF AcceptAppend, StepDown
    <3> QED BY <1>0, <1>2, <2>1, <3>1 DEF Types
  <2>2. CASE m.term = term[j]
    <3>1. UNCHANGED <<term, votedFor, state>>
      BY <1>1, <1>2, <2>2 DEF AcceptAppend
    <3>2. state[j] # "Leader"
      BY <1>0, <1>1, <2>2 DEF RequestFits, Leads
    <3> QED BY <1>0, <2>2, <3>1, <3>2 DEF Types
  <2> QED BY <1>2, <1>3, <2>1, <2>2
<1>8. PICK t : t = IF m.entries = <<>> THEN m.term ELSE 0
  OBVIOUS
<1>9. PICK r : r = AppendAnswer(m.dest, m, t, TRUE, -1, -1, -1)
  OBVIOUS
<1>10. r \in AppendReplies /\ HintFits(r)
  <2>1. t \in Nat /\ m.src \in Server /\ m.dest \in Server
    BY <1>0, <1>2, <1>8, RequestTypes
  <2>2. m.prev + Len(m.entries) + 1 \in Nat /\ m.prev + Len(m.entries) + 1 >= 1
    BY SMTT(40), <1>2
  <2>3. r \in AppendReplies /\ r.length >= 1 /\ r.success
    BY <1>9, <2>1, <2>2 DEF AppendAnswer, AppendReplies
  <2> QED BY <2>3 DEF HintFits
<1>11. Answer(m, r)
  BY <1>8, <1>9 DEF AcceptAppend
<1>12. msgs' \subseteq Message /\ Requests' \subseteq Requests /\ Replies' \subseteq Replies \cup {r}
  BY <1>0, <1>10, <1>11, AnswerIs
<1>13. commitIndex' \in [Server -> Nat]
  <2>1. CommitAfter(commitIndex[j], m) \in Nat
    BY <1>2 DEF CommitAfter, Lesser
  <2>2. commitIndex' = [commitIndex EXCEPT ![j] = CommitAfter(commitIndex[j], m)]
    BY <1>1 DEF AcceptAppend
  <2> QED BY <1>0, <2>1, <2>2 DEF Types
<1>14. Types'
  BY <1>0, <1>6, <1>7, <1>12, <1>13 DEF Types, AcceptAppend, leader, Indices
<1>15. Durable'
  <2>1. Persist(j)
    BY <1>1 DEF AcceptAppend
  <2>2. Durable
    BY DEF LogInv
  <2> QED BY <1>0, <1>6, <1>7, <1>14, <2>1, <2>2, PersistKeepsDurable
<1>16. Takes(j)
  <2>1. CASE Starts(m.full, log[j])
    BY <1>6, <2>1 DEF Takes
  <2>2. CASE ~Starts(m.full, log[j])
    <3>1. term[j] <= m.term
      BY <1>2, <1>3
    <3> QED BY <1>0, <1>1, <1>6, <1>7, <2>2, <3>1 DEF Takes
  <2> QED BY <2>1, <2>2
<1>17. Follows
  BY <1>0, <1>6, <1>7, <1>12, <1>14, <1>16, DemotedFollows
<1>18. \A x \in Replies' : HintFits(x)
  BY <1>10, <1>12 DEF LogInv
<1> QED BY <1>0, <1>1, <1>2, <1>3, <1>4, <1>6, <1>7, <1>14, <1>15, <1>17, <1>18 DEF StepFits, Leads

LEMMA RestartFits ==
    ASSUME LogInv, NEW i \in Server, Restart(i)
    PROVE  StepFits
<1>0. Types /\ Durable
  BY DEF LogInv
<1>1. UNCHANGED <<term, votedFor, log, saved>>
  <2>1. /\ saved[i].term = term[i] /\ saved[i].votedFor = votedFor[i] /\ saved[i].log = log[i]
    BY <1>0 DEF Durable
  <2>2. /\ term' = [term EXCEPT ![i] = saved[i].term]
        /\ votedFor' = [votedFor EXCEPT ![i] = saved[i].votedFor]
        /\ log' = [log EXCEPT ![i] = saved[i].log]
        /\ saved' = saved
    BY DEF Restart, Loaded
  <2> QED BY <1>0, <2>1, <2>2 DEF Types
<1>2. msgs' \subseteq msgs
  BY DEF Restart
<1>3. /\ msgs' \subseteq Message
      /\ Requests' \subseteq Requests /\ \A m \in Replies' : HintFits(m)
  BY <1>0, <1>2, FewerMessages DEF LogInv
<1>4. Types'
  <2>1. nextIndex' \in [Server -> [Server -> Nat \ {0}]] /\ matchIndex' \in Indices
    BY <1>0 DEF Types, Restart, NoIndex, Indices
  <2>2. /\ state' \in [Server -> {"Follower", "Candidate", "Leader"}]
        /\ starting' \in [Server -> BOOLEAN] /\ commitIndex' \in [Server -> Nat]
        /\ lastApplied' \in [Server -> Nat] /\ boot' \in [Server -> Nat]
        /\ leads' \in [Server -> Nat] /\ bound' \in Bounds
    BY SMTT(40), <1>0 DEF Types, Restart
  <2> QED BY <1>0, <1>1, <1>3, <2>1, <2>2 DEF Types
<1>5. Durable'
  BY <1>0, <1>1, DurableStays DEF persistent
<1>6. Follows
  <2>1. \A k \in Server \ {i} : state'[k] = state[k]
    BY <1>0 DEF Restart, Types
  <2>2. state'[i] # "Leader"
    BY <1>0 DEF Restart, Types
  <2>3. Takes(i)
    BY <1>1 DEF Takes
  <2> QED BY <1>0, <1>1, <1>3, <1>4, <2>1, <2>2, <2>3, DemotedFollows
<1> QED BY <1>3, <1>4, <1>5, <1>6 DEF StepFits

\* A round of an election, whatever comes of it.
RoundFits(i, Q, t, vote, s) ==
    /\ term' \in [Server -> Nat] /\ votedFor' \in [Server -> Server \cup {NoOne}]
    /\ state' \in [Server -> {"Follower", "Candidate", "Leader"}]
    /\ Durable' /\ TermsGrow /\ LeadersKept(Server \ {i})
    /\ log' = log /\ Requests' = Requests /\ Replies' = Replies
    /\ term'[i] = t /\ votedFor'[i] = vote /\ state'[i] = s
    /\ \A j \in Q : Granted(j, i, term[i] + 1) => term'[j] = term[i] + 1 /\ votedFor'[j] = i

LEMMA RoundIs ==
    ASSUME LogInv, NEW i \in Server, NEW Q \in SUBSET (Server \ {i}), NEW t \in Nat,
           NEW vote \in Server \cup {NoOne}, NEW s \in {"Follower", "Candidate", "Leader"},
           term[i] < t, Round(i, Q, t, vote, s)
    PROVE  RoundFits(i, Q, t, vote, s)
<1>0. Types /\ Durable
  BY DEF LogInv
<1>n. PICK new : new = term[i] + 1
  OBVIOUS
<1>i. new \in Nat /\ term \in [Server -> Nat] /\ votedFor \in [Server -> Server \cup {NoOne}]
  <2>1. term \in [Server -> Nat] /\ votedFor \in [Server -> Server \cup {NoOne}]
    BY <1>0 DEF Types
  <2>2. term[i] \in Nat
    BY <2>1
  <2>3. new \in Nat
    BY <1>n, <2>2
  <2> QED BY <2>1, <2>3
<1>1. PICK raised, grants :
        /\ raised = {j \in Q : new > term[j]}
        /\ grants = {j \in Q : Granted(j, i, new)}
        /\ term' = [j \in Server |-> IF j = i THEN t ELSE IF j \in raised THEN new ELSE term[j]]
        /\ votedFor' = [j \in Server |-> IF j = i THEN vote ELSE IF j \in grants THEN i
                                          ELSE IF j \in raised THEN NoOne ELSE votedFor[j]]
        /\ state' = [j \in Server |-> IF j = i THEN s ELSE IF j \in raised THEN "Follower"
                                       ELSE state[j]]
  BY <1>n, ZenonT(60) DEF Round
<1>2. /\ saved' = [j \in Server |-> [term |-> term'[j], votedFor |-> votedFor'[j],
                                      log |-> saved[j].log]]
      /\ log' = log /\ msgs' = msgs
  BY DEF Round
<1>3. /\ term' \in [Server -> Nat] /\ votedFor' \in [Server -> Server \cup {NoOne}]
      /\ state' \in [Server -> {"Follower", "Candidate", "Leader"}]
  <2>1. term' \in [Server -> Nat]
    BY <1>1, <1>i
  <2>2. votedFor' \in [Server -> Server \cup {NoOne}]
    BY <1>1, <1>i
  <2>3. state' \in [Server -> {"Follower", "Candidate", "Leader"}]
    BY <1>0, <1>1 DEF Types
  <2> QED BY <2>1, <2>2, <2>3
<1>4. Durable'
  <2>1. \A j \in Server : saved[j].log = log[j]
    BY <1>0 DEF Durable
  <2> QED BY <1>2, <2>1 DEF Durable
<1>5. TermsGrow
  <2> SUFFICES ASSUME NEW j \in Server
               PROVE  /\ term[j] <= term'[j]
                      /\ term[j] = term'[j] => \/ votedFor[j] = NoOne
                                               \/ votedFor'[j] = votedFor[j]
    BY DEF TermsGrow
  <2>1. term[j] \in Nat
    BY <1>i
  <2>2. CASE j = i
    BY <1>1, <2>1, <2>2
  <2>3. CASE j # i /\ j \in raised
    BY <1>1, <1>i, <2>1, <2>3
  <2>4. CASE j # i /\ j \notin raised /\ j \in grants
    <3>1. term'[j] = term[j] /\ votedFor'[j] = i
      BY <1>1, <2>4
    <3>2. j \in Q /\ Granted(j, i, new) /\ ~(new > term[j])
      BY <1>1, <2>4
    <3>3. votedFor[j] \in {NoOne, i}
      BY <3>2 DEF Granted
    <3> QED BY <2>1, <3>1, <3>3
  <2>5. CASE j # i /\ j \notin raised /\ j \notin grants
    BY <1>1, <2>1, <2>5
  <2> QED BY <2>2, <2>3, <2>4, <2>5
<1>6. LeadersKept(Server \ {i})
  <2> SUFFICES ASSUME NEW j \in Server \ {i}, state'[j] = "Leader"
               PROVE  state[j] = "Leader" /\ term'[j] = term[j] /\ log'[j] = log[j]
    BY DEF LeadersKept, Leads
  <2>1. j \notin raised
    BY <1>1
  <2> QED BY <1>1, <1>2, <2>1
<1>7. Requests' = Requests /\ Replies' = Replies
  BY <1>2 DEF Requests, Replies
<1>8. ASSUME NEW j \in Q, Granted(j, i, new)
      PROVE  term'[j] = new /\ votedFor'[j] = i
  <2>1. j \in Server /\ j # i /\ j \in grants /\ term[j] \in Nat
    BY <1>1, <1>i, <1>8
  <2>2. votedFor'[j] = i
    BY <1>1, <2>1
  <2>3. CASE j \in raised
    BY <1>1, <2>1, <2>3
  <2>4. CASE j \notin raised
    <3>1. term'[j] = term[j] /\ ~(new > term[j])
      BY <1>1, <2>1, <2>4
    <3>2. term[j] = new
      BY <1>8, <1>i, <2>1, <3>1 DEF Granted
    <3> QED BY <2>2, <3>1, <3>2
  <2> QED BY <2>2, <2>3, <2>4
<1>9. term'[i] = t /\ votedFor'[i] = vote /\ state'[i] = s
  BY <1>1
<1> QED BY <1>n, <1>2, <1>3, <1>4, <1>5, <1>6, <1>7, <1>8, <1>9 DEF RoundFits

LEMMA RoundTypes ==
    ASSUME Types, NEW i \in Server, NEW Q, NEW t, NEW vote, NEW s, Round(i, Q, t, vote, s),
           term' \in [Server -> Nat], votedFor' \in [Server -> Server \cup {NoOne}],
           state' \in [Server -> {"Follower", "Candidate", "Leader"}],
           starting' \in [Server -> BOOLEAN], leads' \in [Server -> Nat]
    PROVE  Types'
BY DEF Types, Round, Indices

LEMMA FailedRoundFits ==
    ASSUME LogInv, NEW i \in Server, NEW Q \in SUBSET (Server \ {i}),
           Undecided(i, Q) \/ \E j \in Q : Deposed(i, Q, j)
    PROVE  StepFits /\ Follows
<1>0. Types /\ \A m \in Replies : HintFits(m)
  BY DEF LogInv
<1>1. term[i] \in Nat /\ i \in Server \cup {NoOne} /\ NoOne \in Server \cup {NoOne}
  BY <1>0 DEF Types
<1>2. UNCHANGED <<starting, leads>>
  BY DEF Undecided, Deposed
<1>3. starting' \in [Server -> BOOLEAN] /\ leads' \in [Server -> Nat]
  BY <1>0, <1>2 DEF Types
<1>4. /\ Types' /\ Durable' /\ TermsGrow /\ LeadersKept(Server \ {i})
      /\ log' = log /\ Requests' = Requests /\ Replies' = Replies
      /\ state'[i] # "Leader"
  <2>1. CASE Undecided(i, Q)
    <3>1. Round(i, Q, term[i] + 1, i, "Candidate")
      BY <2>1 DEF Undecided
    <3>2. term[i] + 1 \in Nat /\ term[i] < term[i] + 1
      BY <1>1
    <3>3. /\ term' \in [Server -> Nat] /\ votedFor' \in [Server -> Server \cup {NoOne}]
          /\ state' \in [Server -> {"Follower", "Candidate", "Leader"}]
          /\ Durable' /\ TermsGrow /\ LeadersKept(Server \ {i})
          /\ log' = log /\ Requests' = Requests /\ Replies' = Replies
          /\ state'[i] = "Candidate"
      <4>1. RoundFits(i, Q, term[i] + 1, i, "Candidate")
        BY <1>1, <3>1, <3>2, RoundIs
      <4> QED BY <4>1 DEF RoundFits
    <3> QED BY <1>0, <1>3, <3>1, <3>3, RoundTypes
  <2>2. CASE \E j \in Q : Deposed(i, Q, j)
    <3>1. PICK j \in Q : Deposed(i, Q, j)
      BY <2>2
    <3>2. Round(i, Q, term[j], NoOne, "Follower") /\ term[j] > term[i] + 1
      BY <3>1 DEF Deposed
    <3>3. term[j] \in Nat /\ term[i] < term[j]
      BY SMTT(40), <1>0, <1>1, <3>2 DEF Types
    <3>4. /\ term' \in [Server -> Nat] /\ votedFor' \in [Server -> Server \cup {NoOne}]
          /\ state' \in [Server -> {"Follower", "Candidate", "Leader"}]
          /\ Durable' /\ TermsGrow /\ LeadersKept(Server \ {i})
          /\ log' = log /\ Requests' = Requests /\ Replies' = Replies
          /\ state'[i] = "Follower"
      <4>1. RoundFits(i, Q, term[j], NoOne, "Follower")
        BY <1>1, <3>2, <3>3, RoundIs
      <4> QED BY <4>1 DEF RoundFits
    <3> QED BY <1>0, <1>3, <3>2, <3>4, RoundTypes
  <2> QED BY <2>1, <2>2
<1>5. LeadersKept(Server)
  BY <1>4 DEF LeadersKept, Leads
<1>6. Follows
  BY <1>4, <1>5 DEF Follows, Takes
<1> QED BY <1>0, <1>4, <1>6 DEF StepFits

LEMMA ElectedFits ==
    ASSUME LogInv, NEW i \in Server, NEW Q \in SUBSET (Server \ {i}), Elected(i, Q)
    PROVE  StepFits /\ Wins(i)
<1>0. Types /\ Durable /\ \A m \in Replies : HintFits(m)
  BY DEF LogInv
<1>1. /\ Round(i, Q, term[i] + 1, i, "Leader") /\ state[i] # "Leader"
      /\ starting' = [starting EXCEPT ![i] = TRUE] /\ leads' = [leads EXCEPT ![i] = @ + 1]
      /\ Cardinality({j \in Q : Granted(j, i, term[i] + 1)}) + 1 >= Majority
  BY DEF Elected, MayCampaign
<1>2. term[i] \in Nat /\ term[i] + 1 \in Nat /\ term[i] < term[i] + 1
  BY <1>0 DEF Types
<1>3. /\ term' \in [Server -> Nat] /\ votedFor' \in [Server -> Server \cup {NoOne}]
      /\ state' \in [Server -> {"Follower", "Candidate", "Leader"}]
      /\ Durable' /\ TermsGrow /\ LeadersKept(Server \ {i})
      /\ log' = log /\ Requests' = Requests /\ Replies' = Replies
      /\ term'[i] = term[i] + 1 /\ votedFor'[i] = i
      /\ \A j \in Q : Granted(j, i, term[i] + 1) => term'[j] = term[i] + 1 /\ votedFor'[j] = i
  <2>1. RoundFits(i, Q, term[i] + 1, i, "Leader")
    BY <1>1, <1>2, RoundIs
  <2> QED BY <2>1 DEF RoundFits
<1>4. Types'
  <2>1. starting' \in [Server -> BOOLEAN] /\ leads' \in [Server -> Nat]
    BY SMTT(60), <1>0, <1>1 DEF Types
  <2> QED BY <1>0, <1>1, <1>3, <2>1, RoundTypes
<1>5. PICK grants : grants = {j \in Q : Granted(j, i, term[i] + 1)}
  OBVIOUS
<1>6. PICK V : V = grants \cup {i}
  OBVIOUS
<1>7. V \in Quorums
  <2>1. grants \in SUBSET Server /\ i \notin grants /\ V \in SUBSET Server
    BY <1>5, <1>6
  <2>2. IsFiniteSet(grants)
    BY <2>1, ServerAssumption, FS_Subset
  <2>3. Cardinality(V) = Cardinality(grants) + 1
    BY <1>6, <2>1, <2>2, FS_AddElement
  <2> QED BY <1>1, <1>5, <2>1, <2>3 DEF Quorums
<1>8. Votes(i, V)
  <2> SUFFICES ASSUME NEW j \in V
               PROVE  /\ \/ term[j] < term[i] + 1
                         \/ term[j] = term[i] + 1 /\ votedFor[j] \in {NoOne, i}
                      /\ term'[j] = term[i] + 1 /\ votedFor'[j] = i
                      /\ UpToDate(log[i], log[j])
    BY DEF Votes
  <2>1. CASE j = i
    <3>1. log[i] \in Seq(Nat) /\ Len(log[i]) \in Nat
      BY <1>0 DEF Types
    <3> QED BY <1>2, <1>3, <2>1, <3>1 DEF UpToDate
  <2>2. CASE j # i
    <3>1. j \in Q /\ Granted(j, i, term[i] + 1) /\ term[j] \in Nat
      BY <1>0, <1>5, <1>6, <2>2 DEF Types
    <3>2. term'[j] = term[i] + 1 /\ votedFor'[j] = i
      BY <1>3, <3>1
    <3>3. UpToDate(log[i], log[j])
      BY <3>1 DEF Granted
    <3>4. \/ term[j] < term[i] + 1
          \/ term[j] = term[i] + 1 /\ votedFor[j] \in {NoOne, i}
      BY <1>2, <3>1 DEF Granted
    <3> QED BY <3>2, <3>3, <3>4
  <2> QED BY <2>1, <2>2
<1>9. Wins(i)
  BY <1>1, <1>3, <1>6, <1>7, <1>8 DEF Wins, Leads
<1> QED BY <1>0, <1>3, <1>4, <1>9 DEF StepFits

\* Every step is of one of the four kinds.
LEMMA KindsOfSteps ==
    ASSUME LogInv, [Next]_vars
    PROVE  StepFits
<1>1. CASE Next
  <2>1. CASE \E m \in msgs : \/ ReceiveAppend(m.dest, m) \/ Lose(m)
                             \/ RefuseAppend(m.dest, m) \/ MismatchAppend(m.dest, m)
                             \/ AcceptAppend(m.dest, m)
    BY <2>1, ReceiveFits, LoseFits, RefuseFits, MismatchFits, AcceptFits
  <2>2. ASSUME NEW i \in Server, InitLeader(i) \/ Start(i) \/ Apply(i) \/ Restart(i)
        PROVE  StepFits
    BY <2>2, InitLeaderFits, StartFits, ApplyFits, RestartFits
  <2>3. ASSUME NEW i \in Server, NEW j \in Server, SendAppend(i, j)
        PROVE  StepFits
    BY <2>3, SendAppendFits
  <2>4. ASSUME NEW i \in Server, NEW Q \in SUBSET (Server \ {i}),
               Elected(i, Q) \/ Undecided(i, Q) \/ \E j \in Q : Deposed(i, Q, j)
        PROVE  StepFits
    BY <2>4, ElectedFits, FailedRoundFits
  <2>5. ASSUME NEW i \in Server, NEW N \in 1..Len(log[i]), Commit(i, N)
        PROVE  StepFits
    BY <2>5, CommitFitsStep
  <2> QED BY <1>1, <2>1, <2>2, <2>3, <2>4, <2>5 DEF Next
<1>2. CASE UNCHANGED vars
  BY <1>2, StutterFits
<1> QED BY <1>1, <1>2

-----------------------------------------------------------------------------
(* Elections and logs. *)

\* Logs are sequences of terms.
LEMMA LogTypes ==
    ASSUME Types
    PROVE  /\ Logs \subseteq Seq(Nat)
           /\ \A i \in Server : log[i] \in Logs /\ log[i] \in Seq(Nat) /\ Len(log[i]) \in Nat
           /\ \A m \in Requests : m.full \in Logs
<1>1. \A i \in Server : log[i] \in Logs /\ log[i] \in Seq(Nat) /\ Len(log[i]) \in Nat
  BY DEF Types, Logs
<1>2. \A m \in Requests : m.full \in Logs /\ m.full \in Seq(Nat)
  BY RequestTypes DEF Logs
<1> QED BY <1>1, <1>2 DEF Logs

\* Unless a command is written, every log was there before.
LEMMA SameLogs ==
    ASSUME Types,
           \/ Follows
           \/ \E i \in Server : Wins(i) \/ \E j \in Server : Sends(i, j)
    PROVE  /\ Logs' \subseteq Logs
           /\ TermsGrow /\ \A j \in Server : Takes(j)
<1>1. \A j \in Server : log[j] \in Logs
  BY LogTypes
<1>2. \A m \in Requests : m.full \in Logs
  BY LogTypes
<1>3. CASE Follows
  <2>1. \A j \in Server : log'[j] \in Logs
    BY <1>1, <1>2, <1>3 DEF Follows, Takes
  <2>2. \A m \in Requests' : m.full \in Logs
    BY <1>2, <1>3 DEF Follows
  <2> QED BY <1>3, <2>1, <2>2 DEF Logs, Follows
<1>4. ASSUME NEW i \in Server, Wins(i)
      PROVE  Logs' \subseteq Logs /\ TermsGrow /\ \A j \in Server : Takes(j)
  <2>1. log' = log /\ Requests' = Requests /\ TermsGrow
    BY <1>4 DEF Wins
  <2> QED BY <2>1 DEF Logs, Takes
<1>5. ASSUME NEW i \in Server, NEW j \in Server, Sends(i, j)
      PROVE  Logs' \subseteq Logs /\ TermsGrow /\ \A k \in Server : Takes(k)
  <2>1. log' = log /\ Requests' = Requests \cup {AppendRequest(i, j)}
        /\ term' = term /\ votedFor' = votedFor
    BY <1>5 DEF Sends
  <2>2. AppendRequest(i, j).full = log[i]
    BY DEF AppendRequest
  <2>3. \A m \in Requests' : m.full \in Logs
    BY <1>1, <1>2, <2>1, <2>2
  <2>4. TermsGrow
    BY <2>1 DEF TermsGrow, Types
  <2> QED BY <1>1, <2>1, <2>3, <2>4 DEF Logs, Takes
<1> QED BY <1>3, <1>4, <1>5

LEMMA LogsFitStays ==
    ASSUME LogInv, Types', TermsGrow, Logs' \subseteq Logs, \A j \in Server : Takes(j)
    PROVE  LogsFit'
<1>0. Types /\ LogsFit /\ \A m \in Requests : RequestFits(m)
  BY DEF LogInv
<1>1. \A l \in Logs' : \A x \in 1..Len(l) : l[x] > 0 /\ \E i \in Server : Won(i, l[x])'
  <2> SUFFICES ASSUME NEW l \in Logs', NEW x \in 1..Len(l)
               PROVE  l[x] > 0 /\ \E i \in Server : Won(i, l[x])'
    OBVIOUS
  <2>1. l \in Logs /\ l \in Seq(Nat)
    BY <1>0, LogTypes
  <2>2. l[x] \in Nat
    BY <2>1, ElementOfSeq
  <2>3. PICK i \in Server : l[x] > 0 /\ Won(i, l[x])
    BY <1>0, <2>1 DEF LogsFit
  <2>4. Won(i, l[x])'
    BY <1>0, <2>2, <2>3, WonStays
  <2> QED BY <2>3, <2>4
<1>2. \A l \in Logs' : \A x, y \in 1..Len(l) : x <= y => l[x] <= l[y]
  BY <1>0 DEF LogsFit
<1>3. \A l, k \in Logs' : Agree(l, k)
  BY <1>0 DEF LogsFit
<1>4. \A i \in Server : \A x \in 1..Len(log'[i]) : log'[i][x] <= term'[i]
  <2> SUFFICES ASSUME NEW i \in Server, NEW x \in 1..Len(log'[i])
               PROVE  log'[i][x] <= term'[i]
    OBVIOUS
  <2>1. /\ term[i] \in Nat /\ term'[i] \in Nat /\ term[i] <= term'[i]
        /\ log[i] \in Seq(Nat)
    BY <1>0 DEF Types, TermsGrow
  <2>2. CASE log'[i] = log[i]
    <3>1. log[i][x] \in Nat /\ log[i][x] <= term[i]
      BY <1>0, <2>1, <2>2, ElementOfSeq DEF LogsFit
    <3> QED BY SMTT(40), <2>1, <2>2, <3>1
  <2>3. CASE log'[i] # log[i]
    <3>1. PICK m \in Requests : term'[i] = m.term /\ log'[i] = m.full
      BY <2>3 DEF Takes
    <3> QED BY <1>0, <3>1 DEF RequestFits
  <2> QED BY <2>2, <2>3
<1> QED BY <1>1, <1>2, <1>3, <1>4 DEF LogsFit

LEMMA LeadersFitStays ==
    ASSUME LogInv, Types', TermsGrow, LeadersKept(Server)
    PROVE  LeadersFit'
<1>0. Types /\ LeadersFit
  BY DEF LogInv
<1>1. ASSUME NEW i \in Server, Leads(i)'
      PROVE  Won(i, term[i])' /\ term'[i] > 0
  <2>1. Leads(i) /\ term'[i] = term[i]
    BY <1>1 DEF LeadersKept
  <2>2. Won(i, term[i]) /\ term[i] > 0 /\ term[i] \in Nat
    BY <1>0, <2>1 DEF LeadersFit, Types
  <2>3. PICK t \in Nat : t = term[i]
    BY <2>2
  <2>4. Won(i, t)'
    BY <1>0, <2>2, <2>3, WonStays
  <2>5. t = term'[i]
    BY <2>1, <2>3
  <2> QED BY <2>1, <2>2, <2>4, <2>5 DEF Won
<1>2. ASSUME NEW i \in Server, NEW j \in Server, Leads(i)', Leads(j)', term'[i] = term'[j]
      PROVE  i = j
  <2>1. Leads(i) /\ Leads(j) /\ term[i] = term[j]
    BY <1>2 DEF LeadersKept
  <2> QED BY <1>0, <2>1 DEF LeadersFit
<1> QED BY <1>1, <1>2 DEF LeadersFit

LEMMA LeaderHasAllStays ==
    ASSUME LogInv, Logs' \subseteq Logs, LeadersKept(Server)
    PROVE  LeaderHasAll'
<1> SUFFICES ASSUME NEW i \in Server, Leads(i)', NEW l \in Logs', NEW x \in 1..Len(l),
                    l[x] = term'[i]
             PROVE  Same(l, log'[i], x)
  BY DEF LeaderHasAll
<1>1. Leads(i) /\ term'[i] = term[i] /\ log'[i] = log[i] /\ l \in Logs
  BY DEF LeadersKept
<1>2. Same(l, log[i], x)
  BY <1>1 DEF LogInv, LeaderHasAll
<1> QED BY <1>1, <1>2

LEMMA RequestFitsStays ==
    ASSUME LogInv, Types', TermsGrow, Logs' \subseteq Logs, LeadersKept(Server),
           NEW m \in Requests
    PROVE  RequestFits(m)'
<1>0. Types /\ RequestFits(m)
  BY DEF LogInv
<1>1. m.term \in Nat /\ m.src \in Server
  BY <1>0, RequestTypes
<1>2. Won(m.src, m.term)'
  BY <1>0, <1>1, WonStays DEF RequestFits
<1>3. \A l \in Logs' : \A x \in 1..Len(l) :
        l[x] = m.term => Same(l, m.full, Lesser(x, Len(m.full)))
  BY <1>0 DEF RequestFits
<1>4. \A i \in Server : Leads(i)' /\ term'[i] = m.term => i = m.src /\ Starts(m.full, log'[i])
  BY <1>0 DEF RequestFits, LeadersKept
<1> QED BY <1>0, <1>2, <1>3, <1>4 DEF RequestFits

LEMMA FollowsKeepsInv ==
    ASSUME LogInv, StepFits, Follows
    PROVE  LogInv'
<1>1. Types /\ Types' /\ Durable' /\ (\A m \in Replies' : HintFits(m)) /\ LeadersKept(Server)
      /\ Requests' \subseteq Requests
  BY DEF StepFits, LogInv, Follows
<1>2. TermsGrow /\ Logs' \subseteq Logs /\ \A j \in Server : Takes(j)
  BY <1>1, SameLogs
<1>3. LogsFit' /\ LeadersFit' /\ LeaderHasAll'
  BY <1>1, <1>2, LogsFitStays, LeadersFitStays, LeaderHasAllStays
<1>4. \A m \in Requests' : RequestFits(m)'
  BY <1>1, <1>2, RequestFitsStays
<1> QED BY <1>1, <1>3, <1>4 DEF LogInv

LEMMA SendsKeepsInv ==
    ASSUME LogInv, StepFits, NEW i \in Server, NEW j \in Server, Sends(i, j)
    PROVE  LogInv'
<1>1. Types /\ Types' /\ Durable' /\ (\A m \in Replies' : HintFits(m))
  BY DEF StepFits, LogInv
<1>2. TermsGrow /\ Logs' \subseteq Logs /\ \A k \in Server : Takes(k)
  BY <1>1, SameLogs
<1>3. LeadersKept(Server)
  BY DEF Sends, LeadersKept, Leads
<1>4. LogsFit' /\ LeadersFit' /\ LeaderHasAll'
  BY <1>1, <1>2, <1>3, LogsFitStays, LeadersFitStays, LeaderHasAllStays
<1>5. ASSUME NEW m, m = AppendRequest(i, j)
      PROVE  RequestFits(m)'
  <2>1. /\ m.src = i /\ m.dest = j /\ m.term = term[i] /\ m.full = log[i]
        /\ m.prev = nextIndex[i][j] - 1
        /\ m.prevTerm = Entry(log[i], nextIndex[i][j] - 1)
        /\ m.entries = SubSeq(log[i], nextIndex[i][j] - 1 + 1, Len(log[i]))
    BY <1>5 DEF AppendRequest
  <2>2. /\ Leads(i) /\ i # j /\ term' = term /\ log' = log /\ votedFor' = votedFor
        /\ state' = state /\ nextIndex[i][j] <= Len(log[i]) + 1
    BY DEF Sends
  <2>3. nextIndex[i][j] \in Nat \ {0} /\ log[i] \in Seq(Nat) /\ Len(log[i]) \in Nat
        /\ term[i] \in Nat
    BY <1>1 DEF Types
  <2>4. m.src # m.dest /\ m.prev <= Len(m.full) /\ m.prevTerm = Entry(m.full, m.prev)
        /\ m.entries = SubSeq(m.full, m.prev + 1, Len(m.full))
    BY <2>1, <2>2, <2>3
  <2>5. \A x \in 1..Len(m.full) : m.full[x] <= m.term
    BY <2>1 DEF LogInv, LogsFit
  <2>6. m.term > 0 /\ Won(i, term[i]) /\ term[i] > 0
    BY <2>1, <2>2 DEF LogInv, LeadersFit
  <2>7. Won(m.src, m.term)'
    <3>1. PICK t \in Nat : t = term[i]
      BY <2>3
    <3>2. Won(i, t)'
      BY <1>1, <1>2, <2>6, <3>1, WonStays
    <3>3. m.term = t /\ m.src = i
      BY <2>1, <3>1
    <3> QED BY <3>2, <3>3
  <2>8. \A l \in Logs' : \A x \in 1..Len(l) :
          l[x] = m.term => Same(l, m.full, Lesser(x, Len(m.full)))
    <3> SUFFICES ASSUME NEW l \in Logs', NEW x \in 1..Len(l), l[x] = m.term
                 PROVE  Same(l, m.full, Lesser(x, Len(m.full)))
      OBVIOUS
    <3>1. Same(l, log[i], x)
      BY <1>2, <2>1, <2>2 DEF LogInv, LeaderHasAll
    <3>2. Lesser(x, Len(log[i])) = x
      BY <2>3, <3>1 DEF Same, Lesser
    <3> QED BY <2>1, <3>1, <3>2
  <2>9. ASSUME NEW k \in Server, Leads(k)', term'[k] = m.term
        PROVE  k = m.src /\ Starts(m.full, log'[k])
    <3>1. Leads(k) /\ term[k] = term[i]
      BY <2>1, <2>2, <2>9 DEF Leads
    <3>2. k = i
      BY <2>2, <3>1 DEF LogInv, LeadersFit
    <3>3. Starts(log[i], log[i])
      BY <2>3 DEF Starts, Same
    <3> QED BY <2>1, <2>2, <3>2, <3>3
  <2> QED BY <2>4, <2>5, <2>6, <2>7, <2>8, <2>9 DEF RequestFits
<1>6. \A m \in Requests' : RequestFits(m)'
  <2>1. \A m \in Requests : RequestFits(m)'
    BY <1>1, <1>2, <1>3, RequestFitsStays
  <2>2. Requests' = Requests \cup {AppendRequest(i, j)}
    BY DEF Sends
  <2> QED BY <1>5, <2>1, <2>2
<1> QED BY <1>1, <1>4, <1>6 DEF LogInv

\* The term of an election is new to every log, request and leader.
LEMMA WinsAreNew ==
    ASSUME LogInv, NEW i \in Server, Wins(i)
    PROVE  /\ \A l \in Logs : \A x \in 1..Len(l) : l[x] # term[i] + 1
           /\ \A m \in Requests : m.term # term[i] + 1
           /\ \A j \in Server : Leads(j) => term[j] # term[i] + 1
<1>0. Types /\ LogsFit /\ LeadersFit /\ \A m \in Requests : RequestFits(m)
  BY DEF LogInv
<1>1. \A k \in Server : ~Won(k, term[i] + 1)
  BY <1>0, NobodyWon
<1>2. \A l \in Logs : \A x \in 1..Len(l) : l[x] # term[i] + 1
  BY <1>0, <1>1 DEF LogsFit
<1>3. \A m \in Requests : m.term # term[i] + 1
  BY <1>0, <1>1, RequestTypes DEF RequestFits
<1>4. \A j \in Server : Leads(j) => term[j] # term[i] + 1
  BY <1>0, <1>1 DEF LeadersFit
<1> QED BY <1>2, <1>3, <1>4

LEMMA WinsKeepsInv ==
    ASSUME LogInv, StepFits, NEW i \in Server, Wins(i)
    PROVE  LogInv'
<1>1. Types /\ Types' /\ Durable' /\ (\A m \in Replies' : HintFits(m))
  BY DEF StepFits, LogInv
<1>2. TermsGrow /\ Logs' \subseteq Logs /\ \A k \in Server : Takes(k)
  BY <1>1, SameLogs
<1>3. LogsFit'
  BY <1>1, <1>2, LogsFitStays
<1>4. /\ term[i] \in Nat /\ term'[i] = term[i] + 1 /\ log' = log /\ Requests' = Requests
      /\ \A j \in Server \ {i} : Leads(j)' => Leads(j) /\ term'[j] = term[j]
  BY <1>1 DEF Wins, LeadersKept, Types
<1>5. LeadersFit'
  <2>1. Won(i, term[i])'
    <3>1. PICK V \in Quorums : i \in V /\ Votes(i, V)
      BY DEF Wins
    <3>2. \A j \in V : term'[j] = term'[i] /\ votedFor'[j] = i
      BY <1>4, <3>1 DEF Votes
    <3>3. term'[i] <= term'[i]
      BY <1>4
    <3> QED BY <3>2, <3>3 DEF Won, Quorums
  <2>2. term'[i] > 0
    BY <1>4
  <2>3. ASSUME NEW j \in Server \ {i}, Leads(j)'
        PROVE  Won(j, term[j])' /\ term'[j] > 0 /\ term'[j] # term'[i]
    <3>1. Leads(j) /\ term'[j] = term[j]
      BY <1>4, <2>3
    <3>2. Won(j, term[j]) /\ term[j] > 0 /\ term[j] \in Nat
      BY <1>1, <3>1 DEF LogInv, LeadersFit, Types
    <3>3. PICK t \in Nat : t = term[j]
      BY <3>2
    <3>4. Won(j, t)'
      BY <1>1, <1>2, <3>2, <3>3, WonStays
    <3>5. term[j] # term[i] + 1
      BY <3>1, WinsAreNew
    <3>6. t = term'[j]
      BY <3>1, <3>3
    <3> QED BY <1>4, <3>1, <3>2, <3>4, <3>5, <3>6 DEF Won
  <2>4. ASSUME NEW j \in Server, NEW k \in Server, Leads(j)', Leads(k)', term'[j] = term'[k]
        PROVE  j = k
    <3>1. CASE j # i /\ k # i
      <4>1. Leads(j) /\ Leads(k) /\ term[j] = term[k]
        BY <1>4, <2>4, <3>1
      <4> QED BY <4>1 DEF LogInv, LeadersFit
    <3> QED BY <2>3, <2>4, <3>1
  <2> QED BY <2>1, <2>2, <2>3, <2>4 DEF LeadersFit
<1>6. LeaderHasAll'
  <2> SUFFICES ASSUME NEW j \in Server, Leads(j)', NEW l \in Logs', NEW x \in 1..Len(l),
                      l[x] = term'[j]
               PROVE  Same(l, log'[j], x)
    BY DEF LeaderHasAll
  <2>1. j # i
    BY <1>2, <1>4, WinsAreNew
  <2>2. Leads(j) /\ term'[j] = term[j] /\ l \in Logs
    BY <1>2, <1>4, <2>1
  <2> QED BY <1>4, <2>2 DEF LogInv, LeaderHasAll
<1>7. ASSUME NEW m \in Requests
      PROVE  RequestFits(m)'
  <2>1. m.term \in Nat /\ m.src \in Server /\ RequestFits(m)
    BY <1>1, RequestTypes DEF LogInv
  <2>2. Won(m.src, m.term)'
    BY <1>1, <1>2, <2>1, WonStays DEF RequestFits
  <2>3. \A l \in Logs' : \A x \in 1..Len(l) :
          l[x] = m.term => Same(l, m.full, Lesser(x, Len(m.full)))
    BY <1>2, <2>1 DEF RequestFits
  <2>4. ASSUME NEW j \in Server, Leads(j)', term'[j] = m.term
        PROVE  j = m.src /\ Starts(m.full, log'[j])
    <3>1. j # i
      BY <1>4, <2>4, WinsAreNew
    <3> QED BY <1>4, <2>1, <2>4, <3>1 DEF RequestFits
  <2> QED BY <2>1, <2>2, <2>3, <2>4 DEF RequestFits
<1> QED BY <1>1, <1>3, <1>4, <1>5, <1>6, <1>7 DEF LogInv

LEMMA WritesKeepsInv ==
    ASSUME LogInv, StepFits, NEW i \in Server, Writes(i)
    PROVE  LogInv'
<1>1. /\ Types /\ Types' /\ Durable' /\ (\A m \in Replies' : HintFits(m))
      /\ LogsFit /\ LeadersFit /\ LeaderHasAll /\ \A m \in Requests : RequestFits(m)
  BY DEF StepFits, LogInv
<1>2. PICK t \in Nat, l0 \in Seq(Nat), n \in Nat, l1 \in Seq(Nat) :
        /\ t = term[i] /\ l0 = log[i] /\ n = Len(l0) /\ l1 = Append(l0, t)
  <2>1. term[i] \in Nat /\ log[i] \in Seq(Nat) /\ Len(log[i]) \in Nat
    BY <1>1 DEF Types
  <2> QED BY <2>1, AppendFacts
<1>3. /\ l1 \in Seq(Nat) /\ Len(l1) = n + 1 /\ l1[n + 1] = t /\ Same(l0, l1, n)
      /\ l0 \in Seq(Nat) /\ n = Len(l0) /\ n \in Nat /\ t \in Nat
  BY <1>2, AppendFacts
<1>4. /\ Leads(i) /\ term' = term /\ votedFor' = votedFor /\ state' = state
      /\ Requests' = Requests
      /\ log'[i] = l1 /\ \A j \in Server \ {i} : log'[j] = log[j]
  BY <1>1, <1>2 DEF Writes, Types
<1>5. \A l \in Logs' : l \in Logs \/ l = l1
  BY <1>4 DEF Logs
<1>6. l0 \in Logs /\ Logs \subseteq Seq(Nat)
  BY <1>1, <1>2, LogTypes
<1>7. ASSUME NEW j \in Server, NEW u \in Nat, Won(j, u)
      PROVE  Won(j, u)'
  BY <1>4, <1>7 DEF Won, Quorums
\* What the new log has of the old ones.
<1>8. /\ \A x \in 1..n : l1[x] = l0[x]
      /\ \A x \in 1..n + 1 : x \in 1..n \/ x = n + 1
  BY <1>3 DEF Same
<1>9. Leads(i) /\ Won(i, t) /\ t > 0 /\ \A x \in 1..n : l0[x] <= t
  BY <1>1, <1>2, <1>4 DEF LeadersFit, LogsFit
<1>10. ASSUME NEW l \in Logs, NEW x \in 1..Len(l), l[x] = t
       PROVE  Same(l, l0, x) /\ x <= n
  <2>1. Same(l, l0, x)
    BY <1>1, <1>2, <1>4, <1>10 DEF LeaderHasAll
  <2> QED BY <1>3, <2>1 DEF Same
<1>11. LogsFit'
  <2>1. \A l \in Logs' : \A x \in 1..Len(l) : l[x] > 0 /\ \E j \in Server : Won(j, l[x])'
    <3> SUFFICES ASSUME NEW l \in Logs', NEW x \in 1..Len(l)
                 PROVE  l[x] > 0 /\ \E j \in Server : Won(j, l[x])'
      OBVIOUS
    <3>1. ASSUME NEW k \in Logs, NEW y \in 1..Len(k)
          PROVE  k[y] > 0 /\ \E j \in Server : Won(j, k[y])'
      <4>1. k[y] \in Nat
        BY <1>6, ElementOfSeq
      <4>2. k[y] > 0 /\ \E j \in Server : Won(j, k[y])
        BY <1>1 DEF LogsFit
      <4> QED BY <1>7, <4>1, <4>2
    <3>2. CASE l \in Logs
      BY <3>1, <3>2
    <3>3. CASE l = l1
      <4>1. CASE x \in 1..n
        BY <1>3, <1>6, <1>8, <3>1, <3>3, <4>1
      <4>2. CASE x = n + 1
        <5>1. Won(i, t)'
          BY <1>7, <1>9, <1>3
        <5> QED BY <1>3, <1>9, <3>3, <4>2, <5>1
      <4> QED BY <1>3, <1>8, <3>3, <4>1, <4>2
    <3> QED BY <1>5, <3>2, <3>3
  <2>2. \A l \in Logs' : \A x, y \in 1..Len(l) : x <= y => l[x] <= l[y]
    <3>1. ASSUME NEW x \in 1..n + 1, NEW y \in 1..n + 1, x <= y
          PROVE  l1[x] <= l1[y]
      <4>1. \A z \in 1..n : l0[z] \in Nat
        BY <1>3, ElementOfSeq
      <4>2. CASE y \in 1..n
        <5>1. x \in 1..n
          BY <1>3, <3>1, <4>2
        <5> QED BY <1>1, <1>3, <1>6, <1>8, <3>1, <4>2, <5>1 DEF LogsFit
      <4>3. CASE y = n + 1 /\ x \in 1..n
        BY <1>3, <1>8, <1>9, <4>3
      <4>4. CASE y = n + 1 /\ x = n + 1
        BY <1>3, <4>4
      <4> QED BY <1>8, <4>2, <4>3, <4>4
    <3> QED BY <1>1, <1>3, <1>5, <3>1 DEF LogsFit
  <2>3. \A l, k \in Logs' : Agree(l, k)
    <3>1. ASSUME NEW k \in Logs
          PROVE  Agree(l1, k)
      <4> SUFFICES ASSUME NEW x \in 1..Len(l1), NEW y \in 1..Len(k), x <= y, l1[x] = k[y]
                   PROVE  Same(l1, k, x)
        BY DEF Agree
      <4>1. k \in Seq(Nat) /\ Len(k) \in Nat
        BY <1>6
      <4>2. CASE x \in 1..n
        <5>1. Agree(l0, k) /\ l0[x] = k[y]
          BY <1>1, <1>6, <1>8, <4>2 DEF LogsFit
        <5>2. Same(l0, k, x)
          BY <1>3, <4>2, <5>1 DEF Agree
        <5> QED BY <1>3, <1>8, <4>2, <5>2 DEF Same
      <4>3. CASE x = n + 1
        <5>1. k[y] = t
          BY <1>3, <4>3
        <5>2. y <= n
          BY <1>10, <5>1
        <5> QED BY <1>3, <4>1, <4>3, <5>2
      <4> QED BY <1>3, <1>8, <4>2, <4>3
    <3>2. ASSUME NEW k \in Logs
          PROVE  Agree(k, l1)
      <4> SUFFICES ASSUME NEW x \in 1..Len(k), NEW y \in 1..Len(l1), x <= y, k[x] = l1[y]
                   PROVE  Same(k, l1, x)
        BY DEF Agree
      <4>1. k \in Seq(Nat) /\ Len(k) \in Nat
        BY <1>6
      <4>2. Same(k, l0, x)
        <5>1. CASE y \in 1..n
          <6>1. Agree(k, l0) /\ k[x] = l0[y]
            BY <1>1, <1>6, <1>8, <5>1 DEF LogsFit
          <6> QED BY <1>3, <5>1, <6>1 DEF Agree
        <5>2. CASE y = n + 1
          BY <1>3, <1>10, <5>2
        <5> QED BY <1>3, <1>8, <5>1, <5>2
      <4> QED BY SMTT(40), <1>3, <1>8, <4>1, <4>2 DEF Same
    <3>3. Agree(l1, l1)
      <4>1. \A x \in 1..Len(l1) : Same(l1, l1, x)
        BY <1>3 DEF Same
      <4> QED BY <4>1 DEF Agree
    <3> QED BY <1>1, <1>5, <3>1, <3>2, <3>3 DEF LogsFit
  <2>4. \A j \in Server : \A x \in 1..Len(log'[j]) : log'[j][x] <= term'[j]
    <3> SUFFICES ASSUME NEW j \in Server, NEW x \in 1..Len(log'[j])
                 PROVE  log'[j][x] <= term'[j]
      OBVIOUS
    <3>1. CASE j # i
      BY <1>1, <1>4, <3>1 DEF LogsFit
    <3>2. CASE j = i
      <4>1. \A y \in 1..n + 1 : l1[y] <= t
        BY SMTT(40), <1>3, <1>8, <1>9
      <4>2. log'[j] = l1 /\ term'[j] = t /\ x \in 1..n + 1
        BY <1>2, <1>3, <1>4, <3>2
      <4> QED BY <4>1, <4>2
    <3> QED BY <3>1, <3>2
  <2> QED BY <2>1, <2>2, <2>3, <2>4 DEF LogsFit
<1>12. LeadersFit'
  <2>1. ASSUME NEW j \in Server, Leads(j)'
        PROVE  Won(j, term[j])' /\ term'[j] > 0
    BY <1>1, <1>4, <2>1 DEF LeadersFit, Leads, Won, Quorums
  <2> QED BY <1>1, <1>4, <2>1 DEF LeadersFit, Leads
<1>13. LeaderHasAll'
  <2> SUFFICES ASSUME NEW j \in Server, Leads(j)', NEW l \in Logs', NEW x \in 1..Len(l),
                      l[x] = term'[j]
               PROVE  Same(l, log'[j], x)
    BY DEF LeaderHasAll
  <2>1. Leads(j) /\ l[x] = term[j]
    BY <1>4 DEF Leads
  <2>2. CASE j = i
    <3>1. CASE l \in Logs
      <4>1. l[x] = t
        BY <1>2, <2>1, <2>2
      <4>2. Same(l, l0, x) /\ x <= n
        BY <1>10, <3>1, <4>1
      <4>3. Len(l) \in Nat /\ \A y \in 1..x : y \in 1..n
        BY SMTT(40), <1>3, <1>6, <3>1, <4>2
      <4>4. Same(l, l1, x)
        BY <1>3, <1>8, <4>2, <4>3 DEF Same
      <4> QED BY <1>4, <2>2, <4>4
    <3>2. CASE l = l1
      BY SMTT(60), <1>3, <1>4, <2>2, <3>2 DEF Same
    <3> QED BY <1>5, <3>1, <3>2
  <2>3. CASE j # i
    <3>1. l \in Logs \/ (l = l1 /\ x \in 1..n)
      <4>1. term[j] # t
        BY <1>1, <1>2, <1>4, <2>1, <2>3 DEF LeadersFit
      <4> QED BY <1>3, <1>5, <1>8, <2>1, <4>1
    <3>2. log'[j] = log[j]
      BY <1>4, <2>3
    <3>3. CASE l \in Logs
      BY <1>1, <2>1, <3>2, <3>3 DEF LeaderHasAll
    <3>4. CASE l = l1 /\ x \in 1..n
      <4>1. l0[x] = term[j]
        BY <1>8, <2>1, <3>4
      <4>2. Same(l0, log[j], x)
        BY <1>1, <1>3, <1>6, <2>1, <3>4, <4>1 DEF LeaderHasAll
      <4> QED BY <1>3, <1>8, <3>2, <3>4, <4>2 DEF Same
    <3> QED BY <3>1, <3>3, <3>4
  <2> QED BY <2>2, <2>3
<1>14. ASSUME NEW m \in Requests
       PROVE  RequestFits(m)'
  <2>1. /\ m.term \in Nat /\ m.src \in Server /\ RequestFits(m) /\ m.full \in Seq(Nat)
        /\ Len(m.full) \in Nat
    BY <1>1, RequestTypes
  <2>2. Won(m.src, m.term)'
    BY <1>7, <2>1 DEF RequestFits
  <2>3. ASSUME NEW l \in Logs', NEW x \in 1..Len(l), l[x] = m.term
        PROVE  Same(l, m.full, Lesser(x, Len(m.full)))
    <3>1. CASE l \in Logs
      BY <2>1, <2>3, <3>1 DEF RequestFits
    <3>2. CASE l = l1 /\ x \in 1..n
      <4>1. Same(l0, m.full, Lesser(x, Len(m.full)))
        BY <1>3, <1>6, <1>8, <2>1, <2>3, <3>2 DEF RequestFits
      <4>2. Lesser(x, Len(m.full)) <= n /\ Lesser(x, Len(m.full)) \in Nat
        BY SMTT(40), <1>3, <2>1, <3>2 DEF Lesser
      <4> QED BY SMTT(40), <1>3, <1>8, <3>2, <4>1, <4>2 DEF Same
    <3>3. CASE l = l1 /\ x = n + 1
      <4>1. Starts(m.full, l0)
        BY <1>2, <1>3, <1>4, <2>1, <2>3, <3>3 DEF RequestFits
      <4>2. Len(m.full) <= n /\ \A y \in 1..Len(m.full) : m.full[y] = l0[y]
        BY <1>3, <4>1 DEF Starts, Same
      <4>3. Lesser(x, Len(m.full)) = Len(m.full)
        BY <1>3, <2>1, <3>3, <4>2 DEF Lesser
      <4> QED BY <1>3, <1>8, <2>1, <3>3, <4>2, <4>3 DEF Same
    <3> QED BY <1>3, <1>5, <1>8, <3>1, <3>2, <3>3
  <2>4. ASSUME NEW j \in Server, Leads(j)', term'[j] = m.term
        PROVE  j = m.src /\ Starts(m.full, log'[j])
    <3>1. j = m.src /\ Starts(m.full, log[j])
      BY <1>4, <2>1, <2>4 DEF RequestFits, Leads
    <3>2. CASE j # i
      BY <1>4, <3>1, <3>2
    <3>3. CASE j = i
      <4>1. Starts(m.full, l0)
        BY <1>2, <3>1, <3>3
      <4>2. Starts(m.full, l1)
        <5>1. Len(m.full) <= n /\ \A y \in 1..Len(m.full) : m.full[y] = l0[y]
          BY <1>3, <4>1 DEF Starts, Same
        <5>2. \A y \in 1..Len(m.full) : y \in 1..n
          BY <1>3, <2>1, <5>1
        <5>3. \A y \in 1..Len(m.full) : m.full[y] = l1[y]
          BY <1>8, <5>1, <5>2
        <5> QED BY <1>3, <2>1, <5>1, <5>3 DEF Starts, Same
      <4> QED BY <1>4, <3>1, <3>3, <4>2
    <3> QED BY <3>2, <3>3
  <2> QED BY <2>1, <2>2, <2>3, <2>4 DEF RequestFits
<1> QED BY <1>1, <1>4, <1>11, <1>12, <1>13, <1>14 DEF LogInv

LEMMA LogInit ==
    ASSUME Init
    PROVE  LogInv
<1>1. Requests = {} /\ Replies = {} /\ \A i \in Server : log[i] = <<>> /\ ~Leads(i)
  BY DEF Init, Requests, Replies, Leads
<1>2. Types
  BY DEF Init, Types, NoIndex, Indices
<1>3. Durable
  BY DEF Init, Durable
<1>4. \A l \in Logs : l = <<>>
  BY <1>1 DEF Logs
<1>5. \A l \in Logs : 1..Len(l) = {}
  BY <1>4
<1>6. LogsFit
  BY <1>1, <1>5 DEF LogsFit, Agree
<1> QED BY <1>1, <1>2, <1>3, <1>6 DEF LogInv, LeadersFit, LeaderHasAll

LEMMA LogInvStays ==
    ASSUME LogInv, [Next]_vars
    PROVE  LogInv'
<1>1. StepFits
  BY KindsOfSteps
<1> QED BY <1>1, FollowsKeepsInv, SendsKeepsInv, WinsKeepsInv, WritesKeepsInv DEF StepFits

\* The invariant of elections and logs holds in every reachable state.
THEOREM LogInvariant == Spec => []LogInv
<1>1. Init => LogInv
  BY LogInit
<1>2. LogInv /\ [Next]_vars => LogInv'
  BY LogInvStays
<1> QED BY <1>1, <1>2, PTL DEF Spec

\* Two logs that agree on the entry at an index agree on everything before it.
THEOREM LogsMatch == Spec => []LogMatching
<1>1. LogInv => LogMatching
  <2> SUFFICES ASSUME LogInv, NEW i \in Server, NEW j \in Server,
                      NEW k \in 1..Lesser(Len(log[i]), Len(log[j])), log[i][k] = log[j][k]
               PROVE  SubSeq(log[i], 1, k) = SubSeq(log[j], 1, k)
    BY DEF LogMatching
  <2>1. /\ log[i] \in Seq(Nat) /\ log[j] \in Seq(Nat) /\ log[i] \in Logs /\ log[j] \in Logs
        /\ Len(log[i]) \in Nat /\ Len(log[j]) \in Nat
    BY LogTypes DEF LogInv
  <2>2. k \in 1..Len(log[i]) /\ k \in 1..Len(log[j]) /\ k \in Nat
    BY SMTT(60), <2>1 DEF Lesser
  <2>3. Same(log[i], log[j], k)
    BY SMTT(40), <2>1, <2>2 DEF LogInv, LogsFit, Agree
  <2>p. k <= Len(log[i]) /\ k <= Len(log[j])
    BY <2>2
  <2>4. PICK p : p = Upto(log[i], k)
    OBVIOUS
  <2>q. PICK q : q = Upto(log[j], k)
    OBVIOUS
  <2>5. /\ p \in Seq(Nat) /\ Len(p) = k /\ \A x \in 1..k : p[x] = log[i][x]
        /\ q \in Seq(Nat) /\ Len(q) = k /\ \A x \in 1..k : q[x] = log[j][x]
    <3>1. p \in Seq(Nat) /\ Len(p) = k /\ \A x \in 1..k : p[x] = log[i][x]
      BY <2>1, <2>2, <2>p, <2>4, UptoFacts
    <3>2. q \in Seq(Nat) /\ Len(q) = k /\ \A x \in 1..k : q[x] = log[j][x]
      BY <2>1, <2>2, <2>p, <2>q, UptoFacts
    <3> QED BY <3>1, <3>2
  <2>6. p = q
    BY <2>3, <2>5, SeqEqual DEF Same
  <2> QED BY <2>4, <2>q, <2>6 DEF Upto
<1> QED BY <1>1, LogInvariant, PTL

-----------------------------------------------------------------------------
(* Leaderships and acknowledgements. *)

\* Server j has just taken a request of leader i that has the first n entries.
Acked(i, j, n) ==
    \E m \in Requests : /\ m.src = i /\ m.dest = j /\ m.term = term[i]
                        /\ term[j] <= m.term /\ term'[j] = m.term
                        /\ n <= Len(m.full) /\ Starts(m.full, log'[j])

\* A leader after a step was leader before it, if anyone has told it anything; and it is told
\* nothing but what it was, or what a server has just taken.
AckStep ==
    \A i, j \in Server : \A n \in Nat \ {0} :
        Leads(i)' /\ Ack(i, j, n)' =>
            Leads(i) /\ term'[i] = term[i] /\ (Ack(i, j, n) \/ Acked(i, j, n))

LeadersSame == \A i \in Server : Leads(i)' => Leads(i) /\ term'[i] = term[i]

LEMMA FollowsLeadersSame ==
    ASSUME Follows
    PROVE  LeadersSame
BY DEF Follows, LeadersKept, LeadersSame

LEMMA QuietAcks ==
    ASSUME LeadersSame, \A i \in Server : Leads(i)' => matchIndex'[i] = matchIndex[i],
           \A r \in Replies' : r \in Replies \/ ~r.success
    PROVE  AckStep
BY DEF AckStep, LeadersSame, Ack

LEMMA QuietLeadership ==
    ASSUME LeadershipFits, LeadersSame, UNCHANGED <<leads, boot, matchIndex>>,
           Types, Requests' \subseteq Requests,
           \A r \in Replies' : r \in Replies \/ leads[r.dest] = 1
    PROVE  LeadershipFits'
<1>1. ASSUME NEW i \in Server
      PROVE  /\ leads'[i] <= 1
             /\ Leads(i)' => leads'[i] = 1
             /\ \A j \in Server : matchIndex'[i][j] > 0 => leads'[i] = 1
  BY DEF LeadershipFits, LeadersSame
<1>2. ASSUME NEW m \in Requests'
      PROVE  /\ m.boot <= boot'[m.src]
             /\ m.boot = boot'[m.src] =>
                   leads'[m.src] = 1 /\ (Leads(m.src)' => m.term = term'[m.src])
  <2>1. m \in Requests /\ m.src \in Server
    BY RequestTypes
  <2> QED BY <2>1 DEF LeadershipFits, LeadersSame
<1>3. \A r \in Replies' : leads'[r.dest] = 1
  BY DEF LeadershipFits
<1> QED BY <1>1, <1>2, <1>3 DEF LeadershipFits

LEMMA NoNewMessages ==
    ASSUME msgs' \subseteq msgs
    PROVE  Requests' \subseteq Requests /\ Replies' \subseteq Replies
BY DEF Requests, Replies

LEMMA InitLeaderAcks ==
    ASSUME LogInv, LeadershipFits, NEW i \in Server,
           InitLeader(i) \/ Apply(i) \/ Start(i) \/ \E N \in 1..Len(log[i]) : Commit(i, N)
    PROVE  AckStep /\ LeadershipFits'
<1>1. /\ UNCHANGED <<term, state, leads, boot, matchIndex>> /\ msgs' = msgs
  BY DEF InitLeader, Apply, Start, Commit, persistent, leader
<1>2. LeadersSame
  BY <1>1 DEF LeadersSame, Leads
<1>3. Requests' \subseteq Requests /\ Replies' \subseteq Replies
  BY <1>1, NoNewMessages
<1>4. Types
  BY DEF LogInv
<1> QED BY <1>1, <1>2, <1>3, <1>4, QuietAcks, QuietLeadership

LEMMA LoseAcks ==
    ASSUME LogInv, LeadershipFits, (\E m \in msgs : Lose(m)) \/ UNCHANGED vars
    PROVE  AckStep /\ LeadershipFits'
<1>1. /\ UNCHANGED <<term, state, leads, boot, matchIndex>> /\ msgs' \subseteq msgs
  BY DEF Lose, vars, persistent, leader
<1>2. LeadersSame
  BY <1>1 DEF LeadersSame, Leads
<1>3. Requests' \subseteq Requests /\ Replies' \subseteq Replies
  BY <1>1, NoNewMessages
<1>4. Types
  BY DEF LogInv
<1> QED BY <1>1, <1>2, <1>3, <1>4, QuietAcks, QuietLeadership

LEMMA SendAppendAcks ==
    ASSUME LogInv, LeadershipFits, NEW i \in Server, NEW j \in Server, SendAppend(i, j)
    PROVE  AckStep /\ LeadershipFits'
<1>1. /\ UNCHANGED <<term, state, leads, boot, matchIndex>> /\ Leads(i)
      /\ msgs' = msgs \cup {AppendRequest(i, j)}
  BY DEF SendAppend, persistent, leader, Looping, Leads
<1>2. LeadersSame
  BY <1>1 DEF LeadersSame, Leads
<1>3. PICK m : m = AppendRequest(i, j)
  OBVIOUS
<1>4. m.type = "AppendEntries" /\ m.src = i /\ m.boot = boot[i] /\ m.term = term[i]
  BY <1>3 DEF AppendRequest
<1>5. Replies' = Replies /\ Requests' = Requests \cup {m}
  BY <1>1, <1>3, <1>4 DEF Replies, Requests
<1>6. AckStep
  BY <1>1, <1>2, <1>5, QuietAcks
<1>7. LeadershipFits'
  <2>1. \A k \in Server : /\ leads'[k] <= 1
                          /\ Leads(k)' => leads'[k] = 1
                          /\ \A x \in Server : matchIndex'[k][x] > 0 => leads'[k] = 1
    BY <1>1, <1>2 DEF LeadershipFits, LeadersSame
  <2>2. \A q \in Requests : /\ q.boot <= boot'[q.src]
                            /\ q.boot = boot'[q.src] =>
                                  /\ leads'[q.src] = 1
                                  /\ Leads(q.src)' => q.term = term'[q.src]
    BY <1>1 DEF LeadershipFits, Leads
  <2>3. boot[i] \in Nat
    BY DEF LogInv, Types
  <2>4. /\ m.boot <= boot'[m.src]
        /\ m.boot = boot'[m.src] => leads'[m.src] = 1 /\ (Leads(m.src)' => m.term = term'[m.src])
    BY <1>1, <1>4, <2>3 DEF LeadershipFits
  <2>5. \A r \in Replies' : leads'[r.dest] = 1
    BY <1>1, <1>5 DEF LeadershipFits
  <2> QED BY <1>5, <2>1, <2>2, <2>4, <2>5 DEF LeadershipFits
<1> QED BY <1>6, <1>7

\* The three answers to a request.
LEMMA AnswerLeadership ==
    ASSUME LogInv, LeadershipFits, NEW m \in Requests, NEW r \in AppendReplies, Answer(m, r),
           r.dest = m.src, LeadersSame, UNCHANGED <<leads, boot, matchIndex>>
    PROVE  LeadershipFits' /\ Replies' \subseteq Replies \cup {r} /\
           (r \in Replies' => r \in Replies \/ m.boot = boot[m.src])
<1>1. Types
  BY DEF LogInv
<1>2. /\ Requests' \subseteq Requests /\ Replies' \subseteq Replies \cup {r}
      /\ r \in Replies' => r \in Replies \/ m.boot = boot[m.src]
  BY <1>1, AnswerIs
<1>3. \A x \in Replies' : x \in Replies \/ leads[x.dest] = 1
  BY <1>2 DEF LeadershipFits
<1> QED BY <1>1, <1>2, <1>3, QuietLeadership

LEMMA RefuseAcks ==
    ASSUME LogInv, LeadershipFits, NEW m \in msgs, RefuseAppend(m.dest, m)
    PROVE  AckStep /\ LeadershipFits'
<1>0. m \in Requests /\ Types
  BY DEF RefuseAppend, Requests, LogInv
<1>1. PICK r : r = AppendAnswer(m.dest, m, term[m.dest], FALSE, -1, -1, -1)
  OBVIOUS
<1>2. r \in AppendReplies /\ ~r.success /\ r.dest = m.src
  <2>1. m.dest \in Server /\ -1 \in Int
    BY <1>0, RequestTypes
  <2>2. term[m.dest] \in Nat
    BY <1>0, <2>1 DEF Types
  <2>3. r \in AppendReplies
    BY <1>0, <1>1, <2>1, <2>2, RefusalType
  <2> QED BY <1>1, <2>3 DEF AppendAnswer
<1>3. Answer(m, r) /\ UNCHANGED <<term, state, leads, boot, matchIndex>>
  BY <1>1 DEF RefuseAppend, persistent, leader
<1>4. LeadersSame
  BY <1>3 DEF LeadersSame, Leads
<1>5. LeadershipFits' /\ Replies' \subseteq Replies \cup {r}
  BY <1>0, <1>2, <1>3, <1>4, AnswerLeadership
<1> QED BY <1>2, <1>3, <1>4, <1>5, QuietAcks

LEMMA MismatchAcks ==
    ASSUME LogInv, LeadershipFits, NEW m \in msgs, MismatchAppend(m.dest, m)
    PROVE  AckStep /\ LeadershipFits'
<1>0. m \in Requests /\ Types
  BY DEF MismatchAppend, Requests, LogInv
<1>1. PICK j \in Server : j = m.dest
  BY <1>0, RequestTypes
<1>2. PICK r : Answer(m, r) /\
        r = IF m.prev > Len(log[j])
              THEN AppendAnswer(m.dest, m, m.term, FALSE, Len(log[j]) + 1, -1, -1)
              ELSE AppendAnswer(m.dest, m, m.term, FALSE, -1, Entry(log[j], m.prev),
                                RunStart(log[j], m.prev))
  BY <1>1 DEF MismatchAppend
<1>3. ~r.success /\ r.dest = m.src /\ r.type = "AppendReply"
  BY <1>2 DEF AppendAnswer
<1>4. UNCHANGED <<leads, boot, matchIndex>> /\ msgs' \subseteq msgs \cup {r}
      /\ (r \in msgs' => r \in msgs \/ m.boot = boot[m.src])
  BY <1>2 DEF MismatchAppend, leader, Answer
<1>5. Requests' \subseteq Requests /\ Replies' \subseteq Replies \cup {r}
      /\ (r \in Replies' => r \in Replies \/ m.boot = boot[m.src])
  BY <1>3, <1>4 DEF Requests, Replies
<1>6. LeadersSame
  <2>1. AdoptTerm(j, m.term) /\ m.term \in Nat
    BY <1>0, <1>1, RequestTypes DEF MismatchAppend
  <2>2. Types' => Follows
    BY <1>5, <2>1, AdoptFollows
  <2>3. Types'
    BY MismatchFits DEF StepFits
  <2> QED BY <2>2, <2>3, FollowsLeadersSame
<1>7. \A x \in Replies' : x \in Replies \/ leads[x.dest] = 1
  BY <1>0, <1>3, <1>5 DEF LeadershipFits
<1>8. \A x \in Replies' : x \in Replies \/ ~x.success
  BY <1>3, <1>5
<1>9. AckStep
  BY <1>4, <1>6, <1>8, QuietAcks
<1> QED BY <1>0, <1>4, <1>5, <1>6, <1>7, <1>9, QuietLeadership

LEMMA AcceptAcks ==
    ASSUME LogInv, LeadershipFits, NEW m \in msgs, AcceptAppend(m.dest, m)
    PROVE  AckStep /\ LeadershipFits'
<1>0. /\ m \in Requests /\ Types /\ Follows
      /\ m.term = term'[m.dest] /\ term[m.dest] <= m.term
      /\ log'[m.dest] = IF Starts(m.full, log[m.dest]) THEN log[m.dest] ELSE m.full
      /\ m.prev + Len(m.entries) = Len(m.full)
  BY AcceptFits DEF LogInv
<1>1. PICK r : /\ Answer(m, r)
               /\ r = AppendAnswer(m.dest, m, IF m.entries = <<>> THEN m.term ELSE 0, TRUE,
                                   -1, -1, -1)
  BY DEF AcceptAppend
<1>2. /\ r.dest = m.src /\ r.src = m.dest /\ r.type = "AppendReply"
      /\ r.length = m.prev + Len(m.entries) + 1
  BY <1>1 DEF AppendAnswer
<1>3. UNCHANGED <<leads, boot, matchIndex>> /\ msgs' \subseteq msgs \cup {r}
      /\ (r \in msgs' => r \in msgs \/ m.boot = boot[m.src])
  BY <1>1 DEF AcceptAppend, leader, Answer
<1>4. Requests' \subseteq Requests /\ Replies' \subseteq Replies \cup {r}
      /\ (r \in Replies' => r \in Replies \/ m.boot = boot[m.src])
  BY <1>2, <1>3 DEF Requests, Replies
<1>5. LeadersSame
  BY <1>0, FollowsLeadersSame
<1>6. \A x \in Replies' : x \in Replies \/ leads[x.dest] = 1
  BY <1>0, <1>2, <1>4 DEF LeadershipFits
<1>7. LeadershipFits'
  BY <1>0, <1>3, <1>4, <1>5, <1>6, QuietLeadership
<1>8. Starts(m.full, log'[m.dest]) /\ Len(m.full) \in Nat
  <2>1. m.full \in Seq(Nat) /\ Len(m.full) \in Nat
    BY <1>0, RequestTypes
  <2>2. Starts(m.full, m.full)
    BY <2>1 DEF Starts, Same
  <2> QED BY <1>0, <2>1, <2>2
<1>9. ASSUME NEW i \in Server, NEW j \in Server, NEW n \in Nat \ {0}, Leads(i)', Ack(i, j, n)'
      PROVE  Leads(i) /\ term'[i] = term[i] /\ (Ack(i, j, n) \/ Acked(i, j, n))
  <2>1. Leads(i) /\ term'[i] = term[i]
    BY <1>5, <1>9 DEF LeadersSame
  <2>2. CASE Ack(i, j, n)
    BY <2>1, <2>2
  <2>3. CASE ~Ack(i, j, n)
    <3>1. r \in Replies' /\ r \notin Replies /\ r.dest = i /\ r.src = j /\ n < r.length
      BY <1>3, <1>4, <1>9, <2>3 DEF Ack
    <3>2. m.src = i /\ m.dest = j /\ m.boot = boot[m.src]
      BY <1>2, <1>4, <3>1
    <3>3. m.term = term[i]
      BY <1>0, <2>1, <3>2 DEF LeadershipFits
    <3>4. n <= Len(m.full)
      BY <1>0, <1>2, <1>8, <3>1
    <3> QED BY <1>0, <1>8, <2>1, <3>2, <3>3, <3>4 DEF Acked
  <2> QED BY <2>2, <2>3
<1> QED BY <1>7, <1>9 DEF AckStep

LEMMA ReceiveAcks ==
    ASSUME LogInv, LeadershipFits, NEW m \in msgs, ReceiveAppend(m.dest, m)
    PROVE  AckStep /\ LeadershipFits'
<1>0. m \in Replies /\ Types
  BY DEF ReceiveAppend, Replies, LogInv
<1>1. PICK i \in Server : i = m.dest
  BY <1>0, ReplyTypes
<1>2. m.src \in Server /\ m.term \in Nat /\ m.length \in Nat /\ m.length >= 1
  BY <1>0, ReplyTypes DEF LogInv, HintFits
<1>3. /\ UNCHANGED <<leads, boot>> /\ msgs' \subseteq msgs /\ AdoptTerm(i, m.term)
      /\ \/ matchIndex' = matchIndex
         \/ m.success /\ matchIndex' = [matchIndex EXCEPT ![i][m.src] = m.length - 1]
  BY <1>1 DEF ReceiveAppend
<1>4. Requests' \subseteq Requests /\ Replies' \subseteq Replies
  BY <1>3, NoNewMessages
<1>5. LeadersSame
  <2>1. Types' => Follows
    BY <1>2, <1>3, <1>4, AdoptFollows
  <2>2. Types'
    BY ReceiveFits DEF StepFits
  <2> QED BY <2>1, <2>2, FollowsLeadersSame
<1>6. ASSUME NEW k \in Server, NEW j \in Server
      PROVE  \/ matchIndex'[k][j] = matchIndex[k][j]
             \/ k = i /\ j = m.src /\ m.success /\ matchIndex'[k][j] = m.length - 1
  <2>1. matchIndex \in [Server -> [Server -> Nat]]
    BY <1>0 DEF Types, Indices
  <2>2. CASE matchIndex' = matchIndex
    BY <2>2
  <2>3. CASE m.success /\ matchIndex' = [matchIndex EXCEPT ![i][m.src] = m.length - 1]
    <3>1. matchIndex'[k] = IF k = i THEN [matchIndex[i] EXCEPT ![m.src] = m.length - 1]
                                    ELSE matchIndex[k]
      BY <2>1, <2>3
    <3>2. k = i => matchIndex'[k][j] = IF j = m.src THEN m.length - 1 ELSE matchIndex[k][j]
      BY <2>1, <3>1
    <3> QED BY <2>3, <3>1, <3>2
  <2> QED BY <1>3, <2>2, <2>3
<1>7. AckStep
  <2> SUFFICES ASSUME NEW k \in Server, NEW j \in Server, NEW n \in Nat \ {0}, Leads(k)',
                      Ack(k, j, n)'
               PROVE  Leads(k) /\ term'[k] = term[k] /\ Ack(k, j, n)
    BY DEF AckStep
  <2>1. Leads(k) /\ term'[k] = term[k]
    BY <1>5 DEF LeadersSame
  <2>2. CASE \E r \in Replies' : r.dest = k /\ r.src = j /\ r.success /\ n < r.length
    BY <1>4, <2>1, <2>2 DEF Ack
  <2>3. CASE n <= matchIndex'[k][j]
    <3>1. CASE matchIndex'[k][j] = matchIndex[k][j]
      BY <2>1, <2>3, <3>1 DEF Ack
    <3>2. CASE k = i /\ j = m.src /\ m.success /\ matchIndex'[k][j] = m.length - 1
      <4>1. n < m.length
        BY <1>2, <2>3, <3>2
      <4> QED BY <1>0, <1>1, <2>1, <3>2, <4>1 DEF Ack
    <3> QED BY <1>6, <3>1, <3>2
  <2> QED BY <2>2, <2>3 DEF Ack
<1>8. LeadershipFits'
  <2>1. ASSUME NEW k \in Server
        PROVE  /\ leads'[k] <= 1
               /\ Leads(k)' => leads'[k] = 1
               /\ \A j \in Server : matchIndex'[k][j] > 0 => leads'[k] = 1
    <3>1. leads[i] = 1
      BY <1>0, <1>1 DEF LeadershipFits
    <3>2. leads'[k] <= 1 /\ (Leads(k)' => leads'[k] = 1)
      BY <1>3, <1>5 DEF LeadershipFits, LeadersSame
    <3>3. \A j \in Server : matchIndex'[k][j] > 0 => leads'[k] = 1
      <4> TAKE j \in Server
      <4>1. matchIndex'[k][j] = matchIndex[k][j] \/ k = i
        BY <1>6
      <4> QED BY <1>3, <3>1, <4>1 DEF LeadershipFits
    <3> QED BY <3>2, <3>3
  <2>2. ASSUME NEW q \in Requests'
        PROVE  /\ q.boot <= boot'[q.src]
               /\ q.boot = boot'[q.src] =>
                     leads'[q.src] = 1 /\ (Leads(q.src)' => q.term = term'[q.src])
    <3>1. q \in Requests /\ q.src \in Server
      BY <1>0, <1>4, RequestTypes
    <3> QED BY <1>3, <1>5, <3>1 DEF LeadershipFits, LeadersSame
  <2>3. \A r \in Replies' : leads'[r.dest] = 1
    BY <1>3, <1>4 DEF LeadershipFits
  <2> QED BY <2>1, <2>2, <2>3 DEF LeadershipFits
<1> QED BY <1>7, <1>8

LEMMA FailedRoundAcks ==
    ASSUME LogInv, LeadershipFits, NEW i \in Server, NEW Q \in SUBSET (Server \ {i}),
           Undecided(i, Q) \/ \E j \in Q : Deposed(i, Q, j)
    PROVE  AckStep /\ LeadershipFits'
<1>1. Follows
  BY FailedRoundFits
<1>2. UNCHANGED <<leads, boot, matchIndex>> /\ msgs' = msgs
  BY DEF Undecided, Deposed, Round
<1>3. Requests' \subseteq Requests /\ Replies' \subseteq Replies /\ LeadersSame /\ Types
  BY <1>1, <1>2, NoNewMessages, FollowsLeadersSame DEF LogInv
<1> QED BY <1>2, <1>3, QuietAcks, QuietLeadership

\* An incarnation that is elected has not led before: nobody has told it anything.
LEMMA ElectedAcks ==
    ASSUME LeadsOnce, LogInv, LeadershipFits,
           NEW i \in Server, NEW Q \in SUBSET (Server \ {i}), Elected(i, Q)
    PROVE  AckStep /\ LeadershipFits'
<1>0. Types /\ Wins(i) /\ LogInv'
  BY ElectedFits, WinsKeepsInv DEF LogInv
<1>1. /\ UNCHANGED <<boot, matchIndex>> /\ msgs' = msgs
      /\ leads' = [leads EXCEPT ![i] = @ + 1] /\ leads[i] < bound.leads
  BY DEF Elected, Round
<1>2. leads[i] = 0 /\ leads' = [leads EXCEPT ![i] = 1]
  <2>1. bound \in Bounds /\ leads \in [Server -> Nat]
    BY <1>0 DEF Types
  <2>2. bound.leads \in Nat /\ bound.leads <= 1
    BY <2>1, BoundAssumption DEF LeadsOnce
  <2>3. leads[i] \in Nat /\ leads[i] < bound.leads
    BY <1>1, <2>1
  <2>4. leads[i] = 0
    BY <2>2, <2>3
  <2> QED BY <1>1, <2>4
<1>3. Requests' = Requests /\ Replies' = Replies
  BY <1>1 DEF Requests, Replies
<1>4. /\ \A j \in Server : ~(matchIndex[i][j] > 0) /\ matchIndex[i][j] \in Nat
      /\ \A r \in Replies : r.dest # i
      /\ \A m \in Requests : m.src = i => m.boot # boot[i]
  <2>1. leads[i] # 1
    BY <1>2
  <2>2. \A j \in Server : matchIndex[i][j] \in Nat
    BY <1>0 DEF Types, Indices
  <2> QED BY <2>1, <2>2 DEF LeadershipFits
<1>5. \A k \in Server \ {i} : /\ Leads(k)' => Leads(k) /\ term'[k] = term[k]
                              /\ leads'[k] = leads[k]
  BY <1>0, <1>2 DEF Wins, LeadersKept, Types
<1>6. AckStep
  <2> SUFFICES ASSUME NEW k \in Server, NEW j \in Server, NEW n \in Nat \ {0}, Leads(k)',
                      Ack(k, j, n)'
               PROVE  Leads(k) /\ term'[k] = term[k] /\ Ack(k, j, n)
    BY DEF AckStep
  <2>1. Ack(k, j, n)
    BY <1>1, <1>3 DEF Ack
  <2>2. k # i
    <3>1. ASSUME Ack(i, j, n)
          PROVE  FALSE
      <4>1. ~(n <= matchIndex[i][j])
        BY <1>4
      <4> QED BY <1>4, <3>1, <4>1 DEF Ack
    <3> QED BY <2>1, <3>1
  <2> QED BY <1>5, <2>1, <2>2
<1>7. LeadershipFits'
  <2>0. leads'[i] = 1
    BY <1>0, <1>2 DEF Types
  <2>1. ASSUME NEW k \in Server
        PROVE  /\ leads'[k] <= 1
               /\ Leads(k)' => leads'[k] = 1
               /\ \A j \in Server : matchIndex'[k][j] > 0 => leads'[k] = 1
    <3>1. CASE k = i
      BY <2>0, <3>1
    <3>2. CASE k # i
      BY <1>1, <1>5, <3>2 DEF LeadershipFits
    <3> QED BY <3>1, <3>2
  <2>2. ASSUME NEW m \in Requests'
        PROVE  /\ m.boot <= boot'[m.src]
               /\ m.boot = boot'[m.src] =>
                     leads'[m.src] = 1 /\ (Leads(m.src)' => m.term = term'[m.src])
    <3>1. m \in Requests /\ m.src \in Server
      BY <1>0, <1>3, RequestTypes
    <3>2. CASE m.src = i
      BY <1>1, <1>4, <3>1, <3>2 DEF LeadershipFits
    <3>3. CASE m.src # i
      BY <1>1, <1>5, <3>1, <3>3 DEF LeadershipFits
    <3> QED BY <3>2, <3>3
  <2>3. \A r \in Replies' : leads'[r.dest] = 1
    <3> TAKE r \in Replies'
    <3>1. r \in Replies /\ r.dest \in Server /\ r.dest # i
      BY <1>0, <1>3, <1>4, ReplyTypes
    <3> QED BY <1>5, <3>1 DEF LeadershipFits
  <2> QED BY <2>1, <2>2, <2>3 DEF LeadershipFits
<1> QED BY <1>6, <1>7

\* The calls of the incarnations before are not answered.
LEMMA RestartAcks ==
    ASSUME LogInv, LeadershipFits, NEW i \in Server, Restart(i)
    PROVE  AckStep /\ LeadershipFits'
<1>0. Types /\ Durable
  BY DEF LogInv
<1>1. /\ boot' = [boot EXCEPT ![i] = @ + 1] /\ state' = [state EXCEPT ![i] = "Follower"]
      /\ matchIndex' = [matchIndex EXCEPT ![i] = NoIndex(0)] /\ leads' = [leads EXCEPT ![i] = 0]
      /\ msgs' = {m \in msgs : ~(m.type = "AppendReply" /\ m.dest = i)}
      /\ term' = [term EXCEPT ![i] = saved[i].term]
  BY DEF Restart
<1>2. term' = term
  BY <1>0, <1>1 DEF Types, Durable
<1>3. /\ \A k \in Server \ {i} : /\ boot'[k] = boot[k] /\ state'[k] = state[k]
                                 /\ matchIndex'[k] = matchIndex[k] /\ leads'[k] = leads[k]
      /\ state'[i] = "Follower" /\ matchIndex'[i] = NoIndex(0) /\ leads'[i] = 0
      /\ boot'[i] = boot[i] + 1 /\ boot[i] \in Nat
  BY <1>0, <1>1 DEF Types, Indices
<1>4. LeadersSame /\ ~Leads(i)'
  BY <1>2, <1>3 DEF LeadersSame, Leads
<1>5. Requests' = Requests /\ Replies' = {r \in Replies : r.dest # i}
  BY <1>1 DEF Requests, Replies
<1>6. AckStep
  BY <1>3, <1>4, <1>5, QuietAcks
<1>7. LeadershipFits'
  <2>1. ASSUME NEW k \in Server
        PROVE  /\ leads'[k] <= 1
               /\ Leads(k)' => leads'[k] = 1
               /\ \A j \in Server : matchIndex'[k][j] > 0 => leads'[k] = 1
    <3>1. CASE k = i
      BY <1>3, <1>4, <3>1 DEF NoIndex
    <3>2. CASE k # i
      BY <1>3, <1>4, <3>2 DEF LeadershipFits, LeadersSame
    <3> QED BY <3>1, <3>2
  <2>2. ASSUME NEW m \in Requests'
        PROVE  /\ m.boot <= boot'[m.src]
               /\ m.boot = boot'[m.src] =>
                     leads'[m.src] = 1 /\ (Leads(m.src)' => m.term = term'[m.src])
    <3>1. m \in Requests /\ m.src \in Server /\ m.boot \in Nat
      BY <1>0, <1>5, RequestTypes
    <3>2. CASE m.src = i
      <4>1. m.boot <= boot[i]
        BY <3>1, <3>2 DEF LeadershipFits
      <4> QED BY <1>3, <3>1, <3>2, <4>1
    <3>3. CASE m.src # i
      BY <1>3, <1>4, <3>1, <3>3 DEF LeadershipFits, LeadersSame
    <3> QED BY <3>2, <3>3
  <2>3. \A r \in Replies' : leads'[r.dest] = 1
    <3> TAKE r \in Replies'
    <3>1. r \in Replies /\ r.dest \in Server /\ r.dest # i
      BY <1>0, <1>5, ReplyTypes
    <3> QED BY <1>3, <3>1 DEF LeadershipFits
  <2> QED BY <2>1, <2>2, <2>3 DEF LeadershipFits
<1> QED BY <1>6, <1>7

LEMMA LeadershipStays ==
    ASSUME LeadsOnce, LogInv, LeadershipFits, [Next]_vars
    PROVE  AckStep /\ LeadershipFits'
<1>1. CASE Next
  <2>1. ASSUME NEW m \in msgs, \/ ReceiveAppend(m.dest, m) \/ Lose(m)
                               \/ RefuseAppend(m.dest, m) \/ MismatchAppend(m.dest, m)
                               \/ AcceptAppend(m.dest, m)
        PROVE  AckStep /\ LeadershipFits'
    BY <2>1, ReceiveAcks, LoseAcks, RefuseAcks, MismatchAcks, AcceptAcks
  <2>2. ASSUME NEW i \in Server, \/ InitLeader(i) \/ Start(i) \/ Apply(i)
                                 \/ \E N \in 1..Len(log[i]) : Commit(i, N)
        PROVE  AckStep /\ LeadershipFits'
    BY <2>2, InitLeaderAcks
  <2>3. ASSUME NEW i \in Server, NEW j \in Server, SendAppend(i, j)
        PROVE  AckStep /\ LeadershipFits'
    BY <2>3, SendAppendAcks
  <2>4. ASSUME NEW i \in Server, NEW Q \in SUBSET (Server \ {i}),
               Elected(i, Q) \/ Undecided(i, Q) \/ \E j \in Q : Deposed(i, Q, j)
        PROVE  AckStep /\ LeadershipFits'
    BY <2>4, ElectedAcks, FailedRoundAcks
  <2>5. ASSUME NEW i \in Server, Restart(i)
        PROVE  AckStep /\ LeadershipFits'
    BY <2>5, RestartAcks
  <2> QED BY <1>1, <2>1, <2>2, <2>3, <2>4, <2>5 DEF Next
<1>2. CASE UNCHANGED vars
  BY <1>2, LoseAcks
<1> QED BY <1>1, <1>2

-----------------------------------------------------------------------------
(* What is held and spread stays so. *)

LEMMA StartsFacts ==
    ASSUME NEW p \in Seq(Nat), NEW l \in Seq(Nat), Starts(p, l)
    PROVE  /\ Len(p) \in Nat /\ Len(l) \in Nat /\ Len(p) <= Len(l)
           /\ \A x \in 1..Len(p) : p[x] = l[x]
           /\ p = Upto(l, Len(p))
           /\ \A k \in Seq(Nat) : \A n \in Nat : Len(p) <= n /\ Same(l, k, n) => Starts(p, k)
           /\ \A k \in Seq(Nat) : Starts(l, k) => Starts(p, k)
<1>1. Len(p) \in Nat /\ Len(l) \in Nat /\ Len(p) <= Len(l) /\ \A x \in 1..Len(p) : p[x] = l[x]
  BY DEF Starts, Same
<1>2. PICK q : q = Upto(l, Len(p))
  OBVIOUS
<1>3. q \in Seq(Nat) /\ Len(q) = Len(p) /\ \A x \in 1..Len(p) : q[x] = l[x]
  BY <1>1, <1>2, UptoFacts
<1>4. p = q
  BY <1>1, <1>3, SeqEqual
<1>5. ASSUME NEW k \in Seq(Nat), NEW n \in Nat, Len(p) <= n, Same(l, k, n)
      PROVE  Starts(p, k)
  BY <1>1, <1>5 DEF Starts, Same
<1>6. \A k \in Seq(Nat) : Starts(l, k) => Starts(p, k)
  BY <1>1, <1>5 DEF Starts
<1> QED BY <1>1, <1>2, <1>4, <1>5, <1>6

\* A candidate whose log is as up to date as one that begins with p begins with p itself,
\* if everything of later terms does.
LEMMA Electable ==
    ASSUME LogInv, NEW i \in Server, NEW j \in Server, UpToDate(log[i], log[j]),
           NEW p \in Seq(Nat), Len(p) > 0, Starts(p, log[j]), Spread(p, p[Len(p)])
    PROVE  Starts(p, log[i])
<1>1. /\ log[i] \in Logs /\ log[j] \in Logs /\ log[i] \in Seq(Nat) /\ log[j] \in Seq(Nat)
      /\ Len(log[i]) \in Nat /\ Len(log[j]) \in Nat
  BY LogTypes DEF LogInv
<1>2. PICK l \in Logs, k \in Logs, n \in Nat, t \in Nat :
        l = log[i] /\ k = log[j] /\ n = Len(p) /\ t = p[Len(p)]
  <2>1. Len(p) \in Nat /\ p[Len(p)] \in Nat
    BY ElementOfSeq
  <2> QED BY <1>1, <2>1
<1>3. /\ l \in Seq(Nat) /\ k \in Seq(Nat) /\ Len(l) \in Nat /\ Len(k) \in Nat
      /\ n \in 1..Len(p) /\ n <= Len(k) /\ n \in 1..Len(k) /\ k[n] = t /\ t \in Nat
      /\ UpToDate(l, k) /\ Starts(p, k) /\ Spread(p, t)
  BY SMTT(40), <1>1, <1>2, StartsFacts
<1>4. /\ \A x \in 1..Len(k) : k[x] > 0
      /\ \A x, y \in 1..Len(k) : x <= y => k[x] <= k[y]
      /\ Agree(k, l)
  BY DEF LogInv, LogsFit
<1>5. LastTerm(k) = k[Len(k)] /\ t <= k[Len(k)] /\ t > 0 /\ k[Len(k)] \in Nat
  <2>1. Len(k) \in 1..Len(k) /\ Len(k) # 0 /\ n <= Len(k)
    BY <1>3
  <2>2. k[Len(k)] \in Nat
    BY <1>3, <2>1, ElementOfSeq
  <2> QED BY <1>3, <1>4, <2>1, <2>2 DEF LastTerm, Entry
<1>6. LastTerm(l) >= t /\ LastTerm(l) \in Nat
  <2>1. LastTerm(l) \in Nat
    <3>1. CASE Len(l) = 0
      BY <3>1 DEF LastTerm, Entry
    <3>2. CASE Len(l) # 0
      <4>0. Len(l) \in 1..Len(l)
        BY <1>3, <3>2
      <4>1. l[Len(l)] \in Nat
        BY <1>3, <4>0, ElementOfSeq
      <4> QED BY <3>2, <4>1 DEF LastTerm, Entry
    <3> QED BY <3>1, <3>2
  <2> QED BY SMTT(40), <1>3, <1>5, <2>1 DEF UpToDate
<1>7. Len(l) > 0 /\ Len(l) \in 1..Len(l) /\ LastTerm(l) = l[Len(l)]
  BY SMTT(40), <1>3, <1>5, <1>6 DEF LastTerm, Entry
<1>8. CASE LastTerm(l) > t
  BY <1>2, <1>3, <1>7, <1>8 DEF Spread
<1>9. CASE LastTerm(l) = t
  <2>1. LastTerm(k) = LastTerm(l) /\ Len(l) >= Len(k)
    BY SMTT(40), <1>3, <1>5, <1>9 DEF UpToDate
  <2>2. n <= Len(l) /\ k[n] = l[Len(l)]
    BY <1>3, <1>7, <1>9, <2>1
  <2>3. Same(k, l, n)
    BY <1>3, <1>4, <1>7, <2>2 DEF Agree
  <2> QED BY <1>2, <1>3, <2>3, StartsFacts
<1> QED BY <1>6, <1>8, <1>9

\* What follows a step of each kind: terms grow, a leader's log grows, every log and every
\* request is an old one, or comes from a leader.
LEMMA StepFacts ==
    ASSUME LogInv, StepFits
    PROVE  /\ TermsGrow
           /\ \A j \in Server : \/ Takes(j)
                                \/ Leads(j) /\ log'[j] = Append(log[j], term[j])
           /\ \A j \in Server : Leads(j)' => \/ Leads(j) /\ term'[j] = term[j]
                                             \/ Wins(j)
           /\ \A l \in Logs' : \/ l \in Logs
                               \/ \E i \in Server : Leads(i) /\ l = Append(log[i], term[i])
           /\ \A m \in Requests' : \/ m \in Requests
                                   \/ \E i \in Server : /\ Leads(i) /\ m.full = log[i]
                                                        /\ m.term = term[i]
                                                        /\ m.commit = commitIndex[i]
<1>0. Types
  BY DEF LogInv
<1>1. CASE Follows
  <2>1. Logs' \subseteq Logs
    BY <1>0, <1>1, SameLogs
  <2> QED BY <1>1, <2>1 DEF Follows, LeadersKept
<1>2. ASSUME NEW i \in Server, Wins(i)
      PROVE  /\ TermsGrow /\ \A j \in Server : Takes(j)
             /\ \A j \in Server : Leads(j)' => (Leads(j) /\ term'[j] = term[j]) \/ Wins(j)
             /\ Logs' \subseteq Logs /\ Requests' = Requests
  <2>1. Logs' \subseteq Logs /\ TermsGrow /\ \A j \in Server : Takes(j)
    BY <1>0, <1>2, SameLogs
  <2> QED BY <1>2, <2>1 DEF Wins, LeadersKept
<1>3. ASSUME NEW i \in Server, NEW j \in Server, Sends(i, j)
      PROVE  /\ TermsGrow /\ \A k \in Server : Takes(k)
             /\ \A k \in Server : Leads(k)' => Leads(k) /\ term'[k] = term[k]
             /\ Logs' \subseteq Logs
             /\ \A m \in Requests' : \/ m \in Requests
                                     \/ /\ Leads(i) /\ m.full = log[i] /\ m.term = term[i]
                                        /\ m.commit = commitIndex[i]
  <2>1. Logs' \subseteq Logs /\ TermsGrow /\ \A k \in Server : Takes(k)
    BY <1>0, <1>3, SameLogs
  <2>2. AppendRequest(i, j).full = log[i] /\ AppendRequest(i, j).term = term[i]
        /\ AppendRequest(i, j).commit = commitIndex[i]
    BY DEF AppendRequest
  <2> QED BY <1>3, <2>1, <2>2 DEF Sends, Leads
<1>4. ASSUME NEW i \in Server, Writes(i)
      PROVE  /\ TermsGrow
             /\ \A j \in Server : Takes(j) \/ (Leads(j) /\ log'[j] = Append(log[j], term[j]))
             /\ \A j \in Server : Leads(j)' => Leads(j) /\ term'[j] = term[j]
             /\ \A l \in Logs' : l \in Logs \/ (Leads(i) /\ l = Append(log[i], term[i]))
             /\ Requests' = Requests
  <2>1. /\ Leads(i) /\ term' = term /\ votedFor' = votedFor /\ state' = state
        /\ log'[i] = Append(log[i], term[i]) /\ \A j \in Server \ {i} : log'[j] = log[j]
        /\ Requests' = Requests
    BY <1>0, <1>4 DEF Writes, Types
  <2>2. TermsGrow
    BY <1>0, <2>1 DEF TermsGrow, Types
  <2>3. \A j \in Server : Takes(j) \/ (Leads(j) /\ log'[j] = Append(log[j], term[j]))
    BY <2>1 DEF Takes
  <2>4. \A l \in Logs' : l \in Logs \/ l = Append(log[i], term[i])
    BY <2>1 DEF Logs
  <2> QED BY <2>1, <2>2, <2>3, <2>4 DEF Leads
<1> QED
  <2>1. CASE \E i \in Server : Wins(i)
    BY <1>2, <2>1
  <2>2. CASE \E i \in Server : \E j \in Server : Sends(i, j)
    BY <1>3, <2>2
  <2>3. CASE \E i \in Server : Writes(i)
    BY <1>4, <2>3
  <2> QED
    <3>1. Follows \/ (\E i \in Server : Wins(i)) \/ (\E i \in Server : \E j \in Server : Sends(i, j))
          \/ (\E i \in Server : Writes(i))
      BY DEF StepFits
    <3> QED BY <3>1, <1>1, <2>1, <2>2, <2>3

LEMMA SpreadStays ==
    ASSUME LogInv, StepFits, NEW p \in Seq(Nat), NEW t \in Nat, Spread(p, t),
           \A k \in Server : Wins(k) /\ t < term[k] + 1 => Starts(p, log[k])
    PROVE  Spread(p, t)'
<1>0. Types
  BY DEF LogInv
<1>1. /\ \A j \in Server : Leads(j)' => (Leads(j) /\ term'[j] = term[j]) \/ Wins(j)
      /\ \A l \in Logs' : \/ l \in Logs
                          \/ \E i \in Server : Leads(i) /\ l = Append(log[i], term[i])
      /\ \A m \in Requests' : \/ m \in Requests
                              \/ \E i \in Server : /\ Leads(i) /\ m.full = log[i]
                                                   /\ m.term = term[i]
  BY StepFacts
<1>2. /\ \A j \in Server : /\ log[j] \in Seq(Nat) /\ Len(log[j]) \in Nat /\ term[j] \in Nat
                           /\ log[j] \in Logs
      /\ Logs \subseteq Seq(Nat)
  BY <1>0, LogTypes DEF Types
<1>3. ASSUME NEW i \in Server, Starts(p, log[i])
      PROVE  Starts(p, Append(log[i], term[i]))
  <2>1. /\ Append(log[i], term[i]) \in Seq(Nat)
        /\ Same(log[i], Append(log[i], term[i]), Len(log[i]))
    BY <1>2, AppendFacts
  <2> QED BY ZenonT(60), <1>2, <1>3, <2>1, StartsFacts
<1>4. ASSUME NEW l \in Logs', NEW x \in 1..Len(l), t < l[x]
      PROVE  Starts(p, l)
  <2>1. CASE l \in Logs
    BY <1>4, <2>1 DEF Spread
  <2>2. ASSUME NEW i \in Server, Leads(i), l = Append(log[i], term[i])
        PROVE  Starts(p, l)
    <3>1. /\ l \in Seq(Nat) /\ Len(l) = Len(log[i]) + 1 /\ l[Len(log[i]) + 1] = term[i]
          /\ Same(log[i], l, Len(log[i]))
      BY <1>2, <2>2, AppendFacts
    <3>2. CASE x = Len(log[i]) + 1
      BY <1>3, <1>4, <2>2, <3>1, <3>2 DEF Spread
    <3>3. CASE x \in 1..Len(log[i])
      <4>1. l[x] = log[i][x]
        BY <3>1, <3>3 DEF Same
      <4>2. Starts(p, log[i])
        BY <1>2, <1>4, <3>3, <4>1 DEF Spread
      <4> QED BY <1>3, <2>2, <4>2
    <3>4. x = Len(log[i]) + 1 \/ x \in 1..Len(log[i])
      <4>1. Len(log[i]) \in Nat
        BY <1>2
      <4> QED BY <3>1, <4>1
    <3> QED BY <3>2, <3>3, <3>4
  <2> QED BY <1>1, <2>1, <2>2
<1>5. ASSUME NEW i \in Server, Leads(i)', t < term'[i]
      PROVE  Starts(p, log'[i])
  <2>1. CASE Wins(i)
    <3>1. term'[i] = term[i] + 1 /\ log' = log
      BY <2>1 DEF Wins
    <3> QED BY <1>5, <2>1, <3>1
  <2>2. CASE Leads(i) /\ term'[i] = term[i]
    <3>1. Starts(p, log[i])
      BY <1>5, <2>2 DEF Spread
    <3>2. Takes(i) \/ log'[i] = Append(log[i], term[i])
      BY StepFacts
    <3>3. CASE Takes(i)
      <4>1. CASE log'[i] = log[i]
        BY <3>1, <4>1
      <4>2. CASE \E m \in Requests : term'[i] = m.term /\ log'[i] = m.full
        BY <1>5, <4>2 DEF Spread
      <4> QED BY <3>3, <4>1, <4>2 DEF Takes
    <3> QED BY <1>3, <3>1, <3>2, <3>3
  <2> QED BY <1>1, <1>5, <2>1, <2>2
<1>6. ASSUME NEW m \in Requests', t < m.term
      PROVE  Starts(p, m.full)
  BY <1>1, <1>6 DEF Spread
<1> QED BY <1>4, <1>5, <1>6 DEF Spread

LEMMA HoldsStays ==
    ASSUME LogInv, StepFits, Types', NEW j \in Server,
           NEW p \in Seq(Nat), Len(p) > 0, Spread(p, p[Len(p)]),
           Starts(p, log[j]), p[Len(p)] <= term[j]
    PROVE  Starts(p, log'[j]) /\ p[Len(p)] <= term'[j]
<1>0. Types
  BY DEF LogInv
<1>1. TermsGrow /\ (Takes(j) \/ log'[j] = Append(log[j], term[j]))
  BY StepFacts
<1>2. PICK t \in Nat, n \in Nat : t = p[Len(p)] /\ n = Len(p)
  <2>1. Len(p) \in Nat /\ p[Len(p)] \in Nat
    BY ElementOfSeq
  <2> QED BY <2>1
<1>3. /\ log[j] \in Seq(Nat) /\ Len(log[j]) \in Nat /\ log[j] \in Logs
      /\ term[j] \in Nat /\ term'[j] \in Nat
      /\ t \in Nat /\ n \in 1..Len(p) /\ n \in 1..Len(log[j]) /\ log[j][n] = t
      /\ t <= term[j] /\ Spread(p, t)
  <2>1. /\ log[j] \in Seq(Nat) /\ Len(log[j]) \in Nat /\ log[j] \in Logs
        /\ term[j] \in Nat /\ term'[j] \in Nat
    BY <1>0, LogTypes DEF Types
  <2>2. n \in 1..Len(p) /\ Len(p) <= Len(log[j]) /\ log[j][n] = p[n]
    BY SMTT(40), <1>2, <2>1, StartsFacts
  <2> QED BY <1>2, <2>1, <2>2
<1>4. t <= term'[j]
  <2>1. term[j] <= term'[j]
    BY <1>1 DEF TermsGrow
  <2>2. t <= term[j]
    BY <1>2
  <2>3. t \in Nat /\ term[j] \in Nat /\ term'[j] \in Nat
    BY <1>0, <1>2 DEF Types
  <2> QED BY <2>1, <2>2, <2>3
<1>5. CASE log'[j] = log[j]
  BY <1>2, <1>4, <1>5
<1>6. CASE log'[j] = Append(log[j], term[j])
  <2>1. /\ Append(log[j], term[j]) \in Seq(Nat)
        /\ Same(log[j], Append(log[j], term[j]), Len(log[j]))
    BY <1>3, AppendFacts
  <2>2. Starts(p, Append(log[j], term[j]))
    BY ZenonT(60), <1>3, <2>1, StartsFacts
  <2> QED BY <1>2, <1>4, <1>6, <2>2
<1>7. ASSUME NEW m \in Requests, m.term = term'[j], term[j] <= m.term,
             ~Starts(m.full, log[j]), log'[j] = m.full
      PROVE  Starts(p, m.full)
  <2>1. m.full \in Seq(Nat) /\ Len(m.full) \in Nat /\ m.term \in Nat
    BY <1>0, RequestTypes
  <2>2. CASE t < m.term
    BY <1>3, <2>2 DEF Spread
  <2>3. CASE t = m.term
    <3>1. Same(log[j], m.full, Lesser(n, Len(m.full)))
      BY <1>3, <2>3 DEF LogInv, RequestFits
    <3>2. CASE n <= Len(m.full)
      <4>1. Same(log[j], m.full, n)
        BY <3>1, <3>2 DEF Lesser
      <4> QED BY <1>2, <1>3, <2>1, <4>1, StartsFacts
    <3>3. CASE Len(m.full) < n
      <4>1. Same(log[j], m.full, Len(m.full))
        BY <1>3, <2>1, <3>1, <3>3 DEF Lesser
      <4>2. Same(m.full, log[j], Len(m.full))
        BY <1>3, <2>1, <4>1, SameFacts
      <4> QED BY <1>7, <4>2 DEF Starts
    <3> QED BY <1>3, <2>1, <3>2, <3>3
  <2> QED BY <1>3, <1>4, <1>7, <2>1, <2>2, <2>3
<1> QED BY <1>1, <1>2, <1>4, <1>5, <1>6, <1>7 DEF Takes

\* What a log may begin with: never nothing.
LEMMA PrefixTypes ==
    ASSUME Types, NEW p \in Prefixes
    PROVE  /\ p \in Seq(Nat) /\ Len(p) \in Nat /\ Len(p) > 0 /\ p[Len(p)] \in Nat
           /\ \E j \in Server : Starts(p, log[j])
<1>1. PICK j \in Server : \E n \in 1..Len(log[j]) : p = Upto(log[j], n)
  BY DEF Prefixes
<1>n. PICK n \in 1..Len(log[j]) : p = Upto(log[j], n)
  BY <1>1
<1>2. log[j] \in Seq(Nat) /\ Len(log[j]) \in Nat /\ n \in Nat /\ n > 0 /\ n <= Len(log[j])
  BY <1>n DEF Types
<1>3. p \in Seq(Nat) /\ Len(p) = n /\ \A x \in 1..n : p[x] = log[j][x]
  BY <1>n, <1>2, UptoFacts
<1>4. p[Len(p)] \in Nat
  BY <1>2, <1>3, ElementOfSeq
<1> QED BY <1>1, <1>2, <1>3, <1>4 DEF Starts, Same

\* A candidate that wins has every committed entry.
LEMMA ChosenElected ==
    ASSUME LogInv, NEW p \in Seq(Nat), Len(p) > 0, Chosen(p), NEW k \in Server, Wins(k)
    PROVE  Starts(p, log[k])
<1>1. PICK Q \in Quorums : Holds(Q, p, p[Len(p)])
  BY DEF Chosen
<1>2. PICK V \in Quorums : Votes(k, V)
  BY DEF Wins
<1>3. PICK j \in Server : j \in Q /\ j \in V
  BY QuorumsMeet
<1>4. Starts(p, log[j]) /\ UpToDate(log[k], log[j]) /\ Spread(p, p[Len(p)])
  BY <1>1, <1>2, <1>3 DEF Holds, Votes, Chosen
<1> QED BY <1>3, <1>4, Electable

\* What is committed stays committed.
LEMMA ChosenStays ==
    ASSUME LogInv, StepFits, NEW p \in Prefixes, Chosen(p)
    PROVE  p \in Prefixes' /\ Chosen(p)'
<1>0. Types /\ Types'
  BY DEF LogInv, StepFits
<1>1. p \in Seq(Nat) /\ Len(p) \in Nat /\ Len(p) > 0 /\ p[Len(p)] \in Nat
  BY <1>0, PrefixTypes
<1>2. PICK t \in Nat : t = p[Len(p)]
  BY <1>1
<1>3. Spread(p, t)
  BY <1>2 DEF Chosen
<1>4. \A k \in Server : Wins(k) => Starts(p, log[k])
  BY <1>1, ChosenElected
<1>5. Spread(p, t)'
  BY <1>1, <1>2, <1>3, <1>4, SpreadStays
<1>6. PICK Q \in Quorums : Holds(Q, p, t)
  BY <1>2 DEF Chosen
<1>7. ASSUME NEW j \in Q
      PROVE  t <= term'[j] /\ Starts(p, log'[j]) /\ j \in Server
  <2>1. j \in Server /\ t <= term[j] /\ Starts(p, log[j])
    BY <1>6 DEF Holds, Quorums
  <2> QED BY <1>0, <1>1, <1>2, <1>3, <2>1, HoldsStays
<1>8. Holds(Q, p, t)' /\ Q \in Quorums'
  BY <1>7 DEF Holds, Quorums
<1>9. PICK j \in Server : j \in Q
  BY QuorumsMeet
<1>10. p \in Prefixes'
  <2>1. Starts(p, log'[j]) /\ log'[j] \in Seq(Nat)
    BY <1>0, <1>7, <1>9 DEF Types
  <2>2. p = Upto(log'[j], Len(p)) /\ Len(p) <= Len(log'[j]) /\ Len(log'[j]) \in Nat
    BY <1>1, <2>1, StartsFacts
  <2>3. Len(p) \in 1..Len(log'[j])
    BY <1>1, <2>2
  <2>4. p \in {Upto(log'[j], n) : n \in 1..Len(log'[j])}
    BY <2>2, <2>3
  <2> QED BY <2>4 DEF Prefixes
<1>11. Chosen(p)'
  BY <1>2, <1>5, <1>8, Zenon DEF Chosen
<1> QED BY <1>10, <1>11

\* Of two committed prefixes one begins with the other.
LEMMA ChosenAgree ==
    ASSUME LogInv, NEW p \in Prefixes, NEW q \in Prefixes, Chosen(p), Chosen(q)
    PROVE  \A x \in Nat : x \in 1..Len(p) /\ x \in 1..Len(q) => p[x] = q[x]
<1>1. PICK P \in Quorums, Q \in Quorums : Holds(P, p, p[Len(p)]) /\ Holds(Q, q, q[Len(q)])
  BY DEF Chosen
<1>2. PICK j \in Server : j \in P /\ j \in Q
  BY QuorumsMeet
<1>3. Starts(p, log[j]) /\ Starts(q, log[j])
  BY <1>1, <1>2 DEF Holds
<1> QED BY <1>3 DEF Starts, Same

\* The committed entries of a server stay in its log, and stay committed.
LEMMA CommittedStays ==
    ASSUME LogInv, StepFits, NEW i \in Server, NEW c \in Nat, Committed(log[i], c, term[i])
    PROVE  Committed(log[i], c, term[i])' /\ Same(log'[i], log[i], c)
<1>0. /\ Types /\ Types' /\ TermsGrow
      /\ Takes(i) \/ log'[i] = Append(log[i], term[i])
  BY StepFacts DEF LogInv, StepFits
<1>1. /\ log[i] \in Seq(Nat) /\ Len(log[i]) \in Nat /\ log'[i] \in Seq(Nat)
      /\ Len(log'[i]) \in Nat /\ term[i] \in Nat /\ term'[i] \in Nat /\ term[i] <= term'[i]
  BY SMTT(40), <1>0 DEF Types, TermsGrow
<1>2. CASE c = 0
  BY <1>1, <1>2 DEF Committed, Same
<1>3. CASE c > 0
  <2>1. PICK p \in Prefixes : Chosen(p) /\ p[Len(p)] <= term[i] /\ Same(log[i], p, c)
    BY <1>3 DEF Committed
  <2>2. /\ p \in Seq(Nat) /\ Len(p) \in Nat /\ Len(p) > 0 /\ p[Len(p)] \in Nat
        /\ p \in Prefixes' /\ Chosen(p)'
    BY <1>0, <2>1, PrefixTypes, ChosenStays
  <2>3. c <= Len(p) /\ c <= Len(log[i])
    BY <2>1 DEF Same
  <2>4. Same(log'[i], p, c)
    <3>1. CASE log'[i] = log[i]
      BY <2>1, <3>1
    <3>2. CASE log'[i] = Append(log[i], term[i])
      <4>1. Same(log[i], log'[i], Len(log[i]))
        BY <1>1, <3>2, AppendFacts
      <4>2. Same(log'[i], log[i], c)
        BY <1>1, <2>3, <4>1, SameFacts
      <4> QED BY <1>1, <2>1, <2>2, <4>2, SameFacts
    <3>3. ASSUME NEW m \in Requests, term'[i] = m.term, term[i] <= m.term,
                 ~Starts(m.full, log[i]), log'[i] = m.full
          PROVE  Same(log'[i], p, c)
      <4>1. m.full \in Seq(Nat) /\ Len(m.full) \in Nat /\ m.term \in Nat
        BY <1>0, RequestTypes
      <4>2. CASE p[Len(p)] < m.term
        <5>1. Starts(p, m.full)
          BY <2>1, <4>2 DEF Chosen, Spread
        <5>2. Same(p, m.full, c)
          BY <2>2, <2>3, <4>1, <5>1, SameFacts DEF Starts
        <5> QED BY <2>2, <3>3, <4>1, <5>2, SameFacts
      <4>3. CASE p[Len(p)] = m.term
        <5>1. PICK j \in Server : Starts(p, log[j])
          BY <1>0, PrefixTypes
        <5>2. /\ log[j] \in Seq(Nat) /\ Len(log[j]) \in Nat /\ log[j] \in Logs
              /\ Len(p) \in 1..Len(log[j]) /\ log[j][Len(p)] = m.term
              /\ Same(p, log[j], Len(p))
          <6>1. log[j] \in Seq(Nat) /\ Len(log[j]) \in Nat /\ log[j] \in Logs
            BY <1>0, LogTypes
          <6>2. Len(p) \in 1..Len(p)
            BY <2>2
          <6>3. Len(p) <= Len(log[j]) /\ p[Len(p)] = log[j][Len(p)]
            BY SMTT(40), <2>2, <5>1, <6>1, <6>2, StartsFacts
          <6> QED BY <2>2, <4>3, <5>1, <6>1, <6>3 DEF Starts
        <5>3. Same(log[j], m.full, Lesser(Len(p), Len(m.full)))
          BY <5>2 DEF LogInv, RequestFits
        <5>4. CASE c <= Len(m.full)
          <6>1. c <= Lesser(Len(p), Len(m.full)) /\ Lesser(Len(p), Len(m.full)) \in Nat
            BY <2>2, <2>3, <4>1, <5>4 DEF Lesser
          <6>2. Same(log[j], m.full, c) /\ Same(p, log[j], c)
            BY <2>2, <2>3, <4>1, <5>2, <5>3, <6>1, SameFacts
          <6>3. Same(p, m.full, c)
            BY <2>2, <4>1, <5>2, <6>2, SameFacts
          <6> QED BY <2>2, <3>3, <4>1, <6>3, SameFacts
        <5>5. CASE Len(m.full) < c
          <6>1. PICK n \in Nat : n = Len(m.full)
            BY <4>1
          <6>2. n <= c /\ n <= Len(p) /\ Lesser(Len(p), Len(m.full)) = n
            BY <2>2, <2>3, <4>1, <5>5, <6>1 DEF Lesser
          <6>3. Same(log[j], m.full, n) /\ Same(p, log[j], n) /\ Same(log[i], p, n)
            <7>1. Same(log[j], m.full, n)
              BY <5>3, <6>2
            <7>2. Same(p, log[j], n)
              BY <1>1, <2>2, <5>2, <6>2, SameFacts
            <7>3. Same(log[i], p, n)
              BY SMTT(60), <1>1, <2>1, <2>2, <5>2, <6>2, SameFacts
            <7> QED BY <7>1, <7>2, <7>3
          <6>4. Same(log[i], log[j], n)
            BY <1>1, <2>2, <5>2, <6>3, SameFacts
          <6>5. Same(log[i], m.full, n)
            BY <1>1, <4>1, <5>2, <6>3, <6>4, SameFacts
          <6>6. Starts(m.full, log[i])
            BY <1>1, <4>1, <6>1, <6>5, SameFacts DEF Starts
          <6> QED BY <3>3, <6>6
        <5> QED BY <4>1, <5>4, <5>5
      <4>4. p[Len(p)] <= m.term
        BY <1>1, <2>1, <2>2, <3>3, <4>1
      <4> QED BY <2>2, <4>1, <4>2, <4>3, <4>4
    <3> QED BY <1>0, <3>1, <3>2, <3>3 DEF Takes
  <2>5. p[Len(p)] <= term'[i]
    BY <1>1, <2>1, <2>2
  <2>6. Committed(log[i], c, term[i])'
    BY <2>2, <2>4, <2>5 DEF Committed
  <2>7. Same(log'[i], log[i], c)
    <3>1. Same(p, log[i], c)
      BY <1>1, <2>1, <2>2, SameFacts
    <3> QED BY <1>1, <2>2, <2>4, <3>1, SameFacts
  <2> QED BY <2>6, <2>7
<1> QED BY <1>2, <1>3

-----------------------------------------------------------------------------
(* What a leader is told is true, and what it concludes from it. *)

\* A leader's log grows while it leads.
LEMMA LeaderGrows ==
    ASSUME LogInv, StepFits, LogInv', NEW i \in Server, Leads(i), Leads(i)', term'[i] = term[i]
    PROVE  /\ log'[i] = log[i] \/ log'[i] = Append(log[i], term[i])
           /\ Starts(log[i], log'[i])
<1>0. Types /\ Types' /\ (Takes(i) \/ log'[i] = Append(log[i], term[i]))
  BY StepFacts DEF LogInv
<1>1. log[i] \in Seq(Nat) /\ term[i] \in Nat /\ Len(log[i]) \in Nat
  BY <1>0 DEF Types
<1>2. ASSUME NEW m \in Requests, term'[i] = m.term, ~Starts(m.full, log[i])
      PROVE  FALSE
  BY ZenonT(60), <1>2 DEF LogInv, RequestFits
<1>3. log'[i] = log[i] \/ log'[i] = Append(log[i], term[i])
  BY <1>0, <1>2 DEF Takes
<1>4. CASE log'[i] = log[i]
  BY <1>1, <1>4 DEF Starts, Same
<1>5. CASE log'[i] = Append(log[i], term[i])
  BY <1>1, <1>5, AppendFacts DEF Starts
<1> QED BY <1>3, <1>4, <1>5

\* What server j has taken of a request of leader i is in the logs of both.
LEMMA AckedFacts ==
    ASSUME LogInv, StepFits, NEW i \in Server, NEW j \in Server, NEW n \in Nat \ {0},
           Leads(i), Acked(i, j, n)
    PROVE  /\ i # j /\ term[j] <= term[i] /\ term'[j] = term[i] /\ n <= Len(log[i])
           /\ Same(log'[j], log[i], n)
<1>0. Types /\ Types'
  BY DEF LogInv, StepFits
<1>1. PICK m \in Requests : /\ m.src = i /\ m.dest = j /\ m.term = term[i]
                            /\ term[j] <= m.term /\ term'[j] = m.term
                            /\ n <= Len(m.full) /\ Starts(m.full, log'[j])
  BY DEF Acked
<1>2. m.full \in Seq(Nat) /\ Len(m.full) \in Nat
  BY <1>0, RequestTypes
<1>3. m.src # m.dest /\ Starts(m.full, log[i])
  BY <1>1 DEF LogInv, RequestFits
<1>4. /\ log[i] \in Seq(Nat) /\ log'[j] \in Seq(Nat) /\ Len(log[i]) \in Nat
      /\ Len(log'[j]) \in Nat
  <2>1. log[i] \in Seq(Nat) /\ log'[j] \in Seq(Nat)
    BY <1>0 DEF Types
  <2> QED BY <2>1
<1>5. /\ Len(m.full) <= Len(log[i]) /\ \A x \in 1..Len(m.full) : m.full[x] = log[i][x]
      /\ Len(m.full) <= Len(log'[j]) /\ \A x \in 1..Len(m.full) : m.full[x] = log'[j][x]
  BY <1>1, <1>3 DEF Starts, Same
<1>6. n <= Len(log[i]) /\ n <= Len(log'[j])
  BY SMTT(40), <1>1, <1>2, <1>4, <1>5
<1>7. ASSUME NEW x \in 1..n
      PROVE  log'[j][x] = log[i][x]
  <2>1. x \in 1..Len(m.full)
    BY <1>1, <1>2
  <2> QED BY <1>5, <2>1
<1>8. Same(log'[j], log[i], n)
  BY <1>6, <1>7 DEF Same
<1> QED BY <1>1, <1>3, <1>6, <1>8

LEMMA AcksFitStays ==
    ASSUME LogInv, LogInv', StepFits, AckStep, AcksFit
    PROVE  AcksFit'
<1> SUFFICES ASSUME NEW i \in Server, NEW j \in Server, NEW n \in Nat \ {0},
                    Leads(i)', Ack(i, j, n)'
             PROVE  /\ i # j /\ n <= Len(log'[i]) /\ term'[i] <= term'[j]
                    /\ term'[i] = term'[j] => Same(log'[j], log'[i], n)
  BY DEF AcksFit
<1>0. Types /\ Types' /\ TermsGrow
  BY StepFacts DEF LogInv
<1>1. Leads(i) /\ term'[i] = term[i] /\ (Ack(i, j, n) \/ Acked(i, j, n))
  BY DEF AckStep
<1>2. Starts(log[i], log'[i])
  BY <1>1, LeaderGrows
<1>t. /\ term[i] \in Nat /\ term[j] \in Nat /\ term'[j] \in Nat /\ term[j] <= term'[j]
      /\ term'[i] = term[i]
  BY <1>0, <1>1 DEF Types, TermsGrow
<1>3. /\ log[i] \in Seq(Nat) /\ log'[i] \in Seq(Nat) /\ Len(log[i]) \in Nat
      /\ Len(log'[i]) \in Nat /\ Len(log[i]) <= Len(log'[i])
      /\ log[j] \in Seq(Nat) /\ log'[j] \in Seq(Nat) /\ Len(log[j]) \in Nat
  <2>1. /\ log[i] \in Seq(Nat) /\ log'[i] \in Seq(Nat) /\ log[j] \in Seq(Nat)
        /\ log'[j] \in Seq(Nat)
    BY <1>0 DEF Types
  <2>2. Len(log[i]) <= Len(log'[i])
    BY <1>2 DEF Starts, Same
  <2> QED BY <2>1, <2>2
<1>4. ASSUME n <= Len(log[i]), Same(log'[j], log[i], n)
      PROVE  Same(log'[j], log'[i], n)
  <2>1. Same(log[i], log'[i], n)
    BY <1>2, <1>3, <1>4, SameFacts DEF Starts
  <2> QED BY <1>3, <1>4, <2>1, SameFacts
<1>5. CASE Acked(i, j, n)
  <2>1. /\ i # j /\ term'[j] = term[i] /\ n <= Len(log[i]) /\ Same(log'[j], log[i], n)
    BY <1>1, <1>5, AckedFacts
  <2>2. Same(log'[j], log'[i], n)
    BY <1>4, <2>1
  <2>3. n <= Len(log'[i])
    BY <1>3, <2>1
  <2>4. term'[i] <= term'[j]
    BY <1>t, <2>1
  <2> QED BY <2>1, <2>2, <2>3, <2>4
<1>6. CASE Ack(i, j, n)
  <2>1. /\ i # j /\ n <= Len(log[i]) /\ term[i] <= term[j]
        /\ term[i] = term[j] => Same(log[j], log[i], n)
    BY <1>1, <1>6 DEF AcksFit
  <2>2. term'[i] <= term'[j] /\ n <= Len(log'[i])
    <3>1. term'[i] <= term'[j]
      <4>1. term[i] <= term[j]
        BY <2>1
      <4> QED BY <1>t, <4>1
    <3>2. n <= Len(log'[i])
      BY <1>3, <2>1
    <3> QED BY <3>1, <3>2
  <2>3. ASSUME term'[i] = term'[j]
        PROVE  Same(log'[j], log[i], n)
    <3>1. term[j] = term[i] /\ Same(log[j], log[i], n)
      <4>0. term[i] <= term[j]
        BY <2>1
      <4>1. term[j] = term[i]
        BY <1>t, <2>3, <4>0
      <4> QED BY <2>1, <4>1
    <3>2. Takes(j) \/ log'[j] = Append(log[j], term[j])
      BY StepFacts
    <3>3. CASE log'[j] = log[j]
      BY <3>1, <3>3
    <3>4. CASE log'[j] = Append(log[j], term[j])
      <4>1. Same(log[j], log'[j], Len(log[j])) /\ n <= Len(log[j])
        BY <1>3, <3>1, <3>4, AppendFacts DEF Same
      <4>2. Same(log'[j], log[j], n)
        BY <1>3, <4>1, SameFacts
      <4> QED BY <1>3, <3>1, <4>2, SameFacts
    <3>5. ASSUME NEW m \in Requests, term'[j] = m.term, ~Starts(m.full, log[j]),
                 log'[j] = m.full
          PROVE  Same(log'[j], log[i], n)
      <4>1. m.full \in Seq(Nat) /\ Len(m.full) \in Nat
        BY <1>0, RequestTypes
      <4>2. Starts(m.full, log[i])
        BY ZenonT(60), <1>1, <2>3, <3>5 DEF LogInv, RequestFits
      <4>3. CASE n <= Len(m.full)
        BY <1>3, <3>5, <4>1, <4>2, <4>3, SameFacts DEF Starts
      <4>4. CASE Len(m.full) < n
        <5>1. Same(log[i], log[j], n)
          BY <1>3, <3>1, SameFacts
        <5>2. Starts(m.full, log[j])
          BY <1>3, <4>1, <4>2, <4>4, <5>1, StartsFacts
        <5> QED BY <3>5, <5>2
      <4> QED BY <4>1, <4>3, <4>4
    <3> QED BY <3>2, <3>3, <3>4, <3>5 DEF Takes
  <2> QED BY <1>4, <2>1, <2>2, <2>3
<1> QED BY <1>1, <1>5, <1>6

\* Whoever has won a later term than leader i's has the votes of servers that will never hold
\* an entry of i's log that they have not told it of.
LEMMA LaterTermLoses ==
    ASSUME Types', NEW i \in Server, NEW n \in Nat, NEW k \in Server, NEW u \in Nat,
           Won(k, u)', term'[i] < u, \A j \in Server : j # i => ~Ack(i, j, n)'
    PROVE  Lost(i, n)'
<1>1. PICK Q \in Quorums' : \A j \in Q : u < term'[j] \/ (u = term'[j] /\ votedFor'[j] = k)
  BY DEF Won
<1>2. ASSUME NEW j \in Q
      PROVE  j # i /\ term'[i] < term'[j] /\ ~Ack(i, j, n)'
  <2>1. j \in Server
    BY DEF Quorums
  <2>2. term'[i] \in Nat /\ term'[j] \in Nat
    BY <2>1 DEF Types
  <2>3. u <= term'[j]
    BY <1>1, <2>2
  <2>4. term'[i] < term'[j]
    BY <2>2, <2>3
  <2> QED BY <2>1, <2>2, <2>4
<1> QED BY <1>1, <1>2 DEF Lost

\* An entry that can no longer be committed never can.
LEMMA LostStays ==
    ASSUME LogInv, StepFits, AckStep, NEW i \in Server, NEW n \in Nat \ {0},
           Leads(i), Leads(i)', term'[i] = term[i], Lost(i, n)
    PROVE  Lost(i, n)'
<1>0. Types /\ Types' /\ TermsGrow
  BY StepFacts DEF LogInv, StepFits
<1>1. PICK Q \in Quorums : \A j \in Q : j # i /\ term[i] < term[j] /\ ~Ack(i, j, n)
  BY DEF Lost
<1>2. ASSUME NEW j \in Q
      PROVE  j # i /\ term'[i] < term'[j] /\ ~Ack(i, j, n)'
  <2>1. j \in Server /\ j # i /\ term[i] < term[j] /\ ~Ack(i, j, n)
    BY <1>1 DEF Quorums
  <2>2. /\ term[i] \in Nat /\ term[j] \in Nat /\ term'[j] \in Nat /\ term[j] <= term'[j]
    BY <1>0, <2>1 DEF Types, TermsGrow
  <2>3. ~Acked(i, j, n)
    <3>1. Acked(i, j, n) => term[j] <= term[i]
      BY <2>1, AckedFacts
    <3> QED BY <2>1, <2>2, <3>1
  <2>4. ~Ack(i, j, n)'
    BY <2>1, <2>3 DEF AckStep
  <2>5. term'[i] < term'[j]
    BY <2>1, <2>2
  <2> QED BY <2>1, <2>4, <2>5
<1>3. Quorums' = Quorums
  BY DEF Quorums
<1> QED BY <1>2, <1>3 DEF Lost

\* An entry that can be committed still can, unless a candidate wins without it.
LEMMA FateStays ==
    ASSUME LogInv, LogInv', StepFits, AckStep, AcksFit,
           NEW i \in Server, Leads(i), Leads(i)', term'[i] = term[i],
           NEW p \in Seq(Nat), Len(p) > 0, p[Len(p)] = term[i], Starts(p, log[i]),
           Spread(p, term[i]), Holds(Told(i, Len(p)), p, term[i])
    PROVE  \/ Lost(i, Len(p))'
           \/ Spread(p, term[i])' /\ Holds(Told(i, Len(p)), p, term[i])'
<1>0. Types /\ Types' /\ TermsGrow
  BY StepFacts DEF LogInv, StepFits
<1>1. PICK t \in Nat, n \in Nat \ {0} : t = term[i] /\ n = Len(p)
  BY SMTT(40), <1>0 DEF Types
<1>2. /\ t = term[i] /\ t = term'[i] /\ t \in Nat /\ n \in Nat /\ n # 0
      /\ Spread(p, t) /\ Holds(Told(i, n), p, t)
  BY <1>1
<1>3. ASSUME NEW k \in Server, Wins(k), t < term[k] + 1, ~Starts(p, log[k])
      PROVE  Lost(i, n)'
  <2>1. PICK V \in Quorums : Votes(k, V)
    BY <1>3 DEF Wins
  <2>2. ASSUME NEW j \in V
        PROVE  j # i /\ term'[i] < term'[j] /\ ~Ack(i, j, n)'
    <3>1. j \in Server /\ term'[j] = term[k] + 1 /\ UpToDate(log[k], log[j])
      BY <2>1 DEF Votes, Quorums
    <3>2. j \notin Told(i, n)
      <4> SUFFICES ASSUME j \in Told(i, n) PROVE FALSE
        OBVIOUS
      <4>1. Starts(p, log[j])
        BY <1>2 DEF Holds
      <4> QED BY <1>1, <1>2, <1>3, <3>1, <4>1, Electable
    <3>3. j # i /\ ~Ack(i, j, n)
      BY <3>1, <3>2 DEF Told
    <3>4. t < term'[j]
      BY <1>3, <3>1
    <3>5. ~Acked(i, j, n)
      <4>1. Acked(i, j, n) => term'[j] = t
        BY <1>1, <3>1, AckedFacts
      <4> QED BY <1>2, <3>4, <4>1
    <3>6. ~Ack(i, j, n)'
      BY <1>1, <3>1, <3>3, <3>5 DEF AckStep
    <3> QED BY <1>2, <3>3, <3>4, <3>6
  <2>3. Quorums' = Quorums
    BY DEF Quorums
  <2> QED BY <2>2, <2>3 DEF Lost
<1>4. ASSUME \A k \in Server : Wins(k) /\ t < term[k] + 1 => Starts(p, log[k])
      PROVE  Spread(p, t)' /\ Holds(Told(i, n), p, t)'
  <2>1. Spread(p, t)'
    BY <1>2, <1>4, SpreadStays
  <2>2. ASSUME NEW j \in Server, j = i \/ Ack(i, j, n)'
        PROVE  t <= term'[j] /\ Starts(p, log'[j])
    <3>1. CASE j = i \/ Ack(i, j, n)
      <4>1. t <= term[j] /\ Starts(p, log[j])
        BY <1>2, <3>1 DEF Holds, Told
      <4> QED BY <1>0, <1>1, <1>2, <4>1, HoldsStays
    <3>2. CASE Acked(i, j, n)
      <4>1. term'[j] = term[i] /\ n <= Len(log[i]) /\ Same(log'[j], log[i], n)
        BY <1>1, <3>2, AckedFacts
      <4>2. log[i] \in Seq(Nat) /\ log'[j] \in Seq(Nat)
        BY <1>0 DEF Types
      <4>3. Same(log[i], log'[j], n)
        BY <1>2, <4>1, <4>2, SameFacts
      <4>4. Starts(p, log'[j])
        BY <1>1, <1>2, <4>2, <4>3, StartsFacts
      <4> QED BY <1>2, <4>1, <4>4
    <3> QED BY <1>1, <2>2, <3>1, <3>2 DEF AckStep
  <2>3. Holds(Told(i, n), p, t)'
    BY <2>2 DEF Holds, Told
  <2> QED BY <2>1, <2>3
<1>5. CASE \E k \in Server : Wins(k) /\ t < term[k] + 1 /\ ~Starts(p, log[k])
  BY <1>1, <1>3, <1>5
<1>6. CASE \A k \in Server : Wins(k) /\ t < term[k] + 1 => Starts(p, log[k])
  <2>1. Spread(p, t)' /\ Holds(Told(i, n), p, t)'
    BY <1>4, <1>6
  <2>2. PICK s : s = term[i]
    OBVIOUS
  <2>3. s = t /\ n = Len(p)
    BY <1>1, <2>2
  <2> QED BY <1>1, <2>1, <1>2 DEF Holds, Told
<1> QED BY <1>5, <1>6

\* A new entry is held by nobody else, and nothing is of a later term, or it is lost.
LEMMA NewFate ==
    ASSUME LogInv, LogInv', StepFits, AckStep, AcksFit,
           NEW i \in Server, Leads(i), Leads(i)', term'[i] = term[i],
           log'[i] = Append(log[i], term[i])
    PROVE  \/ Lost(i, Len(log[i]))'
           \/ /\ Spread(log[i], term[i])'
              /\ Holds(Told(i, Len(log[i])), log[i], term[i])'
<1>0. Types /\ Types' /\ LogsFit' /\ LeadersFit' /\ \A m \in Requests' : RequestFits(m)'
  BY DEF LogInv, StepFits
<1>1. log[i] \in Seq(Nat) /\ term[i] \in Nat /\ Len(log[i]) \in Nat
  BY <1>0 DEF Types
<1>2. PICK t \in Nat, p \in Seq(Nat), n \in Nat \ {0} :
        t = term'[i] /\ p = log'[i] /\ n = Len(log'[i])
  <2>1. term'[i] \in Nat /\ log'[i] \in Seq(Nat)
    BY <1>0 DEF Types
  <2>2. Len(log'[i]) = Len(log[i]) + 1
    BY <1>1, AppendFacts
  <2>3. Len(log'[i]) \in Nat \ {0}
    BY <1>1, <2>2
  <2> QED BY <2>1, <2>3
<1>3. /\ t \in Nat /\ n \in Nat /\ n # 0 /\ n = Len(log[i]) + 1 /\ t = term[i] /\ t = term'[i]
      /\ p = log'[i] /\ p \in Seq(Nat) /\ n = Len(p)
  BY <1>1, <1>2, AppendFacts
<1>4. ASSUME NEW j \in Server, j # i
      PROVE  ~Ack(i, j, n)'
  <2>1. Ack(i, j, n) => n <= Len(log[i])
    BY <1>2 DEF AcksFit
  <2>2. Acked(i, j, n) => n <= Len(log[i])
    BY <1>2, AckedFacts
  <2>3. ~(n <= Len(log[i]))
    BY <1>1, <1>3
  <2> QED BY <1>2, <2>1, <2>2, <2>3 DEF AckStep
<1>5. ASSUME NEW k \in Server, NEW u \in Nat, Won(k, u)', t < u
      PROVE  Lost(i, n)'
  BY <1>0, <1>3, <1>4, <1>5, LaterTermLoses
<1>6. ASSUME ~Lost(i, n)'
      PROVE  Spread(p, t)'
  <2>1. ASSUME NEW l \in Logs', NEW x \in 1..Len(l), t < l[x]
        PROVE  FALSE
    <3>1. l \in Seq(Nat)
      <4>1. \A j \in Server : log'[j] \in Seq(Nat)
        BY <1>0 DEF Types
      <4>2. \A m \in Requests' : m.full \in Seq(Nat)
        <5>1. ASSUME NEW m \in Requests'
              PROVE  m.full \in Seq(Nat)
          <6>1. m \in Message /\ m.type = "AppendEntries"
            BY <1>0 DEF Types, Requests
          <6> QED BY <6>1 DEF Message, AppendRequests, AppendReplies
        <5> QED BY <5>1
      <4> QED BY <4>1, <4>2 DEF Logs
    <3>2. l[x] \in Nat
      BY <3>1, ElementOfSeq
    <3>3. PICK k \in Server : Won(k, l[x])'
      BY <1>0 DEF LogsFit
    <3> QED BY <1>5, <1>6, <2>1, <3>2, <3>3
  <2>2. ASSUME NEW k \in Server, Leads(k)', t < term'[k]
        PROVE  FALSE
    <3>1. PICK u \in Nat : u = term'[k]
      BY <1>0 DEF Types
    <3>2. Won(k, term[k])'
      BY <1>0, <2>2 DEF LeadersFit
    <3>3. Won(k, u)'
      BY <3>1, <3>2 DEF Won
    <3> QED BY <1>5, <1>6, <2>2, <3>1, <3>3
  <2>3. ASSUME NEW m \in Requests', t < m.term
        PROVE  FALSE
    <3>1. m.term \in Nat /\ m.src \in Server
      <4>1. m \in Message /\ m.type = "AppendEntries"
        BY <1>0 DEF Types, Requests
      <4> QED BY <4>1 DEF Message, AppendRequests, AppendReplies
    <3>2. Won(m.src, m.term)'
      BY <1>0 DEF RequestFits
    <3> QED BY <1>5, <1>6, <2>3, <3>1, <3>2
  <2> QED BY <2>1, <2>2, <2>3 DEF Spread
<1>7. Holds(Told(i, n), p, t)'
  <2>1. Starts(p, log'[i]) /\ t <= term'[i]
    BY <1>1, <1>3 DEF Starts, Same
  <2>2. \A j \in Server : j = i \/ ~Ack(i, j, n)'
    BY <1>4
  <2> QED BY <2>1, <2>2 DEF Holds, Told
<1>8. Spread(log[i], term[i])' <=> Spread(p, t)'
  BY <1>3 DEF Spread
<1>9. Holds(Told(i, Len(log[i])), log[i], term[i])' <=> Holds(Told(i, n), p, t)'
  BY <1>2, <1>3 DEF Holds, Told
<1>10. Lost(i, Len(log[i]))' <=> Lost(i, n)'
  BY <1>2 DEF Lost
<1> QED BY <1>6, <1>7, <1>8, <1>9, <1>10

LEMMA FateFitsStays ==
    ASSUME LogInv, LogInv', StepFits, AckStep, AcksFit, FateFits
    PROVE  FateFits'
<1> SUFFICES ASSUME NEW i \in Server, Leads(i)', NEW n \in 1..Len(log'[i]),
                    log'[i][n] = term'[i]
             PROVE  \/ Lost(i, n)'
                    \/ /\ Spread(Upto(log[i], n), term[i])'
                       /\ Holds(Told(i, n), Upto(log[i], n), term[i])'
  BY DEF FateFits
<1>0. Types /\ Types'
  BY DEF LogInv
<1>1. /\ log[i] \in Seq(Nat) /\ log'[i] \in Seq(Nat) /\ term[i] \in Nat
  BY <1>0 DEF Types
<1>2. Len(log[i]) \in Nat /\ Len(log'[i]) \in Nat /\ n \in Nat /\ n > 0 /\ n <= Len(log'[i])
  BY <1>1
<1>3. Leads(i) /\ term'[i] = term[i]
  <2>1. CASE Wins(i)
    <3>1. log'[i] = log[i] /\ term'[i] = term[i] + 1 /\ log[i] \in Logs
      BY <1>0, <2>1, LogTypes DEF Wins
    <3> QED BY <2>1, <3>1, WinsAreNew
  <2> QED BY <2>1, StepFacts
<1>4. PICK p : p = Upto(log'[i], n)
  OBVIOUS
<1>5. p \in Seq(Nat) /\ Len(p) = n /\ \A x \in 1..n : p[x] = log'[i][x]
  BY <1>1, <1>2, <1>4, UptoFacts
<1>6. Starts(p, log'[i]) /\ p[Len(p)] = term[i] /\ Len(p) > 0
  <2>1. Starts(p, log'[i])
    BY <1>2, <1>5 DEF Starts, Same
  <2>2. n \in 1..n
    BY <1>2
  <2> QED BY <1>2, <1>3, <1>5, <2>1, <2>2
<1>7. CASE n <= Len(log[i])
  <2>1. Starts(log[i], log'[i])
    BY <1>3, LeaderGrows
  <2>2. \A x \in 1..n : log[i][x] = log'[i][x]
    BY <1>2, <1>7, <2>1 DEF Starts, Same
  <2>3. p = Upto(log[i], n)
    <3>1. PICK q : q = Upto(log[i], n)
      OBVIOUS
    <3>2. q \in Seq(Nat) /\ Len(q) = n /\ \A x \in 1..n : q[x] = log[i][x]
      BY <1>1, <1>2, <1>7, <3>1, UptoFacts
    <3>3. p = q
      BY <1>5, <2>2, <3>2, SeqEqual
    <3> QED BY <3>1, <3>3
  <2>4. Starts(p, log[i])
    <3>1. \A x \in 1..n : p[x] = log[i][x]
      BY <1>5, <2>2
    <3> QED BY <1>2, <1>5, <1>7, <3>1 DEF Starts, Same
  <2>5. n \in 1..Len(log[i]) /\ log[i][n] = term[i]
    <3>1. n \in 1..n /\ n \in 1..Len(log[i])
      BY <1>2, <1>7
    <3> QED BY <1>3, <2>2, <3>1
  <2>6. \/ Lost(i, n)
        \/ Spread(p, term[i]) /\ Holds(Told(i, n), p, term[i])
    BY <1>3, <2>3, <2>5 DEF FateFits
  <2>7. CASE Lost(i, n)
    BY <1>2, <1>3, <2>7, LostStays
  <2>8. CASE Spread(p, term[i]) /\ Holds(Told(i, n), p, term[i])
    <3>1. \/ Lost(i, n)'
          \/ Spread(p, term[i])' /\ Holds(Told(i, n), p, term[i])'
      BY <1>3, <1>5, <1>6, <2>4, <2>8, FateStays
    <3> QED BY <1>4, <3>1, Zenon
  <2> QED BY <2>6, <2>7, <2>8
<1>8. CASE Len(log[i]) < n
  <2>1. log'[i] = Append(log[i], term[i]) /\ n = Len(log'[i])
    <3>1. log'[i] = log[i] \/ log'[i] = Append(log[i], term[i])
      BY <1>3, LeaderGrows
    <3>2. Len(Append(log[i], term[i])) = Len(log[i]) + 1
      BY <1>1, AppendFacts
    <3> QED BY <1>2, <1>8, <3>1, <3>2
  <2>2. \/ Lost(i, Len(log[i]))'
        \/ /\ Spread(log[i], term[i])'
           /\ Holds(Told(i, Len(log[i])), log[i], term[i])'
    BY <1>3, <2>1, NewFate
  <2>3. p = log'[i]
    BY <1>1, <1>5, <2>1, SeqEqual
  <2>4. Upto(log'[i], n) = log'[i] /\ n = Len(log'[i])
    BY <1>4, <2>1, <2>3
  <2>5. \/ Lost(i, n)'
        \/ Spread(p, term[i])' /\ Holds(Told(i, n), p, term[i])'
    BY <2>2, <2>3, <2>4, Zenon
  <2> QED BY <1>4, <2>5, Zenon
<1> QED BY <1>2, <1>7, <1>8

-----------------------------------------------------------------------------
(* Committing and applying. *)

\* Server i learns that its first n entries are committed: it counts them, or a leader says so.
Commits(i, n) ==
    /\ n > commitIndex[i]
    /\ \/ Committed(log[i], n, term[i])
       \/ \E m \in Requests : /\ m.commit = n /\ m.term = term'[i]
                              /\ Starts(m.full, log'[i])

\* A commit index changes when a server learns of a commit, or restarts; what is applied is
\* committed.
CommitStep ==
    /\ \A i \in Server : \/ commitIndex'[i] = commitIndex[i]
                         \/ commitIndex'[i] = 0 /\ boot'[i] # boot[i]
                         \/ \E n \in Nat : commitIndex'[i] = n /\ Commits(i, n)
    /\ \A a \in applied' : \/ a \in applied
                           \/ \E i \in Server : \E x \in 1..commitIndex[i] : a = <<x, log[i][x]>>

LEMMA QuietCommits ==
    ASSUME UNCHANGED <<commitIndex, applied>>
    PROVE  CommitStep
BY DEF CommitStep

\* What a leader counts is committed.
LEMMA CountIsCommitted ==
    ASSUME LogInv, FateFits, NEW i \in Server, NEW N \in 1..Len(log[i]), Commit(i, N)
    PROVE  Committed(log[i], N, term[i]) /\ N > commitIndex[i]
<1>0. Types
  BY DEF LogInv
<1>1. /\ log[i] \in Seq(Nat) /\ Len(log[i]) \in Nat /\ commitIndex[i] \in Nat /\ term[i] \in Nat
  <2>1. log[i] \in Seq(Nat) /\ commitIndex[i] \in Nat /\ term[i] \in Nat
    BY <1>0 DEF Types
  <2> QED BY <2>1
<1>2. /\ Leads(i) /\ N \in commitIndex[i] + 1 .. Len(log[i])
      /\ Cardinality(Replicas(i, N)) >= Majority /\ log[i][N] = term[i]
  BY DEF Commit, Looping, Leads
<1>3. N > commitIndex[i] /\ N \in Nat /\ N > 0 /\ N <= Len(log[i])
  BY <1>1, <1>2
<1>4. Replicas(i, N) \in Quorums /\ Replicas(i, N) \subseteq Told(i, N)
  BY <1>2 DEF Replicas, Quorums, Told, Ack
<1>5. ~Lost(i, N)
  <2> SUFFICES ASSUME Lost(i, N) PROVE FALSE
    OBVIOUS
  <2>1. PICK Q \in Quorums : \A j \in Q : j # i /\ ~Ack(i, j, N)
    BY DEF Lost
  <2>2. PICK j \in Server : j \in Q /\ j \in Replicas(i, N)
    BY <1>4, QuorumsMeet
  <2> QED BY <1>4, <2>1, <2>2 DEF Told
<1>6. /\ Spread(Upto(log[i], N), term[i])
      /\ Holds(Told(i, N), Upto(log[i], N), term[i])
  BY <1>2, <1>5 DEF FateFits
<1>7. PICK p : p = Upto(log[i], N)
  OBVIOUS
<1>8. p \in Seq(Nat) /\ Len(p) = N /\ \A x \in 1..N : p[x] = log[i][x]
  BY <1>1, <1>3, <1>7, UptoFacts
<1>9. p[Len(p)] = term[i] /\ Same(log[i], p, N)
  <2>1. N \in 1..N
    BY <1>3
  <2> QED BY <1>2, <1>3, <1>8, <2>1 DEF Same
<1>10. Chosen(p)
  <2>1. Holds(Replicas(i, N), p, term[i])
    BY <1>4, <1>6, <1>7 DEF Holds
  <2> QED BY <1>4, <1>6, <1>7, <1>9, <2>1 DEF Chosen
<1>11. p \in Prefixes
  BY <1>7 DEF Prefixes
<1>12. p[Len(p)] <= term[i]
  BY <1>1, <1>9
<1> QED BY <1>3, <1>9, <1>10, <1>11, <1>12 DEF Committed

LEMMA AcceptCommits ==
    ASSUME LogInv, CommitFits, NEW m \in msgs, AcceptAppend(m.dest, m)
    PROVE  CommitStep
<1>0. /\ Types /\ m \in Requests
      /\ m.term = term'[m.dest]
      /\ log'[m.dest] = IF Starts(m.full, log[m.dest]) THEN log[m.dest] ELSE m.full
      /\ m.prev + Len(m.entries) = Len(m.full)
  BY AcceptFits DEF LogInv
<1>1. PICK j \in Server : j = m.dest
  BY <1>0, RequestTypes
<1>2. /\ commitIndex' = [commitIndex EXCEPT ![j] = CommitAfter(commitIndex[j], m)]
      /\ applied' = applied
  BY <1>1 DEF AcceptAppend
<1>3. commitIndex[j] \in Nat /\ commitIndex \in [Server -> Nat]
  BY <1>0 DEF Types
<1>4. m.commit \in Nat /\ m.full \in Seq(Nat) /\ Len(m.full) \in Nat
  BY <1>0, RequestTypes
<1>5. m.commit <= Len(m.full)
  <2>1. CASE m.commit = 0
    BY <1>4, <2>1
  <2>2. CASE m.commit > 0
    BY <1>0, <2>2 DEF CommitFits, Committed, Same
  <2> QED BY <1>4, <2>1, <2>2
<1>6. CommitAfter(commitIndex[j], m) = IF m.commit > commitIndex[j] THEN m.commit
                                                                    ELSE commitIndex[j]
  BY <1>0, <1>4, <1>5 DEF CommitAfter, Lesser
<1>7. Starts(m.full, log'[j])
  <2>1. Starts(m.full, m.full)
    BY <1>4 DEF Starts, Same
  <2> QED BY <1>0, <1>1, <2>1
<1>8. ASSUME NEW i \in Server
      PROVE  \/ commitIndex'[i] = commitIndex[i]
             \/ \E n \in Nat : commitIndex'[i] = n /\ Commits(i, n)
  <2>1. CASE i # j
    BY <1>2, <1>3, <2>1
  <2>2. CASE i = j /\ ~(m.commit > commitIndex[j])
    BY <1>2, <1>3, <1>6, <2>2
  <2>3. CASE i = j /\ m.commit > commitIndex[j]
    <3>1. commitIndex'[i] = m.commit
      BY <1>2, <1>3, <1>6, <2>3
    <3>2. Commits(i, m.commit)
      BY <1>0, <1>1, <1>7, <2>3 DEF Commits
    <3> QED BY <1>4, <3>1, <3>2
  <2> QED BY <2>1, <2>2, <2>3
<1> QED BY <1>2, <1>8 DEF CommitStep

LEMMA CommitsAreKnown ==
    ASSUME LogInv, FateFits, CommitFits, [Next]_vars
    PROVE  CommitStep
<1>0. Types
  BY DEF LogInv
<1>1. ASSUME NEW m \in msgs, \/ ReceiveAppend(m.dest, m) \/ Lose(m)
                             \/ RefuseAppend(m.dest, m) \/ MismatchAppend(m.dest, m)
      PROVE  CommitStep
  <2>1. UNCHANGED <<commitIndex, applied>>
    BY <1>1 DEF ReceiveAppend, Lose, RefuseAppend, MismatchAppend
  <2> QED BY <2>1, QuietCommits
<1>2. ASSUME NEW i \in Server, NEW j \in Server, InitLeader(i) \/ Start(i) \/ SendAppend(i, j)
      PROVE  CommitStep
  <2>1. UNCHANGED <<commitIndex, applied>>
    BY <1>2 DEF InitLeader, Start, SendAppend
  <2> QED BY <2>1, QuietCommits
<1>3. ASSUME NEW i \in Server, NEW Q \in SUBSET (Server \ {i}),
             Elected(i, Q) \/ Undecided(i, Q) \/ \E j \in Q : Deposed(i, Q, j)
      PROVE  CommitStep
  <2>1. UNCHANGED <<commitIndex, applied>>
    BY <1>3 DEF Elected, Undecided, Deposed, Round
  <2> QED BY <2>1, QuietCommits
<1>4. ASSUME NEW i \in Server, NEW N \in 1..Len(log[i]), Commit(i, N)
      PROVE  CommitStep
  <2>1. commitIndex' = [commitIndex EXCEPT ![i] = N] /\ applied' = applied /\ N \in Nat
    BY <1>4 DEF Commit
  <2>2. Commits(i, N)
    BY <1>4, CountIsCommitted DEF Commits
  <2>3. commitIndex \in [Server -> Nat]
    BY <1>0 DEF Types
  <2> QED BY <2>1, <2>2, <2>3 DEF CommitStep
<1>5. ASSUME NEW i \in Server, Apply(i)
      PROVE  CommitStep
  <2>1. /\ commitIndex' = commitIndex /\ lastApplied[i] < commitIndex[i]
        /\ applied' = applied \cup {<<lastApplied[i] + 1, log[i][lastApplied[i] + 1]>>}
    BY <1>5 DEF Apply
  <2>2. lastApplied[i] \in Nat /\ commitIndex[i] \in Nat
    BY <1>0 DEF Types
  <2>3. lastApplied[i] + 1 \in 1..commitIndex[i]
    BY <2>1, <2>2
  <2>4. \A a \in applied' : \/ a \in applied
                            \/ \E x \in 1..commitIndex[i] : a = <<x, log[i][x]>>
    BY <2>1, <2>3
  <2> QED BY <2>1, <2>4 DEF CommitStep
<1>6. ASSUME NEW i \in Server, Restart(i)
      PROVE  CommitStep
  <2>1. /\ commitIndex' = [commitIndex EXCEPT ![i] = 0] /\ boot' = [boot EXCEPT ![i] = @ + 1]
        /\ applied' = applied
    BY <1>6 DEF Restart
  <2>2. commitIndex \in [Server -> Nat] /\ boot \in [Server -> Nat] /\ boot[i] \in Nat
    BY <1>0 DEF Types
  <2>3. commitIndex'[i] = 0 /\ boot'[i] # boot[i]
    BY <2>1, <2>2
  <2>4. \A k \in Server \ {i} : commitIndex'[k] = commitIndex[k]
    BY <2>1, <2>2
  <2> QED BY <2>1, <2>3, <2>4 DEF CommitStep
<1>7. CASE Next
  BY <1>1, <1>2, <1>3, <1>4, <1>5, <1>6, <1>7, AcceptCommits DEF Next
<1>8. CASE UNCHANGED vars
  BY <1>8, QuietCommits DEF vars
<1> QED BY <1>7, <1>8

LEMMA CommitFitsStays ==
    ASSUME LogInv, LogInv', StepFits, CommitStep, CommitFits
    PROVE  CommitFits'
<1>0. Types /\ Types' /\ TermsGrow
  BY StepFacts DEF LogInv
<1>1. ASSUME NEW i \in Server
      PROVE  /\ commitIndex[i] \in Nat /\ term[i] \in Nat /\ term'[i] \in Nat
             /\ log[i] \in Seq(Nat) /\ log'[i] \in Seq(Nat) /\ term[i] <= term'[i]
  BY <1>0 DEF Types, TermsGrow
<1>2. ASSUME NEW i \in Server, NEW n \in Nat, Commits(i, n)
      PROVE  Committed(log[i], n, term[i])'
  <2>1. CASE Committed(log[i], n, term[i])
    BY <2>1, CommittedStays
  <2>2. ASSUME NEW m \in Requests, m.commit = n, m.term = term'[i], Starts(m.full, log'[i]), n > 0
        PROVE  Committed(log[i], n, term[i])'
    <3>1. PICK p \in Prefixes : Chosen(p) /\ p[Len(p)] <= m.term /\ Same(m.full, p, n)
      BY <2>2 DEF CommitFits, Committed
    <3>2. p \in Seq(Nat) /\ p \in Prefixes' /\ Chosen(p)'
      BY <1>0, <3>1, PrefixTypes, ChosenStays
    <3>3. m.full \in Seq(Nat) /\ Len(m.full) \in Nat /\ n <= Len(m.full)
      BY <1>0, <3>1, RequestTypes DEF Same
    <3>4. Same(m.full, log'[i], n)
      BY <1>1, <2>2, <3>3, SameFacts DEF Starts
    <3>5. Same(log'[i], p, n)
      <4>1. Same(log'[i], m.full, n)
        BY <1>1, <3>3, <3>4, SameFacts
      <4> QED BY <1>1, <3>1, <3>2, <3>3, <4>1, SameFacts
    <3> QED BY <2>2, <3>1, <3>2, <3>5 DEF Committed
  <2>3. CASE n = 0
    BY <2>3 DEF Committed
  <2> QED BY <1>2, <2>1, <2>2, <2>3 DEF Commits
<1>3. ASSUME NEW i \in Server
      PROVE  Committed(log[i], commitIndex[i], term[i])'
  <2>1. CASE commitIndex'[i] = commitIndex[i]
    <3>1. PICK c \in Nat : c = commitIndex[i]
      BY <1>1
    <3>2. Committed(log[i], c, term[i])
      BY <3>1 DEF CommitFits
    <3>3. Committed(log[i], c, term[i])'
      BY <3>2, CommittedStays
    <3> QED BY <2>1, <3>1, <3>3 DEF Committed
  <2>2. CASE commitIndex'[i] = 0
    BY <2>2 DEF Committed
  <2>3. ASSUME NEW n \in Nat, commitIndex'[i] = n, Commits(i, n)
        PROVE  Committed(log[i], commitIndex[i], term[i])'
    <3>1. Committed(log[i], n, term[i])'
      BY <1>2, <2>3
    <3> QED BY <2>3, <3>1 DEF Committed
  <2> QED BY <2>1, <2>2, <2>3 DEF CommitStep
<1>4. ASSUME NEW l, NEW c, NEW t, Committed(l, c, t)
      PROVE  Committed(l, c, t)'
  BY <1>4, ChosenStays DEF Committed
<1>5. ASSUME NEW m \in Requests'
      PROVE  Committed(m.full, m.commit, m.term)'
  <2>1. CASE m \in Requests
    BY <1>4, <2>1 DEF CommitFits
  <2>2. ASSUME NEW i \in Server, m.full = log[i], m.term = term[i], m.commit = commitIndex[i]
        PROVE  Committed(m.full, m.commit, m.term)
    BY <2>2 DEF CommitFits
  <2>3. Committed(m.full, m.commit, m.term)
    BY <2>1, <2>2, StepFacts DEF CommitFits
  <2> QED BY <1>4, <2>3
<1>6. ASSUME NEW i \in Server, NEW x \in 1..commitIndex[i]
      PROVE  /\ <<x, log[i][x]>> \in Nat \X Nat
             /\ \E p \in Prefixes : Chosen(p) /\ x \in 1..Len(p) /\ log[i][x] = p[x]
  <2>1. commitIndex[i] \in Nat /\ x \in Nat /\ x > 0 /\ x <= commitIndex[i]
    BY <1>1
  <2>2. PICK p \in Prefixes : Chosen(p) /\ Same(log[i], p, commitIndex[i])
    BY <2>1 DEF CommitFits, Committed
  <2>3. p \in Seq(Nat) /\ Len(p) \in Nat
    BY <1>0, PrefixTypes
  <2>4. x \in 1..Len(p) /\ log[i][x] = p[x]
    BY <2>1, <2>2, <2>3 DEF Same
  <2>5. p[x] \in Nat
    BY <2>3, <2>4, ElementOfSeq
  <2> QED BY <2>1, <2>2, <2>4, <2>5
<1>7. \A a \in applied' : a \in Nat \X Nat
  BY <1>6 DEF CommitStep, CommitFits
<1>8. ASSUME NEW a \in applied'
      PROVE  \E p \in Prefixes' : Chosen(p)' /\ a[1] \in 1..Len(p) /\ a[2] = p[a[1]]
  <2>1. PICK p \in Prefixes : Chosen(p) /\ a[1] \in 1..Len(p) /\ a[2] = p[a[1]]
    <3>1. CASE a \in applied
      BY <3>1 DEF CommitFits
    <3>2. ASSUME NEW i \in Server, NEW x \in 1..commitIndex[i], a = <<x, log[i][x]>>
          PROVE  \E p \in Prefixes : Chosen(p) /\ a[1] \in 1..Len(p) /\ a[2] = p[a[1]]
      BY <1>6, <3>2
    <3> QED BY <3>1, <3>2 DEF CommitStep
  <2>2. p \in Prefixes' /\ Chosen(p)'
    BY <2>1, ChosenStays
  <2> QED BY <2>1, <2>2
<1> QED BY <1>3, <1>5, <1>7, <1>8 DEF CommitFits

-----------------------------------------------------------------------------
(* What a leader sends next. *)

LEMMA NextKept ==
    ASSUME LogInv, LogInv', StepFits, NextFits, NEW i \in Server, NEW j \in Server,
           Leads(i), Looping(i)', starting'[i] = starting[i], leads'[i] = leads[i],
           nextIndex'[i][j] = nextIndex[i][j]
    PROVE  nextIndex'[i][j] <= Len(log'[i]) + 1
<1>0. Types /\ Types'
  BY DEF LogInv
<1>1. Looping(i) /\ Leads(i)'
  BY DEF Looping, Leads
<1>2. term'[i] = term[i]
  BY <1>1, StepFacts DEF Wins
<1>3. Starts(log[i], log'[i])
  BY <1>1, <1>2, LeaderGrows
<1>4. nextIndex[i][j] <= Len(log[i]) + 1
  BY <1>1 DEF NextFits
<1>5. /\ log[i] \in Seq(Nat) /\ log'[i] \in Seq(Nat) /\ nextIndex[i][j] \in Nat
  BY <1>0 DEF Types
<1>6. Len(log[i]) <= Len(log'[i]) /\ Len(log[i]) \in Nat /\ Len(log'[i]) \in Nat
  BY <1>3, <1>5 DEF Starts, Same
<1> QED BY <1>4, <1>5, <1>6

LEMMA QuietNext ==
    ASSUME LogInv, LogInv', StepFits, NextFits, UNCHANGED <<nextIndex, starting, leads>>,
           \A i \in Server : Leads(i)' => Leads(i)
    PROVE  NextFits'
<1>1. ASSUME NEW i \in Server, NEW j \in Server, Looping(i)'
      PROVE  nextIndex'[i][j] <= Len(log'[i]) + 1
  <2>1. Leads(i)
    BY <1>1 DEF Looping, Leads
  <2> QED BY <1>1, <2>1, NextKept
<1> QED BY <1>1 DEF NextFits

\* Whoever adopts a term follows.
LEMMA AdoptNoLeaders ==
    ASSUME Types, NEW i \in Server, NEW t, AdoptTerm(i, t)
    PROVE  \A k \in Server : Leads(k)' => Leads(k)
BY DEF Types, AdoptTerm, StepDown, persistent, Leads

LEMMA StartNext ==
    ASSUME LogInv, LogInv', StepFits, NextFits, NEW i \in Server, InitLeader(i) \/ Start(i)
    PROVE  NextFits'
<1>0. Types
  BY DEF LogInv
<1>1. /\ nextIndex \in [Server -> [Server -> Nat]] /\ log \in [Server -> Seq(Nat)]
      /\ starting \in [Server -> BOOLEAN] /\ term[i] \in Nat
  <2>1. nextIndex \in [Server -> [Server -> Nat \ {0}]]
    BY <1>0 DEF Types
  <2>2. \A x \in Server : nextIndex[x] \in [Server -> Nat]
    BY <2>1
  <2>3. nextIndex \in [Server -> [Server -> Nat]]
    BY <2>1, <2>2
  <2> QED BY <1>0, <2>3 DEF Types
<1>2. Len(log[i]) \in Nat /\ log[i] \in Seq(Nat)
  BY <1>1
<1>3. CASE InitLeader(i)
  <2>1. /\ starting' = [starting EXCEPT ![i] = FALSE]
        /\ nextIndex' = [nextIndex EXCEPT ![i] = [j \in Server |-> Len(log[i]) + 1]]
        /\ leads' = leads /\ log' = log /\ state' = state
    BY <1>3 DEF InitLeader, persistent
  <2>2. ASSUME NEW k \in Server, NEW j \in Server, Looping(k)'
        PROVE  nextIndex'[k][j] <= Len(log'[k]) + 1
    <3>1. CASE k = i
      BY <1>1, <1>2, <2>1, <3>1
    <3>2. CASE k # i
      <4>1. Leads(k)
        BY <2>1, <2>2 DEF Looping, Leads
      <4>2. starting'[k] = starting[k] /\ nextIndex'[k] = nextIndex[k]
        BY <1>1, <2>1, <3>2
      <4> QED BY <2>1, <2>2, <4>1, <4>2, NextKept
    <3> QED BY <3>1, <3>2
  <2> QED BY <2>2 DEF NextFits
<1>4. CASE Start(i)
  <2>1. /\ log' = [log EXCEPT ![i] = Append(@, term[i])] /\ state' = state
        /\ nextIndex' = [nextIndex EXCEPT ![i][i] = Len(log[i]) + 2]
        /\ leads' = leads /\ starting' = starting
    BY <1>4 DEF Start
  <2>2. Len(log'[i]) = Len(log[i]) + 1
    <3>1. log'[i] = Append(log[i], term[i])
      BY <1>1, <2>1
    <3> QED BY <1>1, <1>2, <3>1, AppendFacts
  <2>3. ASSUME NEW k \in Server, NEW j \in Server, Looping(k)'
        PROVE  nextIndex'[k][j] <= Len(log'[k]) + 1
    <3>1. CASE k = i /\ j = i
      <4>1. nextIndex'[i][i] = Len(log[i]) + 2
        <5>1. nextIndex'[i] = [nextIndex[i] EXCEPT ![i] = Len(log[i]) + 2]
          BY <1>1, <2>1
        <5> QED BY <1>1, <5>1
      <4> QED BY <1>2, <2>2, <3>1, <4>1
    <3>2. CASE k # i \/ j # i
      <4>1. Leads(k)
        BY <2>1, <2>3 DEF Looping, Leads
      <4>2. nextIndex'[k][j] = nextIndex[k][j]
        <5>1. nextIndex'[k] = IF k = i THEN [nextIndex[i] EXCEPT ![i] = Len(log[i]) + 2]
                                       ELSE nextIndex[k]
          BY <1>1, <2>1
        <5> QED BY <1>1, <3>2, <5>1
      <4> QED BY <2>1, <2>3, <4>1, <4>2, NextKept
    <3> QED BY <3>1, <3>2
  <2> QED BY <2>3 DEF NextFits
<1> QED BY <1>3, <1>4

\* A reply moves nextIndex to where the log goes at the most, or one past it.
LEMMA ReceiveNext ==
    ASSUME LogInv, LogInv', StepFits, AcksFit, NextFits,
           NEW m \in msgs, ReceiveAppend(m.dest, m)
    PROVE  NextFits'
<1>0. Types /\ m \in Replies
  BY DEF LogInv, ReceiveAppend, Replies
<1>1. /\ m.src \in Server /\ m.dest \in Server /\ m.term \in Nat /\ m.success \in BOOLEAN
      /\ m.length \in Nat
  BY <1>0, ReplyTypes
<1>h. HintFits(m)
  BY <1>0 DEF LogInv
<1>2. PICK i \in Server : i = m.dest
  BY <1>1
<1>3. /\ nextIndex \in [Server -> [Server -> Nat \ {0}]] /\ log[i] \in Seq(Nat)
      /\ term[i] \in Nat
  BY <1>0 DEF Types
<1>4. Len(log[i]) \in Nat
  BY <1>3
<1>5. AdoptTerm(i, m.term) /\ UNCHANGED <<starting, leads>>
  BY <1>2 DEF ReceiveAppend
<1>6. \A k \in Server : Leads(k)' => Leads(k)
  BY <1>0, <1>5, AdoptNoLeaders
<1>7. CASE m.term > term[i]
  <2>1. nextIndex' = nextIndex
    BY <1>2, <1>7 DEF ReceiveAppend
  <2> QED BY <1>5, <1>6, <2>1, QuietNext
<1>8. CASE ~(m.term > term[i])
  <2>1. log' = log
    BY <1>5, <1>8 DEF AdoptTerm, persistent
  <2>2. PICK n : /\ nextIndex' = [nextIndex EXCEPT ![i][m.src] = n]
                 /\ n = IF m.success THEN m.length ELSE Backtrack(i, m)
    BY <1>2, <1>8 DEF ReceiveAppend
  <2>3. ASSUME NEW k \in Server, NEW j \in Server, Looping(k)'
        PROVE  nextIndex'[k][j] <= Len(log'[k]) + 1
    <3>0. nextIndex'[k] = IF k = i THEN [nextIndex[i] EXCEPT ![m.src] = n] ELSE nextIndex[k]
      BY <1>3, <2>2
    <3>1. Leads(k)
      BY <1>6, <2>3 DEF Looping, Leads
    <3>2. CASE k # i \/ j # m.src
      <4>1. nextIndex'[k][j] = nextIndex[k][j]
        BY <1>3, <3>0, <3>2
      <4> QED BY <1>5, <2>3, <3>1, <4>1, NextKept
    <3>3. CASE k = i /\ j = m.src
      <4>1. nextIndex'[k][j] = n
        BY <1>3, <3>0, <3>3
      <4>2. CASE m.success
        <5>1. m.length - 1 = 0 \/ m.length - 1 \in Nat \ {0}
          BY <1>1, <1>h DEF HintFits
        <5>2. CASE m.length - 1 = 0
          BY <1>1, <1>4, <2>1, <2>2, <3>3, <4>1, <4>2, <5>2
        <5>3. CASE m.length - 1 \in Nat \ {0}
          <6>1. PICK x \in Nat \ {0} : x = m.length - 1
            BY <5>3
          <6>2. x < m.length
            BY <1>1, <6>1
          <6>3. Ack(i, m.src, x)
            BY <1>0, <1>2, <4>2, <6>2 DEF Ack
          <6>4. x <= Len(log[i])
            BY <1>1, <3>1, <3>3, <6>1, <6>3 DEF AcksFit
          <6> QED BY <1>1, <1>4, <2>1, <2>2, <3>3, <4>1, <4>2, <6>1, <6>4
        <5> QED BY <5>1, <5>2, <5>3
      <4>3. CASE ~m.success
        <5>1. nextIndex[i][m.src] <= Len(log[i]) + 1 /\ nextIndex[i][m.src] \in Nat \ {0}
          <6>1. Looping(i)
            BY <1>5, <2>3, <3>1, <3>3 DEF Looping, Leads
          <6> QED BY <1>1, <1>3, <6>1 DEF NextFits
        <5>2. n = Backtrack(i, m)
          BY <2>2, <4>3
        <5>3. \A x \in Int : Lesser(x, Len(log[i]) + 1) <= Len(log[i]) + 1
          BY <1>4 DEF Lesser
        <5>4. Greater(1, nextIndex[i][m.src] - 1) <= Len(log[i]) + 1
          BY <1>4, <5>1 DEF Greater
        <5>5. m.xlen \in Int /\ m.xindex \in Int
          BY <1>0, ReplyTypes
        <5>6. BinarySearch(log[i], m.xterm) \in Int
          <6>1. PICK S : S = {x \in 0..Len(log[i]) : Entry(log[i], x) <= m.xterm}
            OBVIOUS
          <6>2. IsFiniteSet(0..Len(log[i]))
            BY <1>4, FS_Interval
          <6>3. Cardinality(S) \in Nat
            BY <6>1, <6>2, FS_Subset, FS_CardinalityType
          <6>4. -1 \in Int
            OBVIOUS
          <6> QED BY <6>1, <6>3, <6>4 DEF BinarySearch
        <5>7. n <= Len(log[i]) + 1
          BY <5>2, <5>3, <5>4, <5>5, <5>6 DEF Backtrack
        <5> QED BY <2>1, <3>3, <4>1, <5>7
      <4> QED BY <1>1, <4>2, <4>3
    <3> QED BY <3>2, <3>3
  <2> QED BY <2>3 DEF NextFits
<1> QED BY <1>7, <1>8

LEMMA ElectionNext ==
    ASSUME LogInv, LogInv', StepFits, LeadershipFits', NextFits,
           NEW i \in Server, NEW Q \in SUBSET (Server \ {i}),
           Elected(i, Q) \/ Undecided(i, Q) \/ \E j \in Q : Deposed(i, Q, j)
    PROVE  NextFits'
<1>0. Types
  BY DEF LogInv
<1>1. CASE Elected(i, Q)
  <2>1. /\ starting' = [starting EXCEPT ![i] = TRUE] /\ leads' = [leads EXCEPT ![i] = @ + 1]
        /\ nextIndex' = nextIndex
        /\ \A k \in Server \ {i} : Leads(k)' => Leads(k)
    BY <1>1 DEF Elected, Round, Leads
  <2>2. starting \in [Server -> BOOLEAN] /\ leads \in [Server -> Nat]
    BY <1>0 DEF Types
  <2>3. ~Looping(i)'
    <3>1. starting'[i] = TRUE
      BY <2>1, <2>2
    <3>2. leads'[i] <= 1 /\ leads'[i] \in Nat
      BY <2>1, <2>2 DEF LeadershipFits
    <3>3. ~(leads'[i] > 1)
      BY <3>2
    <3> QED BY <3>1, <3>3 DEF Looping
  <2>4. ASSUME NEW k \in Server, NEW j \in Server, Looping(k)'
        PROVE  nextIndex'[k][j] <= Len(log'[k]) + 1
    <3>1. k # i
      BY <2>3, <2>4
    <3>2. Leads(k)
      BY <2>1, <2>4, <3>1 DEF Looping, Leads
    <3>3. starting'[k] = starting[k] /\ leads'[k] = leads[k]
      BY <2>1, <2>2, <3>1
    <3> QED BY <2>1, <2>4, <3>2, <3>3, NextKept
  <2> QED BY <2>4 DEF NextFits
<1>2. CASE Undecided(i, Q) \/ \E j \in Q : Deposed(i, Q, j)
  <2>1. /\ UNCHANGED <<nextIndex, starting, leads>>
        /\ \A k \in Server : Leads(k)' => Leads(k)
    BY <1>2 DEF Undecided, Deposed, Round, Leads
  <2> QED BY <2>1, QuietNext
<1> QED BY <1>1, <1>2

LEMMA RestartNext ==
    ASSUME LogInv, LogInv', StepFits, NextFits, NEW i \in Server, Restart(i)
    PROVE  NextFits'
<1>0. Types
  BY DEF LogInv
<1>1. /\ state' = [state EXCEPT ![i] = "Follower"]
      /\ starting' = [starting EXCEPT ![i] = FALSE]
      /\ nextIndex' = [nextIndex EXCEPT ![i] = NoIndex(1)]
      /\ leads' = [leads EXCEPT ![i] = 0]
  BY DEF Restart
<1>2. /\ ~Leads(i)'
      /\ \A k \in Server \ {i} : /\ Leads(k)' => Leads(k)
                                 /\ starting'[k] = starting[k] /\ leads'[k] = leads[k]
                                 /\ nextIndex'[k] = nextIndex[k]
  BY <1>0, <1>1 DEF Types, Leads
<1>3. ASSUME NEW k \in Server, NEW j \in Server, Looping(k)'
      PROVE  nextIndex'[k][j] <= Len(log'[k]) + 1
  <2>1. Leads(k)'
    BY <1>3 DEF Looping, Leads
  <2> QED BY <1>2, <1>3, <2>1, NextKept
<1> QED BY <1>3 DEF NextFits

LEMMA NextFitsStays ==
    ASSUME LogInv, LogInv', StepFits, LeadershipFits', AcksFit, NextFits, [Next]_vars
    PROVE  NextFits'
<1>0. Types
  BY DEF LogInv
<1>1. ASSUME NEW m \in msgs, Lose(m) \/ RefuseAppend(m.dest, m)
      PROVE  NextFits'
  <2>1. UNCHANGED <<nextIndex, starting, leads, state>>
    BY <1>1 DEF Lose, RefuseAppend, leader
  <2>2. \A k \in Server : Leads(k)' => Leads(k)
    BY <2>1 DEF Leads
  <2> QED BY <2>1, <2>2, QuietNext
<1>2. ASSUME NEW m \in msgs, MismatchAppend(m.dest, m) \/ AcceptAppend(m.dest, m)
      PROVE  NextFits'
  <2>1. UNCHANGED <<nextIndex, starting, leads>>
    BY <1>2 DEF MismatchAppend, AcceptAppend, leader
  <2>2. m \in Requests /\ m.dest \in Server
    BY <1>0, <1>2, RequestTypes DEF MismatchAppend, AcceptAppend, Requests
  <2>3. CASE MismatchAppend(m.dest, m)
    <3>1. \A k \in Server : Leads(k)' => Leads(k)
      BY <1>0, <2>2, <2>3, AdoptNoLeaders DEF MismatchAppend
    <3> QED BY <2>1, <3>1, QuietNext
  <2>4. CASE AcceptAppend(m.dest, m)
    <3>1. Follows
      BY <2>4, AcceptFits
    <3> QED BY <2>1, <3>1, QuietNext DEF Follows, LeadersKept
  <2> QED BY <1>2, <2>3, <2>4
<1>3. ASSUME NEW i \in Server, NEW j \in Server,
             SendAppend(i, j) \/ Apply(i) \/ \E N \in 1..Len(log[i]) : Commit(i, N)
      PROVE  NextFits'
  <2>1. UNCHANGED <<nextIndex, starting, leads, state>>
    BY <1>3 DEF SendAppend, Apply, Commit, leader
  <2>2. \A k \in Server : Leads(k)' => Leads(k)
    BY <2>1 DEF Leads
  <2> QED BY <2>1, <2>2, QuietNext
<1>4. CASE UNCHANGED vars
  <2>1. UNCHANGED <<nextIndex, starting, leads, state>>
    BY <1>4 DEF vars, leader
  <2>2. \A k \in Server : Leads(k)' => Leads(k)
    BY <2>1 DEF Leads
  <2> QED BY <2>1, <2>2, QuietNext
<1>5. CASE Next
  <2>1. CASE \E m \in msgs : \/ ReceiveAppend(m.dest, m) \/ Lose(m)
                             \/ RefuseAppend(m.dest, m) \/ MismatchAppend(m.dest, m)
                             \/ AcceptAppend(m.dest, m)
    BY <1>1, <1>2, <2>1, ReceiveNext
  <2>2. ASSUME NEW i \in Server,
               \/ InitLeader(i) \/ Start(i) \/ Apply(i) \/ Restart(i)
               \/ \E j \in Server : SendAppend(i, j)
               \/ \E N \in 1..Len(log[i]) : Commit(i, N)
        PROVE  NextFits'
    BY <1>3, <2>2, StartNext, RestartNext
  <2>3. ASSUME NEW i \in Server, NEW Q \in SUBSET (Server \ {i}),
               Elected(i, Q) \/ Undecided(i, Q) \/ \E j \in Q : Deposed(i, Q, j)
        PROVE  NextFits'
    BY <2>3, ElectionNext
  <2> QED BY <1>5, <2>1, <2>2, <2>3 DEF Next
<1> QED BY <1>4, <1>5

-----------------------------------------------------------------------------
(* The invariant of commitment, and what follows from it. *)

\* In every reachable state the acknowledgements a leader has are true, and what is committed
\* is in the log of every later leader.
THEOREM SafeInvariant == LeadsOnce /\ Spec => []SafeInv
<1>1. Init => SafeInv
  <2> SUFFICES ASSUME Init
               PROVE  SafeInv
    OBVIOUS
  <2>1. /\ Requests = {} /\ Replies = {} /\ applied = {}
        /\ \A i \in Server : /\ ~Leads(i) /\ commitIndex[i] = 0 /\ leads[i] = 0
                             /\ \A j \in Server : matchIndex[i][j] = 0
    BY DEF Init, Requests, Replies, Leads, NoIndex
  <2>2. LogInv
    BY LogInit
  <2>3. LeadershipFits
    BY <2>1 DEF LeadershipFits
  <2>4. AcksFit /\ FateFits
    BY <2>1 DEF AcksFit, FateFits
  <2>5. CommitFits
    BY <2>1 DEF CommitFits, Committed
  <2>6. NextFits
    BY <2>1 DEF NextFits, Looping, Leads
  <2> QED BY <2>2, <2>3, <2>4, <2>5, <2>6 DEF SafeInv
<1>2. LeadsOnce /\ SafeInv /\ [Next]_vars => SafeInv' /\ LeadsOnce'
  <2> SUFFICES ASSUME LeadsOnce, SafeInv, [Next]_vars
               PROVE  SafeInv'
    BY DEF LeadsOnce
  <2>1. LogInv /\ LeadershipFits /\ AcksFit /\ FateFits /\ CommitFits /\ NextFits
    BY DEF SafeInv
  <2>2. StepFits
    BY <2>1, KindsOfSteps
  <2>3. LogInv'
    BY <2>1, LogInvStays
  <2>4. AckStep /\ LeadershipFits'
    BY <2>1, LeadershipStays
  <2>5. AcksFit'
    BY <2>1, <2>2, <2>3, <2>4, AcksFitStays
  <2>6. FateFits'
    BY <2>1, <2>2, <2>3, <2>4, FateFitsStays
  <2>7. CommitFits'
    BY <2>1, <2>2, <2>3, CommitsAreKnown, CommitFitsStays
  <2>8. NextFits'
    BY <2>1, <2>2, <2>3, <2>4, NextFitsStays
  <2> QED BY <2>3, <2>4, <2>5, <2>6, <2>7, <2>8 DEF SafeInv
<1> QED BY <1>1, <1>2, PTL DEF Spec

\* No two applied entries of one index differ: both are of committed prefixes.
THEOREM AppliedAgree == LeadsOnce /\ Spec => []StateMachineSafety
<1>1. SafeInv => StateMachineSafety
  <2> SUFFICES ASSUME SafeInv, NEW a \in applied, NEW b \in applied, a[1] = b[1]
               PROVE  a = b
    BY DEF StateMachineSafety
  <2>1. LogInv /\ CommitFits
    BY DEF SafeInv
  <2>2. a \in Nat \X Nat /\ b \in Nat \X Nat
    BY <2>1 DEF CommitFits
  <2>3. PICK p \in Prefixes : Chosen(p) /\ a[1] \in 1..Len(p) /\ a[2] = p[a[1]]
    BY <2>1 DEF CommitFits
  <2>4. PICK q \in Prefixes : Chosen(q) /\ b[1] \in 1..Len(q) /\ b[2] = q[b[1]]
    BY <2>1 DEF CommitFits
  <2>5. a[1] \in Nat
    BY <2>2
  <2>6. a[2] = b[2]
    BY <2>1, <2>3, <2>4, <2>5, ChosenAgree
  <2> QED BY <2>2, <2>6
<1> QED BY <1>1, SafeInvariant, PTL

\* A peer in the leader's term holds every entry that matchIndex claims.
THEOREM MatchesAreTrue == LeadsOnce /\ Spec => []MatchIndexTrue
<1>1. SafeInv => MatchIndexTrue
  <2> SUFFICES ASSUME SafeInv, NEW i \in Server, NEW j \in Server, Leads(i),
                      term[j] = term[i], NEW k, k = Lesser(matchIndex[i][j], Len(log[i]))
               PROVE  k <= Len(log[j]) /\ SubSeq(log[j], 1, k) = SubSeq(log[i], 1, k)
    BY DEF MatchIndexTrue, Leads
  <2>1. LogInv /\ AcksFit /\ Types
    BY DEF SafeInv, LogInv
  <2>2. log[i] \in Seq(Nat) /\ log[j] \in Seq(Nat) /\ matchIndex[i][j] \in Nat
    BY <2>1 DEF Types, Indices
  <2>3. Len(log[i]) \in Nat /\ Len(log[j]) \in Nat /\ k \in Nat
    BY <2>2 DEF Lesser
  <2>4. Same(log[j], log[i], k)
    <3>1. CASE k = 0
      BY <2>3, <3>1 DEF Same
    <3>2. CASE k # 0
      <4>1. k \in Nat \ {0} /\ k <= matchIndex[i][j]
        BY <2>2, <2>3, <3>2 DEF Lesser
      <4> QED BY <2>1, <4>1 DEF AcksFit, Ack
    <3> QED BY <3>1, <3>2
  <2>5. k <= Len(log[j]) /\ k <= Len(log[i])
    BY <2>4 DEF Same
  <2>6. PICK p, q : p = Upto(log[j], k) /\ q = Upto(log[i], k)
    OBVIOUS
  <2>7. /\ p \in Seq(Nat) /\ Len(p) = k /\ \A x \in 1..k : p[x] = log[j][x]
        /\ q \in Seq(Nat) /\ Len(q) = k /\ \A x \in 1..k : q[x] = log[i][x]
    <3>1. p \in Seq(Nat) /\ Len(p) = k /\ \A x \in 1..k : p[x] = log[j][x]
      BY <2>2, <2>3, <2>5, <2>6, UptoFacts
    <3>2. q \in Seq(Nat) /\ Len(q) = k /\ \A x \in 1..k : q[x] = log[i][x]
      BY <2>2, <2>3, <2>5, <2>6, UptoFacts
    <3> QED BY <3>1, <3>2
  <2>8. p = q
    BY <2>4, <2>7, SeqEqual DEF Same
  <2> QED BY <2>5, <2>6, <2>8 DEF Upto
<1> QED BY <1>1, SafeInvariant, PTL

\* The variables are well-typed, and a leader's next call starts within its log.
THEOREM NextStaysInLog == LeadsOnce /\ Spec => []NextIndexInLog
<1>1. SafeInv => NextIndexInLog
  <2> SUFFICES ASSUME SafeInv
               PROVE  NextIndexInLog
    OBVIOUS
  <2>1. Types /\ Durable /\ NextFits /\ applied \subseteq Nat \X Nat
    BY DEF SafeInv, LogInv, CommitFits
  <2>2. saved \in [Server -> [term : Nat, votedFor : Server \cup {NoOne}, log : Seq(Nat)]]
    BY <2>1 DEF Types, Durable
  <2>3. nextIndex \in Indices
    <3>1. nextIndex \in [Server -> [Server -> Nat \ {0}]]
      BY <2>1 DEF Types
    <3>2. \A i \in Server : nextIndex[i] \in [Server -> Nat]
      BY <3>1
    <3> QED BY <3>1, <3>2 DEF Indices
  <2>4. TypeOK
    BY <2>1, <2>2, <2>3 DEF Types, TypeOK
  <2>5. ASSUME NEW i \in Server, NEW j \in Server, Looping(i)
        PROVE  nextIndex[i][j] \in 1..Len(log[i]) + 1
    <3>1. nextIndex[i][j] \in Nat \ {0} /\ log[i] \in Seq(Nat)
      BY <2>1 DEF Types
    <3>2. Len(log[i]) \in Nat
      BY <3>1
    <3>3. nextIndex[i][j] <= Len(log[i]) + 1
      BY <2>1, <2>5 DEF NextFits
    <3> QED BY <3>1, <3>2, <3>3
  <2> QED BY <2>4, <2>5 DEF NextIndexInLog
<1> QED BY <1>1, SafeInvariant, PTL

\* What a server knows to be committed is never truncated.
THEOREM CommittedEntriesStay == LeadsOnce /\ Spec => CommittedStay
<1>1. SafeInv /\ [Next]_vars =>
        [\A i \in Server : \A k \in 1..commitIndex[i] :
            k <= Len(log'[i]) /\ log'[i][k] = log[i][k]]_vars
  <2> SUFFICES ASSUME SafeInv, [Next]_vars, NEW i \in Server, NEW k \in 1..commitIndex[i]
               PROVE  k <= Len(log'[i]) /\ log'[i][k] = log[i][k]
    OBVIOUS
  <2>1. LogInv /\ CommitFits /\ Types
    BY DEF SafeInv, LogInv
  <2>2. StepFits
    BY <2>1, KindsOfSteps
  <2>3. PICK c \in Nat : c = commitIndex[i]
    BY <2>1 DEF Types
  <2>4. Same(log'[i], log[i], c)
    BY <2>1, <2>2, <2>3, CommittedStays DEF CommitFits
  <2>5. log'[i] \in Seq(Nat)
    BY <2>2 DEF StepFits, Types
  <2>6. Len(log'[i]) \in Nat /\ k \in 1..c /\ k <= c
    BY <2>3, <2>5
  <2> QED BY <2>3, <2>4, <2>6 DEF Same
<1> QED BY <1>1, SafeInvariant, PTL DEF Spec, CommittedStay

\* Between two restarts a commit index never goes back.
THEOREM CommitsNeverGoBack == LeadsOnce /\ Spec => CommitNeverBack
<1>1. SafeInv /\ [Next]_vars =>
        [\A i \in Server : boot'[i] = boot[i] => commitIndex'[i] >= commitIndex[i]]_vars
  <2> SUFFICES ASSUME SafeInv, [Next]_vars, NEW i \in Server, boot'[i] = boot[i]
               PROVE  commitIndex'[i] >= commitIndex[i]
    OBVIOUS
  <2>1. LogInv /\ FateFits /\ CommitFits /\ Types
    BY DEF SafeInv, LogInv
  <2>2. commitIndex[i] \in Nat
    BY <2>1 DEF Types
  <2>3. \/ commitIndex'[i] = commitIndex[i]
        \/ \E n \in Nat : commitIndex'[i] = n /\ n > commitIndex[i]
    BY <2>1, CommitsAreKnown DEF CommitStep, Commits
  <2> QED BY <2>2, <2>3
<1> QED BY <1>1, SafeInvariant, PTL DEF Spec, CommitNeverBack

=============================================================================
