-------------------------- MODULE RaftLab3BProofs ---------------------------
(***************************************************************************)
(* Proofs about RaftLab3B, for any number of servers.  Its entries bring   *)
(* no term, so that the logs may be what no leader wrote; the votes are as *)
(* good as in the later servers, and so are the logs until a second        *)
(* election is won.                                                        *)
(***************************************************************************)
EXTENDS RaftLab3B, FiniteSetTheorems, SequenceTheorems, TLAPS

Quorums == {Q \in SUBSET Server : Cardinality(Q) >= Majority}

Leads(i) == state[i] = "Leader"

\* Server i has won term t, or at least nobody else can.
Won(i, t) ==
    /\ t <= term[i]
    /\ \E Q \in Quorums : \A j \in Q : t < term[j] \/ (t = term[j] /\ votedFor[j] = i)

ElectTypes ==
    /\ term \in [Server -> Nat]
    /\ votedFor \in [Server -> Server \cup {NoOne}]
    /\ state \in [Server -> {"Follower", "Candidate", "Leader"}]

\* Calls and replies carry a term, and say who sent them and to whom.
Termed(S) ==
    \A m \in S : /\ {"src", "dest", "term"} \subseteq DOMAIN m
                 /\ m.src \in Server /\ m.dest \in Server /\ m.term \in Nat

\* A leader has won its term, alone.
LeadersAlone ==
    /\ \A i \in Server : Leads(i) => Won(i, term[i])
    /\ \A i, j \in Server : Leads(i) /\ Leads(j) /\ term[i] = term[j] => i = j

ElectionFits == ElectTypes /\ Termed(msgs) /\ Termed(unsent) /\ LeadersAlone

\* Terms go up, and within a term a vote is final.
TermsGrow ==
    \A j \in Server : /\ term[j] <= term'[j]
                      /\ term[j] = term'[j] => votedFor[j] = NoOne \/ votedFor'[j] = votedFor[j]

\* The servers of S that lead have led before, in the same term.
LeadOn(S) == \A i \in S : Leads(i)' => Leads(i) /\ term'[i] = term[i]

\* A majority votes for i, in the term after its own.
VotedIn(i) ==
    /\ term'[i] = term[i] + 1 /\ ~Leads(i) /\ LeadOn(Server \ {i})
    /\ \E V \in Quorums : \A j \in V :
          /\ \/ term[j] < term[i] + 1
             \/ term[j] = term[i] + 1 /\ votedFor[j] \in {NoOne, i}
          /\ term'[j] = term[i] + 1 /\ votedFor'[j] = i

\* What a step does to terms and votes.
TermStep == ElectTypes' /\ Termed(msgs)' /\ Termed(unsent)' /\ TermsGrow
QuietStep == TermStep /\ LeadOn(Server)
WonStep(i) == TermStep /\ VotedIn(i)

\* Two majorities share a server.
LEMMA QuorumsMeet ==
    ASSUME NEW P \in Quorums, NEW Q \in Quorums
    PROVE  \E j \in Server : j \in P /\ j \in Q
<1>1. /\ P \in SUBSET Server /\ Q \in SUBSET Server
      /\ Cardinality(P) >= Majority /\ Cardinality(Q) >= Majority
  BY DEF Quorums
<1>2. /\ Cardinality(Server) \in Nat
      /\ Cardinality(P) \in Nat /\ Cardinality(Q) \in Nat
  BY <1>1, ServerAssumption, FS_Subset, FS_CardinalityType
<1>3. Cardinality(P) + Cardinality(Q) > Cardinality(Server)
  BY <1>1, <1>2 DEF Majority
<1>4. P \cap Q # {}
  BY <1>1, <1>3, ServerAssumption, FS_MajoritiesIntersect
<1> QED BY <1>1, <1>4

LEMMA WonForGood ==
    ASSUME ElectTypes, ElectTypes', TermsGrow, NEW i \in Server, NEW t \in Nat, Won(i, t)
    PROVE  Won(i, t)'
<1>1. PICK Q \in Quorums : \A j \in Q : t < term[j] \/ (t = term[j] /\ votedFor[j] = i)
  BY DEF Won
<1>2. Q \in SUBSET Server /\ i # NoOne
  BY ServerAssumption DEF Quorums
<1>3. ASSUME NEW j \in Q
      PROVE  t < term'[j] \/ (t = term'[j] /\ votedFor'[j] = i)
  <2>1. /\ term[j] \in Nat /\ term'[j] \in Nat /\ term[j] <= term'[j]
        /\ term[j] = term'[j] => votedFor[j] = NoOne \/ votedFor'[j] = votedFor[j]
    BY <1>2 DEF ElectTypes, TermsGrow
  <2> QED BY <1>1, <1>2, <2>1
<1>4. t <= term'[i]
  <2>1. t <= term[i] /\ term[i] <= term'[i] /\ term[i] \in Nat /\ term'[i] \in Nat
    BY DEF Won, ElectTypes, TermsGrow
  <2> QED BY <2>1
<1> QED BY <1>3, <1>4 DEF Won, Quorums

\* Nobody has won the term that a server is elected in, and that server has afterwards.
LEMMA VotedInFacts ==
    ASSUME ElectTypes, ElectTypes', NEW i \in Server, VotedIn(i), NEW t \in Nat, t = term[i] + 1
    PROVE  /\ \A k \in Server : ~Won(k, t)
           /\ Won(i, t)'
<1>1. PICK V \in Quorums : \A j \in V :
          /\ \/ term[j] < term[i] + 1
             \/ term[j] = term[i] + 1 /\ votedFor[j] \in {NoOne, i}
          /\ term'[j] = term[i] + 1 /\ votedFor'[j] = i
  BY DEF VotedIn
<1>2. ASSUME NEW k \in Server, Won(k, t)
      PROVE  FALSE
  <2>1. PICK Q \in Quorums : \A j \in Q : \/ term[i] + 1 < term[j]
                                          \/ term[i] + 1 = term[j] /\ votedFor[j] = k
    BY <1>2 DEF Won
  <2>2. PICK j \in Server : j \in V /\ j \in Q
    BY QuorumsMeet
  <2>3. term[i] \in Nat /\ term[j] \in Nat /\ k # NoOne
    BY ServerAssumption DEF ElectTypes
  <2>4. term[j] = term[i] + 1 /\ votedFor[j] = k /\ votedFor[j] \in {NoOne, i}
    BY <1>1, <2>1, <2>2, <2>3
  <2>5. k = i /\ term[i] + 1 <= term[k]
    BY <1>2, <2>3, <2>4 DEF Won
  <2> QED BY <2>3, <2>5
<1>3. Won(i, t)'
  <2>1. t <= term'[i]
    BY DEF VotedIn
  <2>2. \A j \in V : t = term'[j] /\ votedFor'[j] = i
    BY <1>1
  <2> QED BY <2>1, <2>2 DEF Won, Quorums
<1> QED BY <1>2, <1>3

LEMMA LeadersStayAlone ==
    ASSUME ElectionFits, QuietStep \/ \E i \in Server : WonStep(i)
    PROVE  ElectionFits'
<1>0. ElectTypes /\ ElectTypes' /\ TermsGrow /\ LeadersAlone
  BY DEF ElectionFits, TermStep, QuietStep, WonStep
<1>t. Termed(msgs)' /\ Termed(unsent)'
  BY DEF TermStep, QuietStep, WonStep
<1>1. ASSUME NEW i \in Server, Leads(i), term'[i] = term[i]
      PROVE  \E t \in Nat : t = term[i] /\ Won(i, t) /\ Won(i, t)'
  <2>1. Won(i, term[i]) /\ term[i] \in Nat
    BY <1>0, <1>1 DEF LeadersAlone, ElectTypes
  <2>2. PICK t \in Nat : t = term[i]
    BY <2>1
  <2>3. Won(i, t)
    BY <2>1, <2>2
  <2>4. Won(i, t)'
    BY <1>0, <2>3, WonForGood
  <2> QED BY <2>2, <2>3, <2>4
<1>2. ASSUME NEW i \in Server, NEW t \in Nat, t = term'[i], Won(i, t)'
      PROVE  Won(i, term[i])'
  BY <1>2 DEF Won, Quorums
<1>3. CASE LeadOn(Server)
  <2>1. \A i \in Server : Leads(i)' => Leads(i) /\ term'[i] = term[i]
    BY <1>3 DEF LeadOn
  <2>2. \A i \in Server : Leads(i)' => Won(i, term[i])'
    BY <1>1, <1>2, <2>1
  <2>3. LeadersAlone'
    BY <1>0, <2>1, <2>2 DEF LeadersAlone
  <2> QED BY <1>0, <2>3, <1>t DEF ElectionFits
<1>4. ASSUME NEW i \in Server, VotedIn(i)
      PROVE  ElectionFits'
  <2>0. term[i] \in Nat
    BY <1>0 DEF ElectTypes
  <2>1. PICK t \in Nat : t = term[i] + 1
    BY <2>0
  <2>2. /\ term'[i] = t
        /\ \A k \in Server : ~Won(k, t)
        /\ Won(i, t)'
    BY <1>0, <1>4, <2>1, VotedInFacts DEF VotedIn
  <2>3. \A k \in Server \ {i} : Leads(k)' => Leads(k) /\ term'[k] = term[k]
    BY <1>4 DEF VotedIn, LeadOn
  <2>4. \A k \in Server : Leads(k)' => Won(k, term[k])'
    BY <1>1, <1>2, <2>2, <2>3
  <2>5. \A k \in Server \ {i} : Leads(k)' => term'[k] # term'[i]
    BY <1>1, <2>2, <2>3
  <2>6. \A k, j \in Server \ {i} : Leads(k)' /\ Leads(j)' /\ term'[k] = term'[j] => k = j
    BY <1>0, <2>3 DEF LeadersAlone
  <2>7. \A k, j \in Server : Leads(k)' /\ Leads(j)' /\ term'[k] = term'[j] => k = j
    BY <2>5, <2>6
  <2>8. LeadersAlone'
    BY <2>4, <2>7 DEF LeadersAlone
  <2> QED BY <1>0, <2>8, <1>t DEF ElectionFits
<1> QED BY <1>3, <1>4 DEF QuietStep, WonStep

\* Steps that leave terms, votes and leaders alone.
LEMMA QuietElections ==
    ASSUME ElectionFits, UNCHANGED <<term, votedFor, state>>, Termed(msgs)', Termed(unsent)'
    PROVE  QuietStep
<1>1. ElectTypes
  BY DEF ElectionFits
<1>2. ElectTypes' /\ TermsGrow /\ LeadOn(Server)
  BY <1>1 DEF ElectTypes, TermsGrow, LeadOn, Leads
<1> QED BY <1>2 DEF TermStep, QuietStep

\* Server j follows, in its term or a later one.
LEMMA OneFollows ==
    ASSUME ElectionFits, NEW j \in Server, NEW t \in Nat, NEW v \in Server \cup {NoOne},
           term[j] < t \/ (term[j] = t /\ v = votedFor[j]),
           term' = [term EXCEPT ![j] = t], votedFor' = [votedFor EXCEPT ![j] = v],
           state' = [state EXCEPT ![j] = "Follower"],
           Termed(msgs)', Termed(unsent)'
    PROVE  QuietStep
<1>1. ElectTypes
  BY DEF ElectionFits
<1>2. ElectTypes'
  BY <1>1 DEF ElectTypes
<1>3. /\ term'[j] = t /\ votedFor'[j] = v /\ state'[j] = "Follower"
      /\ \A k \in Server \ {j} : /\ term'[k] = term[k] /\ votedFor'[k] = votedFor[k]
                                 /\ state'[k] = state[k]
  BY <1>1 DEF ElectTypes
<1>4. TermsGrow
  <2>1. \A k \in Server : term[k] \in Nat
    BY <1>1 DEF ElectTypes
  <2>2. term[j] <= term'[j] /\ (term[j] = term'[j] => votedFor'[j] = votedFor[j])
    BY <1>3, <2>1
  <2> QED BY <1>3, <2>1, <2>2 DEF TermsGrow
<1>5. LeadOn(Server)
  BY <1>3 DEF LeadOn, Leads
<1> QED BY <1>2, <1>4, <1>5 DEF TermStep, QuietStep

\* A round of an election leaves candidate i with term t, vote v and state s.
RoundFits(i, Q, t, v, s, new) ==
    /\ ElectTypes' /\ Termed(msgs)' /\ Termed(unsent)' /\ TermsGrow
    /\ LeadOn(Server \ {i})
    /\ term'[i] = t /\ votedFor'[i] = v /\ state'[i] = s
    /\ \A j \in Q : Granted(j, i, new) => term'[j] = new /\ votedFor'[j] = i

LEMMA RoundKeeps ==
    ASSUME ElectionFits, NEW i \in Server, NEW Q \in SUBSET (Server \ {i}), NEW t \in Nat,
           NEW v \in Server \cup {NoOne}, NEW s \in {"Follower", "Candidate", "Leader"},
           NEW new \in Nat, new = term[i] + 1, term[i] < t, Round(i, Q, t, v, s)
    PROVE  RoundFits(i, Q, t, v, s, new)
<1>0. ElectTypes /\ Termed(msgs) /\ Termed(unsent)
  BY DEF ElectionFits
<1>i. term \in [Server -> Nat] /\ votedFor \in [Server -> Server \cup {NoOne}]
  BY <1>0 DEF ElectTypes
<1>1. PICK raised, grants :
        /\ raised = {j \in Q : new > term[j]}
        /\ grants = {j \in Q : Granted(j, i, new)}
        /\ term' = [j \in Server |-> IF j = i THEN t ELSE IF j \in raised THEN new ELSE term[j]]
        /\ votedFor' = [j \in Server |-> IF j = i THEN v ELSE IF j \in grants THEN i
                                          ELSE IF j \in raised THEN NoOne ELSE votedFor[j]]
        /\ state' = [j \in Server |-> IF j = i THEN s ELSE IF j \in raised THEN "Follower"
                                       ELSE state[j]]
  BY ZenonT(60) DEF Round
<1>2. msgs' = msgs /\ unsent' = unsent
  BY DEF Round, net
<1>3. ElectTypes'
  <2>1. term' \in [Server -> Nat]
    BY <1>1, <1>i
  <2>2. votedFor' \in [Server -> Server \cup {NoOne}]
    BY <1>1, <1>i
  <2>3. state' \in [Server -> {"Follower", "Candidate", "Leader"}]
    BY <1>0, <1>1 DEF ElectTypes
  <2> QED BY <2>1, <2>2, <2>3 DEF ElectTypes
<1>4. Termed(msgs)' /\ Termed(unsent)'
  BY <1>0, <1>2 DEF Termed
<1>5. TermsGrow
  <2> SUFFICES ASSUME NEW j \in Server
               PROVE  /\ term[j] <= term'[j]
                      /\ term[j] = term'[j] => \/ votedFor[j] = NoOne
                                               \/ votedFor'[j] = votedFor[j]
    BY DEF TermsGrow
  <2>1. term[j] \in Nat
    BY <1>i
  <2>2. CASE j = i
    BY <1>1, <2>1, <2>2
  <2>3. CASE j # i /\ j \in raised
    BY <1>1, <2>1, <2>3
  <2>4. CASE j # i /\ j \notin raised /\ j \in grants
    <3>1. term'[j] = term[j] /\ votedFor'[j] = i
      BY <1>1, <2>4
    <3>2. j \in Q /\ Granted(j, i, new) /\ ~(new > term[j])
      BY <1>1, <2>4
    <3>3. votedFor[j] \in {NoOne, i}
      BY <3>2 DEF Granted
    <3> QED BY <2>1, <3>1, <3>3
  <2>5. CASE j # i /\ j \notin raised /\ j \notin grants
    BY <1>1, <2>1, <2>5
  <2> QED BY <2>2, <2>3, <2>4, <2>5
<1>6. LeadOn(Server \ {i})
  <2> SUFFICES ASSUME NEW j \in Server \ {i}, state'[j] = "Leader"
               PROVE  state[j] = "Leader" /\ term'[j] = term[j]
    BY DEF LeadOn, Leads
  <2>1. j \notin raised
    BY <1>1
  <2> QED BY <1>1, <2>1
<1>7. ASSUME NEW j \in Q, Granted(j, i, new)
      PROVE  term'[j] = new /\ votedFor'[j] = i
  <2>1. j \in Server /\ j # i /\ j \in grants /\ term[j] \in Nat
    BY <1>1, <1>i, <1>7
  <2>2. votedFor'[j] = i
    BY <1>1, <2>1
  <2>3. CASE j \in raised
    BY <1>1, <2>1, <2>2, <2>3
  <2>4. CASE j \notin raised
    <3>1. term'[j] = term[j] /\ ~(new > term[j])
      BY <1>1, <2>1, <2>4
    <3>2. term[j] = new
      BY <1>7, <2>1, <3>1 DEF Granted
    <3> QED BY <2>2, <3>1, <3>2
  <2> QED BY <2>3, <2>4
<1>8. term'[i] = t /\ votedFor'[i] = v /\ state'[i] = s
  BY <1>1
<1> QED BY <1>3, <1>4, <1>5, <1>6, <1>7, <1>8 DEF RoundFits

\* A candidate that has enough grants is voted in.
LEMMA ElectedStep ==
    ASSUME ElectionFits, NEW i \in Server, NEW Q \in SUBSET (Server \ {i}), Elected(i, Q)
    PROVE  WonStep(i)
<1>0. ElectTypes
  BY DEF ElectionFits
<1>1. PICK new \in Nat : new = term[i] + 1
  BY <1>0 DEF ElectTypes
<1>2. /\ Round(i, Q, new, i, "Leader") /\ state[i] # "Leader"
      /\ Cardinality({j \in Q : Granted(j, i, new)}) + 1 >= Majority
  <2>1. /\ Round(i, Q, term[i] + 1, i, "Leader") /\ state[i] # "Leader"
        /\ Cardinality({j \in Q : Granted(j, i, term[i] + 1)}) + 1 >= Majority
    <3>1. /\ Round(i, Q, term[i] + 1, i, "Leader") /\ MayCampaign(i)
          /\ Cardinality({j \in Q : Granted(j, i, term[i] + 1)}) + 1 >= Majority
      BY Zenon DEF Elected
    <3>2. state[i] # "Leader"
      BY <3>1, Zenon DEF MayCampaign
    <3> QED BY <3>1, <3>2, Zenon
  <2> QED BY <1>1, <2>1, Zenon
<1>3. term[i] \in Nat /\ term[i] < new
  BY <1>0, <1>1 DEF ElectTypes
<1>4. /\ ElectTypes' /\ Termed(msgs)' /\ Termed(unsent)' /\ TermsGrow
      /\ LeadOn(Server \ {i}) /\ term'[i] = new /\ votedFor'[i] = i
      /\ \A j \in Q : Granted(j, i, new) => term'[j] = new /\ votedFor'[j] = i
  <2>1. "Leader" \in {"Follower", "Candidate", "Leader"} /\ i \in Server \cup {NoOne}
    OBVIOUS
  <2>2. RoundFits(i, Q, new, i, "Leader", new)
    BY <1>1, <1>2, <1>3, <2>1, RoundKeeps
  <2> QED BY <2>2, Zenon DEF RoundFits
<1>5. PICK grants : grants = {j \in Q : Granted(j, i, new)}
  OBVIOUS
<1>6. PICK V : V = grants \cup {i}
  OBVIOUS
<1>7. V \in Quorums
  <2>1. grants \in SUBSET Server /\ i \notin grants /\ V \in SUBSET Server
    BY <1>5, <1>6
  <2>2. IsFiniteSet(grants)
    BY <2>1, ServerAssumption, FS_Subset
  <2>3. Cardinality(V) = Cardinality(grants) + 1
    BY <1>6, <2>1, <2>2, FS_AddElement
  <2> QED BY <1>2, <1>5, <2>1, <2>3 DEF Quorums
<1>8. ASSUME NEW j \in V
      PROVE  /\ \/ term[j] < term[i] + 1
                \/ term[j] = term[i] + 1 /\ votedFor[j] \in {NoOne, i}
             /\ term'[j] = term[i] + 1 /\ votedFor'[j] = i
  <2>1. CASE j = i
    BY <1>1, <1>3, <1>4, <2>1
  <2>2. CASE j # i
    <3>1. j \in Q /\ Granted(j, i, new)
      BY <1>5, <1>6, <2>2
    <3>2. /\ \/ new > term[j]
             \/ new = term[j] /\ votedFor[j] \in {NoOne, i}
          /\ term[j] \in Nat
      BY <1>0, <3>1 DEF Granted, ElectTypes
    <3>3. term'[j] = new /\ votedFor'[j] = i
      BY <1>4, <3>1
    <3> QED BY <1>1, <3>2, <3>3
  <2> QED BY <2>1, <2>2
<1>9. VotedIn(i)
  BY <1>1, <1>2, <1>4, <1>7, <1>8 DEF VotedIn, Leads
<1> QED BY <1>4, <1>9 DEF TermStep, WonStep

\* A round that fails leaves the candidate no leader.
LEMMA FailedStep ==
    ASSUME ElectionFits, NEW i \in Server, NEW Q \in SUBSET (Server \ {i}),
           Undecided(i, Q) \/ \E j \in Q : Deposed(i, Q, j)
    PROVE  QuietStep
<1>0. ElectTypes
  BY DEF ElectionFits
<1>1. PICK new \in Nat : new = term[i] + 1
  BY <1>0 DEF ElectTypes
<1>2. term[i] \in Nat /\ term[i] < new /\ i \in Server \cup {NoOne}
  BY <1>0, <1>1 DEF ElectTypes
<1>3. /\ ElectTypes' /\ Termed(msgs)' /\ Termed(unsent)' /\ TermsGrow
      /\ LeadOn(Server \ {i}) /\ state'[i] # "Leader"
  <2>1. CASE Undecided(i, Q)
    <3>1. Round(i, Q, new, i, "Candidate")
      BY <1>1, <2>1 DEF Undecided
    <3>2. "Candidate" \in {"Follower", "Candidate", "Leader"} /\ "Candidate" # "Leader"
      OBVIOUS
    <3>3. RoundFits(i, Q, new, i, "Candidate", new)
      BY <1>1, <1>2, <3>1, <3>2, RoundKeeps
    <3> QED BY <3>2, <3>3, Zenon DEF RoundFits
  <2>2. CASE \E j \in Q : Deposed(i, Q, j)
    <3>1. PICK j \in Q : Deposed(i, Q, j)
      BY <2>2
    <3>2. Round(i, Q, term[j], NoOne, "Follower") /\ term[j] > new
      BY <1>1, <3>1 DEF Deposed
    <3>3. PICK t \in Nat : t = term[j]
      BY <1>0 DEF ElectTypes
    <3>4. Round(i, Q, t, NoOne, "Follower") /\ term[i] < t
      BY <1>2, <3>2, <3>3
    <3>5. "Follower" \in {"Follower", "Candidate", "Leader"} /\ NoOne \in Server \cup {NoOne}
      OBVIOUS
    <3>6. RoundFits(i, Q, t, NoOne, "Follower", new)
      BY <1>1, <3>4, <3>5, RoundKeeps
    <3>7. "Follower" # "Leader"
      OBVIOUS
    <3> QED BY <3>6, <3>7, Zenon DEF RoundFits
  <2> QED BY <2>1, <2>2
<1>4. LeadOn(Server)
  BY <1>3 DEF LeadOn, Leads
<1> QED BY <1>3, <1>4 DEF TermStep, QuietStep

\* A request carries its sender's term, an answer one of its sender or of the request.
LEMMA CallsTermed ==
    ASSUME ElectionFits, NEW i \in Server, NEW j \in Server, NEW kind, NEW entries
    PROVE  Termed({Request(i, j, kind, entries)})
<1>1. term[i] \in Nat
  BY DEF ElectionFits, ElectTypes
<1>2. PICK r : /\ r = Request(i, j, kind, entries)
               /\ {"src", "dest", "term"} \subseteq DOMAIN r
               /\ r.src = i /\ r.dest = j /\ r.term = term[i]
  <2>1. PICK lead, prev, prevTerm, commit, r :
           /\ r = Request(i, j, kind, entries)
           /\ r = [kind |-> kind, src |-> i, dest |-> j, lead |-> lead, term |-> term[i],
                   prev |-> prev, prevTerm |-> prevTerm, entries |-> entries,
                   commit |-> commit]
    BY Zenon DEF Request
  <2> QED BY <2>1
<1> QED BY <1>1, <1>2 DEF Termed

LEMMA RepliesTermed ==
    ASSUME ElectionFits, NEW j, NEW m \in msgs, j = m.dest, NEW t \in Nat, NEW ok,
           Reply(j, m, t, ok)
    PROVE  Termed(msgs)'
<1>1. PICK r : /\ msgs' = (msgs \ {m}) \cup {r} /\ {"src", "dest", "term"} \subseteq DOMAIN r
               /\ r.src = j /\ r.dest = m.src /\ r.term = t
  <2>1. PICK r : /\ r = [kind |-> IF m.kind = "heartbeat" THEN "heartbeatReply"
                                                          ELSE "entriesReply",
                         src |-> j, dest |-> m.src, lead |-> m.lead, term |-> t,
                         success |-> ok, next |-> m.prev + Len(m.entries) + 1]
                 /\ msgs' = (msgs \ {m}) \cup {r}
    BY DEF Reply
  <2> QED BY <2>1
<1>2. Termed(msgs)
  BY DEF ElectionFits
<1> QED BY <1>1, <1>2 DEF Termed

\* Every step of lab3-B does to terms and votes what an election may.
LEMMA NextStep ==
    ASSUME ElectionFits, [Next]_vars
    PROVE  \/ QuietStep
           \/ \E i \in Server : WonStep(i) /\ \E Q \in SUBSET (Server \ {i}) : Elected(i, Q)
<1>0. ElectTypes /\ Termed(msgs) /\ Termed(unsent)
  BY DEF ElectionFits
<1>1. CASE UNCHANGED vars
  <2>1. UNCHANGED <<term, votedFor, state>> /\ msgs' = msgs /\ unsent' = unsent
    BY <1>1 DEF vars, elect, net
  <2> QED BY <1>0, <2>1, QuietElections DEF Termed
<1>2. ASSUME NEW i \in Server, Start(i) \/ Apply(i)
                               \/ \E N \in 1..Len(log[i]) : Commit(i, N)
      PROVE  QuietStep
  <2>1. UNCHANGED <<term, votedFor, state>> /\ msgs' = msgs /\ unsent' = unsent
    BY <1>2 DEF Start, Apply, Commit, elect, net
  <2> QED BY <1>0, <2>1, QuietElections DEF Termed
<1>3. ASSUME NEW i \in Server, NEW j \in Server, Heartbeat(i, j)
      PROVE  QuietStep
  <2>1. /\ UNCHANGED <<term, votedFor, state>> /\ unsent' = unsent
        /\ msgs' = msgs \cup {Request(i, j, "heartbeat", <<>>)}
    BY <1>3 DEF Heartbeat, elect
  <2>2. Termed(msgs)' /\ Termed(unsent)'
    BY <1>0, <2>1, CallsTermed DEF Termed
  <2> QED BY <2>1, <2>2, QuietElections
<1>4. ASSUME NEW i \in Server, NEW j \in Server, SendEntries(i, j)
      PROVE  QuietStep
  <2>1. /\ UNCHANGED <<term, votedFor, state>> /\ msgs' = msgs
        /\ \E r : /\ unsent' = unsent \cup {r}
                  /\ r = Request(i, j, "entries",
                                       SubSeq(log[i], nextIndex[i][j], Len(log[i])))
    BY <1>4 DEF SendEntries, elect
  <2>2. Termed(msgs)' /\ Termed(unsent)'
    BY <1>0, <2>1, CallsTermed DEF Termed
  <2> QED BY <2>1, <2>2, QuietElections
<1>5. ASSUME NEW m \in unsent, NEW torn, Encode(m, torn)
      PROVE  QuietStep
  <2>1. PICK e : /\ unsent' = unsent \ {m} /\ msgs' = msgs \cup {[m EXCEPT !.entries = e]}
                 /\ UNCHANGED <<term, votedFor, state>>
    BY <1>5 DEF Encode, elect
  <2>2. PICK r : r = [m EXCEPT !.entries = e]
    OBVIOUS
  <2>3. /\ {"src", "dest", "term"} \subseteq DOMAIN m
        /\ m.src \in Server /\ m.dest \in Server /\ m.term \in Nat
    BY <1>0 DEF Termed
  <2>4. /\ {"src", "dest", "term"} \subseteq DOMAIN r
        /\ r.src = m.src /\ r.dest = m.dest /\ r.term = m.term
    BY <2>2, <2>3
  <2>5. Termed(msgs)' /\ Termed(unsent)'
    BY <1>0, <2>1, <2>2, <2>3, <2>4 DEF Termed
  <2> QED BY <2>1, <2>5, QuietElections
<1>6. ASSUME NEW m \in msgs, Lose(m)
      PROVE  QuietStep
  <2>1. UNCHANGED <<term, votedFor, state>> /\ msgs' = msgs \ {m} /\ unsent' = unsent
    BY <1>6 DEF Lose, elect
  <2> QED BY <1>0, <2>1, QuietElections DEF Termed
<1>7. ASSUME NEW m \in msgs, Refuse(m.dest, m) \/ AcceptEntries(m.dest, m)
      PROVE  QuietStep
  <2>1. UNCHANGED <<term, votedFor, state>> /\ unsent' = unsent
    BY <1>7 DEF Refuse, AcceptEntries, elect
  <2>2. \E t \in Nat, ok \in BOOLEAN : Reply(m.dest, m, t, ok)
    <3>1. term[m.dest] \in Nat /\ 0 \in Nat
      BY <1>0 DEF ElectTypes, Termed
    <3>2. \/ Reply(m.dest, m, term[m.dest], FALSE)
          \/ Reply(m.dest, m, 0, TRUE)
      BY <1>7 DEF Refuse, AcceptEntries
    <3> QED BY <3>1, <3>2
  <2>3. Termed(msgs)' /\ Termed(unsent)'
    BY <1>0, <2>1, <2>2, RepliesTermed DEF Termed
  <2> QED BY <2>1, <2>3, QuietElections
<1>8. ASSUME NEW m \in msgs, AcceptHeartbeat(m.dest, m)
      PROVE  QuietStep
  <2>1. PICK j, t, v : /\ j \in Server /\ t \in Nat
                     /\ j = m.dest /\ t = m.term /\ v = VoteAfter(j, m)
    BY <1>0 DEF Termed
  <2>2. /\ t >= term[j] /\ unsent' = unsent
        /\ term' = [term EXCEPT ![j] = t] /\ votedFor' = [votedFor EXCEPT ![j] = v]
        /\ state' = [state EXCEPT ![j] = "Follower"]
        /\ Reply(j, m, t, TRUE)
    BY <1>8, <2>1 DEF AcceptHeartbeat
  <2>3. term[j] \in Nat /\ votedFor[j] \in Server \cup {NoOne}
    BY <1>0, <2>1 DEF ElectTypes
  <2>4. v \in Server \cup {NoOne} /\ (term[j] < t \/ (term[j] = t /\ v = votedFor[j]))
    BY <2>1, <2>2, <2>3 DEF VoteAfter
  <2>5. Termed(msgs)' /\ Termed(unsent)'
    <3>1. Termed(msgs)'
      BY <2>1, <2>2, RepliesTermed
    <3> QED BY <1>0, <2>2, <3>1 DEF Termed
  <2> QED BY <2>1, <2>2, <2>4, <2>5, OneFollows
<1>9. ASSUME NEW m \in msgs, ReceiveReply(m.dest, m)
      PROVE  QuietStep
  <2>1. PICK i \in Server, t \in Nat : i = m.dest /\ t = m.term
    BY <1>0 DEF Termed
  <2>2. /\ msgs' = msgs \ {m} /\ unsent' = unsent
        /\ \/ t > term[i] /\ StepDown(i, t)
           \/ UNCHANGED <<term, votedFor, state>>
    BY <1>9, <2>1 DEF ReceiveReply, elect
  <2>3. Termed(msgs)' /\ Termed(unsent)'
    BY <1>0, <2>2 DEF Termed
  <2>4. CASE t > term[i] /\ StepDown(i, t)
    <3>1. /\ term' = [term EXCEPT ![i] = t] /\ votedFor' = [votedFor EXCEPT ![i] = NoOne]
          /\ state' = [state EXCEPT ![i] = "Follower"]
      BY <2>4 DEF StepDown
    <3>2. term[i] < t /\ NoOne \in Server \cup {NoOne}
      BY <1>0, <2>4 DEF ElectTypes
    <3> QED BY <2>3, <3>1, <3>2, OneFollows
  <2> QED BY <2>2, <2>3, <2>4, QuietElections
<1> QED
  BY <1>1, <1>2, <1>3, <1>4, <1>5, <1>6, <1>7, <1>8, <1>9, ElectedStep, FailedStep
  DEF Next

LEMMA ElectionFitsAtFirst ==
    ASSUME Init
    PROVE  ElectionFits
<1>1. /\ term = [i \in Server |-> 0] /\ votedFor = [i \in Server |-> NoOne]
      /\ state = [i \in Server |-> "Follower"] /\ msgs = {} /\ unsent = {}
  BY Zenon DEF Init
<1>2. ElectTypes
  BY <1>1 DEF ElectTypes
<1>3. Termed(msgs) /\ Termed(unsent)
  BY <1>1 DEF Termed
<1>4. \A i \in Server : ~Leads(i)
  BY <1>1 DEF Leads
<1> QED BY <1>2, <1>3, <1>4 DEF ElectionFits, LeadersAlone

\* In lab3-B no two servers lead in one term, for any number of servers and every bound:
\* entries leave term, vote and state of their receiver alone, and that harms no election.
THEOREM OneLeaderPerTerm == Spec => []OneLeader
<1>1. Init => ElectionFits
  BY ElectionFitsAtFirst
<1>2. ElectionFits /\ [Next]_vars => ElectionFits'
  BY NextStep, LeadersStayAlone
<1>3. ElectionFits => OneLeader
  BY DEF ElectionFits, LeadersAlone, Leads, OneLeader
<1> QED BY <1>1, <1>2, <1>3, PTL DEF Spec

-----------------------------------------------------------------------------
(***************************************************************************)
(* The logs, until a second election is won.  There is one leader, all     *)
(* entries are of its term and logs grow: then what an entry's place in a  *)
(* log says of it is what its term would say.                              *)
(***************************************************************************)

\* No election has been won after the first one.
FirstLeader ==
    \A i, j \in Server : leads[i] <= 1 /\ (leads[i] = 1 /\ leads[j] = 1 => i = j)

\* Every entry there is has term t, which is the leader's.
AllOf(t) ==
    /\ \A i \in Server : Leads(i) => term[i] = t
    /\ \A i \in Server : \A k \in 1..Len(log[i]) : log[i][k] = t
    /\ \A m \in unsent \cup msgs :
          m \in Requests => \A k \in 1..Len(m.entries) : m.entries[k] = t

\* Leaders have been elected, and nothing is written or sent before that.
LeadersCount ==
    /\ \A i \in Server : Leads(i) => leads[i] > 0
    /\ (\A i \in Server : leads[i] = 0)
          => unsent = {} /\ msgs = {} /\ \A i \in Server : log[i] = <<>>

\* Index n of a log is in the logs of a majority.
Held(n) == n = 0 \/ \E Q \in Quorums : \A j \in Q : n <= Len(log[j])

\* A request ends within its sender's log, a success within both.
RequestFits(m) ==
    m \in Requests /\ m.src # m.dest /\ m.prev + Len(m.entries) <= Len(log[m.src]) /\ Held(m.commit)
ReplyFits(m) ==
    /\ m \in Replies /\ m.src # m.dest /\ m.next > 0
    /\ m.success => m.next <= Len(log[m.src]) + 1 /\ m.next <= Len(log[m.dest]) + 1

\* What server i may take for the next index of server j, and count on.
NextFits(i, j, n) == n \in 1..Len(log[i]) + 1 /\ n <= Len(log[j]) + 1
MatchFits(i, j, n) == n \in 0..Len(log[i]) /\ n <= Len(log[j]) /\ (i = j => n = 0)

CommitFits(i, n) == n \in 0..Len(log[i]) /\ Held(n)

\* While a first leader writes.
Written ==
    /\ leads \in [Server -> Nat] /\ LeadersCount
    /\ log \in [Server -> Seq(Nat)] /\ \E t \in Nat : AllOf(t)

NetFits ==
    /\ \A m \in unsent : RequestFits(m)
    /\ \A m \in msgs : RequestFits(m) \/ ReplyFits(m)
IndexFits ==
    /\ {nextIndex, matchIndex} \subseteq [Server -> [Server -> Nat]]
    /\ \A i, j \in Server : NextFits(i, j, nextIndex[i][j]) /\ MatchFits(i, j, matchIndex[i][j])
CommitsFit ==
    /\ {commitIndex, lastApplied} \subseteq [Server -> Nat]
    /\ \A i \in Server : CommitFits(i, commitIndex[i]) /\ lastApplied[i] <= Len(log[i])

Fits == ElectionFits /\ Written /\ NetFits /\ IndexFits /\ CommitsFit /\ bound \in Bounds

\* Logs grow.
Grows == log' \in [Server -> Seq(Nat)] /\ \A i \in Server : Len(log[i]) <= Len(log'[i])

\* What is so of the logs stays so when they grow.
LEMMA HeldStays ==
    ASSUME log \in [Server -> Seq(Nat)], Grows, NEW n \in Nat, Held(n)
    PROVE  Held(n)'
<1>1. CASE n = 0
  BY <1>1 DEF Held
<1>2. CASE n # 0
  <2>1. PICK Q \in Quorums : \A j \in Q : n <= Len(log[j])
    BY <1>2 DEF Held
  <2>2. \A j \in Q : /\ Len(log[j]) \in Nat /\ Len(log'[j]) \in Nat
                     /\ Len(log[j]) <= Len(log'[j])
    BY DEF Grows, Quorums
  <2>3. \A j \in Q : n <= Len(log'[j])
    BY <2>1, <2>2
  <2> QED BY <2>3 DEF Held, Quorums
<1> QED BY <1>1, <1>2

\* A shorter beginning is held too.
LEMMA HeldBefore ==
    ASSUME log \in [Server -> Seq(Nat)], NEW n \in Nat, NEW k \in Nat, k <= n, Held(n)
    PROVE  Held(k)
<1>1. CASE n = 0
  BY <1>1 DEF Held
<1>2. CASE n # 0
  <2>1. PICK Q \in Quorums : \A j \in Q : n <= Len(log[j])
    BY <1>2 DEF Held
  <2>2. \A j \in Q : Len(log[j]) \in Nat
    BY DEF Quorums
  <2>3. \A j \in Q : k <= Len(log[j])
    BY <2>1, <2>2
  <2> QED BY <2>3 DEF Held
<1> QED BY <1>1, <1>2

LEMMA RequestStays ==
    ASSUME log \in [Server -> Seq(Nat)], Grows, NEW m, RequestFits(m)
    PROVE  RequestFits(m)'
<1>1. /\ m \in Requests /\ m.src \in Server /\ m.prev \in Nat /\ m.entries \in Seq(Nat)
      /\ m.commit \in Nat
  BY DEF RequestFits, Requests
<1>2. /\ Len(m.entries) \in Nat /\ Len(log[m.src]) \in Nat /\ Len(log'[m.src]) \in Nat
      /\ Len(log[m.src]) <= Len(log'[m.src])
  BY <1>1 DEF Grows
<1>3. m.prev + Len(m.entries) <= Len(log'[m.src])
  <2>1. PICK a \in Nat, b \in Nat, c \in Nat :
           a = m.prev + Len(m.entries) /\ b = Len(log[m.src]) /\ c = Len(log'[m.src])
    <3>1. m.prev + Len(m.entries) \in Nat
      BY <1>1, <1>2
    <3> QED BY <1>2, <3>1, Zenon
  <2>2. a <= b /\ b <= c
    BY <1>2, <2>1, Zenon DEF RequestFits
  <2>3. a <= c
    BY <2>2
  <2> QED BY <2>1, <2>3, Zenon
<1>4. Held(m.commit)'
  BY <1>1, HeldStays DEF RequestFits
<1> QED BY <1>1, <1>3, <1>4 DEF RequestFits

LEMMA ReplyStays ==
    ASSUME log \in [Server -> Seq(Nat)], Grows, NEW m, ReplyFits(m)
    PROVE  ReplyFits(m)'
<1>1. m \in Replies /\ m.src \in Server /\ m.dest \in Server /\ m.next \in Nat
  BY DEF ReplyFits, Replies
<1>2. \A i \in Server : /\ Len(log[i]) \in Nat /\ Len(log'[i]) \in Nat
                        /\ Len(log[i]) <= Len(log'[i])
  BY DEF Grows
<1>3. ASSUME NEW i \in Server, m.next <= Len(log[i]) + 1
      PROVE  m.next <= Len(log'[i]) + 1
  <2>1. PICK a \in Nat, b \in Nat, c \in Nat :
           a = m.next /\ b = Len(log[i]) /\ c = Len(log'[i])
    BY <1>1, <1>2
  <2>2. a <= b + 1 /\ b <= c
    BY <1>2, <1>3, <2>1, Zenon
  <2>3. a <= c + 1
    BY <2>2
  <2> QED BY <2>1, <2>3, Zenon
<1> QED BY <1>1, <1>3 DEF ReplyFits

LEMMA NetStays ==
    ASSUME Written, NetFits, Grows,
           \A m \in unsent' : m \in unsent \/ RequestFits(m)',
           \A m \in msgs' : m \in msgs \/ RequestFits(m)' \/ ReplyFits(m)'
    PROVE  NetFits'
<1>1. log \in [Server -> Seq(Nat)]
  BY DEF Written
<1>2. \A m \in unsent' : RequestFits(m)'
  BY <1>1, RequestStays DEF NetFits
<1>3. \A m \in msgs' : RequestFits(m)' \/ ReplyFits(m)'
  BY <1>1, RequestStays, ReplyStays DEF NetFits
<1> QED BY <1>2, <1>3 DEF NetFits

LEMMA IndexStays ==
    ASSUME Written, IndexFits, Grows, UNCHANGED index
    PROVE  IndexFits'
<1>1. nextIndex' = nextIndex /\ matchIndex' = matchIndex
  BY DEF index
<1>2. ASSUME NEW i \in Server, NEW j \in Server
      PROVE  NextFits(i, j, nextIndex[i][j])' /\ MatchFits(i, j, matchIndex[i][j])'
  <2>1. /\ Len(log[i]) \in Nat /\ Len(log'[i]) \in Nat /\ Len(log[i]) <= Len(log'[i])
        /\ Len(log[j]) \in Nat /\ Len(log'[j]) \in Nat /\ Len(log[j]) <= Len(log'[j])
    BY DEF Written, Grows
  <2>2. NextFits(i, j, nextIndex[i][j]) /\ MatchFits(i, j, matchIndex[i][j])
    BY DEF IndexFits
  <2>3. PICK n, k : n = nextIndex[i][j] /\ k = matchIndex[i][j]
    OBVIOUS
  <2>4. PICK a \in Nat, b \in Nat, c \in Nat, d \in Nat :
           /\ a = Len(log[i]) /\ b = Len(log'[i]) /\ c = Len(log[j]) /\ d = Len(log'[j])
           /\ a <= b /\ c <= d
    BY <2>1
  <2>5. n \in 1..a + 1 /\ n <= c + 1 /\ k \in 0..a /\ k <= c /\ (i = j => k = 0)
    BY <2>2, <2>3, <2>4, Zenon DEF NextFits, MatchFits
  <2>6. n \in 1..b + 1 /\ n <= d + 1 /\ k \in 0..b /\ k <= d
    <3>1. a <= b /\ c <= d
      BY <2>4
    <3> QED BY <2>5, <3>1
  <2>7. nextIndex'[i][j] = n /\ matchIndex'[i][j] = k
    BY <1>1, <2>3
  <2> QED BY <2>4, <2>5, <2>6, <2>7 DEF NextFits, MatchFits
<1> QED BY <1>1, <1>2 DEF IndexFits

LEMMA CommitStays ==
    ASSUME Written, Grows, NEW CONSTANT i \in Server, NEW CONSTANT n, CommitFits(i, n)
    PROVE  CommitFits(i, n)'
<1>1. Len(log[i]) \in Nat /\ Len(log'[i]) \in Nat /\ Len(log[i]) <= Len(log'[i])
  BY DEF Written, Grows
<1>2. n \in Nat /\ n <= Len(log[i]) /\ Held(n)
  BY <1>1 DEF CommitFits
<1>3. Held(n)'
  BY <1>2, HeldStays DEF Written
<1> QED BY <1>1, <1>2, <1>3 DEF CommitFits

\* Steps that leave commit indices alone.
LEMMA CommitsStay ==
    ASSUME Written, CommitsFit, Grows, commitIndex' = commitIndex, lastApplied' = lastApplied
    PROVE  CommitsFit'
<1>1. ASSUME NEW i \in Server
      PROVE  CommitFits(i, commitIndex[i])' /\ lastApplied'[i] <= Len(log'[i])
  <2>1. CommitFits(i, commitIndex[i])'
    <3>1. PICK n : n = commitIndex[i]
      OBVIOUS
    <3>2. CommitFits(i, n)'
      BY <3>1, CommitStays DEF CommitsFit
    <3> QED BY <3>1, <3>2 DEF CommitFits
  <2>2. PICK a \in Nat, b \in Nat, c \in Nat :
           /\ a = lastApplied[i] /\ b = Len(log[i]) /\ c = Len(log'[i])
           /\ a <= b /\ b <= c
    <3>1. /\ lastApplied[i] \in Nat /\ lastApplied[i] <= Len(log[i])
          /\ Len(log[i]) \in Nat /\ Len(log'[i]) \in Nat /\ Len(log[i]) <= Len(log'[i])
      BY DEF Written, Grows, CommitsFit
    <3> QED BY <3>1, Zenon
  <2>3. a <= c
    BY <2>2
  <2> QED BY <2>1, <2>2, <2>3, Zenon
<1> QED BY <1>1 DEF CommitsFit

\* Steps that leave logs alone.
LEMMA LogsStand ==
    ASSUME Written, log' = log
    PROVE  Grows
<1>1. log \in [Server -> Seq(Nat)]
  BY DEF Written
<1> QED BY <1>1 DEF Grows

\* What a step does to logs, indices and messages.
LogStep == Grows /\ NetFits' /\ IndexFits' /\ CommitsFit'

\* Steps that leave logs and indices alone.
LEMMA QuietLogs ==
    ASSUME Fits, UNCHANGED <<log, index, commitIndex, lastApplied>>,
           \A m \in unsent' : m \in unsent \/ RequestFits(m)',
           \A m \in msgs' : m \in msgs \/ RequestFits(m)' \/ ReplyFits(m)'
    PROVE  LogStep
<1>1. Written /\ NetFits /\ IndexFits /\ CommitsFit
  BY DEF Fits
<1>2. Grows
  BY <1>1, LogsStand
<1>3. NetFits'
  BY <1>1, <1>2, NetStays
<1>4. IndexFits'
  BY <1>1, <1>2, IndexStays
<1>5. CommitsFit'
  BY <1>1, <1>2, CommitsStay
<1> QED BY <1>2, <1>3, <1>4, <1>5 DEF LogStep

\* A new command makes a log longer.
LEMMA StartLogs ==
    ASSUME Fits, NEW i \in Server, Start(i)
    PROVE  LogStep
<1>1. /\ Written /\ NetFits /\ IndexFits /\ CommitsFit
      /\ log \in [Server -> Seq(Nat)] /\ term[i] \in Nat
  BY DEF Fits, Written, ElectionFits, ElectTypes
<1>2. /\ log' = [log EXCEPT ![i] = Append(log[i], term[i])]
      /\ UNCHANGED index /\ commitIndex' = commitIndex /\ lastApplied' = lastApplied
      /\ unsent' = unsent /\ msgs' = msgs
  BY DEF Start, net
<1>3. Append(log[i], term[i]) \in Seq(Nat) /\ Len(Append(log[i], term[i])) = Len(log[i]) + 1
  BY <1>1
<1>4. Grows
  <2>1. log' \in [Server -> Seq(Nat)]
    BY <1>1, <1>2, <1>3
  <2>2. ASSUME NEW j \in Server
        PROVE  Len(log[j]) <= Len(log'[j])
    <3>1. Len(log[j]) \in Nat
      BY <1>1
    <3>2. Len(log'[j]) = Len(log[j]) \/ Len(log'[j]) = Len(log[j]) + 1
      BY <1>1, <1>2, <1>3
    <3> QED BY <3>1, <3>2
  <2> QED BY <2>1, <2>2 DEF Grows
<1>5. NetFits'
  BY <1>1, <1>2, <1>4, NetStays
<1>6. IndexFits' /\ CommitsFit'
  BY <1>1, <1>2, <1>4, IndexStays, CommitsStay
<1> QED BY <1>4, <1>5, <1>6 DEF LogStep

LEMMA EntryIsNat ==
    ASSUME NEW l \in Seq(Nat), NEW k \in 1..Len(l)
    PROVE  l[k] \in Nat
OBVIOUS

\* The rest of a log, from an index on.
LEMMA CutIsSeq ==
    ASSUME NEW l \in Seq(Nat), NEW a \in Nat, a = Len(l), NEW n \in 1..a + 1
    PROVE  /\ SubSeq(l, n, a) \in Seq(Nat)
           /\ n - 1 + Len(SubSeq(l, n, a)) = a
           /\ \A k \in 1..Len(SubSeq(l, n, a)) : /\ SubSeq(l, n, a)[k] = l[n - 1 + k]
                                                 /\ n - 1 + k \in 1..Len(l)
<1>1. CASE n = a + 1
  <2>1. SubSeq(l, n, a) = <<>>
    BY <1>1
  <2> QED BY <1>1, <2>1
<1>2. CASE n <= a
  <2>1. PICK c : c = [k \in 1..a - n + 1 |-> l[k + n - 1]]
    OBVIOUS
  <2>2. SubSeq(l, n, a) = c
    BY <1>2, <2>1 DEF SubSeq
  <2>3. \A k \in 1..a - n + 1 : n - 1 + k \in 1..a /\ k + n - 1 = n - 1 + k
    BY <1>2
  <2>4. \A k \in 1..a - n + 1 : c[k] = l[n - 1 + k] /\ c[k] \in Nat
    BY <2>1, <2>3
  <2>5. c \in Seq(Nat) /\ Len(c) = a - n + 1
    BY <1>2, <2>1, <2>4
  <2> QED BY <1>2, <2>2, <2>3, <2>4, <2>5
<1> QED BY <1>1, <1>2

\* Requests are cut from their sender's log.
LEMMA RequestMade ==
    ASSUME Fits, NEW i \in Server, NEW j \in Server, i # j,
           NEW kind \in {"heartbeat", "entries"}, NEW entries \in Seq(Nat),
           nextIndex[i][j] - 1 + Len(entries) <= Len(log[i])
    PROVE  RequestFits(Request(i, j, kind, entries))
<1>1. /\ log[i] \in Seq(Nat) /\ Len(log[i]) \in Nat /\ leads[i] \in Nat /\ term[i] \in Nat
      /\ commitIndex[i] \in Nat /\ Held(commitIndex[i])
      /\ NextFits(i, j, nextIndex[i][j])
  BY DEF Fits, Written, ElectionFits, ElectTypes, IndexFits, CommitsFit, CommitFits
<1>2. PICK prev : prev = nextIndex[i][j] - 1
  OBVIOUS
<1>3. PICK a \in Nat : a = Len(log[i]) /\ prev \in 0..a
  <2>1. PICK a \in Nat, n \in Nat : a = Len(log[i]) /\ n = nextIndex[i][j] /\ 1 <= n /\ n <= a + 1
    BY <1>1 DEF NextFits
  <2>2. n - 1 \in 0..a
    <3>1. 1 <= n /\ n <= a + 1
      BY <2>1
    <3> QED BY <3>1
  <2> QED BY <1>2, <2>1, <2>2
<1>4. PICK old \in Nat : old = Entry(log[i], prev)
  <2>1. CASE prev = 0
    BY <2>1 DEF Entry
  <2>2. CASE prev # 0
    <3>1. prev \in 1..a
      BY <1>3, <2>2
    <3>2. log[i][prev] \in Nat
      BY <1>1, <1>3, <3>1, EntryIsNat
    <3> QED BY <2>2, <3>2 DEF Entry
  <2> QED BY <2>1, <2>2
<1>5. PICK m : m = [kind |-> kind, src |-> i, dest |-> j, lead |-> leads[i], term |-> term[i],
                    prev |-> prev, prevTerm |-> old, entries |-> entries,
                    commit |-> commitIndex[i]]
  OBVIOUS
<1>6. Request(i, j, kind, entries) = m
  BY <1>2, <1>4, <1>5 DEF Request
<1>7. prev \in Nat
  BY <1>1, <1>3
<1>8. m \in Requests
  BY <1>1, <1>5, <1>7 DEF Requests
<1>9. /\ m.src = i /\ m.dest = j /\ m.prev = prev /\ m.entries = entries
      /\ m.commit = commitIndex[i]
  BY <1>5
<1>10. m.prev + Len(m.entries) <= Len(log[m.src])
  BY <1>2, <1>9, Zenon
<1> QED BY <1>1, <1>6, <1>8, <1>9, <1>10 DEF RequestFits

LEMMA SendLogs ==
    ASSUME Fits, NEW i \in Server, NEW j \in Server, Heartbeat(i, j) \/ SendEntries(i, j)
    PROVE  LogStep
<1>1. Written /\ log[i] \in Seq(Nat) /\ Len(log[i]) \in Nat /\ NextFits(i, j, nextIndex[i][j])
  BY DEF Fits, Written, IndexFits
<1>2. UNCHANGED <<log, index, commitIndex, lastApplied>> /\ i # j /\ log' = log
  BY DEF Heartbeat, SendEntries, MayCall
<1>3. PICK n \in Nat, a \in Nat : /\ n = nextIndex[i][j] /\ a = Len(log[i])
                                /\ 1 <= n /\ n <= a + 1
  BY <1>1 DEF NextFits
<1>4. Grows
  BY <1>1, <1>2, LogsStand
<1>5. CASE Heartbeat(i, j)
  <2>1. unsent' = unsent /\ msgs' = msgs \cup {Request(i, j, "heartbeat", <<>>)}
    BY <1>5 DEF Heartbeat
  <2>2. nextIndex[i][j] - 1 + Len(<<>>) <= Len(log[i])
    <3>1. n - 1 + 0 <= a
      BY <1>3
    <3>2. Len(<<>>) = 0
      OBVIOUS
    <3> QED BY <1>3, <3>1, <3>2, Zenon
  <2>3. RequestFits(Request(i, j, "heartbeat", <<>>))
    <3>1. <<>> \in Seq(Nat) /\ "heartbeat" \in {"heartbeat", "entries"}
      OBVIOUS
    <3> QED BY <1>2, <2>2, <3>1, RequestMade
  <2>4. PICK r : r = Request(i, j, "heartbeat", <<>>)
    OBVIOUS
  <2>5. RequestFits(r)'
    BY <1>1, <1>4, <2>3, <2>4, RequestStays DEF Written
  <2> QED BY <1>2, <2>1, <2>4, <2>5, QuietLogs
<1>6. CASE SendEntries(i, j)
  <2>1. PICK e : e = SubSeq(log[i], nextIndex[i][j], Len(log[i]))
    OBVIOUS
  <2>2. msgs' = msgs /\ unsent' = unsent \cup {Request(i, j, "entries", e)}
    BY <1>6, <2>1 DEF SendEntries
  <2>3. e \in Seq(Nat) /\ nextIndex[i][j] - 1 + Len(e) <= Len(log[i])
    <3>1. e = SubSeq(log[i], n, a) /\ n \in 1..a + 1
      BY <1>3, <2>1
    <3>2. e \in Seq(Nat) /\ n - 1 + Len(e) = a /\ a <= a
      <4>1. a = Len(log[i]) /\ a <= a
        BY <1>3
      <4> QED BY <1>1, <3>1, <4>1, CutIsSeq, Zenon
    <3>3. Len(e) \in Nat
      BY <3>2
    <3> QED BY <1>3, <3>2, <3>3, Zenon
  <2>4. RequestFits(Request(i, j, "entries", e))
    BY <1>2, <2>3, RequestMade
  <2>5. PICK r : r = Request(i, j, "entries", e)
    OBVIOUS
  <2>6. RequestFits(r)'
    BY <1>1, <1>4, <2>4, <2>5, RequestStays DEF Written
  <2> QED BY <1>2, <2>2, <2>5, <2>6, QuietLogs
<1> QED BY <1>5, <1>6

\* What is sent has the place of what was to be sent.
LEMMA EncodeLogs ==
    ASSUME Fits, NEW m \in unsent, NEW torn, Encode(m, torn)
    PROVE  LogStep
<1>1. Written /\ RequestFits(m)
  BY DEF Fits, NetFits
<1>2. /\ m \in Requests /\ m.entries \in Seq(Nat) /\ m.prev \in Nat /\ m.src \in Server
      /\ log[m.src] \in Seq(Nat)
  BY <1>1 DEF RequestFits, Requests, Written
<1>3. PICK e : e = [k \in 1..Len(m.entries) |-> IF k \in torn /\ m.prev + k <= Len(log[m.src])
                                                  THEN log[m.src][m.prev + k] ELSE m.entries[k]]
  OBVIOUS
<1>4. e \in Seq(Nat) /\ Len(e) = Len(m.entries)
  <2>1. PICK n \in Nat : n = Len(m.entries)
    BY <1>2
  <2>2. ASSUME NEW k \in 1..n
        PROVE  e[k] \in Nat
    <3>1. m.entries[k] \in Nat
      BY <1>2, <2>1
    <3>2. ASSUME m.prev + k <= Len(log[m.src])
          PROVE  log[m.src][m.prev + k] \in Nat
      <4>1. PICK a \in Nat : a = Len(log[m.src])
        BY <1>2
      <4>2. m.prev + k \in 1..a
        <5>1. m.prev \in Nat /\ k \in Nat \ {0} /\ m.prev + k <= a
          BY <1>2, <3>2, <4>1
        <5> QED BY <5>1
      <4> QED BY <1>2, <4>1, <4>2, EntryIsNat
    <3> QED BY <1>3, <2>1, <3>1, <3>2
  <2>3. DOMAIN e = 1..n
    BY <1>3, <2>1
  <2>4. e = [k \in 1..n |-> e[k]]
    BY <1>3, <2>1
  <2>5. e \in [1..n -> Nat]
    BY <2>2, <2>4
  <2>6. e \in Seq(Nat)
    BY <2>5
  <2> QED BY <2>1, <2>3, <2>6
<1>5. /\ UNCHANGED <<log, index, commitIndex, lastApplied>> /\ log' = log
      /\ unsent' = unsent \ {m} /\ msgs' = msgs \cup {[m EXCEPT !.entries = e]}
  BY <1>3 DEF Encode
<1>6. PICK r : r = [m EXCEPT !.entries = e]
  OBVIOUS
<1>7. RequestFits(r)
  <2>1. r \in Requests
    BY <1>2, <1>4, <1>6 DEF Requests
  <2>2. r.entries = e /\ r.src = m.src /\ r.dest = m.dest /\ r.prev = m.prev /\ r.commit = m.commit
    BY <1>2, <1>6 DEF Requests
  <2> QED BY <1>1, <1>4, <2>1, <2>2 DEF RequestFits
<1>8. RequestFits(r)'
  BY <1>1, <1>5, <1>7, LogsStand, RequestStays DEF Written
<1> QED BY <1>5, <1>6, <1>8, QuietLogs

LEMMA LoseLogs ==
    ASSUME Fits, NEW m \in msgs, Lose(m)
    PROVE  LogStep
<1>1. /\ UNCHANGED <<log, index, commitIndex, lastApplied>>
      /\ unsent' = unsent /\ msgs' = msgs \ {m}
  BY DEF Lose
<1> QED BY <1>1, QuietLogs

\* A reply says what both logs have, or takes the next index one back.
LEMMA ReceiveLogs ==
    ASSUME Fits, NEW m \in msgs, ReceiveReply(m.dest, m)
    PROVE  LogStep
<1>1. Written /\ NetFits /\ IndexFits /\ CommitsFit
  BY DEF Fits
<1>2. /\ m.kind \in {"heartbeatReply", "entriesReply"}
      /\ msgs' = msgs \ {m} /\ unsent' = unsent
      /\ log' = log /\ commitIndex' = commitIndex /\ lastApplied' = lastApplied
  BY DEF ReceiveReply
<1>3. ReplyFits(m)
  <2>1. ~RequestFits(m)
    BY <1>2 DEF RequestFits, Requests
  <2> QED BY <1>1, <2>1 DEF NetFits
<1>4. Grows /\ NetFits' /\ CommitsFit'
  <2>1. Grows
    BY <1>1, <1>2, LogsStand
  <2>2. NetFits'
    BY <1>1, <1>2, <2>1, NetStays
  <2> QED BY <1>1, <1>2, <2>1, <2>2, CommitsStay
<1>5. PICK i \in Server, j \in Server : i = m.dest /\ j = m.src /\ i # j
  BY <1>3 DEF ReplyFits, Replies
<1>6. CASE UNCHANGED index
  BY <1>1, <1>4, <1>6, IndexStays DEF LogStep
<1>7. ASSUME NEW n, NEW x,
             nextIndex' = [nextIndex EXCEPT ![i][j] = n],
             matchIndex' = [matchIndex EXCEPT ![i][j] = x],
             NextFits(i, j, n), MatchFits(i, j, x), n \in Nat, x \in Nat
      PROVE  LogStep
  <2>0. nextIndex \in [Server -> [Server -> Nat]] /\ matchIndex \in [Server -> [Server -> Nat]]
    BY <1>1 DEF IndexFits
  <2>1. /\ nextIndex' \in [Server -> [Server -> Nat]] /\ matchIndex' \in [Server -> [Server -> Nat]]
        /\ nextIndex'[i][j] = n /\ matchIndex'[i][j] = x
        /\ \A k, l \in Server : k # i \/ l # j => /\ nextIndex'[k][l] = nextIndex[k][l]
                                                 /\ matchIndex'[k][l] = matchIndex[k][l]
    BY <1>7, <2>0
  <2>2. ASSUME NEW k \in Server, NEW l \in Server
        PROVE  NextFits(k, l, nextIndex[k][l])' /\ MatchFits(k, l, matchIndex[k][l])'
    <3>1. NextFits(k, l, nextIndex[k][l]) /\ MatchFits(k, l, matchIndex[k][l])
      BY <1>1 DEF IndexFits
    <3>2. CASE k = i /\ l = j
      BY <1>2, <1>7, <2>1, <3>2 DEF NextFits, MatchFits
    <3>3. CASE k # i \/ l # j
      BY <1>2, <2>1, <3>1, <3>3 DEF NextFits, MatchFits
    <3> QED BY <3>2, <3>3
  <2> QED BY <1>4, <2>1, <2>2 DEF IndexFits, LogStep
<1>8. PICK n, x : /\ n = IF ~m.success THEN Greater(1, nextIndex[i][j] - 1)
                         ELSE IF m.kind = "entriesReply" THEN m.next ELSE nextIndex[i][j]
                  /\ x = IF m.success THEN n - 1 ELSE matchIndex[i][j]
  OBVIOUS
<1>9. CASE ~UNCHANGED index
  <2>1. /\ nextIndex' = [nextIndex EXCEPT ![i][j] = n]
        /\ matchIndex' = [matchIndex EXCEPT ![i][j] = x]
    <3>1. /\ nextIndex' = [nextIndex EXCEPT ![i][j] =
                IF ~m.success THEN Greater(1, @ - 1)
                ELSE IF m.kind = "entriesReply" THEN SentUpTo(i, m) ELSE @]
          /\ matchIndex' = [matchIndex EXCEPT ![i][j] =
                IF m.success THEN nextIndex'[i][j] - 1 ELSE @]
      BY <1>5, <1>9 DEF ReceiveReply
    <3>2. nextIndex \in [Server -> [Server -> Nat]] /\ matchIndex \in [Server -> [Server -> Nat]]
      BY <1>1 DEF IndexFits
    <3>3. nextIndex' = [nextIndex EXCEPT ![i][j] = n]
      BY <1>8, <3>1, <3>2 DEF SentUpTo
    <3>4. nextIndex'[i][j] = n
      BY <3>2, <3>3
    <3> QED BY <1>8, <3>1, <3>2, <3>3, <3>4
  <2>2. PICK a \in Nat, b \in Nat, p \in Nat, q \in Nat :
           /\ a = Len(log[i]) /\ b = Len(log[j]) /\ p = nextIndex[i][j] /\ q = matchIndex[i][j]
           /\ p \in 1..a + 1 /\ p <= b + 1 /\ q \in 0..a /\ q <= b
    <3>1. log[i] \in Seq(Nat) /\ log[j] \in Seq(Nat)
      BY <1>1 DEF Written
    <3>2. Len(log[i]) \in Nat /\ Len(log[j]) \in Nat
      BY <3>1
    <3>3. /\ NextFits(i, j, nextIndex[i][j]) /\ MatchFits(i, j, matchIndex[i][j])
          /\ nextIndex[i][j] \in Nat /\ matchIndex[i][j] \in Nat
      BY <1>1 DEF IndexFits
    <3> QED BY <3>2, <3>3, Zenon DEF NextFits, MatchFits
  <2>3. PICK s \in Nat : s = m.next /\ s > 0 /\ (m.success => s <= a + 1 /\ s <= b + 1)
    <3>1. m.next \in Nat
      BY <1>3 DEF ReplyFits, Replies
    <3> QED BY <1>3, <1>5, <2>2, <3>1, Zenon DEF ReplyFits
  <2>4. /\ n \in 1..a + 1 /\ n <= b + 1 /\ n \in Nat
        /\ x \in 0..a /\ x <= b /\ x \in Nat
    <3>1. CASE ~m.success
      <4>1. n = Greater(1, p - 1) /\ x = q
        BY <1>8, <2>2, <3>1
      <4>2. n = (IF 1 > p - 1 THEN 1 ELSE p - 1)
        BY <4>1 DEF Greater
      <4>3. p \in 1..a + 1 /\ p <= b + 1 /\ q \in 0..a /\ q <= b
        BY <2>2
      <4> QED BY <4>1, <4>2, <4>3
    <3>2. CASE m.success
      <4>1. (n = s \/ n = p) /\ x = n - 1
        BY <1>8, <2>2, <2>3, <3>2
      <4>2. /\ p \in 1..a + 1 /\ p <= b + 1 /\ s > 0 /\ s <= a + 1 /\ s <= b + 1
        BY <2>2, <2>3, <3>2
      <4> QED BY <4>1, <4>2
    <3> QED BY <3>1, <3>2
  <2>5. NextFits(i, j, n) /\ MatchFits(i, j, x)
    BY <1>5, <2>2, <2>4, Zenon DEF NextFits, MatchFits
  <2> QED BY <1>7, <2>1, <2>4, <2>5
<1> QED BY <1>6, <1>9

\* A majority has what the leader counts: the peers it counts, and itself.
LEMMA CommitLogs ==
    ASSUME Fits, NEW i \in Server, NEW N \in 1..Len(log[i]), Commit(i, N)
    PROVE  LogStep
<1>1. Written /\ NetFits /\ IndexFits /\ CommitsFit
  BY DEF Fits
<1>2. /\ commitIndex' = [commitIndex EXCEPT ![i] = N]
      /\ UNCHANGED index /\ log' = log /\ lastApplied' = lastApplied
      /\ unsent' = unsent /\ msgs' = msgs /\ Replicas(i, N) >= Majority
  BY DEF Commit, net
<1>3. Grows /\ NetFits' /\ IndexFits'
  <2>1. Grows
    BY <1>1, <1>2, LogsStand
  <2> QED BY <1>1, <1>2, <2>1, NetStays, IndexStays
<1>4. /\ log[i] \in Seq(Nat) /\ Len(log[i]) \in Nat /\ N \in Nat /\ N > 0 /\ N <= Len(log[i])
      /\ commitIndex \in [Server -> Nat]
  BY <1>1 DEF Written, CommitsFit
<1>5. PICK S : S = {j \in Server : matchIndex[i][j] >= N}
  OBVIOUS
<1>6. S \cup {i} \in Quorums
  <2>1. i \notin S /\ S \in SUBSET Server
    <3>1. matchIndex[i][i] = 0
      BY <1>1 DEF IndexFits, MatchFits
    <3> QED BY <1>4, <1>5, <3>1
  <2>2. IsFiniteSet(S)
    BY <2>1, ServerAssumption, FS_Subset
  <2>3. Cardinality(S \cup {i}) = Cardinality(S) + 1
    BY <2>1, <2>2, FS_AddElement
  <2> QED BY <1>2, <1>5, <2>1, <2>3 DEF Quorums, Replicas
<1>7. ASSUME NEW j \in S \cup {i}
      PROVE  N <= Len(log[j])
  <2>1. CASE j = i
    BY <1>4, <2>1
  <2>2. CASE j # i
    <3>1. PICK a \in Nat, b \in Nat : a = matchIndex[i][j] /\ b = Len(log[j]) /\ N <= a /\ a <= b
      <4>1. j \in Server /\ matchIndex[i][j] >= N
        BY <1>5, <2>2
      <4>2. MatchFits(i, j, matchIndex[i][j]) /\ matchIndex[i][j] \in Nat /\ log[j] \in Seq(Nat)
        BY <1>1, <4>1 DEF IndexFits, Written
      <4>3. Len(log[j]) \in Nat /\ matchIndex[i][j] <= Len(log[j]) /\ N <= matchIndex[i][j]
        BY <1>4, <4>1, <4>2 DEF MatchFits
      <4> QED BY <4>2, <4>3, Zenon
    <3>2. N <= b
      BY <1>4, <3>1
    <3> QED BY <3>1, <3>2
  <2> QED BY <2>1, <2>2
<1>8. CommitFits(i, N)
  BY <1>4, <1>6, <1>7 DEF CommitFits, Held
<1>9. CommitsFit'
  <2>1. commitIndex' \in [Server -> Nat] /\ lastApplied' \in [Server -> Nat]
    BY <1>1, <1>2, <1>4 DEF CommitsFit
  <2>2. ASSUME NEW j \in Server
        PROVE  CommitFits(j, commitIndex[j])' /\ lastApplied'[j] <= Len(log'[j])
    <3>1. CommitFits(j, commitIndex[j]) /\ lastApplied[j] <= Len(log[j])
      BY <1>1 DEF CommitsFit
    <3>2. CommitFits(j, commitIndex'[j])
      BY <1>2, <1>4, <1>8, <3>1
    <3> QED BY <1>2, <3>1, <3>2 DEF CommitFits, Held, Quorums
  <2> QED BY <2>1, <2>2 DEF CommitsFit
<1> QED BY <1>3, <1>9 DEF LogStep

LEMMA ApplyLogs ==
    ASSUME Fits, NEW i \in Server, Apply(i)
    PROVE  LogStep
<1>1. Written /\ NetFits /\ IndexFits /\ CommitsFit
  BY DEF Fits
<1>2. /\ lastApplied[i] < commitIndex[i] /\ lastApplied' = [lastApplied EXCEPT ![i] = @ + 1]
      /\ UNCHANGED index /\ log' = log /\ commitIndex' = commitIndex
      /\ unsent' = unsent /\ msgs' = msgs
  BY DEF Apply, net
<1>3. Grows /\ NetFits' /\ IndexFits'
  <2>1. Grows
    BY <1>1, <1>2, LogsStand
  <2> QED BY <1>1, <1>2, <2>1, NetStays, IndexStays
<1>4. lastApplied \in [Server -> Nat] /\ commitIndex \in [Server -> Nat]
  BY <1>1 DEF CommitsFit
<1>5. ASSUME NEW j \in Server
      PROVE  CommitFits(j, commitIndex[j])' /\ lastApplied'[j] <= Len(log'[j])
  <2>1. CommitFits(j, commitIndex[j]) /\ lastApplied[j] <= Len(log[j])
    BY <1>1 DEF CommitsFit
  <2>2. CommitFits(j, commitIndex[j])'
    BY <1>2, <2>1 DEF CommitFits, Held, Quorums
  <2>3. CASE j = i
    <3>1. PICK a \in Nat, b \in Nat, c \in Nat :
             a = lastApplied[i] /\ b = commitIndex[i] /\ c = Len(log[i]) /\ a < b /\ b <= c
      <4>1. log[i] \in Seq(Nat)
        BY <1>1 DEF Written
      <4>2. Len(log[i]) \in Nat
        BY <4>1
      <4>3. commitIndex[i] <= Len(log[i])
        BY <2>1, <2>3, <4>2 DEF CommitFits
      <4> QED BY <1>2, <1>4, <4>2, <4>3, Zenon
    <3>2. a + 1 <= c
      BY <3>1
    <3>3. lastApplied'[j] = a + 1
      BY <1>2, <1>4, <2>3, <3>1
    <3> QED BY <1>2, <2>2, <2>3, <3>1, <3>2, <3>3
  <2>4. CASE j # i
    BY <1>2, <1>4, <2>1, <2>2, <2>4
  <2> QED BY <2>3, <2>4
<1> QED BY <1>2, <1>3, <1>4, <1>5 DEF CommitsFit, LogStep

\* What is merged into a log makes it no shorter, where all entries are of one term.
LEMMA MergedFits ==
    ASSUME NEW l \in Seq(Nat), NEW m \in Requests, NEW t \in Nat,
           m.entries # <<>>, m.prev <= Len(l),
           \A k \in 1..Len(l) : l[k] = t, \A k \in 1..Len(m.entries) : m.entries[k] = t
    PROVE  /\ Merged(l, m) \in Seq(Nat)
           /\ Len(l) <= Len(Merged(l, m)) /\ m.prev + Len(m.entries) <= Len(Merged(l, m))
           /\ \A k \in 1..Len(Merged(l, m)) : Merged(l, m)[k] = t
<1>1. m.prev \in Nat /\ m.entries \in Seq(Nat)
  BY DEF Requests
<1>2. PICK a \in Nat, n \in Nat, p \in Nat :
         a = Len(l) /\ n = Len(m.entries) /\ p = m.prev /\ p <= a /\ n # 0
  <2>1. PICK n : n = Len(m.entries)
    OBVIOUS
  <2>2. n \in Nat /\ n # 0
    BY <1>1, <2>1
  <2>3. Len(l) \in Nat
    OBVIOUS
  <2> QED BY <1>1, <2>1, <2>2, <2>3, Zenon
<1>3. CASE \A k \in 1..n : p + k <= a
  <2>1. \A k \in 1..n : l[p + k] = m.entries[k]
    <3> SUFFICES ASSUME NEW k \in 1..n
                 PROVE  l[p + k] = m.entries[k]
      OBVIOUS
    <3>1. p + k \in 1..a
      <4>1. p + k <= a
        BY <1>3
      <4> QED BY <4>1
    <3> QED BY <1>2, <3>1
  <2>2. Merged(l, m) = l
    BY <1>2, <1>3, <2>1 DEF Merged
  <2>3. p + n <= a /\ a <= a
    <3>1. n \in 1..n
      BY <1>2
    <3>2. p + n <= a
      BY <1>3, <3>1
    <3> QED BY <3>2
  <2> QED BY <1>2, <2>2, <2>3, Zenon
<1>4. CASE ~ \A k \in 1..n : p + k <= a
  <2>1. Merged(l, m) = SubSeq(l, 1, p) \o m.entries
    BY <1>2, <1>4 DEF Merged
  <2>2. PICK h : h = SubSeq(l, 1, p)
    OBVIOUS
  <2>3. h \in Seq(Nat) /\ Len(h) = p /\ \A k \in 1..p : h[k] = l[k] /\ k \in 1..Len(l)
    <3>1. p \in 0..Len(l)
      BY <1>2
    <3>2. \A k \in 1..p : k \in 1..Len(l)
      BY <3>1
    <3>3. CASE p = 0
      BY <2>2, <3>3
    <3>4. CASE p # 0
      <4>1. h = [k \in 1..p |-> l[k]]
        <5>1. p - 1 + 1 = p /\ \A k \in 1..p : k + 1 - 1 = k
          OBVIOUS
        <5> QED BY <2>2, <5>1 DEF SubSeq
      <4>2. \A k \in 1..p : l[k] \in Nat
        BY <3>2
      <4> QED BY <3>2, <4>1, <4>2
    <3> QED BY <3>3, <3>4
  <2>4. PICK c : c = h \o m.entries
    OBVIOUS
  <2>5. c \in Seq(Nat) /\ Len(c) = p + n
    <3>1. n = Len(m.entries)
      BY <1>2
    <3>2. h \in Seq(Nat) /\ p = Len(h)
      BY <2>3
    <3>3. Len(h \o m.entries) = Len(h) + Len(m.entries)
      BY <1>1, <3>2
    <3> QED BY <1>1, <2>4, <3>1, <3>2, <3>3
  <2>6. \A k \in 1..p + n : c[k] = t
    <3> SUFFICES ASSUME NEW k \in 1..p + n
                 PROVE  c[k] = t
      OBVIOUS
    <3>1. CASE k <= p
      <4>1. k \in 1..p
        BY <3>1
      <4>2. c[k] = h[k]
        BY <1>1, <2>3, <2>4, <4>1
      <4> QED BY <2>3, <4>1, <4>2
    <3>2. CASE k > p
      <4>1. k - p \in 1..n
        BY <3>2
      <4>2. c[k] = m.entries[k - p]
        <5>1. n = Len(m.entries) /\ p = Len(h) /\ h \in Seq(Nat)
          BY <1>2, <2>3
        <5>2. k \in 1..Len(h) + Len(m.entries) /\ ~(k <= Len(h))
          BY <3>2, <5>1
        <5> QED BY <1>1, <2>4, <5>1, <5>2
      <4> QED BY <1>2, <4>1, <4>2
    <3> QED BY <3>1, <3>2
  <2>7. a <= p + n
    BY <1>4
  <2>8. Merged(l, m) = c
    BY <2>1, <2>2, <2>4
  <2>9. p + n <= p + n
    OBVIOUS
  <2> QED BY <1>2, <2>5, <2>6, <2>7, <2>8, <2>9, Zenon
<1> QED BY <1>3, <1>4

\* A reply that says yes names a place in both logs.
LEMMA ReplyMade ==
    ASSUME log \in [Server -> Seq(Nat)], Grows, NEW m \in msgs, RequestFits(m), NEW j, j = m.dest,
           NEW t \in Nat, NEW ok \in BOOLEAN, Reply(j, m, t, ok),
           ok => m.prev + Len(m.entries) <= Len(log'[j])
    PROVE  \A r \in msgs' : r \in msgs \/ ReplyFits(r)'
<1>1. /\ m.src \in Server /\ m.dest \in Server /\ m.lead \in Nat /\ m.prev \in Nat
      /\ m.entries \in Seq(Nat) /\ Len(m.entries) \in Nat
      /\ m.src # m.dest
  <2>1. m \in Requests /\ m.src # m.dest
    BY DEF RequestFits
  <2> QED BY <2>1 DEF Requests
<1>k. PICK kind : kind = IF m.kind = "heartbeat" THEN "heartbeatReply" ELSE "entriesReply"
  OBVIOUS
<1>n. PICK next : next = m.prev + Len(m.entries) + 1
  OBVIOUS
<1>r. PICK r : r = [kind |-> kind, src |-> j, dest |-> m.src, lead |-> m.lead, term |-> t,
                    success |-> ok, next |-> next]
  OBVIOUS
<1>2. /\ kind \in {"heartbeatReply", "entriesReply"}
      /\ next = m.prev + Len(m.entries) + 1
      /\ r = [kind |-> kind, src |-> j, dest |-> m.src, lead |-> m.lead, term |-> t,
              success |-> ok, next |-> next]
      /\ msgs' = (msgs \ {m}) \cup {r}
  <2>1. msgs' = (msgs \ {m}) \cup {r}
    BY <1>k, <1>n, <1>r DEF Reply
  <2>2. kind \in {"heartbeatReply", "entriesReply"}
    BY <1>k
  <2> QED BY <1>n, <1>r, <2>1, <2>2
<1>3. next \in Nat /\ next > 0
  <2>1. PICK a \in Nat, b \in Nat : a = m.prev /\ b = Len(m.entries)
    BY <1>1
  <2>2. a + b + 1 \in Nat /\ a + b + 1 > 0
    OBVIOUS
  <2> QED BY <1>2, <2>1, <2>2
<1>4. r \in Replies
  BY <1>1, <1>2, <1>3 DEF Replies
<1>5. ok => next <= Len(log'[j]) + 1 /\ next <= Len(log'[m.src]) + 1
  <2> SUFFICES ASSUME ok
               PROVE  next <= Len(log'[j]) + 1 /\ next <= Len(log'[m.src]) + 1
    OBVIOUS
  <2>1. PICK a \in Nat : a = m.prev + Len(m.entries)
    BY <1>1
  <2>2. PICK b \in Nat, c \in Nat : b = Len(log'[j]) /\ c = Len(log'[m.src])
    BY <1>1 DEF Grows
  <2>3. a <= b
    BY <2>1, <2>2, Zenon
  <2>4. a <= c
    <3>1. RequestFits(m)'
      BY RequestStays
    <3> QED BY <2>1, <2>2, <3>1, Zenon DEF RequestFits
  <2>5. a + 1 <= b + 1 /\ a + 1 <= c + 1
    BY <2>3, <2>4
  <2> QED BY <1>2, <2>1, <2>2, <2>5, Zenon
<1>6. ReplyFits(r)'
  <2>1. r.src = j /\ r.dest = m.src /\ r.next = next /\ r.success = ok
    BY <1>2
  <2> QED BY <1>1, <1>3, <1>4, <1>5, <2>1 DEF ReplyFits
<1> QED BY <1>2, <1>6

\* What a follower takes over for its commit index.
LEMMA TakenCommit ==
    ASSUME Written, Grows, NEW CONSTANT j \in Server, NEW CONSTANT c, CommitFits(j, c),
           NEW CONSTANT m, RequestFits(m), m.prev + Len(m.entries) <= Len(log'[j])
    PROVE  CommitAfter(c, m) \in Nat /\ CommitFits(j, CommitAfter(c, m))'
<1>1. /\ m.prev \in Nat /\ m.entries \in Seq(Nat) /\ Len(m.entries) \in Nat /\ m.commit \in Nat
      /\ Held(m.commit)
  <2>1. m \in Requests /\ Held(m.commit)
    BY DEF RequestFits
  <2> QED BY <2>1 DEF Requests
<1>2. log \in [Server -> Seq(Nat)] /\ log' \in [Server -> Seq(Nat)]
  BY DEF Written, Grows
<1>3. CommitFits(j, c)' /\ c \in Nat
  <2>1. Len(log[j]) \in Nat
    BY <1>2
  <2> QED BY <2>1, CommitStays DEF CommitFits
<1>4. CASE ~(m.commit > c)
  BY <1>3, <1>4 DEF CommitAfter
<1>5. CASE m.commit > c
  <2>1. PICK a \in Nat, b \in Nat, x \in Nat :
           /\ a = m.prev + Len(m.entries) /\ b = Len(log'[j]) /\ a <= b
           /\ x = Lesser(m.commit, a)
    <3>1. m.prev + Len(m.entries) \in Nat /\ Len(log'[j]) \in Nat
      BY <1>1, <1>2
    <3>2. PICK a \in Nat, b \in Nat : a = m.prev + Len(m.entries) /\ b = Len(log'[j])
      BY <3>1
    <3>3. Lesser(m.commit, a) \in Nat
      BY <1>1 DEF Lesser
    <3> QED BY <3>2, <3>3, Zenon
  <2>2. CommitAfter(c, m) = x
    BY <1>5, <2>1, Zenon DEF CommitAfter
  <2>3. PICK n \in Nat : n = m.commit
    BY <1>1
  <2>4. x <= n /\ x <= a
    BY <2>1, <2>3 DEF Lesser
  <2>5. x \in 0..b
    <3>1. a <= b
      BY <2>1
    <3> QED BY <2>4, <3>1
  <2>6. Held(x)'
    BY <1>1, <1>2, <2>3, <2>4, HeldBefore, HeldStays
  <2> QED BY <2>1, <2>2, <2>5, <2>6 DEF CommitFits
<1> QED BY <1>4, <1>5

\* The handler's answers.
LEMMA HandleLogs ==
    ASSUME Fits, NEW m \in msgs,
           Refuse(m.dest, m) \/ AcceptHeartbeat(m.dest, m) \/ AcceptEntries(m.dest, m)
    PROVE  LogStep
<1>1. Written /\ NetFits /\ IndexFits /\ CommitsFit /\ log \in [Server -> Seq(Nat)]
  BY DEF Fits, Written
<1>2. RequestFits(m)
  <2>1. ~ReplyFits(m)
    BY DEF Refuse, AcceptHeartbeat, AcceptEntries, IsCall, ReplyFits, Replies
  <2> QED BY <1>1, <2>1 DEF NetFits
<1>3. /\ m \in Requests /\ m.dest \in Server /\ m.prev \in Nat /\ m.entries \in Seq(Nat)
      /\ m.term \in Nat /\ Len(m.entries) \in Nat
  <2>1. m \in Requests
    BY <1>2 DEF RequestFits
  <2> QED BY <2>1 DEF Requests
<1>4. PICK j \in Server : j = m.dest
  BY <1>3
<1>5. unsent' = unsent /\ UNCHANGED index /\ lastApplied' = lastApplied
  BY DEF Refuse, AcceptHeartbeat, AcceptEntries
<1>6. CASE Refuse(j, m)
  <2>1. Reply(j, m, term[j], FALSE) /\ log' = log /\ commitIndex' = commitIndex
    BY <1>6 DEF Refuse
  <2>2. term[j] \in Nat /\ FALSE \in BOOLEAN
    BY DEF Fits, ElectionFits, ElectTypes
  <2>3. Grows
    BY <1>1, <2>1, LogsStand
  <2>4. \A r \in msgs' : r \in msgs \/ ReplyFits(r)'
    BY <1>1, <1>2, <1>4, <2>1, <2>2, <2>3, ReplyMade
  <2> QED BY <1>5, <2>1, <2>4, QuietLogs
<1>7. ASSUME Grows, m.prev + Len(m.entries) <= Len(log'[j]), NEW t \in Nat, Reply(j, m, t, TRUE),
             commitIndex' = [commitIndex EXCEPT ![j] = CommitAfter(@, m)]
      PROVE  LogStep
  <2>1. \A r \in msgs' : r \in msgs \/ ReplyFits(r)'
    BY <1>1, <1>2, <1>4, <1>7, ReplyMade
  <2>2. NetFits' /\ IndexFits'
    BY <1>1, <1>5, <1>7, <2>1, NetStays, IndexStays
  <2>3. commitIndex \in [Server -> Nat] /\ lastApplied \in [Server -> Nat]
    BY <1>1 DEF CommitsFit
  <2>4. PICK c : c = commitIndex[j]
    OBVIOUS
  <2>5. CommitAfter(c, m) \in Nat /\ CommitFits(j, CommitAfter(c, m))'
    <3>1. CommitFits(j, c)
      BY <1>1, <2>4 DEF CommitsFit
    <3> QED BY <1>1, <1>2, <1>7, <3>1, TakenCommit
  <2>6. /\ commitIndex' \in [Server -> Nat] /\ commitIndex'[j] = CommitAfter(c, m)
        /\ \A k \in Server \ {j} : commitIndex'[k] = commitIndex[k]
    BY <1>7, <2>3, <2>4, <2>5
  <2>7. ASSUME NEW k \in Server
        PROVE  CommitFits(k, commitIndex[k])' /\ lastApplied'[k] <= Len(log'[k])
    <3>1. CommitFits(k, commitIndex[k])'
      <4>1. CASE k = j
        BY <2>5, <2>6, <4>1 DEF CommitFits
      <4>2. CASE k # j
        <5>1. PICK n : n = commitIndex[k] /\ CommitFits(k, n)
          BY <1>1 DEF CommitsFit
        <5>2. CommitFits(k, n)'
          BY <1>1, <1>7, <5>1, CommitStays
        <5> QED BY <2>6, <4>2, <5>1, <5>2 DEF CommitFits
      <4> QED BY <4>1, <4>2
    <3>2. PICK a \in Nat, b \in Nat, d \in Nat :
             /\ a = lastApplied[k] /\ b = Len(log[k]) /\ d = Len(log'[k])
             /\ a <= b /\ b <= d
      <4>1. /\ lastApplied[k] \in Nat /\ lastApplied[k] <= Len(log[k])
            /\ Len(log[k]) \in Nat /\ Len(log'[k]) \in Nat /\ Len(log[k]) <= Len(log'[k])
        BY <1>1, <1>7 DEF Grows, CommitsFit
      <4> QED BY <4>1, Zenon
    <3>3. a <= d
      BY <3>2
    <3> QED BY <1>5, <3>1, <3>2, <3>3, Zenon
  <2> QED BY <1>5, <1>7, <2>2, <2>3, <2>6, <2>7 DEF CommitsFit, LogStep
<1>8. CASE AcceptHeartbeat(j, m)
  <2>1. /\ m.entries = <<>> /\ m.prev <= Len(log[j]) /\ log' = log
        /\ commitIndex' = [commitIndex EXCEPT ![j] = CommitAfter(@, m)]
        /\ Reply(j, m, m.term, TRUE)
    BY <1>8 DEF AcceptHeartbeat, Matches
  <2>2. Grows
    BY <1>1, <2>1, LogsStand
  <2>3. m.prev + Len(m.entries) <= Len(log'[j])
    BY <1>3, <2>1
  <2> QED BY <1>3, <1>7, <2>1, <2>2, <2>3
<1>9. CASE AcceptEntries(j, m)
  <2>1. /\ m.entries # <<>> /\ m.prev <= Len(log[j]) /\ log' = [log EXCEPT ![j] = Merged(@, m)]
        /\ commitIndex' = [commitIndex EXCEPT ![j] = CommitAfter(@, m)]
        /\ Reply(j, m, 0, TRUE)
    BY <1>9 DEF AcceptEntries, Matches
  <2>2. PICK t \in Nat : AllOf(t)
    BY <1>1 DEF Written
  <2>3. /\ \A k \in 1..Len(log[j]) : log[j][k] = t
        /\ \A k \in 1..Len(m.entries) : m.entries[k] = t
    BY <1>3, <2>2 DEF AllOf
  <2>4. /\ Merged(log[j], m) \in Seq(Nat) /\ Len(log[j]) <= Len(Merged(log[j], m))
        /\ m.prev + Len(m.entries) <= Len(Merged(log[j], m))
    BY <1>1, <1>3, <2>1, <2>3, MergedFits
  <2>5. /\ log' \in [Server -> Seq(Nat)] /\ log'[j] = Merged(log[j], m)
        /\ \A k \in Server \ {j} : log'[k] = log[k]
    BY <1>1, <2>1, <2>4
  <2>6. Grows
    <3>1. ASSUME NEW k \in Server
          PROVE  Len(log[k]) <= Len(log'[k])
      <4>1. CASE k = j
        BY <2>4, <2>5, <4>1
      <4>2. CASE k # j
        <5>1. log[k] \in Seq(Nat) /\ log'[k] = log[k]
          BY <1>1, <2>5, <4>2
        <5>2. PICK a \in Nat : a = Len(log[k]) /\ a = Len(log'[k])
          BY <5>1
        <5> QED BY <5>2
      <4> QED BY <4>1, <4>2
    <3> QED BY <2>5, <3>1 DEF Grows
  <2>7. m.prev + Len(m.entries) <= Len(log'[j])
    BY <2>4, <2>5, Zenon
  <2> QED BY <1>7, <2>1, <2>6, <2>7
<1> QED BY <1>4, <1>6, <1>8, <1>9

LEMMA NextLogs ==
    ASSUME Fits, [Next]_vars
    PROVE  LogStep
<1>1. CASE UNCHANGED vars
  <2>1. UNCHANGED <<log, index, commitIndex, lastApplied>> /\ unsent' = unsent /\ msgs' = msgs
    BY <1>1 DEF vars, net
  <2> QED BY <2>1, QuietLogs
<1>2. ASSUME NEW i \in Server, NEW Q \in SUBSET (Server \ {i}),
             Elected(i, Q) \/ Undecided(i, Q) \/ \E j \in Q : Deposed(i, Q, j)
      PROVE  LogStep
  <2>1. UNCHANGED <<log, index, commitIndex, lastApplied>> /\ unsent' = unsent /\ msgs' = msgs
    <3>1. \E t, v, s : Round(i, Q, t, v, s)
      BY <1>2, Zenon DEF Elected, Undecided, Deposed
    <3> QED BY <3>1 DEF Round, net
  <2> QED BY <2>1, QuietLogs
<1> QED
  BY <1>1, <1>2, StartLogs, SendLogs, EncodeLogs, LoseLogs, ReceiveLogs, CommitLogs, ApplyLogs,
     HandleLogs
  DEF Next

-----------------------------------------------------------------------------
(* The term of the entries. *)

\* Elections are what leads counts.
LEMMA LeadsStand ==
    ASSUME [Next]_vars, \A i \in Server : \A Q \in SUBSET (Server \ {i}) : ~Elected(i, Q)
    PROVE  leads' = leads
BY DEF Next, vars, Start, Apply, Heartbeat, SendEntries, Undecided, Deposed, Commit, Encode,
       ReceiveReply, Lose, Refuse, AcceptHeartbeat, AcceptEntries

LEMMA LeadsGrow ==
    ASSUME leads \in [Server -> Nat], [Next]_vars
    PROVE  leads' \in [Server -> Nat] /\ \A i \in Server : leads[i] <= leads'[i]
<1>1. CASE \A i \in Server : \A Q \in SUBSET (Server \ {i}) : ~Elected(i, Q)
  <2>1. leads' = leads
    BY <1>1, LeadsStand
  <2> QED BY <2>1
<1>2. ASSUME NEW i \in Server, NEW Q \in SUBSET (Server \ {i}), Elected(i, Q)
      PROVE  leads' \in [Server -> Nat] /\ \A j \in Server : leads[j] <= leads'[j]
  <2>1. leads' = [leads EXCEPT ![i] = @ + 1]
    BY <1>2 DEF Elected
  <2> QED BY <2>1
<1> QED BY <1>1, <1>2

\* A second election is not undone.
LEMMA FirstBefore ==
    ASSUME leads \in [Server -> Nat], [Next]_vars, FirstLeader'
    PROVE  FirstLeader
<1>1. /\ leads' \in [Server -> Nat]
      /\ \A i \in Server : leads[i] \in Nat /\ leads'[i] \in Nat /\ leads[i] <= leads'[i]
  BY LeadsGrow
<1>2. ASSUME NEW i \in Server, NEW j \in Server
      PROVE  leads[i] <= 1 /\ (leads[i] = 1 /\ leads[j] = 1 => i = j)
  <2>1. leads'[i] <= 1 /\ leads'[j] <= 1 /\ (leads'[i] = 1 /\ leads'[j] = 1 => i = j)
    BY DEF FirstLeader
  <2> QED BY <1>1, <2>1
<1> QED BY <1>2 DEF FirstLeader

\* The first leader finds all logs empty.
LEMMA FirstElected ==
    ASSUME Fits, FirstLeader', NEW i \in Server, NEW Q \in SUBSET (Server \ {i}), Elected(i, Q)
    PROVE  Written'
<1>1. /\ leads \in [Server -> Nat] /\ LeadersCount /\ log \in [Server -> Seq(Nat)]
      /\ ElectionFits
  BY DEF Fits, Written
<1>2. leads' = [leads EXCEPT ![i] = leads[i] + 1] /\ log' = log /\ unsent' = unsent /\ msgs' = msgs
  BY Zenon DEF Elected, Round, net
<1>3. WonStep(i)
  BY <1>1, ElectedStep
<1>4. leads' \in [Server -> Nat] /\ leads'[i] = leads[i] + 1
  BY <1>1, <1>2
<1>5. \A j \in Server : leads[j] = 0
  <2>1. leads[i] = 0 /\ leads'[i] = 1
    BY <1>1, <1>4 DEF FirstLeader
  <2>2. ASSUME NEW j \in Server \ {i}
        PROVE  leads[j] = 0
    <3>1. leads'[j] = leads[j] /\ leads[j] \in Nat
      BY <1>1, <1>2
    <3>2. leads'[j] <= 1 /\ leads'[j] # 1
      BY <2>1 DEF FirstLeader
    <3> QED BY <3>1, <3>2
  <2> QED BY <2>1, <2>2
<1>6. unsent = {} /\ msgs = {} /\ \A j \in Server : log[j] = <<>> /\ ~Leads(j)
  <2>1. \A j \in Server : ~Leads(j)
    BY <1>1, <1>5 DEF LeadersCount
  <2> QED BY <1>1, <1>5, <2>1 DEF LeadersCount
<1>7. \A j \in Server : Leads(j)' => j = i
  BY <1>3, <1>6 DEF WonStep, VotedIn, LeadOn
<1>8. LeadersCount'
  <2>1. leads'[i] > 0
    BY <1>1, <1>4
  <2> QED BY <1>7, <2>1 DEF LeadersCount
<1>9. \E t \in Nat : AllOf(t)'
  <2>1. PICK t \in Nat : t = term'[i]
    BY <1>3 DEF WonStep, TermStep, ElectTypes
  <2>2. \A j \in Server : Leads(j)' => term'[j] = t
    BY <1>7, <2>1
  <2>3. \A j \in Server : \A k \in 1..Len(log'[j]) : log'[j][k] = t
    BY <1>2, <1>6
  <2>4. unsent' \cup msgs' = {}
    BY <1>2, <1>6
  <2> QED BY <2>2, <2>3, <2>4 DEF AllOf
<1> QED BY <1>1, <1>2, <1>4, <1>8, <1>9 DEF Written

\* Before an election nothing is written or sent.
LEMMA NothingBefore ==
    ASSUME LeadersCount, [Next]_vars, \A i \in Server : leads[i] = 0
    PROVE  log' = log /\ unsent' = unsent /\ msgs' = msgs
<1>1. unsent = {} /\ msgs = {} /\ \A i \in Server : ~Leads(i)
  BY DEF LeadersCount
<1>2. CASE UNCHANGED vars
  BY <1>2 DEF vars, net
<1>3. ASSUME NEW i \in Server, NEW Q \in SUBSET (Server \ {i}),
             Elected(i, Q) \/ Undecided(i, Q) \/ \E j \in Q : Deposed(i, Q, j)
      PROVE  log' = log /\ unsent' = unsent /\ msgs' = msgs
  <2>1. \E t, v, s : Round(i, Q, t, v, s)
    BY <1>3, Zenon DEF Elected, Undecided, Deposed
  <2> QED BY <2>1 DEF Round, net
<1>4. ASSUME NEW i \in Server, Apply(i)
      PROVE  log' = log /\ unsent' = unsent /\ msgs' = msgs
  BY <1>4 DEF Apply, net
<1>5. ASSUME NEW i \in Server, \/ Start(i) \/ \E N \in 1..Len(log[i]) : Commit(i, N)
                               \/ \E j \in Server : Heartbeat(i, j) \/ SendEntries(i, j)
      PROVE  FALSE
  BY <1>1, <1>5 DEF Start, Commit, Heartbeat, SendEntries, MayCall, Leads
<1> QED BY <1>1, <1>2, <1>3, <1>4, <1>5 DEF Next

\* What may be sent, where all entries are of term t.
OfTerm(m, t) == m \in Requests => \A k \in 1..Len(m.entries) : m.entries[k] = t

LEMMA SentTerms ==
    ASSUME Fits, NEW i \in Server, NEW j \in Server, NEW t \in Nat, AllOf(t),
           Heartbeat(i, j) \/ SendEntries(i, j)
    PROVE  \A m \in unsent' \cup msgs' : m \in unsent \cup msgs \/ OfTerm(m, t)
<1>1. CASE Heartbeat(i, j)
  <2>1. PICK r : r = Request(i, j, "heartbeat", <<>>)
    OBVIOUS
  <2>2. unsent' = unsent /\ msgs' = msgs \cup {r}
    BY <1>1, <2>1 DEF Heartbeat
  <2>3. r.entries = <<>>
    BY <2>1 DEF Request
  <2> QED BY <2>2, <2>3 DEF OfTerm
<1>2. CASE SendEntries(i, j)
  <2>1. PICK e : e = SubSeq(log[i], nextIndex[i][j], Len(log[i]))
    OBVIOUS
  <2>2. PICK r : r = Request(i, j, "entries", e)
    OBVIOUS
  <2>3. msgs' = msgs /\ unsent' = unsent \cup {r}
    BY <1>2, <2>1, <2>2 DEF SendEntries
  <2>4. r.entries = e
    BY <2>2 DEF Request
  <2>5. log[i] \in Seq(Nat) /\ Len(log[i]) \in Nat
    BY DEF Fits, Written
  <2>6. PICK n \in Nat, a \in Nat : n = nextIndex[i][j] /\ a = Len(log[i]) /\ n \in 1..a + 1
    <3>1. NextFits(i, j, nextIndex[i][j]) /\ nextIndex[i][j] \in Nat
      BY DEF Fits, IndexFits
    <3> QED BY <2>5, <3>1, Zenon DEF NextFits
  <2>7. \A k \in 1..Len(e) : e[k] = log[i][n - 1 + k] /\ n - 1 + k \in 1..Len(log[i])
    <3>1. e = SubSeq(log[i], n, a)
      BY <2>1, <2>6
    <3> QED BY <2>5, <2>6, <3>1, CutIsSeq, Zenon
  <2>8. \A k \in 1..Len(e) : e[k] = t
    BY <2>7 DEF AllOf
  <2> QED BY <2>3, <2>4, <2>8 DEF OfTerm
<1> QED BY <1>1, <1>2

LEMMA EncodedTerms ==
    ASSUME Fits, NEW m \in unsent, NEW torn, NEW t \in Nat, AllOf(t), Encode(m, torn)
    PROVE  \A x \in unsent' \cup msgs' : x \in unsent \cup msgs \/ OfTerm(x, t)
<1>1. /\ m \in Requests /\ m.entries \in Seq(Nat) /\ m.prev \in Nat /\ m.src \in Server
      /\ log[m.src] \in Seq(Nat)
  <2>1. m \in Requests
    BY DEF Fits, NetFits, RequestFits
  <2> QED BY <2>1 DEF Requests, Fits, Written
<1>2. PICK e : e = [k \in 1..Len(m.entries) |-> IF k \in torn /\ m.prev + k <= Len(log[m.src])
                                                  THEN log[m.src][m.prev + k] ELSE m.entries[k]]
  OBVIOUS
<1>3. PICK r : r = [m EXCEPT !.entries = e]
  OBVIOUS
<1>4. unsent' = unsent \ {m} /\ msgs' = msgs \cup {r}
  BY <1>2, <1>3 DEF Encode
<1>5. r.entries = e
  BY <1>1, <1>3 DEF Requests
<1>6. PICK n \in Nat, a \in Nat, p \in Nat :
         n = Len(m.entries) /\ a = Len(log[m.src]) /\ p = m.prev
  <2>1. Len(m.entries) \in Nat /\ Len(log[m.src]) \in Nat
    BY <1>1
  <2> QED BY <1>1, <2>1
<1>7. Len(e) = n
  <2>1. DOMAIN e = 1..n
    BY <1>2, <1>6
  <2> QED BY <2>1
<1>8. ASSUME NEW k \in 1..n
      PROVE  e[k] = t
  <2>1. m.entries[k] = t
    BY <1>1, <1>6 DEF AllOf
  <2>2. ASSUME p + k <= a
        PROVE  log[m.src][p + k] = t
    <3>1. p + k \in 1..a
      BY <2>2
    <3> QED BY <1>1, <1>6, <3>1 DEF AllOf
  <2> QED BY <1>2, <1>6, <2>1, <2>2
<1> QED BY <1>4, <1>5, <1>7, <1>8 DEF OfTerm

\* Replies are no requests.
LEMMA RepliedTerms ==
    ASSUME NEW m \in msgs, NEW j, NEW t, NEW ok, Reply(j, m, t, ok), NEW x
    PROVE  \A r \in msgs' : r \in msgs \/ OfTerm(r, x)
<1>1. PICK kind : kind = IF m.kind = "heartbeat" THEN "heartbeatReply" ELSE "entriesReply"
  OBVIOUS
<1>2. PICK r : r = [kind |-> kind, src |-> j, dest |-> m.src, lead |-> m.lead, term |-> t,
                    success |-> ok, next |-> m.prev + Len(m.entries) + 1]
  OBVIOUS
<1>3. msgs' = (msgs \ {m}) \cup {r}
  BY <1>1, <1>2 DEF Reply
<1>4. r.kind \in {"heartbeatReply", "entriesReply"}
  BY <1>1, <1>2
<1>5. r \notin Requests
  BY <1>4 DEF Requests
<1> QED BY <1>3, <1>5 DEF OfTerm

\* All that is sent is of term t.
LEMMA NetTerms ==
    ASSUME Fits, [Next]_vars, NEW t \in Nat, AllOf(t)
    PROVE  \A m \in unsent' \cup msgs' : OfTerm(m, t)
<1>0. \A m \in unsent \cup msgs : OfTerm(m, t)
  BY DEF AllOf, OfTerm
<1> SUFFICES \A m \in unsent' \cup msgs' : m \in unsent \cup msgs \/ OfTerm(m, t)
  BY <1>0
<1>1. CASE UNCHANGED vars
  BY <1>1 DEF vars, net
<1>2. ASSUME NEW i \in Server, NEW Q \in SUBSET (Server \ {i}),
             Elected(i, Q) \/ Undecided(i, Q) \/ \E j \in Q : Deposed(i, Q, j)
      PROVE  unsent' = unsent /\ msgs' = msgs
  <2>1. \E a, v, s : Round(i, Q, a, v, s)
    BY <1>2, Zenon DEF Elected, Undecided, Deposed
  <2> QED BY <2>1 DEF Round, net
<1>3. ASSUME NEW i \in Server, Start(i) \/ Apply(i) \/ \E N \in 1..Len(log[i]) : Commit(i, N)
      PROVE  unsent' = unsent /\ msgs' = msgs
  BY <1>3 DEF Start, Apply, Commit, net
<1>4. ASSUME NEW m \in msgs, ReceiveReply(m.dest, m) \/ Lose(m)
      PROVE  unsent' = unsent /\ msgs' = msgs \ {m}
  BY <1>4 DEF ReceiveReply, Lose
<1>5. ASSUME NEW m \in msgs,
             Refuse(m.dest, m) \/ AcceptHeartbeat(m.dest, m) \/ AcceptEntries(m.dest, m)
      PROVE  unsent' = unsent /\ \A r \in msgs' : r \in msgs \/ OfTerm(r, t)
  <2>1. \E a, ok : Reply(m.dest, m, a, ok)
    BY <1>5, Zenon DEF Refuse, AcceptHeartbeat, AcceptEntries
  <2>2. unsent' = unsent
    BY <1>5 DEF Refuse, AcceptHeartbeat, AcceptEntries
  <2> QED BY <2>1, <2>2, RepliedTerms
<1> QED
  BY <1>1, <1>2, <1>3, <1>4, <1>5, SentTerms, EncodedTerms DEF Next

\* All that is written is of term t.
LEMMA LogTerms ==
    ASSUME Fits, [Next]_vars, NEW t \in Nat, AllOf(t), NEW j \in Server, NEW k \in 1..Len(log'[j])
    PROVE  log'[j][k] = t
<1>1. log \in [Server -> Seq(Nat)] /\ \A i \in Server : \A x \in 1..Len(log[i]) : log[i][x] = t
  BY DEF Fits, Written, AllOf
<1>2. CASE log' = log
  BY <1>1, <1>2
<1>3. ASSUME NEW i \in Server, Start(i)
      PROVE  log'[j][k] = t
  <2>1. term[i] = t /\ log' = [log EXCEPT ![i] = Append(log[i], term[i])]
    BY <1>3 DEF Start, AllOf, Leads
  <2>2. CASE j # i
    BY <1>1, <2>1, <2>2
  <2>3. CASE j = i
    <3>1. PICK l \in Seq(Nat), a \in Nat : l = log[i] /\ a = Len(l)
      BY <1>1
    <3>2. log'[j] = Append(l, t)
      BY <1>1, <2>1, <2>3, <3>1
    <3>3. k \in 1..a + 1
      BY <3>1, <3>2
    <3>4. CASE k = a + 1
      BY <3>1, <3>2, <3>4
    <3>5. CASE k # a + 1
      <4>1. k \in 1..a
        BY <3>3, <3>5
      <4>2. log'[j][k] = l[k]
        BY <3>1, <3>2, <4>1
      <4> QED BY <1>1, <3>1, <4>1, <4>2
    <3> QED BY <3>4, <3>5
  <2> QED BY <2>2, <2>3
<1>4. ASSUME NEW m \in msgs, AcceptEntries(m.dest, m)
      PROVE  log'[j][k] = t
  <2>1. /\ m.entries # <<>> /\ m.prev <= Len(log[m.dest])
        /\ log' = [log EXCEPT ![m.dest] = Merged(log[m.dest], m)]
    BY <1>4 DEF AcceptEntries, Matches
  <2>2. m \in Requests
    <3>1. ~ReplyFits(m)
      BY <1>4 DEF AcceptEntries, IsCall, ReplyFits, Replies
    <3> QED BY <3>1 DEF Fits, NetFits, RequestFits
  <2>3. m.dest \in Server /\ \A x \in 1..Len(m.entries) : m.entries[x] = t
    BY <2>2 DEF AllOf, Requests
  <2>4. \A x \in 1..Len(Merged(log[m.dest], m)) : Merged(log[m.dest], m)[x] = t
    <3>1. log[m.dest] \in Seq(Nat) /\ \A x \in 1..Len(log[m.dest]) : log[m.dest][x] = t
      BY <1>1, <2>3
    <3> QED BY <2>1, <2>2, <2>3, <3>1, MergedFits
  <2>5. CASE j = m.dest
    BY <1>1, <2>1, <2>3, <2>4, <2>5
  <2>6. CASE j # m.dest
    BY <1>1, <2>1, <2>6
  <2> QED BY <2>5, <2>6
<1>5. ASSUME NEW i \in Server, NEW Q \in SUBSET (Server \ {i}),
             Elected(i, Q) \/ Undecided(i, Q) \/ \E q \in Q : Deposed(i, Q, q)
      PROVE  log' = log
  <2>1. \E a, v, s : Round(i, Q, a, v, s)
    BY <1>5, Zenon DEF Elected, Undecided, Deposed
  <2> QED BY <2>1 DEF Round
<1>6. CASE UNCHANGED vars
  BY <1>2, <1>6 DEF vars
<1>7. ASSUME NEW i \in Server, NEW p \in Server,
             Apply(i) \/ Heartbeat(i, p) \/ SendEntries(i, p)
             \/ \E N \in 1..Len(log[i]) : Commit(i, N)
      PROVE  log' = log
  BY <1>7, Zenon DEF Apply, Heartbeat, SendEntries, Commit
<1>8. ASSUME NEW m, NEW torn, Encode(m, torn)
      PROVE  log' = log
  BY <1>8, Zenon DEF Encode
<1>9. ASSUME NEW m \in msgs, ReceiveReply(m.dest, m) \/ Lose(m) \/ Refuse(m.dest, m)
                              \/ AcceptHeartbeat(m.dest, m)
      PROVE  log' = log
  BY <1>9, Zenon DEF ReceiveReply, Lose, Refuse, AcceptHeartbeat
<1> QED BY <1>2, <1>3, <1>4, <1>5, <1>6, <1>7, <1>8, <1>9 DEF Next

LEMMA WrittenStays ==
    ASSUME Fits, [Next]_vars, FirstLeader'
    PROVE  Written'
<1>1. CASE \E i \in Server : \E Q \in SUBSET (Server \ {i}) : Elected(i, Q)
  BY <1>1, FirstElected
<1>2. CASE \A i \in Server : \A Q \in SUBSET (Server \ {i}) : ~Elected(i, Q)
  <2>1. /\ ElectionFits /\ LeadersCount /\ leads \in [Server -> Nat]
        /\ leads' = leads
    BY <1>2, LeadsStand DEF Fits, Written
  <2>2. LeadOn(Server)
    BY <1>2, <2>1, NextStep DEF QuietStep
  <2>3. PICK t \in Nat : AllOf(t)
    BY DEF Fits, Written
  <2>4. AllOf(t)'
    <3>1. \A i \in Server : Leads(i)' => term'[i] = t
      BY <2>2, <2>3 DEF LeadOn, AllOf
    <3>2. \A m \in unsent' \cup msgs' : OfTerm(m, t)
      BY <2>3, NetTerms
    <3> QED BY <2>3, <3>1, <3>2, LogTerms DEF AllOf, OfTerm
  <2>5. LeadersCount'
    <3>1. \A i \in Server : Leads(i)' => leads'[i] > 0
      BY <2>1, <2>2 DEF LeadersCount, LeadOn
    <3>2. ASSUME \A i \in Server : leads'[i] = 0
          PROVE  unsent' = {} /\ msgs' = {} /\ \A i \in Server : log'[i] = <<>>
      <4>1. \A i \in Server : leads[i] = 0
        BY <2>1, <3>2
      <4>2. log' = log /\ unsent' = unsent /\ msgs' = msgs
        BY <2>1, <4>1, NothingBefore
      <4> QED BY <2>1, <4>1, <4>2 DEF LeadersCount
    <3> QED BY <3>1, <3>2 DEF LeadersCount
  <2>6. log' \in [Server -> Seq(Nat)]
    BY NextLogs DEF LogStep, Grows
  <2> QED BY <2>1, <2>4, <2>5, <2>6 DEF Written
<1> QED BY <1>1, <1>2

LEMMA BoundStands ==
    ASSUME [Next]_vars
    PROVE  bound' = bound
<1>1. CASE UNCHANGED vars
  BY <1>1, Zenon DEF vars
<1>2. ASSUME NEW i \in Server, NEW Q \in SUBSET (Server \ {i}),
             Elected(i, Q) \/ Undecided(i, Q) \/ \E q \in Q : Deposed(i, Q, q)
      PROVE  bound' = bound
  <2>1. \E a, v, s : Round(i, Q, a, v, s)
    BY <1>2, Zenon DEF Elected, Undecided, Deposed
  <2> QED BY <2>1 DEF Round
<1>3. ASSUME NEW i \in Server, NEW p \in Server,
             Start(i) \/ Apply(i) \/ Heartbeat(i, p) \/ SendEntries(i, p)
             \/ \E N \in 1..Len(log[i]) : Commit(i, N)
      PROVE  bound' = bound
  BY <1>3, Zenon DEF Start, Apply, Heartbeat, SendEntries, Commit
<1>4. ASSUME NEW m, NEW torn, Encode(m, torn)
      PROVE  bound' = bound
  BY <1>4, Zenon DEF Encode
<1>5. ASSUME NEW m \in msgs, ReceiveReply(m.dest, m) \/ Lose(m) \/ Refuse(m.dest, m)
                              \/ AcceptHeartbeat(m.dest, m) \/ AcceptEntries(m.dest, m)
      PROVE  bound' = bound
  BY <1>5, Zenon DEF ReceiveReply, Lose, Refuse, AcceptHeartbeat, AcceptEntries
<1> QED BY <1>1, <1>2, <1>3, <1>4, <1>5 DEF Next

LEMMA FitsStays ==
    ASSUME Fits, [Next]_vars, FirstLeader'
    PROVE  Fits'
<1>1. ElectionFits'
  BY NextStep, LeadersStayAlone DEF Fits
<1>2. Written' /\ NetFits' /\ IndexFits' /\ CommitsFit'
  BY WrittenStays, NextLogs DEF LogStep
<1>3. bound' = bound
  BY BoundStands
<1> QED BY <1>1, <1>2, <1>3 DEF Fits


-----------------------------------------------------------------------------
(* What the invariant says of the properties. *)

LEMMA FitsAtFirst ==
    ASSUME Init
    PROVE  Fits
<1>1. /\ term = [i \in Server |-> 0] /\ votedFor = [i \in Server |-> NoOne]
      /\ state = [i \in Server |-> "Follower"] /\ log = [i \in Server |-> <<>>]
      /\ nextIndex = [i \in Server |-> [j \in Server |-> 1]]
      /\ matchIndex = [i \in Server |-> [j \in Server |-> 0]]
      /\ commitIndex = [i \in Server |-> 0] /\ lastApplied = [i \in Server |-> 0]
      /\ msgs = {} /\ unsent = {} /\ leads = [i \in Server |-> 0] /\ bound \in Bounds
  BY Zenon DEF Init
<1>2. ElectionFits
  BY <1>1, ElectionFitsAtFirst
<1>3. \A i \in Server : ~Leads(i)
  BY <1>1 DEF Leads
<1>4. Written
  <2>1. AllOf(0)
    BY <1>1, <1>3 DEF AllOf
  <2>2. log \in [Server -> Seq(Nat)] /\ leads \in [Server -> Nat]
    BY <1>1
  <2>3. LeadersCount
    BY <1>1, <1>3 DEF LeadersCount
  <2> QED BY <2>1, <2>2, <2>3 DEF Written
<1>5. NetFits
  BY <1>1 DEF NetFits
<1>6. \A i \in Server : Len(log[i]) = 0
  BY <1>1
<1>7. IndexFits
  BY <1>1, <1>6 DEF IndexFits, NextFits, MatchFits
<1>8. CommitsFit
  BY <1>1, <1>6 DEF CommitsFit, CommitFits, Held
<1> QED BY <1>1, <1>2, <1>4, <1>5, <1>7, <1>8 DEF Fits

LEMMA FitsTypes ==
    ASSUME Fits
    PROVE  TypeOK
<1>1. /\ leads \in [Server -> Nat] /\ log \in [Server -> Seq(Nat)] /\ bound \in Bounds
      /\ {nextIndex, matchIndex} \subseteq [Server -> [Server -> Nat]]
      /\ {commitIndex, lastApplied} \subseteq [Server -> Nat]
  BY DEF Fits, Written, IndexFits, CommitsFit
<1>2. /\ term \in [Server -> Nat] /\ votedFor \in [Server -> Server \cup {NoOne}]
      /\ state \in [Server -> {"Follower", "Candidate", "Leader"}]
  BY DEF Fits, ElectionFits, ElectTypes
<1>3. unsent \subseteq Requests /\ msgs \subseteq Requests \cup Replies
  BY DEF Fits, NetFits, RequestFits, ReplyFits
<1>4. ASSUME NEW i \in Server
      PROVE  {lastApplied[i], commitIndex[i]} \subseteq 0..Len(log[i])
  <2>1. /\ lastApplied[i] \in Nat /\ lastApplied[i] <= Len(log[i]) /\ Len(log[i]) \in Nat
        /\ commitIndex[i] \in 0..Len(log[i])
    BY <1>1 DEF Fits, CommitsFit, CommitFits
  <2> QED BY <2>1
<1> QED BY <1>1, <1>2, <1>3, <1>4 DEF TypeOK

\* Logs of one term that reach index n begin alike.
LEMMA BeginAlike ==
    ASSUME log \in [Server -> Seq(Nat)], NEW t \in Nat, AllOf(t),
           NEW i \in Server, NEW j \in Server,
           NEW n \in Nat, n <= Len(log[i]), n <= Len(log[j])
    PROVE  SubSeq(log[j], 1, n) = SubSeq(log[i], 1, n)
<1>1. /\ Len(log[i]) \in Nat /\ Len(log[j]) \in Nat
      /\ log[i] \in Seq(Nat) /\ log[j] \in Seq(Nat)
  OBVIOUS
<1>2. \A k \in 1..n : k \in 1..Len(log[i]) /\ k \in 1..Len(log[j])
  BY <1>1
<1>3. \A k \in 1..n : log[i][k] = t /\ log[j][k] = t
  BY <1>2 DEF AllOf
<1>4. /\ SubSeq(log[i], 1, n) = [k \in 1..n |-> log[i][k]]
      /\ SubSeq(log[j], 1, n) = [k \in 1..n |-> log[j][k]]
  BY <1>1
<1> QED BY <1>3, <1>4

LEMMA FitsMatch ==
    ASSUME Fits
    PROVE  MatchIndexTrue
<1>1. TypeOK
  BY FitsTypes
<1>2. log \in [Server -> Seq(Nat)] /\ \E t \in Nat : AllOf(t)
  BY DEF Fits, Written
<1>3. ASSUME NEW i \in Server, NEW j \in Server
      PROVE  /\ matchIndex[i][j] <= Len(log[j])
             /\ SubSeq(log[j], 1, matchIndex[i][j]) = SubSeq(log[i], 1, matchIndex[i][j])
  <2>1. MatchFits(i, j, matchIndex[i][j])
    BY DEF Fits, IndexFits
  <2>2. PICK n : n = matchIndex[i][j]
    OBVIOUS
  <2>3. Len(log[i]) \in Nat
    BY <1>2
  <2>4. n \in Nat /\ n <= Len(log[i]) /\ n <= Len(log[j])
    BY <2>1, <2>2, <2>3 DEF MatchFits
  <2>5. SubSeq(log[j], 1, n) = SubSeq(log[i], 1, n)
    BY <1>2, <2>4, BeginAlike
  <2> QED BY <2>2, <2>4, <2>5
<1> QED BY <1>1, <1>3 DEF MatchIndexTrue

LEMMA MajorityNatural == Majority \in Nat
<1>1. Cardinality(Server) \in Nat
  BY ServerAssumption, FS_CardinalityType
<1> QED BY <1>1 DEF Majority

\* The servers whose logs begin with these entries.
Holders(known) ==
    {j \in Server : Len(known) <= Len(log[j]) /\ SubSeq(log[j], 1, Len(known)) = known}

LEMMA HoldersCount ==
    ASSUME Fits, NEW i \in Server, NEW n \in Nat, n > 0, n = commitIndex[i]
    PROVE  Cardinality(Holders(SubSeq(log[i], 1, n))) >= Majority
<1>1. log \in [Server -> Seq(Nat)] /\ \E t \in Nat : AllOf(t)
  BY DEF Fits, Written
<1>2. n <= Len(log[i]) /\ Held(n)
  <2>1. CommitFits(i, n) /\ Len(log[i]) \in Nat
    BY <1>1 DEF Fits, CommitsFit
  <2> QED BY <2>1 DEF CommitFits
<1>3. PICK known : known = SubSeq(log[i], 1, n)
  OBVIOUS
<1>4. Len(known) = n
  BY <1>1, <1>2, <1>3
<1>5. PICK Q \in Quorums : \A j \in Q : n <= Len(log[j])
  BY <1>2 DEF Held
<1>6. Q \subseteq Holders(known)
  <2>1. Q \subseteq Server
    BY DEF Quorums
  <2>2. \A j \in Q : n <= Len(log[j]) /\ SubSeq(log[j], 1, n) = known
    BY <1>1, <1>2, <1>3, <1>5, <2>1, BeginAlike
  <2> QED BY <1>4, <2>1, <2>2 DEF Holders
<1>7. /\ Cardinality(Q) <= Cardinality(Holders(known)) /\ Cardinality(Q) >= Majority
      /\ Cardinality(Q) \in Nat /\ Cardinality(Holders(known)) \in Nat /\ Majority \in Nat
  <2>1. IsFiniteSet(Holders(known))
    BY ServerAssumption, FS_Subset DEF Holders
  <2> QED BY <1>6, <2>1, FS_Subset, FS_CardinalityType, MajorityNatural DEF Quorums
<1>8. Cardinality(Holders(known)) >= Majority
  BY <1>7
<1> QED BY <1>3, <1>8

LEMMA FitsHeld ==
    ASSUME Fits
    PROVE  CommittedHeld
<1>1. ASSUME NEW i \in Server, commitIndex[i] > 0
      PROVE  Cardinality(Holders(SubSeq(log[i], 1, commitIndex[i]))) >= Majority
  <2>1. PICK n \in Nat : n = commitIndex[i]
    BY DEF Fits, CommitsFit
  <2> QED BY <1>1, <2>1, HoldersCount
<1> QED BY <1>1 DEF CommittedHeld, Holders

\* What holds at every step, whoever is elected how often.
OnceFits == leads \in [Server -> Nat] /\ (FirstLeader => Fits)

\* Of the first version of the server: until a second election is won, all entries are of one
\* term, logs only grow, and nothing a call, a reply or an index says of a log ends behind it.
THEOREM FirstLeaderInvariant == Spec => []OnceFits
<1>1. Init => OnceFits
  BY FitsAtFirst DEF OnceFits, Fits, Written
<1>2. OnceFits /\ [Next]_vars => OnceFits'
  <2> SUFFICES ASSUME OnceFits, [Next]_vars
               PROVE  OnceFits'
    OBVIOUS
  <2>1. leads' \in [Server -> Nat]
    BY LeadsGrow DEF OnceFits
  <2>2. ASSUME FirstLeader'
        PROVE  Fits'
    BY <2>2, FirstBefore, FitsStays DEF OnceFits
  <2> QED BY <2>1, <2>2 DEF OnceFits
<1> QED BY <1>1, <1>2, PTL DEF Spec

\* Heartbeats and entries of the first leader go out side by side and a heartbeat's reply sets
\* matchIndex from the nextIndex of now (raft.go): until a second election is won the variables
\* are well-typed all the same and what matchIndex counts is there, whatever calls overtake.
THEOREM MatchesAreTrue == Spec => [](FirstLeader => MatchIndexTrue)
<1>1. OnceFits => (FirstLeader => MatchIndexTrue)
  BY FitsMatch DEF OnceFits
<1> QED BY <1>1, FirstLeaderInvariant, PTL

\* An index that some server holds for committed is, with the same entries before it, in the
\* logs of a majority, although the leader's own matchIndex is never set and a follower takes
\* its commit index from calls of any age: until a second election is won.
THEOREM CommittedIsHeld == Spec => [](FirstLeader => CommittedHeld)
<1>1. OnceFits => (FirstLeader => CommittedHeld)
  BY FitsHeld DEF OnceFits
<1> QED BY <1>1, FirstLeaderInvariant, PTL

=============================================================================
