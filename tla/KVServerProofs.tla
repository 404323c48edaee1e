--------------------------- MODULE KVServerProofs ---------------------------
(***************************************************************************)
(* Proofs about what runs over the server of KVServer, for any number of   *)
(* clients and every bound: the history of the Puts (KVClients), and the   *)
(* lock (Lock).                                                            *)
(***************************************************************************)
EXTENDS KVClients, Lock, SequenceTheorems, TLAPS

-----------------------------------------------------------------------------
(* The types of KVServer, which both build on. *)

\* The idle call and the absent key are of their types.
LEMMA IdleType ==
    Idle \in Call /\ Absent \in [value : Value, version : Nat]
<1>1. (CHOOSE k \in Key : TRUE) \in Key
  BY KVAssumption
<1> QED BY <1>1, KVAssumption DEF Idle, Call, Err, Absent

\* Starting a Get keeps the types.
LEMMA GetType ==
    ASSUME KVTypeOK, NEW c \in Client, NEW k \in Key, Get(c, k)
    PROVE  KVTypeOK'
<1>1. [Idle EXCEPT !.at = "request", !.key = k] \in Call
  BY IdleType DEF Call
<1> QED BY <1>1 DEF KVTypeOK, Get

\* Starting a Put keeps the types.
LEMMA PutType ==
    ASSUME KVTypeOK, NEW c \in Client, NEW k \in Key, NEW x \in Value, NEW v \in Nat,
           NEW id \in Nat, Put(c, id, k, x, v)
    PROVE  KVTypeOK'
<1>1. [at |-> "request", op |-> "Put", id |-> id, key |-> k, value |-> x, version |-> v,
       retried |-> FALSE, err |-> "OK"] \in Call
  BY DEF Call, Err
<1> QED BY <1>1 DEF KVTypeOK, Put

\* Storing a value of a Put keeps the map's type.
LEMMA StoreType ==
    ASSUME KVTypeOK, NEW a, a.key \in Key, a.value \in Value, Store(a)
    PROVE  mp' \in [Key -> [value : Value, version : Nat]]
BY DEF KVTypeOK, Store

\* The fields of a call and of what it returned are of their types.
LEMMA CallFields ==
    ASSUME KVTypeOK, NEW c \in Client
    PROVE  /\ call[c].at \in {"none", "request", "reply"}
           /\ call[c].op \in {"Get", "Put"} /\ call[c].id \in Nat
           /\ call[c].key \in Key /\ call[c].value \in Value /\ call[c].version \in Nat
           /\ call[c].retried \in BOOLEAN /\ call[c].err \in Err
           /\ ret[c].err \in Err /\ ret[c].value \in Value /\ ret[c].version \in Nat
BY DEF KVTypeOK, Call, Return

\* A step of the server, of the clerk or of a delayed request keeps the types.
LEMMA KVStepType ==
    ASSUME KVTypeOK, KVStep
    PROVE  KVTypeOK'
<1>1. ASSUME NEW c \in Client, ServeGet(c)
      PROVE  KVTypeOK'
  <2>1. mp[call[c].key].value \in Value /\ mp[call[c].key].version \in Nat
    BY CallFields DEF KVTypeOK
  <2> DEFINE e == mp[call[c].key]
  <2>2. call' = [call EXCEPT ![c] = [call[c] EXCEPT
                   !.at = "reply", !.value = e.value, !.version = e.version,
                   !.err = IF e = Absent THEN "ErrNoKey" ELSE "OK"]]
    BY <1>1 DEF ServeGet, KVTypeOK
  <2>3. call[c] \in Call
    BY DEF KVTypeOK
  <2> HIDE DEF e
  <2>4. [call[c] EXCEPT !.at = "reply", !.value = e.value, !.version = e.version,
                        !.err = IF e = Absent THEN "ErrNoKey" ELSE "OK"] \in Call
    BY <2>1, <2>3 DEF Call, Err, e
  <2>5. call' \in [Client -> Call]
    BY <2>2, <2>4 DEF KVTypeOK
  <2> QED BY <1>1, <2>5 DEF ServeGet, KVTypeOK
<1>2. ASSUME NEW c \in Client, ServePut(c)
      PROVE  KVTypeOK'
  <2>1. mp' \in [Key -> [value : Value, version : Nat]]
    <3>1. call[c].key \in Key /\ call[c].value \in Value /\ Store(call[c])
      BY <1>2, CallFields DEF ServePut
    <3> QED BY <3>1, StoreType
  <2>2. call' \in [Client -> Call]
    <3>1. PutErr(call[c]) \in Err
      BY DEF PutErr, Err
    <3>2. [call[c] EXCEPT !.at = "reply", !.err = PutErr(call[c])] \in Call
      BY ZenonT(60), <3>1 DEF KVTypeOK, Call
    <3>3. call' = [call EXCEPT ![c] = [call[c] EXCEPT !.at = "reply", !.err = PutErr(call[c])]]
      BY <1>2 DEF ServePut, KVTypeOK
    <3> QED BY <3>2, <3>3 DEF KVTypeOK
  <2> QED BY <1>2, <2>1, <2>2 DEF ServePut, KVTypeOK
<1>3. ASSUME NEW c \in Client, Resend(c)
      PROVE  KVTypeOK'
  <2>1. ArgsOf(c) \in PutArgs
    BY CallFields DEF ArgsOf, PutArgs
  <2>2. call' \in [Client -> Call]
    <3>1. [call[c] EXCEPT !.at = "request", !.retried = TRUE] \in Call
      BY ZenonT(60) DEF KVTypeOK, Call
    <3>2. call' = [call EXCEPT ![c] = [call[c] EXCEPT !.at = "request", !.retried = TRUE]]
      BY <1>3 DEF Resend, KVTypeOK
    <3> QED BY <3>1, <3>2 DEF KVTypeOK
  <2> QED BY <1>3, <2>1, <2>2 DEF Resend, KVTypeOK
<1>4. ASSUME NEW c \in Client, ClerkReturn(c)
      PROVE  KVTypeOK'
  <2>1. [err |-> ReturnedErr(c), value |-> call[c].value, version |-> call[c].version]
          \in Return
    BY CallFields DEF ReturnedErr, Return, Err
  <2> QED BY <1>4, <2>1, IdleType DEF ClerkReturn, KVTypeOK
<1>5. ASSUME NEW a \in late, ServeLate(a)
      PROVE  KVTypeOK'
  <2>1. a.key \in Key /\ a.value \in Value
    BY DEF KVTypeOK, PutArgs
  <2>2. mp' \in [Key -> [value : Value, version : Nat]]
    BY <1>5, <2>1, StoreType DEF ServeLate
  <2> QED BY <1>5, <2>2 DEF ServeLate, KVTypeOK
<1> QED BY <1>1, <1>2, <1>3, <1>4, <1>5 DEF KVStep

-----------------------------------------------------------------------------
(* KVClients: the history of the Puts. *)

PutIds == Client \X Nat

\* The history variables have their types, and a version counts the Puts behind it.
HistoryFits ==
    /\ KVTypeOK
    /\ serial \in [Client -> Nat]
    /\ writes \in [Key -> Seq(PutIds)]
    /\ outcomes \subseteq [put : PutIds, key : Key, version : Nat, err : Err]
    /\ \A k \in Key : mp[k].version = Len(writes[k])

\* Put p is the one behind version v+1 of key k.
Wrote(p, k, v) == v < Len(writes[k]) /\ writes[k][v + 1] = p
Written(p) == \E k \in Key : \E i \in 1..Len(writes[k]) : writes[k][i] = p

\* Wherever p was written, it was version v+1 of key k.
OnlyThere(p, k, v) ==
    \A l \in Key : \A i \in 1..Len(writes[l]) : writes[l][i] = p => l = k /\ i = v + 1

Delayed(p) == \E a \in late : PutId(a) = p

Putting(c) == call[c].at # "none" /\ call[c].op = "Put"

\* A Put under way is its client's last; until it is resent there is one copy of it.
CopiesFit(c) ==
    Putting(c) =>
        LET p == <<c, call[c].id>> IN
          /\ call[c].id = serial[c]
          /\ OnlyThere(p, call[c].key, call[c].version)
          /\ ~call[c].retried => ~Delayed(p)
          /\ ~call[c].retried /\ (call[c].at = "request" \/ call[c].err # "OK") => ~Written(p)
          /\ call[c].at = "reply" /\ call[c].err = "OK" =>
                Wrote(p, call[c].key, call[c].version)

\* A delayed Put is an old one, or a copy of the one under way.
OldFits(a) ==
    /\ a.id <= serial[a.client]
    /\ OnlyThere(PutId(a), a.key, a.version)
    /\ Putting(a.client) /\ call[a.client].id = a.id => a = ArgsOf(a.client)
    /\ \A b \in late : PutId(b) = PutId(a) => b = a

WrittenFit ==
    \A k \in Key : \A i \in 1..Len(writes[k]) : writes[k][i][2] <= serial[writes[k][i][1]]

\* What a Put returned stays true: it is over, and if it failed nothing is left of it.
Settled(o) ==
    /\ o.put[2] <= serial[o.put[1]]
    /\ Putting(o.put[1]) => call[o.put[1]].id # o.put[2]
    /\ o.err = "OK" => Wrote(o.put, o.key, o.version)
    /\ o.err = "ErrVersion" => ~Written(o.put) /\ ~Delayed(o.put)

KVInv ==
    /\ HistoryFits /\ WrittenFit /\ PutAtMostOnce
    /\ \A c \in Client : CopiesFit(c)
    /\ \A a \in late : OldFits(a)
    /\ \A o \in outcomes : Settled(o)

-----------------------------------------------------------------------------
(* Types. *)

\* Executing a Put with the version of its key appends it to the key's history; executing any
\* other does nothing.
LEMMA Execution ==
    ASSUME HistoryFits, NEW a, a.key \in Key, a.version \in Nat, PutId(a) \in PutIds,
           Store(a), Record(a)
    PROVE  \/ a.version # mp[a.key].version /\ mp' = mp /\ writes' = writes
           \/ /\ a.version = mp[a.key].version
              /\ writes' = [writes EXCEPT ![a.key] = Append(@, PutId(a))]
              /\ mp' = [mp EXCEPT ![a.key] = [value |-> a.value, version |-> @.version + 1]]
<1>1. CASE a.version # mp[a.key].version
  BY <1>1 DEF Store, Record
<1>2. CASE a.version = mp[a.key].version
  <2>1. mp' = [mp EXCEPT ![a.key] = [value |-> a.value, version |-> @.version + 1]]
    BY <1>2 DEF Store
  <2>2. mp'[a.key].version = mp[a.key].version + 1 /\ mp[a.key].version \in Nat
    BY <2>1 DEF HistoryFits, KVTypeOK
  <2>3. mp' # mp
    BY <2>2
  <2> QED BY <1>2, <2>1, <2>3 DEF Record
<1> QED BY <1>1, <1>2

\* A version goes on counting the Puts behind it.
LEMMA ExecutionCounts ==
    ASSUME HistoryFits, NEW a, a.key \in Key, a.version \in Nat, PutId(a) \in PutIds,
           Store(a), Record(a)
    PROVE  /\ writes' \in [Key -> Seq(PutIds)]
           /\ \A k \in Key : mp'[k].version = Len(writes'[k])
<1>1. CASE a.version # mp[a.key].version
  BY <1>1, Execution DEF HistoryFits
<1>2. CASE a.version = mp[a.key].version
  <2>1. /\ writes' = [writes EXCEPT ![a.key] = Append(@, PutId(a))]
        /\ mp' = [mp EXCEPT ![a.key] = [value |-> a.value, version |-> @.version + 1]]
    BY <1>2, Execution
  <2>2. writes[a.key] \in Seq(PutIds)
    BY DEF HistoryFits
  <2>3. /\ Append(writes[a.key], PutId(a)) \in Seq(PutIds)
        /\ Len(Append(writes[a.key], PutId(a))) = Len(writes[a.key]) + 1
    BY <2>2, AppendProperties
  <2>4. writes' \in [Key -> Seq(PutIds)]
    BY <2>1, <2>3 DEF HistoryFits
  <2>5. ASSUME NEW k \in Key
        PROVE  mp'[k].version = Len(writes'[k])
    <3>1. CASE k = a.key
      BY <2>1, <2>3, <3>1 DEF HistoryFits, KVTypeOK
    <3>2. CASE k # a.key
      BY <2>1, <3>2 DEF HistoryFits, KVTypeOK
    <3> QED BY <3>1, <3>2
  <2> QED BY <2>4, <2>5
<1> QED BY <1>1, <1>2

LEMMA HistoryKept ==
    ASSUME HistoryFits, [ClientsNext]_clientVars
    PROVE  HistoryFits'
<1>1. CASE UNCHANGED clientVars
  BY <1>1 DEF clientVars, kvVars, HistoryFits, KVTypeOK
<1>2. ASSUME NEW c \in Client, ClientGet(c)
      PROVE  HistoryFits'
  <2>1. KVTypeOK'
    BY <1>2, GetType DEF ClientGet, HistoryFits
  <2> QED BY <1>2, <2>1 DEF ClientGet, Get, HistoryFits
<1>3. ASSUME NEW c \in Client, ClientPut(c)
      PROVE  HistoryFits'
  <2>1. serial[c] \in Nat
    BY DEF HistoryFits
  <2>2. KVTypeOK'
    BY <1>3, <2>1, PutType, KVClientsAssumption DEF ClientPut, HistoryFits
  <2> QED BY <1>3, <2>1, <2>2 DEF ClientPut, Put, HistoryFits
<1>4. ASSUME ServerStep, UNCHANGED <<serial, outcomes>>
      PROVE  HistoryFits'
  <2>1. KVTypeOK'
    BY <1>4, KVStepType DEF ServerStep, KVStep, HistoryFits
  <2>2. /\ writes' \in [Key -> Seq(PutIds)]
        /\ \A k \in Key : mp'[k].version = Len(writes'[k])
    <3>1. ASSUME NEW c \in Client, ServeGet(c), UNCHANGED writes
          PROVE  <2>2!2 /\ <2>2!1
      BY <3>1 DEF ServeGet, HistoryFits
    <3>2. ASSUME NEW c \in Client, ServePut(c), Record(ArgsOf(c))
          PROVE  <2>2!2 /\ <2>2!1
      <4>1. /\ ArgsOf(c).key \in Key /\ ArgsOf(c).version \in Nat /\ PutId(ArgsOf(c)) \in PutIds
            /\ Store(ArgsOf(c))
        BY <3>2, CallFields DEF HistoryFits, ArgsOf, PutId, PutIds, ServePut, Store
      <4> QED BY <3>2, <4>1, ExecutionCounts
    <3>3. ASSUME NEW a \in late, ServeLate(a), Record(a)
          PROVE  <2>2!2 /\ <2>2!1
      <4>1. a.key \in Key /\ a.version \in Nat /\ PutId(a) \in PutIds
        BY DEF HistoryFits, KVTypeOK, PutArgs, PutId, PutIds
      <4> QED BY <3>3, <4>1, ExecutionCounts DEF ServeLate
    <3> QED BY <1>4, <3>1, <3>2, <3>3 DEF ServerStep
  <2> QED BY <1>4, <2>1, <2>2 DEF HistoryFits
<1>5. ASSUME NEW c \in Client, ClerkStep(c), UNCHANGED <<serial, writes>>
      PROVE  HistoryFits'
  <2>1. KVTypeOK' /\ mp' = mp
    BY <1>5, KVStepType DEF ClerkStep, KVStep, HistoryFits, Resend, ClerkReturn
  <2>2. /\ <<c, call[c].id>> \in PutIds /\ call[c].key \in Key /\ call[c].version \in Nat
        /\ ReturnedErr(c) \in Err
    BY CallFields DEF HistoryFits, PutIds, ReturnedErr, Err
  <2> DEFINE o == [put |-> <<c, call[c].id>>, key |-> call[c].key, version |-> call[c].version,
                   err |-> ReturnedErr(c)]
  <2>3. o \in [put : PutIds, key : Key, version : Nat, err : Err]
    BY <2>2
  <2>4. outcomes' \subseteq outcomes \cup {o}
    BY <1>5 DEF ClerkStep
  <2> QED BY <1>5, <2>1, <2>3, <2>4 DEF HistoryFits
<1> QED BY <1>1, <1>2, <1>3, <1>4, <1>5 DEF ClientsNext

-----------------------------------------------------------------------------
(* What executing a Put does to the histories. *)

\* A live Put may be executed: wherever it has been written, it is in its own place.
Ready(a) ==
    /\ a.key \in Key /\ a.version \in Nat /\ PutId(a) \in PutIds
    /\ a.id <= serial[a.client]
    /\ OnlyThere(PutId(a), a.key, a.version)

\* The histories only grow, and only by the executed Put, in its place.
LEMMA Growth ==
    ASSUME HistoryFits, NEW a, Ready(a), Store(a), Record(a), NEW l \in Key
    PROVE  /\ \A i \in 1..Len(writes[l]) :
                i \in 1..Len(writes'[l]) /\ writes'[l][i] = writes[l][i]
           /\ \A i \in 1..Len(writes'[l]) :
                \/ i \in 1..Len(writes[l]) /\ writes'[l][i] = writes[l][i]
                \/ l = a.key /\ i = a.version + 1 /\ i = Len(writes[l]) + 1
                   /\ writes'[l][i] = PutId(a)
<1>1. a.key \in Key /\ a.version \in Nat /\ PutId(a) \in PutIds
  BY DEF Ready
<1>2. CASE a.version # mp[a.key].version
  BY <1>1, <1>2, Execution
<1>3. CASE a.version = mp[a.key].version
  <2>1. writes' = [writes EXCEPT ![a.key] = Append(@, PutId(a))]
    BY <1>1, <1>3, Execution
  <2>2. CASE l # a.key
    BY <2>1, <2>2 DEF HistoryFits
  <2>3. CASE l = a.key
    <3>1. writes[l] \in Seq(PutIds) /\ writes'[l] = Append(writes[l], PutId(a))
      BY <2>1, <2>3 DEF HistoryFits
    <3>2. /\ Len(writes'[l]) = Len(writes[l]) + 1
          /\ \A i \in 1..Len(writes[l]) : writes'[l][i] = writes[l][i]
          /\ writes'[l][Len(writes[l]) + 1] = PutId(a)
      BY <1>1, <3>1, AppendProperties
    <3>3. Len(writes[l]) \in Nat /\ a.version = Len(writes[l])
      BY <1>3, <2>3, <3>1 DEF HistoryFits
    <3> QED BY <2>3, <3>2, <3>3
  <2> QED BY <2>2, <2>3
<1> QED BY <1>2, <1>3

\* A Put whose version matches is written by being executed.
LEMMA Writing ==
    ASSUME HistoryFits, NEW a, Ready(a), Store(a), Record(a)
    PROVE  /\ a.version = mp[a.key].version => Wrote(PutId(a), a.key, a.version)'
           /\ a.version # mp[a.key].version => writes' = writes
<1>1. a.key \in Key /\ a.version \in Nat /\ PutId(a) \in PutIds
  BY DEF Ready
<1>2. CASE a.version = mp[a.key].version
  <2>1. writes' = [writes EXCEPT ![a.key] = Append(@, PutId(a))]
    BY <1>1, <1>2, Execution
  <2>2. writes[a.key] \in Seq(PutIds) /\ writes'[a.key] = Append(writes[a.key], PutId(a))
        /\ a.version = Len(writes[a.key])
    BY <1>1, <1>2, <2>1 DEF HistoryFits
  <2>3. Len(writes'[a.key]) = a.version + 1 /\ writes'[a.key][a.version + 1] = PutId(a)
    BY <1>1, <2>2, AppendProperties
  <2> QED BY <1>1, <1>2, <2>3 DEF Wrote, PutId
<1>3. CASE a.version # mp[a.key].version
  BY <1>1, <1>3, Execution
<1> QED BY <1>2, <1>3

\* What is written stays, and what is not the executed Put stays unwritten.
LEMMA WroteStays ==
    ASSUME HistoryFits, HistoryFits', NEW a, Ready(a), Store(a), Record(a), NEW p,
           NEW k \in Key, NEW v \in Nat
    PROVE  /\ Wrote(p, k, v) => Wrote(p, k, v)'
           /\ Written(p)' => Written(p) \/ p = PutId(a)
           /\ OnlyThere(p, k, v) /\ (p = PutId(a) => k = a.key /\ v = a.version)
                 => OnlyThere(p, k, v)'
<1>1. Wrote(p, k, v) => Wrote(p, k, v)'
  <2> SUFFICES ASSUME Wrote(p, k, v)
               PROVE  Wrote(p, k, v)'
    OBVIOUS
  <2>1. Len(writes[k]) \in Nat /\ Len(writes'[k]) \in Nat
    BY DEF HistoryFits
  <2>2. v + 1 \in 1..Len(writes[k]) /\ writes[k][v + 1] = p
    BY <2>1 DEF Wrote
  <2>3. v + 1 \in 1..Len(writes'[k]) /\ writes'[k][v + 1] = p
    BY <2>2, Growth
  <2> QED BY <2>1, <2>3 DEF Wrote
<1>2. Written(p)' => Written(p) \/ p = PutId(a)
  <2> SUFFICES ASSUME NEW l \in Key, NEW i \in 1..Len(writes'[l]), writes'[l][i] = p
               PROVE  Written(p) \/ p = PutId(a)
    BY DEF Written
  <2>1. (i \in 1..Len(writes[l]) /\ writes'[l][i] = writes[l][i]) \/ writes'[l][i] = PutId(a)
    BY Growth
  <2> QED BY <2>1 DEF Written
<1>3. ASSUME OnlyThere(p, k, v), p = PutId(a) => k = a.key /\ v = a.version
      PROVE  OnlyThere(p, k, v)'
  <2> SUFFICES ASSUME NEW l \in Key, NEW i \in 1..Len(writes'[l]), writes'[l][i] = p
               PROVE  l = k /\ i = v + 1
    BY DEF OnlyThere
  <2>1. CASE i \in 1..Len(writes[l]) /\ writes'[l][i] = writes[l][i]
    BY <1>3, <2>1 DEF OnlyThere
  <2>2. CASE l = a.key /\ i = a.version + 1 /\ writes'[l][i] = PutId(a)
    BY <1>3, <2>2
  <2> QED BY <2>1, <2>2, Growth
<1> QED BY <1>1, <1>2, <1>3

\* A Put that is executed where it may be written keeps the others apart.
LEMMA ExecutedOnce ==
    ASSUME HistoryFits, WrittenFit, PutAtMostOnce, NEW a, Ready(a), Store(a), Record(a),
           serial' = serial
    PROVE  WrittenFit' /\ PutAtMostOnce'
<1>1. ASSUME NEW l \in Key, NEW i \in 1..Len(writes'[l])
      PROVE  writes'[l][i][2] <= serial'[writes'[l][i][1]]
  <2>1. CASE i \in 1..Len(writes[l]) /\ writes'[l][i] = writes[l][i]
    BY <2>1 DEF WrittenFit
  <2>2. CASE writes'[l][i] = PutId(a)
    BY <2>2 DEF Ready, PutId
  <2> QED BY <2>1, <2>2, Growth
<1>2. ASSUME NEW l \in Key, NEW i \in 1..Len(writes'[l]), NEW k \in Key,
             NEW j \in 1..Len(writes'[k]), writes'[l][i] = writes'[k][j]
      PROVE  l = k /\ i = j
  <2> DEFINE Old(m, n) == n \in 1..Len(writes[m]) /\ writes'[m][n] = writes[m][n]
             New(m, n) == m = a.key /\ n = a.version + 1 /\ n = Len(writes[m]) + 1
                          /\ writes'[m][n] = PutId(a)
  <2>1. (Old(l, i) \/ New(l, i)) /\ (Old(k, j) \/ New(k, j))
    BY Growth
  <2>2. CASE Old(l, i) /\ Old(k, j)
    <3>1. i \in 1..Len(writes[l]) /\ j \in 1..Len(writes[k]) /\ writes[l][i] = writes[k][j]
      BY <1>2, <2>2
    <3> QED BY <3>1 DEF PutAtMostOnce
  <2>3. CASE New(l, i) /\ New(k, j)
    BY <2>3
  <2>4. ASSUME NEW m \in Key, NEW n, Old(m, n), writes'[m][n] = PutId(a),
               Len(writes[a.key]) = a.version
        PROVE  FALSE
    <3>1. m = a.key /\ n = a.version + 1
      BY <2>4 DEF Ready, OnlyThere
    <3> QED BY <2>4, <3>1 DEF Ready
  <2>5. ASSUME NEW m \in Key, NEW n, New(m, n)
        PROVE  Len(writes[a.key]) = a.version
    <3>1. Len(writes[m]) \in Nat
      BY DEF HistoryFits
    <3> QED BY <2>5, <3>1 DEF Ready
  <2> QED BY <1>2, <2>1, <2>2, <2>3, <2>4, <2>5
<1> QED BY <1>1, <1>2 DEF WrittenFit, PutAtMostOnce

-----------------------------------------------------------------------------
(* The invariant. *)

LEMMA KVInvInit == ClientsInit => KVInv
<1> SUFFICES ASSUME ClientsInit
             PROVE  KVInv
  OBVIOUS
<1>1. HistoryFits
  BY IdleType, KVAssumption DEF ClientsInit, KVInit, HistoryFits, KVTypeOK, Return, Err, Absent
<1>2. /\ \A k \in Key : writes[k] = <<>>
      /\ late = {} /\ outcomes = {}
      /\ \A c \in Client : call[c].at = "none"
  BY DEF ClientsInit, KVInit, Idle
<1> QED BY <1>1, <1>2 DEF KVInv, WrittenFit, PutAtMostOnce, CopiesFit, Putting

\* A step of a client that does not touch the histories and has no Put under way after it.
LEMMA QuietKeepsInv ==
    ASSUME KVInv, HistoryFits', NEW c \in Client, ~Putting(c)',
           UNCHANGED <<mp, late, serial, writes, outcomes>>,
           \A d \in Client \ {c} : call'[d] = call[d]
    PROVE  KVInv'
<1>1. ASSUME NEW d \in Client
      PROVE  (Putting(d)' => Putting(d) /\ call'[d] = call[d]) /\ CopiesFit(d)'
  <2>1. CASE d = c
    BY <2>1 DEF CopiesFit
  <2>2. CASE d # c
    <3>1. CopiesFit(d) /\ call'[d] = call[d]
      BY <2>2 DEF KVInv
    <3>2. Putting(d)' <=> Putting(d)
      BY <3>1 DEF Putting
    <3> QED BY <3>1, <3>2 DEF CopiesFit, OnlyThere, Wrote, Written, Delayed
  <2> QED BY <2>1, <2>2
<1>2. ASSUME NEW a \in late'
      PROVE  OldFits(a)'
  <2>1. OldFits(a) /\ a.client \in Client
    BY DEF KVInv, HistoryFits, KVTypeOK, PutArgs
  <2> QED BY <1>1, <2>1 DEF OldFits, OnlyThere, ArgsOf
<1>3. ASSUME NEW o \in outcomes'
      PROVE  Settled(o)'
  <2>1. Settled(o) /\ o.put[1] \in Client
    BY DEF KVInv, HistoryFits, PutIds
  <2> QED BY <1>1, <2>1 DEF Settled, Wrote, Written, Delayed
<1> QED BY <1>1, <1>2, <1>3 DEF KVInv, WrittenFit, PutAtMostOnce

\* A client that begins a Put, with a number nobody has seen yet.
LEMMA PutKeepsInv ==
    ASSUME KVInv, HistoryFits', NEW c \in Client, ClientPut(c)
    PROVE  KVInv'
<1>0. PICK n : n = serial[c] + 1
  OBVIOUS
<1> DEFINE p == <<c, n>>
<1>1. /\ UNCHANGED <<mp, late, writes, outcomes>>
      /\ \A d \in Client \ {c} : call'[d] = call[d] /\ serial'[d] = serial[d]
      /\ serial'[c] = serial[c] + 1 /\ serial[c] \in Nat
      /\ call[c].at = "none"
      /\ call'[c].id = serial'[c] /\ call'[c].retried = FALSE /\ call'[c].at = "request"
      /\ serial'[c] = n
  BY <1>0 DEF ClientPut, Put, KVInv, HistoryFits, KVTypeOK
<1>2. \A d \in Client : serial[d] \in Nat /\ serial'[d] \in Nat /\ serial[d] <= serial'[d]
  <2>1. \A d \in Client : serial[d] \in Nat
    BY DEF KVInv, HistoryFits
  <2> QED BY <1>1, <2>1
<1>3. ~Written(p)
  <2> SUFFICES ASSUME NEW k \in Key, NEW i \in 1..Len(writes[k]), writes[k][i] = p
               PROVE  FALSE
    BY DEF Written
  <2>1. writes[k][i][2] <= serial[writes[k][i][1]]
    BY DEF KVInv, WrittenFit
  <2> QED BY <1>1, <2>1
<1>4. ~Delayed(p)
  <2> SUFFICES ASSUME NEW a \in late, PutId(a) = p
               PROVE  FALSE
    BY DEF Delayed
  <2>1. a.id <= serial[a.client] /\ a.client = c /\ a.id = n
    BY DEF KVInv, OldFits, PutId
  <2> QED BY <1>1, <2>1
<1>5. ASSUME NEW d \in Client
      PROVE  CopiesFit(d)'
  <2>1. CASE d = c
    <3>1. <<c, call'[c].id>> = p
      BY <1>1
    <3>2. ~Written(p)' /\ ~Delayed(p)'
      BY <1>1, <1>3, <1>4 DEF Written, Delayed
    <3>3. ASSUME NEW k, NEW v
          PROVE  OnlyThere(p, k, v)'
      BY <3>2 DEF OnlyThere, Written
    <3> HIDE DEF p
    <3> QED BY <1>1, <2>1, <3>1, <3>2, <3>3 DEF CopiesFit
  <2>2. CASE d # c
    <3>1. CopiesFit(d)
      BY DEF KVInv
    <3>2. call'[d] = call[d] /\ serial'[d] = serial[d] /\ writes' = writes /\ late' = late
      BY <1>1, <2>2
    <3> QED BY <3>1, <3>2 DEF CopiesFit, Putting, OnlyThere, Wrote, Written, Delayed
  <2> QED BY <2>1, <2>2
<1>6. ASSUME NEW a \in late'
      PROVE  OldFits(a)'
  <2>1. OldFits(a) /\ a.client \in Client /\ a.id \in Nat
    BY <1>1 DEF KVInv, HistoryFits, KVTypeOK, PutArgs
  <2>2. (a.id <= serial[a.client])'
    BY <1>1, <1>2, <2>1 DEF OldFits
  <2>3. (Putting(a.client) /\ call[a.client].id = a.id => a = ArgsOf(a.client))'
    <3>1. CASE a.client = c
      BY <1>1, <2>1, <3>1 DEF OldFits
    <3>2. CASE a.client # c
      BY <1>1, <2>1, <3>2 DEF OldFits, Putting, ArgsOf
    <3> QED BY <3>1, <3>2
  <2> QED BY <1>1, <2>1, <2>2, <2>3 DEF OldFits, OnlyThere
<1>7. ASSUME NEW o \in outcomes'
      PROVE  Settled(o)'
  <2>1. Settled(o) /\ o.put[1] \in Client /\ o.put[2] \in Nat
    BY <1>1 DEF KVInv, HistoryFits, PutIds
  <2>2. (o.put[2] <= serial[o.put[1]])'
    BY <1>1, <1>2, <2>1 DEF Settled
  <2>3. (Putting(o.put[1]) => call[o.put[1]].id # o.put[2])'
    <3>1. CASE o.put[1] = c
      BY <1>1, <2>1, <3>1 DEF Settled
    <3>2. CASE o.put[1] # c
      BY <1>1, <2>1, <3>2 DEF Settled, Putting
    <3> QED BY <3>1, <3>2
  <2> QED BY <1>1, <2>1, <2>2, <2>3 DEF Settled, Wrote, Written, Delayed
<1>8. WrittenFit'
  <2> SUFFICES ASSUME NEW k \in Key, NEW i \in 1..Len(writes[k])
               PROVE  writes[k][i][2] <= serial'[writes[k][i][1]]
    BY <1>1 DEF WrittenFit
  <2>1. writes[k][i][2] <= serial[writes[k][i][1]]
    BY DEF KVInv, WrittenFit
  <2>2. writes[k][i] \in PutIds
    BY DEF KVInv, HistoryFits
  <2> QED BY <1>2, <2>1, <2>2 DEF PutIds
<1> QED BY <1>1, <1>5, <1>6, <1>7, <1>8 DEF KVInv, PutAtMostOnce

\* The outcomes reported before a Put is executed that none of them is about, or none that failed.
LEMMA SettledStay ==
    ASSUME KVInv, HistoryFits', NEW a, Ready(a), Store(a), Record(a), late' = late,
           serial' = serial, NEW o \in outcomes, o.err = "ErrVersion" => o.put # PutId(a),
           (Putting(o.put[1]) => call[o.put[1]].id # o.put[2])'
    PROVE  Settled(o)'
<1>1. Settled(o) /\ o.key \in Key /\ o.version \in Nat
  BY DEF KVInv, HistoryFits
<1>2. HistoryFits
  BY DEF KVInv
<1>3. (o.err = "OK" => Wrote(o.put, o.key, o.version))'
  BY <1>1, <1>2, WroteStays DEF Settled
<1>4. o.err = "ErrVersion" => ~Written(o.put)'
  BY <1>1, <1>2, WroteStays DEF Settled
<1> QED BY <1>1, <1>3, <1>4 DEF Settled, Delayed

\* The delayed Puts when one is executed: those with its number are copies of it.
LEMMA LateStay ==
    ASSUME KVInv, HistoryFits', NEW a, Ready(a), Store(a), Record(a), late' = late,
           serial' = serial, NEW b \in late,
           PutId(b) = PutId(a) => b.key = a.key /\ b.version = a.version,
           (Putting(b.client) /\ call[b.client].id = b.id => b = ArgsOf(b.client))'
    PROVE  OldFits(b)'
<1>1. OldFits(b) /\ b.key \in Key /\ b.version \in Nat /\ HistoryFits
  BY DEF KVInv, HistoryFits, KVTypeOK, PutArgs
<1>2. OnlyThere(PutId(b), b.key, b.version)'
  BY <1>1, WroteStays DEF OldFits
<1> QED BY <1>1, <1>2 DEF OldFits

\* The server executes a delayed Put.
LEMMA ServeLateKeepsKVInv ==
    ASSUME KVInv, HistoryFits', NEW a \in late, ServeLate(a), Record(a),
           UNCHANGED <<serial, outcomes>>
    PROVE  KVInv'
<1>1. /\ HistoryFits /\ WrittenFit /\ PutAtMostOnce /\ OldFits(a)
      /\ Store(a) /\ call' = call /\ late' = late
  BY DEF KVInv, ServeLate
<1>2. Ready(a)
  BY <1>1 DEF Ready, OldFits, HistoryFits, KVTypeOK, PutArgs, PutIds, PutId
<1>3. WrittenFit' /\ PutAtMostOnce'
  BY <1>1, <1>2, ExecutedOnce
<1>4. ASSUME NEW d \in Client, Putting(d)
      PROVE  CopiesFit(d)'
  <2> DEFINE p == <<d, call[d].id>>
  <2>1. /\ call[d].key \in Key /\ call[d].version \in Nat /\ CopiesFit(d)
    BY <1>1, CallFields DEF KVInv, HistoryFits
  <2>2. p = PutId(a) => Delayed(p) /\ call[d].key = a.key /\ call[d].version = a.version
    BY <1>1, <1>4 DEF OldFits, ArgsOf, Delayed, PutId
  <2>3. OnlyThere(p, call[d].key, call[d].version)'
    BY <1>1, <1>2, <1>4, <2>1, <2>2, WroteStays DEF CopiesFit
  <2>4. Wrote(p, call[d].key, call[d].version) => Wrote(p, call[d].key, call[d].version)'
    BY <1>1, <1>2, <2>1, WroteStays
  <2>5. ~Delayed(p) /\ ~Written(p) => ~Written(p)'
    BY <1>1, <1>2, <2>1, <2>2, WroteStays
  <2> QED BY <1>1, <1>4, <2>1, <2>3, <2>4, <2>5 DEF CopiesFit, Delayed, Putting
<1>5. ASSUME NEW d \in Client, ~Putting(d)
      PROVE  CopiesFit(d)'
  BY <1>1, <1>5 DEF CopiesFit, Putting
<1>6. ASSUME NEW b \in late
      PROVE  OldFits(b)'
  <2>1. OldFits(b)
    BY DEF KVInv
  <2>2. PutId(b) = PutId(a) => b = a
    BY <2>1 DEF OldFits
  <2>3. (Putting(b.client) /\ call[b.client].id = b.id => b = ArgsOf(b.client))'
    BY <1>1, <2>1 DEF OldFits, Putting, ArgsOf
  <2> QED BY <1>1, <1>2, <2>2, <2>3, LateStay
<1>7. ASSUME NEW o \in outcomes
      PROVE  Settled(o)'
  <2>1. Settled(o)
    BY DEF KVInv
  <2>2. o.err = "ErrVersion" => o.put # PutId(a)
    BY <2>1 DEF Settled, Delayed
  <2>3. (Putting(o.put[1]) => call[o.put[1]].id # o.put[2])'
    BY <1>1, <2>1 DEF Settled, Putting
  <2> QED BY <1>1, <1>2, <2>2, <2>3, SettledStay
<1> QED BY <1>1, <1>3, <1>4, <1>5, <1>6, <1>7 DEF KVInv

\* The server executes the Put a clerk waits for.
LEMMA ServePutKeepsKVInv ==
    ASSUME KVInv, HistoryFits', NEW c \in Client, ServePut(c), Record(ArgsOf(c)),
           UNCHANGED <<serial, outcomes>>
    PROVE  KVInv'
<1>0. PICK a : a = ArgsOf(c)
  OBVIOUS
<1>1. /\ HistoryFits /\ WrittenFit /\ PutAtMostOnce /\ CopiesFit(c)
      /\ Putting(c) /\ late' = late /\ Record(a)
  BY <1>0 DEF KVInv, ServePut, Putting
<1>2. /\ a.client = c /\ a.id = call[c].id /\ a.key = call[c].key
      /\ a.value = call[c].value /\ a.version = call[c].version
      /\ PutId(a) = <<c, call[c].id>>
  BY <1>0 DEF ArgsOf, PutId
<1>3. Store(a)
  BY <1>2 DEF ServePut, Store
<1>4. Ready(a)
  <2>1. call[c].id \in Nat /\ call[c].key \in Key /\ call[c].version \in Nat
    BY <1>1, CallFields DEF HistoryFits
  <2> QED BY <1>1, <1>2, <2>1 DEF Ready, CopiesFit, PutIds
<1>5. WrittenFit' /\ PutAtMostOnce'
  BY <1>1, <1>3, <1>4, ExecutedOnce
<1>6. /\ \A d \in Client \ {c} : call'[d] = call[d]
      /\ call'[c] = [call[c] EXCEPT !.at = "reply", !.err = PutErr(call[c])]
      /\ call[c] \in Call /\ call[c].at = "request"
  BY <1>1 DEF ServePut, HistoryFits, KVTypeOK
<1>7. /\ ArgsOf(c)' = a /\ Putting(c)' /\ call'[c].id = call[c].id
      /\ call'[c].at = "reply" /\ call'[c].retried = call[c].retried
      /\ call'[c].key = call[c].key /\ call'[c].version = call[c].version
      /\ call'[c].err = PutErr(call[c])
  BY <1>0, <1>1, <1>6 DEF ArgsOf, Putting, Call
<1>8. CopiesFit(c)'
  <2> DEFINE p == PutId(a)
  <2>1. OnlyThere(p, a.key, a.version)'
    BY <1>1, <1>3, <1>4, WroteStays DEF Ready
  <2>2. CASE a.version = mp[a.key].version
    <3>1. Wrote(p, a.key, a.version)' /\ PutErr(call[c]) = "OK"
      BY <1>1, <1>2, <1>3, <1>4, <2>2, Writing DEF PutErr
    <3> QED BY <1>1, <1>2, <1>7, <2>1, <3>1 DEF CopiesFit, Delayed
  <2>3. CASE a.version # mp[a.key].version
    <3>1. writes' = writes /\ PutErr(call[c]) # "OK"
      BY <1>1, <1>2, <1>3, <1>4, <2>3, Writing DEF PutErr
    <3> QED BY <1>1, <1>2, <1>6, <1>7, <2>1, <3>1 DEF CopiesFit, Delayed, Written
  <2> QED BY <2>2, <2>3
<1>9. ASSUME NEW d \in Client, d # c
      PROVE  CopiesFit(d)'
  <2>1. CASE ~Putting(d)
    BY <1>6, <1>9, <2>1 DEF CopiesFit, Putting
  <2>2. CASE Putting(d)
    <3> DEFINE p == <<d, call[d].id>>
    <3>1. call[d].key \in Key /\ call[d].version \in Nat /\ CopiesFit(d) /\ p # PutId(a)
      BY <1>1, <1>2, <1>9, CallFields DEF KVInv, HistoryFits
    <3>2. OnlyThere(p, call[d].key, call[d].version)'
      BY <1>1, <1>3, <1>4, <1>6, <1>9, <2>2, <3>1, WroteStays DEF CopiesFit
    <3>3. Wrote(p, call[d].key, call[d].version) => Wrote(p, call[d].key, call[d].version)'
      BY <1>1, <1>3, <1>4, <1>6, <1>9, <3>1, WroteStays
    <3>4. ~Written(p) => ~Written(p)'
      BY <1>1, <1>3, <1>4, <1>6, <1>9, <3>1, WroteStays
    <3> QED BY <1>1, <1>6, <1>9, <2>2, <3>1, <3>2, <3>3, <3>4 DEF CopiesFit, Delayed, Putting
  <2> QED BY <2>1, <2>2
<1>10. ASSUME NEW b \in late
       PROVE  OldFits(b)'
  <2>1. OldFits(b)
    BY DEF KVInv
  <2>2. PutId(b) = PutId(a) => b = a
    BY <1>0, <1>1, <1>2, <2>1 DEF OldFits, PutId
  <2>3. (Putting(b.client) /\ call[b.client].id = b.id => b = ArgsOf(b.client))'
    <3>1. CASE b.client = c
      BY <1>0, <1>1, <1>7, <2>1, <3>1 DEF OldFits
    <3>2. CASE b.client # c
      <4>1. b.client \in Client
        BY <1>1 DEF HistoryFits, KVTypeOK, PutArgs
      <4> QED BY <1>6, <2>1, <3>2, <4>1 DEF OldFits, Putting, ArgsOf
    <3> QED BY <3>1, <3>2
  <2> QED BY <1>1, <1>3, <1>4, <2>2, <2>3, LateStay
<1>11. ASSUME NEW o \in outcomes
       PROVE  Settled(o)'
  <2>1. Settled(o) /\ o.put[1] \in Client
    BY <1>1 DEF KVInv, HistoryFits, PutIds
  <2>2. o.put # PutId(a)
    BY <1>1, <1>2, <2>1 DEF Settled
  <2>3. (Putting(o.put[1]) => call[o.put[1]].id # o.put[2])'
    <3>1. CASE o.put[1] = c
      BY <1>1, <1>7, <2>1, <3>1 DEF Settled
    <3>2. CASE o.put[1] # c
      BY <1>6, <2>1, <3>2 DEF Settled, Putting
    <3> QED BY <3>1, <3>2
  <2> QED BY <1>1, <1>3, <1>4, <2>2, <2>3, SettledStay
<1> QED BY <1>1, <1>5, <1>8, <1>9, <1>10, <1>11 DEF KVInv

\* A clerk that calls again, and may leave a copy of its Put in the network.
LEMMA ResendKeepsKVInv ==
    ASSUME KVInv, HistoryFits', NEW c \in Client, Resend(c),
           UNCHANGED <<serial, writes, outcomes>>
    PROVE  KVInv'
<1>1. /\ HistoryFits /\ CopiesFit(c) /\ mp' = mp /\ call[c].at # "none" /\ call[c] \in Call
      /\ \A d \in Client \ {c} : call'[d] = call[d]
      /\ call'[c] = [call[c] EXCEPT !.at = "request", !.retried = TRUE]
  BY DEF KVInv, Resend, HistoryFits, KVTypeOK
<1>2. /\ call'[c].at = "request" /\ call'[c].retried /\ ArgsOf(c)' = ArgsOf(c)
      /\ call'[c].op = call[c].op /\ call'[c].id = call[c].id
      /\ call'[c].key = call[c].key /\ call'[c].version = call[c].version
  BY <1>1 DEF ArgsOf, Call
<1>3. CASE ~Putting(c)
  <2>1. ~Putting(c)' /\ late' = late
    BY <1>1, <1>2, <1>3 DEF Putting, Resend
  <2> QED BY <1>1, <2>1, QuietKeepsInv
<1>4. CASE Putting(c)
  <2>1. Putting(c)' /\ late' \subseteq late \cup {ArgsOf(c)} /\ late \subseteq late'
    BY <1>2, <1>4 DEF Putting, Resend
  <2>2. /\ call[c].id = serial[c]
        /\ OnlyThere(<<c, call[c].id>>, call[c].key, call[c].version)
    BY <1>1, <1>4 DEF CopiesFit
  <2>3. PutId(ArgsOf(c)) = <<c, call[c].id>>
    BY DEF PutId, ArgsOf
  <2>4. ASSUME NEW p, p # <<c, call[c].id>>
        PROVE  Delayed(p)' => Delayed(p)
    BY <2>1, <2>3, <2>4 DEF Delayed
  <2>5. CopiesFit(c)'
    BY <1>2, <2>2 DEF CopiesFit, OnlyThere
  <2>6. ASSUME NEW d \in Client, d # c
        PROVE  CopiesFit(d)'
    <3>1. CopiesFit(d) /\ call'[d] = call[d]
      BY <1>1, <2>6 DEF KVInv
    <3>2. Delayed(<<d, call[d].id>>)' => Delayed(<<d, call[d].id>>)
      BY <2>4, <2>6, <3>1
    <3> QED BY <3>1, <3>2 DEF CopiesFit, Putting, OnlyThere, Wrote, Written
  <2>7. ASSUME NEW b \in late
        PROVE  /\ OldFits(b) /\ b.client \in Client
               /\ PutId(b) = PutId(ArgsOf(c)) => b = ArgsOf(c)
    <3>1. OldFits(b) /\ b.client \in Client
      BY <1>1 DEF KVInv, HistoryFits, KVTypeOK, PutArgs
    <3> QED BY <1>4, <2>3, <3>1 DEF OldFits, PutId
  <2>8. ASSUME NEW b \in late'
        PROVE  OldFits(b)'
    <3>1. (Putting(b.client) /\ call[b.client].id = b.id => b = ArgsOf(b.client))'
      <4>1. CASE b = ArgsOf(c)
        BY <1>2, <4>1 DEF ArgsOf
      <4>2. CASE b \in late /\ b.client = c
        BY <1>2, <1>4, <2>7, <4>2 DEF OldFits
      <4>3. CASE b \in late /\ b.client # c
        BY <1>1, <2>7, <4>3 DEF OldFits, Putting, ArgsOf
      <4> QED BY <2>1, <4>1, <4>2, <4>3
    <3>2. \A a \in late' : PutId(a) = PutId(b) => a = b
      <4>1. CASE b = ArgsOf(c)
        BY <2>1, <2>7, <4>1
      <4>2. CASE b \in late
        BY <2>1, <2>7, <4>2 DEF OldFits
      <4> QED BY <2>1, <4>1, <4>2
    <3>3. /\ b.id <= serial[b.client]
          /\ OnlyThere(PutId(b), b.key, b.version)
      <4>1. CASE b = ArgsOf(c)
        <5>1. b.id = call[c].id /\ b.client = c /\ b.key = call[c].key
              /\ b.version = call[c].version /\ serial[c] \in Nat
          BY <1>1, <4>1 DEF ArgsOf, HistoryFits
        <5> QED BY <2>2, <2>3, <4>1, <5>1
      <4>2. CASE b \in late
        BY <2>7, <4>2 DEF OldFits
      <4> QED BY <2>1, <4>1, <4>2
    <3> QED BY <3>1, <3>2, <3>3 DEF OldFits, OnlyThere
  <2>9. ASSUME NEW o \in outcomes
        PROVE  Settled(o)'
    <3>1. Settled(o) /\ o.put[1] \in Client /\ o.put = <<o.put[1], o.put[2]>>
      BY <1>1 DEF KVInv, HistoryFits, PutIds
    <3>2. o.put # <<c, call[c].id>>
      BY <1>4, <3>1 DEF Settled
    <3>3. Delayed(o.put)' => Delayed(o.put)
      BY <2>4, <3>2
    <3>4. (Putting(o.put[1]) => call[o.put[1]].id # o.put[2])'
      <4>1. CASE o.put[1] = c
        BY <1>2, <1>4, <3>1, <4>1 DEF Settled
      <4>2. CASE o.put[1] # c
        BY <1>1, <3>1, <4>2 DEF Settled, Putting
      <4> QED BY <4>1, <4>2
    <3> QED BY <3>1, <3>3, <3>4 DEF Settled, Wrote, Written
  <2> QED BY <2>5, <2>6, <2>8, <2>9 DEF KVInv, WrittenFit, PutAtMostOnce
<1> QED BY <1>3, <1>4

\* A clerk that returns; what a Put returned is on record.
LEMMA ReturnKeepsInv ==
    ASSUME KVInv, HistoryFits', NEW c \in Client, ClerkStep(c), ClerkReturn(c),
           UNCHANGED <<serial, writes>>,
           outcomes' = IF call[c].op = "Put"
             THEN outcomes \cup {[put |-> <<c, call[c].id>>, key |-> call[c].key,
                                  version |-> call[c].version, err |-> ReturnedErr(c)]}
             ELSE outcomes
    PROVE  KVInv'
<1> DEFINE r == [put |-> <<c, call[c].id>>, key |-> call[c].key,
                 version |-> call[c].version, err |-> ReturnedErr(c)]
<1>1. /\ HistoryFits /\ CopiesFit(c) /\ mp' = mp /\ late' = late /\ call[c].at = "reply"
      /\ \A d \in Client \ {c} : call'[d] = call[d]
      /\ ~Putting(c)'
  BY DEF KVInv, ClerkReturn, HistoryFits, KVTypeOK, Putting, Idle
<1>2. KVInv' \/ Putting(c)
  <2>1. call[c].op = "Put" \/ outcomes' = outcomes
    OBVIOUS
  <2> QED BY <1>1, <2>1, QuietKeepsInv DEF Putting
<1>3. CASE Putting(c)
  <2>1. ASSUME NEW d \in Client
        PROVE  (Putting(d)' => Putting(d) /\ call'[d] = call[d] /\ d # c) /\ CopiesFit(d)'
    <3>1. CASE d = c
      BY <1>1, <3>1 DEF CopiesFit
    <3>2. CASE d # c
      <4>1. CopiesFit(d) /\ call'[d] = call[d]
        BY <1>1, <3>2 DEF KVInv
      <4>2. Putting(d)' <=> Putting(d)
        BY <4>1 DEF Putting
      <4> QED BY <1>1, <3>2, <4>1, <4>2 DEF CopiesFit, OnlyThere, Wrote, Written, Delayed
    <3> QED BY <3>1, <3>2
  <2>2. ASSUME NEW b \in late
        PROVE  OldFits(b)'
    <3>1. OldFits(b) /\ b.client \in Client
      BY <1>1 DEF KVInv, HistoryFits, KVTypeOK, PutArgs
    <3> QED BY <1>1, <2>1, <3>1 DEF OldFits, OnlyThere, ArgsOf
  <2>3. ASSUME NEW o \in outcomes
        PROVE  Settled(o)'
    <3>1. Settled(o) /\ o.put[1] \in Client
      BY <1>1 DEF KVInv, HistoryFits, PutIds
    <3> QED BY <1>1, <2>1, <3>1 DEF Settled, Wrote, Written, Delayed
  <2>4. PICK s : s = r
    OBVIOUS
  <2>5. Settled(s)'
    <3>1. call[c].id = serial[c] /\ serial[c] \in Nat
      BY <1>1, <1>3 DEF CopiesFit, HistoryFits
    <3>2. r.err = "OK" => call[c].err = "OK"
      BY DEF ReturnedErr
    <3>3. r.err = "ErrVersion" => call[c].err # "OK" /\ ~call[c].retried
      BY <1>3 DEF ReturnedErr, Putting
    <3>4. /\ r.err = "OK" => Wrote(<<c, call[c].id>>, call[c].key, call[c].version)
          /\ r.err = "ErrVersion" => ~Written(<<c, call[c].id>>) /\ ~Delayed(<<c, call[c].id>>)
      BY <1>1, <1>3, <3>2, <3>3 DEF CopiesFit
    <3>5. /\ s.err = "OK" => Wrote(s.put, s.key, s.version)
          /\ s.err = "ErrVersion" => ~Written(s.put) /\ ~Delayed(s.put)
          /\ s.put[1] = c /\ s.put[2] = serial[c]
      BY <2>4, <3>1, <3>4
    <3> QED BY <1>1, <3>1, <3>5 DEF Settled, Wrote, Written, Delayed
  <2>6. outcomes' \subseteq outcomes \cup {s}
    BY <2>4
  <2>7. \A o \in outcomes' : Settled(o)'
    BY <2>3, <2>5, <2>6
  <2> QED BY <1>1, <2>1, <2>2, <2>7 DEF KVInv, WrittenFit, PutAtMostOnce
<1> QED BY <1>2, <1>3

\* The clerk's and the server's steps, and those of the clients, keep the invariant.
THEOREM KVInvariant == ClientsSpec => []KVInv
<1>1. KVInv /\ [ClientsNext]_clientVars => KVInv'
  <2> SUFFICES ASSUME KVInv, [ClientsNext]_clientVars
               PROVE  KVInv'
    OBVIOUS
  <2>1. HistoryFits /\ HistoryFits'
    BY HistoryKept DEF KVInv
  <2>2. CASE UNCHANGED clientVars
    <3>1. UNCHANGED <<mp, call, late, serial, writes, outcomes>>
      BY <2>2 DEF clientVars, kvVars
    <3>2. \A c \in Client : CopiesFit(c)'
      BY ZenonT(60), <3>1 DEF KVInv, CopiesFit, Putting, OnlyThere, Wrote, Written, Delayed
    <3>3. \A a \in late' : OldFits(a)'
      BY <3>1 DEF KVInv, OldFits, Putting, OnlyThere, ArgsOf
    <3>4. \A o \in outcomes' : Settled(o)'
      BY <3>1 DEF KVInv, Settled, Putting, Wrote, Written, Delayed
    <3> QED BY SMTT(60), <2>1, <3>1, <3>2, <3>3, <3>4 DEF KVInv, WrittenFit, PutAtMostOnce
  <2>3. ASSUME NEW c \in Client, ClientGet(c)
        PROVE  KVInv'
    <3>1. /\ ~Putting(c)' /\ UNCHANGED <<mp, late, serial, writes, outcomes>>
          /\ \A d \in Client \ {c} : call'[d] = call[d]
      BY <2>1, <2>3 DEF ClientGet, Get, Putting, Idle, HistoryFits, KVTypeOK
    <3> QED BY <2>1, <3>1, QuietKeepsInv
  <2>4. ASSUME NEW c \in Client, ClientPut(c)
        PROVE  KVInv'
    BY <2>1, <2>4, PutKeepsInv
  <2>5. ASSUME ServerStep, UNCHANGED <<serial, outcomes>>
        PROVE  KVInv'
    <3>1. ASSUME NEW c \in Client, ServeGet(c), UNCHANGED writes
          PROVE  KVInv'
      <4>1. /\ ~Putting(c)' /\ UNCHANGED <<mp, late>>
            /\ \A d \in Client \ {c} : call'[d] = call[d]
        BY ZenonT(60), <2>1, <3>1 DEF ServeGet, Putting, HistoryFits, KVTypeOK, Call
      <4> QED BY SMTT(60), <2>1, <2>5, <3>1, <4>1, QuietKeepsInv
    <3> QED BY <2>1, <2>5, <3>1, ServePutKeepsKVInv, ServeLateKeepsKVInv DEF ServerStep
  <2>6. ASSUME NEW c \in Client, ClerkStep(c), UNCHANGED <<serial, writes>>
        PROVE  KVInv'
    BY <2>1, <2>6, ResendKeepsKVInv, ReturnKeepsInv DEF ClerkStep
  <2> QED BY <2>2, <2>3, <2>4, <2>5, <2>6 DEF ClientsNext
<1> QED BY <1>1, KVInvInit, PTL DEF ClientsSpec

\* A Put writes at most once, however often it is resent, delayed or executed.
THEOREM PutsWriteOnce == ClientsSpec => []PutAtMostOnce
<1>1. KVInv => PutAtMostOnce
  BY DEF KVInv
<1> QED BY <1>1, KVInvariant, PTL

\* OK means that the Put was performed, ErrVersion that it never was and never will be.
THEOREM OutcomesAreTruthful == ClientsSpec => []OutcomeIsTruthful
<1>1. KVInv => OutcomeIsTruthful
  <2> SUFFICES ASSUME KVInv, NEW o \in outcomes
               PROVE  /\ o.err = "OK" => /\ o.version < Len(writes[o.key])
                                         /\ writes[o.key][o.version + 1] = o.put
                      /\ o.err = "ErrVersion" =>
                            \A i \in 1..Len(writes[o.key]) : writes[o.key][i] # o.put
    BY DEF OutcomeIsTruthful
  <2>1. Settled(o) /\ o.key \in Key
    BY DEF KVInv, HistoryFits
  <2> QED BY <2>1 DEF Settled, Wrote, Written
<1> QED BY <1>1, KVInvariant, PTL

-----------------------------------------------------------------------------
(* The lock. *)

\* The key, the identities and the idle call are of their types.
LEMMA ConstantTypes ==
    /\ LockName \in Key /\ Empty \in Value
    /\ \A c \in Client : c \in Value /\ c # Empty
    /\ Idle \in Call /\ Absent \in [value : Value, version : Nat]
<1>1. (CHOOSE k \in Key : TRUE) \in Key
  BY KVAssumption
<1> QED BY <1>1, KVAssumption, LockAssumption DEF Idle, Call, Err, Absent

\* The map, the RPCs and the clients' places keep their types.
THEOREM TypeCorrect == Spec => []TypeOK
<1>1. Init => TypeOK
  BY ConstantTypes DEF Init, KVInit, TypeOK, KVTypeOK, Return, Err
<1>2. TypeOK /\ [Next]_vars => TypeOK'
  <2> SUFFICES ASSUME TypeOK, [Next]_vars
               PROVE  TypeOK'
    OBVIOUS
  <2>1. CASE UNCHANGED vars
    BY <2>1 DEF TypeOK, KVTypeOK, vars, kvVars, lockVars
  <2>2. CASE KVStep /\ UNCHANGED lockVars
    BY <2>2, KVStepType DEF TypeOK, lockVars
  <2>3. ASSUME NEW c \in Client, Acquire(c) \/ Release(c) \/ Proceed(c)
        PROVE  TypeOK'
    <3>1. KVTypeOK'
      <4>1. CASE UNCHANGED kvVars
        BY <4>1 DEF TypeOK, KVTypeOK, kvVars
      <4>2. CASE Get(c, LockName)
        BY <4>2, GetType, ConstantTypes DEF TypeOK
      <4>3. CASE \E x \in Value : Put(c, 0, LockName, x, ret[c].version)
        BY <4>3, PutType, ConstantTypes, CallFields, 0 \in Nat DEF TypeOK
      <4> QED
        BY <2>3, <4>1, <4>2, <4>3, ConstantTypes
        DEF Acquire, Release, Proceed, AcquireGet, AcquireFound, AcquirePut, AcquireBusy,
            AcquireDone, AcquireAgain, ReleaseGet, ReleasePut, ReleaseDone
    <3>2. flag' \in [Client -> BOOLEAN]
      BY <2>3 DEF TypeOK, Acquire, Release, Proceed, AcquireGet, AcquireFound, AcquirePut,
            AcquireBusy, AcquireDone, AcquireAgain, ReleaseGet, ReleasePut, ReleaseDone, Doubt
    <3>3. lpc' \in [Client -> {"idle", "acquire", "acquireGet", "acquirePut", "held",
                               "release", "releaseGet", "releasePut"}]
      BY <2>3 DEF TypeOK, Acquire, Release, Proceed, AcquireGet, AcquireFound, AcquirePut,
            AcquireBusy, AcquireDone, AcquireAgain, ReleaseGet, ReleasePut, ReleaseDone, Goto
    <3> QED BY <3>1, <3>2, <3>3 DEF TypeOK
  <2> QED BY <2>1, <2>2, <2>3 DEF Next
<1> QED BY <1>1, <1>2, PTL DEF Spec

-----------------------------------------------------------------------------
(* What a step leaves alone. *)

Untouched(d) == UNCHANGED <<lpc[d], flag[d], call[d], ret[d]>>

USE DEF Cur

\* A client that takes no part in a step that writes nothing keeps its invariant.
LEMMA Bystander ==
    ASSUME NEW d \in Client, ClientInv(d), Untouched(d), Cur' = Cur
    PROVE  ClientInv(d)' /\ (Applicable(d)' <=> Applicable(d))
BY DEF ClientInv, CallFits, PutFits, SeenFits, ReleaseFits, Owns, Aware, Applicable, Seen, Inside,
       Untouched

\* A step of one client that writes nothing and gives up no Put.
LEMMA OwnStep ==
    ASSUME LockInv, TypeOK', NEW c \in Client, ~Applicable(c), ClientInv(c)',
           Cur' = Cur, late' = late, \A d \in Client \ {c} : Untouched(d)
    PROVE  LockInv'
<1>1. ASSUME NEW d \in Client
      PROVE  ClientInv(d)'
  BY Bystander DEF LockInv
<1>2. ASSUME NEW a \in late'
      PROVE  LateFits(a)'
  <2>1. LateFits(a) /\ a.client \in Client
    BY DEF LockInv, TypeOK, KVTypeOK, PutArgs
  <2>2. CASE a.version = Cur.version
    <3>1. a.client \in Client \ {c} /\ ClientInv(a.client) /\ Applicable(a.client)
      BY <2>1, <2>2 DEF LateFits, LockInv
    <3>2. Untouched(a.client) /\ Applicable(a.client)'
      BY <3>1, Bystander
    <3> QED BY <2>1, <2>2, <3>2 DEF LateFits, Untouched
  <2>3. CASE a.version # Cur.version
    BY <2>1, <2>3 DEF LateFits
  <2> QED BY <2>2, <2>3
<1> QED BY <1>1, <1>2 DEF LockInv

\* The steps of Acquire and Release outside their calls.
LEMMA LocalKeepsInv ==
    ASSUME LockInv, TypeOK', NEW c \in Client,
           \/ Acquire(c) \/ AcquireFound(c) \/ AcquireBusy(c) \/ AcquireDone(c)
           \/ AcquireAgain(c) \/ Release(c) \/ ReleaseDone(c)
    PROVE  LockInv'
<1>1. /\ ClientInv(c) /\ TypeOK /\ c # Empty
      /\ UNCHANGED kvVars
      /\ \A d \in Client \ {c} : UNCHANGED <<lpc[d], flag[d]>>
  BY ConstantTypes DEF LockInv, TypeOK, Acquire, AcquireFound, AcquireBusy, AcquireDone,
     AcquireAgain, Release, ReleaseDone, Goto, Doubt, kvVars
<1>2. call[c].at = "none"
  BY SMTT(60), <1>1 DEF ClientInv, CallFits, Acquire, AcquireFound, AcquireBusy, AcquireDone,
     AcquireAgain, Release, ReleaseDone
<1>3. ClientInv(c)'
  <2> USE <1>1, <1>2 DEF TypeOK, kvVars, Goto, ClientInv, CallFits, PutFits, SeenFits, ReleaseFits,
                         Owns, Aware, Applicable, Seen, Inside
  <2>1. CASE Acquire(c)
    <3>1. lpc[c] = "idle" /\ lpc'[c] = "acquire" /\ UNCHANGED <<call[c], ret[c], Cur>>
      BY <2>1 DEF Acquire
    <3>2. Cur.value # c
      BY <3>1
    <3> QED BY <3>1, <3>2
  <2>2. CASE AcquireFound(c)
    BY <2>2 DEF AcquireFound
  <2>3. CASE AcquireBusy(c)
    BY <2>3 DEF AcquireBusy
  <2>4. CASE AcquireDone(c)
    BY <2>4 DEF AcquireDone
  <2>5. CASE AcquireAgain(c)
    BY <2>5 DEF AcquireAgain, Doubt
  <2>6. CASE Release(c)
    BY <2>6 DEF Release
  <2>7. CASE ReleaseDone(c)
    BY <2>7 DEF ReleaseDone
  <2> QED BY <2>1, <2>2, <2>3, <2>4, <2>5, <2>6, <2>7
<1> QED BY <1>1, <1>2, <1>3, OwnStep DEF Applicable, Untouched, kvVars

\* Asking for the lock's value.
LEMMA AskKeepsInv ==
    ASSUME LockInv, TypeOK', NEW c \in Client, AcquireGet(c) \/ ReleaseGet(c)
    PROVE  LockInv'
<1>1. /\ ClientInv(c) /\ TypeOK /\ call[c].at = "none" /\ UNCHANGED <<mp, late, ret, flag>>
      /\ call'[c] = [Idle EXCEPT !.at = "request", !.key = LockName]
      /\ \A d \in Client \ {c} : UNCHANGED <<lpc[d], call[d]>>
      /\ \/ lpc[c] = "acquire" /\ lpc'[c] = "acquireGet"
         \/ lpc[c] = "release" /\ lpc'[c] = "releaseGet"
  BY DEF LockInv, TypeOK, KVTypeOK, AcquireGet, ReleaseGet, Get, Goto
<1>2. /\ call'[c].at = "request" /\ call'[c].op = "Get" /\ call'[c].key = LockName
      /\ UNCHANGED Cur
  BY <1>1 DEF Idle
<1>3. ClientInv(c)'
  BY <1>1, <1>2 DEF ClientInv, CallFits, PutFits, SeenFits, ReleaseFits, Owns, Aware,
                    Applicable, Seen, Inside
<1> QED BY <1>1, <1>2, <1>3, OwnStep DEF Applicable, Untouched

\* Writing the lock with the version the Get returned.
LEMMA WriteKeepsInv ==
    ASSUME LockInv, TypeOK', NEW c \in Client, AcquirePut(c) \/ ReleasePut(c)
    PROVE  LockInv'
<1>1. /\ ClientInv(c) /\ TypeOK /\ c # Empty /\ UNCHANGED <<mp, late, ret, flag>>
      /\ call[c].at = "none"
      /\ \A d \in Client \ {c} : UNCHANGED <<lpc[d], call[d]>>
  BY ConstantTypes DEF LockInv, TypeOK, KVTypeOK, AcquirePut, ReleasePut, Put, Goto, kvVars
<1>2. Cur.version \in Nat /\ ret[c].version \in Nat
  BY <1>1, ConstantTypes, CallFields DEF TypeOK, KVTypeOK
<1>3. CASE AcquirePut(c)
  <2>1. /\ lpc[c] = "acquireGet" /\ lpc'[c] = "acquirePut"
        /\ IsFree(c) /\ ~(flag[c] /\ ret[c].value = c)
        /\ call'[c].at = "request" /\ call'[c].op = "Put" /\ call'[c].key = LockName
        /\ call'[c].value = c /\ call'[c].version = ret[c].version
    BY <1>1, <1>3 DEF AcquirePut, Put, Goto, TypeOK, KVTypeOK
  <2>2. /\ ret[c].version <= Cur.version
        /\ ret[c].version = Cur.version => Cur.value = Empty
        /\ ret[c].value = Empty
    BY <1>1, <2>1 DEF ClientInv, SeenFits, Seen, IsFree
  <2>3. Cur.value # c
    BY <1>1, <2>1, <2>2 DEF ClientInv, Aware, Applicable, Inside, Seen
  <2>4. ClientInv(c)'
    BY <1>1, <1>2, <2>1, <2>2, <2>3 DEF ClientInv, CallFits, PutFits, SeenFits, ReleaseFits,
                                        Owns, Aware, Applicable, Seen, Inside
  <2> QED BY <1>1, <2>4, OwnStep DEF Applicable, Untouched
<1>4. CASE ReleasePut(c)
  <2>1. lpc[c] = "releaseGet" /\ ret[c] = [err |-> "OK", value |-> c, version |-> Cur.version]
        /\ Cur.value = c
    BY <1>1, <1>4 DEF ReleasePut, ClientInv, SeenFits, Seen, Owns, Inside
  <2>2. /\ lpc'[c] = "releasePut"
        /\ call'[c].at = "request" /\ call'[c].op = "Put" /\ call'[c].key = LockName
        /\ call'[c].value = Empty /\ call'[c].version = Cur.version
    BY <1>1, <1>4, <2>1 DEF ReleasePut, Put, Goto, TypeOK, KVTypeOK
  <2>3. ClientInv(c)'
    BY <1>1, <1>2, <2>1, <2>2 DEF ClientInv, CallFits, PutFits, SeenFits, ReleaseFits,
                                  Owns, Aware, Applicable, Seen, Inside
  <2> QED BY <1>1, <2>3, OwnStep DEF Applicable, Untouched
<1> QED BY <1>3, <1>4

\* The server answers a Get, or the clerk returns what the server answered.
LEMMA AnswerKeepsInv ==
    ASSUME LockInv, TypeOK', NEW c \in Client, ServeGet(c) \/ ClerkReturn(c),
           UNCHANGED lockVars
    PROVE  LockInv'
<1>1. /\ ClientInv(c) /\ TypeOK /\ c # Empty /\ UNCHANGED <<mp, late, lpc, flag>>
      /\ ~Applicable(c)
      /\ \A d \in Client \ {c} : UNCHANGED <<call[d], ret[d]>>
  BY ConstantTypes DEF LockInv, TypeOK, KVTypeOK, ServeGet, ClerkReturn, lockVars, Applicable
<1>2. /\ Cur.version \in Nat /\ Cur.value \in Value /\ call[c].version \in Nat
      /\ call[c].retried \in BOOLEAN
  BY <1>1, ConstantTypes, CallFields DEF TypeOK, KVTypeOK
<1>3. ClientInv(c)'
  <2>1. CASE ServeGet(c)
    <3>1. /\ call[c].key = LockName /\ call[c].at = "request" /\ call[c].op = "Get"
          /\ lpc[c] \in {"acquireGet", "releaseGet"}
      BY <1>1, <2>1 DEF ServeGet, ClientInv, CallFits, TypeOK
    <3>2. /\ call'[c].at = "reply" /\ call'[c].op = "Get" /\ call'[c].key = LockName
          /\ call'[c].value = Cur.value /\ call'[c].version = Cur.version
          /\ call'[c].err = IF Cur = Absent THEN "ErrNoKey" ELSE "OK"
      BY <1>1, <2>1, <3>1 DEF ServeGet, TypeOK, KVTypeOK
    <3>3. Cur = Absent => Cur.value = Empty
      BY DEF Absent
    <3> QED BY <1>1, <1>2, <3>1, <3>2, <3>3
            DEF ClientInv, CallFits, PutFits, SeenFits, ReleaseFits, Owns, Aware,
                Applicable, Seen, Inside
  <2>2. CASE ClerkReturn(c)
    <3>1. /\ call[c].at = "reply" /\ call'[c].at = "none"
          /\ ret'[c] = [err |-> ReturnedErr(c), value |-> call[c].value,
                        version |-> call[c].version]
      BY <1>1, <2>2 DEF ClerkReturn, TypeOK, KVTypeOK, Idle
    <3>2. CASE lpc[c] \in {"acquireGet", "releaseGet"}
      <4>1. ReturnedErr(c) = call[c].err
        BY <1>1, <3>1, <3>2 DEF ReturnedErr, ClientInv, CallFits
      <4>2. Seen(c)' = Seen(c)
        BY <3>1, <4>1 DEF Seen
      <4> QED BY <1>1, <1>2, <3>1, <3>2, <4>2
              DEF ClientInv, CallFits, PutFits, SeenFits, ReleaseFits, Owns, Aware,
                  Applicable, Inside
    <3>3. CASE lpc[c] = "acquirePut"
      BY <1>1, <1>2, <3>1, <3>3
      DEF ClientInv, CallFits, PutFits, SeenFits, ReleaseFits, Owns, Aware,
          Applicable, Seen, Inside, ReturnedErr
    <3>4. CASE lpc[c] = "releasePut"
      BY <1>1, <1>2, <3>1, <3>4
      DEF ClientInv, CallFits, PutFits, SeenFits, ReleaseFits, Owns, Aware,
          Applicable, Seen, Inside, ReturnedErr
    <3> QED BY <1>1, <3>1, <3>2, <3>3, <3>4 DEF TypeOK, ClientInv, CallFits
  <2> QED BY <2>1, <2>2
<1> QED BY <1>1, <1>3, OwnStep DEF Untouched

\* Calling again, the earlier request perhaps still on its way.
LEMMA ResendKeepsInv ==
    ASSUME LockInv, TypeOK', NEW c \in Client, Resend(c), UNCHANGED lockVars
    PROVE  LockInv'
<1>1. /\ ClientInv(c) /\ TypeOK /\ c # Empty /\ UNCHANGED <<mp, lpc, flag, ret>>
      /\ \A d \in Client \ {c} : Untouched(d)
      /\ call[c].at # "none" /\ call'[c].at = "request" /\ call'[c].retried = TRUE
      /\ call'[c].op = call[c].op /\ call'[c].key = call[c].key
      /\ call'[c].value = call[c].value /\ call'[c].version = call[c].version
  BY ConstantTypes DEF LockInv, TypeOK, KVTypeOK, Resend, lockVars, Untouched
<1>2. Cur.version \in Nat /\ call[c].version \in Nat /\ call[c].at \in {"none", "request", "reply"}
  BY <1>1, ConstantTypes, CallFields DEF TypeOK, KVTypeOK
<1>3. ASSUME call[c].op = "Put"
      PROVE  Applicable(c)' <=> Applicable(c)
  BY <1>1, <1>2, <1>3 DEF Applicable, ClientInv, CallFits
<1>4. ClientInv(c)'
  BY <1>1, <1>2, <1>3 DEF ClientInv, CallFits, PutFits, SeenFits, ReleaseFits, Owns, Aware,
                          Applicable, Seen, Inside, TypeOK
<1>5. ASSUME NEW d \in Client
      PROVE  ClientInv(d)'
  BY <1>1, <1>4, Bystander DEF LockInv
<1>6. ASSUME NEW a \in late
      PROVE  LateFits(a)'
  <2>1. LateFits(a) /\ a.client \in Client
    BY DEF LockInv, TypeOK, KVTypeOK, PutArgs
  <2>2. CASE a.version = Cur.version /\ a.client = c
    BY <1>1, <1>3, <2>1, <2>2 DEF LateFits, Applicable
  <2>3. CASE a.version = Cur.version /\ a.client # c
    <3>1. ClientInv(a.client) /\ Untouched(a.client)
      BY <1>1, <2>1, <2>3 DEF LockInv
    <3>2. Applicable(a.client)' <=> Applicable(a.client)
      BY <1>1, <2>1, <3>1, Bystander
    <3> QED BY <1>1, <2>1, <2>3, <3>1, <3>2 DEF LateFits, Untouched
  <2>4. CASE a.version # Cur.version
    BY <1>1, <2>1, <2>4 DEF LateFits
  <2> QED BY <2>2, <2>3, <2>4
<1>7. ASSUME call[c].op = "Put", call[c].at = "request"
      PROVE  LateFits(ArgsOf(c))'
  <2>1. /\ call[c].key = LockName /\ call[c].version <= Cur.version
        /\ call[c].version = Cur.version => Applicable(c)'
    BY <1>1, <1>3, <1>7 DEF ClientInv, CallFits, Applicable
  <2> QED BY <1>1, <2>1 DEF LateFits, ArgsOf
<1>8. \A a \in late' : LateFits(a)'
  <2>1. /\ late' \subseteq late \cup {ArgsOf(c)}
        /\ (call[c].op = "Put" /\ call[c].at = "request") \/ late' = late
    BY DEF Resend
  <2>2. ASSUME NEW a \in late', a \notin late
        PROVE  LateFits(a)'
    <3>1. a = ArgsOf(c) /\ call[c].op = "Put" /\ call[c].at = "request"
      BY <2>1, <2>2
    <3>2. LateFits(a)' <=> LateFits(ArgsOf(c))'
      BY <1>1, <1>7, <3>1 DEF LateFits, ArgsOf
    <3> QED BY <1>7, <3>1, <3>2
  <2> QED BY <1>6, <2>2
<1> QED BY <1>5, <1>8 DEF LockInv

-----------------------------------------------------------------------------
(* Steps that write the lock. *)

\* Whose Put it is that writes, and what it finds and leaves.
LEMMA WriterKnown ==
    ASSUME LockInv, NEW w \in Client, Applicable(w)
    PROVE  \/ lpc[w] = "acquirePut" /\ Cur.value = Empty /\ call[w].value = w
           \/ lpc[w] = "releasePut" /\ Cur.value = w /\ call[w].value = Empty
BY DEF LockInv, TypeOK, ClientInv, CallFits, PutFits, Applicable

\* What w's write does to the others: none of them had the lock, and their Puts
\* and late copies are past.
LEMMA WriteSpares ==
    ASSUME LockInv, TypeOK', NEW w \in Client, Applicable(w),
           Cur' = [value |-> call[w].value, version |-> Cur.version + 1],
           late' = late, \A d \in Client \ {w} : Untouched(d)
    PROVE  /\ \A d \in Client \ {w} : ClientInv(d)'
           /\ \A a \in late' : LateFits(a)'
<1>1. TypeOK /\ Cur.version \in Nat /\ w # Empty
      /\ Cur'.value = call[w].value /\ Cur'.version = Cur.version + 1
  BY ConstantTypes DEF LockInv, TypeOK, KVTypeOK
<1>2. ASSUME NEW d \in Client \ {w}
      PROVE  ClientInv(d)'
  <2>1. /\ ClientInv(d) /\ d # w /\ d # Empty /\ Untouched(d)
        /\ Cur.value # d /\ Cur'.value # d
    BY <1>1, WriterKnown, ConstantTypes DEF LockInv
  <2>2. call[d].version \in Nat /\ ret[d].version \in Nat
    BY <1>1, CallFields DEF TypeOK
  <2>3. ~Owns(d)
    BY <2>1 DEF ClientInv
  <2>4. ~Applicable(d)'
    BY <1>1, <2>1, <2>2 DEF ClientInv, CallFits, Applicable, Untouched
  <2>5. ~Owns(d)'
    BY <2>1, <2>3 DEF Owns, Inside, Seen, Untouched
  <2>6. CallFits(d)'
    BY <1>1, <2>1, <2>2 DEF ClientInv, CallFits, Untouched
  <2>7. SeenFits(d)'
    BY <1>1, <2>1, <2>2, <2>3 DEF ClientInv, SeenFits, Seen, Owns, Inside, Untouched
  <2>8. ReleaseFits(d)'
    <3>1. lpc[d] = "releasePut" => ~Applicable(d)
      BY <2>1 DEF ClientInv, PutFits
    <3> QED BY <2>1, <3>1 DEF ClientInv, ReleaseFits, Untouched
  <2> QED BY <2>1, <2>4, <2>5, <2>6, <2>7, <2>8 DEF ClientInv, PutFits
<1>3. ASSUME NEW a \in late'
      PROVE  LateFits(a)'
  <2>1. a.key = LockName /\ a.version <= Cur.version /\ a.version \in Nat
    BY <1>1 DEF LockInv, LateFits, TypeOK, KVTypeOK, PutArgs
  <2>2. a.version # Cur'.version /\ a.version <= Cur'.version
    BY <1>1, <2>1
  <2> QED BY <2>1, <2>2 DEF LateFits
<1> QED BY <1>2, <1>3

LEMMA ServePutKeepsInv ==
    ASSUME LockInv, TypeOK', NEW c \in Client, ServePut(c), UNCHANGED lockVars
    PROVE  LockInv'
<1>1. /\ ClientInv(c) /\ TypeOK /\ c # Empty /\ UNCHANGED <<late, lpc, flag, ret>>
      /\ \A d \in Client \ {c} : Untouched(d)
      /\ call[c].at = "request" /\ call[c].op = "Put" /\ call[c].key = LockName
      /\ lpc[c] \in {"acquirePut", "releasePut"}
      /\ call'[c].at = "reply" /\ call'[c].op = "Put" /\ call'[c].key = LockName
      /\ call'[c].value = call[c].value /\ call'[c].version = call[c].version
      /\ call'[c].retried = call[c].retried /\ call'[c].err = PutErr(call[c])
  BY ConstantTypes DEF LockInv, TypeOK, KVTypeOK, ServePut, lockVars, Untouched, ClientInv, CallFits
<1>2. /\ Cur.version \in Nat /\ call[c].version \in Nat /\ call[c].version <= Cur.version
      /\ call[c].retried \in BOOLEAN
  BY <1>1, ConstantTypes, CallFields DEF TypeOK, KVTypeOK, ClientInv, CallFits
<1>3. CASE Applicable(c)
  <2>1. Cur' = [value |-> call[c].value, version |-> Cur.version + 1]
    BY <1>1, <1>3, ConstantTypes DEF ServePut, Store, Applicable, TypeOK, KVTypeOK
  <2>2. Cur'.value = call[c].value /\ Cur'.version = Cur.version + 1 /\ call'[c].err = "OK"
    BY <1>1, <1>3, <2>1 DEF PutErr, Applicable
  <2>3. /\ \A d \in Client \ {c} : ClientInv(d)'
        /\ \A a \in late' : LateFits(a)'
    BY <1>1, <1>3, <2>1, WriteSpares
  <2>4. ClientInv(c)'
    BY <1>1, <1>2, <1>3, <2>2, WriterKnown
    DEF ClientInv, CallFits, PutFits, SeenFits, ReleaseFits, Owns, Aware, Applicable, Seen, Inside
  <2> QED BY <2>3, <2>4 DEF LockInv
<1>4. CASE ~Applicable(c)
  <2>1. call[c].version < Cur.version
    BY <1>1, <1>2, <1>4 DEF Applicable
  <2>2. UNCHANGED mp /\ call'[c].err = "ErrVersion"
    BY <1>1, <1>2, <2>1 DEF ServePut, Store, PutErr, Absent
  <2>3. ClientInv(c)'
    BY <1>1, <1>2, <1>4, <2>1, <2>2
    DEF ClientInv, CallFits, PutFits, SeenFits, ReleaseFits, Owns, Aware, Applicable, Seen, Inside
  <2> QED BY <1>1, <1>4, <2>2, <2>3, OwnStep
<1> QED BY <1>3, <1>4

LEMMA ServeLateKeepsInv ==
    ASSUME LockInv, TypeOK', NEW a \in late, ServeLate(a), UNCHANGED lockVars
    PROVE  LockInv'
<1> DEFINE w == a.client
<1>1. /\ TypeOK /\ w \in Client /\ LateFits(a) /\ ClientInv(w)
      /\ UNCHANGED <<call, late, ret, lpc, flag>>
      /\ Cur.version \in Nat /\ a.version \in Nat
  BY ConstantTypes DEF LockInv, TypeOK, KVTypeOK, PutArgs, ServeLate, lockVars
<1>2. CASE a.version # Cur.version
  <2>1. UNCHANGED mp
    BY <1>1, <1>2 DEF ServeLate, Store, LateFits
  <2>2. \A c \in Client : ClientInv(c)' /\ (Applicable(c)' <=> Applicable(c))
    BY <1>1, <2>1, Bystander DEF LockInv, Untouched
  <2>3. ASSUME NEW b \in late
        PROVE  LateFits(b)'
    <3>1. LateFits(b) /\ b.client \in Client
      BY <1>1 DEF LockInv, TypeOK, KVTypeOK, PutArgs
    <3> QED BY <1>1, <2>1, <2>2, <3>1 DEF LateFits
  <2> QED BY <1>1, <2>2, <2>3 DEF LockInv
<1>3. CASE a.version = Cur.version
  <2>1. Applicable(w) /\ call[w].value = a.value /\ call[w].retried /\ a.key = LockName
    BY <1>1, <1>3 DEF LateFits
  <2>2. Cur' = [value |-> call[w].value, version |-> Cur.version + 1]
    BY <1>1, <1>3, <2>1, ConstantTypes DEF ServeLate, Store, TypeOK, KVTypeOK
  <2>3. Cur'.value = call[w].value /\ Cur'.version = Cur.version + 1
    BY <2>2
  <2>4. /\ \A d \in Client \ {w} : ClientInv(d)'
        /\ \A b \in late' : LateFits(b)'
    BY <1>1, <2>1, <2>2, WriteSpares DEF Untouched
  <2>5. w # Empty /\ call[w].version \in Nat
    BY <1>1, ConstantTypes, CallFields DEF TypeOK
  <2>6. ClientInv(w)'
    BY <1>1, <2>1, <2>3, <2>5, WriterKnown
    DEF ClientInv, CallFits, PutFits, SeenFits, ReleaseFits, Owns, Aware, Applicable, Seen, Inside
  <2> QED BY <2>4, <2>6 DEF LockInv
<1> QED BY <1>2, <1>3

-----------------------------------------------------------------------------
\* The lock's invariant holds in every reachable state.
THEOREM LockInvariant == Spec => []LockInv
<1>1. Init => LockInv
  <2> SUFFICES ASSUME Init
               PROVE  LockInv
    OBVIOUS
  <2>1. TypeOK
    BY ConstantTypes DEF Init, KVInit, TypeOK, KVTypeOK, Return, Err
  <2>2. ASSUME NEW c \in Client
        PROVE  ClientInv(c)
    <3>1. /\ lpc[c] = "idle" /\ call[c].at = "none" /\ Cur.value = Empty /\ c # Empty
      BY ConstantTypes DEF Init, KVInit, Idle, Absent
    <3> QED BY <3>1 DEF ClientInv, CallFits, PutFits, SeenFits, ReleaseFits, Owns, Aware,
                        Applicable, Inside
  <2>3. late = {}
    BY DEF Init, KVInit
  <2> QED BY <2>1, <2>2, <2>3 DEF LockInv
<1>2. LockInv /\ TypeOK' /\ [Next]_vars => LockInv'
  <2> SUFFICES ASSUME LockInv, TypeOK', [Next]_vars
               PROVE  LockInv'
    OBVIOUS
  <2>1. CASE UNCHANGED vars
    <3>1. UNCHANGED <<mp, call, late, ret, lpc, flag>>
      BY <2>1 DEF vars, kvVars, lockVars
    <3>2. \A c \in Client : ClientInv(c)' /\ (Applicable(c)' <=> Applicable(c))
      BY <3>1, Bystander DEF LockInv, Untouched
    <3>3. ASSUME NEW b \in late
          PROVE  LateFits(b)'
      <4>1. LateFits(b) /\ b.client \in Client
        BY DEF LockInv, TypeOK, KVTypeOK, PutArgs
      <4> QED BY <3>1, <3>2, <4>1 DEF LateFits
    <3> QED BY <3>1, <3>2, <3>3 DEF LockInv
  <2>2. ASSUME NEW c \in Client, Acquire(c) \/ Release(c) \/ Proceed(c)
        PROVE  LockInv'
    BY <2>2, LocalKeepsInv, AskKeepsInv, WriteKeepsInv DEF Proceed
  <2>3. CASE KVStep /\ UNCHANGED lockVars
    BY <2>3, AnswerKeepsInv, ResendKeepsInv, ServePutKeepsInv, ServeLateKeepsInv DEF KVStep
  <2> QED BY <2>1, <2>2, <2>3 DEF Next
<1> QED BY <1>1, <1>2, TypeCorrect, PTL DEF Spec

\* While a client is inside its section the server names it.
THEOREM HolderRecorded == Spec => []HolderIsRecorded
<1>1. LockInv => HolderIsRecorded
  BY DEF LockInv, ClientInv, HolderIsRecorded, Owns
<1> QED BY <1>1, LockInvariant, PTL

\* No two clients are inside, whatever calls are lost, resent or late.
THEOREM LockExcludes == Spec => []MutualExclusion
<1>1. HolderIsRecorded => MutualExclusion
  BY DEF HolderIsRecorded, MutualExclusion
<1> QED BY <1>1, HolderRecorded, PTL

\* The server never names a client that will not find out.
THEOREM LockNotOrphaned == Spec => []NoOrphan
<1>1. LockInv => NoOrphan
  BY DEF LockInv, ClientInv, NoOrphan, Aware
<1> QED BY <1>1, LockInvariant, PTL

=============================================================================
