----------------------------- MODULE LRUKProofs -----------------------------
(***************************************************************************)
(* Proofs about LRUKReplacer, for every set of frames, every K and every   *)
(* number of accesses: StoreInv is inductive, the frame evicted is the     *)
(* furthest, and every step is one of Replacer's or leaves it alone.       *)
(***************************************************************************)
EXTENDS LRUKReplacer, FiniteSetTheorems, SequenceTheorems, TLAPS

-----------------------------------------------------------------------------
(* Histories. *)

\* A history with one access more: it is in front, and the others move up.
LEMMA Prepend ==
    ASSUME NEW s \in Seq(Nat), NEW x \in Nat
    PROVE  /\ <<x>> \o s \in Seq(Nat)
           /\ Len(<<x>> \o s) = Len(s) + 1
           /\ (<<x>> \o s)[1] = x
           /\ \A i \in 1..Len(s) : (<<x>> \o s)[i + 1] = s[i]
<1>1. <<x>> \in Seq(Nat) /\ Len(<<x>>) = 1 /\ <<x>>[1] = x /\ Len(s) \in Nat
  OBVIOUS
<1>2. /\ <<x>> \o s \in Seq(Nat)
      /\ Len(<<x>> \o s) = Len(<<x>>) + Len(s)
      /\ \A i \in 1..Len(<<x>>) + Len(s) :
            (<<x>> \o s)[i] = IF i <= Len(<<x>>) THEN <<x>>[i] ELSE s[i - Len(<<x>>)]
  BY <1>1, ConcatProperties
<1>3. \A i \in 1..1 + Len(s) : (<<x>> \o s)[i] = IF i <= 1 THEN x ELSE s[i - 1]
  BY <1>1, <1>2
<1>4. \A i \in 1..Len(s) : (<<x>> \o s)[i + 1] = s[i]
  <2> TAKE i \in 1..Len(s)
  <2>1. i + 1 \in 1..1 + Len(s) /\ ~(i + 1 <= 1) /\ (i + 1) - 1 = i
    BY <1>1
  <2> QED
    BY <2>1, <1>3
<1> QED
  BY <1>1, <1>2, <1>3, <1>4

\* The newest n of a history.
LEMMA Cut ==
    ASSUME NEW h \in Seq(Nat), NEW n \in Nat, n <= Len(h)
    PROVE  /\ SubSeq(h, 1, n) \in Seq(Nat)
           /\ Len(SubSeq(h, 1, n)) = n
           /\ \A i \in 1..n : SubSeq(h, 1, n)[i] = h[i]
<1>1. \A i \in 1..n : h[i] \in Nat
  BY ElementOfSeq
<1>2. /\ SubSeq(h, 1, n) \in Seq(Nat)
      /\ Len(SubSeq(h, 1, n)) = IF 1 <= n THEN n - 1 + 1 ELSE 0
      /\ \A i \in 1..n - 1 + 1 : SubSeq(h, 1, n)[i] = h[1 + i - 1]
  BY <1>1, SubSeqProperties, 1 \in Int, n \in Int
<1> QED
  BY <1>2

\* A nonempty set of times has an earliest one.
LEMMA Earliest ==
    ASSUME NEW T \in SUBSET Nat, T # {}
    PROVE  \E x \in T : \A y \in T : x <= y
<1> DEFINE Below(y) == {z \in T : z < y}
           All == {Below(y) : y \in T}
<1>1. \A y \in T : Below(y) \in FiniteSubsetsOf(Nat)
  <2> TAKE y \in T
  <2>1. y \in Nat /\ \A z \in Below(y) : z \in Nat /\ z < y
    OBVIOUS
  <2> HIDE DEF Below
  <2>2. 0 \in Int /\ y \in Int /\ Below(y) \in SUBSET (0..y)
    BY <2>1
  <2>3. IsFiniteSet(0..y)
    BY <2>2, FS_Interval, Zenon
  <2>4. IsFiniteSet(Below(y))
    BY <2>2, <2>3, FS_Subset, Zenon
  <2> QED
    BY <2>1, <2>4, Zenon DEF FiniteSubsetsOf
<1>2. IsWellFoundedOn(StrictSubsetOrdering(Nat), FiniteSubsetsOf(Nat))
  BY FS_StrictSubsetOrderingWellFounded
<1>3. All \subseteq FiniteSubsetsOf(Nat) /\ All # {}
  BY <1>1
<1>4. PICK A \in All : \A B \in All : ~(<<B, A>> \in StrictSubsetOrdering(Nat))
  BY <1>2, <1>3, WFMin, Zenon
<1>5. PICK x \in T : A = Below(x)
  BY <1>4
<1>6. ASSUME NEW y \in T, y < x PROVE FALSE
  <2>1. x \in Nat /\ y \in Nat /\ \A z \in T : z \in Nat
    OBVIOUS
  <2>2. \A z \in T : z < y => z < x
    BY <1>6, <2>1
  <2>3. Below(y) \subseteq Below(x) /\ y \in Below(x) /\ (y \in Below(y) => y < y)
    BY <1>6, <2>2, Zenon
  <2>4. y \notin Below(y)
    BY <2>1, <2>3
  <2>5. Below(y) \in All /\ Below(y) \in SUBSET Nat /\ Below(x) \in SUBSET Nat
    OBVIOUS
  <2> HIDE DEF Below, All
  <2>6. <<Below(y), Below(x)>> \in StrictSubsetOrdering(Nat)
    BY <2>3, <2>4, <2>5 DEF StrictSubsetOrdering
  <2> QED
    BY <2>5, <2>6, <1>4, <1>5
<1>7. \A y \in T : x <= y
  BY <1>6
<1> QED
  BY <1>7

-----------------------------------------------------------------------------
(* One access. *)

\* An access puts the clock in front of the history of f, which keeps at most K, and the stamp
\* is the oldest of those; other frames are left alone.
LEMMA AccessFacts ==
    ASSUME StoreInv, NEW f \in Frame, RecordAccess(f)
    PROVE  /\ clock' = clock + 1
           /\ past' \in [Frame -> Seq(Nat)] /\ history' \in [Frame -> Seq(Nat)]
           /\ stamp' \in [Frame -> Nat]
           /\ Len(past'[f]) = Len(past[f]) + 1
           /\ past'[f][1] = clock + 1
           /\ \A i \in 1..Len(past[f]) : past'[f][i + 1] = past[f][i]
           /\ Len(history'[f]) = IF Len(history[f]) < K THEN Len(history[f]) + 1 ELSE K
           /\ \A i \in 1..Len(history'[f]) : history'[f][i] = past'[f][i]
           /\ stamp'[f] = history'[f][Len(history'[f])]
           /\ \A g \in Frame \ {f} :
                 history'[g] = history[g] /\ past'[g] = past[g] /\ stamp'[g] = stamp[g]
<1> DEFINE h == <<clock + 1>> \o history[f]
           p == <<clock + 1>> \o past[f]
           n == IF Len(h) > K THEN K ELSE Len(h)
<1>1. /\ clock \in Nat /\ clock + 1 \in Nat /\ K \in Nat \ {0} /\ stamp \in [Frame -> Nat]
      /\ history \in [Frame -> Seq(Nat)] /\ past \in [Frame -> Seq(Nat)]
      /\ history[f] \in Seq(Nat) /\ past[f] \in Seq(Nat)
      /\ Len(history[f]) \in Nat /\ Len(past[f]) \in Nat
  BY LRUKAssumption DEF StoreInv, SetsAreTheStore, TypeOK
<1>2. /\ h \in Seq(Nat) /\ Len(h) = Len(history[f]) + 1 /\ h[1] = clock + 1
      /\ \A i \in 1..Len(history[f]) : h[i + 1] = history[f][i]
  BY <1>1, Prepend
<1>3. /\ p \in Seq(Nat) /\ Len(p) = Len(past[f]) + 1 /\ p[1] = clock + 1
      /\ \A i \in 1..Len(past[f]) : p[i + 1] = past[f][i]
  BY <1>1, Prepend
<1>4. /\ clock' = clock + 1
      /\ history' = [history EXCEPT ![f] = SubSeq(h, 1, n)]
      /\ past' = [past EXCEPT ![f] = p]
      /\ stamp' = [stamp EXCEPT ![f] = StampAfter(f, h)]
  BY DEF RecordAccess
<1>5. /\ Len(history[f]) = IF Len(past[f]) < K THEN Len(past[f]) ELSE K
      /\ \A i \in 1..Len(history[f]) : history[f][i] = past[f][i]
      /\ f \in Stored => stamp[f] = history[f][Len(history[f])]
  BY DEF StoreInv, HistoryIsPast, StampFits
<1> HIDE DEF h, p
<1>6. n \in Nat /\ n <= Len(h) /\ n = IF Len(history[f]) < K THEN Len(history[f]) + 1 ELSE K
  <2>1. Len(h) = Len(history[f]) + 1 /\ Len(history[f]) \in Nat /\ K \in Nat
    BY <1>1, <1>2
  <2>2. Len(past[f]) \in Nat /\ Len(history[f]) = IF Len(past[f]) < K THEN Len(past[f]) ELSE K
    BY <1>1, <1>5
  <2> QED
    BY <2>1, <2>2
<1>7. /\ history'[f] \in Seq(Nat) /\ Len(history'[f]) = n
      /\ \A i \in 1..n : history'[f][i] = h[i]
  <2>1. history'[f] = SubSeq(h, 1, n)
    BY <1>1, <1>4
  <2> HIDE DEF n
  <2>2. /\ SubSeq(h, 1, n) \in Seq(Nat) /\ Len(SubSeq(h, 1, n)) = n
        /\ \A i \in 1..n : SubSeq(h, 1, n)[i] = h[i]
    BY <1>2, <1>6, Cut, Zenon
  <2> QED
    BY <2>1, <2>2, Zenon
<1>8. past'[f] = p
  BY <1>1, <1>4
<1>9. \A i \in 1..n : history'[f][i] = past'[f][i]
  <2> TAKE i \in 1..n
  <2>1. history'[f][i] = h[i]
    BY <1>7
  <2>2. CASE i = 1
    BY <2>1, <2>2, <1>2, <1>3, <1>8
  <2>3. CASE i # 1
    <3>1. i - 1 \in 1..Len(history[f]) /\ i - 1 \in 1..Len(past[f]) /\ (i - 1) + 1 = i
      BY SMTT(60), <2>3, <1>1, <1>5, <1>6
    <3>2. h[i] = history[f][i - 1] /\ p[i] = past[f][i - 1]
      BY <3>1, <1>2, <1>3
    <3> QED
      BY <3>1, <3>2, <2>1, <1>5, <1>8
  <2> QED
    BY <2>2, <2>3
<1>10. StampAfter(f, h) = h[n] /\ h[n] \in Nat
  <2>1. h[n] \in Nat
    <3>1. n \in 1..Len(h)
      BY <1>1, <1>2, <1>6
    <3> HIDE DEF n
    <3> QED
      BY <3>1, <1>2, ElementOfSeq
  <2>2. CASE Len(h) >= K
    BY <2>1, <2>2, <1>1, <1>2 DEF StampAfter
  <2>3. CASE Len(h) < K /\ Len(h) = 1
    BY <2>1, <2>3, <1>1, <1>2 DEF StampAfter
  <2>4. CASE Len(h) < K /\ Len(h) # 1
    <3>1. Len(history[f]) \in 1..Len(history[f]) /\ n = Len(history[f]) + 1
      BY <2>4, <1>1, <1>2
    <3>2. history[f] # <<>>
      BY <3>1
    <3>3. h[n] = history[f][Len(history[f])]
      BY <3>1, <1>2
    <3>4. StampAfter(f, h) = stamp[f]
      BY <2>4, <1>1, <1>2 DEF StampAfter
    <3> QED
      BY <3>2, <3>3, <3>4, <2>1, <1>5 DEF Stored
  <2> QED
    BY <2>2, <2>3, <2>4, <1>1, <1>2
<1>11. stamp'[f] = history'[f][n]
  <2>1. n \in 1..n
    BY <1>1, <1>2, <1>6
  <2> QED
    BY <2>1, <1>1, <1>4, <1>7, <1>10
<1>12. /\ past' \in [Frame -> Seq(Nat)] /\ history' \in [Frame -> Seq(Nat)]
       /\ stamp' \in [Frame -> Nat]
  <2>1. SubSeq(h, 1, n) \in Seq(Nat)
    BY <1>1, <1>4, <1>7
  <2> HIDE DEF n
  <2> QED
    BY <2>1, <1>1, <1>3, <1>4, <1>10
<1>13. \A g \in Frame \ {f} :
          history'[g] = history[g] /\ past'[g] = past[g] /\ stamp'[g] = stamp[g]
  BY <1>1, <1>4
<1> QED
  BY ZenonT(60), <1>3, <1>4, <1>6, <1>7, <1>8, <1>9, <1>11, <1>12, <1>13

-----------------------------------------------------------------------------
(* The two sets, but for the entry of one frame. *)

Others(f, S) == {x \in S : x[2] # f}

\* The nodes with fewer than K accesses and those with K.
Young == {g \in Stored : Len(history[g]) < K}
Full == {g \in Stored : Len(history[g]) = K}
Entries(F) == {<<stamp[g], g>> : g \in F}

\* A frame has one entry, in the set its history belongs to.
LEMMA EntryOf ==
    ASSUME notK = Entries(Young), hasK = Entries(Full), K \in Nat, NEW f \in Frame
    PROVE  /\ f \notin Young => notK = Others(f, notK)
           /\ f \in Young => notK = Others(f, notK) \cup {<<stamp[f], f>>}
           /\ f \notin Full => hasK = Others(f, hasK)
           /\ f \in Full => hasK = Others(f, hasK) \cup {<<stamp[f], f>>}
<1>1. ASSUME NEW F, NEW S, S = Entries(F)
      PROVE  /\ f \notin F => S = Others(f, S)
             /\ f \in F => S = Others(f, S) \cup {<<stamp[f], f>>}
  <2>1. \A x \in S : \E g \in F : x = <<stamp[g], g>> /\ x[2] = g
    BY <1>1 DEF Entries
  <2>2. f \in F => <<stamp[f], f>> \in S
    BY <1>1 DEF Entries
  <2> QED
    BY <2>1, <2>2 DEF Others
<1> QED
  BY <1>1

\* A step that changes the node of f and its entry alone leaves the sets in order.
LEMMA EntryChanged ==
    ASSUME notK = Entries(Young), hasK = Entries(Full), NEW f \in Frame,
           \A g \in Frame \ {f} : history'[g] = history[g] /\ stamp'[g] = stamp[g],
           notK' = Others(f, notK) \cup (IF f \in Young' THEN {<<stamp'[f], f>>} ELSE {}),
           hasK' = Others(f, hasK) \cup (IF f \in Full' THEN {<<stamp'[f], f>>} ELSE {})
    PROVE  notK' = Entries(Young)' /\ hasK' = Entries(Full)'
<1>1. \A g \in Frame \ {f} :
         /\ (g \in Young' <=> g \in Young) /\ (g \in Full' <=> g \in Full)
         /\ stamp'[g] = stamp[g]
  BY DEF Young, Full, Stored
<1>2. Young \subseteq Frame /\ Full \subseteq Frame /\ Young' \subseteq Frame /\ Full' \subseteq Frame
  BY DEF Young, Full, Stored
<1>3. ASSUME NEW F \in SUBSET Frame, NEW G \in SUBSET Frame, NEW S, S = Entries(F),
             \A g \in Frame \ {f} : g \in G <=> g \in F
      PROVE  Others(f, S) \cup (IF f \in G THEN {<<stamp'[f], f>>} ELSE {})
             = {<<stamp'[g], g>> : g \in G}
  <2>1. Others(f, S) = {<<stamp[g], g>> : g \in F \ {f}}
    <3>1. \A x \in S : \E g \in F : x = <<stamp[g], g>> /\ x[2] = g
      BY <1>3 DEF Entries
    <3>2. \A g \in F : <<stamp[g], g>> \in S /\ <<stamp[g], g>>[2] = g
      BY <1>3 DEF Entries
    <3> QED
      BY <3>1, <3>2 DEF Others
  <2>2. F \ {f} = G \ {f}
    BY <1>3
  <2>3. \A g \in G \ {f} : stamp'[g] = stamp[g]
    BY <1>1
  <2>4. Others(f, S) = {<<stamp'[g], g>> : g \in G \ {f}}
    BY <2>1, <2>2, <2>3
  <2> QED
    BY <2>4
<1>4. notK' = {<<stamp'[g], g>> : g \in Young'}
  BY <1>1, <1>2, <1>3
<1>5. hasK' = {<<stamp'[g], g>> : g \in Full'}
  BY <1>1, <1>2, <1>3
<1> QED
  BY <1>4, <1>5 DEF Entries

-----------------------------------------------------------------------------
(* StoreInv is inductive. *)

\* What StoreInv says of the sizes and the sets.
LEMMA InvFacts ==
    ASSUME StoreInv
    PROVE  /\ K \in Nat \ {0} /\ clock \in Nat /\ stamp \in [Frame -> Nat]
           /\ history \in [Frame -> Seq(Nat)] /\ past \in [Frame -> Seq(Nat)]
           /\ evictable \subseteq Stored /\ Stored \subseteq Frame
           /\ IsFiniteSet(evictable) /\ size = Cardinality(evictable) /\ size \in Nat
           /\ notK = Entries(Young) /\ hasK = Entries(Full)
           /\ \A f \in Frame : /\ Len(history[f]) \in 0..K /\ Len(past[f]) \in Nat
                               /\ f \in Stored <=> Len(history[f]) > 0
                               /\ f \in Stored <=> (f \in Young \/ f \in Full)
                               /\ ~(f \in Young /\ f \in Full)
<1>1. /\ K \in Nat \ {0} /\ clock \in Nat /\ stamp \in [Frame -> Nat]
      /\ history \in [Frame -> Seq(Nat)] /\ past \in [Frame -> Seq(Nat)]
      /\ evictable \subseteq Stored /\ Stored \subseteq Frame
      /\ size = Cardinality(evictable)
  BY LRUKAssumption DEF StoreInv, SetsAreTheStore, TypeOK, Stored
<1>2. IsFiniteSet(evictable) /\ size \in Nat
  <2>1. IsFiniteSet(Frame) /\ evictable \in SUBSET Frame
    BY <1>1, LRUKAssumption
  <2>2. IsFiniteSet(evictable)
    BY <2>1, FS_Subset, Zenon
  <2> QED
    BY <2>2, <1>1, FS_CardinalityType
<1>3. notK = Entries(Young) /\ hasK = Entries(Full)
  BY DEF StoreInv, SetsAreTheStore, Entries, Young, Full
<1>4. ASSUME NEW f \in Frame
      PROVE  /\ Len(history[f]) \in 0..K /\ Len(past[f]) \in Nat
             /\ f \in Stored <=> Len(history[f]) > 0
  <2>1. history[f] \in Seq(Nat) /\ past[f] \in Seq(Nat)
    BY <1>1
  <2>2. Len(history[f]) = IF Len(past[f]) < K THEN Len(past[f]) ELSE K
    BY DEF StoreInv, HistoryIsPast
  <2>3. history[f] # <<>> <=> Len(history[f]) > 0
    BY <2>1, EmptySeq
  <2> QED
    BY <1>1, <2>1, <2>2, <2>3 DEF Stored
<1>5. \A f \in Frame : /\ f \in Stored <=> (f \in Young \/ f \in Full)
                       /\ ~(f \in Young /\ f \in Full)
  BY <1>1, <1>4 DEF Young, Full
<1> QED
  BY <1>1, <1>2, <1>3, <1>4, <1>5

\* Nobody knows any frame.
LEMMA InitInv ==
    ASSUME Init PROVE StoreInv
<1>1. Stored = {}
  BY DEF Init, Stored
<1>2. TypeOK
  BY <1>1, FS_EmptySet DEF Init, TypeOK
<1>3. SetsAreTheStore
  BY <1>1, <1>2 DEF SetsAreTheStore, Init
<1>4. HistoryIsPast /\ StampFits /\ OneAtATime
  BY <1>1, LRUKAssumption DEF Init, HistoryIsPast, StampFits, OneAtATime
<1> QED
  BY <1>3, <1>4 DEF StoreInv

\* The entry is replaced while the node still has the stamp it was inserted under.
LEMMA AccessKeepsSets ==
    ASSUME StoreInv, NEW f \in Frame, RecordAccess(f)
    PROVE  notK' = Entries(Young)' /\ hasK' = Entries(Full)'
<1> DEFINE h == <<clock + 1>> \o history[f]
           new == StampAfter(f, h)
<1>1. /\ notK = Entries(Young) /\ hasK = Entries(Full) /\ K \in Nat \ {0}
      /\ history \in [Frame -> Seq(Nat)] /\ Len(history[f]) \in 0..K /\ clock \in Nat
      /\ f \in Stored <=> Len(history[f]) > 0
  BY InvFacts
<1>2. /\ \A g \in Frame \ {f} : history'[g] = history[g] /\ stamp'[g] = stamp[g]
      /\ Len(history'[f]) = IF Len(history[f]) < K THEN Len(history[f]) + 1 ELSE K
      /\ history'[f] \in Seq(Nat)
  BY AccessFacts
<1>3. Len(h) = Len(history[f]) + 1
  BY <1>1, Prepend
<1>4. stamp'[f] = new
  BY DEF RecordAccess, StoreInv, SetsAreTheStore, TypeOK
<1>5. /\ f \in Stored'
      /\ f \in Young' <=> Len(history[f]) + 1 < K
      /\ f \in Full' <=> Len(history[f]) + 1 >= K
  <2>1. history'[f] # <<>>
    BY <1>1, <1>2, EmptySeq
  <2> QED
    BY <2>1, <1>1, <1>2 DEF Stored, Young, Full
<1>6. /\ f \in Young <=> Len(history[f]) > 0 /\ Len(history[f]) < K
      /\ f \in Full <=> Len(history[f]) = K
  BY <1>1 DEF Young, Full
<1>7. /\ f \notin Young => notK = Others(f, notK)
      /\ f \in Young => notK = Others(f, notK) \cup {<<stamp[f], f>>}
      /\ f \notin Full => hasK = Others(f, hasK)
      /\ f \in Full => hasK = Others(f, hasK) \cup {<<stamp[f], f>>}
  BY <1>1, EntryOf
<1>8. \A x : <<x, f>> \notin Others(f, notK) /\ <<x, f>> \notin Others(f, hasK)
  BY DEF Others
<1>9. IF Len(h) > K
        THEN hasK' = (hasK \ {<<stamp[f], f>>}) \cup {<<new, f>>} /\ notK' = notK
      ELSE IF Len(h) = K
        THEN hasK' = hasK \cup {<<new, f>>} /\ notK' = notK \ {<<new, f>>}
        ELSE hasK' = hasK /\ notK' = (notK \ {<<new, f>>}) \cup {<<new, f>>}
  BY DEF RecordAccess
<1>10. 0 < Len(history[f]) /\ Len(h) <= K => new = stamp[f]
  <2> SUFFICES ASSUME 0 < Len(history[f]), Len(h) <= K PROVE new = stamp[f]
    OBVIOUS
  <2>1. CASE Len(h) < K
    BY <2>1, <1>1, <1>3 DEF StampAfter
  <2>2. CASE Len(h) = K
    <3>1. Len(history[f]) \in 1..Len(history[f]) /\ K = Len(history[f]) + 1
      BY <2>2, <1>1, <1>3
    <3>2. h[K] = history[f][Len(history[f])]
      BY <3>1, <1>1, Prepend
    <3> QED
      BY <2>2, <3>2, <1>1 DEF StampAfter, StoreInv, StampFits
  <2> QED
    BY <2>1, <2>2, <1>1, <1>3
<1> HIDE DEF h, new
<1>11. /\ notK' = Others(f, notK) \cup (IF f \in Young' THEN {<<stamp'[f], f>>} ELSE {})
       /\ hasK' = Others(f, hasK) \cup (IF f \in Full' THEN {<<stamp'[f], f>>} ELSE {})
  <2>1. CASE Len(history[f]) = K
    <3>1. f \notin Young /\ f \in Full /\ f \notin Young' /\ f \in Full' /\ Len(h) > K
      BY <2>1, <1>1, <1>3, <1>5, <1>6
    <3> QED
      BY <3>1, <1>4, <1>7, <1>8, <1>9
  <2>2. CASE Len(history[f]) + 1 = K
    <3>1. f \notin Full /\ f \notin Young' /\ f \in Full' /\ Len(h) = K /\ ~(Len(h) > K)
      BY <2>2, <1>1, <1>3, <1>5, <1>6
    <3>2. hasK' = hasK \cup {<<new, f>>} /\ notK' = notK \ {<<new, f>>}
      BY <3>1, <1>9
    <3>3. f \in Young => new = stamp[f]
      BY <3>1, <1>1, <1>6, <1>10
    <3> QED
      BY <3>1, <3>2, <3>3, <1>4, <1>7, <1>8
  <2>3. CASE Len(history[f]) + 1 < K
    <3>1. f \notin Full /\ f \in Young' /\ f \notin Full' /\ Len(h) # K /\ ~(Len(h) > K)
      BY <2>3, <1>1, <1>3, <1>5, <1>6
    <3>2. hasK' = hasK /\ notK' = (notK \ {<<new, f>>}) \cup {<<new, f>>}
      BY <3>1, <1>9
    <3>3. f \in Young => new = stamp[f]
      BY <2>3, <1>1, <1>3, <1>6, <1>10
    <3> QED
      BY <3>1, <3>2, <3>3, <1>4, <1>7, <1>8
  <2> QED
    BY <2>1, <2>2, <2>3, <1>1
<1> QED
  BY <1>1, <1>2, <1>11, EntryChanged

LEMMA AccessKeepsInv ==
    ASSUME StoreInv, NEW f \in Frame, RecordAccess(f)
    PROVE  StoreInv'
<1>1. /\ K \in Nat \ {0} /\ clock \in Nat
      /\ evictable \subseteq Stored /\ Stored \subseteq Frame
      /\ IsFiniteSet(evictable) /\ size = Cardinality(evictable)
      /\ \A g \in Frame : Len(history[g]) \in 0..K /\ Len(past[g]) \in Nat
  BY InvFacts
<1>2. /\ clock' = clock + 1
      /\ past' \in [Frame -> Seq(Nat)] /\ history' \in [Frame -> Seq(Nat)]
      /\ stamp' \in [Frame -> Nat]
      /\ Len(past'[f]) = Len(past[f]) + 1
      /\ past'[f][1] = clock + 1
      /\ \A i \in 1..Len(past[f]) : past'[f][i + 1] = past[f][i]
      /\ Len(history'[f]) = IF Len(history[f]) < K THEN Len(history[f]) + 1 ELSE K
      /\ \A i \in 1..Len(history'[f]) : history'[f][i] = past'[f][i]
      /\ stamp'[f] = history'[f][Len(history'[f])]
      /\ \A g \in Frame \ {f} :
            history'[g] = history[g] /\ past'[g] = past[g] /\ stamp'[g] = stamp[g]
  BY AccessFacts
<1>3. HistoryIsPast /\ StampFits /\ OneAtATime
  BY DEF StoreInv
<1>4. Stored' = Stored \cup {f}
  <2>1. history'[f] # <<>>
    <3>1. Len(history'[f]) # 0 /\ Len(<<>>) = 0
      BY <1>1, <1>2, EmptySeq
    <3> QED
      BY <3>1
  <2> QED
    BY ZenonT(60), <2>1, <1>2 DEF Stored
<1>5. notK' = Entries(Young)' /\ hasK' = Entries(Full)'
  BY AccessKeepsSets
<1>6. TypeOK'
  <2>1. evictable' \subseteq Stored' /\ size' = Cardinality(evictable')
    <3>1. CASE f \in Stored
      <4>1. evictable' = evictable /\ size' = size
        BY <3>1 DEF RecordAccess
      <4> QED
        BY <4>1, <1>1, <1>4
    <3>2. CASE f \notin Stored
      <4>1. evictable' = evictable \cup {f} /\ size' = size + 1 /\ f \notin evictable
        BY <3>2, <1>1 DEF RecordAccess
      <4>2. Cardinality(evictable \cup {f}) = Cardinality(evictable) + 1
        BY <4>1, <1>1, FS_AddElement
      <4> QED
        BY <4>1, <4>2, <1>1, <1>4
    <3> QED
      BY <3>1, <3>2
  <2>2. notK' \subseteq Nat \X Frame /\ hasK' \subseteq Nat \X Frame
    <3>1. Young' \subseteq Frame /\ Full' \subseteq Frame /\ stamp' \in [Frame -> Nat]
      BY <1>2 DEF Young, Full, Stored
    <3> QED
      BY <3>1, <1>5 DEF Entries
  <2>3. /\ clock' \in Nat /\ stamp' \in [Frame -> Nat]
        /\ history' \in [Frame -> Seq(Nat)] /\ past' \in [Frame -> Seq(Nat)]
    BY SMTT(60), <1>1, <1>2
  <2> QED
    BY <2>1, <2>2, <2>3 DEF TypeOK
<1>7. SetsAreTheStore'
  BY <1>5, <1>6 DEF SetsAreTheStore, Entries, Young, Full
<1>8. HistoryIsPast'
  <2>1. ASSUME NEW g \in Frame
        PROVE  /\ Len(history'[g]) = IF Len(past'[g]) < K THEN Len(past'[g]) ELSE K
               /\ \A i \in 1..Len(history'[g]) : history'[g][i] = past'[g][i]
    <3>1. /\ Len(history[g]) = IF Len(past[g]) < K THEN Len(past[g]) ELSE K
          /\ \A i \in 1..Len(history[g]) : history[g][i] = past[g][i]
      BY <1>3 DEF HistoryIsPast
    <3>2. CASE g = f
      <4>1. /\ K \in Nat \ {0} /\ Len(past[f]) \in Nat
            /\ Len(history[f]) = IF Len(past[f]) < K THEN Len(past[f]) ELSE K
        BY <3>1, <3>2, <1>1
      <4>2. /\ Len(past'[f]) = Len(past[f]) + 1
            /\ Len(history'[f]) = IF Len(history[f]) < K THEN Len(history[f]) + 1 ELSE K
        BY <1>2
      <4>3. Len(history'[f]) = IF Len(past'[f]) < K THEN Len(past'[f]) ELSE K
        BY <4>1, <4>2
      <4> QED
        BY <4>3, <3>2, <1>2
    <3>3. CASE g # f
      <4>1. history'[g] = history[g] /\ past'[g] = past[g]
        BY <3>3, <1>2
      <4> QED
        BY <4>1, <3>1
    <3> QED
      BY <3>2, <3>3
  <2> QED
    BY <2>1 DEF HistoryIsPast
<1>9. StampFits'
  BY <1>2, <1>3, <1>4 DEF StampFits, Stored
<1>10. ASSUME NEW g \in Frame, NEW i \in 1..Len(past'[g])
       PROVE  IF g = f /\ i = 1 THEN past'[g][i] = clock + 1
              ELSE past'[g][i] \in 1..clock /\ \E k \in 1..Len(past[g]) : past'[g][i] = past[g][k]
  <2>1. CASE g # f
    BY <2>1, <1>2, <1>3 DEF OneAtATime
  <2>2. CASE g = f /\ i = 1
    BY <2>2, <1>2
  <2>3. CASE g = f /\ i # 1
    <3>1. i - 1 \in 1..Len(past[f]) /\ (i - 1) + 1 = i
      BY <2>3, <1>1, <1>2
    <3>2. past'[f][i] = past[f][i - 1]
      BY <3>1, <1>2
    <3> QED
      BY <3>1, <3>2, <2>3, <1>3 DEF OneAtATime
  <2> QED
    BY <2>1, <2>2, <2>3
<1>11. OneAtATime'
  <2>1. \A g \in Frame : \A i \in 1..Len(past'[g]) : past'[g][i] \in 1..clock'
    <3> TAKE g \in Frame
    <3> TAKE i \in 1..Len(past'[g])
    <3>1. past'[g][i] = clock + 1 \/ past'[g][i] \in 1..clock
      BY <1>10
    <3>2. clock + 1 \in 1..clock + 1 /\ \A t \in 1..clock : t \in 1..clock + 1
      BY <1>1
    <3>3. past'[g][i] \in 1..clock + 1
      BY <3>1, <3>2, Zenon
    <3> QED
      BY <3>3, <1>2
  <2>2. ASSUME NEW g \in Frame, NEW k \in Frame,
               NEW i \in 1..Len(past'[g]), NEW j \in 1..Len(past'[k]),
               past'[g][i] = past'[k][j]
        PROVE  g = k
    <3>1. CASE past'[g][i] = clock + 1
      <4>1. past'[g][i] \notin 1..clock /\ past'[k][j] \notin 1..clock
        BY <3>1, <2>2, <1>1
      <4> QED
        BY <4>1, <1>10
    <3>2. CASE past'[g][i] # clock + 1
      <4>1. /\ \E m \in 1..Len(past[g]) : past'[g][i] = past[g][m]
            /\ \E m \in 1..Len(past[k]) : past'[k][j] = past[k][m]
        BY <3>2, <2>2, <1>10
      <4> QED
        BY <4>1, <2>2, <1>3 DEF OneAtATime
    <3> QED
      BY <3>1, <3>2
  <2> QED
    BY <2>1, <2>2 DEF OneAtATime
<1> QED
  BY <1>7, <1>8, <1>9, <1>11 DEF StoreInv

\* A node that leaves the store takes its entry with it.
LEMMA DropKeepsInv ==
    ASSUME StoreInv, NEW f \in evictable, Drop(f), UNCHANGED <<clock, stamp>>,
           notK' = Others(f, notK), hasK' = Others(f, hasK)
    PROVE  StoreInv'
<1>1. /\ K \in Nat \ {0} /\ clock \in Nat /\ stamp \in [Frame -> Nat]
      /\ history \in [Frame -> Seq(Nat)] /\ past \in [Frame -> Seq(Nat)]
      /\ evictable \subseteq Stored /\ Stored \subseteq Frame
      /\ IsFiniteSet(evictable) /\ size = Cardinality(evictable)
      /\ notK = Entries(Young) /\ hasK = Entries(Full)
  BY InvFacts
<1>2. /\ f \in Frame /\ history' \in [Frame -> Seq(Nat)] /\ past' \in [Frame -> Seq(Nat)]
      /\ history'[f] = <<>> /\ past'[f] = <<>> /\ clock' = clock /\ stamp' = stamp
      /\ \A g \in Frame \ {f} : history'[g] = history[g] /\ past'[g] = past[g]
      /\ evictable' = evictable \ {f} /\ size' = size - 1
  BY <1>1 DEF Drop
<1>3. HistoryIsPast /\ StampFits /\ OneAtATime
  BY DEF StoreInv
<1>4. Stored' = Stored \ {f}
  BY <1>2 DEF Stored
<1>5. f \notin Young' /\ f \notin Full'
  BY <1>4 DEF Young, Full
<1>6. notK' = Entries(Young)' /\ hasK' = Entries(Full)'
  BY <1>1, <1>2, <1>5, EntryChanged
<1>7. TypeOK'
  <2>1. Cardinality(evictable \ {f}) = Cardinality(evictable) - 1
    BY <1>1, FS_RemoveElement
  <2>2. notK' \subseteq Nat \X Frame /\ hasK' \subseteq Nat \X Frame
    <3>1. Young' \subseteq Frame /\ Full' \subseteq Frame /\ stamp' \in [Frame -> Nat]
      BY <1>1, <1>2 DEF Young, Full, Stored
    <3> QED
      BY <3>1, <1>6 DEF Entries
  <2>3. evictable' \subseteq Stored'
    BY <1>1, <1>2, <1>4
  <2> QED
    BY <2>1, <2>2, <2>3, <1>1, <1>2 DEF TypeOK
<1>8. SetsAreTheStore'
  BY <1>6, <1>7 DEF SetsAreTheStore, Entries, Young, Full
<1>9. Len(<<>>) = 0 /\ 1..0 = {}
  BY EmptySeq
<1>10. HistoryIsPast'
  <2>1. ASSUME NEW g \in Frame
        PROVE  /\ Len(history'[g]) = IF Len(past'[g]) < K THEN Len(past'[g]) ELSE K
               /\ \A i \in 1..Len(history'[g]) : history'[g][i] = past'[g][i]
    <3>1. CASE g = f
      BY <3>1, <1>1, <1>2, <1>9
    <3>2. CASE g # f
      <4>1. history'[g] = history[g] /\ past'[g] = past[g]
        BY <3>2, <1>2
      <4> QED
        BY <4>1, <1>3 DEF HistoryIsPast
    <3> QED
      BY <3>1, <3>2
  <2> QED
    BY <2>1 DEF HistoryIsPast
<1>11. StampFits'
  <2>1. \A g \in Stored' : g \in Stored /\ history'[g] = history[g] /\ stamp'[g] = stamp[g]
    BY <1>1, <1>2, <1>4
  <2> QED
    BY <2>1, <1>3 DEF StampFits
<1>12. OneAtATime'
  <2>1. \A g \in Frame : \A i \in 1..Len(past'[g]) : g # f /\ past'[g] = past[g]
    BY <1>2, <1>9
  <2>2. \A g \in Frame : \A i \in 1..Len(past'[g]) : past'[g][i] \in 1..clock'
    BY <2>1, <1>2, <1>3 DEF OneAtATime
  <2>3. ASSUME NEW g \in Frame, NEW k \in Frame,
               NEW i \in 1..Len(past'[g]), NEW j \in 1..Len(past'[k]),
               past'[g][i] = past'[k][j]
        PROVE  g = k
    <3>1. past'[g] = past[g] /\ past'[k] = past[k]
      BY <2>1
    <3> QED
      BY <3>1, <2>3, <1>3 DEF OneAtATime
  <2> QED
    BY <2>2, <2>3 DEF OneAtATime
<1> QED
  BY <1>8, <1>10, <1>11, <1>12 DEF StoreInv

\* The victim is stored and evictable, and its entry is the one that is erased.
LEMMA VictimEntry ==
    ASSUME StoreInv, NEW f \in Frame, NEW x \in Candidates, x[2] = f
    PROVE  f \in evictable /\ x = <<stamp[f], f>> /\ x \in notK \cup hasK
<1>1. x \in notK \cup hasK /\ x[2] \in evictable
  BY DEF Candidates, FirstEvictable
<1>2. notK = Entries(Young) /\ hasK = Entries(Full)
  BY InvFacts
<1>3. \E g \in Young \cup Full : x = <<stamp[g], g>>
  BY <1>1, <1>2 DEF Entries
<1> QED
  BY <1>1, <1>3

LEMMA EvictKeepsInv ==
    ASSUME StoreInv, NEW f \in Frame, Evict(f)
    PROVE  StoreInv'
<1>1. /\ K \in Nat /\ notK = Entries(Young) /\ hasK = Entries(Full)
      /\ f \in Stored <=> (f \in Young \/ f \in Full)
      /\ ~(f \in Young /\ f \in Full)
  BY InvFacts
<1>2. PICK x \in Candidates : x[2] = f /\ notK' = notK \ {x} /\ hasK' = hasK \ {x}
  BY DEF Evict
<1>3. f \in evictable /\ x = <<stamp[f], f>>
  BY <1>2, VictimEntry
<1>4. notK' = Others(f, notK) /\ hasK' = Others(f, hasK)
  <2>1. x \notin Others(f, notK) /\ x \notin Others(f, hasK)
    BY <1>2 DEF Others
  <2>2. /\ notK \subseteq Others(f, notK) \cup {x}
        /\ hasK \subseteq Others(f, hasK) \cup {x}
    BY <1>1, <1>3, EntryOf
  <2>3. Others(f, notK) \subseteq notK /\ Others(f, hasK) \subseteq hasK
    BY DEF Others
  <2> QED
    BY <2>1, <2>2, <2>3, <1>2
<1> QED
  BY <1>3, <1>4, DropKeepsInv DEF Evict

LEMMA RemoveKeepsInv ==
    ASSUME StoreInv, NEW f \in Frame, Remove(f)
    PROVE  StoreInv'
<1>1. /\ K \in Nat /\ notK = Entries(Young) /\ hasK = Entries(Full)
      /\ f \in Young <=> f \in Stored /\ Len(history[f]) # K
      /\ f \in Full <=> f \in Stored /\ Len(history[f]) = K
  BY InvFacts DEF Young, Full
<1>2. f \in Stored /\ f \in evictable
  BY DEF Remove, MayRemove
<1>3. /\ f \notin Young => notK = Others(f, notK)
      /\ f \in Young => notK = Others(f, notK) \cup {<<stamp[f], f>>}
      /\ f \notin Full => hasK = Others(f, hasK)
      /\ f \in Full => hasK = Others(f, hasK) \cup {<<stamp[f], f>>}
  BY <1>1, EntryOf
<1>4. <<stamp[f], f>> \notin Others(f, notK) /\ <<stamp[f], f>> \notin Others(f, hasK)
  BY DEF Others
<1>5. notK' = Others(f, notK) /\ hasK' = Others(f, hasK)
  BY <1>1, <1>2, <1>3, <1>4 DEF Remove
<1> QED
  BY <1>2, <1>5, DropKeepsInv DEF Remove

LEMMA SetEvictableKeepsInv ==
    ASSUME StoreInv, NEW f \in Frame, NEW set \in BOOLEAN, SetEvictable(f, set)
    PROVE  StoreInv'
<1>1. IsFiniteSet(evictable) /\ size = Cardinality(evictable) /\ size \in Nat
  BY InvFacts
<1>2. f \in Stored /\ evictable \subseteq Stored
  BY InvFacts DEF SetEvictable
<1>3. /\ Cardinality(evictable \cup {f}) = IF f \in evictable THEN size ELSE size + 1
      /\ Cardinality(evictable \ {f}) = IF f \in evictable THEN size - 1 ELSE size
  BY <1>1, FS_AddElement, FS_RemoveElement
<1>4. size' = Cardinality(evictable') /\ evictable' \subseteq Stored
  <2>1. CASE set
    BY <2>1, <1>2, <1>3 DEF SetEvictable, SizeAfter
  <2>2. CASE ~set
    BY <2>2, <1>2, <1>3 DEF SetEvictable, SizeAfter
  <2> QED
    BY <2>1, <2>2
<1>5. UNCHANGED <<clock, history, stamp, notK, hasK, past>> /\ Stored' = Stored
  BY DEF SetEvictable, Stored
<1>6. SetsAreTheStore'
  BY <1>4, <1>5 DEF StoreInv, SetsAreTheStore, TypeOK
<1>7. HistoryIsPast' /\ StampFits' /\ OneAtATime'
  BY <1>5 DEF StoreInv, HistoryIsPast, StampFits, OneAtATime
<1> QED
  BY <1>6, <1>7 DEF StoreInv

\* The sets of lru_k_replacer.cpp point to the nodes of node_store_ under their present stamps,
\* whatever the order of calls: no operation leaves a dangling pointer or forgets a node.
THEOREM StoreInvariant == Spec => []StoreInv
<1>1. Init => StoreInv
  BY InitInv
<1>2. ASSUME StoreInv, [Next]_vars PROVE StoreInv'
  <2>1. ASSUME NEW f \in Frame, Evict(f) PROVE StoreInv'
    BY <1>2, <2>1, EvictKeepsInv
  <2>2. ASSUME NEW f \in Frame, RecordAccess(f) PROVE StoreInv'
    BY <1>2, <2>2, AccessKeepsInv
  <2>3. ASSUME NEW f \in Frame, Remove(f) PROVE StoreInv'
    BY <1>2, <2>3, RemoveKeepsInv
  <2>4. ASSUME NEW f \in Frame, NEW set \in BOOLEAN, SetEvictable(f, set) PROVE StoreInv'
    BY <1>2, <2>4, SetEvictableKeepsInv
  <2>5. CASE UNCHANGED vars
    <3>1. UNCHANGED <<clock, history, stamp, evictable, notK, hasK, size, past>>
          /\ Stored' = Stored
      BY <2>5 DEF vars, Stored
    <3>2. TypeOK' = TypeOK /\ SetsAreTheStore' = SetsAreTheStore
      BY <3>1 DEF SetsAreTheStore, TypeOK
    <3>3. HistoryIsPast' /\ StampFits' /\ OneAtATime'
      BY <1>2, <3>1 DEF StoreInv, HistoryIsPast, StampFits, OneAtATime
    <3> QED
      BY <1>2, <3>2, <3>3 DEF StoreInv
  <2> QED
    BY <1>2, <2>1, <2>2, <2>3, <2>4, <2>5 DEF Next
<1> QED
  BY <1>1, <1>2, PTL DEF Spec

\* Evict and Remove of lru_k_replacer.cpp find every node where its present stamp says.
THEOREM SetsStay == Spec => []SetsAreTheStore
<1>1. StoreInv => SetsAreTheStore
  BY DEF StoreInv
<1> QED
  BY <1>1, StoreInvariant, PTL

-----------------------------------------------------------------------------
(* The victim. *)

\* The stamp of a node is its K-th access once it has K, and its first one before.
LEMMA StampOf ==
    ASSUME StoreInv, NEW f \in Frame
    PROVE  /\ f \in Young => KthAccess(f) = 0 /\ stamp[f] = FirstAccess(f)
           /\ f \in Full => /\ KthAccess(f) = stamp[f] /\ stamp[f] \in Nat \ {0}
                            /\ Len(past[f]) >= K
           /\ KthAccess(f) \in Nat
<1>1. /\ K \in Nat \ {0} /\ clock \in Nat /\ Len(past[f]) \in Nat
      /\ f \in Stored <=> Len(history[f]) > 0
      /\ f \in Stored <=> (f \in Young \/ f \in Full)
  BY InvFacts
<1>2. /\ Len(history[f]) = IF Len(past[f]) < K THEN Len(past[f]) ELSE K
      /\ \A i \in 1..Len(history[f]) : history[f][i] = past[f][i]
      /\ f \in Stored => stamp[f] = history[f][Len(history[f])]
      /\ \A i \in 1..Len(past[f]) : past[f][i] \in 1..clock
  BY DEF StoreInv, HistoryIsPast, StampFits, OneAtATime
<1>3. ASSUME f \in Young PROVE KthAccess(f) = 0 /\ stamp[f] = FirstAccess(f)
  <2>1. Len(history[f]) < K /\ Len(history[f]) > 0
    BY <1>1, <1>3 DEF Young
  <2>2. Len(past[f]) < K /\ Len(history[f]) = Len(past[f])
    BY <2>1, <1>1, <1>2
  <2>3. Len(history[f]) \in 1..Len(history[f])
    BY <2>1, <2>2, <1>1
  <2> QED
    BY <2>2, <2>3, <1>1, <1>2, <1>3 DEF KthAccess, FirstAccess
<1>4. ASSUME f \in Full
      PROVE  KthAccess(f) = stamp[f] /\ stamp[f] \in Nat \ {0} /\ Len(past[f]) >= K
  <2>1. Len(history[f]) = K
    BY <1>4 DEF Full
  <2>2. Len(past[f]) >= K /\ K \in 1..K /\ K \in 1..Len(past[f])
    BY <2>1, <1>1, <1>2
  <2>3. stamp[f] = past[f][K] /\ past[f][K] \in 1..clock
    BY <2>1, <2>2, <1>1, <1>2, <1>4
  <2> QED
    BY <2>2, <2>3, <1>1 DEF KthAccess
<1>5. KthAccess(f) \in Nat
  <2>1. Len(past[f]) >= K => K \in 1..Len(past[f])
    BY <1>1
  <2>2. Len(past[f]) >= K => past[f][K] \in 1..clock
    BY <2>1, <1>2
  <2> QED
    BY <2>2, <1>1 DEF KthAccess
<1> QED
  BY <1>3, <1>4, <1>5

\* No two nodes of has_k_ have the same stamp.
LEMMA StampsDiffer ==
    ASSUME StoreInv, NEW f \in Full, NEW g \in Full, stamp[f] = stamp[g]
    PROVE  f = g
<1>1. f \in Frame /\ g \in Frame
  BY DEF Full, Stored
<1>2. /\ KthAccess(f) = stamp[f] /\ Len(past[f]) >= K
      /\ KthAccess(g) = stamp[g] /\ Len(past[g]) >= K
      /\ K \in Nat \ {0} /\ Len(past[f]) \in Nat /\ Len(past[g]) \in Nat
  BY <1>1, StampOf, InvFacts
<1>3. past[f][K] = past[g][K] /\ K \in 1..Len(past[f]) /\ K \in 1..Len(past[g])
  BY <1>2 DEF KthAccess
<1> QED
  BY <1>1, <1>3 DEF StoreInv, OneAtATime

\* While an evictable node has fewer than K accesses, find_if finds one in not_k_.
LEMMA YoungFound ==
    ASSUME StoreInv, NEW g \in Young, g \in evictable
    PROVE  FirstEvictable(notK) # {}
<1> DEFINE G == {k \in Young : k \in evictable}
           T == {stamp[k] : k \in G}
<1>1. /\ stamp \in [Frame -> Nat] /\ Young \subseteq Frame /\ Frame \subseteq Nat
      /\ notK = Entries(Young)
  BY InvFacts, LRUKAssumption DEF Young, Stored
<1>2. PICK t \in T : \A u \in T : t <= u
  <2>1. T \in SUBSET Nat /\ T # {}
    BY <1>1
  <2> HIDE DEF T
  <2> QED
    BY <2>1, Earliest
<1> DEFINE S == {k \in G : stamp[k] = t}
<1>3. PICK m \in S : \A k \in S : m <= k
  <2>1. S \in SUBSET Nat /\ S # {}
    BY <1>1, <1>2
  <2> HIDE DEF S
  <2> QED
    BY <2>1, Earliest
<1>4. \A k \in G : stamp[m] < stamp[k] \/ (stamp[m] = stamp[k] /\ (m < k \/ m = k))
  <2> TAKE k \in G
  <2>1. stamp[m] = t /\ t <= stamp[k] /\ m \in Nat /\ k \in Nat
        /\ stamp[m] \in Nat /\ stamp[k] \in Nat
    BY <1>1, <1>2, <1>3
  <2>2. stamp[k] = t => m <= k
    BY <1>3
  <2> QED
    BY <2>1, <2>2
<1> DEFINE x == <<stamp[m], m>>
<1>5. x \in notK /\ x[2] = m /\ m \in evictable
  BY <1>1, <1>3 DEF Entries
<1>6. ASSUME NEW y \in notK, y[2] \in evictable PROVE x = y \/ Before(x, y)
  <2>1. PICK k \in Young : y = <<stamp[k], k>>
    BY <1>1 DEF Entries
  <2>2. k \in G
    BY <2>1, <1>6
  <2> QED
    BY <2>1, <2>2, <1>4 DEF Before
<1>7. x \in FirstEvictable(notK)
  BY <1>5, <1>6 DEF FirstEvictable
<1> QED
  BY <1>7

\* The first evictable node of a set has the least stamp of those.
LEMMA FirstIsLeast ==
    ASSUME NEW F \in SUBSET Frame, stamp \in [Frame -> Nat],
           NEW f \in Frame, <<stamp[f], f>> \in FirstEvictable(Entries(F)),
           NEW g \in F, g \in evictable
    PROVE  stamp[f] <= stamp[g]
<1>1. <<stamp[g], g>> \in Entries(F) /\ <<stamp[g], g>>[2] = g
  BY DEF Entries
<1>2. <<stamp[f], f>> = <<stamp[g], g>> \/ Before(<<stamp[f], f>>, <<stamp[g], g>>)
  BY <1>1 DEF FirstEvictable
<1>3. stamp[f] \in Nat /\ stamp[g] \in Nat
  OBVIOUS
<1> QED
  BY <1>2, <1>3 DEF Before

LEMMA VictimFurthest ==
    ASSUME StoreInv, NEW f \in Frame, Evict(f), NEW g \in evictable
    PROVE  Furthest(f, g)
<1>1. /\ stamp \in [Frame -> Nat] /\ notK = Entries(Young) /\ hasK = Entries(Full)
      /\ evictable \subseteq Stored /\ Stored \subseteq Frame
      /\ Young \subseteq Frame /\ Full \subseteq Frame
  BY InvFacts DEF Young, Full, Stored
<1>2. g \in Frame /\ (g \in Young \/ g \in Full)
  BY <1>1, InvFacts
<1>3. PICK x \in Candidates : x[2] = f
  BY DEF Evict
<1>4. f \in evictable /\ x = <<stamp[f], f>>
  BY <1>3, VictimEntry
<1>5. /\ KthAccess(g) \in Nat /\ KthAccess(f) \in Nat
      /\ g \in Young => KthAccess(g) = 0 /\ stamp[g] = FirstAccess(g)
      /\ g \in Full => KthAccess(g) = stamp[g] /\ stamp[g] \in Nat \ {0}
  BY <1>2, StampOf
<1>6. CASE x \in FirstEvictable(notK)
  <2>1. f \in Young
    <3>1. <<stamp[f], f>> \in Entries(Young)
      BY <1>1, <1>4, <1>6 DEF FirstEvictable
    <3> QED
      BY <3>1 DEF Entries
  <2>2. KthAccess(f) = 0 /\ stamp[f] = FirstAccess(f)
    BY <2>1, StampOf
  <2>3. g \in Young => stamp[f] <= stamp[g]
    BY <1>1, <1>4, <1>6, FirstIsLeast
  <2> QED
    BY <2>2, <2>3, <1>2, <1>5 DEF Furthest
<1>7. CASE x \in FirstEvictable(hasK) /\ FirstEvictable(notK) = {}
  <2>1. f \in Full
    <3>1. <<stamp[f], f>> \in Entries(Full)
      BY <1>1, <1>4, <1>7 DEF FirstEvictable
    <3> QED
      BY <3>1 DEF Entries
  <2>2. g \in Full
    BY <1>2, <1>7, YoungFound
  <2>3. stamp[f] <= stamp[g]
    BY <2>2, <1>1, <1>4, <1>7, FirstIsLeast
  <2>4. KthAccess(f) = stamp[f] /\ stamp[f] \in Nat
    BY <2>1, StampOf
  <2>5. CASE stamp[f] = stamp[g]
    <3>1. f = g
      BY <2>1, <2>2, <2>5, StampsDiffer
    <3>2. FirstAccess(f) \in Nat
      <4>1. /\ Len(past[f]) \in Nat /\ Len(past[f]) >= K /\ K \in Nat \ {0} /\ clock \in Nat
        BY <2>1, StampOf, InvFacts
      <4>2. Len(past[f]) \in 1..Len(past[f])
        BY <4>1
      <4>3. past[f][Len(past[f])] \in 1..clock
        BY <4>2 DEF StoreInv, OneAtATime
      <4> QED
        BY <4>1, <4>3 DEF FirstAccess
    <3> QED
      BY <3>1, <3>2 DEF Furthest
  <2>6. CASE stamp[f] # stamp[g]
    BY <2>2, <2>3, <2>4, <2>6, <1>5 DEF Furthest
  <2> QED
    BY <2>5, <2>6
<1> QED
  BY <1>6, <1>7 DEF Candidates

\* Evict takes a frame with the largest backward k-distance of the evictable ones, the one with
\* the earliest access if there are several, as lru_k_replacer.h:82-87 says.
THEOREM FurthestEvicted == Spec => VictimIsFurthest
<1>1. StoreInv /\ [Next]_vars =>
        [\A f \in Frame : Evict(f) => \A g \in evictable : Furthest(f, g)]_vars
  BY VictimFurthest
<1> QED
  BY <1>1, StoreInvariant, PTL DEF Spec, VictimIsFurthest

-----------------------------------------------------------------------------
(* The replacer the buffer pool relies on. *)

\* A step of the replacer is a step of Replacer, or leaves what its user sees alone.
LEMMA StepRefines ==
    ASSUME StoreInv, Next
    PROVE  Abstract!Next \/ UNCHANGED <<Stored, evictable>>
<1>1. /\ history \in [Frame -> Seq(Nat)] /\ evictable \subseteq Stored /\ Stored \subseteq Frame
  BY InvFacts
<1>2. ASSUME NEW f \in evictable, Drop(f) PROVE Abstract!Forget(f)
  <2>1. Stored' = Stored \ {f}
    BY <1>1, <1>2 DEF Drop, Stored
  <2> QED
    BY <2>1, <1>2 DEF Drop, Abstract!Forget
<1>3. ASSUME NEW f \in Frame, Evict(f) PROVE Abstract!Forget(f)
  <2>1. f \in evictable
    BY <1>3, VictimEntry DEF Evict
  <2> QED
    BY <2>1, <1>2, <1>3 DEF Evict
<1>4. ASSUME NEW f \in Frame, Remove(f) PROVE Abstract!Forget(f)
  BY <1>2, <1>4 DEF Remove, MayRemove
<1>5. ASSUME NEW f \in Frame, RecordAccess(f) PROVE Abstract!Access(f)
  <2>1. StoreInv' /\ history'[f] \in Seq(Nat)
        /\ \A g \in Frame \ {f} : history'[g] = history[g]
    BY <1>5, AccessKeepsInv, AccessFacts
  <2>2. history'[f] # <<>>
    <3>1. /\ Len(history'[f]) = IF Len(history[f]) < K THEN Len(history[f]) + 1 ELSE K
          /\ Len(history[f]) \in Nat /\ K \in Nat \ {0} /\ Len(<<>>) = 0
      BY <1>1, <1>5, AccessFacts, InvFacts, EmptySeq
    <3>2. Len(history'[f]) # 0
      BY <3>1
    <3> QED
      BY <3>1, <3>2
  <2>3. Stored' = Stored \cup {f}
    BY <2>1, <2>2 DEF Stored
  <2>4. evictable' = evictable \cup ({f} \ Stored)
    BY <1>5 DEF RecordAccess
  <2> QED
    BY <2>3, <2>4 DEF Abstract!Access
<1>6. ASSUME NEW f \in Frame, NEW set \in BOOLEAN, SetEvictable(f, set)
      PROVE  Abstract!MayEvict(f, set)
  BY <1>6 DEF SetEvictable, Abstract!MayEvict, Stored
<1> QED
  BY <1>3, <1>4, <1>5, <1>6 DEF Next, Abstract!Next

\* LRUKReplacer keeps the promise of lru_k_replacer.h: it tracks what has been accessed, and only
\* evictable frames leave it.
THEOREM ImplementsReplacer == Spec => IsReplacer
<1>1. Init => Abstract!Init
  BY DEF Init, Abstract!Init, Stored
<1>2. StoreInv /\ [Next]_vars => [Abstract!Next]_(Abstract!replacer)
  <2> SUFFICES ASSUME StoreInv, [Next]_vars
               PROVE  Abstract!Next \/ UNCHANGED Abstract!replacer
    OBVIOUS
  <2>1. CASE Next
    BY <2>1, StepRefines DEF Abstract!replacer
  <2>2. CASE UNCHANGED vars
    BY <2>2 DEF vars, Abstract!replacer, Stored
  <2> QED
    BY <2>1, <2>2
<1> QED
  BY <1>1, <1>2, StoreInvariant, PTL DEF Spec, IsReplacer, Abstract!Spec

=============================================================================
