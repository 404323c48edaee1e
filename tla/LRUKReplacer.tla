---------------------------- MODULE LRUKReplacer ----------------------------
(***************************************************************************)
(* The LRU-K replacer of project1, lru_k_replacer.cpp.  Every operation    *)
(* runs under latch_ from end to end and is one step.                      *)
(*                                                                         *)
(* has_k_ and not_k_ are std::sets of pointers to nodes, ordered by the    *)
(* latest_time_stamp_ of the nodes.  An element is modelled by the key it  *)
(* has been inserted with: erase(&node) finds it only if the node's stamp  *)
(* is still that one.                                                      *)
(***************************************************************************)
EXTENDS Integers, Sequences, FiniteSets

CONSTANTS Frame,    \* frame ids
          K,        \* k_
          MaxClock  \* bound: accesses in all

ASSUME LRUKAssumption ==
    Frame \subseteq Nat /\ IsFiniteSet(Frame) /\ K \in Nat \ {0} /\ MaxClock \in Nat

VARIABLES clock,     \* current_timestamp_
          history,   \* history_ of the frames in node_store_, newest first; <<>> for the others
          stamp,     \* latest_time_stamp_
          evictable, \* the frames with is_evictable_
          notK,      \* not_k_, as <<key, frame>>
          hasK,      \* has_k_, as <<key, frame>>
          size,      \* curr_size_
          past       \* history: every access to a frame since it is in node_store_, newest first

vars == <<clock, history, stamp, evictable, notK, hasK, size, past>>

Stored == {f \in Frame : history[f] # <<>>}

\* Cmp
Before(x, y) == x[1] < y[1] \/ (x[1] = y[1] /\ x[2] < y[2])

\* find_if from begin(): the first entry whose node is evictable.
FirstEvictable(S) ==
    {x \in S : x[2] \in evictable /\ \A y \in S : y[2] \in evictable => x = y \/ Before(x, y)}

\* Mutant of Candidates: has_k_ is looked at first.
Candidates_HasK == IF FirstEvictable(hasK) # {} THEN FirstEvictable(hasK) ELSE FirstEvictable(notK)

Candidates == IF FirstEvictable(notK) # {} THEN FirstEvictable(notK) ELSE FirstEvictable(hasK)

\* The node of f leaves node_store_.
Drop(f) ==
    /\ history' = [history EXCEPT ![f] = <<>>]
    /\ past' = [past EXCEPT ![f] = <<>>]
    /\ evictable' = evictable \ {f}
    /\ size' = size - 1

Evict(f) ==
    /\ \E x \in Candidates : x[2] = f /\ notK' = notK \ {x} /\ hasK' = hasK \ {x}
    /\ Drop(f)
    /\ UNCHANGED <<clock, stamp>>

\* Mutant of StampAfter: the last access counts for a frame with fewer than K.
StampAfter_Last(f, h) == IF Len(h) >= K THEN h[K] ELSE clock + 1

\* latest_time_stamp_ after the access that made the history h: the K-th newest of them, before
\* there are K the first.
StampAfter(f, h) == IF Len(h) >= K THEN h[K] ELSE IF Len(h) = 1 THEN clock + 1 ELSE stamp[f]

\* With more than K accesses the entry is erased before the stamp changes, with K after it.
RecordAccess(f) ==
    LET h == <<clock + 1>> \o history[f]
        new == StampAfter(f, h)
    IN  /\ clock < MaxClock
        /\ clock' = clock + 1
        /\ history' = [history EXCEPT ![f] = SubSeq(h, 1, IF Len(h) > K THEN K ELSE Len(h))]
        /\ past' = [past EXCEPT ![f] = <<clock + 1>> \o @]
        /\ stamp' = [stamp EXCEPT ![f] = new]
        /\ IF Len(h) > K
             THEN hasK' = (hasK \ {<<stamp[f], f>>}) \cup {<<new, f>>} /\ notK' = notK
           ELSE IF Len(h) = K
             THEN hasK' = hasK \cup {<<new, f>>} /\ notK' = notK \ {<<new, f>>}
             ELSE hasK' = hasK /\ notK' = (notK \ {<<new, f>>}) \cup {<<new, f>>}
        /\ IF f \in Stored THEN UNCHANGED <<evictable, size>>
           ELSE evictable' = evictable \cup {f} /\ size' = size + 1

SizeAfter(f, set) ==
    IF f \in evictable /\ ~set THEN size - 1
    ELSE IF f \notin evictable /\ set THEN size + 1 ELSE size

SetEvictable(f, set) ==
    /\ f \in Stored
    /\ size' = SizeAfter(f, set)
    /\ evictable' = IF set THEN evictable \cup {f} ELSE evictable \ {f}
    /\ UNCHANGED <<clock, history, stamp, notK, hasK, past>>

\* Mutant of MayRemove: the exception for a frame that is not evictable is missing.
MayRemove_Any(f) == f \in Stored

\* Otherwise Remove returns or throws and changes nothing.
MayRemove(f) == f \in Stored /\ f \in evictable

Remove(f) ==
    /\ MayRemove(f)
    /\ IF Len(history[f]) = K
         THEN hasK' = hasK \ {<<stamp[f], f>>} /\ notK' = notK
         ELSE notK' = notK \ {<<stamp[f], f>>} /\ hasK' = hasK
    /\ Drop(f)
    /\ UNCHANGED <<clock, stamp>>

Init ==
    /\ clock = 0 /\ size = 0
    /\ history = [f \in Frame |-> <<>>] /\ past = [f \in Frame |-> <<>>]
    /\ stamp = [f \in Frame |-> 0]
    /\ evictable = {} /\ notK = {} /\ hasK = {}

Next == \E f \in Frame : \/ Evict(f) \/ RecordAccess(f) \/ Remove(f)
                         \/ \E set \in BOOLEAN : SetEvictable(f, set)

Spec == Init /\ [][Next]_vars

-----------------------------------------------------------------------------
(* Properties. *)

\* The variables have the types of the members of LRUKReplacer and LRUKNode, and Size returns
\* the number of evictable frames.
TypeOK ==
    /\ clock \in Nat /\ stamp \in [Frame -> Nat]
    /\ history \in [Frame -> Seq(Nat)] /\ past \in [Frame -> Seq(Nat)]
    /\ evictable \subseteq Stored
    /\ notK \subseteq Nat \X Frame /\ hasK \subseteq Nat \X Frame
    /\ size = Cardinality(evictable)

\* The variables are well-typed, and the two sets point to the nodes of node_store_, each under
\* its present stamp, and to no other: no node is missed by Evict, and none is looked at after
\* it has been erased.  A stamp that changes while its node is in a set leaves a dangling
\* pointer behind.
SetsAreTheStore ==
    /\ TypeOK
    /\ notK = {<<stamp[f], f>> : f \in {g \in Stored : Len(history[g]) < K}}
    /\ hasK = {<<stamp[f], f>> : f \in {g \in Stored : Len(history[g]) = K}}

\* The definition of the backward k-distance, over all accesses ever made and not over what
\* history_ keeps: 0 is before every access, so the distance is infinite.
KthAccess(f) == IF Len(past[f]) >= K THEN past[f][K] ELSE 0
FirstAccess(f) == past[f][Len(past[f])]
Furthest(f, g) ==
    \/ KthAccess(f) < KthAccess(g)
    \/ KthAccess(f) = KthAccess(g) /\ FirstAccess(f) <= FirstAccess(g)

\* lru_k_replacer.h:82-87: the frame evicted has the largest backward k-distance of the
\* evictable ones; of those with fewer than K accesses it is the one with the earliest.
VictimIsFurthest ==
    [][\A f \in Frame : Evict(f) => \A g \in evictable : Furthest(f, g)]_vars

Abstract == INSTANCE Replacer WITH tracked <- Stored

\* To its user the replacer is one that tracks frames and evicts evictable ones.
IsReplacer == Abstract!Spec

-----------------------------------------------------------------------------
(* The inductive invariant behind SetsAreTheStore and VictimIsFurthest. *)

\* history_ holds the newest accesses, at most K of them.
HistoryIsPast ==
    \A f \in Frame :
        /\ Len(history[f]) = IF Len(past[f]) < K THEN Len(past[f]) ELSE K
        /\ \A i \in 1..Len(history[f]) : history[f][i] = past[f][i]

\* A node is ordered by the oldest access it holds.
StampFits == \A f \in Stored : stamp[f] = history[f][Len(history[f])]

\* No two frames were accessed at one time.
OneAtATime ==
    /\ \A f \in Frame : \A i \in 1..Len(past[f]) : past[f][i] \in 1..clock
    /\ \A f, g \in Frame : \A i \in 1..Len(past[f]), j \in 1..Len(past[g]) :
          past[f][i] = past[g][j] => f = g

\* Why the first evictable node is the furthest: the key it is found under is its K-th access,
\* or its first one while there are fewer, and no two nodes have the same.
StoreInv == SetsAreTheStore /\ HistoryIsPast /\ StampFits /\ OneAtATime

=============================================================================
