------------------------------ MODULE Replacer ------------------------------
(***************************************************************************)
(* What lru_k_replacer.h promises to the buffer pool, whatever the policy: *)
(* a frame is tracked from its first access until it is evicted or         *)
(* removed, and only evictable frames can be either.                       *)
(***************************************************************************)
CONSTANT Frame

VARIABLES tracked,   \* the frames with an access history
          evictable  \* those that may be evicted

replacer == <<tracked, evictable>>

\* An access starts the history of a new frame, which is evictable.
Access(f) ==
    /\ tracked' = tracked \cup {f}
    /\ evictable' = evictable \cup ({f} \ tracked)

\* SetEvictable modifies nothing for a frame that is not tracked.
MayEvict(f, set) ==
    /\ tracked' = tracked
    /\ evictable' = IF set THEN evictable \cup ({f} \cap tracked) ELSE evictable \ {f}

\* Evict chose f, or f was removed.
Forget(f) ==
    /\ f \in evictable
    /\ tracked' = tracked \ {f}
    /\ evictable' = evictable \ {f}

Init == tracked = {} /\ evictable = {}

Next == \E f \in Frame : \/ Access(f) \/ Forget(f)
                         \/ \E set \in BOOLEAN : MayEvict(f, set)

Spec == Init /\ [][Next]_replacer

=============================================================================
