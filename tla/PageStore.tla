----------------------------- MODULE PageStore ------------------------------
(* What the buffer pool promises to the threads that use it, buffer_pool_manager.h: each page
   has one contents, and only a thread that holds the page changes it.  Where the pool keeps
   the page, and when it reads and writes the disk, does not show. *)
CONSTANTS Thread, Page, Value, Zero

VARIABLES store, \* the contents of each page
          held   \* the pages each thread has got and not unpinned

vars == <<store, held>>

\* NewPage or FetchPage returns.
Pin(t, p) == held' = [held EXCEPT ![t] = @ \cup {p}] /\ UNCHANGED store

\* UnpinPage
Unpin(t, p) == held' = [held EXCEPT ![t] = @ \ {p}] /\ UNCHANGED store

\* The thread writes into the memory it was given.
Write(t, p, v) == p \in held[t] /\ store' = [store EXCEPT ![p] = v] /\ UNCHANGED held

Init == store = [p \in Page |-> Zero] /\ held = [t \in Thread |-> {}]

Next == \E t \in Thread, p \in Page : \/ Pin(t, p) \/ Unpin(t, p)
                                      \/ \E v \in Value : Write(t, p, v)

Spec == Init /\ [][Next]_vars

=============================================================================
