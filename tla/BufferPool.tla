----------------------------- MODULE BufferPool -----------------------------
(***************************************************************************)
(* The buffer pool manager of project1, buffer_pool_manager.cpp, with the  *)
(* disk scheduler it writes and reads through and any replacer.            *)
(*                                                                         *)
(* A call holds latch_ until it returns, also while it waits for the disk: *)
(* the steps of a call are what happens between those waits.  Two things   *)
(* run beside it: threads write into the pages they hold, and              *)
(* FlushAllPages walks the page table without the latch.                   *)
(*                                                                         *)
(* What is assumed of the callers: a thread fetches only ids that NewPage  *)
(* has given out (FetchMiss; the id of a page deleted since is one) and no *)
(* page it holds already, unpins what it holds once, with is_dirty if it   *)
(* has written it, and none calls while the pool is destroyed.  Page       *)
(* guards, which return {this, nullptr}, are not modelled.                 *)
(***************************************************************************)
EXTENDS DiskScheduler, FiniteSets

CONSTANTS Frame,     \* the indices of pages_: the buffers of the disk scheduler
          NoThread,  \* the latch is free
          Destroyed, \* there is no latch any more
          NoPage,    \* INVALID_PAGE_ID
          Flushers,  \* bound: the threads that call FlushAllPages
          Written,   \* bound: the pages they write
          MaxHeld,   \* bound: pages a thread holds
          Frames     \* free_list_ of a new pool: every frame

ASSUME PoolAssumption ==
    /\ Frame = Buffer /\ NoPage \notin Page
    /\ {NoThread, Destroyed} \cap Client = {} /\ NoThread # Destroyed
    /\ Page \subseteq Nat /\ Flushers \subseteq Client /\ Written \subseteq Page
    /\ MaxHeld \in Nat
    /\ Frames \in Seq(Frame)
    /\ \A f \in Frame : \E k \in 1..Len(Frames) : Frames[k] = f
    /\ \A j, k \in 1..Len(Frames) : Frames[j] = Frames[k] => j = k

VARIABLES latch,        \* latch_: who holds it
          next_page_id, \* next_page_id_
          free_list,    \* free_list_
          page_table,   \* page_table_
          page_id,      \* page_id_ of each frame
          pin_count,    \* pin_count_ of each frame
          is_dirty,     \* is_dirty_ of each frame
          tracked, evictable, \* the replacer
          call,         \* what each thread does inside of the pool
          held,         \* the pages each thread holds, with the frame it was given
          wrote         \* the pages each thread holds and has written

R == INSTANCE Replacer

frames == <<page_id, pin_count, is_dirty>>
users == <<held, wrote>>
pool == <<next_page_id, free_list, page_table, frames, tracked, evictable>>
vars == <<scheduler, latch, pool, call, users>>

Idle == [op |-> "none"]

Enter(t) == latch = NoThread /\ call[t] = Idle
Erase(table, p) == [q \in DOMAIN table \ {p} |-> table[q]]
\* page_table_.insert: an entry that is there stays.
Insert(table, p, f) == [q \in DOMAIN table \cup {p} |-> IF q \in DOMAIN table THEN table[q] ELSE f]
Hold(t, p, f) == held' = [held EXCEPT ![t] = @ \cup {<<p, f>>}]
Holds(t, p) == \E f \in Frame : <<p, f>> \in held[t]
MayHold(t, p) == ~Holds(t, p) /\ Cardinality(held[t]) < MaxHeld

Leave(t) ==
    /\ latch' = NoThread
    /\ call' = [call EXCEPT ![t] = Idle]

\* The call goes on after the disk has answered.
Go(t, op, p, f) ==
    /\ latch' = t
    /\ call' = [call EXCEPT ![t] = [op |-> op, page |-> p, frame |-> f]]

Waiting(t, op) == latch = t /\ call[t].op = op /\ t \notin pending

WriteOut(t, f) == Schedule(Request(t, TRUE, f, page_id[f])) /\ UNCHANGED <<node, data, disk>>

MustWrite(f) == is_dirty[f]
WriteIfDirty(t, f) == IF MustWrite(f) THEN WriteOut(t, f) ELSE UNCHANGED scheduler

-----------------------------------------------------------------------------
(* NewPage and FetchPage. *)

\* A frame from the free list or, if that is empty, a victim of the replacer.
TakeFrame(f) ==
    IF free_list # <<>>
      THEN f = Head(free_list) /\ free_list' = Tail(free_list) /\ UNCHANGED <<tracked, evictable>>
      ELSE R!Forget(f) /\ UNCHANGED free_list

\* The first half of both: the frame is taken, and on its way to the disk if it is dirty.
Obtain(t, op, p, f) ==
    /\ Enter(t) /\ MayHold(t, p)
    /\ TakeFrame(f)
    /\ WriteIfDirty(t, f)
    /\ Go(t, op, p, f)
    /\ UNCHANGED <<page_table, frames, users>>

\* AllocatePage: ids are never used again.
NewPage(t, f) ==
    /\ next_page_id \in Page
    /\ Obtain(t, "new", next_page_id, f)
    /\ next_page_id' = next_page_id + 1

\* Callers fetch only pages that NewPage has given out; the code does not look.
FetchMiss(t, p, f) ==
    /\ p \notin DOMAIN page_table /\ p < next_page_id
    /\ Obtain(t, "fetch", p, f)
    /\ UNCHANGED next_page_id

\* RecordAccess, SetEvictable(false)
PinFrame(f) == tracked' = tracked \cup {f} /\ evictable' = evictable \ {f}

\* The victim is written: the frame gets the new page, zeroed.
Install(f, p) ==
    /\ page_table' = Insert(Erase(page_table, page_id[f]), p, f)
    /\ page_id' = [page_id EXCEPT ![f] = p]
    /\ pin_count' = [pin_count EXCEPT ![f] = 1]
    /\ is_dirty' = [is_dirty EXCEPT ![f] = FALSE]
    /\ data' = [data EXCEPT ![f] = Zero]
    /\ PinFrame(f)

NewPageReturns(t) ==
    /\ Waiting(t, "new")
    /\ Install(call[t].frame, call[t].page)
    /\ Hold(t, call[t].page, call[t].frame)
    /\ Leave(t)
    /\ UNCHANGED <<request_queue, node, disk, pending, next_page_id, free_list, wrote>>

\* FetchPage has the page read into the frame.
FetchReads(t) ==
    /\ Waiting(t, "fetch")
    /\ Install(call[t].frame, call[t].page)
    /\ Schedule(Request(t, FALSE, call[t].frame, call[t].page))
    /\ Go(t, "read", call[t].page, call[t].frame)
    /\ UNCHANGED <<node, disk, next_page_id, free_list, users>>

FetchReturns(t) ==
    /\ Waiting(t, "read")
    /\ Hold(t, call[t].page, call[t].frame)
    /\ Leave(t)
    /\ UNCHANGED <<scheduler, pool, wrote>>

FetchHit(t, p) ==
    /\ Enter(t) /\ MayHold(t, p)
    /\ p \in DOMAIN page_table
    /\ pin_count' = [pin_count EXCEPT ![page_table[p]] = @ + 1]
    /\ PinFrame(page_table[p])
    /\ Hold(t, p, page_table[p])
    /\ UNCHANGED <<scheduler, latch, next_page_id, free_list, page_table, page_id, is_dirty, call,
                   wrote>>

-----------------------------------------------------------------------------
(* Holding and unpinning. *)

\* Through the pointer it was given, without the latch.
Write(t, p, f, v) ==
    /\ call[t] = Idle /\ <<p, f>> \in held[t] /\ p \in Written
    /\ data' = [data EXCEPT ![f] = v]
    /\ wrote' = [wrote EXCEPT ![t] = @ \cup {p}]
    /\ UNCHANGED <<request_queue, node, disk, pending, latch, pool, call, held>>

\* Mutant of DirtyAfter: the last to unpin decides.
DirtyAfter_Last(f, dirty) == dirty

DirtyAfter(f, dirty) == dirty \/ is_dirty[f]

\* Mutant of Evictable: the first unpin makes a frame evictable.
Evictable_Early(f) == TRUE

Evictable(f) == pin_count'[f] = 0

UnpinPage(t, p, dirty) ==
    /\ Enter(t) /\ Holds(t, p)
    /\ p \in wrote[t] => dirty
    /\ p \in DOMAIN page_table /\ pin_count[page_table[p]] > 0
    /\ LET f == page_table[p] IN
         /\ pin_count' = [pin_count EXCEPT ![f] = @ - 1]
         /\ IF Evictable(f) THEN R!MayEvict(f, TRUE) ELSE UNCHANGED <<tracked, evictable>>
         /\ is_dirty' = [is_dirty EXCEPT ![f] = DirtyAfter(f, dirty)]
    /\ held' = [held EXCEPT ![t] = {x \in @ : x[1] # p}]
    /\ wrote' = [wrote EXCEPT ![t] = @ \ {p}]
    /\ UNCHANGED <<scheduler, latch, next_page_id, free_list, page_table, page_id, call>>

-----------------------------------------------------------------------------
(* Flushing and deleting. *)

FlushPage(t, p) ==
    /\ Enter(t) /\ p \in DOMAIN page_table
    /\ WriteOut(t, page_table[p])
    /\ Go(t, "flush", p, page_table[p])
    /\ UNCHANGED <<pool, users>>

Cleaned(f) == is_dirty' = [is_dirty EXCEPT ![f] = FALSE]

FlushReturns(t) ==
    /\ Waiting(t, "flush")
    /\ Cleaned(call[t].frame)
    /\ Leave(t)
    /\ UNCHANGED <<scheduler, next_page_id, free_list, page_table, page_id, pin_count, tracked,
                   evictable, users>>

\* A page in the table that nobody holds.
DeletePage(t, p) ==
    /\ Enter(t) /\ p \in DOMAIN page_table
    /\ pin_count[page_table[p]] = 0
    /\ WriteIfDirty(t, page_table[p])
    /\ Go(t, "delete", p, page_table[p])
    /\ UNCHANGED <<pool, users>>

\* Remove throws for a frame that is not evictable.
DeleteReturns(t) ==
    LET f == call[t].frame IN
      /\ Waiting(t, "delete")
      /\ page_table' = Erase(page_table, call[t].page)
      /\ R!Forget(f)
      /\ free_list' = Append(free_list, f)
      /\ data' = [data EXCEPT ![f] = Zero]
      /\ pin_count' = [pin_count EXCEPT ![f] = 0]
      /\ page_id' = [page_id EXCEPT ![f] = NoPage]
      /\ Cleaned(f)
      /\ Leave(t)
      /\ UNCHANGED <<request_queue, node, disk, pending, next_page_id, users>>

\* The range-for over page_table_ stands on an element; left are those it has yet to visit.
Walk(t, p, left, op) == call' = [call EXCEPT ![t] = [op |-> op, page |-> p, left |-> left]]

Elements == DOMAIN page_table

FlushAllPages(t, p) ==
    /\ call[t] = Idle /\ t \in Flushers /\ latch # Destroyed
    /\ p \in Elements
    /\ Walk(t, p, Elements \ {p}, "element")
    /\ UNCHANGED <<scheduler, latch, pool, users>>

\* FlushPage(elem.first): the latch, and the page if it is there.
FlushElement(t) ==
    LET p == call[t].page IN
      /\ call[t].op = "element" /\ latch = NoThread
      /\ IF p \in DOMAIN page_table
           THEN latch' = t /\ Walk(t, p, call[t].left, "flushing") /\ WriteOut(t, page_table[p])
           ELSE Walk(t, p, call[t].left, "next") /\ UNCHANGED <<scheduler, latch>>
      /\ UNCHANGED <<pool, users>>

ElementFlushed(t) ==
    /\ Waiting(t, "flushing")
    /\ Cleaned(page_table[call[t].page])
    /\ latch' = NoThread /\ Walk(t, call[t].page, call[t].left, "next")
    /\ UNCHANGED <<scheduler, next_page_id, free_list, page_table, page_id, pin_count, tracked,
                   evictable, users>>

\* ++ on the iterator.  Elements that come into the table meanwhile are passed over.
OnElement(t) == call[t].page \in DOMAIN page_table

NextElement(t, p) ==
    /\ call[t].op = "next" /\ OnElement(t)
    /\ p \in call[t].left \cap DOMAIN page_table
    /\ Walk(t, p, call[t].left \ {p}, "element")
    /\ UNCHANGED <<scheduler, latch, pool, users>>

\* On an element that has been erased the behaviour is undefined: the walk goes on anywhere in
\* the table, or ends.
Stray(t, p) ==
    /\ call[t].op \in {"element", "next"} /\ ~OnElement(t)
    /\ p \in DOMAIN page_table
    /\ Walk(t, p, call[t].left, "element")
    /\ UNCHANGED <<scheduler, latch, pool, users>>

FlushAllReturns(t) ==
    /\ call[t].op = "next" /\ (OnElement(t) => call[t].left \cap DOMAIN page_table = {})
    /\ call' = [call EXCEPT ![t] = Idle]
    /\ UNCHANGED <<scheduler, latch, pool, users>>

\* ~BufferPoolManager, when nobody uses the pool any more, and ~DiskScheduler in it.
Destroy ==
    /\ latch = NoThread /\ \A t \in Client : call[t] = Idle /\ held[t] = {}
    /\ latch' = Destroyed
    /\ Shutdown
    /\ UNCHANGED <<pool, call, users>>

-----------------------------------------------------------------------------
Init ==
    /\ SchedulerInit /\ R!Init
    /\ latch = NoThread /\ next_page_id = 0
    /\ free_list = Frames /\ page_table = <<>>
    /\ page_id = [f \in Frame |-> NoPage]
    /\ pin_count = [f \in Frame |-> 0]
    /\ is_dirty = [f \in Frame |-> FALSE]
    /\ call = [t \in Client |-> Idle]
    /\ held = [t \in Client |-> {}] /\ wrote = [t \in Client |-> {}]

\* A call that holds the latch goes on.
Continue(t) == \/ NewPageReturns(t) \/ FetchReads(t) \/ FetchReturns(t)
               \/ FlushReturns(t) \/ DeleteReturns(t) \/ ElementFlushed(t)

WorkerStep == Worker /\ UNCHANGED <<latch, pool, call, users>>

Next ==
    \/ \E t \in Client :
         \/ Continue(t) \/ FlushElement(t) \/ FlushAllReturns(t)
         \/ \E f \in Frame : NewPage(t, f)
         \/ \E p \in Page : \/ FetchHit(t, p) \/ FlushPage(t, p) \/ DeletePage(t, p)
                            \/ FlushAllPages(t, p) \/ NextElement(t, p) \/ Stray(t, p)
                            \/ \E dirty \in BOOLEAN : UnpinPage(t, p, dirty)
                            \/ \E f \in Frame : \/ FetchMiss(t, p, f)
                                                \/ \E v \in Value : Write(t, p, f, v)
    \/ WorkerStep \/ Destroy

\* The worker runs when it has work, and a call goes on when the disk has answered.
Spec == Init /\ [][Next]_vars /\ WF_vars(WorkerStep) /\ \A t \in Client : WF_vars(Continue(t))

-----------------------------------------------------------------------------
(* Properties. *)

\* The frame that the holder of the latch has taken and not installed yet.
InHand == {call[t].frame : t \in {u \in Client : call[u].op \in {"new", "fetch"}}}
Mapped == {page_table[p] : p \in DOMAIN page_table}

\* The variables have the types of the members of BufferPoolManager and Page, and only the
\* holder of the latch is inside of a call that changes the pool.
TypeOK ==
    /\ latch \in Client \cup {NoThread, Destroyed} /\ next_page_id \in Nat
    /\ DOMAIN page_table \subseteq Page /\ Mapped \subseteq Frame
    /\ page_id \in [Frame -> Page \cup {NoPage}]
    /\ pin_count \in [Frame -> Nat] /\ is_dirty \in [Frame -> BOOLEAN]
    /\ pending \subseteq {latch}
    /\ \A t \in Client : call[t].op \notin {"none", "element", "next"} => latch = t

\* The variables are well-typed, and every frame is in one place: on the free list, in a call's
\* hands or in the table under the page it holds; a page in the table is evictable exactly when
\* nobody holds it.  So NewPage and FetchPage fail only when every frame is pinned, and
\* DeletePage's Remove never throws.
FramesConsistent ==
    /\ TypeOK
    /\ Len(free_list) = Cardinality({free_list[k] : k \in DOMAIN free_list})
    /\ \A f \in Frame \ InHand :
         (\E k \in DOMAIN free_list : free_list[k] = f) # (f \in Mapped)
    /\ \A p \in DOMAIN page_table : page_id[page_table[p]] = p
    /\ tracked = Mapped \ InHand
    /\ evictable = {f \in tracked : pin_count[f] = 0}

\* A thread holds the frame it was given for as long as it has not unpinned it: the frame keeps
\* the page, and its pin count is the number of holders.
HeldStays ==
    /\ \A t \in Client : \A x \in held[t] : page_id[x[2]] = x[1]
    /\ \A f \in Frame : page_id[f] # NoPage /\ f \notin InHand =>
          pin_count[f] = Cardinality({t \in Client : \/ <<page_id[f], f>> \in held[t]
                                                     \/ call[t].op = "read" /\ call[t].frame = f})

\* The contents of a page are in its frame, except while it is being read.
Contents(p) ==
    IF p \in DOMAIN page_table
      /\ ~\E t \in pending : call[t].op = "read" /\ call[t].page = p
      THEN data[page_table[p]] ELSE disk[p]
Store == INSTANCE PageStore WITH
    Thread <- Client, store <- [p \in Page |-> Contents(p)],
    held <- [t \in Client |-> {x[1] : x \in held[t]}]

\* What a page holds does not change by being evicted, fetched, flushed or deleted, not even while
\* some thread that might write it holds it: only by the writes of threads that hold it.
IsPageStore ==
    /\ Store!Spec
    /\ [][\/ \A p \in Page : Contents(p)' = Contents(p)
          \/ \E t \in Client, p \in Page, f \in Frame, v \in Value : Write(t, p, f, v)]_vars

\* Whoever waits for the worker is answered: a call gives the latch back that it holds while it
\* waits for the disk, and ~DiskScheduler returns from its join.
WaitsEnd ==
    /\ \A t \in Client : latch = t ~> latch # t
    /\ latch = Destroyed ~> node = NullOpt

=============================================================================
