-------------------------- MODULE BufferPoolProofs ---------------------------
(* Proofs about BufferPool: where the frames and the pages are and who holds them, and that the
   pool implements PageStore, for any threads, frames and pages and any replacer. *)
EXTENDS BufferPool, FiniteSetTheorems, SequenceTheorems, TLAPS

Inside == {"new", "fetch", "read", "flush", "delete", "flushing"}

CallType ==
    {Idle}
      \cup [op : {"new", "fetch", "read", "flush", "delete"}, page : Page, frame : Frame]
      \cup [op : {"element", "next", "flushing"}, page : Page, left : SUBSET Page]

Types ==
    /\ latch \in Client \cup {NoThread, Destroyed} /\ next_page_id \in Nat
    /\ free_list \in Seq(Frame)
    /\ DOMAIN page_table \subseteq Page /\ page_table \in [DOMAIN page_table -> Frame]
    /\ page_id \in [Frame -> Page \cup {NoPage}]
    /\ pin_count \in [Frame -> Nat] /\ is_dirty \in [Frame -> BOOLEAN]
    /\ tracked \subseteq Frame /\ evictable \subseteq Frame
    /\ call \in [Client -> CallType]
    /\ held \in [Client -> SUBSET (Page \X Frame)] /\ wrote \in [Client -> SUBSET Page]
    /\ data \in [Frame -> Value] /\ disk \in [Page -> Value]

Free == {free_list[k] : k \in 1..Len(free_list)}

\* A frame is free, in a call's hands, or in the table under the page it holds.
PlacesFit ==
    /\ \A j, k \in 1..Len(free_list) : free_list[j] = free_list[k] => j = k
    /\ \A p \in DOMAIN page_table : page_id[page_table[p]] = p
    /\ \A f \in Frame : page_id[f] # NoPage =>
          page_id[f] \in DOMAIN page_table /\ page_table[page_id[f]] = f
    /\ \A f \in Frame : f \in Free <=> page_id[f] = NoPage /\ f \notin InHand
    /\ \A f \in Frame : f \in tracked <=> page_id[f] # NoPage /\ f \notin InHand
    /\ evictable = {f \in tracked : pin_count[f] = 0}
    /\ \A f \in InHand : page_id[f] # NoPage => pin_count[f] = 0
    /\ \A f \in Frame : page_id[f] = NoPage => ~is_dirty[f]

\* The call that holds the latch, and what it has found there.
CallFits(t) ==
    LET c == call[t] IN
      /\ c.op \in Inside => latch = t
      /\ latch = t => c.op \in Inside
      /\ c.op \in {"new", "fetch"} => c.page \notin DOMAIN page_table /\ c.page < next_page_id
      /\ c.op \in {"read", "flush", "delete"} =>
            c.page \in DOMAIN page_table /\ page_table[c.page] = c.frame
      /\ c.op = "delete" => pin_count[c.frame] = 0
      /\ c.op = "read" => \A u \in Client : <<c.page, c.frame>> \notin held[u]
      /\ c.op = "flushing" => c.page \in DOMAIN page_table

\* The threads that hold a frame's page, or are about to.
Holders(f) == {t \in Client : \/ <<page_id[f], f>> \in held[t]
                              \/ call[t].op = "read" /\ call[t].frame = f}

HoldersFit ==
    /\ \A t \in Client : \A x \in held[t] : page_id[x[2]] = x[1]
    /\ \A f \in Frame : page_id[f] # NoPage =>
          IsFiniteSet(Holders(f)) /\ pin_count[f] = Cardinality(Holders(f))
    /\ \A t \in Client : \A p \in wrote[t] : \E f \in Frame : <<p, f>> \in held[t]

\* The request of the call that holds the latch.
Asked(t) ==
    LET c == call[t]
        f == IF c.op = "flushing" THEN page_table[c.page] ELSE c.frame IN
      Request(t, c.op # "read", f, page_id[f])

Rests == request_queue = <<>> /\ node = NoRequest /\ pending = {}
Serves(t) ==
    /\ Asked(t) \in Requests /\ pending = {t}
    /\ \/ request_queue = <<Asked(t)>> /\ node = NoRequest
       \/ request_queue = <<>> /\ node = Asked(t)
Ends ==
    /\ pending = {} /\ latch = Destroyed
    /\ \/ request_queue = <<NullOpt>> /\ node = NoRequest
       \/ request_queue = <<>> /\ node = NullOpt

SchedulerFits == (Rests /\ latch # Destroyed) \/ Ends \/ \E t \in Client : latch = t /\ Serves(t)

Unwritten(p) == \A t \in Client : p \notin wrote[t]
BeingRead(p) == \E t \in pending : call[t].op = "read" /\ call[t].page = p

\* Where the disk is up to date.
DiskFits ==
    /\ \A p \in DOMAIN page_table :
          ~is_dirty[page_table[p]] /\ Unwritten(p) /\ ~BeingRead(p) => disk[p] = data[page_table[p]]
    /\ \A p \in Page : p >= next_page_id => p \notin DOMAIN page_table /\ disk[p] = Zero
    /\ \A t \in Client \ pending :
         LET c == call[t] IN
          /\ c.op \in {"new", "fetch", "delete"} /\ page_id[c.frame] # NoPage =>
                disk[page_id[c.frame]] = data[c.frame]
          /\ c.op \in {"flush", "flushing"} /\ Unwritten(c.page) =>
                disk[c.page] = data[page_table[c.page]]
    /\ \A t \in Client : call[t].op = "new" => disk[call[t].page] = Zero

PoolInv ==
    /\ Types /\ PlacesFit /\ HoldersFit /\ SchedulerFits /\ DiskFits
    /\ \A t \in Client : CallFits(t)

-----------------------------------------------------------------------------
(* Calls. *)

\* What a call carries.
LEMMA CallFields ==
    ASSUME Types, NEW t \in Client
    PROVE  /\ call[t].op \in {"new", "fetch", "read", "flush", "delete"} =>
                call[t].page \in Page /\ call[t].frame \in Frame
           /\ call[t].op \in {"element", "next", "flushing"} =>
                call[t].page \in Page /\ call[t].left \in SUBSET Page
<1>1. call[t] \in CallType
  BY DEF Types
<1> QED BY <1>1 DEF CallType, Idle

\* The calls that the actions make are calls.
LEMMA CallRecords ==
    ASSUME NEW p \in Page
    PROVE  /\ Idle \in CallType /\ Idle.op = "none"
           /\ \A f \in Frame : \A op \in {"new", "fetch", "read", "flush", "delete"} :
                 [op |-> op, page |-> p, frame |-> f] \in CallType
           /\ \A left \in SUBSET Page : \A op \in {"element", "next", "flushing"} :
                 [op |-> op, page |-> p, left |-> left] \in CallType
<1> QED BY DEF CallType, Idle

\* At most one call is under way under the latch.
LEMMA OneInside ==
    ASSUME PoolInv
    PROVE  /\ \A t \in Client : call[t].op \in Inside <=> latch = t
           /\ latch \notin Client => InHand = {}
           /\ \A t \in Client : latch = t =>
                 InHand = IF call[t].op \in {"new", "fetch"} THEN {call[t].frame} ELSE {}
<1>1. ASSUME NEW t \in Client
      PROVE  call[t].op \in Inside <=> latch = t
  BY DEF PoolInv, CallFits
<1>2. {"new", "fetch"} \subseteq Inside
  BY DEF Inside
<1>3. latch \notin Client => InHand = {}
  BY <1>1, <1>2 DEF InHand
<1>4. ASSUME NEW t \in Client, latch = t
      PROVE  InHand = IF call[t].op \in {"new", "fetch"} THEN {call[t].frame} ELSE {}
  <2>1. \A u \in Client : call[u].op \in {"new", "fetch"} => u = t
    BY <1>1, <1>2, <1>4
  <2> QED BY <2>1 DEF InHand
<1> QED BY <1>1, <1>3, <1>4

\* Where a page is written out from.
LEMMA Served ==
    ASSUME PoolInv, NEW t \in Client, latch = t
    PROVE  Rests \/ Serves(t)
<1>1. latch # Destroyed
  BY PoolAssumption
<1> QED BY <1>1 DEF PoolInv, SchedulerFits, Ends

\* The latch is free: the worker rests.
LEMMA RestsWhenFree ==
    ASSUME PoolInv, latch = NoThread
    PROVE  Rests
<1>1. latch # Destroyed /\ latch \notin Client
  BY PoolAssumption DEF PoolInv, Types
<1> QED BY <1>1 DEF PoolInv, SchedulerFits, Ends

\* In a new pool all frames are free.
LEMMA PoolInit == Init => PoolInv
<1> SUFFICES ASSUME Init
             PROVE  PoolInv
  OBVIOUS
<1>0. /\ latch = NoThread /\ next_page_id = 0 /\ free_list = Frames /\ page_table = <<>>
      /\ page_id = [f \in Frame |-> NoPage] /\ pin_count = [f \in Frame |-> 0]
      /\ is_dirty = [f \in Frame |-> FALSE] /\ call = [t \in Client |-> Idle]
      /\ held = [t \in Client |-> {}] /\ wrote = [t \in Client |-> {}]
      /\ tracked = {} /\ evictable = {} /\ request_queue = <<>> /\ node = NoRequest
      /\ pending = {} /\ data = [b \in Frame |-> Zero] /\ disk = [p \in Page |-> Zero]
  BY PoolAssumption DEF Init, SchedulerInit, R!Init
<1>1. DOMAIN page_table = {}
  BY <1>0
<1>2. InHand = {} /\ Free = Frame /\ \A t \in Client : call[t].op = "none"
  <2>1. \A t \in Client : call[t].op = "none"
    <3> SUFFICES ASSUME NEW t \in Client
                 PROVE  call[t].op = "none"
      BY Zenon
    <3>1. call[t] = Idle
      BY <1>0
    <3> QED BY <3>1 DEF Idle
  <2>2. InHand = {}
    BY <2>1 DEF InHand
  <2>3. Free = Frame
    BY SMTT(60), <1>0, PoolAssumption, ElementOfSeq DEF Free
  <2> QED BY <2>1, <2>2, <2>3
<1>3. Types
  <2>1. page_table \in [DOMAIN page_table -> Frame]
    BY <1>0, <1>1
  <2> QED BY <1>0, <1>1, <2>1, PoolAssumption, SchedulerAssumption DEF Types, CallType
<1>4. PlacesFit
  BY <1>0, <1>1, <1>2, PoolAssumption DEF PlacesFit
<1>5. HoldersFit
  BY <1>0, <1>1 DEF HoldersFit
<1>6. SchedulerFits
  BY <1>0, PoolAssumption DEF SchedulerFits, Rests
<1>7. DiskFits
  BY <1>0, <1>1, <1>2, PoolAssumption DEF DiskFits
<1>8. ASSUME NEW t \in Client
      PROVE  CallFits(t)
  BY <1>0, <1>2, PoolAssumption DEF CallFits, Inside
<1> QED BY <1>3, <1>4, <1>5, <1>6, <1>7, <1>8 DEF PoolInv

-----------------------------------------------------------------------------
(* Steps beside the latch. *)

\* A walk of FlushAllPages between two elements.
LEMMA WalkKeeps ==
    ASSUME PoolInv, NEW t \in Client, NEW x \in CallType,
           call[t].op \notin Inside, x.op \notin Inside, call' = [call EXCEPT ![t] = x],
           UNCHANGED <<scheduler, latch, pool, users>>
    PROVE  PoolInv'
<1>0. Types /\ PlacesFit /\ HoldersFit /\ SchedulerFits /\ DiskFits
      /\ \A u \in Client : CallFits(u)
  BY DEF PoolInv
<1>1. /\ latch' = latch /\ next_page_id' = next_page_id /\ free_list' = free_list
      /\ page_table' = page_table /\ page_id' = page_id /\ pin_count' = pin_count
      /\ is_dirty' = is_dirty /\ tracked' = tracked /\ evictable' = evictable
      /\ held' = held /\ wrote' = wrote /\ request_queue' = request_queue /\ node' = node
      /\ data' = data /\ disk' = disk /\ pending' = pending
  BY DEF scheduler, pool, frames, users
<1>2. call'[t] = x /\ \A u \in Client \ {t} : call'[u] = call[u]
  BY <1>0 DEF Types
<1>3. latch # t /\ pending \subseteq Client \ {t}
  <2>1. latch # t
    BY OneInside
  <2> QED BY <1>0, <2>1 DEF SchedulerFits, Rests, Ends, Serves
<1>4. /\ x.op \notin {"new", "fetch", "read", "flush", "delete", "flushing"}
      /\ call[t].op \notin {"new", "fetch", "read", "flush", "delete", "flushing"}
  BY DEF Inside
<1>5. /\ InHand' = InHand
      /\ \A f : Holders(f)' = Holders(f)
  <2>1. InHand' = InHand
    BY <1>2, <1>4 DEF InHand
  <2>2. \A f : Holders(f)' = Holders(f)
    BY <1>1, <1>2, <1>4 DEF Holders
  <2> QED BY <2>1, <2>2
<1>6. Types'
  BY <1>0, <1>1 DEF Types
<1>7. PlacesFit'
  BY <1>0, <1>1, <1>5 DEF PlacesFit, Free
<1>8. HoldersFit'
  BY <1>0, <1>1, <1>5 DEF HoldersFit
<1>9. SchedulerFits'
  <2>1. CASE (Rests /\ latch # Destroyed) \/ Ends
    BY <1>1, <2>1 DEF SchedulerFits, Rests, Ends
  <2>2. ASSUME NEW u \in Client, latch = u, Serves(u)
        PROVE  Serves(u)'
    BY <1>1, <1>2, <1>3, <2>2 DEF Serves, Asked
  <2> QED BY <1>0, <1>1, <2>1, <2>2 DEF SchedulerFits
<1>10. DiskFits'
  <2>1. \A p : Unwritten(p)' = Unwritten(p) /\ BeingRead(p)' = BeingRead(p)
    BY <1>1, <1>2, <1>3 DEF Unwritten, BeingRead
  <2> QED BY <1>0, <1>1, <1>2, <1>3, <1>4, <2>1 DEF DiskFits
<1>11. \A u \in Client : CallFits(u)'
  BY <1>0, <1>1, <1>2, <1>3, <1>4 DEF CallFits, Inside
<1> QED BY <1>6, <1>7, <1>8, <1>9, <1>10, <1>11 DEF PoolInv

-----------------------------------------------------------------------------
(* The worker. *)

\* The worker takes the one request there is, or the end of the queue.
LEMMA GetKeeps ==
    ASSUME PoolInv, Get, UNCHANGED <<latch, pool, call, users>>
    PROVE  PoolInv'
<1>0. Types /\ PlacesFit /\ HoldersFit /\ SchedulerFits /\ DiskFits
      /\ \A u \in Client : CallFits(u)
  BY DEF PoolInv
<1>1. /\ latch' = latch /\ next_page_id' = next_page_id /\ free_list' = free_list
      /\ page_table' = page_table /\ page_id' = page_id /\ pin_count' = pin_count
      /\ is_dirty' = is_dirty /\ tracked' = tracked /\ evictable' = evictable
      /\ call' = call /\ held' = held /\ wrote' = wrote
      /\ data' = data /\ disk' = disk /\ pending' = pending
  BY DEF Get, pool, frames, users
<1>2. /\ node = NoRequest /\ request_queue # <<>>
      /\ node' = Head(request_queue) /\ request_queue' = Tail(request_queue)
  BY DEF Get
<1>3. InHand' = InHand /\ \A f : Holders(f)' = Holders(f)
  BY <1>1 DEF InHand, Holders
<1>4. Types'
  BY <1>0, <1>1 DEF Types
<1>5. PlacesFit'
  BY <1>0, <1>1, <1>3 DEF PlacesFit, Free
<1>6. HoldersFit'
  BY <1>0, <1>1, <1>3 DEF HoldersFit
<1>7. SchedulerFits'
  <2>1. CASE Ends
    <3>1. request_queue = <<NullOpt>>
      BY <1>2, <2>1, SchedulerAssumption DEF Ends
    <3>2. PICK r : r = NullOpt
      OBVIOUS
    <3>3. request_queue = <<r>>
      BY <3>1, <3>2
    <3>4. node' = r /\ request_queue' = <<>>
      BY <1>2, <3>3
    <3>5. Ends'
      BY <1>1, <2>1, <3>2, <3>4 DEF Ends
    <3> QED BY <3>5 DEF SchedulerFits
  <2>2. ASSUME NEW u \in Client, latch = u, Serves(u)
        PROVE  Serves(u)'
    <3>1. Asked(u)' = Asked(u)
      BY <1>1 DEF Asked
    <3>2. PICK r : r = Asked(u)
      OBVIOUS
    <3>3. request_queue = <<r>> \/ node = r
      BY <2>2, <3>2 DEF Serves
    <3>4. r # NoRequest
      BY <2>2, <3>2, SchedulerAssumption DEF Serves
    <3>5. node' = r /\ request_queue' = <<>>
      BY <1>2, <3>3, <3>4
    <3> QED BY <1>1, <2>2, <3>1, <3>2, <3>5 DEF Serves
  <2> QED BY <1>0, <1>1, <1>2, <2>1, <2>2 DEF SchedulerFits, Rests
<1>8. DiskFits'
  <2>1. \A p : Unwritten(p)' = Unwritten(p) /\ BeingRead(p)' = BeingRead(p)
    BY <1>1 DEF Unwritten, BeingRead
  <2> QED BY <1>0, <1>1, <2>1 DEF DiskFits
<1>9. \A u \in Client : CallFits(u)'
  BY <1>0, <1>1 DEF CallFits
<1> QED BY <1>4, <1>5, <1>6, <1>7, <1>8, <1>9 DEF PoolInv

\* The request in the worker's hands is of the call that holds the latch.
LEMMA AtWork ==
    ASSUME PoolInv, node \notin {NoRequest, NullOpt}
    PROVE  \E u \in Client :
              /\ latch = u /\ pending = {u} /\ node = Asked(u) /\ request_queue = <<>>
              /\ node \in Requests
<1>1. PICK u \in Client : latch = u /\ Serves(u)
  BY DEF PoolInv, SchedulerFits, Rests, Ends
<1> QED BY <1>1 DEF Serves

\* The frame a call has asked the worker to read or write, and its page.
LEMMA AskedIs ==
    ASSUME PoolInv, NEW u \in Client, latch = u, Asked(u) \in Requests
    PROVE  \E f \in Frame, p \in Page :
              /\ Asked(u) = Request(u, call[u].op # "read", f, p)
              /\ p = page_id[f] /\ p \in DOMAIN page_table /\ page_table[p] = f
              /\ call[u].op \in {"new", "fetch", "delete"} => f = call[u].frame
              /\ call[u].op \in {"read", "flush"} => f = call[u].frame /\ p = call[u].page
              /\ call[u].op = "flushing" => p = call[u].page
<1>0. Types /\ PlacesFit /\ CallFits(u)
  BY DEF PoolInv
<1>1. PICK f : f = IF call[u].op = "flushing" THEN page_table[call[u].page] ELSE call[u].frame
  OBVIOUS
<1>2. Asked(u) = Request(u, call[u].op # "read", f, page_id[f])
  BY <1>1 DEF Asked
<1>3. f \in Frame /\ page_id[f] \in Page
  BY <1>2, PoolAssumption DEF Requests, Request
<1>4. page_id[f] \in DOMAIN page_table /\ page_table[page_id[f]] = f
  BY <1>0, <1>3, PoolAssumption DEF PlacesFit
<1>5. /\ call[u].op \in {"new", "fetch", "delete"} => f = call[u].frame
      /\ call[u].op \in {"read", "flush"} => f = call[u].frame /\ page_id[f] = call[u].page
      /\ call[u].op = "flushing" => page_id[f] = call[u].page
  <2>1. call[u].op \in {"read", "flush"} =>
          call[u].page \in DOMAIN page_table /\ page_table[call[u].page] = call[u].frame
    BY <1>0 DEF CallFits
  <2>2. call[u].op = "flushing" => call[u].page \in DOMAIN page_table
    BY <1>0 DEF CallFits
  <2> QED BY <1>0, <1>1, <2>1, <2>2 DEF PlacesFit
<1> QED BY <1>2, <1>3, <1>4, <1>5

\* The page is written to or read from where the request says, and its call may go on.
LEMMA PerformKeeps ==
    ASSUME PoolInv, Perform, UNCHANGED <<latch, pool, call, users>>
    PROVE  PoolInv'
<1>0. Types /\ PlacesFit /\ HoldersFit /\ DiskFits /\ \A u \in Client : CallFits(u)
  BY DEF PoolInv
<1>1. /\ latch' = latch /\ next_page_id' = next_page_id /\ free_list' = free_list
      /\ page_table' = page_table /\ page_id' = page_id /\ pin_count' = pin_count
      /\ is_dirty' = is_dirty /\ tracked' = tracked /\ evictable' = evictable
      /\ call' = call /\ held' = held /\ wrote' = wrote /\ request_queue' = request_queue
  BY DEF Perform, pool, frames, users
<1>2. PICK u \in Client : /\ latch = u /\ pending = {u} /\ node = Asked(u)
                          /\ request_queue = <<>> /\ Asked(u) \in Requests
  BY AtWork DEF Perform
<1>3. PICK f \in Frame, p \in Page :
        /\ Asked(u) = Request(u, call[u].op # "read", f, p)
        /\ p = page_id[f] /\ p \in DOMAIN page_table /\ page_table[p] = f
        /\ call[u].op \in {"new", "fetch", "delete"} => f = call[u].frame
        /\ call[u].op \in {"read", "flush"} => f = call[u].frame /\ p = call[u].page
        /\ call[u].op = "flushing" => p = call[u].page
  BY <1>2, AskedIs
<1>4. /\ node.from = u /\ node.is_write = (call[u].op # "read") /\ node.data = f
      /\ node.page_id = p
  BY <1>2, <1>3 DEF Request
<1>5. /\ pending' = {} /\ node' = NoRequest
      /\ call[u].op # "read" => disk' = [disk EXCEPT ![p] = data[f]] /\ data' = data
      /\ call[u].op = "read" => data' = [data EXCEPT ![f] = disk[p]] /\ disk' = disk
  BY <1>2, <1>4 DEF Perform, Kept
<1>6. InHand' = InHand /\ \A g : Holders(g)' = Holders(g)
  BY <1>1 DEF InHand, Holders
<1>7. /\ data' \in [Frame -> Value] /\ disk' \in [Page -> Value]
      /\ call[u].op # "read" => \A q \in Page : disk'[q] = IF q = p THEN data[f] ELSE disk[q]
      /\ call[u].op = "read" => \A g \in Frame : data'[g] = IF g = f THEN disk[p] ELSE data[g]
  BY <1>0, <1>5 DEF Types
<1>8. Types'
  BY <1>0, <1>1, <1>7 DEF Types
<1>9. PlacesFit'
  BY <1>0, <1>1, <1>6 DEF PlacesFit, Free
<1>10. HoldersFit'
  BY <1>0, <1>1, <1>6 DEF HoldersFit
<1>11. SchedulerFits'
  BY <1>1, <1>2, <1>5, PoolAssumption DEF SchedulerFits, Rests
<1>12. DiskFits'
  <2>0. \A q : Unwritten(q)' = Unwritten(q)
    BY <1>1 DEF Unwritten
  <2>1. ASSUME NEW q \in DOMAIN page_table, ~is_dirty[page_table[q]], Unwritten(q)
        PROVE  disk'[q] = data'[page_table[q]]
    <3>1. q \in Page /\ page_table[q] \in Frame /\ page_id[page_table[q]] = q
      BY <1>0 DEF Types, PlacesFit
    <3>2. CASE q = p
      BY <1>3, <1>5, <1>7, <3>1, <3>2
    <3>3. CASE q # p
      <4>1. ~BeingRead(q)
        BY <1>2, <1>3, <3>3 DEF BeingRead
      <4>2. disk[q] = data[page_table[q]]
        BY <1>0, <2>1, <4>1 DEF DiskFits
      <4>3. page_table[q] # f
        BY <1>3, <3>1, <3>3
      <4> QED BY <1>5, <1>7, <3>1, <3>3, <4>2, <4>3
    <3> QED BY <3>2, <3>3
  <2>2. ASSUME NEW q \in Page, q >= next_page_id
        PROVE  q \notin DOMAIN page_table /\ disk'[q] = Zero
    BY <1>0, <1>3, <1>5, <1>7, <2>2 DEF DiskFits
  <2>3. ASSUME NEW t \in Client, call[t].op \in {"new", "fetch", "delete"},
               page_id[call[t].frame] # NoPage
        PROVE  disk'[page_id[call[t].frame]] = data'[call[t].frame]
    <3>1. t = u
      BY <1>2, <2>3, OneInside DEF Inside
    <3> QED BY <1>3, <1>5, <1>7, <2>3, <3>1
  <2>4. ASSUME NEW t \in Client, call[t].op \in {"flush", "flushing"}
        PROVE  disk'[call[t].page] = data'[page_table[call[t].page]]
    <3>1. t = u
      BY <1>2, <2>4, OneInside DEF Inside
    <3> QED BY <1>3, <1>5, <1>7, <2>4, <3>1
  <2>5. ASSUME NEW t \in Client, call[t].op = "new"
        PROVE  disk'[call[t].page] = Zero
    <3>1. call[t].page \in Page /\ call[t].page \notin DOMAIN page_table
      BY <1>0, <2>5, CallFields DEF CallFits
    <3>2. t = u
      BY <1>2, <2>5, OneInside DEF Inside
    <3> QED BY <1>0, <1>3, <1>7, <2>5, <3>1, <3>2 DEF DiskFits
  <2> QED BY <1>1, <2>0, <2>1, <2>2, <2>3, <2>4, <2>5 DEF DiskFits
<1>13. \A t \in Client : CallFits(t)'
  BY <1>0, <1>1 DEF CallFits
<1> QED BY <1>8, <1>9, <1>10, <1>11, <1>12, <1>13 DEF PoolInv

-----------------------------------------------------------------------------
(* Threads that hold pages. *)

\* Nothing is under way while the latch is free.
LEMMA FreeLatch ==
    ASSUME PoolInv, latch = NoThread
    PROVE  Rests /\ InHand = {} /\ \A u \in Client : call[u].op \notin Inside
<1>1. latch \notin Client
  BY PoolAssumption
<1> QED BY <1>1, RestsWhenFree, OneInside

\* A frame that is not pinned is not held, and nobody writes its page.
LEMMA Unpinned ==
    ASSUME PoolInv, NEW f \in Frame, page_id[f] # NoPage, pin_count[f] = 0
    PROVE  /\ Unwritten(page_id[f])
           /\ \A t \in Client : \A p : <<p, f>> \notin held[t]
<1>0. Types /\ PlacesFit /\ HoldersFit
  BY DEF PoolInv
<1>1. Holders(f) = {}
  BY <1>0, FS_EmptySet DEF HoldersFit
<1>2. ASSUME NEW t \in Client, NEW p, <<p, f>> \in held[t]
      PROVE  FALSE
  <2>1. p = page_id[f]
    BY <1>0, <1>2 DEF HoldersFit
  <2> QED BY <1>1, <1>2, <2>1 DEF Holders
<1>3. ASSUME NEW t \in Client, page_id[f] \in wrote[t]
      PROVE  FALSE
  <2>1. PICK g \in Frame : <<page_id[f], g>> \in held[t]
    BY <1>0, <1>3 DEF HoldersFit
  <2>2. page_id[g] = page_id[f]
    BY <1>0, <2>1 DEF HoldersFit
  <2>3. g = f
    BY <1>0, <2>2 DEF PlacesFit
  <2> QED BY <1>2, <2>1, <2>3
<1> QED BY <1>2, <1>3 DEF Unwritten

\* A thread writes into a frame it was given: the page is dirty or will be unpinned as dirty.
LEMMA WriteKeeps ==
    ASSUME PoolInv, NEW t \in Client, NEW p \in Page, NEW f \in Frame, NEW v \in Value,
           Write(t, p, f, v)
    PROVE  PoolInv'
<1>0. Types /\ PlacesFit /\ HoldersFit /\ SchedulerFits /\ DiskFits
      /\ \A u \in Client : CallFits(u)
  BY DEF PoolInv
<1>1. /\ latch' = latch /\ next_page_id' = next_page_id /\ free_list' = free_list
      /\ page_table' = page_table /\ page_id' = page_id /\ pin_count' = pin_count
      /\ is_dirty' = is_dirty /\ tracked' = tracked /\ evictable' = evictable
      /\ call' = call /\ held' = held /\ request_queue' = request_queue
      /\ node' = node /\ disk' = disk /\ pending' = pending
  BY DEF Write, pool, frames
<1>2. <<p, f>> \in held[t] /\ data' = [data EXCEPT ![f] = v]
      /\ wrote' = [wrote EXCEPT ![t] = @ \cup {p}]
  BY DEF Write
<1>3. page_id[f] = p /\ p \in DOMAIN page_table /\ page_table[p] = f /\ p # NoPage
  BY SMTT(60), <1>0, <1>2, PoolAssumption DEF HoldersFit, PlacesFit
<1>4. /\ data' \in [Frame -> Value] /\ wrote' \in [Client -> SUBSET Page]
      /\ \A g \in Frame \ {f} : data'[g] = data[g]
      /\ \A u \in Client : \A q : q \in wrote'[u] <=> q \in wrote[u] \/ (u = t /\ q = p)
  BY <1>0, <1>2 DEF Types
<1>5. \A q : Unwritten(q)' <=> Unwritten(q) /\ q # p
  BY <1>4 DEF Unwritten
<1>6. InHand' = InHand /\ (\A g : Holders(g)' = Holders(g))
      /\ \A q : BeingRead(q)' = BeingRead(q)
  BY <1>1 DEF InHand, Holders, BeingRead
<1>7. Types'
  BY <1>0, <1>1, <1>4 DEF Types
<1>8. PlacesFit'
  BY <1>0, <1>1, <1>6 DEF PlacesFit, Free
<1>9. HoldersFit'
  BY <1>0, <1>1, <1>2, <1>4, <1>6 DEF HoldersFit
<1>10. SchedulerFits'
  BY <1>0, <1>1 DEF SchedulerFits, Rests, Ends, Serves, Asked
<1>11. DiskFits'
  <2>1. ASSUME NEW q \in DOMAIN page_table, ~is_dirty[page_table[q]], Unwritten(q)', ~BeingRead(q)
        PROVE  disk[q] = data'[page_table[q]]
    <3>1. q # p /\ Unwritten(q)
      BY <1>5, <2>1
    <3>2. page_table[q] \in Frame \ {f}
      BY <1>0, <1>3, <3>1 DEF Types, PlacesFit
    <3> QED BY <1>0, <1>4, <2>1, <3>1, <3>2 DEF DiskFits
  <2>2. ASSUME NEW u \in Client \ pending, call[u].op \in {"new", "fetch", "delete"},
               page_id[call[u].frame] # NoPage
        PROVE  disk[page_id[call[u].frame]] = data'[call[u].frame]
    <3>1. call[u].frame \in Frame
      BY <1>0, <2>2, CallFields
    <3>2. pin_count[call[u].frame] = 0
      <4>1. CASE call[u].op = "delete"
        BY <1>0, <4>1 DEF CallFits
      <4>2. CASE call[u].op \in {"new", "fetch"}
        BY <1>0, <2>2, <4>2 DEF PlacesFit, InHand
      <4> QED BY <2>2, <4>1, <4>2
    <3>3. call[u].frame # f
      BY <1>2, <2>2, <3>1, <3>2, Unpinned
    <3> QED BY <1>0, <1>4, <2>2, <3>1, <3>3 DEF DiskFits
  <2>3. ASSUME NEW u \in Client \ pending, call[u].op \in {"flush", "flushing"},
               \A s \in Client : call[u].page \notin wrote'[s]
        PROVE  disk[call[u].page] = data'[page_table[call[u].page]]
    <3>1. call[u].page # p /\ Unwritten(call[u].page)
      BY <1>4, <2>3 DEF Unwritten
    <3>2. call[u].page \in DOMAIN page_table
      BY <1>0, <2>3 DEF CallFits
    <3>3. page_table[call[u].page] \in Frame \ {f}
      BY <1>0, <1>3, <3>1, <3>2 DEF Types, PlacesFit
    <3> QED BY <1>0, <1>4, <2>3, <3>1, <3>3 DEF DiskFits
  <2>4. /\ \A q \in Page : q >= next_page_id => q \notin DOMAIN page_table /\ disk[q] = Zero
        /\ \A u \in Client : call[u].op = "new" => disk[call[u].page] = Zero
    BY <1>0 DEF DiskFits
  <2>5. \A u \in Client \ pending : call'[u].op \in {"flush", "flushing"} =>
          \/ disk'[call'[u].page] = data'[page_table'[call'[u].page]]
          \/ ~Unwritten(call[u].page)'
    BY <1>1, <2>3 DEF Unwritten
  <2> QED BY <1>1, <1>6, <2>1, <2>2, <2>4, <2>5 DEF DiskFits
<1>12. \A u \in Client : CallFits(u)'
  BY <1>0, <1>1 DEF CallFits
<1> QED BY <1>7, <1>8, <1>9, <1>10, <1>11, <1>12 DEF PoolInv

\* One more holder of a page in the table.
LEMMA FetchHitKeeps ==
    ASSUME PoolInv, NEW t \in Client, NEW p \in Page, FetchHit(t, p)
    PROVE  PoolInv'
<1>0. Types /\ PlacesFit /\ HoldersFit /\ SchedulerFits /\ DiskFits
      /\ \A u \in Client : CallFits(u)
  BY DEF PoolInv
<1>1. /\ latch' = latch /\ next_page_id' = next_page_id /\ free_list' = free_list
      /\ page_table' = page_table /\ page_id' = page_id /\ is_dirty' = is_dirty
      /\ call' = call /\ wrote' = wrote /\ request_queue' = request_queue
      /\ node' = node /\ data' = data /\ disk' = disk /\ pending' = pending
  BY DEF FetchHit, scheduler
<1>2. latch = NoThread /\ p \in DOMAIN page_table /\ ~Holds(t, p) /\ call[t] = Idle
  BY DEF FetchHit, Enter, MayHold
<1>3. PICK f \in Frame : f = page_table[p]
  BY <1>0, <1>2 DEF Types
<1>4. /\ pin_count' = [pin_count EXCEPT ![f] = @ + 1]
      /\ tracked' = tracked \cup {f} /\ evictable' = evictable \ {f}
      /\ held' = [held EXCEPT ![t] = @ \cup {<<p, f>>}]
  BY <1>3 DEF FetchHit, PinFrame, Hold
<1>5. Rests /\ InHand = {} /\ InHand' = {} /\ \A u \in Client : call[u].op # "read"
  <2>1. Rests /\ InHand = {} /\ \A u \in Client : call[u].op \notin Inside
    BY <1>2, FreeLatch
  <2> QED BY <1>1, <2>1 DEF Inside, InHand
<1>6. page_id[f] = p /\ p # NoPage /\ f \in tracked
  BY <1>0, <1>2, <1>3, <1>5, PoolAssumption DEF PlacesFit
<1>7. /\ pin_count' \in [Frame -> Nat] /\ pin_count'[f] = pin_count[f] + 1
      /\ \A g \in Frame \ {f} : pin_count'[g] = pin_count[g]
  BY <1>0, <1>4 DEF Types
<1>8. /\ held' \in [Client -> SUBSET (Page \X Frame)]
      /\ held'[t] = held[t] \cup {<<p, f>>}
      /\ \A u \in Client \ {t} : held'[u] = held[u]
  BY <1>0, <1>4 DEF Types
<1>9. Types'
  BY <1>0, <1>1, <1>4, <1>7, <1>8 DEF Types
<1>10. PlacesFit'
  <2>1. evictable' = {g \in tracked' : pin_count'[g] = 0}
    <3>1. evictable = {g \in tracked : pin_count[g] = 0} /\ tracked' = tracked
      BY <1>0, <1>4, <1>6 DEF PlacesFit
    <3>2. pin_count'[f] # 0 /\ tracked \subseteq Frame
      BY <1>0, <1>7 DEF Types
    <3> QED BY <1>4, <1>7, <3>1, <3>2
  <2> QED BY <1>0, <1>1, <1>4, <1>5, <1>6, <2>1 DEF PlacesFit, Free
<1>11. HoldersFit'
  <2>1. ASSUME NEW u \in Client, NEW x \in held'[u]
        PROVE  page_id[x[2]] = x[1]
    BY <1>0, <1>6, <1>8, <2>1 DEF HoldersFit
  <2>2. ASSUME NEW g \in Frame, page_id[g] # NoPage
        PROVE  IsFiniteSet(Holders(g)') /\ pin_count'[g] = Cardinality(Holders(g)')
    <3>1. IsFiniteSet(Holders(g)) /\ pin_count[g] = Cardinality(Holders(g))
      BY <1>0, <2>2 DEF HoldersFit
    <3>2. CASE g = f
      <4>1. t \notin Holders(f)
        BY <1>2, <1>5, <1>6 DEF Holders, Holds
      <4>2. Holders(f)' = Holders(f) \cup {t}
        BY <1>1, <1>6, <1>8 DEF Holders
      <4> QED BY <1>7, <3>1, <3>2, <4>1, <4>2, FS_AddElement
    <3>3. CASE g # f
      <4>1. Holders(g)' = Holders(g)
        BY <1>1, <1>8, <3>3 DEF Holders
      <4> QED BY <1>7, <3>1, <3>3, <4>1
    <3> QED BY <3>2, <3>3
  <2>3. ASSUME NEW u \in Client, NEW q \in wrote[u]
        PROVE  \E g \in Frame : <<q, g>> \in held'[u]
    BY <1>0, <1>8 DEF HoldersFit
  <2> QED BY <1>1, <2>1, <2>2, <2>3 DEF HoldersFit
<1>12. SchedulerFits'
  BY <1>0, <1>1 DEF SchedulerFits, Rests, Ends, Serves, Asked
<1>13. DiskFits'
  BY <1>0, <1>1 DEF DiskFits, Unwritten, BeingRead
<1>14. ASSUME NEW u \in Client
       PROVE  CallFits(u)'
  <2>1. call[u].op \notin Inside
    BY <1>2, FreeLatch
  <2> QED BY <1>0, <1>1, <2>1 DEF CallFits, Inside
<1> QED BY <1>9, <1>10, <1>11, <1>12, <1>13, <1>14 DEF PoolInv

\* The last step of a pin: the frame may be evicted again.
LEMMA UnpinKeeps ==
    ASSUME PoolInv, NEW t \in Client, NEW p \in Page, NEW dirty \in BOOLEAN,
           UnpinPage(t, p, dirty)
    PROVE  PoolInv'
<1>0. Types /\ PlacesFit /\ HoldersFit /\ SchedulerFits /\ DiskFits
      /\ \A u \in Client : CallFits(u)
  BY DEF PoolInv
<1>1. /\ latch' = latch /\ next_page_id' = next_page_id /\ free_list' = free_list
      /\ page_table' = page_table /\ page_id' = page_id /\ call' = call
      /\ request_queue' = request_queue /\ node' = node /\ data' = data /\ disk' = disk
      /\ pending' = pending
  BY DEF UnpinPage, scheduler
<1>2. /\ latch = NoThread /\ p \in DOMAIN page_table /\ Holds(t, p) /\ call[t] = Idle
      /\ p \in wrote[t] => dirty
  BY DEF UnpinPage, Enter
<1>3. PICK f \in Frame : f = page_table[p]
  BY <1>0, <1>2 DEF Types
<1>4. /\ pin_count[f] > 0 /\ pin_count' = [pin_count EXCEPT ![f] = @ - 1]
      /\ IF pin_count'[f] = 0
           THEN tracked' = tracked /\ evictable' = evictable \cup ({f} \cap tracked)
           ELSE tracked' = tracked /\ evictable' = evictable
      /\ is_dirty' = [is_dirty EXCEPT ![f] = dirty \/ is_dirty[f]]
      /\ held' = [held EXCEPT ![t] = {x \in @ : x[1] # p}]
      /\ wrote' = [wrote EXCEPT ![t] = @ \ {p}]
  BY <1>3 DEF UnpinPage, Evictable, DirtyAfter, R!MayEvict
<1>5. Rests /\ InHand = {} /\ InHand' = {} /\ \A u \in Client : call[u].op \notin Inside
  <2>1. Rests /\ InHand = {} /\ \A u \in Client : call[u].op \notin Inside
    BY <1>2, FreeLatch
  <2> QED BY <1>1, <2>1 DEF InHand
<1>6. page_id[f] = p /\ p # NoPage /\ f \in tracked
  BY <1>0, <1>2, <1>3, <1>5, PoolAssumption DEF PlacesFit
<1>7. /\ pin_count' \in [Frame -> Nat] /\ pin_count'[f] = pin_count[f] - 1
      /\ pin_count[f] \in Nat
      /\ \A g \in Frame \ {f} : pin_count'[g] = pin_count[g]
  BY <1>0, <1>4 DEF Types
<1>8. /\ held' \in [Client -> SUBSET (Page \X Frame)]
      /\ wrote' \in [Client -> SUBSET Page] /\ is_dirty' \in [Frame -> BOOLEAN]
  BY <1>0, <1>4 DEF Types
<1>9. /\ held'[t] = {x \in held[t] : x[1] # p} /\ \A u \in Client \ {t} : held'[u] = held[u]
      /\ wrote'[t] = wrote[t] \ {p} /\ \A u \in Client \ {t} : wrote'[u] = wrote[u]
      /\ is_dirty'[f] = (dirty \/ is_dirty[f])
      /\ \A g \in Frame \ {f} : is_dirty'[g] = is_dirty[g]
  BY <1>0, <1>4 DEF Types
<1>10. Types'
  <2>1. tracked' \subseteq Frame /\ evictable' \subseteq Frame
    BY <1>0, <1>4 DEF Types
  <2> QED BY <1>0, <1>1, <1>7, <1>8, <2>1 DEF Types
<1>11. PlacesFit'
  <2>1. evictable' = {g \in tracked' : pin_count'[g] = 0}
    <3>1. evictable = {g \in tracked : pin_count[g] = 0} /\ tracked' = tracked
      BY <1>0, <1>4 DEF PlacesFit
    <3>2. tracked \subseteq Frame
      BY <1>0 DEF Types
    <3> QED BY <1>4, <1>6, <1>7, <3>1, <3>2
  <2>2. tracked' = tracked
    BY <1>4
  <2>3. \A g \in Frame : page_id[g] = NoPage => ~is_dirty'[g]
    BY <1>0, <1>6, <1>9 DEF PlacesFit
  <2> QED BY <1>0, <1>1, <1>5, <2>1, <2>2, <2>3 DEF PlacesFit, Free
<1>12. HoldersFit'
  <2>1. ASSUME NEW u \in Client, NEW x \in held'[u]
        PROVE  page_id[x[2]] = x[1]
    BY <1>0, <1>9, <2>1 DEF HoldersFit
  <2>2. ASSUME NEW g \in Frame, page_id[g] # NoPage
        PROVE  IsFiniteSet(Holders(g)') /\ pin_count'[g] = Cardinality(Holders(g)')
    <3>1. IsFiniteSet(Holders(g)) /\ pin_count[g] = Cardinality(Holders(g))
      BY <1>0, <2>2 DEF HoldersFit
    <3>2. CASE g = f
      <4>1. PICK h \in Frame : <<p, h>> \in held[t]
        BY <1>2 DEF Holds
      <4>2. h = f
        BY <1>0, <1>3, <1>6, <4>1 DEF HoldersFit, PlacesFit
      <4>3. t \in Holders(f)
        BY <1>6, <4>1, <4>2 DEF Holders
      <4>4. Holders(f)' = Holders(f) \ {t}
        BY <1>1, <1>5, <1>6, <1>9 DEF Holders, Inside
      <4> QED BY <1>7, <3>1, <3>2, <4>3, <4>4, FS_RemoveElement
    <3>3. CASE g # f
      <4>1. page_id[g] # p
        BY <1>0, <1>3, <2>2, <3>3 DEF PlacesFit
      <4>2. Holders(g)' = Holders(g)
        BY <1>1, <1>9, <4>1 DEF Holders
      <4> QED BY <1>7, <3>1, <3>3, <4>2
    <3> QED BY <3>2, <3>3
  <2>3. ASSUME NEW u \in Client, NEW q \in wrote'[u]
        PROVE  \E g \in Frame : <<q, g>> \in held'[u]
    <3>1. q \in wrote[u] /\ (u = t => q # p)
      BY <1>9, <2>3
    <3>2. PICK g \in Frame : <<q, g>> \in held[u]
      BY <1>0, <3>1 DEF HoldersFit
    <3>3. <<q, g>> \in held'[u]
      BY SMTT(60), <1>9, <3>1, <3>2
    <3> QED BY <3>3
  <2> QED BY <1>1, <2>1, <2>2, <2>3 DEF HoldersFit
<1>13. SchedulerFits'
  BY <1>0, <1>1 DEF SchedulerFits, Rests, Ends, Serves, Asked
<1>14. DiskFits'
  <2>1. ASSUME NEW q \in DOMAIN page_table, ~is_dirty'[page_table[q]], Unwritten(q)'
        PROVE  disk[q] = data[page_table[q]]
    <3>1. ~is_dirty[page_table[q]] /\ Unwritten(q)
      <4>1. CASE q = p
        BY <1>2, <1>3, <1>9, <2>1, <4>1 DEF Unwritten
      <4>2. CASE q # p
        <5>1. page_table[q] \in Frame \ {f}
          BY <1>0, <1>6, <4>2 DEF Types, PlacesFit
        <5> QED BY <1>9, <2>1, <4>2, <5>1 DEF Unwritten
      <4> QED BY <4>1, <4>2
    <3>2. ~BeingRead(q)
      BY <1>5 DEF Rests, BeingRead
    <3> QED BY <1>0, <2>1, <3>1, <3>2 DEF DiskFits
  <2>2. /\ \A q \in Page : q >= next_page_id => q \notin DOMAIN page_table /\ disk[q] = Zero
        /\ \A u \in Client : call[u].op = "new" => disk[call[u].page] = Zero
    BY <1>0 DEF DiskFits
  <2> QED BY <1>1, <1>5, <2>1, <2>2 DEF DiskFits, Inside
<1>15. ASSUME NEW u \in Client
       PROVE  CallFits(u)'
  BY <1>0, <1>1, <1>5 DEF CallFits, Inside
<1> QED BY <1>10, <1>11, <1>12, <1>13, <1>14, <1>15 DEF PoolInv

-----------------------------------------------------------------------------
(* Flushing, and the first halves of calls. *)

\* A call takes the latch and has a page of the table written, unless the page is clean and
\* about to be deleted.
LEMMA EntersKeeps ==
    ASSUME PoolInv, NEW t \in Client, NEW p \in DOMAIN page_table, NEW x \in CallType,
           latch = NoThread, latch' = t, call' = [call EXCEPT ![t] = x],
           x.op \in {"flush", "delete", "flushing"}, x.page = p,
           x.op \in {"flush", "delete"} => x.frame = page_table[p],
           x.op = "delete" => pin_count[page_table[p]] = 0,
           \/ WriteOut(t, page_table[p])
           \/ x.op = "delete" /\ ~is_dirty[page_table[p]] /\ UNCHANGED scheduler,
           UNCHANGED <<pool, users>>
    PROVE  PoolInv'
<1>0. Types /\ PlacesFit /\ HoldersFit /\ DiskFits /\ \A u \in Client : CallFits(u)
  BY DEF PoolInv
<1>1. /\ next_page_id' = next_page_id /\ free_list' = free_list
      /\ page_table' = page_table /\ page_id' = page_id /\ pin_count' = pin_count
      /\ is_dirty' = is_dirty /\ tracked' = tracked /\ evictable' = evictable
      /\ held' = held /\ wrote' = wrote /\ node' = node
      /\ data' = data /\ disk' = disk
  BY DEF scheduler, pool, frames, users, WriteOut
<1>2. /\ call'[t] = x /\ \A u \in Client \ {t} : call'[u] = call[u]
      /\ call' \in [Client -> CallType]
  BY <1>0 DEF Types
<1>3. PICK f \in Frame : f = page_table[p]
  BY <1>0 DEF Types
<1>4. page_id[f] = p /\ p \in Page /\ p # NoPage
  BY <1>0, <1>3, PoolAssumption DEF PlacesFit, Types
<1>5. Rests /\ InHand = {} /\ \A u \in Client : call[u].op \notin Inside
  BY FreeLatch
<1>6. InHand' = {} /\ \A g : Holders(g)' = Holders(g)
  <2>1. \A u \in Client : call'[u].op \notin {"new", "fetch", "read"}
    BY <1>2, <1>5 DEF Inside
  <2>2. \A u \in Client : call[u].op # "read"
    BY <1>5 DEF Inside
  <2> QED BY <1>1, <2>1, <2>2 DEF InHand, Holders
<1>7. Types'
  BY <1>0, <1>1, <1>2 DEF Types
<1>8. PlacesFit'
  BY <1>0, <1>1, <1>5, <1>6 DEF PlacesFit, Free
<1>9. HoldersFit'
  BY <1>0, <1>1, <1>6 DEF HoldersFit
<1>10. PICK r : r = Request(t, TRUE, f, p)
  OBVIOUS
<1>11. /\ r \in Requests /\ r.from = t
       /\ Asked(t)' = r
  <2>1. r \in Requests /\ r.from = t
    BY <1>4, <1>10, PoolAssumption DEF Request, Requests
  <2>2. Asked(t)' = Request(t, x.op # "read", f, page_id[f])
    BY <1>1, <1>2, <1>3 DEF Asked
  <2> QED BY <1>4, <1>10, <2>1, <2>2
<1>12. \/ request_queue' = <<r>> /\ pending' = {t}
       \/ x.op = "delete" /\ ~is_dirty[f] /\ request_queue' = <<>> /\ pending' = {}
  <2>1. CASE WriteOut(t, page_table[p])
    <3>1. request_queue' = <<>> \o <<r>> /\ pending' = {} \cup {t}
      BY <1>3, <1>4, <1>5, <1>10, <1>11, <2>1 DEF WriteOut, Schedule, Put, Rests
    <3> QED BY <3>1
  <2>2. CASE x.op = "delete" /\ ~is_dirty[page_table[p]] /\ UNCHANGED scheduler
    BY <1>3, <1>5, <2>2 DEF scheduler, Rests
  <2> QED BY <2>1, <2>2
<1>13. SchedulerFits'
  <2>1. node' = NoRequest /\ latch' # Destroyed
    BY <1>1, <1>5, PoolAssumption DEF Rests
  <2>2. CASE request_queue' = <<r>> /\ pending' = {t}
    BY <1>11, <2>1, <2>2 DEF SchedulerFits, Serves
  <2>3. CASE request_queue' = <<>> /\ pending' = {}
    BY <2>1, <2>3 DEF SchedulerFits, Rests
  <2> QED BY <1>12, <2>2, <2>3
<1>14. DiskFits'
  <2>0. \A q : Unwritten(q)' = Unwritten(q) /\ ~BeingRead(q) /\ ~BeingRead(q)'
    BY <1>1, <1>2, <1>5, <1>12 DEF Unwritten, BeingRead, Rests
  <2>1. ASSUME t \notin pending', page_id[x.frame] # NoPage, x.op = "delete"
        PROVE  disk[page_id[x.frame]] = data[x.frame]
    <3>1. ~is_dirty[f] /\ Unwritten(p)
      BY <1>3, <1>4, <1>12, <2>1, Unpinned
    <3> QED BY <1>0, <1>3, <1>4, <2>0, <2>1, <3>1 DEF DiskFits
  <2>2. x.op \in {"flush", "flushing"} => t \in pending'
    BY <1>12
  <2>3. /\ \A q \in DOMAIN page_table :
              ~is_dirty[page_table[q]] /\ Unwritten(q) => disk[q] = data[page_table[q]]
        /\ \A q \in Page : q >= next_page_id => q \notin DOMAIN page_table /\ disk[q] = Zero
    BY <1>0, <2>0 DEF DiskFits
  <2>4. \A u \in Client : call'[u].op \in {"new", "fetch", "delete", "flush", "flushing"} => u = t
    BY <1>2, <1>5 DEF Inside
  <2> QED BY <1>1, <1>2, <2>0, <2>1, <2>2, <2>3, <2>4 DEF DiskFits
<1>15. ASSUME NEW u \in Client
       PROVE  CallFits(u)'
  BY <1>0, <1>1, <1>2, <1>5 DEF CallFits, Inside
<1> QED BY <1>7, <1>8, <1>9, <1>13, <1>14, <1>15 DEF PoolInv

\* A flush returns: the page is clean, or being written again.
LEMMA CleanedKeeps ==
    ASSUME PoolInv, NEW t \in Client, NEW x \in CallType, Waiting(t, call[t].op),
           call[t].op \in {"flush", "flushing"}, x.op \notin Inside,
           latch' = NoThread, call' = [call EXCEPT ![t] = x],
           Cleaned(page_table[call[t].page]),
           UNCHANGED <<scheduler, next_page_id, free_list, page_table, page_id, pin_count, tracked,
                       evictable, users>>
    PROVE  PoolInv'
<1>0. Types /\ PlacesFit /\ HoldersFit /\ DiskFits /\ \A u \in Client : CallFits(u)
  BY DEF PoolInv
<1>1. /\ next_page_id' = next_page_id /\ free_list' = free_list
      /\ page_table' = page_table /\ page_id' = page_id /\ pin_count' = pin_count
      /\ tracked' = tracked /\ evictable' = evictable
      /\ held' = held /\ wrote' = wrote /\ request_queue' = request_queue /\ node' = node
      /\ data' = data /\ disk' = disk /\ pending' = pending
  BY DEF scheduler, users
<1>2. /\ call'[t] = x /\ \A u \in Client \ {t} : call'[u] = call[u]
      /\ call' \in [Client -> CallType]
  BY <1>0 DEF Types
<1>3. latch = t /\ t \notin pending
  BY DEF Waiting
<1>4. Rests /\ \A u \in Client : call[u].op \in Inside => u = t
  <2>1. ~Serves(t)
    BY <1>3 DEF Serves
  <2>2. \A u \in Client : call[u].op \in Inside => latch = u
    BY OneInside
  <2> QED BY <1>3, <2>1, <2>2, Served
<1>5. PICK p \in DOMAIN page_table, f \in Frame : p = call[t].page /\ f = page_table[p]
  BY <1>0 DEF CallFits, Types
<1>6. is_dirty' \in [Frame -> BOOLEAN] /\ ~is_dirty'[f]
      /\ \A g \in Frame \ {f} : is_dirty'[g] = is_dirty[g]
  BY <1>0, <1>5 DEF Cleaned, Types
<1>7. \A u \in Client : call'[u].op \notin Inside
  BY <1>2, <1>4
<1>8. InHand' = InHand /\ \A g : Holders(g)' = Holders(g)
  <2>1. \A u \in Client : call'[u].op \notin {"new", "fetch", "read"}
    BY <1>7 DEF Inside
  <2>2. \A u \in Client : call[u].op \notin {"new", "fetch", "read"}
    BY <1>4 DEF Inside
  <2> QED BY <1>1, <2>1, <2>2 DEF InHand, Holders
<1>9. Types'
  BY <1>0, <1>1, <1>2, <1>6 DEF Types
<1>10. PlacesFit'
  <2>1. \A g \in Frame : page_id[g] = NoPage => ~is_dirty'[g]
    BY <1>0, <1>6 DEF PlacesFit
  <2> QED BY <1>0, <1>1, <1>8, <2>1 DEF PlacesFit, Free
<1>11. HoldersFit'
  BY <1>0, <1>1, <1>8 DEF HoldersFit
<1>12. SchedulerFits'
  BY <1>1, <1>4, PoolAssumption DEF SchedulerFits, Rests
<1>13. DiskFits'
  <2>0. \A q : Unwritten(q)' = Unwritten(q) /\ ~BeingRead(q)
    BY <1>1, <1>4 DEF Unwritten, BeingRead, Rests
  <2>1. ASSUME NEW q \in DOMAIN page_table, ~is_dirty'[page_table[q]], Unwritten(q)
        PROVE  disk[q] = data[page_table[q]]
    <3>1. CASE q = p
      BY <1>0, <1>3, <1>5, <2>1, <3>1 DEF DiskFits
    <3>2. CASE q # p
      <4>1. page_table[q] \in Frame \ {f}
        BY <1>0, <1>5, <3>2 DEF Types, PlacesFit
      <4> QED BY <1>0, <1>6, <2>0, <2>1, <4>1 DEF DiskFits
    <3> QED BY <3>1, <3>2
  <2>2. \A q \in Page : q >= next_page_id => q \notin DOMAIN page_table /\ disk[q] = Zero
    BY <1>0 DEF DiskFits
  <2>3. \A u \in Client : call'[u].op \notin {"new", "fetch", "delete", "flush", "flushing"}
    BY <1>7 DEF Inside
  <2> QED BY <1>1, <2>0, <2>1, <2>2, <2>3 DEF DiskFits
<1>14. ASSUME NEW u \in Client
       PROVE  CallFits(u)'
  <2>1. latch' # u /\ call'[u].op \notin Inside
    BY <1>7, PoolAssumption
  <2> QED BY <2>1 DEF CallFits, Inside
<1> QED BY <1>9, <1>10, <1>11, <1>12, <1>13, <1>14 DEF PoolInv

\* The destructor.
LEMMA DestroyKeeps ==
    ASSUME PoolInv, Destroy
    PROVE  PoolInv'
<1>0. Types /\ PlacesFit /\ HoldersFit /\ DiskFits /\ \A u \in Client : CallFits(u)
  BY DEF PoolInv
<1>1. /\ next_page_id' = next_page_id /\ free_list' = free_list
      /\ page_table' = page_table /\ page_id' = page_id /\ pin_count' = pin_count
      /\ is_dirty' = is_dirty /\ tracked' = tracked /\ evictable' = evictable
      /\ call' = call /\ held' = held /\ wrote' = wrote /\ node' = node
      /\ data' = data /\ disk' = disk /\ pending' = pending
  BY DEF Destroy, Shutdown, pool, frames, users
<1>2. latch = NoThread /\ latch' = Destroyed /\ request_queue' = request_queue \o <<NullOpt>>
  BY DEF Destroy, Shutdown, Put
<1>3. Rests /\ \A u \in Client : call[u].op \notin Inside
  BY <1>2, FreeLatch
<1>4. InHand' = InHand /\ \A g : Holders(g)' = Holders(g)
  BY <1>1 DEF InHand, Holders
<1>5. Types'
  BY <1>0, <1>1, <1>2 DEF Types
<1>6. PlacesFit'
  BY <1>0, <1>1, <1>4 DEF PlacesFit, Free
<1>7. HoldersFit'
  BY <1>0, <1>1, <1>4 DEF HoldersFit
<1>8. SchedulerFits'
  <2>1. PICK r : r = NullOpt
    OBVIOUS
  <2>2. request_queue' = <<>> \o <<r>>
    BY <1>2, <1>3, <2>1 DEF Rests
  <2>3. request_queue' = <<r>>
    BY <2>2
  <2> QED BY <1>1, <1>2, <1>3, <2>1, <2>3 DEF SchedulerFits, Ends, Rests
<1>9. DiskFits'
  <2>1. \A q : Unwritten(q)' = Unwritten(q) /\ BeingRead(q)' = BeingRead(q)
    BY <1>1 DEF Unwritten, BeingRead
  <2> QED BY <1>0, <1>1, <2>1 DEF DiskFits
<1>10. ASSUME NEW u \in Client
       PROVE  CallFits(u)'
  <2>1. latch' # u /\ call'[u].op \notin Inside
    BY <1>1, <1>2, <1>3, PoolAssumption
  <2> QED BY <2>1 DEF CallFits, Inside
<1> QED BY <1>5, <1>6, <1>7, <1>8, <1>9, <1>10 DEF PoolInv

-----------------------------------------------------------------------------
(* Taking a frame. *)

\* The first frame of the free list is taken off it.
LEMMA TailFacts ==
    ASSUME NEW l \in Seq(Frame), l # <<>>,
           \A j, k \in 1..Len(l) : l[j] = l[k] => j = k
    PROVE  /\ Head(l) \in Frame /\ Tail(l) \in Seq(Frame)
           /\ \A j, k \in 1..Len(Tail(l)) : Tail(l)[j] = Tail(l)[k] => j = k
           /\ {Tail(l)[k] : k \in 1..Len(Tail(l))} = {l[k] : k \in 1..Len(l)} \ {Head(l)}
           /\ Head(l) \in {l[k] : k \in 1..Len(l)}
<1>1. PICK n \in Nat : n = Len(l) /\ n > 0
  BY EmptySeq
<1>2. PICK h \in Frame, s \in Seq(Frame) :
        /\ h = Head(l) /\ s = Tail(l) /\ h = l[1] /\ Len(s) = n - 1
        /\ \A k \in 1..n - 1 : s[k] = l[k + 1]
  <2>1. /\ Head(l) \in Frame /\ Tail(l) \in Seq(Frame)
        /\ Len(Tail(l)) = Len(l) - 1 /\ \A k \in 1..Len(Tail(l)) : Tail(l)[k] = l[k + 1]
    BY HeadTailProperties
  <2>2. Head(l) = l[1]
    OBVIOUS
  <2> QED BY <1>1, <2>1, <2>2
<1>3. ASSUME NEW j \in 1..Len(s), NEW k \in 1..Len(s), s[j] = s[k]
      PROVE  j = k
  <2>1. j + 1 \in 1..n /\ k + 1 \in 1..n /\ l[j + 1] = l[k + 1]
    BY <1>1, <1>2, <1>3
  <2>2. j + 1 = k + 1
    BY <1>1, <2>1
  <2> QED BY <1>2, <2>2
<1>4. ASSUME NEW k \in 1..Len(s)
      PROVE  s[k] \in {l[y] : y \in 1..Len(l)} \ {h}
  <2>1. k + 1 \in 1..n /\ 1 \in 1..n /\ s[k] = l[k + 1] /\ k + 1 # 1
    BY <1>1, <1>2
  <2> QED BY <1>1, <1>2, <2>1
<1>5. ASSUME NEW k \in 1..Len(l), l[k] # h
      PROVE  l[k] \in {s[y] : y \in 1..Len(s)}
  <2>1. PICK y : y = k - 1
    OBVIOUS
  <2>2. y \in 1..Len(s) /\ y + 1 = k
    BY <1>1, <1>2, <1>5, <2>1
  <2>3. s[y] = l[k]
    BY <1>2, <2>2
  <2> QED BY <2>2, <2>3
<1>6. 1 \in 1..Len(l) /\ l[1] = h
  BY <1>1, <1>2
<1> QED BY <1>2, <1>3, <1>4, <1>5, <1>6

\* What frame a call gets: a free one, or one with a page that nobody holds.
LEMMA Taken ==
    ASSUME PoolInv, latch = NoThread, NEW f, TakeFrame(f)
    PROVE  /\ f \in Frame
           /\ page_id[f] # NoPage => pin_count[f] = 0
           /\ free_list' \in Seq(Frame)
           /\ \A j, k \in 1..Len(free_list') : free_list'[j] = free_list'[k] => j = k
           /\ Free' = Free \ {f} /\ tracked' = tracked \ {f} /\ evictable' = evictable \ {f}
<1>0. Types /\ PlacesFit /\ InHand = {}
  BY FreeLatch DEF PoolInv
<1>1. CASE free_list # <<>>
  <2>1. f = Head(free_list) /\ free_list' = Tail(free_list)
        /\ tracked' = tracked /\ evictable' = evictable
    BY <1>1 DEF TakeFrame
  <2>2. /\ Head(free_list) \in Frame /\ Tail(free_list) \in Seq(Frame)
        /\ \A j, k \in 1..Len(Tail(free_list)) :
              Tail(free_list)[j] = Tail(free_list)[k] => j = k
        /\ {Tail(free_list)[k] : k \in 1..Len(Tail(free_list))}
              = {free_list[k] : k \in 1..Len(free_list)} \ {Head(free_list)}
        /\ Head(free_list) \in {free_list[k] : k \in 1..Len(free_list)}
    BY <1>0, <1>1, TailFacts DEF Types, PlacesFit
  <2>3. f \in Free /\ Free' = Free \ {f} /\ f \in Frame
    BY ZenonT(60), <2>1, <2>2 DEF Free
  <2>4. page_id[f] = NoPage /\ f \notin tracked /\ f \notin evictable
    BY <1>0, <2>3 DEF PlacesFit
  <2> QED BY <2>1, <2>2, <2>3, <2>4
<1>2. CASE free_list = <<>>
  <2>1. /\ f \in evictable /\ free_list' = free_list
        /\ tracked' = tracked \ {f} /\ evictable' = evictable \ {f}
    BY <1>2 DEF TakeFrame, R!Forget
  <2>2. f \in Frame /\ pin_count[f] = 0 /\ f \in tracked
    BY <1>0, <2>1 DEF Types, PlacesFit
  <2>3. f \notin Free
    BY <1>0, <2>2 DEF PlacesFit
  <2>4. Free' = Free \ {f}
    BY <2>1, <2>3 DEF Free
  <2> QED BY <1>0, <2>1, <2>2, <2>4 DEF Types, PlacesFit
<1> QED BY <1>1, <1>2

\* The frame is in the call's hands; a dirty page in it is on its way to the disk.
LEMMA ObtainKeeps ==
    ASSUME PoolInv, NEW t \in Client, NEW op \in {"new", "fetch"}, NEW p \in Page, NEW f \in Frame,
           Obtain(t, op, p, f), p \notin DOMAIN page_table, p < next_page_id',
           next_page_id' \in Nat, next_page_id' >= next_page_id,
           op = "new" => disk[p] = Zero
    PROVE  PoolInv'
<1>0. Types /\ PlacesFit /\ HoldersFit /\ DiskFits /\ \A u \in Client : CallFits(u)
  BY DEF PoolInv
<1>1. /\ page_table' = page_table /\ page_id' = page_id /\ pin_count' = pin_count
      /\ is_dirty' = is_dirty /\ held' = held /\ wrote' = wrote /\ node' = node
      /\ data' = data /\ disk' = disk
  BY DEF Obtain, WriteIfDirty, scheduler, frames, users, WriteOut
<1>2. PICK x : x = [op |-> op, page |-> p, frame |-> f]
  OBVIOUS
<1>3. /\ latch = NoThread /\ TakeFrame(f) /\ WriteIfDirty(t, f) /\ latch' = t
      /\ call' = [call EXCEPT ![t] = x]
  BY <1>2 DEF Obtain, Enter, Go
<1>4. x \in CallType /\ x.op = op /\ x.page = p /\ x.frame = f
  BY <1>2 DEF CallType
<1>5. /\ call'[t] = x /\ (\A u \in Client \ {t} : call'[u] = call[u])
      /\ call' \in [Client -> CallType]
  BY <1>0, <1>3, <1>4 DEF Types
<1>6. Rests /\ InHand = {} /\ \A u \in Client : call[u].op \notin Inside
  BY <1>3, FreeLatch
<1>7. /\ page_id[f] # NoPage => pin_count[f] = 0
      /\ free_list' \in Seq(Frame)
      /\ \A j, k \in 1..Len(free_list') : free_list'[j] = free_list'[k] => j = k
      /\ Free' = Free \ {f} /\ tracked' = tracked \ {f} /\ evictable' = evictable \ {f}
  BY <1>3, Taken
<1>8. InHand' = {f} /\ \A g : Holders(g)' = Holders(g)
  <2>1. \A u \in Client : call'[u].op \in {"new", "fetch"} <=> u = t
    BY <1>4, <1>5, <1>6 DEF Inside
  <2>2. \A u \in Client : call'[u].op # "read" /\ call[u].op # "read"
    BY <1>4, <1>5, <1>6 DEF Inside
  <2> QED BY <1>1, <1>4, <1>5, <2>1, <2>2 DEF InHand, Holders
<1>9. Types'
  <2>1. tracked' \subseteq Frame /\ evictable' \subseteq Frame
    BY <1>0, <1>7 DEF Types
  <2> QED BY <1>0, <1>1, <1>3, <1>5, <1>7, <2>1 DEF Types
<1>10. PlacesFit'
  <2>1. \A g \in Frame : g \in Free' <=> page_id[g] = NoPage /\ g \notin {f}
    BY <1>0, <1>6, <1>7 DEF PlacesFit
  <2>2. \A g \in Frame : g \in tracked' <=> page_id[g] # NoPage /\ g \notin {f}
    BY <1>0, <1>6, <1>7 DEF PlacesFit
  <2>3. evictable' = {g \in tracked' : pin_count[g] = 0}
    BY <1>0, <1>7 DEF PlacesFit
  <2> QED BY <1>0, <1>1, <1>7, <1>8, <2>1, <2>2, <2>3 DEF PlacesFit
<1>11. HoldersFit'
  BY <1>0, <1>1, <1>8 DEF HoldersFit
<1>12. PICK r : r = Request(t, TRUE, f, page_id[f])
  OBVIOUS
<1>13. Asked(t)' = r
  <2>1. Asked(t)' = Request(t, op # "read", f, page_id[f])
    BY <1>1, <1>4, <1>5 DEF Asked
  <2> QED BY <1>12, <2>1
<1>14. \/ request_queue' = <<r>> /\ pending' = {t} /\ page_id[f] # NoPage
       \/ ~is_dirty[f] /\ request_queue' = <<>> /\ pending' = {}
  <2>1. CASE is_dirty[f]
    <3>1. WriteOut(t, f)
      BY <1>3, <2>1 DEF WriteIfDirty, MustWrite
    <3>2. request_queue' = <<>> \o <<r>> /\ pending' = {} \cup {t}
      BY <1>6, <1>12, <3>1 DEF WriteOut, Schedule, Put, Rests, Request
    <3>3. page_id[f] # NoPage
      BY <1>0, <2>1 DEF PlacesFit
    <3> QED BY <3>2, <3>3
  <2>2. CASE ~is_dirty[f]
    BY <1>3, <1>6, <2>2 DEF WriteIfDirty, MustWrite, scheduler, Rests
  <2> QED BY <2>1, <2>2
<1>15. SchedulerFits'
  <2>1. node' = NoRequest /\ latch' # Destroyed
    BY <1>1, <1>3, <1>6, PoolAssumption DEF Rests
  <2>2. CASE request_queue' = <<r>> /\ pending' = {t} /\ page_id[f] # NoPage
    <3>1. r \in Requests
      <4>1. page_id[f] \in Page
        BY <1>0, <2>2 DEF Types
      <4> QED BY <1>12, <4>1, PoolAssumption DEF Request, Requests
    <3> QED BY <1>3, <1>13, <2>1, <2>2, <3>1 DEF SchedulerFits, Serves
  <2>3. CASE request_queue' = <<>> /\ pending' = {}
    BY <2>1, <2>3 DEF SchedulerFits, Rests
  <2> QED BY <1>14, <2>2, <2>3
<1>16. DiskFits'
  <2>0. \A q : Unwritten(q)' = Unwritten(q) /\ ~BeingRead(q) /\ ~BeingRead(q)'
    BY <1>1, <1>4, <1>5, <1>6, <1>14 DEF Unwritten, BeingRead, Rests
  <2>1. ASSUME t \notin pending', page_id[f] # NoPage
        PROVE  disk[page_id[f]] = data[f]
    <3>1. ~is_dirty[f] /\ Unwritten(page_id[f])
      BY <1>7, <1>14, <2>1, Unpinned
    <3>2. page_id[f] \in DOMAIN page_table /\ page_table[page_id[f]] = f
      BY <1>0, <2>1 DEF PlacesFit
    <3> QED BY <1>0, <2>0, <3>1, <3>2 DEF DiskFits
  <2>2. /\ \A q \in DOMAIN page_table :
              ~is_dirty[page_table[q]] /\ Unwritten(q) => disk[q] = data[page_table[q]]
        /\ \A q \in Page : q >= next_page_id => q \notin DOMAIN page_table /\ disk[q] = Zero
    BY <1>0, <2>0 DEF DiskFits
  <2>3. \A q \in Page : q >= next_page_id' => q >= next_page_id
    BY <1>0, PoolAssumption DEF Types
  <2>4. \A u \in Client : call'[u].op \in {"new", "fetch", "delete", "flush", "flushing"} => u = t
    BY <1>5, <1>6 DEF Inside
  <2> QED BY <1>1, <1>4, <1>5, <2>0, <2>1, <2>2, <2>3, <2>4 DEF DiskFits
<1>17. ASSUME NEW u \in Client
       PROVE  CallFits(u)'
  BY <1>0, <1>1, <1>3, <1>4, <1>5, <1>6 DEF CallFits, Inside
<1> QED BY <1>9, <1>10, <1>11, <1>15, <1>16, <1>17 DEF PoolInv

-----------------------------------------------------------------------------
(* Giving a frame its page. *)

\* What Install does to the table and to each frame.
LEMMA InstallFacts ==
    ASSUME Types, NEW f \in Frame, NEW p \in Page, p \notin DOMAIN page_table, Install(f, p)
    PROVE  /\ DOMAIN page_table' = (DOMAIN page_table \ {page_id[f]}) \cup {p}
           /\ page_table' \in [DOMAIN page_table' -> Frame] /\ page_table'[p] = f
           /\ \A q \in DOMAIN page_table \ {page_id[f]} : page_table'[q] = page_table[q]
           /\ page_id' \in [Frame -> Page \cup {NoPage}] /\ page_id'[f] = p
           /\ pin_count' \in [Frame -> Nat] /\ pin_count'[f] = 1
           /\ is_dirty' \in [Frame -> BOOLEAN] /\ ~is_dirty'[f]
           /\ data' \in [Frame -> Value] /\ data'[f] = Zero
           /\ \A g \in Frame \ {f} : /\ page_id'[g] = page_id[g] /\ pin_count'[g] = pin_count[g]
                                     /\ is_dirty'[g] = is_dirty[g] /\ data'[g] = data[g]
           /\ tracked' = tracked \cup {f} /\ evictable' = evictable \ {f}
<1>1. PICK old : old = page_id[f]
  OBVIOUS
<1>2. page_table' = [x \in (DOMAIN page_table \ {old}) \cup {p} |->
                        IF x = p THEN f ELSE page_table[x]]
  <2>1. PICK erased : erased = [x \in DOMAIN page_table \ {old} |-> page_table[x]]
    OBVIOUS
  <2>2. page_table' = [x \in DOMAIN erased \cup {p} |->
                          IF x \in DOMAIN erased THEN erased[x] ELSE f]
    BY <1>1, <2>1 DEF Install, Insert, Erase
  <2>3. p \notin DOMAIN erased
    BY <2>1
  <2> QED BY <2>1, <2>2, <2>3
<1>3. /\ DOMAIN page_table' = (DOMAIN page_table \ {old}) \cup {p}
      /\ page_table' \in [DOMAIN page_table' -> Frame] /\ page_table'[p] = f
      /\ \A q \in DOMAIN page_table \ {old} : page_table'[q] = page_table[q]
  BY <1>2 DEF Types
<1>4. /\ page_id' \in [Frame -> Page \cup {NoPage}] /\ page_id'[f] = p
      /\ pin_count' \in [Frame -> Nat] /\ pin_count'[f] = 1
      /\ is_dirty' \in [Frame -> BOOLEAN] /\ ~is_dirty'[f]
  BY DEF Types, Install
<1>5. data' \in [Frame -> Value] /\ data'[f] = Zero
  BY SchedulerAssumption DEF Types, Install
<1>6. \A g \in Frame \ {f} : /\ page_id'[g] = page_id[g] /\ pin_count'[g] = pin_count[g]
                             /\ is_dirty'[g] = is_dirty[g] /\ data'[g] = data[g]
  BY DEF Types, Install
<1>7. tracked' = tracked \cup {f} /\ evictable' = evictable \ {f}
  BY DEF Install, PinFrame
<1> QED BY <1>1, <1>3, <1>4, <1>5, <1>6, <1>7

\* The frame that was in the call's hands is the page's, and its one holder is the caller.
LEMMA InstalledFits ==
    ASSUME PoolInv, NEW t \in Client, Waiting(t, call[t].op), call[t].op \in {"new", "fetch"},
           NEW x \in CallType, Install(call[t].frame, call[t].page),
           call' = [call EXCEPT ![t] = x], x.op \notin {"new", "fetch"},
           latch' \in Client \cup {NoThread, Destroyed},
           \/ x.op = "read" /\ x.frame = call[t].frame /\ held' = held
           \/ x.op # "read" /\ Hold(t, call[t].page, call[t].frame),
           UNCHANGED <<next_page_id, free_list, disk, wrote>>
    PROVE  /\ Types' /\ PlacesFit' /\ HoldersFit' /\ Rests
           /\ \A u \in Client : \A q : <<q, call[t].frame>> \notin held[u]
           /\ \A q \in DOMAIN page_table' \ {call[t].page} :
                 q \in DOMAIN page_table /\ data'[page_table'[q]] = data[page_table[q]]
           /\ \A q \in DOMAIN page_table' \ {call[t].page} :
                 ~is_dirty'[page_table'[q]] /\ Unwritten(q)' => disk[q] = data[page_table[q]]
<1>0. Types /\ PlacesFit /\ HoldersFit /\ DiskFits /\ CallFits(t)
  BY DEF PoolInv
<1>1. PICK f \in Frame, p \in Page : f = call[t].frame /\ p = call[t].page
  BY <1>0, CallFields
<1>2. latch = t /\ t \notin pending /\ p \notin DOMAIN page_table /\ p # NoPage
  BY <1>0, <1>1, PoolAssumption DEF Waiting, CallFits
<1>3. Rests
  BY <1>2, Served DEF Serves
<1>4. InHand = {f} /\ \A u \in Client : call[u].op \in Inside => u = t
  BY <1>1, <1>2, OneInside
<1>5. /\ call'[t] = x /\ (\A u \in Client \ {t} : call'[u] = call[u])
      /\ call' \in [Client -> CallType]
  BY <1>0 DEF Types
<1>6. InHand' = {}
  BY <1>4, <1>5 DEF InHand, Inside
<1>7. /\ DOMAIN page_table' = (DOMAIN page_table \ {page_id[f]}) \cup {p}
      /\ page_table' \in [DOMAIN page_table' -> Frame] /\ page_table'[p] = f
      /\ \A q \in DOMAIN page_table \ {page_id[f]} : page_table'[q] = page_table[q]
      /\ page_id' \in [Frame -> Page \cup {NoPage}] /\ page_id'[f] = p
      /\ pin_count' \in [Frame -> Nat] /\ pin_count'[f] = 1
      /\ is_dirty' \in [Frame -> BOOLEAN] /\ ~is_dirty'[f]
      /\ data' \in [Frame -> Value] /\ data'[f] = Zero
      /\ \A g \in Frame \ {f} : /\ page_id'[g] = page_id[g] /\ pin_count'[g] = pin_count[g]
                                /\ is_dirty'[g] = is_dirty[g] /\ data'[g] = data[g]
      /\ tracked' = tracked \cup {f} /\ evictable' = evictable \ {f}
  <2>1. Install(f, p)
    BY <1>1
  <2> QED BY <1>0, <1>2, <2>1, InstallFacts
<1>8. \A u \in Client : \A q : <<q, f>> \notin held[u]
  <2> SUFFICES ASSUME NEW u \in Client, NEW q, <<q, f>> \in held[u]
               PROVE  FALSE
    OBVIOUS
  <2>1. q \in Page /\ page_id[f] = q
    BY <1>0 DEF Types, HoldersFit
  <2>2. page_id[f] # NoPage /\ pin_count[f] = 0
    BY <1>0, <1>4, <2>1, PoolAssumption DEF PlacesFit
  <2> QED BY <2>2, Unpinned
<1>9. \A g \in Frame \ {f} : \A q \in DOMAIN page_table :
        page_table[q] = g => q # page_id[f] /\ page_id[g] = q
  <2> SUFFICES ASSUME NEW q \in DOMAIN page_table, page_table[q] # f
               PROVE  q # page_id[f] /\ page_id[page_table[q]] = q
    OBVIOUS
  <2>1. page_id[page_table[q]] = q /\ q # NoPage
    BY <1>0, PoolAssumption DEF PlacesFit, Types
  <2> QED BY <1>0, <2>1 DEF PlacesFit
<1>10. /\ held' \in [Client -> SUBSET (Page \X Frame)]
       /\ \A u \in Client : \A y \in held'[u] : y \in held[u] \/ y = <<p, f>>
       /\ \A u \in Client : held[u] \subseteq held'[u]
       /\ x.op # "read" => \A u \in Client : <<p, f>> \in held'[u] <=> u = t
       /\ x.op = "read" => held' = held
  <2>1. CASE x.op = "read" /\ held' = held
    BY <1>0, <2>1 DEF Types
  <2>2. CASE x.op # "read" /\ held' = [held EXCEPT ![t] = @ \cup {<<p, f>>}]
    <3>1. /\ held'[t] = held[t] \cup {<<p, f>>}
          /\ \A u \in Client \ {t} : held'[u] = held[u]
          /\ held' \in [Client -> SUBSET (Page \X Frame)]
      BY <1>0, <2>2 DEF Types
    <3> QED BY <1>8, <2>2, <3>1
  <2> QED BY <1>1, <2>1, <2>2 DEF Hold
<1>11. Types'
  <2>1. /\ tracked' \subseteq Frame /\ evictable' \subseteq Frame
        /\ DOMAIN page_table' \subseteq Page
    BY <1>0, <1>7 DEF Types
  <2> QED BY <1>0, <1>5, <1>7, <1>10, <2>1 DEF Types
<1>12. PlacesFit'
  <2>1. \A q \in DOMAIN page_table' : page_id'[page_table'[q]] = q
    <3> SUFFICES ASSUME NEW q \in DOMAIN page_table', q # p
                 PROVE  page_id'[page_table'[q]] = q
      BY <1>7
    <3>1. q \in DOMAIN page_table \ {page_id[f]}
      BY <1>7
    <3>2. page_table[q] \in Frame /\ page_id[page_table[q]] = q
      BY <1>0, <3>1 DEF Types, PlacesFit
    <3> QED BY <1>7, <3>1, <3>2
  <2>2. ASSUME NEW g \in Frame, page_id'[g] # NoPage
        PROVE  page_id'[g] \in DOMAIN page_table' /\ page_table'[page_id'[g]] = g
    <3>1. CASE g = f
      BY <1>7, <3>1
    <3>2. CASE g # f
      <4>1. page_id[g] \in DOMAIN page_table /\ page_table[page_id[g]] = g
        BY <1>0, <1>7, <2>2, <3>2 DEF PlacesFit
      <4>2. page_id[g] # page_id[f]
        BY <1>9, <3>2, <4>1
      <4> QED BY <1>7, <3>2, <4>1, <4>2
    <3> QED BY <3>1, <3>2
  <2>3. f \notin Free /\ Free' = Free
    BY <1>0, <1>4 DEF PlacesFit, Free
  <2>4. \A g \in Frame : g \in Free' <=> page_id'[g] = NoPage /\ g \notin InHand'
    BY <1>0, <1>2, <1>4, <1>6, <1>7, <2>3 DEF PlacesFit
  <2>5. \A g \in Frame : g \in tracked' <=> page_id'[g] # NoPage /\ g \notin InHand'
    BY <1>0, <1>2, <1>4, <1>6, <1>7 DEF PlacesFit
  <2>6. evictable' = {g \in tracked' : pin_count'[g] = 0}
    <3>1. tracked \subseteq Frame \ {f} /\ evictable = {g \in tracked : pin_count[g] = 0}
      BY <1>0, <1>4 DEF Types, PlacesFit
    <3> QED BY <1>7, <3>1
  <2>7. \A g \in Frame : page_id'[g] = NoPage => ~is_dirty'[g]
    BY SMTT(60), <1>0, <1>2, <1>7 DEF PlacesFit
  <2> QED BY <1>0, <1>6, <2>1, <2>2, <2>4, <2>5, <2>6, <2>7 DEF PlacesFit
<1>13. HoldersFit'
  <2>1. ASSUME NEW u \in Client, NEW y \in held'[u]
        PROVE  page_id'[y[2]] = y[1]
    <3>1. CASE y \in held[u]
      <4>1. y[2] \in Frame \ {f} /\ page_id[y[2]] = y[1]
        BY <1>0, <1>8, <3>1 DEF Types, HoldersFit
      <4> QED BY <1>7, <4>1
    <3>2. CASE y = <<p, f>>
      BY <1>7, <3>2
    <3> QED BY <1>10, <2>1, <3>1, <3>2
  <2>2. ASSUME NEW g \in Frame, page_id'[g] # NoPage
        PROVE  IsFiniteSet(Holders(g)') /\ pin_count'[g] = Cardinality(Holders(g)')
    <3>1. CASE g = f
      <4>1. Holders(f)' = {t}
        <5>1. \A u \in Client : u # t => ~(call'[u].op = "read")
          BY <1>4, <1>5 DEF Inside
        <5>2. CASE x.op = "read"
          <6>1. x.frame = f /\ \A u \in Client : <<p, f>> \notin held'[u]
            BY <1>1, <1>8, <1>10, <5>2
          <6> QED BY <1>5, <1>7, <5>1, <5>2, <6>1 DEF Holders
        <5>3. CASE x.op # "read"
          BY <1>5, <1>7, <1>10, <5>1, <5>3 DEF Holders
        <5> QED BY <5>2, <5>3
      <4>2. IsFiniteSet({t}) /\ Cardinality({t}) = 1
        BY FS_Singleton
      <4> QED BY <1>7, <3>1, <4>1, <4>2
    <3>2. CASE g # f
      <4>1. page_id'[g] = page_id[g] /\ pin_count'[g] = pin_count[g]
        BY <1>7, <3>2
      <4>2. IsFiniteSet(Holders(g)) /\ pin_count[g] = Cardinality(Holders(g))
        BY <1>0, <2>2, <4>1 DEF HoldersFit
      <4>3. \A u \in Client : <<page_id[g], g>> \in held'[u] <=> <<page_id[g], g>> \in held[u]
        BY <1>10, <3>2
      <4>4. \A u \in Client : call'[u].op = "read" => call'[u].frame = f
        BY <1>1, <1>4, <1>5 DEF Inside
      <4>5. \A u \in Client : call[u].op # "read"
        BY <1>4 DEF Inside
      <4>6. Holders(g)' = Holders(g)
        BY <3>2, <4>1, <4>3, <4>4, <4>5 DEF Holders
      <4> QED BY <4>1, <4>2, <4>6
    <3> QED BY <3>1, <3>2
  <2>3. ASSUME NEW u \in Client, NEW q \in wrote'[u]
        PROVE  \E g \in Frame : <<q, g>> \in held'[u]
    <3>1. PICK g \in Frame : <<q, g>> \in held[u]
      BY <1>0, <2>3 DEF HoldersFit
    <3> QED BY <1>10, <3>1
  <2> QED BY <2>1, <2>2, <2>3 DEF HoldersFit
<1>14. ASSUME NEW q \in DOMAIN page_table' \ {p}
       PROVE  /\ q \in DOMAIN page_table /\ data'[page_table'[q]] = data[page_table[q]]
              /\ ~is_dirty'[page_table'[q]] /\ Unwritten(q)' => disk[q] = data[page_table[q]]
  <2>1. q \in DOMAIN page_table \ {page_id[f]}
    BY <1>7
  <2>2. page_table[q] \in Frame \ {f} /\ page_table'[q] = page_table[q]
    BY <1>0, <1>7, <2>1 DEF Types, PlacesFit
  <2>3. ~BeingRead(q) /\ Unwritten(q)' = Unwritten(q)
    BY <1>3 DEF Rests, BeingRead, Unwritten
  <2> QED BY <1>0, <1>7, <2>1, <2>2, <2>3 DEF DiskFits
<1> QED BY <1>1, <1>3, <1>8, <1>11, <1>12, <1>13, <1>14

\* NewPage and FetchPage take a frame.
LEMMA TakesKeep ==
    ASSUME PoolInv, NEW t \in Client, NEW f \in Frame,
           NewPage(t, f) \/ \E p \in Page : FetchMiss(t, p, f)
    PROVE  PoolInv'
<1>0. Types /\ DiskFits /\ next_page_id \in Nat
  BY DEF PoolInv, Types
<1>1. CASE NewPage(t, f)
  <2>1. PICK p \in Page : p = next_page_id
    BY <1>1 DEF NewPage
  <2>2. Obtain(t, "new", p, f) /\ next_page_id' = p + 1
    BY <1>1, <2>1 DEF NewPage
  <2>3. p \notin DOMAIN page_table /\ disk[p] = Zero
    BY <1>0, <2>1 DEF DiskFits
  <2>4. p < next_page_id' /\ next_page_id' \in Nat /\ next_page_id' >= next_page_id
    BY <1>0, <2>1, <2>2
  <2> QED BY <2>2, <2>3, <2>4, ObtainKeeps
<1>2. ASSUME NEW p \in Page, FetchMiss(t, p, f)
      PROVE  PoolInv'
  <2>1. /\ Obtain(t, "fetch", p, f) /\ p \notin DOMAIN page_table /\ p < next_page_id
        /\ next_page_id' = next_page_id
    BY <1>2 DEF FetchMiss
  <2>2. p < next_page_id' /\ next_page_id' \in Nat /\ next_page_id' >= next_page_id
    BY <1>0, <2>1
  <2> QED BY <2>1, <2>2, ObtainKeeps
<1> QED BY <1>1, <1>2

\* A new page has never been written: the zeroed frame is what the disk has.
LEMMA NewPageReturnsKeeps ==
    ASSUME PoolInv, NEW t \in Client, NewPageReturns(t)
    PROVE  PoolInv'
<1>0. Types /\ DiskFits /\ CallFits(t)
  BY DEF PoolInv
<1>1. /\ call[t].op = "new" /\ latch = t /\ latch' = NoThread
      /\ call' = [call EXCEPT ![t] = Idle]
      /\ request_queue' = request_queue /\ node' = node /\ pending' = pending
      /\ next_page_id' = next_page_id /\ disk' = disk
  BY DEF NewPageReturns, Waiting, Leave
<1>2. PICK f \in Frame, p \in Page : f = call[t].frame /\ p = call[t].page
  BY <1>0, <1>1, CallFields
<1>3. Idle \in CallType /\ Idle.op = "none"
  BY CallRecords
<1>4. Install(f, p)
  BY <1>2 DEF NewPageReturns
<1>5. /\ Types' /\ PlacesFit' /\ HoldersFit' /\ Rests
      /\ \A q \in DOMAIN page_table' \ {p} :
            ~is_dirty'[page_table'[q]] /\ Unwritten(q)' => disk[q] = data[page_table[q]]
      /\ \A q \in DOMAIN page_table' \ {p} :
            q \in DOMAIN page_table /\ data'[page_table'[q]] = data[page_table[q]]
  BY <1>1, <1>2, <1>3, InstalledFits DEF NewPageReturns, Waiting
<1>6. ASSUME NEW u \in Client
      PROVE  call'[u].op \notin Inside
  <2>1. u # t => call[u].op \notin Inside
    BY <1>1, OneInside
  <2>2. call'[u] = IF u = t THEN Idle ELSE call[u]
    BY <1>0, <1>1 DEF Types
  <2> QED BY <1>3, <2>1, <2>2 DEF Inside
<1>7. SchedulerFits'
  BY <1>1, <1>5, PoolAssumption DEF SchedulerFits, Rests
<1>8. DiskFits'
  <2>0. p \notin DOMAIN page_table
    BY <1>0, <1>1, <1>2 DEF CallFits
  <2>1. page_table'[p] = f /\ data'[f] = Zero
    BY <1>0, <1>4, <2>0, InstallFacts
  <2>2. disk[p] = Zero /\ p < next_page_id
    BY <1>0, <1>1, <1>2 DEF DiskFits, CallFits
  <2>3. ASSUME NEW q \in DOMAIN page_table', ~is_dirty'[page_table'[q]], Unwritten(q)'
        PROVE  disk[q] = data'[page_table'[q]]
    BY <1>5, <2>1, <2>2, <2>3
  <2>4. ASSUME NEW q \in Page, q >= next_page_id
        PROVE  q \notin DOMAIN page_table' /\ disk[q] = Zero
    <3>1. q # p
      BY <1>0, <2>2, <2>4, PoolAssumption DEF Types
    <3> QED BY <1>0, <1>5, <2>4, <3>1 DEF DiskFits
  <2> QED BY <1>1, <1>6, <2>3, <2>4 DEF DiskFits, Inside
<1>9. ASSUME NEW u \in Client
      PROVE  CallFits(u)'
  <2>1. latch' # u /\ call'[u].op \notin Inside
    BY <1>1, <1>6, PoolAssumption
  <2> QED BY <2>1 DEF CallFits, Inside
<1> QED BY <1>5, <1>7, <1>8, <1>9 DEF PoolInv

\* The page is in the table, and being read.
LEMMA FetchReadsKeeps ==
    ASSUME PoolInv, NEW t \in Client, FetchReads(t)
    PROVE  PoolInv'
<1>0. Types /\ DiskFits /\ CallFits(t)
  BY DEF PoolInv
<1>1. /\ call[t].op = "fetch" /\ latch = t /\ latch' = t /\ node' = node
      /\ next_page_id' = next_page_id /\ disk' = disk /\ held' = held /\ wrote' = wrote
      /\ free_list' = free_list
  BY DEF FetchReads, Waiting, Go, users
<1>2. PICK f \in Frame, p \in Page : f = call[t].frame /\ p = call[t].page
  BY <1>0, <1>1, CallFields
<1>3. PICK x : x = [op |-> "read", page |-> p, frame |-> f]
  OBVIOUS
<1>4. x \in CallType /\ x.op = "read" /\ x.page = p /\ x.frame = f
  BY <1>3, CallRecords
<1>5. call' = [call EXCEPT ![t] = x] /\ Install(f, p)
  BY <1>2, <1>3 DEF FetchReads, Go
<1>6. /\ Types' /\ PlacesFit' /\ HoldersFit' /\ Rests
      /\ \A u \in Client : <<p, f>> \notin held[u]
      /\ \A q \in DOMAIN page_table' \ {p} :
            ~is_dirty'[page_table'[q]] /\ Unwritten(q)' => disk[q] = data[page_table[q]]
      /\ \A q \in DOMAIN page_table' \ {p} :
            q \in DOMAIN page_table /\ data'[page_table'[q]] = data[page_table[q]]
  <2>1. Waiting(t, call[t].op) /\ call[t].op \in {"new", "fetch"}
    BY <1>1 DEF FetchReads, Waiting
  <2>2. Install(call[t].frame, call[t].page) /\ latch' \in Client /\ x.frame = call[t].frame
    BY <1>1, <1>2, <1>4, <1>5
  <2>3. x.op \notin {"new", "fetch"} /\ UNCHANGED <<next_page_id, free_list, disk, wrote>>
    BY <1>1, <1>4
  <2> QED BY <1>1, <1>2, <1>4, <1>5, <2>1, <2>2, <2>3, InstalledFits
<1>7. /\ page_table'[p] = f /\ p \in DOMAIN page_table' /\ page_id'[f] = p
  <2>1. p \notin DOMAIN page_table
    BY <1>0, <1>1, <1>2 DEF CallFits
  <2>2. /\ DOMAIN page_table' = (DOMAIN page_table \ {page_id[f]}) \cup {p}
        /\ page_table'[p] = f /\ page_id'[f] = p
    <3>1. Install(f, p)
      BY <1>5
    <3> QED BY <1>0, <2>1, <3>1, InstallFacts
  <2> QED BY <2>2
<1>8. /\ call'[t] = x
      /\ \A u \in Client \ {t} : call'[u].op \notin Inside
  <2>1. \A u \in Client \ {t} : call[u].op \notin Inside
    BY <1>1, OneInside
  <2> QED BY <1>0, <1>5, <2>1 DEF Types
<1>9. PICK r : r = Request(t, FALSE, f, p)
  OBVIOUS
<1>10. request_queue' = <<r>> /\ pending' = {t}
  <2>1. request_queue' = <<>> \o <<r>> /\ pending' = {} \cup {t}
    BY <1>2, <1>6, <1>9 DEF FetchReads, Schedule, Put, Rests, Request
  <2> QED BY <2>1
<1>11. SchedulerFits'
  <2>1. Asked(t)' = Request(t, FALSE, f, page_id'[f])
    BY <1>4, <1>8 DEF Asked
  <2>2. r \in Requests
    BY <1>9, PoolAssumption DEF Request, Requests
  <2> QED BY <1>1, <1>6, <1>7, <1>9, <1>10, <2>1, <2>2 DEF SchedulerFits, Serves, Rests
<1>12. DiskFits'
  <2>1. BeingRead(p)'
    BY <1>4, <1>8, <1>10 DEF BeingRead
  <2>2. p < next_page_id
    BY <1>0, <1>1, <1>2 DEF CallFits
  <2>3. ASSUME NEW q \in DOMAIN page_table', ~is_dirty'[page_table'[q]], Unwritten(q)',
               ~BeingRead(q)'
        PROVE  disk[q] = data'[page_table'[q]]
    BY <1>6, <2>1, <2>3
  <2>4. ASSUME NEW q \in Page, q >= next_page_id
        PROVE  q \notin DOMAIN page_table' /\ disk[q] = Zero
    <3>1. q # p
      BY <1>0, <2>2, <2>4, PoolAssumption DEF Types
    <3> QED BY <1>0, <1>6, <2>4, <3>1 DEF DiskFits
  <2>5. \A u \in Client : call'[u].op \notin {"new", "fetch", "delete", "flush", "flushing"}
    BY <1>4, <1>8 DEF Inside
  <2> QED BY <1>1, <2>3, <2>4, <2>5 DEF DiskFits
<1>13. ASSUME NEW u \in Client
       PROVE  CallFits(u)'
  BY <1>1, <1>4, <1>6, <1>7, <1>8 DEF CallFits, Inside
<1> QED BY <1>6, <1>11, <1>12, <1>13 DEF PoolInv

\* Who had the page read becomes its holder.
LEMMA FetchReturnsKeeps ==
    ASSUME PoolInv, NEW t \in Client, FetchReturns(t)
    PROVE  PoolInv'
<1>0. Types /\ PlacesFit /\ HoldersFit /\ DiskFits /\ \A u \in Client : CallFits(u)
  BY DEF PoolInv
<1>1. /\ next_page_id' = next_page_id /\ free_list' = free_list
      /\ page_table' = page_table /\ page_id' = page_id /\ pin_count' = pin_count
      /\ is_dirty' = is_dirty /\ tracked' = tracked /\ evictable' = evictable
      /\ request_queue' = request_queue /\ node' = node /\ wrote' = wrote
      /\ data' = data /\ disk' = disk /\ pending' = pending
  BY DEF FetchReturns, scheduler, pool, frames
<1>2. /\ call[t].op = "read" /\ latch = t /\ t \notin pending /\ latch' = NoThread
      /\ call' = [call EXCEPT ![t] = Idle]
  BY DEF FetchReturns, Waiting, Leave
<1>3. PICK f \in Frame, p \in Page : f = call[t].frame /\ p = call[t].page
  BY <1>0, <1>2, CallFields
<1>4. held' = [held EXCEPT ![t] = @ \cup {<<p, f>>}]
  BY <1>3 DEF FetchReturns, Hold
<1>5. page_id[f] = p
  <2>1. p \in DOMAIN page_table /\ page_table[p] = f
    BY <1>0, <1>2, <1>3 DEF CallFits
  <2> QED BY <1>0, <2>1 DEF PlacesFit
<1>6. Rests /\ \A u \in Client : call[u].op \in Inside => u = t
  <2>1. ~Serves(t)
    BY <1>2 DEF Serves
  <2>2. \A u \in Client : call[u].op \in Inside => latch = u
    BY OneInside
  <2> QED BY <1>2, <2>1, <2>2, Served
<1>7. /\ call'[t].op = "none" /\ \A u \in Client \ {t} : call'[u] = call[u]
      /\ call' \in [Client -> CallType]
  <2>1. Idle \in CallType /\ Idle.op = "none"
    BY <1>3, CallRecords
  <2> QED BY <1>0, <1>2, <2>1 DEF Types
<1>8. \A u \in Client : call'[u].op \notin Inside
  BY <1>6, <1>7 DEF Inside
<1>9. /\ held' \in [Client -> SUBSET (Page \X Frame)] /\ held'[t] = held[t] \cup {<<p, f>>}
      /\ \A u \in Client \ {t} : held'[u] = held[u]
  BY <1>0, <1>4 DEF Types
<1>10. InHand' = InHand
  <2>1. \A u \in Client : call'[u].op \notin {"new", "fetch"}
    BY <1>8 DEF Inside
  <2>2. \A u \in Client : call[u].op \notin {"new", "fetch"}
    BY <1>2, <1>6 DEF Inside
  <2> QED BY <2>1, <2>2 DEF InHand
<1>11. ASSUME NEW g \in Frame
       PROVE  Holders(g)' = Holders(g)
  <2>1. \A u \in Client : call'[u].op # "read"
    BY <1>8 DEF Inside
  <2>2. \A u \in Client : call[u].op = "read" <=> u = t
    BY <1>2, <1>6 DEF Inside
  <2>3. \A u \in Client : <<page_id[g], g>> \in held'[u] <=>
          <<page_id[g], g>> \in held[u] \/ (u = t /\ f = g)
    BY <1>5, <1>9
  <2> QED BY <1>1, <1>3, <2>1, <2>2, <2>3 DEF Holders
<1>12. Types'
  BY <1>0, <1>1, <1>2, <1>7, <1>9 DEF Types
<1>13. PlacesFit'
  BY <1>0, <1>1, <1>10 DEF PlacesFit, Free
<1>14. HoldersFit'
  <2>1. ASSUME NEW u \in Client, NEW y \in held'[u]
        PROVE  page_id[y[2]] = y[1]
    BY <1>0, <1>5, <1>9 DEF HoldersFit
  <2>2. ASSUME NEW u \in Client, NEW q \in wrote[u]
        PROVE  \E g \in Frame : <<q, g>> \in held'[u]
    BY <1>0, <1>9 DEF HoldersFit
  <2>3. ASSUME NEW g \in Frame, page_id[g] # NoPage
        PROVE  IsFiniteSet(Holders(g)') /\ pin_count[g] = Cardinality(Holders(g)')
    BY <1>0, <1>11, <2>3 DEF HoldersFit
  <2> QED BY <1>1, <2>1, <2>2, <2>3 DEF HoldersFit
<1>15. SchedulerFits'
  BY <1>1, <1>2, <1>6, PoolAssumption DEF SchedulerFits, Rests
<1>16. DiskFits'
  <2>0. \A q : Unwritten(q)' = Unwritten(q) /\ ~BeingRead(q)
    BY <1>1, <1>6 DEF Unwritten, BeingRead, Rests
  <2>1. \A q \in DOMAIN page_table :
          ~is_dirty[page_table[q]] /\ Unwritten(q) => disk[q] = data[page_table[q]]
    BY <1>0, <2>0 DEF DiskFits
  <2>2. \A q \in Page : q >= next_page_id => q \notin DOMAIN page_table /\ disk[q] = Zero
    BY <1>0 DEF DiskFits
  <2> QED BY <1>1, <1>8, <2>0, <2>1, <2>2 DEF DiskFits, Inside
<1>17. ASSUME NEW u \in Client
       PROVE  CallFits(u)'
  <2>1. latch' # u /\ call'[u].op \notin Inside
    BY <1>2, <1>8, PoolAssumption
  <2> QED BY <2>1 DEF CallFits, Inside
<1> QED BY <1>12, <1>13, <1>14, <1>15, <1>16, <1>17 DEF PoolInv

\* A frame put behind a free list it was not on.
LEMMA AppendFacts ==
    ASSUME NEW l \in Seq(Frame), NEW f \in Frame, f \notin {l[k] : k \in 1..Len(l)},
           \A j, k \in 1..Len(l) : l[j] = l[k] => j = k
    PROVE  /\ Append(l, f) \in Seq(Frame)
           /\ \A j, k \in 1..Len(Append(l, f)) : Append(l, f)[j] = Append(l, f)[k] => j = k
           /\ {Append(l, f)[k] : k \in 1..Len(Append(l, f))} = {l[k] : k \in 1..Len(l)} \cup {f}
<1>1. PICK n \in Nat, s \in Seq(Frame) :
        /\ n = Len(l) /\ s = Append(l, f) /\ Len(s) = n + 1 /\ s[n + 1] = f
        /\ \A k \in 1..n : s[k] = l[k]
  <2>1. /\ Append(l, f) \in Seq(Frame) /\ Len(Append(l, f)) = Len(l) + 1
        /\ Append(l, f)[Len(l) + 1] = f
        /\ \A k \in 1..Len(l) : Append(l, f)[k] = l[k]
    BY AppendProperties
  <2> QED BY <2>1, LenProperties
<1>2. \A k \in 1..n + 1 : k \in 1..n \/ k = n + 1
  BY <1>1
<1>3. ASSUME NEW j \in 1..n + 1, NEW k \in 1..n + 1, s[j] = s[k]
      PROVE  j = k
  BY <1>1, <1>2, <1>3
<1>4. {s[k] : k \in 1..n + 1} = {l[k] : k \in 1..n} \cup {f}
  <2>1. n + 1 \in 1..n + 1 /\ 1..n \subseteq 1..n + 1
    BY <1>1
  <2> QED BY <1>1, <1>2, <2>1
<1> QED BY <1>1, <1>3, <1>4

\* The frame is free again, and nobody held it.
LEMMA DeleteReturnsKeeps ==
    ASSUME PoolInv, NEW t \in Client, DeleteReturns(t)
    PROVE  PoolInv'
<1>0. Types /\ PlacesFit /\ HoldersFit /\ DiskFits /\ \A u \in Client : CallFits(u)
  BY DEF PoolInv
<1>1. /\ next_page_id' = next_page_id /\ request_queue' = request_queue /\ node' = node
      /\ disk' = disk /\ pending' = pending /\ held' = held /\ wrote' = wrote
  BY DEF DeleteReturns, users
<1>2. /\ call[t].op = "delete" /\ latch = t /\ t \notin pending /\ latch' = NoThread
      /\ call' = [call EXCEPT ![t] = Idle]
  BY DEF DeleteReturns, Waiting, Leave
<1>3. PICK f \in Frame, p \in Page : f = call[t].frame /\ p = call[t].page
  BY <1>0, <1>2, CallFields
<1>4. /\ page_table' = [q \in DOMAIN page_table \ {p} |-> page_table[q]]
      /\ f \in evictable /\ tracked' = tracked \ {f} /\ evictable' = evictable \ {f}
      /\ free_list' = Append(free_list, f)
      /\ data' = [data EXCEPT ![f] = Zero] /\ pin_count' = [pin_count EXCEPT ![f] = 0]
      /\ page_id' = [page_id EXCEPT ![f] = NoPage]
      /\ is_dirty' = [is_dirty EXCEPT ![f] = FALSE]
  BY <1>3 DEF DeleteReturns, Erase, Cleaned, R!Forget
<1>5. page_id[f] = p /\ p # NoPage /\ p \in DOMAIN page_table /\ page_table[p] = f
      /\ pin_count[f] = 0
  <2>1. p \in DOMAIN page_table /\ page_table[p] = f /\ pin_count[f] = 0
    BY <1>0, <1>2, <1>3 DEF CallFits
  <2> QED BY <1>0, <2>1, PoolAssumption DEF PlacesFit
<1>6. Rests /\ \A u \in Client : call[u].op \in Inside => u = t
  <2>1. ~Serves(t)
    BY <1>2 DEF Serves
  <2>2. \A u \in Client : call[u].op \in Inside => latch = u
    BY OneInside
  <2> QED BY <1>2, <2>1, <2>2, Served
<1>7. /\ call'[t].op = "none" /\ \A u \in Client \ {t} : call'[u] = call[u]
      /\ call' \in [Client -> CallType]
  <2>1. Idle \in CallType /\ Idle.op = "none"
    BY <1>3, CallRecords
  <2> QED BY <1>0, <1>2, <2>1 DEF Types
<1>8. \A u \in Client : call'[u].op \notin Inside
  BY <1>6, <1>7 DEF Inside
<1>9. InHand = {} /\ InHand' = {}
  <2>1. \A u \in Client : call'[u].op \notin {"new", "fetch"}
    BY <1>8 DEF Inside
  <2>2. \A u \in Client : call[u].op \notin {"new", "fetch"}
    BY <1>2, <1>6 DEF Inside
  <2> QED BY <2>1, <2>2 DEF InHand
<1>10. /\ page_id' \in [Frame -> Page \cup {NoPage}] /\ page_id'[f] = NoPage
       /\ pin_count' \in [Frame -> Nat] /\ pin_count'[f] = 0
       /\ is_dirty' \in [Frame -> BOOLEAN] /\ ~is_dirty'[f]
       /\ data' \in [Frame -> Value]
       /\ \A g \in Frame \ {f} : /\ page_id'[g] = page_id[g] /\ pin_count'[g] = pin_count[g]
                                 /\ is_dirty'[g] = is_dirty[g] /\ data'[g] = data[g]
  BY <1>0, <1>4, SchedulerAssumption DEF Types
<1>11. /\ DOMAIN page_table' = DOMAIN page_table \ {p}
       /\ page_table' \in [DOMAIN page_table' -> Frame]
       /\ \A q \in DOMAIN page_table \ {p} :
             /\ page_table'[q] = page_table[q] /\ page_table[q] \in Frame \ {f}
             /\ page_id[page_table[q]] = q
  <2>1. /\ DOMAIN page_table' = DOMAIN page_table \ {p}
        /\ \A q \in DOMAIN page_table \ {p} :
              page_table'[q] = page_table[q] /\ page_table[q] \in Frame
        /\ page_table' \in [DOMAIN page_table' -> Frame]
    BY <1>0, <1>4 DEF Types
  <2>2. \A q \in DOMAIN page_table : page_id[page_table[q]] = q
    BY <1>0 DEF PlacesFit
  <2> QED BY <1>5, <2>1, <2>2
<1>12. f \notin Free
  BY <1>0, <1>5 DEF PlacesFit
<1>13. /\ free_list' \in Seq(Frame)
       /\ \A j, k \in 1..Len(free_list') : free_list'[j] = free_list'[k] => j = k
       /\ Free' = Free \cup {f}
  <2>1. /\ free_list \in Seq(Frame) /\ f \notin {free_list[k] : k \in 1..Len(free_list)}
        /\ \A j, k \in 1..Len(free_list) : free_list[j] = free_list[k] => j = k
    BY <1>0, <1>12 DEF Types, PlacesFit, Free
  <2>2. /\ Append(free_list, f) \in Seq(Frame)
        /\ \A j, k \in 1..Len(Append(free_list, f)) :
              Append(free_list, f)[j] = Append(free_list, f)[k] => j = k
        /\ {Append(free_list, f)[k] : k \in 1..Len(Append(free_list, f))}
              = {free_list[k] : k \in 1..Len(free_list)} \cup {f}
    BY <2>1, AppendFacts
  <2>3. free_list' = Append(free_list, f)
    BY <1>4
  <2> QED BY <2>2, <2>3, Zenon DEF Free
<1>14. \A u \in Client : \A q : <<q, f>> \notin held[u]
  BY <1>5, Unpinned
<1>15. Types'
  <2>1. tracked' \subseteq Frame /\ evictable' \subseteq Frame /\ DOMAIN page_table' \subseteq Page
    BY <1>0, <1>4, <1>11 DEF Types
  <2> QED BY <1>0, <1>1, <1>2, <1>7, <1>10, <1>11, <1>13, <2>1 DEF Types
<1>16. PlacesFit'
  <2>1. \A q \in DOMAIN page_table' : page_id'[page_table'[q]] = q
    BY <1>10, <1>11
  <2>2. ASSUME NEW g \in Frame, page_id'[g] # NoPage
        PROVE  page_id'[g] \in DOMAIN page_table' /\ page_table'[page_id'[g]] = g
    <3>1. g # f /\ page_id'[g] = page_id[g]
      BY <1>10, <2>2
    <3>2. page_id[g] \in DOMAIN page_table /\ page_table[page_id[g]] = g
      BY <1>0, <2>2, <3>1 DEF PlacesFit
    <3>3. page_id[g] # p
      BY <1>5, <3>1, <3>2
    <3> QED BY <1>11, <3>1, <3>2, <3>3
  <2>3. \A g \in Frame : g \in Free' <=> page_id'[g] = NoPage
    BY <1>0, <1>9, <1>10, <1>13 DEF PlacesFit
  <2>4. \A g \in Frame : g \in tracked' <=> page_id'[g] # NoPage
    BY <1>0, <1>4, <1>9, <1>10 DEF PlacesFit
  <2>5. evictable' = {g \in tracked' : pin_count'[g] = 0}
    <3>1. tracked \subseteq Frame /\ evictable = {g \in tracked : pin_count[g] = 0}
      BY <1>0 DEF Types, PlacesFit
    <3> QED BY <1>4, <1>10, <3>1
  <2>6. \A g \in Frame : page_id'[g] = NoPage => ~is_dirty'[g]
    BY <1>0, <1>10 DEF PlacesFit
  <2> QED BY <1>9, <1>13, <2>1, <2>2, <2>3, <2>4, <2>5, <2>6 DEF PlacesFit
<1>17. HoldersFit'
  <2>1. ASSUME NEW u \in Client, NEW y \in held[u]
        PROVE  page_id'[y[2]] = y[1]
    <3>1. y[2] \in Frame \ {f} /\ page_id[y[2]] = y[1]
      BY <1>0, <1>14 DEF Types, HoldersFit
    <3> QED BY <1>10, <3>1
  <2>2. ASSUME NEW g \in Frame, page_id'[g] # NoPage
        PROVE  IsFiniteSet(Holders(g)') /\ pin_count'[g] = Cardinality(Holders(g)')
    <3>1. g # f /\ page_id'[g] = page_id[g] /\ pin_count'[g] = pin_count[g]
      BY <1>10, <2>2
    <3>2. IsFiniteSet(Holders(g)) /\ pin_count[g] = Cardinality(Holders(g))
      BY <1>0, <2>2, <3>1 DEF HoldersFit
    <3>3. \A u \in Client : call'[u].op # "read" /\ call[u].op # "read"
      BY <1>2, <1>6, <1>8 DEF Inside
    <3>4. Holders(g)' = Holders(g)
      BY <1>1, <3>1, <3>3 DEF Holders
    <3> QED BY <3>1, <3>2, <3>4
  <2> QED BY <1>0, <1>1, <2>1, <2>2 DEF HoldersFit
<1>18. SchedulerFits'
  BY <1>1, <1>2, <1>6, PoolAssumption DEF SchedulerFits, Rests
<1>19. DiskFits'
  <2>0. \A q : Unwritten(q)' = Unwritten(q) /\ ~BeingRead(q)
    BY <1>1, <1>6 DEF Unwritten, BeingRead, Rests
  <2>1. \A q \in DOMAIN page_table' :
          ~is_dirty'[page_table'[q]] /\ Unwritten(q) => disk[q] = data'[page_table'[q]]
    BY <1>0, <1>10, <1>11, <2>0 DEF DiskFits
  <2>2. \A q \in Page : q >= next_page_id => q \notin DOMAIN page_table' /\ disk[q] = Zero
    BY <1>0, <1>11 DEF DiskFits
  <2> QED BY <1>1, <1>8, <2>0, <2>1, <2>2 DEF DiskFits, Inside
<1>20. ASSUME NEW u \in Client
       PROVE  CallFits(u)'
  <2>1. latch' # u /\ call'[u].op \notin Inside
    BY <1>2, <1>8, PoolAssumption
  <2> QED BY <2>1 DEF CallFits, Inside
<1> QED BY <1>15, <1>16, <1>17, <1>18, <1>19, <1>20 DEF PoolInv

-----------------------------------------------------------------------------
(* The invariant. *)

\* FlushAllPages moves on to an element of the table.
LEMMA FlushAllKeeps ==
    ASSUME PoolInv, NEW t \in Client, NEW p \in Page,
           FlushAllPages(t, p) \/ NextElement(t, p) \/ Stray(t, p)
    PROVE  PoolInv'
<1>0. DOMAIN page_table \subseteq Page
  BY DEF PoolInv, Types
<1>1. PICK left \in SUBSET Page : Walk(t, p, left, "element")
  <2>1. CASE FlushAllPages(t, p)
    BY <1>0, <2>1 DEF FlushAllPages, Elements
  <2>2. CASE NextElement(t, p) \/ Stray(t, p)
    <3>1. call[t].left \in SUBSET Page
      BY <2>2, CallFields DEF NextElement, Stray, PoolInv
    <3> QED BY <2>2, <3>1 DEF NextElement, Stray
  <2> QED BY <2>1, <2>2
<1>2. PICK x : x = [op |-> "element", page |-> p, left |-> left]
  OBVIOUS
<1>3. x \in CallType /\ x.op \notin Inside
  BY <1>2, CallRecords DEF Inside
<1>4. call' = [call EXCEPT ![t] = x]
  BY <1>1, <1>2 DEF Walk
<1>5. call[t].op \notin Inside
  BY DEF FlushAllPages, NextElement, Stray, Idle, Inside
<1>6. UNCHANGED <<scheduler, latch, pool, users>>
  BY DEF FlushAllPages, NextElement, Stray
<1> QED BY <1>3, <1>4, <1>5, <1>6, WalkKeeps

\* The walk of FlushAllPages ends.
LEMMA FlushAllReturnsKeeps ==
    ASSUME PoolInv, NEW t \in Client, FlushAllReturns(t)
    PROVE  PoolInv'
<1>1. Idle \in CallType /\ Idle.op \notin Inside /\ call[t].op \notin Inside
  BY DEF FlushAllReturns, CallType, Idle, Inside
<1> QED BY <1>1, WalkKeeps DEF FlushAllReturns

\* FlushAllPages has the element's page written, if it is still there.
LEMMA FlushElementKeeps ==
    ASSUME PoolInv, NEW t \in Client, FlushElement(t)
    PROVE  PoolInv'
<1>0. Types
  BY DEF PoolInv
<1>1. /\ call[t].op = "element" /\ latch = NoThread
      /\ call[t].page \in Page /\ call[t].left \in SUBSET Page
      /\ UNCHANGED <<pool, users>>
  BY <1>0, CallFields DEF FlushElement
<1>2. PICK p \in Page, left \in SUBSET Page : p = call[t].page /\ left = call[t].left
  BY <1>1
<1>3. CASE p \in DOMAIN page_table
  <2>1. latch' = t /\ Walk(t, p, left, "flushing") /\ WriteOut(t, page_table[p])
    BY <1>2, <1>3 DEF FlushElement
  <2>2. PICK x : x = [op |-> "flushing", page |-> p, left |-> left]
    OBVIOUS
  <2>3. x \in CallType /\ x.op = "flushing" /\ x.page = p
    BY <2>2, CallRecords
  <2>4. call' = [call EXCEPT ![t] = x]
    BY <2>1, <2>2 DEF Walk
  <2> QED BY <1>1, <1>3, <2>1, <2>3, <2>4, EntersKeeps
<1>4. CASE p \notin DOMAIN page_table
  <2>1. Walk(t, p, left, "next") /\ UNCHANGED <<scheduler, latch>>
    BY <1>2, <1>4 DEF FlushElement
  <2>2. PICK x : x = [op |-> "next", page |-> p, left |-> left]
    OBVIOUS
  <2>3. x \in CallType /\ x.op \notin Inside
    BY <2>2, CallRecords DEF Inside
  <2>4. call' = [call EXCEPT ![t] = x]
    BY <2>1, <2>2 DEF Walk
  <2>5. call[t].op \notin Inside
    BY <1>1 DEF Inside
  <2> QED BY <1>1, <2>1, <2>3, <2>4, <2>5, WalkKeeps
<1> QED BY <1>3, <1>4

\* The element's page has been written.
LEMMA ElementFlushedKeeps ==
    ASSUME PoolInv, NEW t \in Client, ElementFlushed(t)
    PROVE  PoolInv'
<1>0. Types
  BY DEF PoolInv
<1>1. /\ call[t].op = "flushing" /\ Waiting(t, call[t].op)
      /\ call[t].page \in Page /\ call[t].left \in SUBSET Page
  BY <1>0, CallFields DEF ElementFlushed, Waiting
<1>2. PICK x : x = [op |-> "next", page |-> call[t].page, left |-> call[t].left]
  OBVIOUS
<1>3. x \in CallType /\ x.op \notin Inside
  BY <1>1, <1>2, CallRecords DEF Inside
<1>4. call' = [call EXCEPT ![t] = x] /\ latch' = NoThread
  BY <1>2 DEF ElementFlushed, Walk
<1> QED BY <1>1, <1>3, <1>4, CleanedKeeps DEF ElementFlushed

\* Every step keeps the invariant.
LEMMA PoolInvStays == PoolInv /\ [Next]_vars => PoolInv'
<1> SUFFICES ASSUME PoolInv, [Next]_vars
             PROVE  PoolInv'
  OBVIOUS
<1>0. Types
  BY DEF PoolInv
<1>1. ASSUME NEW t \in Client, Continue(t)
      PROVE  PoolInv'
  <2>1. CASE FlushReturns(t)
    <3>1. call[t].op = "flush" /\ Waiting(t, call[t].op)
      BY <2>1 DEF FlushReturns, Waiting
    <3>2. page_table[call[t].page] = call[t].frame
      BY <3>1 DEF PoolInv, CallFits
    <3>3. Idle \in CallType /\ Idle.op \notin Inside
      BY DEF CallType, Idle, Inside
    <3>4. /\ latch' = NoThread /\ call' = [call EXCEPT ![t] = Idle]
          /\ Cleaned(page_table[call[t].page])
          /\ UNCHANGED <<scheduler, next_page_id, free_list, page_table, page_id, pin_count,
                         tracked, evictable, users>>
      BY <2>1, <3>2 DEF FlushReturns, Leave
    <3> QED BY <3>1, <3>3, <3>4, CleanedKeeps
  <2>2. CASE NewPageReturns(t) \/ FetchReads(t) \/ FetchReturns(t)
    BY <2>2, NewPageReturnsKeeps, FetchReadsKeeps, FetchReturnsKeeps
  <2>3. CASE DeleteReturns(t) \/ ElementFlushed(t)
    BY <2>3, DeleteReturnsKeeps, ElementFlushedKeeps
  <2> QED BY <1>1, <2>1, <2>2, <2>3 DEF Continue
<1>2. ASSUME NEW t \in Client, NEW p \in Page, FlushPage(t, p) \/ DeletePage(t, p)
      PROVE  PoolInv'
  <2>1. PICK op \in {"flush", "delete"}, f \in Frame :
          /\ latch = NoThread /\ p \in DOMAIN page_table /\ f = page_table[p]
          /\ Go(t, op, p, f) /\ UNCHANGED <<pool, users>>
          /\ op = "delete" => pin_count[f] = 0
          /\ WriteOut(t, f) \/ (op = "delete" /\ ~is_dirty[f] /\ UNCHANGED scheduler)
    <3>1. ASSUME p \in DOMAIN page_table
          PROVE  page_table[p] \in Frame
      BY <1>0, <3>1 DEF Types
    <3> QED BY <1>2, <3>1 DEF FlushPage, DeletePage, Enter, WriteIfDirty, MustWrite
  <2>2. PICK x : x = [op |-> op, page |-> p, frame |-> f]
    OBVIOUS
  <2>3. x \in CallType /\ x.op = op /\ x.page = p /\ x.frame = f
    BY <2>2, CallRecords
  <2>4. latch' = t /\ call' = [call EXCEPT ![t] = x]
    BY <2>1, <2>2 DEF Go
  <2> QED BY <2>1, <2>3, <2>4, EntersKeeps
<1>3. ASSUME NEW t \in Client, FlushElement(t) \/ FlushAllReturns(t)
      PROVE  PoolInv'
  BY <1>3, FlushElementKeeps, FlushAllReturnsKeeps
<1>4. ASSUME NEW t \in Client, NEW p \in Page,
             FetchHit(t, p) \/ \E dirty \in BOOLEAN : UnpinPage(t, p, dirty)
      PROVE  PoolInv'
  BY <1>4, FetchHitKeeps, UnpinKeeps
<1>5. CASE WorkerStep
  BY <1>5, GetKeeps, PerformKeeps DEF WorkerStep, Worker
<1>6. CASE UNCHANGED vars
  <2>1. /\ latch' = latch /\ next_page_id' = next_page_id /\ free_list' = free_list
        /\ page_table' = page_table /\ page_id' = page_id /\ pin_count' = pin_count
        /\ is_dirty' = is_dirty /\ tracked' = tracked /\ evictable' = evictable
        /\ call' = call /\ held' = held /\ wrote' = wrote
        /\ request_queue' = request_queue /\ node' = node /\ data' = data /\ disk' = disk
        /\ pending' = pending
    BY <1>6 DEF vars, scheduler, pool, frames, users
  <2>2. InHand' = InHand /\ \A f : Holders(f)' = Holders(f)
    BY <2>1 DEF InHand, Holders
  <2>3. Types' /\ PlacesFit' /\ HoldersFit'
    <3>0. PlacesFit /\ HoldersFit
      BY DEF PoolInv
    <3>1. Types'
      BY <1>0, <2>1 DEF Types
    <3>2. PlacesFit'
      BY <2>1, <2>2, <3>0 DEF PlacesFit, Free
    <3>3. HoldersFit'
      BY SMTT(60), <2>1, <2>2, <3>0 DEF HoldersFit
    <3> QED BY <3>1, <3>2, <3>3
  <2>4. SchedulerFits'
    BY <2>1 DEF PoolInv, SchedulerFits, Rests, Ends, Serves, Asked
  <2>5. DiskFits'
    <3>1. \A q : Unwritten(q)' = Unwritten(q) /\ BeingRead(q)' = BeingRead(q)
      BY <2>1 DEF Unwritten, BeingRead
    <3> QED BY <2>1, <3>1 DEF PoolInv, DiskFits
  <2>6. ASSUME NEW u \in Client
        PROVE  CallFits(u)'
    BY <2>1 DEF PoolInv, CallFits
  <2> QED BY <2>3, <2>4, <2>5, <2>6 DEF PoolInv
<1> QED
  BY <1>1, <1>2, <1>3, <1>4, <1>5, <1>6, DestroyKeeps, TakesKeep, FlushAllKeeps, WriteKeeps DEF Next

\* The invariant: the pool's members fit each other, the calls under way, the request with the
\* disk scheduler, the threads that hold pages, and the disk.
THEOREM PoolInvariant == Spec => []PoolInv
<1>1. Init => PoolInv
  BY PoolInit
<1>2. PoolInv /\ [Next]_vars => PoolInv'
  BY PoolInvStays
<1> QED BY <1>1, <1>2, PTL DEF Spec

-----------------------------------------------------------------------------
(* What the runs check. *)

\* A list without repetitions has as many elements as entries.
LEMMA ListSize ==
    ASSUME NEW l \in Seq(Frame), \A j, k \in 1..Len(l) : l[j] = l[k] => j = k
    PROVE  Len(l) = Cardinality({l[k] : k \in 1..Len(l)})
<1>1. PICK n \in Nat : n = Len(l)
  BY LenProperties
<1>2. PICK S : S = {l[k] : k \in 1..n}
  OBVIOUS
<1>3. IsFiniteSet(1..n) /\ Cardinality(1..n) = n
  BY FS_Interval
<1>4. PICK g : g = [k \in 1..n |-> l[k]]
  OBVIOUS
<1>5. g \in Bijection(1..n, S)
  <2>1. g \in [1..n -> S] /\ \A x \in S : \E k \in 1..n : g[k] = x
    BY <1>4, <1>2
  <2>2. \A j, k \in 1..n : g[j] = g[k] => j = k
    BY <1>1, <1>4
  <2> QED BY <2>1, <2>2 DEF Bijection, Injection, Surjection, IsInjective
<1>6. ExistsBijection(1..n, S)
  BY <1>5 DEF ExistsBijection
<1>7. Cardinality(1..n) = Cardinality(S)
  BY <1>3, <1>6, FS_Bijection
<1> QED BY <1>1, <1>3, <1>7, <1>2

\* The invariant says where every frame is.
LEMMA PlacesImply == PoolInv => FramesConsistent
<1> SUFFICES ASSUME PoolInv
             PROVE  FramesConsistent
  OBVIOUS
<1>0. Types /\ PlacesFit /\ SchedulerFits /\ \A u \in Client : CallFits(u)
  BY DEF PoolInv
<1>1. TypeOK
  <2>1. Mapped \subseteq Frame
    BY <1>0 DEF Types, Mapped
  <2>2. pending \subseteq {latch}
    BY <1>0 DEF SchedulerFits, Rests, Ends, Serves
  <2>3. ASSUME NEW t \in Client, call[t].op \notin {"none", "element", "next"}
        PROVE  latch = t
    <3>1. call[t] \in CallType
      BY <1>0 DEF Types
    <3>2. call[t].op \in Inside
      BY <2>3, <3>1 DEF CallType, Idle, Inside
    <3> QED BY <3>2, OneInside
  <2> QED BY <1>0, <2>1, <2>2, <2>3 DEF TypeOK, Types
<1>2. free_list \in Seq(Frame) /\ DOMAIN free_list = 1..Len(free_list)
  <2>1. free_list \in Seq(Frame)
    BY <1>0 DEF Types
  <2> QED BY <2>1, LenProperties
<1>3. Len(free_list) = Cardinality({free_list[k] : k \in DOMAIN free_list})
  BY <1>0, <1>2, ListSize DEF PlacesFit
<1>4. \A f \in Frame : (\E k \in DOMAIN free_list : free_list[k] = f) <=> f \in Free
  BY <1>2 DEF Free
<1>5. \A f \in Frame : f \in Mapped <=> page_id[f] # NoPage
  <2>1. ASSUME NEW f \in Frame, page_id[f] # NoPage
        PROVE  f \in Mapped
    BY <1>0, <2>1 DEF PlacesFit, Mapped
  <2>2. ASSUME NEW q \in DOMAIN page_table
        PROVE  page_id[page_table[q]] # NoPage
    BY <1>0, PoolAssumption DEF PlacesFit, Types
  <2> QED BY <2>1, <2>2 DEF Mapped
<1>6. \A f \in Frame \ InHand :
        (\E k \in DOMAIN free_list : free_list[k] = f) # (f \in Mapped)
  <2> SUFFICES ASSUME NEW f \in Frame, f \notin InHand
               PROVE  (\E k \in DOMAIN free_list : free_list[k] = f) <=> ~(f \in Mapped)
    OBVIOUS
  <2> QED BY <1>0, <1>4, <1>5 DEF PlacesFit
<1>7. tracked = Mapped \ InHand
  BY <1>0, <1>1, <1>5 DEF PlacesFit, Types, TypeOK
<1> QED BY <1>0, <1>1, <1>3, <1>6, <1>7 DEF FramesConsistent, PlacesFit

\* The invariant says who holds what.
LEMMA HoldersImply == PoolInv => HeldStays
<1> SUFFICES ASSUME PoolInv
             PROVE  HeldStays
  OBVIOUS
<1>0. HoldersFit
  BY DEF PoolInv
<1>1. ASSUME NEW f \in Frame, page_id[f] # NoPage
      PROVE  pin_count[f] = Cardinality({t \in Client :
                               \/ <<page_id[f], f>> \in held[t]
                               \/ call[t].op = "read" /\ call[t].frame = f})
  <2>1. pin_count[f] = Cardinality(Holders(f))
    BY <1>0, <1>1 DEF HoldersFit
  <2> QED BY <2>1, Zenon DEF Holders
<1>2. \A t \in Client : \A x \in held[t] : page_id[x[2]] = x[1]
  BY <1>0 DEF HoldersFit
<1> QED BY <1>1, <1>2, Zenon DEF HeldStays

\* Every frame is in one place, and a page in the table is evictable exactly when nobody holds it.
THEOREM FramesConsistentAlways == Spec => []FramesConsistent
BY PoolInvariant, PlacesImply, PTL

\* Whoever holds a page holds the frame it is in, and the pin count counts the holders.
THEOREM HeldStaysAlways == Spec => []HeldStays
BY PoolInvariant, HoldersImply, PTL

-----------------------------------------------------------------------------
(* What a page holds. *)

ContentsStay == \A p \in Page : Contents(p)' = Contents(p)
HeldPages == [t \in Client |-> {x[1] : x \in held[t]}]

\* As long as the frames keep their pages and their data, it does not matter who waits.
LEMMA SameContents ==
    ASSUME UNCHANGED <<page_table, data, disk>>,
           \A p : BeingRead(p)' <=> BeingRead(p)
    PROVE  ContentsStay
BY DEF ContentsStay, Contents, BeingRead

\* What is written to the disk was in the frame already, and what is read was on the disk.
LEMMA PerformContents ==
    ASSUME PoolInv, Perform, UNCHANGED <<page_table, call>>
    PROVE  ContentsStay
<1>0. Types /\ PlacesFit
  BY DEF PoolInv
<1>1. PICK u \in Client : /\ latch = u /\ pending = {u} /\ node = Asked(u)
                          /\ request_queue = <<>> /\ Asked(u) \in Requests
  BY AtWork DEF Perform
<1>2. PICK f \in Frame, p \in Page :
        /\ Asked(u) = Request(u, call[u].op # "read", f, p)
        /\ p = page_id[f] /\ p \in DOMAIN page_table /\ page_table[p] = f
        /\ call[u].op \in {"new", "fetch", "delete"} => f = call[u].frame
        /\ call[u].op \in {"read", "flush"} => f = call[u].frame /\ p = call[u].page
        /\ call[u].op = "flushing" => p = call[u].page
  BY <1>1, AskedIs
<1>3. /\ node.from = u /\ node.is_write = (call[u].op # "read") /\ node.data = f
      /\ node.page_id = p
  BY <1>1, <1>2 DEF Request
<1>4. /\ pending' = {} /\ page_table' = page_table
      /\ call[u].op # "read" => disk' = [disk EXCEPT ![p] = data[f]] /\ data' = data
      /\ call[u].op = "read" => data' = [data EXCEPT ![f] = disk[p]] /\ disk' = disk
  BY <1>1, <1>3 DEF Perform, Kept
<1>5. \A q : ~BeingRead(q)' /\ (BeingRead(q) <=> call[u].op = "read" /\ q = p)
  BY <1>1, <1>2, <1>4 DEF BeingRead
<1>6. \A q \in DOMAIN page_table : page_table[q] \in Frame /\ (page_table[q] = f <=> q = p)
  BY <1>0, <1>2 DEF Types, PlacesFit
<1>7. /\ call[u].op # "read" =>
            data' = data /\ \A q \in Page : disk'[q] = IF q = p THEN data[f] ELSE disk[q]
      /\ call[u].op = "read" =>
            disk' = disk /\ \A g \in Frame : data'[g] = IF g = f THEN disk[p] ELSE data[g]
  BY <1>0, <1>4 DEF Types
<1>8. ASSUME NEW q \in Page
      PROVE  Contents(q)' = Contents(q)
  <2>1. Contents(q) = IF q \in DOMAIN page_table /\ ~BeingRead(q)
                        THEN data[page_table[q]] ELSE disk[q]
    BY DEF Contents, BeingRead
  <2>2. Contents(q)' = IF q \in DOMAIN page_table THEN data'[page_table[q]] ELSE disk'[q]
    BY <1>4, <1>5 DEF Contents, BeingRead
  <2>3. CASE q = p
    BY <1>2, <1>5, <1>7, <2>1, <2>2, <2>3
  <2>4. CASE q # p
    BY <1>5, <1>6, <1>7, <2>1, <2>2, <2>4
  <2> QED BY <2>3, <2>4
<1> QED BY <1>8 DEF ContentsStay

\* A frame that gets another page: what it held is on the disk, and what it gets is read later
\* or new.
LEMMA InstallContents ==
    ASSUME PoolInv, NEW t \in Client, Waiting(t, call[t].op), call[t].op \in {"new", "fetch"},
           Install(call[t].frame, call[t].page), disk' = disk,
           \A q : BeingRead(q)' <=> call[t].op = "fetch" /\ q = call[t].page
    PROVE  ContentsStay
<1>0. Types /\ PlacesFit /\ DiskFits /\ CallFits(t)
  BY DEF PoolInv
<1>1. PICK f \in Frame, p \in Page : f = call[t].frame /\ p = call[t].page
  BY <1>0, CallFields
<1>2. latch = t /\ t \notin pending /\ p \notin DOMAIN page_table
  BY <1>0, <1>1 DEF Waiting, CallFits
<1>3. Rests
  BY <1>2, Served DEF Serves
<1>4. /\ DOMAIN page_table' = (DOMAIN page_table \ {page_id[f]}) \cup {p}
      /\ page_table'[p] = f /\ data'[f] = Zero
      /\ \A q \in DOMAIN page_table \ {page_id[f]} : page_table'[q] = page_table[q]
      /\ \A g \in Frame \ {f} : data'[g] = data[g]
  <2>1. Install(f, p)
    BY <1>1
  <2> QED BY <1>0, <1>2, <2>1, InstallFacts
<1>5. ASSUME NEW q \in Page
      PROVE  Contents(q)' = Contents(q)
  <2>1. Contents(q) = IF q \in DOMAIN page_table THEN data[page_table[q]] ELSE disk[q]
    BY <1>3 DEF Contents, Rests
  <2>2. Contents(q)' = IF q \in DOMAIN page_table' /\ ~BeingRead(q)'
                         THEN data'[page_table'[q]] ELSE disk[q]
    BY DEF Contents, BeingRead
  <2>3. CASE q = p
    <3>1. Contents(q) = disk[p]
      BY <1>2, <2>1, <2>3
    <3>2. CASE call[t].op = "fetch"
      BY <1>1, <2>2, <2>3, <3>1, <3>2
    <3>3. CASE call[t].op = "new"
      <4>1. disk[p] = Zero
        BY <1>0, <1>1, <3>3 DEF DiskFits
      <4> QED BY <1>1, <1>4, <2>2, <2>3, <3>1, <3>3, <4>1
    <3> QED BY <3>2, <3>3
  <2>4. CASE q # p /\ q = page_id[f]
    <3>1. q \in DOMAIN page_table /\ page_table[q] = f /\ page_id[f] # NoPage
      BY <1>0, <2>4, PoolAssumption DEF PlacesFit
    <3>2. disk[q] = data[f]
      BY <1>0, <1>1, <1>2, <2>4, <3>1 DEF DiskFits
    <3> QED BY <1>4, <2>1, <2>2, <2>4, <3>1, <3>2
  <2>5. CASE q # p /\ q # page_id[f]
    <3>1. ASSUME q \in DOMAIN page_table
          PROVE  page_table[q] \in Frame \ {f} /\ page_table'[q] = page_table[q]
      BY <1>0, <1>4, <2>5, <3>1 DEF Types, PlacesFit
    <3> QED BY <1>1, <1>4, <2>1, <2>2, <2>5, <3>1
  <2> QED BY <2>3, <2>4, <2>5
<1> QED BY <1>5 DEF ContentsStay

\* A page that is deleted is on the disk.
LEMMA DeleteContents ==
    ASSUME PoolInv, NEW t \in Client, DeleteReturns(t)
    PROVE  ContentsStay
<1>0. Types /\ PlacesFit /\ DiskFits /\ CallFits(t)
  BY DEF PoolInv
<1>1. /\ call[t].op = "delete" /\ latch = t /\ t \notin pending
      /\ disk' = disk /\ pending' = pending
  BY DEF DeleteReturns, Waiting
<1>2. PICK f \in Frame, p \in Page : f = call[t].frame /\ p = call[t].page
  BY <1>0, <1>1, CallFields
<1>3. Rests
  BY <1>1, Served DEF Serves
<1>4. /\ page_table' = [q \in DOMAIN page_table \ {p} |-> page_table[q]]
      /\ data' = [data EXCEPT ![f] = Zero]
  BY <1>2 DEF DeleteReturns, Erase
<1>5. p \in DOMAIN page_table /\ page_table[p] = f /\ page_id[f] = p /\ p # NoPage
  <2>1. p \in DOMAIN page_table /\ page_table[p] = f
    BY <1>0, <1>1, <1>2 DEF CallFits
  <2> QED BY <1>0, <2>1, PoolAssumption DEF PlacesFit
<1>6. disk[p] = data[f]
  BY <1>0, <1>1, <1>2, <1>5 DEF DiskFits
<1>7. ASSUME NEW q \in Page
      PROVE  Contents(q)' = Contents(q)
  <2>1. Contents(q) = IF q \in DOMAIN page_table THEN data[page_table[q]] ELSE disk[q]
    BY <1>3 DEF Contents, Rests
  <2>2. Contents(q)' = IF q \in DOMAIN page_table' THEN data'[page_table'[q]] ELSE disk[q]
    BY <1>1, <1>3 DEF Contents, Rests
  <2>3. CASE q = p
    BY <1>4, <1>5, <1>6, <2>1, <2>2, <2>3
  <2>4. CASE q # p
    <3>1. ASSUME q \in DOMAIN page_table
          PROVE  page_table[q] \in Frame \ {f} /\ page_table'[q] = page_table[q]
      BY <1>0, <1>4, <1>5, <2>4, <3>1 DEF Types, PlacesFit
    <3> QED BY <1>0, <1>4, <2>1, <2>2, <2>4, <3>1 DEF Types
  <2> QED BY <2>3, <2>4
<1> QED BY <1>7 DEF ContentsStay

\* A step of a call that waits for nothing, and does not have a page read.
LEMMA CallContents ==
    ASSUME PoolInv, NEW t \in Client, t \notin pending,
           NEW x, call' = [call EXCEPT ![t] = x], x.op # "read",
           pending' = pending \/ pending' = pending \cup {t},
           UNCHANGED <<page_table, data, disk>>
    PROVE  ContentsStay
<1>1. pending \subseteq Client
  BY DEF PoolInv, SchedulerFits, Rests, Ends, Serves
<1>2. call'[t] = x /\ \A u \in Client \ {t} : call'[u] = call[u]
  BY DEF PoolInv, Types
<1>3. \A p : BeingRead(p)' <=> BeingRead(p)
  BY <1>1, <1>2 DEF BeingRead
<1> QED BY <1>3, SameContents

\* Who has not got the latch has no request with the disk scheduler.
LEMMA OnlyTheLatch ==
    ASSUME PoolInv
    PROVE  pending \subseteq {latch} \cap Client
BY DEF PoolInv, SchedulerFits, Rests, Ends, Serves

\* A flush does not change what a page holds, nor does a deletion that has just begun.
LEMMA FlushContents ==
    ASSUME PoolInv, NEW t \in Client,
           \/ FlushReturns(t) \/ ElementFlushed(t) \/ FlushElement(t) \/ FlushAllReturns(t)
           \/ \E p \in Page : \/ FlushAllPages(t, p) \/ NextElement(t, p) \/ Stray(t, p)
                              \/ FlushPage(t, p) \/ DeletePage(t, p)
    PROVE  ContentsStay /\ held' = held
<1>0. t \notin pending
  <2>1. CASE FlushReturns(t) \/ ElementFlushed(t)
    BY <2>1 DEF FlushReturns, ElementFlushed, Waiting
  <2>2. CASE call[t].op \notin Inside
    BY <2>2, OneInside, OnlyTheLatch
  <2>3. CASE FlushElement(t) \/ FlushAllReturns(t)
    BY <2>2, <2>3 DEF FlushElement, FlushAllReturns, Inside
  <2>4. ASSUME NEW p \in Page, \/ FlushAllPages(t, p) \/ NextElement(t, p) \/ Stray(t, p)
                               \/ FlushPage(t, p) \/ DeletePage(t, p)
        PROVE  call[t].op \notin Inside
    BY <2>4 DEF FlushAllPages, NextElement, Stray, FlushPage, DeletePage, Enter, Idle, Inside
  <2> QED BY <2>1, <2>2, <2>3, <2>4
<1>1. CASE FlushReturns(t) \/ FlushAllReturns(t)
  <2>1. call' = [call EXCEPT ![t] = Idle] /\ Idle.op # "read"
    BY <1>1 DEF FlushReturns, FlushAllReturns, Leave, Idle
  <2>2. UNCHANGED <<page_table, data, disk, pending, held>>
    BY <1>1 DEF FlushReturns, FlushAllReturns, scheduler, pool, users
  <2> QED BY <1>0, <2>1, <2>2, CallContents
<1>2. ASSUME ElementFlushed(t) \/ FlushElement(t)
             \/ \E p \in Page : FlushAllPages(t, p) \/ NextElement(t, p) \/ Stray(t, p)
      PROVE  ContentsStay /\ held' = held
  <2>1. PICK p, left, op : Walk(t, p, left, op) /\ op # "read"
    <3>1. CASE ElementFlushed(t)
      BY <3>1 DEF ElementFlushed
    <3>2. CASE FlushElement(t)
      BY <3>2 DEF FlushElement
    <3>3. ASSUME NEW p \in Page, FlushAllPages(t, p) \/ NextElement(t, p) \/ Stray(t, p)
          PROVE  \E left : Walk(t, p, left, "element")
      BY <3>3 DEF FlushAllPages, NextElement, Stray
    <3> QED BY <1>2, <3>1, <3>2, <3>3
  <2>2. PICK x : x = [op |-> op, page |-> p, left |-> left]
    OBVIOUS
  <2>3. call' = [call EXCEPT ![t] = x] /\ x.op # "read"
    BY <2>1, <2>2 DEF Walk
  <2>4. /\ UNCHANGED <<page_table, data, disk, held>>
        /\ pending' = pending \/ pending' = pending \cup {t}
    BY <1>2 DEF ElementFlushed, FlushElement, FlushAllPages, NextElement, Stray, WriteOut,
                Schedule, Request, scheduler, pool, users
  <2> QED BY <1>0, <2>3, <2>4, CallContents
<1>3. ASSUME NEW p \in Page, FlushPage(t, p) \/ DeletePage(t, p)
      PROVE  ContentsStay /\ held' = held
  <2>1. PICK f, op : Go(t, op, p, f) /\ op # "read"
    BY <1>3 DEF FlushPage, DeletePage
  <2>2. PICK x : x = [op |-> op, page |-> p, frame |-> f]
    OBVIOUS
  <2>3. call' = [call EXCEPT ![t] = x] /\ x.op # "read"
    BY <2>1, <2>2 DEF Go
  <2>4. /\ UNCHANGED <<page_table, data, disk, held>>
        /\ pending' = pending \/ pending' = pending \cup {t}
    BY <1>3 DEF FlushPage, DeletePage, WriteIfDirty, WriteOut, Schedule, Request, scheduler,
                pool, users
  <2> QED BY <1>0, <2>3, <2>4, CallContents
<1> QED BY <1>1, <1>2, <1>3

\* A frame that is taken still holds its page.
LEMMA TakeContents ==
    ASSUME PoolInv, NEW t \in Client, NEW op \in {"new", "fetch"}, NEW p \in Page, NEW f \in Frame,
           Obtain(t, op, p, f)
    PROVE  ContentsStay /\ held' = held
<1>0. t \notin pending
  BY OneInside, OnlyTheLatch DEF Obtain, Enter, Idle, Inside
<1>1. PICK x : x = [op |-> op, page |-> p, frame |-> f]
  OBVIOUS
<1>2. call' = [call EXCEPT ![t] = x] /\ x.op # "read"
  BY <1>1 DEF Obtain, Go
<1>3. /\ UNCHANGED <<page_table, data, disk, held>>
      /\ pending' = pending \/ pending' = pending \cup {t}
  BY DEF Obtain, WriteIfDirty, WriteOut, Schedule, Request, scheduler, users
<1> QED BY <1>0, <1>2, <1>3, CallContents

\* A page that is fetched is as it was on the disk.
LEMMA FetchReadsContents ==
    ASSUME PoolInv, NEW t \in Client, FetchReads(t)
    PROVE  ContentsStay /\ held' = held
<1>0. Types
  BY DEF PoolInv
<1>1. /\ call[t].op = "fetch" /\ latch = t /\ t \notin pending /\ disk' = disk /\ held' = held
      /\ pending' = pending \cup {t}
      /\ Install(call[t].frame, call[t].page)
  BY DEF FetchReads, Waiting, users, Schedule, Request
<1>2. call'[t] = [op |-> "read", page |-> call[t].page, frame |-> call[t].frame]
  BY <1>0 DEF FetchReads, Go, Types
<1>3. pending' = {t}
  BY <1>1, OnlyTheLatch
<1>4. \A q : BeingRead(q)' <=> q = call[t].page
  BY <1>2, <1>3 DEF BeingRead
<1>5. Waiting(t, call[t].op)
  BY DEF FetchReads, Waiting
<1> QED BY <1>1, <1>4, <1>5, InstallContents

\* A new page is zeroed.
LEMMA NewPageContents ==
    ASSUME PoolInv, NEW t \in Client, NewPageReturns(t)
    PROVE  ContentsStay
<1>0. Types
  BY DEF PoolInv
<1>1. /\ call[t].op = "new" /\ latch = t /\ t \notin pending /\ disk' = disk /\ pending' = pending
      /\ Install(call[t].frame, call[t].page)
  BY DEF NewPageReturns, Waiting
<1>2. pending' = {}
  BY <1>1, OnlyTheLatch
<1>3. \A q : ~BeingRead(q)'
  BY <1>2 DEF BeingRead
<1>4. Waiting(t, call[t].op)
  BY DEF NewPageReturns, Waiting
<1> QED BY <1>1, <1>3, <1>4, InstallContents

\* The page that was read is in the frame.
LEMMA FetchReturnsContents ==
    ASSUME PoolInv, NEW t \in Client, FetchReturns(t)
    PROVE  ContentsStay
<1>1. t \notin pending /\ call' = [call EXCEPT ![t] = Idle] /\ Idle.op # "read"
  BY DEF FetchReturns, Waiting, Leave, Idle
<1>2. UNCHANGED <<page_table, data, disk, pending>>
  BY DEF FetchReturns, scheduler, pool
<1> QED BY <1>1, <1>2, CallContents

\* A write through a held pointer goes to the page that the frame holds.
LEMMA WriteContents ==
    ASSUME PoolInv, NEW t \in Client, NEW p \in Page, NEW f \in Frame, NEW v \in Value,
           Write(t, p, f, v)
    PROVE  \A q \in Page : Contents(q)' = IF q = p THEN v ELSE Contents(q)
<1>0. Types /\ PlacesFit /\ HoldersFit /\ \A u \in Client : CallFits(u)
  BY DEF PoolInv
<1>1. /\ <<p, f>> \in held[t] /\ data' = [data EXCEPT ![f] = v]
      /\ disk' = disk /\ page_table' = page_table /\ call' = call /\ pending' = pending
  BY DEF Write, pool
<1>2. page_id[f] = p /\ p \in DOMAIN page_table /\ page_table[p] = f
  BY SMTT(60), <1>0, <1>1, PoolAssumption DEF HoldersFit, PlacesFit
<1>3. ~BeingRead(p)
  <2> SUFFICES ASSUME NEW u \in pending, call[u].op = "read", call[u].page = p
               PROVE  FALSE
    BY DEF BeingRead
  <2>1. u \in Client
    BY OnlyTheLatch
  <2>2. call[u].frame = f /\ <<p, call[u].frame>> \notin held[t]
    BY <1>0, <1>2, <2>1 DEF CallFits
  <2> QED BY <1>1, <2>2
<1>4. data'[f] = v /\ \A g \in Frame \ {f} : data'[g] = data[g]
  BY <1>0, <1>1 DEF Types
<1>5. ASSUME NEW q \in Page
      PROVE  Contents(q)' = IF q = p THEN v ELSE Contents(q)
  <2>1. /\ Contents(q) = IF q \in DOMAIN page_table /\ ~BeingRead(q)
                           THEN data[page_table[q]] ELSE disk[q]
        /\ Contents(q)' = IF q \in DOMAIN page_table /\ ~BeingRead(q)
                            THEN data'[page_table[q]] ELSE disk[q]
    BY <1>1 DEF Contents, BeingRead
  <2>2. CASE q = p
    BY <1>2, <1>3, <1>4, <2>1, <2>2
  <2>3. CASE q # p
    <3>1. q \in DOMAIN page_table => page_table[q] \in Frame \ {f}
      BY <1>0, <1>2, <2>3 DEF Types, PlacesFit
    <3> QED BY <1>4, <2>1, <2>3, <3>1
  <2> QED BY <2>2, <2>3
<1> QED BY <1>5

StoreMap == [p \in Page |-> Contents(p)]

\* A step that changes no contents, and the pages somebody holds in one of three ways.
LEMMA StoreStep ==
    ASSUME PoolInv, ContentsStay, NEW t \in Client,
           \/ held' = held
           \/ \E p \in Page : \E f : held' = [held EXCEPT ![t] = @ \cup {<<p, f>>}]
           \/ \E p \in Page : held' = [held EXCEPT ![t] = {x \in @ : x[1] # p}]
    PROVE  [Store!Next]_(Store!vars)
<1>0. held \in [Client -> SUBSET (Page \X Frame)]
  BY DEF PoolInv, Types
<1>1. StoreMap' = StoreMap
  BY DEF ContentsStay, StoreMap
<1>2. CASE held' = held
  <2>1. HeldPages' = HeldPages
    BY <1>2 DEF HeldPages
  <2> QED BY <1>1, <2>1 DEF Store!vars, StoreMap, HeldPages
<1>3. ASSUME NEW p \in Page, NEW f, held' = [held EXCEPT ![t] = @ \cup {<<p, f>>}]
      PROVE  [Store!Next]_(Store!vars)
  <2>1. HeldPages' = [HeldPages EXCEPT ![t] = @ \cup {p}]
    <3>1. \A u \in Client : held'[u] = IF u = t THEN held[u] \cup {<<p, f>>} ELSE held[u]
      BY <1>0, <1>3
    <3>2. \A u \in Client : {x[1] : x \in held'[u]} =
            IF u = t THEN {x[1] : x \in held[u]} \cup {p} ELSE {x[1] : x \in held[u]}
      <4>1. PICK new : new = <<p, f>>
        OBVIOUS
      <4>2. new[1] = p
        BY <4>1
      <4>3. {x[1] : x \in held[t] \cup {new}} = {x[1] : x \in held[t]} \cup {p}
        BY <4>2
      <4> QED BY <3>1, <4>1, <4>3
    <3> QED BY <3>2 DEF HeldPages
  <2>2. Store!Pin(t, p)
    BY <1>1, <2>1 DEF Store!Pin, StoreMap, HeldPages
  <2> QED BY <2>2 DEF Store!Next
<1>4. ASSUME NEW p \in Page, held' = [held EXCEPT ![t] = {x \in @ : x[1] # p}]
      PROVE  [Store!Next]_(Store!vars)
  <2>1. HeldPages' = [HeldPages EXCEPT ![t] = @ \ {p}]
    <3>1. \A u \in Client : held'[u] = IF u = t THEN {x \in held[u] : x[1] # p} ELSE held[u]
      BY <1>0, <1>4
    <3>2. \A u \in Client : {x[1] : x \in held'[u]} =
            IF u = t THEN {x[1] : x \in held[u]} \ {p} ELSE {x[1] : x \in held[u]}
      BY <3>1
    <3> QED BY <3>2 DEF HeldPages
  <2>2. Store!Unpin(t, p)
    BY <1>1, <2>1 DEF Store!Unpin, StoreMap, HeldPages
  <2> QED BY <2>2 DEF Store!Next
<1> QED BY <1>2, <1>3, <1>4

\* A write is a write of the abstract store.
LEMMA StoreWrites ==
    ASSUME PoolInv, NEW t \in Client, NEW p \in Page, NEW f \in Frame, NEW v \in Value,
           Write(t, p, f, v)
    PROVE  [Store!Next]_(Store!vars)
<1>1. \A q \in Page : Contents(q)' = IF q = p THEN v ELSE Contents(q)
  BY WriteContents
<1>2. StoreMap' = [StoreMap EXCEPT ![p] = v]
  BY <1>1 DEF StoreMap
<1>3. p \in HeldPages[t] /\ HeldPages' = HeldPages
  <2>1. <<p, f>> \in held[t] /\ held' = held
    BY DEF Write
  <2> QED BY <2>1 DEF HeldPages
<1>4. Store!Write(t, p, v)
  BY <1>2, <1>3 DEF Store!Write, StoreMap, HeldPages
<1> QED BY <1>4 DEF Store!Next

\* A step of the abstract store, or none, in which no page changes.
PagesStay == ContentsStay /\ [Store!Next]_(Store!vars)
Writes == \E t \in Client, p \in Page, f \in Frame, v \in Value : Write(t, p, f, v)

\* Every step of the pool is a step of the abstract store, or leaves it alone, and only a write
\* changes a page.
LEMMA PoolSteps == PoolInv /\ [Next]_vars => [Store!Next]_(Store!vars) /\ (ContentsStay \/ Writes)
<1> SUFFICES ASSUME PoolInv, [Next]_vars
             PROVE  [Store!Next]_(Store!vars) /\ (ContentsStay \/ Writes)
  OBVIOUS
<1>0. ASSUME ContentsStay, held' = held
      PROVE  PagesStay
  <2>1. StoreMap' = StoreMap /\ HeldPages' = HeldPages
    BY <1>0 DEF ContentsStay, StoreMap, HeldPages
  <2> QED BY <1>0, <2>1 DEF PagesStay, Store!vars, StoreMap, HeldPages
<1>1. ASSUME NEW t \in Client, NewPageReturns(t) \/ FetchReturns(t)
      PROVE  PagesStay
  <2>1. call[t].page \in Page /\ call[t].frame \in Frame
    BY <1>1, CallFields DEF PoolInv, NewPageReturns, FetchReturns, Waiting
  <2>2. held' = [held EXCEPT ![t] = @ \cup {<<call[t].page, call[t].frame>>}]
    BY <1>1 DEF NewPageReturns, FetchReturns, Hold
  <2>3. ContentsStay
    BY <1>1, NewPageContents, FetchReturnsContents
  <2> QED BY <2>1, <2>2, <2>3, StoreStep DEF PagesStay
<1>2. ASSUME NEW t \in Client, FetchReads(t)
      PROVE  PagesStay
  BY <1>0, <1>2, FetchReadsContents
<1>3. ASSUME NEW t \in Client, DeleteReturns(t)
      PROVE  PagesStay
  BY <1>0, <1>3, DeleteContents DEF DeleteReturns, users
<1>4. ASSUME NEW t \in Client,
             \/ FlushReturns(t) \/ ElementFlushed(t) \/ FlushElement(t) \/ FlushAllReturns(t)
             \/ \E p \in Page : \/ FlushAllPages(t, p) \/ NextElement(t, p) \/ Stray(t, p)
                                \/ FlushPage(t, p) \/ DeletePage(t, p)
      PROVE  PagesStay
  BY <1>0, <1>4, FlushContents
<1>5. ASSUME NEW t \in Client, NEW f \in Frame, NewPage(t, f) \/ \E p \in Page : FetchMiss(t, p, f)
      PROVE  PagesStay
  BY <1>0, <1>5, TakeContents DEF NewPage, FetchMiss
<1>6. ASSUME NEW t \in Client, NEW p \in Page,
             FetchHit(t, p) \/ \E dirty \in BOOLEAN : UnpinPage(t, p, dirty)
      PROVE  PagesStay
  <2>1. UNCHANGED <<page_table, data, disk, call, pending>>
    BY <1>6 DEF FetchHit, UnpinPage, scheduler
  <2>2. \A q : BeingRead(q)' <=> BeingRead(q)
    BY <2>1 DEF BeingRead
  <2>3. ContentsStay
    BY <2>1, <2>2, SameContents
  <2>4. \/ \E f : held' = [held EXCEPT ![t] = @ \cup {<<p, f>>}]
        \/ held' = [held EXCEPT ![t] = {x \in @ : x[1] # p}]
    BY <1>6 DEF FetchHit, UnpinPage, Hold
  <2> QED BY <2>3, <2>4, StoreStep DEF PagesStay
<1>7. ASSUME WorkerStep
      PROVE  PagesStay
  <2>1. CASE Get
    <3>1. UNCHANGED <<page_table, data, disk, call, pending, held>>
      BY <1>7, <2>1 DEF WorkerStep, Get, pool, users
    <3>2. \A q : BeingRead(q)' <=> BeingRead(q)
      BY <3>1 DEF BeingRead
    <3> QED BY <1>0, <3>1, <3>2, SameContents
  <2>2. CASE Perform
    <3>1. UNCHANGED <<page_table, call, held>>
      BY <1>7 DEF WorkerStep, pool, users
    <3> QED BY <1>0, <2>2, <3>1, PerformContents
  <2> QED BY <1>7, <2>1, <2>2 DEF WorkerStep, Worker
<1>8. ASSUME Destroy \/ UNCHANGED vars
      PROVE  PagesStay
  <2>1. UNCHANGED <<page_table, data, disk, call, pending, held>>
    BY <1>8 DEF Destroy, Shutdown, vars, scheduler, pool, users
  <2>2. \A q : BeingRead(q)' <=> BeingRead(q)
    BY <2>1 DEF BeingRead
  <2> QED BY <1>0, <2>1, <2>2, SameContents
<1>9. ASSUME NEW t \in Client, NEW p \in Page, NEW f \in Frame, NEW v \in Value, Write(t, p, f, v)
      PROVE  [Store!Next]_(Store!vars) /\ Writes
  BY <1>9, StoreWrites DEF Writes
<1>10. PagesStay \/ ([Store!Next]_(Store!vars) /\ Writes)
  BY <1>1, <1>2, <1>3, <1>4, <1>5, <1>6, <1>7, <1>8, <1>9 DEF Next, Continue
<1> QED BY <1>10 DEF PagesStay

\* What a page holds changes only by the writes of threads that hold it, never by being evicted,
\* fetched, flushed or deleted.
THEOREM PoolIsPageStore == Spec => IsPageStore
<1>1. Init => Store!Init
  <2> SUFFICES ASSUME Init
               PROVE  Store!Init
    OBVIOUS
  <2>1. /\ page_table = <<>> /\ disk = [p \in Page |-> Zero]
        /\ held = [t \in Client |-> {}]
    BY DEF Init, SchedulerInit
  <2>2. ASSUME NEW p \in Page
        PROVE  Contents(p) = Zero
    <3>1. p \notin DOMAIN page_table
      BY <2>1
    <3> QED BY <2>1, <3>1 DEF Contents
  <2>3. ASSUME NEW t \in Client
        PROVE  {x[1] : x \in held[t]} = {}
    BY <2>1
  <2>4. [p \in Page |-> Contents(p)] = [p \in Page |-> Zero]
    BY <2>2
  <2>5. [t \in Client |-> {x[1] : x \in held[t]}] = [t \in Client |-> {}]
    BY <2>3
  <2> QED BY <2>4, <2>5 DEF Store!Init
<1>2. PoolInv /\ [Next]_vars => [Store!Next]_(Store!vars)
  BY PoolSteps
<1>3. PoolInv /\ [Next]_vars
        => [\/ \A p \in Page : Contents(p)' = Contents(p)
            \/ \E t \in Client, p \in Page, f \in Frame, v \in Value : Write(t, p, f, v)]_vars
  BY PoolSteps DEF ContentsStay, Writes
<1> QED BY <1>1, <1>2, <1>3, PoolInvariant, PTL DEF Spec, IsPageStore, Store!Spec

=============================================================================
