--------------------------- MODULE DiskScheduler ----------------------------
(***************************************************************************)
(* The disk scheduler of project1, disk_scheduler.cpp: callers put         *)
(* requests into a Channel and wait for the future of each; one worker     *)
(* thread takes them out and reads or writes the disk; the destructor puts *)
(* std::nullopt behind them and joins the worker.                          *)
(*                                                                         *)
(* Channel (a queue with a mutex and a condition) and DiskManager are not  *)
(* in the repository: Put and Get are steps, a page that was never written *)
(* reads as zeros.                                                         *)
(***************************************************************************)
EXTENDS Naturals, Sequences

CONSTANTS Client,      \* the threads that schedule requests
          Buffer,      \* the memory data_ points into
          Page,        \* page ids
          Value,       \* contents of a page
          Zero,        \* the contents of a page never written
          NoRequest,   \* the worker has no request in hand
          NullOpt      \* std::nullopt

Requests == [from : Client, is_write : BOOLEAN, data : Buffer, page_id : Page]

ASSUME SchedulerAssumption ==
    Zero \in Value /\ NoRequest # NullOpt /\ {NoRequest, NullOpt} \cap Requests = {}

VARIABLES request_queue, \* request_queue_: requests and NullOpt
          node,          \* of StartWorkerThread; with NullOpt it has returned
          data,          \* what the buffers hold
          disk,          \* what the disk holds
          pending        \* the callers whose promise is not set yet

scheduler == <<request_queue, node, data, disk, pending>>

Request(c, is_write, buffer, page) ==
    [from |-> c, is_write |-> is_write, data |-> buffer, page_id |-> page]

Put(r) == request_queue \o <<r>>

\* CreatePromise, Schedule: what the caller does next is wait for the future.
Schedule(r) ==
    /\ request_queue' = Put(r)
    /\ pending' = pending \cup {r.from}

\* The loop of StartWorkerThread: Get waits for a request.
Get ==
    /\ node = NoRequest /\ request_queue # <<>>
    /\ node' = Head(request_queue)
    /\ request_queue' = Tail(request_queue)
    /\ UNCHANGED <<data, disk, pending>>

\* Mutant of Kept: the promise of a read is not set.
Kept_Writes(r) == IF r.is_write THEN pending \ {r.from} ELSE pending

\* callback_.set_value
Kept(r) == pending \ {r.from}

\* WritePage or ReadPage, by the pointer in the request, then the promise is set.
Perform ==
    /\ node \notin {NoRequest, NullOpt}
    /\ IF node.is_write
         THEN disk' = [disk EXCEPT ![node.page_id] = data[node.data]] /\ data' = data
         ELSE data' = [data EXCEPT ![node.data] = disk[node.page_id]] /\ disk' = disk
    /\ pending' = Kept(node)
    /\ node' = NoRequest
    /\ UNCHANGED request_queue

Worker == Get \/ Perform

\* ~DiskScheduler: std::nullopt goes behind all requests; then it joins the worker.
Shutdown == request_queue' = Put(NullOpt) /\ UNCHANGED <<node, data, disk, pending>>

SchedulerInit ==
    /\ request_queue = <<>> /\ node = NoRequest /\ pending = {}
    /\ data = [b \in Buffer |-> Zero] /\ disk = [p \in Page |-> Zero]

=============================================================================
