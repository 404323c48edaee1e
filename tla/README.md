# Formal models of cslearning

The repository holds coursework in distributed systems and databases. The parts with
logic of their own are the MIT 6.824 labs in Go (MapReduce, a versioned key-value
server with a lock built on it, four successive Raft servers) and two CMU 15-445
projects in C++ (a copy-on-write trie with its store; a buffer pool with its replacer
and disk scheduler). This directory models them in TLA+, checks the models with TLC on
small instances and proves the main results with TLAPS for every instance.

`PROJECT.json` maps every definition to the lines it models, and lists the runs, the
mutated definitions each property was seen to catch, the hazards and the theorems.

To check and to prove:

    tlc -config RaftLog.cfg MCRaftLog           # any pair of the table below
    tlapm KVServerProofs.tla                    # any *Proofs module

## Inventory

| Component | Source | State | Operations | Talks to |
|---|---|---|---|---|
| Raft, final server | `Mit6824/lab3/lab3-D/raft.go` | `term`, `votedFor`, `log`, `state`, `nextIndex`, `matchIndex`, `commitIndex`, `lastApplied`, snapshot; a persister | `ticker`, `RequestVoteHelper`, `RequestVote`, `startLearder`, `AppendEntries`, `InstallSnapshot`, `pushToFollowers`, `ReachToCommit`, `Start`, `Snapshot`, `Kill`, `Make` | its peers by labrpc calls, the service by `applyCh` |
| Raft, persistent log | `lab3-C/raft.go` | the same, without the snapshot | the same, without snapshots | the same |
| Raft, log in memory | `lab3-B/raft.go` | the same, without a persister | an intermediate stage of lab3-C | the same |
| Raft, elections only | `lab3-A/raft.go` | `term`, `votedFor`, `state` | `ticker`, `RequestVoteHelper`, `RequestVote`, heartbeats | its peers |
| Key-value server and clerk | `lab2/server.go`, `client.go`, `rpc/rpc.go` | a map from keys to (value, version) | `Get`, `Put`; the clerk's retry loops | clerk to server by labrpc calls |
| Lock | `lab2/lock/lock.go` | nothing but its identity and a local flag; the lock is a key at the server | `Acquire`, `Release` | the clerk |
| MapReduce | `lab1/coordinator.go`, `worker.go`, `rpc.go` | task lists with statuses, two counters; intermediate and output files | `RpcHandler` (ask, report success, report failure), `Faultsearch`, `Done`; the worker's loop | worker to coordinator by RPC, workers with each other by files |
| Trie, TrieStore | `14-445/project0-submission` | an immutable trie; a root under two locks | `Get`, `Put`, `Remove` | threads sharing a store |
| Buffer pool, LRU-K, disk scheduler | `14-445/project1-submission` | frames, page table, free list, pins, dirty bits; access histories; a request queue | new, delete, fetch, flush; evict, record; schedule | the pool calls the replacer and waits for the scheduler's worker thread |
| Test harness | `lab3/*/test.go`, `server.go`, `raft_test.go`, `lab2/*test.go` | - | - | drives the servers |

What is hard in each, and what makes it correct:

* **Raft elections.** Goroutines interleave between short critical sections; replies of
  earlier elections wait on an unbuffered channel that later elections read; a server may
  crash after any answer. Correct: one leader per term, no vote given twice, nothing
  answered that a crash can take back.
* **Raft logs.** Calls are lost and overtake one another, leaders change, logs are
  truncated and restored. Correct: logs match below any common entry, committed entries
  stay, one command per applied index, a leader's beliefs about its peers are true.
* **Raft snapshots.** Indices shift under goroutines that hold old ones; a snapshot and the
  commands around it reach the service on separate goroutines. Correct: indices stay inside
  the log, committed commands survive cuts, installs and restarts, the services see one
  sequence.
* **Raft goroutines.** One waits on a condition, others poll. Correct: no wakeup is lost, and
  they end when the server is killed.
* **Key-value.** A `Put` is retried by its clerk and old copies may arrive late. Correct:
  it writes at most once, and `OK`, `ErrVersion` and `ErrMaybe` tell the truth.
* **Lock.** Built on exactly that uncertainty. Correct: mutual exclusion, no orphaned lock,
  both methods return.
* **MapReduce.** Workers die, fail, or report after their task was given to another.
  Correct: each task counted once, no reduce before the last map, all files there, the job ends.
* **TrieStore.** Readers and writers over two locks and an immutable trie. Correct: it is a
  map, each writer changes one key and none of the changes is lost, readers are not blocked.
* **LRU-K.** Nodes move between two ordered sets whose key they carry. Correct: the sets hold
  the nodes in their order, and the victim is the one the definition of the k-distance gives.
* **Disk scheduler.** A queue, a worker, futures, a shutdown message. Correct: requests take
  effect in order, everyone who waits is answered, the shutdown serves what is queued.
* **Buffer pool.** A latch that is held over waits for the disk, pins, dirty bits, a walk
  without the latch. Correct: a frame is in one place, a held page stays where it is, no write is lost.

## Modules

| Module | Models | Run with | Proofs |
|---|---|---|---|
| `RaftElection` | elections and terms of lab3-D | `MCRaftElection` | `RaftElectionProofs` |
| `RaftLab3A` | the elections of lab3-A, whose vote handler differs | `MCRaftLab3A` | - |
| `RaftLab3B` | replication of lab3-B, with the goroutines that differ from lab3-C | `MCRaftLab3B` | `RaftLab3BProofs` |
| `RaftLog` | replication, commit, apply, persistence of lab3-C | `MCRaftLog` | `RaftLogProofs` |
| `AgreedLog` | what Raft promises the services (abstract) | through `RaftSnapshot` | - |
| `RaftSnapshot` | replication, snapshots and the service of lab3-D; implements `AgreedLog` | `MCRaftSnapshot` | `RaftSnapshotProofs` |
| `RaftThreads` | the goroutines of one server of lab3-D: waiting, waking, ending | itself | - |
| `KVServer` | the server of lab2, its clerk and the network | through the next two | lemmas in `KVServerProofs` |
| `KVClients` | clients of `KVServer` and the history of their Puts | `MCKVClients` | `KVServerProofs` |
| `Lock` | lock.go over `KVServer` | itself | `KVServerProofs` |
| `Job` | what a MapReduce job promises (abstract) | through `MapReduce` | - |
| `MapReduce` | coordinator, workers and files; implements `Job` | itself | `MapReduceProofs` |
| `Dictionary` | a map from keys to values and the calls of it (abstract) | through `TrieStore` | - |
| `Trie` | the operations of the copy-on-write trie | through `TrieStore` | - (recursive) |
| `TrieStore` | the store over `Trie`; implements `Dictionary` | `MCTrieStore` | - |
| `Replacer` | frames that are tracked, evictable, forgotten (abstract) | through `LRUKReplacer` and `BufferPool` | - |
| `LRUKReplacer` | the two ordered sets of the replacer; implements `Replacer` | `MCLRUK` | `LRUKProofs` |
| `DiskScheduler` | queue, worker, futures and shutdown | through `BufferPool` | `BufferPoolProofs` |
| `PageStore` | pages that threads hold and write (abstract) | through `BufferPool` | - |
| `BufferPool` | the pool over `DiskScheduler` and any `Replacer`; implements `PageStore` | `MCBufferPool` | `BufferPoolProofs` |

### RaftElection

One step is one critical section of `rf.lock_`, or one choice of the `select` on `C_` and
the timeout. `pc[i]` is where the ticker goroutine of server i is in `RequestVoteHelper`:
`Tick` and `StartElection` are apart because the lock is released between them, `Await`,
`CountVote`, `LearnTerm`, `ElectionTimeout`, `BecomeLeader` and `Retry` are the loop.
A reply knows in which election it was asked for (`election`), as the goroutine that holds
it does; the code does not look at it, so a reply may be received in a later election, as
from the channel. `GrantVote` and `RefuseVote` are the handler. A leader's replication is kept
for what it does to terms: `Spawn` is the goroutine started under the lock with the state
checked, `SendRequest` is that goroutine taking the lock again and building its request from
whatever it finds, `AcceptAppend`, `AcceptSnapshot` and `ReceiveAppendReply` are the
places that adopt a term. `Restart` loads what `persist()` saved. A log is the term
and index of its last entry, all a vote looks at. Lost messages stay in `msgs` for ever.

### RaftLab3A

The same steps for the first server. Its `RequestVote` (`raft.go:248`) grants a vote to a
higher term and returns without leaving its role, and that is one of the runs below.

### RaftLog

A command is identified by the term it was appended in, so a log is a sequence of terms
(the dummy entry at 0 is implied). `Start` appends, saves and moves `nextIndex`;
`SendAppend` builds the request under the lock; `RefuseAppend`, `MismatchAppend` and
`AcceptAppend` are the handler's three ways out with every hint of the fast backtracking;
`ReceiveAppend` is the sender's goroutine, which asks neither whether it still leads nor in
which term; `Commit` is a round of `pushToFollowers`; `Apply` one message of
`ReachToCommit`; `Restart` is `Kill` and `Make`. A round of an election is one
step (`Elected`, `Undecided`, `Deposed`): what happens inside one is RaftElection's subject. Each
peer's request is a step of its own, where the code builds all of them in one critical
section: that adds interleavings and takes none away.

`RaftLog`, `RaftLab3B` and `RaftSnapshot` are bounded by `bound`, a variable that no step changes: each
behaviour keeps all its life to one record of `Bounds`, which says who may campaign in which term and how many entries, leaderships,
restarts and calls under way there may be. A run so explores several shapes of behaviour side by side,
each as far as it goes, and not their product.

### RaftLab3B

What the first server with a log does otherwise: `Heartbeat` and `SendEntries` are built by different
goroutines and are under way side by side; `SendEntries` leaves a request in `unsent`
whose slice still shares memory with the log, and `Encode` reads it later, each entry as it was or as
it has become (`torn`); a heartbeat's reply sets `matchIndex` from the `nextIndex` of now;
`AcceptEntries` adopts no term. Nothing is saved, so a server that dies is one that stays
silent. `commitIndex` can go back after a call with few entries and a high `LeaderCommit`;
`lastApplied` does not, so that does no harm.

### RaftSnapshot and AgreedLog

A command is the term it was appended in and the index `Start` returned, so two commands at one index
can be told apart after the log that held them is gone. `log[i]` is `rf.log` with its dummy entry, and `Pos`
is `indexSub`. `Send` is a round of the loop for a peer whose goroutine gets the lock at once,
`Spawn` and `SendLate` one whose goroutine waits (`senders`) while anything else happens: it decides what to send
before and builds it after. `Fetch`, `Deliver` and `SetApplied` are the three parts of
`ReachToCommit` between which the lock is free; `InstallSnapshot` leaves its message in `offers`, whose
goroutines (`DeliverSnapshot`) race with `Deliver` for `applyCh`. `logs` and `owing` are the service: it
records, compares with the others (`Differs`) and calls `Snapshot` every `SnapShotInterval`
commands. `Die` is a panic or `log.Fatalf`, which ends every server of the process, as in
the tests; `ended` says why. Safety is stated for what has happened until then.

`AgreedLog` is one growing sequence of which every service holds a prefix; `chosen`, the
commands leaders found committed, plays the sequence. A request keeps, as a history field (`full`) that no step
reads, the commands its sender had up to the request's last entry.

### RaftThreads

One server; what peers do shows only in the indices they bring. `applier` is where `ReachToCommit` is: it tests under
the lock, waits, sends, or has ended. `Signal` wakes it only while it waits, as a condition variable does.
`pushers` and `loops` are the goroutines of each leadership: those of an
earlier one may still run in the next. The panic of `ReachToCommit` after a snapshot has overtaken it (its
`start` below the snapshot) sets `ended`.

### KVServer, KVClients, Lock

`call[c]` is the RPC the clerk of client c waits for, first as a request, then as a
reply. `Resend` is a `Call` that returned false, whatever was lost; the request given
up may still be in the network (`late`) and is executed any number of times.
`ReturnedErr` turns a resent Put's `ErrVersion` into `ErrMaybe`. A key that is absent has
version 0. `KVClients` adds who wrote which version and what each Put returned. `Lock` adds
the two loops of lock.go, one step per clerk call or test, `lpc[c]` being the place and
`flag[c]` the local variable that remembers an `ErrMaybe`. That two random identities
differ is assumed: the identity is the client.

### Job and MapReduce

`pc[w]` follows a worker and the handler that serves it. `Ask` and `Choose` are apart because
`Done` takes the lock and gives it back before `taskNum_` is read without it. `Prepare`, `RenameInter`,
`ReadInter` and `RenameOut` are the file operations, one by one; `HandleSuccess` and
`HandleError` the reports; `Timeout` one task found overdue by `Faultsearch`. The contents of a file are a
function of its name (map and reduce functions are deterministic), so a file is in place or
not. `MapReduce` implements `Job` under: a task is finished when its status is 2.

### Dictionary, Trie, TrieStore

A trie is a node: a value or none, and children by letter; a key is a sequence of letters and a value its type, all that
`Get` compares. `Trie` has the operations as the code recurses, `PutIsDefined` where they dereference
no null. `TrieStore` cuts `Put` and `Remove` where the locks change: `PutBegins` and `RemoveBegins` read
the root and build the new trie under `write_lock_`, `Publish` replaces the root under `root_lock_`;
`GetCopies` copies the root, `Answer` is what looking the key up in the copy gives. `PutCrashes` follows a null
pointer and ends the program. `asked` is the call a thread is in, with its arguments.

`Dictionary` is the map with the calls under way: a thread begins a Put, a Remove or a Get of a key, and the call takes effect at
one later moment, on that key and with that value. Only the Remove of the empty key empties the map (`RemoveEmpty`). The mapping
reads the keys off the trie by walking it (`Binding`), not by `Get`; a write takes effect when it is published, a `Get` when it copies the root, and what
`Answer` gives is what the abstract Get has found. So a Put that bound another key or none, a Remove that took more with it than its key,
and a `Get` of a wrong type would each show. The recursion keeps this module out of the prover's reach.

### Replacer and LRUKReplacer

An element of `has_k_` or `not_k_` is modelled by the key it was inserted with, so that an
`erase` with another time stamp finds nothing, as in the `std::set`. `past` keeps the whole history of each
frame, from which `VictimIsFurthest` takes the k-distance by its definition. `Replacer` is what the pool relies on, whatever the policy.

### DiskScheduler, PageStore, BufferPool

`Schedule` puts a request with its promise (`pending`) into the queue, `Worker` takes and performs
it; `data` is the memory `data_` points into: the frames of `BufferPool`. A call of the pool holds `latch` from its first
step to its last, with steps in between
where it waits for the future of a write or a read; other threads write into the pages they hold meanwhile.
The replacer appears as the set of evictable frames, of which any may be the victim, so
that what holds does not depend on LRU-K. `FlushAllPages` stands on an element of the
page table (`Walk`, `NextElement`) without the latch. When that element is erased under it the behaviour is
undefined, and `Stray` lets the walk go on anywhere in the table, or end; elements that come in meanwhile are passed over
(an `unordered_map` may or may not visit them). `Destroy` is the destructor, with the scheduler's `Shutdown` in it.

What the threads that use the pool are supposed to do is in the guards. A thread fetches only ids that `NewPage` has given out
(`p < next_page_id` in `FetchMiss`; the code does not look, and an id that is fetched before it is allocated would be in two frames once it
is: `page_table_.insert` keeps the older entry), and no page it holds already. It unpins what it holds, once, and says so if it has written it. Nobody calls while the pool is
destroyed, and nobody holds a page then. All that is said of the pool, checked or proved, is said of such callers. Since a
call has the latch while its request is queued, the scheduler's queue has one request at most, and none when the destructor puts
`nullopt` into it.

## Runs

| Run | Module, configuration | Shows | Bounds | States |
|---|---|---|---|---|
| `election` | `MCRaftElection`, `RaftElection` | one leader per term, vote finality, a leader leaves its term only by stepping down, the inductive invariant (types, durability, tally) | 3 servers, 2 elections; one crash each, or 1 command, on two of the servers at most, and 1 replication call at a time | 510 thousand |
| `lab3a_leaders` | `MCRaftLab3A`, `RaftLab3A` | **violated**: two leaders in one term | 3 servers, 2 elections | - |
| `log` | `MCRaftLog`, `RaftLog` | log matching, true `matchIndex`, `nextIndex` in the log, state machine safety, committed entries stay, the commit index never goes back | 3 servers: 1 leader, 2 entries, 2 calls at a time; 2 terms, 2 entries; term 1 of two candidates, term 2 of the third, 1 entry; 3 terms, the first leader again in the third, 1 entry, 1 restart; two servers apply, or all | 1.3 million |
| `lab3b` | `MCRaftLab3B`, `RaftLab3B` | true `matchIndex`, committed entries in a majority of the logs, one leader per term | 3 servers: 1 leader, 2 entries, 2 calls at a time; term 1 of two candidates, term 2 of the third | 420 thousand |
| `snapshot` | `MCRaftSnapshot`, `RaftSnapshot` | logs match across snapshots, true `matchIndex`, committed commands stay, on a majority of disks; implements `AgreedLog` | 3 servers, a snapshot at each command: 1 leader, 2 entries; 1 leader, 1 entry, a sender that waits; 2 terms, 1 entry each at most, 1 restart; term 1 of two candidates, term 2 of the third; two servers apply, or all | 920 thousand |
| `threads` | `RaftThreads`, `RaftThreads` | no lost wakeup, a leader commits, loops and ticker end after `Kill` | 1 peer, 3 entries, 2 leaderships | 240 thousand |
| `kv` | `MCKVClients`, `KVClients` | a Put writes once and its outcome is the truth | 2 clients, 2 Puts each, versions asked for up to 1 | 1.9 million |
| `lock` | `Lock`, `Lock` | mutual exclusion, no orphan, the inductive invariant (types, holder recorded); every call returns | 2 clients, nobody starts from version 2 on | 51 thousand |
| `mapreduce` | `MapReduce`, `MapReduce` | the inductive invariant (exact counters, files in place, no panic); implements `Job`; the job ends and all exit | 2 workers, 2 + 2 tasks, 1 crash, 2 failures, 3 late reports | 230 thousand |
| `trie_store` | `MCTrieStore`, `TrieStore` | a map: each Put, Remove and Get takes effect once, on its own key, and no write is lost; no empty nodes | 2 writers, one of which reads; 4 keys with common prefixes, the empty one among them; 2 types | 710 thousand |
| `lruk` | `MCLRUK`, `LRUKReplacer` | the sets are in order, the victim is the furthest; implements `Replacer` | 3 frames, K = 3, 7 accesses | 160 thousand |
| `buffer_pool` | `MCBufferPool`, `BufferPool` | frames in one place, held pages stay; implements `PageStore`; whoever waits for the disk worker is answered | 2 threads, 2 frames, 3 pages, 2 values; one thread in `FlushAllPages` | 540 thousand |

Why these bounds do. Three servers are the fewest with a majority that is neither one nor all; two
elections are the fewest in which an earlier one's replies, votes and leader meet a later one,
and every server may win, lose, crash and lead in either. `election` explores crashes and replication one without the other
(`OneAtATime`), and in the second some server has not got the command: both together are beyond TLC, and the theorems of `RaftElectionProofs` have no such bound. The log runs divide what would be too
much at once: one leader with two calls under way that overtake each other; two terms with conflicting entries of two leaders; a leader that
comes back after a restart and another one's term, which is what it takes for an entry of an earlier term to be
counted again. Where only two servers apply (`appliers`) the third one's `lastApplied` would multiply the states and could
show nothing its peers' do not: entries are compared pairwise. Two clients are a holder and a rival, and late Puts let past
calls of either interfere; up to version 2 one Acquire and Release is complete while the other client's has begun
at any point of it, waits and goes on. Two tasks of each kind separate "the last" from "the first"; two workers, one of which may be late three times, let a
task be done by both while either asks again. Where the bound matters to a
theorem, the theorem holds for every value of it.

For snapshots, a snapshot at each command is the most there can be, so that every request, reply and
batch meets one; the two-term runs have one entry because a second one makes restarts too many states.
Seven accesses with K = 3 give one frame a full history, another a partial one, and let the oldest time stamp
fall out of the first. Two frames for three pages make every third fetch evict; two threads are
a caller under the latch and a writer or a walk beside it. One page is written: what is lost or kept of it is what would be of
any. Keys that are prefixes of one another, siblings and the empty one
are all the cases the trie's recursion tells apart. Three entries are what it takes for a snapshot to
overtake a batch of `ReachToCommit`.

What the bounds do not reach: in the Raft runs an incarnation wins at most one election
(`leads = 1`, the hypothesis `LeadsOnce` of the theorems about commitment). With more, the reply to a call of an earlier leadership is applied to the present
one (`lab3-C/raft.go:557`, `lab3-D/raft.go:651`) and `startLearder` of lab3-C starts from a stale
`matchIndex` (below). In lab3-B `nextIndex` is never reset, so that a second leadership may index a log past its end, and delayed calls of
a deposed leader meet a majority of a second one only with five servers (below). In `snapshot` a sender goroutine that waits meets no
second leader (below).

Type invariants are conjuncts: of `ElectionInv`, `LockInv` and `JobInv`, of which the provers need them, and
of one state invariant in each of the other runs (`NextIndexInLog`, `CommittedAgree`, `MatchIndexTrue` of lab3-B, `SetsAreTheStore`, `FramesConsistent`).

`CHECK_DEADLOCK FALSE` appears where the bounds use up what may happen: no more elections, no
more Acquires, a finished job, a program that has panicked. `kv` runs with deadlock checked.

**Fairness.** `Lock`: the goroutines in Acquire and
Release run (weak fairness of `Proceed`), who holds the lock releases it (the callers of
lock_test.go do), the server executes what reaches it, and a clerk that keeps calling is answered in the end (strong
fairness of `ClerkReturn`: a call may fail again and again, but not always, which is what
the unreliable network of the tests does, with a probability). `CallsReturn` is about
an Acquire once the others stop asking: since nobody starts beyond the bound, contention is finite; the code has no
queue and promises nothing under endless contention. `MapReduce`: a worker that
is alive goes on, and `Faultsearch` comes back to every task; crashes, failures and late
workers are not fair and are finitely many. `RaftThreads`: goroutines are scheduled, an election ends at its
timeout, the service receives from `applyCh`; calls and replies may come or not. `BufferPool`: the worker runs when the queue is not
empty, and a call whose future is ready goes on; who gets the latch next is not fair, so that `WaitsEnd` says it comes free and not that everyone
gets it.

## Where the code disagrees with its comments and tests

One is a run that TLC finds violated; the quote is in `PROJECT.json`.

* `lab3a_leaders`: the vote handler of lab3-A (`raft.go:248`) takes over a candidate's higher
  term and grants the vote without becoming a follower. A leader that votes so goes on as leader
  of the new term, beside the one it elected. The later servers step down, and in them `ElectionSafety`
  is proved.

The others are in the models' steps as the code has them, and the bounds or the properties say where they begin:

* lab3-B: only heartbeats bring a term (`raft.go:550`). A follower that has taken entries of
  term 2 accepts delayed entries of term 1, which truncate what was committed. It takes five servers and two leaders with a
  majority each; the bounds of `lab3b` stop short of it.
* lab3-C: `matchIndex` is not reset on election (`raft.go:491`). A leader that led before counts
  a peer whose entries were truncated, and commits what only it holds. It takes six terms of two servers that lead in turn. lab3-D
  resets it.
* lab3-D: a sender goroutine that gets the lock after its server was deposed (`raft.go:566`, 597)
  sends its own log under its successor's term, and followers truncate committed entries: `SendLate` after a second leader's election.
* lab3-D: the goroutine that hands over an installed snapshot (`raft.go:910`) is overtaken
  by the next command, and the service stops the program (`server.go:130`): `ended` is "out of order".
* lab3-D: an `AppendEntries` call repeated after the follower took a snapshot has a `PrevLogIndex` below
  it (`raft.go:723`): `ended` is "index out of range".
* lab3-D: after `Kill` the loop of `pushToFollowers` may go round for ever
  (`raft.go:786`), and `ReachToCommit` may wait for ever (822). `LoopsEnd` speaks of the other loops.
* `lru_k_replacer.cpp:88`: among frames with fewer than K accesses the code evicts the one that came first,
  where the header (`lru_k_replacer.h:56`) promises classical LRU. `VictimIsFurthest` states what the code does.
* `buffer_pool_manager.cpp:169`: `FlushAllPages` walks the page table without the latch (`Stray`).
* `trie.cpp:138`: `Remove` of the empty key empties the trie, the step `RemoveEmpty` of `Dictionary`; `Put` of the
  empty key into an empty trie follows a null pointer (88), the step `PutCrashes`.

## Proofs

All constants are arbitrary: any finite set of servers, any set of clients, any number of
workers and tasks, any finite set of frames and any K, any bounds. The assumptions are those named in the modules (`ServerAssumption`,
`BoundAssumption`, `KVAssumption`, `LockAssumption`, `SizeAssumption`, `LRUKAssumption`, `SchedulerAssumption`, `PoolAssumption`): sizes and page ids
are naturals, `NoOne` is no server, `NullOpt` no request, a client's identity is a value other than the empty string, and
`Frames`, the free list of a new pool, lists every frame once, as the constructor does.

**RaftElectionProofs.** `ElectionSafety` alone is not inductive. `ElectionInv` adds: memory and disk
agree (`DurableState`), votes are given once per term (`VoteOnce`) and remembered
(`VoteKept`), a call in the network belongs to an election that was started and a granting
reply to a vote that was given in that very term (`CallsBacked`), a call is in the network
once (`OneMessagePerCall`), the count n of a candidate is the number of distinct servers that voted for it in its
present term (`Tally`), every election was won by a majority of votes
(`WonByMajority`). `Tally` is the interesting part: replies of earlier elections do reach the
count, and what keeps them out is that a granting reply carries the term of its vote and the count compares it with the
candidate's. Two majorities share a server, which has voted once: one leader per term
(`OneLeaderPerTerm`). `StateIsDurable`, `VotesAreFinal` and `LeadersKeepTheirTerm` follow from the same invariant.

**RaftLogProofs.** Two invariants, one on top of the other.

`LogInv`, about elections and logs, needs no hypothesis. Every term was won by one server (`LeadersFit`), and the disk holds
what memory does (`Durable`). `Agree` is the heart: if entry x of a log equals a later or the same entry of another, the two
agree up to x. It is stated over `Logs`, the servers' logs together with the logs requests were cut from: a request keeps that log as a history
field (`full`), which no step reads, so that what a follower takes over from it is again a prefix of a log. A leader's log has every entry of its term
(`LeaderHasAll`), also those under way in requests (`RequestFits`), so a new entry meets no other of its term and
index. `LogsMatch` follows. Each step is shown to be of one of four kinds (`StepFits`): it sends a piece of a log, wins a term, appends an
entry to a leader's log, or changes logs only by taking over a request; each kind preserves the invariant.

`SafeInv` is about commitment. A `Chosen` prefix is one a majority has and keeps (`Holds`) and everything of a later term begins with
(`Spread`). What is committed, announced in a request or applied is part of one (`CommitFits`), and two chosen prefixes
agree where both are defined (`ChosenAgree`): `AppliedAgree` and `CommittedEntriesStay` follow. How an entry comes to be chosen is `FateFits`: for
each entry of its own term a leader has either lost a majority, which went to later terms without acknowledging it
and never will (`Lost`), or whoever acknowledged it still has it and later leaders have it. An election decides
between the two: a winner whose log has the entry keeps `Spread`, and the voters of one whose log has not are a majority that did
not acknowledge it. `AcksFit` says acknowledgements are true, in `matchIndex` and in replies under way, as long as the peer
is in the leader's term: `MatchesAreTrue`. `Commit` counts a majority for an entry of the leader's present term only, which is where the guard of
`pushToFollowers` (`lab3-C/raft.go:704`) enters the proof.

`SafeInvariant` and what follows from it have the hypothesis `LeadsOnce`: no incarnation of a server wins two
elections. (It may campaign in any number of terms, and win again after a restart.) The code needs it: lab3-C does not reset `matchIndex` (above),
so the acknowledgements of a leader that led before are not true, and nothing keeps a reply of the earlier leadership
from being applied in the later one. All cases of the `log` run satisfy it. `SafeInv` was
checked by TLC on them before it was proved.

**RaftLab3BProofs.** lab3-B adopts no term from entries and saves nothing, so neither of the invariants above holds of it. What
does is the election (`ElectionFits`): terms and votes move as one (`Termed`), and whoever leads has its term from a majority
whose votes are final (`LeadersAlone`). Every other step is shown to leave both alone, and `OneLeaderPerTerm` follows.

`MatchesAreTrue` and `CommittedIsHeld` are about the time until a second election is won (`FirstLeader`: one server has won one
election, or none has). Candidates may come and go in any number of terms meanwhile, and calls be lost and overtake each other. What makes them
more than obvious is that lab3-B has two kinds of goroutines that send to one peer: a heartbeat's reply sets `matchIndex` from the
`nextIndex` of now, a reply to entries from the length the log had then, and `nextIndex` goes down at every refusal and
up again at every late reply. The invariant is `Fits`: all entries are of one term (`AllOf`), so that two logs agree as far as both reach and
`Merged` never shortens one (`MergedFits`); a request ends within its sender's log, a success within both (`NetFits`), an
index of the leader within both (`IndexFits`), a commit index within the logs of a majority (`Held`, `CommitsFit`). The
commit index of a request is its sender's, whatever its age. `FirstLeaderInvariant` states it of every behaviour; `Fits` was checked by TLC in the
states of the `lab3b` run in which `FirstLeader` holds before it was proved.

**RaftSnapshotProofs.** The *trail* of a server is the sequence of the terms of all commands it has, those of its
snapshot and those of its log. Cutting the log and restarting leave the trail as it is, and an installed snapshot is a request
with a log that is all committed. So the trails do what the logs of `RaftLog` do, and `LogInv`, `AcksFit`, `FateFits` and `CommitFits`
are those of `RaftLogProofs` said of trails, with indices of the whole trail where the code has offsets. Each step is shown to be of one of four
kinds (it follows a request, appends as a leader, wins a term, sends a piece of a trail), whatever it does to the
offset, and each kind preserves the four. What lab3-D adds has invariants of its own. `Stores`: what the dummy entry, `lastSnap`, the snapshot
and the saved copies have to do with one another (`Formed`, `Durable`); a service's dummy may still hold the command that was cut
there. `ChosenFits`: `chosen` is one sequence, a majority has it and goes on having it, so that the snapshot a leader sends, the one a server
installs and the one its service asks for are beginnings of it. `ServiceFits`: what a service holds, what is on its way
through `applyCh` and what `offers` wait with are such beginnings, not beyond the commit index.

`LogsMatch`, `MatchesAreTrue`, `CommittedAgrees` and `ChosenIsOnDisk` follow from `SafeInv`. `PromiseIsKept` is the refinement of `AgreedLog`: a
leader's commit is its `Agree`, the steps that change what a service holds (a delivered command, a delivered snapshot, a restart) are its
`Show`, and all the others leave it alone. The theorems have these hypotheses, which the bounds of a run or the code's steps
decide, and which are stated of the behaviour because the code can leave them:

* `LeadsOnce`: no incarnation of a server wins two elections, as above.
* `SendersLead`: a sender goroutine comes to the lock while its server leads. If it comes later, the code builds its request with
  the term of a successor (`raft.go:566`, 597; see the findings), and committed entries may be lost. `NoSenderLate`
  proves the hypothesis where the bounds have no goroutine waiting (`late = 0`), so for these the other two remain.
* `DummyUnheard`: no service is told the `Cmd` of a dummy entry. `ReachToCommit` sets `lastApplied` to the index of the command it
  has delivered (`raft.go:843`), also when `InstallSnapshot` has raised it meanwhile; the next round may then start at
  the dummy. A service ahead of it stops the program at that command. Services that were set back by stale snapshots may not
  be ahead, and there the proof has nothing to say.
* `ChosenIsOnDisk` also has `Server # {}`: with no servers a majority is one more than there are.

TLC finds `SendersLead` and `DummyUnheard` true in every state of the `snapshot` run, whose bounds satisfy `LeadsOnce`, so
the theorems cover what the run covers. `Stores` and `ServiceFits` were checked on it before they were proved.

**KVServerProofs.** It extends both `KVClients` and `Lock`, whose definitions have different names for that; its first part has the lemmas
about types and the steps of `KVServer` that both need. `KVInv` relates the server's state, the network and the history. The version of a key is the number of writes in
its history (`HistoryFits`), all copies of a Put ask for one version of one key (`LateFits`, `CallFits`), so that the first one executed
makes every other one stale (`OnlyThere`); a call that was never resent has no copy in the network and, unless it was answered `OK`,
has written nothing; and what a Put returned stays true (`Settled`): after `ErrVersion` nothing of it was
written and none of it is left in the network. `PutsWriteOnce` and `OutcomesAreTruthful` follow. `ErrMaybe` is what the clerk
returns where neither can be said.

Of `Lock`, `LockInv` says what each client may rely on at each place: a Put that can
still write (its version is current) belongs to a client that waits for it and saw the lock free or its own
(`PutFits`), answers of Gets were true (`SeenFits`), whoever owns the lock is named by the server (`Owns`) and whoever is named
knows or will find out (`Aware`), and an abandoned Put is past or a copy of the one being resent (`LateFits`). `HolderRecorded`,
`LockExcludes` and `LockNotOrphaned` follow.

**MapReduceProofs.** `JobInv`: the counters are the numbers of finished tasks, a finished task has left its
files, and the place of a worker tells which files it has renamed and that a reduce task under way means all maps are
done. It gives `CountersExact`, `NeverPanics` and `ImplementsJob`, the refinement of `Job`.

**LRUKProofs.** `StoreInv` adds to `SetsAreTheStore` what ties the two sets to the accesses: `history_` holds the newest
K accesses of a frame (`HistoryIsPast`), the stamp of a node is the oldest access it holds (`StampFits`), and no two frames
were accessed at one time (`OneAtATime`). An access is the hard step: it is split by whether the node had fewer than K - 1,
K - 1 or K accesses, and each time the entry is erased under the stamp it was inserted with. The first evictable
entry of a set exists because a nonempty set of times has an earliest one (`Earliest`, from the well-foundedness of finite
sets), so `has_k_` is reached only if no evictable node has fewer than K accesses, and the victim is the furthest. `SetsStay`,
`FurthestEvicted` and `ImplementsReplacer` follow.

**BufferPoolProofs.** `PoolInv` follows one call from the step that takes the latch to the step that gives it back. Where each
frame is (`PlacesFit`): free, in the call's hands, or in the table, and a frame in hand may still be in the table under its old
page, unpinned. What the call has found stays so while it waits for the disk (`CallFits`): the page it is about to install is
not in the table, the one it deletes is unpinned. The scheduler has no request, that call's request, or the end of the queue
(`SchedulerFits`), although the worker and the caller run side by side. The pin count is the number of threads that hold the
frame's page, with the one that is having it read (`HoldersFit`). `DiskFits` says where the disk is up to date: for pages that are
clean and not written by their holders, for the old page of a frame once it has been written out, for a page that is being
flushed when the flush returns unless somebody writes it meanwhile. The last is why clearing `is_dirty_` after the
wait loses no write: whoever writes meanwhile holds the page, and unpins it as dirty when the latch is free again. Pages not
allocated yet are zero on the disk, which is why a new page needs no read. `FramesConsistentAlways` and `HeldStaysAlways` follow.

`PoolIsPageStore` is the refinement of `PageStore`, with the same said of single steps: none but `Write` changes what a page holds, not even
of a page that a thread holds and might have written. The contents of a page are in its frame or on the disk, and every step
is shown to move them without a change (`ContentsStay`), except a write by a thread that holds the page
(`WriteContents`). The places where it matters are the steps that take a frame from one page to another (`InstallContents`), where what the
frame held must be on the disk, the read and the write of the worker (`PerformContents`) and the deletion (`DeleteContents`).
`PoolInv` was checked by TLC on the instance of the `buffer_pool` run before it was proved.

**Model-checked only.** `RaftThreads` and `TrieStore`, with the refinement of `Dictionary`, have no proofs: the one is about
waiting and ending, that is about liveness, and what `Trie` computes for every trie is an induction over a recursive operator. Nor can the
liveness properties of the other modules be proved: the prover has no rule for fairness or ENABLED. `RaftLab3A` has a property that
fails. `MatchIndexTrue` and `CommittedHeld` of `RaftLab3B` are proved until a second election is won; with later leaders they are only
checked, on the instance of the `lab3b` run. They are false in general, because entries bring no term (`lab3-B/raft.go:550`, above), so there
is nothing more to prove for every instance. The commitment of
lab3-C without `LeadsOnce` is not provable because it is not so, nor is that of lab3-D without `SendersLead`.

## Not modelled, and why

* lab3-D's `back_1`, `back_2` and `back_3`: old copies that are not built.
* Contents of commands, files, pages and values beyond what distinguishes them; timers, beyond that they may fire.
* The goroutines that deliver replies of votes and stay blocked on `C_` when nobody receives (`lab3-D/raft.go:380`): they hold no
  lock and change no state.
* The page guards of the buffer pool: stubs that return nothing.
* The schedules of the test harness; what the tests check is stated as properties. The planner of project0 (a
  pure mapping of function names) and the archived hand-ins of MIT6.S081.

## Plan

1. Proofs: which of the checks that end the program keep a dummy entry from the services, to replace `DummyUnheard` by
   a condition on snapshots offered late.
2. Larger instances: two leaderships of one incarnation in `RaftSnapshot`.
