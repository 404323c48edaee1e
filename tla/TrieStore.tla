----------------------------- MODULE TrieStore ------------------------------
(***************************************************************************)
(* The thread-safe wrapper of the trie, trie_store.cpp.  Put and Remove    *)
(* read root_ and make the new trie under write_lock_, then replace root_  *)
(* under root_lock_ too; Get copies root_ under root_lock_ and looks the   *)
(* key up in its copy.                                                     *)
(***************************************************************************)
EXTENDS Trie, Integers

CONSTANTS Thread,
          Writers,   \* bound: the threads that call Put and Remove
          Readers,   \* bound: the threads that call Get
          NoThread,  \* nobody has write_lock_
          Key,       \* the keys put, removed and looked up
          Type,      \* T
          Value      \* values, with their type

ASSUME StoreAssumption ==
    /\ NoThread \notin Thread /\ Writers \subseteq Thread /\ Readers \subseteq Thread
    /\ \A v \in Value : v.type \in Type

VARIABLES root,       \* root_
          write_lock, \* who holds write_lock_
          call,       \* what each thread does: the new trie of a writer, the copy of a reader
          crashed     \* a null pointer has been followed: the program is gone

vars == <<root, write_lock, call, crashed>>

Idle == [op |-> "none"]

Do(t, c) == call' = [call EXCEPT ![t] = c]

\* Mutant of MayWrite: there is no write_lock_.
MayWrite_Always == TRUE

MayWrite == write_lock = NoThread

\* A writer that was asked for this has the lock and has read root_.
Write(t, asked, new) ==
    /\ call[t] = Idle /\ MayWrite
    /\ write_lock' = t
    /\ Do(t, [op |-> "write", asked |-> asked, root |-> new])
    /\ UNCHANGED <<root, crashed>>

PutBegins(t, k, v) ==
    PutIsDefined(root, k) /\ Write(t, [op |-> "put", key |-> k, value |-> v], Put(root, k, v))
RemoveBegins(t, k) == Write(t, [op |-> "remove", key |-> k], Remove(root, k))

PutCrashes(t, k) ==
    /\ call[t] = Idle /\ MayWrite
    /\ ~PutIsDefined(root, k)
    /\ crashed' = TRUE
    /\ UNCHANGED <<root, write_lock, call>>

\* root_ = new_root, and both locks are released.
Publish(t) ==
    /\ call[t].op = "write"
    /\ root' = call[t].root
    /\ write_lock' = NoThread
    /\ Do(t, Idle)
    /\ UNCHANGED crashed

GetBegins(t, k, T) ==
    /\ call[t] = Idle
    /\ Do(t, [op |-> "read", asked |-> [op |-> "get", key |-> k, type |-> T]])
    /\ UNCHANGED <<root, write_lock, crashed>>

\* root_lock_ is never held for longer than the step that takes it.
GetCopies(t) ==
    /\ call[t].op = "read"
    /\ Do(t, [op |-> "look", asked |-> call[t].asked, root |-> root])
    /\ UNCHANGED <<root, write_lock, crashed>>

\* What a Get that has its copy goes on to return: a ValueGuard, or std::nullopt.
Answer(t) == Get(call[t].root, call[t].asked.key, call[t].asked.type)

GetReturns(t) ==
    /\ call[t].op = "look"
    /\ Do(t, Idle)
    /\ UNCHANGED <<root, write_lock, crashed>>

Init ==
    /\ root = Nil /\ write_lock = NoThread /\ crashed = FALSE
    /\ call = [t \in Thread |-> Idle]

Read(t) == GetCopies(t) \/ GetReturns(t)

Alive(threads) == {t \in threads : ~crashed}

Next ==
    \/ \E t \in Alive(Writers) : \/ Publish(t)
                                 \/ \E k \in Key : \/ PutCrashes(t, k) \/ RemoveBegins(t, k)
                                                  \/ \E v \in Value : PutBegins(t, k, v)
    \/ \E t \in Alive(Readers) : \/ Read(t)
                                 \/ \E k \in Key, T \in Type : GetBegins(t, k, T)

Spec == Init /\ [][Next]_vars

-----------------------------------------------------------------------------
(* Properties. *)

\* No node below this one is without a value and without children.
RECURSIVE Pruned(_)
Pruned(node) ==
    \A c \in DOMAIN node.children :
        LET child == node.children[c] IN (child.value # NoValue \/ ~Leaf(child)) /\ Pruned(child)

\* trie.cpp:151-152, "If a node doesn't have children any more, you should remove it": only the
\* root that removing from an empty trie makes is empty; and whoever writes has the lock.
NoEmptyNodes ==
    /\ root = Nil \/ Pruned(root)
    /\ \A t \in Thread : call[t].op = "write" <=> write_lock = t

\* What the trie r binds k to, read off the node that k leads to.
Binding(r, k) == LET node == Find(r, k) IN IF node = Nil THEN NoValue ELSE node.value

\* What a thread has asked for, or what its Get will return.
Asked(t) ==
    IF call[t] = Idle THEN Idle
    ELSE IF call[t].op = "look" THEN [op |-> "got", value |-> Answer(t)] ELSE call[t].asked

Map == INSTANCE Dictionary WITH
    EmptyKey <- <<>>, map <- [k \in Key |-> Binding(root, k)], asked <- [t \in Thread |-> Asked(t)]

\* The store is a map, whatever nodes two keys share and whoever else writes and reads: a Put
\* binds its own key to its own value and a Remove unbinds its own key, neither disturbs another
\* key (but for the Remove of the empty key, and only that, which empties the map), no write is
\* lost between reading root_ and replacing it, and a Get answers with what its key was bound to,
\* of the type asked for, at one moment of the call.
IsDictionary == Map!Spec

=============================================================================
