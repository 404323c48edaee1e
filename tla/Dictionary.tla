----------------------------- MODULE Dictionary -----------------------------
(* What a TrieStore is to its users: a map from keys to values (trie.h, trie_store.h).  Each call
   takes effect at one moment while it is under way, and has no effect but its own: a Put binds
   its key to its value, a Remove unbinds its key, a Get finds what its key is bound to. *)
CONSTANTS Thread, Key, Value, NoValue,
          Type,     \* a Get asks for values of a type
          EmptyKey  \* the empty string

VARIABLES map,  \* what each key is bound to
          asked \* the call of each thread, and then what its Get has found

Idle == [op |-> "none"]
Calls == [op : {"put"}, key : Key, value : Value] \cup [op : {"remove"}, key : Key]
           \cup [op : {"get"}, key : Key, type : Type]

OfType(v, T) == IF v \in {x \in Value : x.type = T} THEN v ELSE NoValue

Becomes(t, c) == asked' = [asked EXCEPT ![t] = c]

Begin(t, c) == asked[t] = Idle /\ Becomes(t, c) /\ UNCHANGED map

Put(t) ==
    /\ asked[t].op = "put"
    /\ map' = [map EXCEPT ![asked[t].key] = asked[t].value]
    /\ Becomes(t, Idle)

Remove(t) ==
    /\ asked[t].op = "remove" /\ asked[t].key # EmptyKey
    /\ map' = [map EXCEPT ![asked[t].key] = NoValue]
    /\ Becomes(t, Idle)

\* Remove of the empty key takes the others with it, which trie.h does not say.
RemoveEmpty(t) ==
    /\ asked[t].op = "remove" /\ asked[t].key = EmptyKey
    /\ map' = [k \in Key |-> NoValue]
    /\ Becomes(t, Idle)

Get(t) ==
    /\ asked[t].op = "get"
    /\ Becomes(t, [op |-> "got", value |-> OfType(map[asked[t].key], asked[t].type)])
    /\ UNCHANGED map

Return(t) == asked[t].op = "got" /\ Becomes(t, Idle) /\ UNCHANGED map

Init == map = [k \in Key |-> NoValue] /\ asked = [t \in Thread |-> Idle]

Next == \E t \in Thread : \/ \E c \in Calls : Begin(t, c)
                          \/ Put(t) \/ Remove(t) \/ RemoveEmpty(t) \/ Get(t) \/ Return(t)

Spec == Init /\ [][Next]_<<map, asked>>

=============================================================================
