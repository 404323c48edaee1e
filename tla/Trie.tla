-------------------------------- MODULE Trie --------------------------------
(***************************************************************************)
(* The copy-on-write trie of project0, trie.cpp, as a value: a node is its *)
(* children and its value, Nil is the null pointer, a key is a sequence of *)
(* characters.  An operation returns a new trie and shares or copies nodes *)
(* that are const, which does not show in values.                          *)
(***************************************************************************)
EXTENDS Sequences

CONSTANTS Nil,    \* nullptr, the root of an empty trie
          NoValue \* a TrieNode that is not a TrieNodeWithValue

Node(children, value) == [children |-> children, value |-> value]
Empty == Node(<<>>, NoValue)
HasChild(node, c) == c \in DOMAIN node.children
Leaf(node) == DOMAIN node.children = {}

Erase(node, c) ==
    [node EXCEPT !.children = [d \in DOMAIN node.children \ {c} |-> node.children[d]]]

\* The node a key leads to, Nil if there is none.
RECURSIVE Find(_, _)
Find(node, key) ==
    IF node = Nil \/ key = <<>> THEN node
    ELSE IF HasChild(node, Head(key)) THEN Find(node.children[Head(key)], Tail(key)) ELSE Nil

\* Trie::Get<T>: the dynamic_cast fails for a value of another type.
Get(root, key, T) ==
    LET node == Find(root, key) IN
      IF node = Nil \/ node.value = NoValue THEN NoValue
      ELSE IF node.value.type = T THEN node.value ELSE NoValue

Seqs == INSTANCE SequencesExt

\* A new path to a value, built from its end.
Path(key, v) == Seqs!FoldRight(LAMBDA c, node : Node([d \in {c} |-> node], NoValue), key, Node(<<>>, v))

RECURSIVE PutHelper(_, _, _)
PutHelper(node, key, v) ==
    IF key = <<>> THEN Node(node.children, v)
    ELSE LET c == Head(key) IN
      Node([d \in DOMAIN node.children \cup {c} |->
               IF d # c THEN node.children[d]
               ELSE IF HasChild(node, c) THEN PutHelper(node.children[c], Tail(key), v)
               ELSE Path(Tail(key), v)],
           node.value)

\* For the empty key root_ is used as it is, also when it is the null pointer.
PutIsDefined(root, key) == key # <<>> \/ root # Nil

Put(root, key, v) == PutHelper(IF root = Nil THEN Empty ELSE root, key, v)

\* Mutant of Trim: no node is ever removed.
Trim_Never(node) == node

\* if (!root->is_value_node_ && root->children_.empty()) root = nullptr
Trim(node) == IF node.value = NoValue /\ Leaf(node) THEN Nil ELSE node

\* Mutant of Unvalued: the child goes, whatever is below it.
Unvalued_Always(node, c) == Trim(Erase(node, c))

\* The last character: the child goes, or stays for its children without a value.
Unvalued(node, c) ==
    IF Leaf(node.children[c]) THEN Trim(Erase(node, c))
    ELSE [node EXCEPT !.children[c] = Node(@.children, NoValue)]

\* The root after it, Nil for the null pointer.
RECURSIVE RemoveHelper(_, _)
RemoveHelper(node, key) ==
    LET c == Head(key) IN
      IF ~HasChild(node, c) THEN node
      ELSE IF Len(key) = 1 THEN Unvalued(node, c)
      ELSE LET child == RemoveHelper(node.children[c], Tail(key)) IN
             Trim(IF child = Nil THEN Erase(node, c) ELSE [node EXCEPT !.children[c] = child])

\* return {} for the empty key
Remove(root, key) ==
    IF key = <<>> THEN Nil ELSE RemoveHelper(IF root = Nil THEN Empty ELSE root, key)

=============================================================================
