---------------------------- MODULE MCTrieStore -----------------------------
(* TrieStore with keys that share prefixes and values of two types. *)
EXTENDS TrieStore

CONSTANTS t1, t2

Keys == {<<>>, <<"a">>, <<"a", "a">>, <<"a", "b">>}
Values == {[type |-> "uint32_t"], [type |-> "string"]}
Types == {"uint32_t", "string"}

=============================================================================
