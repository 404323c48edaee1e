------------------------------ MODULE AgreedLog ------------------------------
(***************************************************************************)
(* What the Raft servers of lab3-D promise the services above them: there  *)
(* is one sequence of agreed commands, it only grows, and what a server    *)
(* has told its service, by commands or by a snapshot, is a prefix of it.  *)
(***************************************************************************)
EXTENDS Integers, Sequences

CONSTANT Server

VARIABLES agreed, \* the commands agreed upon, in order
          shown   \* per server, what its service holds

IsPrefixOf(s, t) == Len(s) <= Len(t) /\ s = SubSeq(t, 1, Len(s))

Init == agreed = <<>> /\ shown = [i \in Server |-> <<>>]

\* A leader finds more commands to be held by a majority.
Agree == agreed' # agreed /\ IsPrefixOf(agreed, agreed') /\ UNCHANGED shown

\* The service of server i gets a command or a snapshot, or starts again.
Show(i) ==
    /\ IsPrefixOf(shown'[i], agreed)
    /\ shown' = [shown EXCEPT ![i] = shown'[i]]
    /\ UNCHANGED agreed

Next == Agree \/ \E i \in Server : Show(i)

Spec == Init /\ [][Next]_<<agreed, shown>>

=============================================================================
