------------------------------ MODULE KVClients ------------------------------
(***************************************************************************)
(* Clients that Get and Put through the Clerk of Mit6824/lab2 as they      *)
(* please, with the history of what the server wrote and of what the       *)
(* clerks reported.  The tests of kvsrv_test.go are such clients.          *)
(***************************************************************************)
EXTENDS KVServer, Sequences

CONSTANTS MaxPuts,    \* bound: Puts each client makes
          MaxAsked    \* bound: versions a client asks for

ASSUME KVClientsAssumption == MaxPuts \in Nat /\ MaxAsked \in Nat

VARIABLES serial,    \* how many Puts each client has made
          writes,    \* history, per key: the Put behind each version, in order
          outcomes   \* history: what each Put returned

clientVars == <<kvVars, serial, writes, outcomes>>

PutId(a) == <<a.client, a.id>>

\* A step of the server that executes Put a: what it wrote is recorded.
Record(a) ==
    writes' = IF mp' # mp THEN [writes EXCEPT ![a.key] = Append(@, PutId(a))] ELSE writes

ClientGet(c) ==
    /\ \E k \in Key : Get(c, k)
    /\ UNCHANGED <<serial, writes, outcomes>>

ClientPut(c) ==
    /\ serial[c] < MaxPuts
    /\ \E k \in Key, x \in Value, v \in 0..MaxAsked : Put(c, serial[c] + 1, k, x, v)
    /\ serial' = [serial EXCEPT ![c] = @ + 1]
    /\ UNCHANGED <<writes, outcomes>>

ServerStep ==
    \/ \E c \in Client : ServeGet(c) /\ UNCHANGED writes
    \/ \E c \in Client : ServePut(c) /\ Record(ArgsOf(c))
    \/ \E a \in late : ServeLate(a) /\ Record(a)

ClerkStep(c) ==
    \/ Resend(c) /\ UNCHANGED outcomes
    \/ /\ ClerkReturn(c)
       /\ outcomes' = IF call[c].op = "Put"
            THEN outcomes \cup {[put |-> <<c, call[c].id>>, key |-> call[c].key,
                                 version |-> call[c].version, err |-> ReturnedErr(c)]}
            ELSE outcomes

ClientsInit ==
    /\ KVInit
    /\ serial = [c \in Client |-> 0]
    /\ writes = [k \in Key |-> <<>>]
    /\ outcomes = {}

ClientsNext ==
    \/ \E c \in Client : ClientGet(c) \/ ClientPut(c)
    \/ ServerStep /\ UNCHANGED <<serial, outcomes>>
    \/ \E c \in Client : ClerkStep(c) /\ UNCHANGED <<serial, writes>>

ClientsSpec == ClientsInit /\ [][ClientsNext]_clientVars

-----------------------------------------------------------------------------
(* Properties. *)

\* However often it is resent, delayed or executed, a Put writes at most once.
PutAtMostOnce ==
    \A k, l \in Key : \A i \in 1..Len(writes[k]), j \in 1..Len(writes[l]) :
        writes[k][i] = writes[l][j] => k = l /\ i = j

\* A Put that returned OK wrote the version after the one it named, and one that
\* returned ErrVersion wrote nothing and never will: client.go:53 "the Put was
\* definitely not performed at the server".
OutcomeIsTruthful ==
    \A o \in outcomes :
        /\ o.err = "OK" => /\ o.version < Len(writes[o.key])
                           /\ writes[o.key][o.version + 1] = o.put
        /\ o.err = "ErrVersion" =>
              \A i \in 1..Len(writes[o.key]) : writes[o.key][i] # o.put

=============================================================================
