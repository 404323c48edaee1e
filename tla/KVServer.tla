------------------------------ MODULE KVServer ------------------------------
(***************************************************************************)
(* The versioned key-value server of Mit6824/lab2/server.go and the Clerk  *)
(* of client.go that calls it over an unreliable network.                  *)
(*                                                                         *)
(* A client has one clerk operation under way at a time; call[c] is the    *)
(* RPC its clerk waits for.  labrpc may lose a request or a reply, which   *)
(* the clerk sees as a failed Call and answers by calling again.  A        *)
(* request the clerk has given up may still arrive: late holds the Puts    *)
(* that may (one element stands for any number of equal copies; a late Get *)
(* has no effect).                                                         *)
(*                                                                         *)
(* A key that is not in the map has version 0, so that "install if absent" *)
(* and "update if unchanged" are both a match of versions.                 *)
(***************************************************************************)
EXTENDS Integers

CONSTANTS Client,  \* each with a Clerk of its own
          Key,
          Value,
          Empty    \* the empty string, the Value field of a fresh reply

ASSUME KVAssumption == Empty \in Value /\ Key # {}

VARIABLES mp,    \* KVServer.mp
          call,  \* the RPC each clerk waits for
          late,  \* Puts given up by their clerk and still in the network
          ret    \* what each clerk operation returned last

kvVars == <<mp, call, late, ret>>

Err == {"OK", "ErrNoKey", "ErrVersion", "ErrMaybe"}

Absent == [value |-> Empty, version |-> 0]

PutArgs == [client : Client, id : Nat, key : Key, value : Value, version : Nat]

Call == [at : {"none", "request", "reply"}, op : {"Get", "Put"}, id : Nat, key : Key,
         value : Value, version : Nat, retried : BOOLEAN, err : Err]

Return == [err : Err, value : Value, version : Nat]

\* No call: what a clerk between operations looks like.
Idle == [at |-> "none", op |-> "Get", id |-> 0, key |-> CHOOSE k \in Key : TRUE,
         value |-> Empty, version |-> 0, retried |-> FALSE, err |-> "OK"]

-----------------------------------------------------------------------------
(* The server. *)

\* What Put answers, and whether it writes: only a matching version does.
PutErr(a) ==
    IF a.version = mp[a.key].version THEN "OK"
    ELSE IF mp[a.key] = Absent THEN "ErrNoKey" ELSE "ErrVersion"

\* Mutant of Store: the version is not compared.
Store_AnyVersion(a) ==
    mp' = [mp EXCEPT ![a.key] = [value |-> a.value, version |-> @.version + 1]]

Store(a) ==
    mp' = IF a.version = mp[a.key].version
            THEN [mp EXCEPT ![a.key] = [value |-> a.value, version |-> @.version + 1]]
            ELSE mp

\* KVServer.Get
ServeGet(c) ==
    /\ call[c].at = "request" /\ call[c].op = "Get"
    /\ LET e == mp[call[c].key] IN
         call' = [call EXCEPT ![c].at = "reply",
                              ![c].value = e.value,
                              ![c].version = e.version,
                              ![c].err = IF e = Absent THEN "ErrNoKey" ELSE "OK"]
    /\ UNCHANGED <<mp, late, ret>>

\* KVServer.Put
ServePut(c) ==
    /\ call[c].at = "request" /\ call[c].op = "Put"
    /\ Store(call[c])
    /\ call' = [call EXCEPT ![c].at = "reply", ![c].err = PutErr(call[c])]
    /\ UNCHANGED <<late, ret>>

\* KVServer.Put for a request nobody waits for any more.
ServeLate(a) ==
    /\ a \in late
    /\ Store(a)
    /\ UNCHANGED <<call, late, ret>>

-----------------------------------------------------------------------------
(* The clerk. *)

Get(c, k) ==
    /\ call[c].at = "none"
    /\ call' = [call EXCEPT ![c] = [Idle EXCEPT !.at = "request", !.key = k]]
    /\ UNCHANGED <<mp, late, ret>>

Put(c, id, k, x, v) ==
    /\ call[c].at = "none"
    /\ call' = [call EXCEPT ![c] = [at |-> "request", op |-> "Put", id |-> id, key |-> k,
                                    value |-> x, version |-> v,
                                    retried |-> FALSE, err |-> "OK"]]
    /\ UNCHANGED <<mp, late, ret>>

ArgsOf(c) == [client |-> c, id |-> call[c].id, key |-> call[c].key,
              value |-> call[c].value, version |-> call[c].version]

\* Call returned false: the request or its reply was lost, or is late.
Resend(c) ==
    /\ call[c].at # "none"
    /\ call' = [call EXCEPT ![c].at = "request", ![c].retried = TRUE]
    /\ late' = IF call[c].op = "Put" /\ call[c].at = "request"
                 THEN late \cup {ArgsOf(c)} ELSE late
    /\ UNCHANGED <<mp, ret>>

\* Mutant of ReturnedErr: an ErrVersion is passed on whether or not it is a resend's.
ReturnedErr_NoMaybe(c) == call[c].err

\* A resent Put that finds another version may have been performed before.
ReturnedErr(c) ==
    IF call[c].op = "Put" /\ call[c].retried /\ call[c].err = "ErrVersion"
      THEN "ErrMaybe" ELSE call[c].err

\* Call returned true and the clerk returns.
ClerkReturn(c) ==
    /\ call[c].at = "reply"
    /\ ret' = [ret EXCEPT ![c] = [err |-> ReturnedErr(c), value |-> call[c].value,
                                  version |-> call[c].version]]
    /\ call' = [call EXCEPT ![c] = Idle]
    /\ UNCHANGED <<mp, late>>

-----------------------------------------------------------------------------
\* MakeKVServer: an empty map, and no clerk has called yet.
KVInit ==
    /\ mp = [k \in Key |-> Absent]
    /\ call = [c \in Client |-> Idle]
    /\ late = {}
    /\ ret = [c \in Client |-> [err |-> "OK", value |-> Empty, version |-> 0]]

\* The network and the server at work on calls already made.
KVStep ==
    \/ \E c \in Client : ServeGet(c) \/ ServePut(c) \/ Resend(c) \/ ClerkReturn(c)
    \/ \E a \in late : ServeLate(a)

\* The types of KVServer.mp and of the RPC arguments and replies.
KVTypeOK ==
    /\ mp \in [Key -> [value : Value, version : Nat]]
    /\ call \in [Client -> Call]
    /\ late \subseteq PutArgs
    /\ ret \in [Client -> Return]

=============================================================================
