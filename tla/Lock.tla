-------------------------------- MODULE Lock --------------------------------
(***************************************************************************)
(* The lock of Mit6824/lab2/lock/lock.go: clients that Acquire and Release *)
(* one lock by Get and Put on the key-value server, over the network and   *)
(* with the clerk of KVServer.                                             *)
(*                                                                         *)
(* lpc[c] is where client c is: "idle" and "held" outside the two methods, *)
(* "acquire" and "release" at the top of their loops, the others waiting   *)
(* for a Get or a Put.  The identity mystate_, eight random characters, is *)
(* the client itself; that two never draw the same is assumed.             *)
(***************************************************************************)
EXTENDS KVServer

CONSTANTS LockName,   \* the key name_
          MaxVersion  \* bound: nobody starts to acquire beyond this version

ASSUME LockAssumption == /\ LockName \in Key
                         /\ Client \subseteq Value \ {Empty}
                         /\ MaxVersion \in Nat

VARIABLES lpc, flag  \* flag: an earlier Put of this Acquire returned ErrMaybe

lockVars == <<lpc, flag>>
vars == <<kvVars, lockVars>>

Goto(c, l) == lpc' = [lpc EXCEPT ![c] = l]

-----------------------------------------------------------------------------
(* Acquire. *)

Acquire(c) ==
    /\ lpc[c] = "idle"
    /\ mp[LockName].version < MaxVersion
    /\ Goto(c, "acquire")
    /\ flag' = [flag EXCEPT ![c] = FALSE]
    /\ UNCHANGED kvVars

AcquireGet(c) ==
    /\ lpc[c] = "acquire"
    /\ Get(c, LockName)
    /\ Goto(c, "acquireGet")
    /\ UNCHANGED flag

\* The Put that returned ErrMaybe was performed after all.
AcquireFound(c) ==
    /\ lpc[c] = "acquireGet" /\ call[c].at = "none"
    /\ flag[c] /\ ret[c].value = c
    /\ Goto(c, "held")
    /\ UNCHANGED <<kvVars, flag>>

\* Mutant of IsFree: the lock is taken for free whoever holds it.
IsFree_Always(c) == TRUE

IsFree(c) == ret[c].err = "ErrNoKey" \/ ret[c].value = Empty

AcquirePut(c) ==
    /\ lpc[c] = "acquireGet"
    /\ ~(flag[c] /\ ret[c].value = c)
    /\ IsFree(c)
    /\ Put(c, 0, LockName, c, ret[c].version)
    /\ Goto(c, "acquirePut")
    /\ UNCHANGED flag

AcquireBusy(c) ==
    /\ lpc[c] = "acquireGet" /\ call[c].at = "none"
    /\ ~(flag[c] /\ ret[c].value = c)
    /\ ~IsFree(c)
    /\ Goto(c, "acquire")
    /\ UNCHANGED <<kvVars, flag>>

AcquireDone(c) ==
    /\ lpc[c] = "acquirePut" /\ call[c].at = "none"
    /\ ret[c].err = "OK"
    /\ Goto(c, "held")
    /\ UNCHANGED <<kvVars, flag>>

\* Mutant of Doubt: an ErrMaybe is treated as a Put that did nothing.
Doubt_Ignored(c) == flag' = flag

Doubt(c) == flag' = [flag EXCEPT ![c] = @ \/ ret[c].err = "ErrMaybe"]

AcquireAgain(c) ==
    /\ lpc[c] = "acquirePut" /\ call[c].at = "none"
    /\ ret[c].err # "OK"
    /\ Doubt(c)
    /\ Goto(c, "acquire")
    /\ UNCHANGED kvVars

-----------------------------------------------------------------------------
(* Release. *)

Release(c) ==
    /\ lpc[c] = "held"
    /\ Goto(c, "release")
    /\ UNCHANGED <<kvVars, flag>>

ReleaseGet(c) ==
    /\ lpc[c] = "release"
    /\ Get(c, LockName)
    /\ Goto(c, "releaseGet")
    /\ UNCHANGED flag

\* What the Get saw: the lock is written free if it is this client's, else the
\* loop goes round.
ReleasePut(c) ==
    /\ lpc[c] = "releaseGet" /\ call[c].at = "none"
    /\ IF ret[c].err = "OK" /\ ret[c].value = c
         THEN Put(c, 0, LockName, Empty, ret[c].version) /\ Goto(c, "releasePut")
         ELSE UNCHANGED kvVars /\ Goto(c, "release")
    /\ UNCHANGED flag

\* What the Put returned: both errors that may mean "written" end the loop.
ReleaseDone(c) ==
    /\ lpc[c] = "releasePut" /\ call[c].at = "none"
    /\ Goto(c, IF ret[c].err \in {"OK", "ErrMaybe"} THEN "idle" ELSE "release")
    /\ UNCHANGED <<kvVars, flag>>

-----------------------------------------------------------------------------
Init == /\ KVInit
        /\ lpc = [c \in Client |-> "idle"]
        /\ flag = [c \in Client |-> FALSE]

\* What a goroutine in Acquire or Release does next.
Proceed(c) ==
    \/ AcquireGet(c) \/ AcquireFound(c) \/ AcquirePut(c) \/ AcquireBusy(c)
    \/ AcquireDone(c) \/ AcquireAgain(c)
    \/ ReleaseGet(c) \/ ReleasePut(c) \/ ReleaseDone(c)

Next == \/ \E c \in Client : Acquire(c) \/ Release(c) \/ Proceed(c)
        \/ KVStep /\ UNCHANGED lockVars

Spec == Init /\ [][Next]_vars

\* The network answers a clerk that keeps calling, the goroutines run, and who
\* holds the lock releases it.
Fairness ==
    \A c \in Client :
        /\ WF_vars(Proceed(c)) /\ WF_vars(Release(c))
        /\ WF_vars((ServeGet(c) \/ ServePut(c)) /\ UNCHANGED lockVars)
        /\ SF_vars(ClerkReturn(c) /\ UNCHANGED lockVars)

FairSpec == Spec /\ Fairness

-----------------------------------------------------------------------------
(* Properties. *)

TypeOK ==
    /\ KVTypeOK
    /\ lpc \in [Client -> {"idle", "acquire", "acquireGet", "acquirePut", "held",
                           "release", "releaseGet", "releasePut"}]
    /\ flag \in [Client -> BOOLEAN]

\* From the return of Acquire until its Release writes: the client's section.
Inside(c) == lpc[c] \in {"held", "release", "releaseGet"}

\* lock_test.go:37 "two clients acquired lock" never happens.
MutualExclusion == \A c, d \in Client : Inside(c) /\ Inside(d) => c = d

\* While a client is inside, the server names it as the holder, so that nobody
\* else is let in and its own Release finds the lock.
HolderIsRecorded == \A c \in Client : Inside(c) => mp[LockName].value = c

\* The lock is never left with a client that does not know it has it: the server
\* names a holder only while that client is inside, or its Acquire or Release is
\* still at it and will find out.
NoOrphan ==
    \A c \in Client : mp[LockName].value = c =>
        \/ Inside(c)
        \/ lpc[c] \in {"acquirePut", "releasePut"}
        \/ lpc[c] \in {"acquire", "acquireGet"} /\ flag[c]

\* Every Release returns, and every Acquire once the other clients stop asking for the lock:
\* no lost reply or late Put leaves the lock taken for ever.
CallsReturn ==
    \A c \in Client : /\ lpc[c] = "acquire" ~> lpc[c] = "held"
                      /\ lpc[c] = "release" ~> lpc[c] = "idle"

-----------------------------------------------------------------------------
(* The inductive invariant behind MutualExclusion and NoOrphan. *)

Cur == mp[LockName]

\* What an RPC under way is, by where its client is; a Put is at a version that
\* has been, and one that was answered is past.
CallFits(c) ==
    /\ lpc[c] \in {"idle", "acquire", "held", "release"} => call[c].at = "none"
    /\ call[c].at # "none" =>
         /\ call[c].key = LockName
         /\ lpc[c] \in {"acquireGet", "releaseGet"} => call[c].op = "Get"
         /\ lpc[c] = "acquirePut" => call[c].op = "Put" /\ call[c].value = c
         /\ lpc[c] = "releasePut" => call[c].op = "Put" /\ call[c].value = Empty
         /\ call[c].op = "Put" =>
              /\ call[c].version <= Cur.version
              /\ call[c].at = "reply" => call[c].version < Cur.version

\* A Put still to be executed, at the version that is current.
Applicable(c) ==
    call[c].at = "request" /\ call[c].op = "Put" /\ call[c].version = Cur.version

\* A Put that can still write finds the lock as its client's Get saw it.
PutFits(c) ==
    Applicable(c) => Cur.value = IF lpc[c] = "acquirePut" THEN Empty ELSE c

\* What client c was told by a Get, or by the server's reply to it.
Seen(c) == IF call[c].at = "reply" THEN [err |-> call[c].err, value |-> call[c].value,
                                         version |-> call[c].version]
                                   ELSE ret[c]

\* A Get's answer was true when given; while a client is inside it still is.
SeenFits(c) ==
    /\ lpc[c] = "acquireGet" /\ call[c].at # "request" =>
         /\ Seen(c).version <= Cur.version
         /\ Seen(c).version = Cur.version => Seen(c).value = Cur.value
         /\ Seen(c).err = "ErrNoKey" => Seen(c).value = Empty
    /\ lpc[c] = "releaseGet" /\ call[c].at # "request" =>
         Seen(c) = [err |-> "OK", value |-> c, version |-> Cur.version]

\* The Put of a Release is refused only when a copy of it has written.
ReleaseFits(c) ==
    lpc[c] = "releasePut" =>
        /\ call[c].at = "request" => call[c].retried \/ Applicable(c)
        /\ call[c].at = "reply" =>
             call[c].err = "OK" \/ (call[c].retried /\ call[c].err = "ErrVersion")
        /\ call[c].at = "none" => ret[c].err \in {"OK", "ErrMaybe"}

\* A client that is inside, or about to find out that it is.
Owns(c) ==
    \/ Inside(c)
    \/ lpc[c] = "acquirePut" /\ call[c].at # "request" /\ Seen(c).err = "OK"
    \/ lpc[c] = "acquireGet" /\ call[c].at # "request" /\ Seen(c).value = c

\* A client the server names is inside, or its next answers will tell it.
Aware(c) ==
    \/ Inside(c)
    \/ lpc[c] = "releasePut" /\ Applicable(c)
    \/ /\ lpc[c] = "acquirePut"
       /\ call[c].at # "none" => call[c].retried \/ (call[c].at = "reply" /\ call[c].err = "OK")
       /\ call[c].at = "reply" => call[c].err \in {"OK", "ErrVersion"}
       /\ call[c].at = "none" => ret[c].err \in {"OK", "ErrMaybe"}
    \/ lpc[c] = "acquire" /\ flag[c]
    \/ lpc[c] = "acquireGet" /\ flag[c] /\ (call[c].at # "request" => Seen(c).value = c)

ClientInv(c) ==
    /\ CallFits(c)
    /\ PutFits(c)
    /\ SeenFits(c)
    /\ ReleaseFits(c)
    /\ Owns(c) => Cur.value = c
    /\ Cur.value = c => Aware(c)

\* A late Put is past, or a copy of the one its client is resending.
LateFits(a) ==
    /\ a.key = LockName
    /\ a.version <= Cur.version
    /\ a.version = Cur.version =>
         /\ Applicable(a.client)
         /\ call[a.client].value = a.value
         /\ call[a.client].retried

\* Why the lock excludes: a Put that can still write belongs to a client that
\* waits for it and found the lock free, or its own.
LockInv ==
    /\ TypeOK
    /\ \A c \in Client : ClientInv(c)
    /\ \A a \in late : LateFits(a)

=============================================================================
