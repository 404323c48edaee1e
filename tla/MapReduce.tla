------------------------------ MODULE MapReduce ------------------------------
(***************************************************************************)
(* The MapReduce job of Mit6824/lab1: the coordinator's RPC handler and    *)
(* Faultsearch goroutine (coordinator.go), the worker loop (worker.go) and *)
(* the files through which map and reduce tasks meet.                      *)
(*                                                                         *)
(* One step is one critical section of lock_, one unlocked read, or one    *)
(* file operation of a worker.  A worker may crash between any two steps,  *)
(* fail a task, or outlive the timeout of the task it holds.  What a file  *)
(* holds is a function of its name (mapf and reducef are deterministic),   *)
(* so only which files have been renamed into place is kept.               *)
(***************************************************************************)
EXTENDS Integers, FiniteSets

CONSTANTS Worker,
          nTask,      \* files, that is map tasks
          nReduce,    \* reduce tasks
          MaxCrashes, \* bound: workers that crash
          MaxErrors,  \* bound: tasks reported as failed
          MaxSlow     \* bound: timeouts of tasks whose worker is alive

ASSUME SizeAssumption == nTask \in Nat /\ nReduce \in Nat /\ IsFiniteSet(Worker)
ASSUME BoundAssumption == MaxCrashes \in Nat /\ MaxErrors \in Nat /\ MaxSlow \in Nat

MapId == 0..nTask - 1
ReduceId == 0..nReduce - 1

\* Flag 1, Flag 2 and Flag 0 of a reply: what the worker was given.
Task == [kind : {"map"}, id : MapId] \cup [kind : {"reduce"}, id : ReduceId]
NoTask == [kind |-> "none", id |-> 0]

VARIABLES mapStatus,    \* mapTasks[i].status: 0 idle, 1 handed out, 2 done
          reduceStatus, \* reduceTasks[i].status
          taskNum,      \* c.taskNum_
          reduceNum,    \* c.reduceNum_
          pc,           \* where a worker, or the handler serving it, is
          task,         \* the reply the worker acts on
          at,           \* the loop variable i of the worker
          inter,        \* mr-<map>-<reduce> files in place
          out,          \* mr-out-<reduce> files in place
          crashes, errors, slow \* bounded events so far

coordinator == <<mapStatus, reduceStatus, taskNum, reduceNum>>
files == <<inter, out>>
bounds == <<crashes, errors, slow>>
vars == <<coordinator, pc, task, at, files, bounds>>

Goto(w, l) == pc' = [pc EXCEPT ![w] = l]

Done == taskNum = nTask /\ reduceNum = nReduce

-----------------------------------------------------------------------------
(* Asking for a task: RpcHandler with ExecuteType 1. *)

\* c.Done(), in a critical section of its own; the answer ends the worker.
Ask(w) ==
    /\ pc[w] = "ask"
    /\ Goto(w, IF Done THEN "exited" ELSE "choose")
    /\ UNCHANGED <<coordinator, task, at, files, bounds>>

\* Mutant of Phase: reduce tasks are handed out with one map task to go.
Phase_Early == IF nTask - 1 <= taskNum THEN "reduce" ELSE "map"

Phase == IF nTask = taskNum THEN "reduce" ELSE "map"

\* taskNum_ is read without the lock.
Choose(w) ==
    /\ pc[w] = "choose"
    /\ Goto(w, Phase)
    /\ UNCHANGED <<coordinator, task, at, files, bounds>>

\* The first task of a list that is not handed out.
FirstIdle(status, i) == status[i] = 0 /\ \A k \in DOMAIN status : status[k] = 0 => i <= k

\* Handout_map
HandoutMap(w, m) ==
    /\ pc[w] = "map"
    /\ FirstIdle(mapStatus, m)
    /\ mapStatus' = [mapStatus EXCEPT ![m] = 1]
    /\ task' = [task EXCEPT ![w] = [kind |-> "map", id |-> m]]
    /\ Goto(w, "open")
    /\ UNCHANGED <<reduceStatus, taskNum, reduceNum, at, files, bounds>>

\* Handoutap_reduce
HandoutReduce(w, r) ==
    /\ pc[w] = "reduce"
    /\ FirstIdle(reduceStatus, r)
    /\ reduceStatus' = [reduceStatus EXCEPT ![r] = 1]
    /\ task' = [task EXCEPT ![w] = [kind |-> "reduce", id |-> r]]
    /\ Goto(w, "open")
    /\ UNCHANGED <<mapStatus, taskNum, reduceNum, at, files, bounds>>

\* Nothing to hand out: Flag stays 0, and the worker reports a success of nothing.
HandoutNothing(w) ==
    /\ \/ pc[w] = "map" /\ \A m \in MapId : mapStatus[m] # 0
       \/ pc[w] = "reduce" /\ \A r \in ReduceId : reduceStatus[r] # 0
    /\ task' = [task EXCEPT ![w] = NoTask]
    /\ Goto(w, "succeed")
    /\ UNCHANGED <<coordinator, at, files, bounds>>

-----------------------------------------------------------------------------
(* Doing a task. *)

\* The input, or the temporary file, cannot be opened or written.
TaskFails(w) ==
    /\ pc[w] = "open"
    /\ errors < MaxErrors
    /\ errors' = errors + 1
    /\ Goto(w, "fail")
    /\ UNCHANGED <<coordinator, task, at, files, crashes, slow>>

\* The input of a map task is read, mapped and written to temporary files; a
\* reduce task creates its temporary file.
Prepare(w) ==
    /\ pc[w] = "open"
    /\ at' = [at EXCEPT ![w] = 0]
    /\ Goto(w, IF task[w].kind = "map" THEN "rename" ELSE "read")
    /\ UNCHANGED <<coordinator, task, files, bounds>>

\* One os.Rename of a map task.
RenameInter(w) ==
    /\ pc[w] = "rename"
    /\ IF at[w] < nReduce
         THEN /\ inter' = inter \cup {<<task[w].id, at[w]>>}
              /\ at' = [at EXCEPT ![w] = @ + 1]
              /\ UNCHANGED pc
         ELSE Goto(w, "succeed") /\ UNCHANGED <<inter, at>>
    /\ UNCHANGED <<coordinator, task, out, bounds>>

\* One intermediate file of a reduce task: it is there, or the worker panics.
ReadInter(w) ==
    /\ pc[w] = "read"
    /\ IF at[w] < nTask
         THEN IF <<at[w], task[w].id>> \in inter
                THEN at' = [at EXCEPT ![w] = @ + 1] /\ UNCHANGED pc
                ELSE Goto(w, "panicked") /\ UNCHANGED at
         ELSE Goto(w, "write") /\ UNCHANGED at
    /\ UNCHANGED <<coordinator, task, files, bounds>>

\* The output is written and renamed into place.
RenameOut(w) ==
    /\ pc[w] = "write"
    /\ out' = out \cup {task[w].id}
    /\ Goto(w, "succeed")
    /\ UNCHANGED <<coordinator, task, at, inter, bounds>>

-----------------------------------------------------------------------------
(* Reporting: RpcHandler with ExecuteType 2 and 3.  Its c.Done() needs no     *)
(* step: once it holds no task has status 1, and the handlers do nothing.     *)

\* A report counts only while the task is handed out, to whomever.
Counts(status, i) == status[i] = 1

HandleSuccess(w) ==
    /\ pc[w] = "succeed"
    /\ LET i == task[w].id IN
         CASE task[w].kind = "map" /\ Counts(mapStatus, i) ->
                /\ mapStatus' = [mapStatus EXCEPT ![i] = 2]
                /\ taskNum' = taskNum + 1
                /\ UNCHANGED <<reduceStatus, reduceNum>>
           [] task[w].kind = "reduce" /\ Counts(reduceStatus, i) ->
                /\ reduceStatus' = [reduceStatus EXCEPT ![i] = 2]
                /\ reduceNum' = reduceNum + 1
                /\ UNCHANGED <<mapStatus, taskNum>>
           [] OTHER -> UNCHANGED coordinator
    /\ Goto(w, "ask")
    /\ UNCHANGED <<task, at, files, bounds>>

\* Mutant of Reopens: whatever its status, the task is handed out again.
Reopens_Any(status, i) == TRUE

Reopens(status, i) == status[i] = 1

HandleError(w) ==
    /\ pc[w] = "fail"
    /\ LET i == task[w].id IN
         CASE task[w].kind = "map" /\ Reopens(mapStatus, i) ->
                mapStatus' = [mapStatus EXCEPT ![i] = 0] /\ UNCHANGED reduceStatus
           [] task[w].kind = "reduce" /\ Reopens(reduceStatus, i) ->
                reduceStatus' = [reduceStatus EXCEPT ![i] = 0] /\ UNCHANGED mapStatus
           [] OTHER -> UNCHANGED <<mapStatus, reduceStatus>>
    /\ Goto(w, "ask")
    /\ UNCHANGED <<taskNum, reduceNum, task, at, files, bounds>>

-----------------------------------------------------------------------------
(* Faults. *)

Alive(w) == pc[w] \notin {"exited", "crashed", "panicked"}

Crash(w) ==
    /\ Alive(w)
    /\ crashes < MaxCrashes
    /\ crashes' = crashes + 1
    /\ Goto(w, "crashed")
    /\ UNCHANGED <<coordinator, task, at, files, errors, slow>>

\* A live worker holds the task.
Held(t) == \E w \in Worker : /\ task[w] = t
                             /\ pc[w] \in {"open", "rename", "read", "write", "succeed", "fail"}

\* More than ten seconds since startTime: the worker is gone, or is slow.
Expires(t) == \/ ~Held(t) /\ UNCHANGED slow
              \/ Held(t) /\ slow < MaxSlow /\ slow' = slow + 1

\* Mutant of Overdue: the loop over the reduce tasks is not there.
Overdue_MapsOnly(t) == t.kind = "map" /\ mapStatus[t.id] = 1

Overdue(t) == IF t.kind = "map" THEN mapStatus[t.id] = 1 ELSE reduceStatus[t.id] = 1

\* Faultsearch, for one task.
Timeout(t) ==
    /\ Overdue(t)
    /\ Expires(t)
    /\ IF t.kind = "map"
         THEN mapStatus' = [mapStatus EXCEPT ![t.id] = 0] /\ UNCHANGED reduceStatus
         ELSE reduceStatus' = [reduceStatus EXCEPT ![t.id] = 0] /\ UNCHANGED mapStatus
    /\ UNCHANGED <<taskNum, reduceNum, pc, task, at, files, crashes, errors>>

-----------------------------------------------------------------------------
\* MakeCoordinator, and workers about to ask.
Init ==
    /\ mapStatus = [m \in MapId |-> 0]
    /\ reduceStatus = [r \in ReduceId |-> 0]
    /\ taskNum = 0
    /\ reduceNum = 0
    /\ pc = [w \in Worker |-> "ask"]
    /\ task = [w \in Worker |-> NoTask]
    /\ at = [w \in Worker |-> 0]
    /\ inter = {}
    /\ out = {}
    /\ crashes = 0
    /\ errors = 0
    /\ slow = 0

\* The loop of Worker, with the handlers that serve its calls.
Work(w) ==
    \/ Ask(w) \/ Choose(w) \/ HandoutNothing(w)
    \/ \E m \in MapId : HandoutMap(w, m)
    \/ \E r \in ReduceId : HandoutReduce(w, r)
    \/ Prepare(w) \/ RenameInter(w) \/ ReadInter(w) \/ RenameOut(w)
    \/ HandleSuccess(w) \/ HandleError(w)

Next == \/ \E w \in Worker : Work(w) \/ TaskFails(w) \/ Crash(w)
        \/ \E t \in Task : Timeout(t)

Spec == Init /\ [][Next]_vars

\* A worker that is alive goes on, and Faultsearch looks at every task again.
FairSpec == Spec /\ (\A w \in Worker : WF_vars(Work(w)))
                 /\ (\A t \in Task : WF_vars(Timeout(t)))

-----------------------------------------------------------------------------
(* Properties. *)

\* The variables have the types of the coordinator's and the worker's fields.
TypeOK ==
    /\ mapStatus \in [MapId -> 0..2]
    /\ reduceStatus \in [ReduceId -> 0..2]
    /\ taskNum \in 0..nTask
    /\ reduceNum \in 0..nReduce
    /\ pc \in [Worker -> {"ask", "choose", "map", "reduce", "open", "rename", "read", "write",
                          "succeed", "fail", "exited", "crashed", "panicked"}]
    /\ task \in [Worker -> Task \cup {NoTask}]
    /\ at \in [Worker -> Nat]
    /\ inter \subseteq MapId \X ReduceId
    /\ out \subseteq ReduceId
    /\ crashes \in Nat /\ errors \in Nat /\ slow \in Nat

Finished(status) == {i \in DOMAIN status : status[i] = 2}

\* The counters that decide the phase and the end count finished tasks, however
\* often a task was handed out, reported late, failed or timed out.
CountsExact ==
    /\ taskNum = Cardinality(Finished(mapStatus))
    /\ reduceNum = Cardinality(Finished(reduceStatus))

\* A reduce worker finds every intermediate file: it never runs into the panic
\* "cannot open intermediate file", whichever worker renamed which file.
NoPanic == \A w \in Worker : pc[w] # "panicked"

\* What the job promises, with a task finished when its status is 2.
Promise == INSTANCE Job WITH Map <- MapId, Reduce <- ReduceId,
                             mapped <- Finished(mapStatus), reduced <- Finished(reduceStatus),
                             out <- out
JobPromise == Promise!Spec

\* The job ends, with workers that crash, fail and time out along the way, as long as one
\* worker stays, and every worker that is left is told to exit.
JobEnds == <>(Done /\ \A w \in Worker : ~Alive(w))

-----------------------------------------------------------------------------
(* The inductive invariant behind CountsExact, NoPanic and JobPromise. *)

\* Every intermediate file of map task m is in place.
Complete(m) == \A r \in ReduceId : <<m, r>> \in inter

MapsDone == \A m \in MapId : mapStatus[m] = 2

\* A finished task has left its files, whoever did it.
FilesInv ==
    /\ \A m \in MapId : mapStatus[m] = 2 => Complete(m)
    /\ \A r \in ReduceId : reduceStatus[r] = 2 => r \in out

\* What the place of a worker says of its task: its kind, the files it has
\* renamed so far, and that no reduce task is under way before the maps are done.
WorkerInv(w) ==
    /\ pc[w] # "panicked"
    /\ pc[w] = "open" => task[w] \in Task
    /\ pc[w] = "rename" => /\ task[w].kind = "map"
                           /\ \A r \in ReduceId : r < at[w] => <<task[w].id, r>> \in inter
    /\ pc[w] \in {"read", "write"} => task[w].kind = "reduce"
    /\ pc[w] = "succeed" => /\ task[w].kind = "map" => Complete(task[w].id)
                            /\ task[w].kind = "reduce" => task[w].id \in out
    /\ pc[w] = "reduce" => MapsDone
    /\ pc[w] \in {"open", "read", "write"} /\ task[w].kind = "reduce" => MapsDone

\* Why reports may come late and twice: a task counts when it leaves status 1 for
\* 2, which it never leaves, and its files are there by then.
JobInv ==
    /\ TypeOK
    /\ CountsExact
    /\ FilesInv
    /\ \A w \in Worker : WorkerInv(w)

=============================================================================
