---------------------------- MODULE MapReduceProofs ----------------------------
(***************************************************************************)
(* Proofs about MapReduce, for every number of workers, map and reduce     *)
(* tasks, crashes, failures and timeouts: JobInv is inductive, and every   *)
(* step of the job is a step of Job or leaves it alone.                    *)
(***************************************************************************)
EXTENDS MapReduce, FiniteSetTheorems, TLAPS

-----------------------------------------------------------------------------
(* Counting finished tasks. *)

Status(n) == [0..n - 1 -> 0..2]

\* There are n tasks.
LEMMA IntervalSize ==
    ASSUME NEW n \in Nat PROVE IsFiniteSet(0..n - 1) /\ Cardinality(0..n - 1) = n
<1>1. 0 \in Int /\ n - 1 \in Int /\ (0 > n - 1 => n = 0) /\ n - 1 - 0 + 1 = n
  OBVIOUS
<1>2. /\ IsFiniteSet(0..n - 1)
      /\ Cardinality(0..n - 1) = IF 0 > n - 1 THEN 0 ELSE n - 1 - 0 + 1
  BY <1>1, FS_Interval, Zenon
<1> QED
  BY <1>1, <1>2

\* A task that leaves status 1 for 2 is one more finished task.
LEMMA CountStep ==
    ASSUME NEW n \in Nat, NEW f \in Status(n), NEW i \in 0..n - 1, f[i] = 1,
           NEW g, g = [f EXCEPT ![i] = 2]
    PROVE  /\ g \in Status(n)
           /\ i \notin Finished(f)
           /\ Finished(g) = Finished(f) \cup {i}
           /\ Cardinality(Finished(g)) = Cardinality(Finished(f)) + 1
           /\ Cardinality(Finished(g)) \in 0..n
<1>1. g \in Status(n)
  BY DEF Status
<1>2. i \notin Finished(f) /\ Finished(g) = Finished(f) \cup {i}
  <2>1. DOMAIN f = 0..n - 1 /\ DOMAIN g = 0..n - 1
    BY DEF Status
  <2>2. g[i] = 2 /\ \A k \in (0..n - 1) \ {i} : g[k] = f[k]
    BY DEF Status
  <2> QED
    BY <2>1, <2>2 DEF Finished
<1>3. IsFiniteSet(0..n - 1) /\ Cardinality(0..n - 1) = n
  BY IntervalSize
<1>4. Finished(f) \subseteq 0..n - 1 /\ Finished(g) \subseteq 0..n - 1
  BY <1>1 DEF Status, Finished
<1>5. /\ IsFiniteSet(Finished(f)) /\ IsFiniteSet(Finished(g))
      /\ Cardinality(Finished(g)) <= n
  BY ZenonT(60), <1>3, <1>4, FS_Subset
<1>6. Cardinality(Finished(g)) = Cardinality(Finished(f)) + 1
  BY <1>2, <1>5, FS_AddElement
<1>7. Cardinality(Finished(g)) \in 0..n
  BY <1>5, FS_CardinalityType
<1> QED
  BY <1>1, <1>2, <1>6, <1>7

\* All are finished when as many are finished as there are.
LEMMA CountAll ==
    ASSUME NEW n \in Nat, NEW f \in Status(n), Cardinality(Finished(f)) = n
    PROVE  \A i \in 0..n - 1 : f[i] = 2
<1>1. IsFiniteSet(0..n - 1) /\ Cardinality(0..n - 1) = n
  BY IntervalSize
<1>2. Finished(f) \subseteq 0..n - 1
  BY DEF Status, Finished
<1>3. Finished(f) = 0..n - 1
  BY <1>1, <1>2, FS_Subset
<1> QED
  BY <1>3 DEF Finished

\* Nothing is finished at the start.
LEMMA CountNone ==
    ASSUME NEW n \in Nat
    PROVE  LET f == [i \in 0..n - 1 |-> 0] IN
             f \in Status(n) /\ Finished(f) = {} /\ Cardinality(Finished(f)) = 0
<1> DEFINE f == [i \in 0..n - 1 |-> 0]
<1>1. f \in Status(n) /\ Finished(f) = {}
  BY DEF Status, Finished
<1> QED
  BY <1>1, FS_EmptySet

-----------------------------------------------------------------------------
(* The invariant. *)

LEMMA InitInv == Init => JobInv
<1> SUFFICES ASSUME Init PROVE JobInv
  OBVIOUS
<1> USE SizeAssumption, BoundAssumption
<1>1. mapStatus \in Status(nTask) /\ Finished(mapStatus) = {} /\ Cardinality(Finished(mapStatus)) = 0
  BY CountNone DEF Init, MapId
<1>2. reduceStatus \in Status(nReduce) /\ Finished(reduceStatus) = {} /\ Cardinality(Finished(reduceStatus)) = 0
  BY CountNone DEF Init, ReduceId
<1>3. TypeOK
  BY <1>1, <1>2 DEF Init, TypeOK, Status, MapId, ReduceId
<1>4. CountsExact
  BY <1>1, <1>2 DEF Init, CountsExact
<1>5. FilesInv
  BY DEF Init, FilesInv
<1>6. \A w \in Worker : WorkerInv(w)
  BY DEF Init, WorkerInv
<1> QED
  BY <1>3, <1>4, <1>5, <1>6 DEF JobInv

\* A worker whose own variables a step leaves alone keeps its invariant, as files
\* never go and a finished map task stays finished.
LEMMA OtherWorker ==
    ASSUME TypeOK, NEW w \in Worker, WorkerInv(w),
           pc'[w] = pc[w], task'[w] = task[w], at'[w] = at[w],
           inter \subseteq inter', out \subseteq out', MapsDone => MapsDone'
    PROVE  WorkerInv(w)'
  BY DEF WorkerInv, Complete

\* A step that changes no status keeps the counters and the finished tasks' files.
LEMMA StatusKept ==
    ASSUME TypeOK, CountsExact, FilesInv,
           UNCHANGED coordinator, inter \subseteq inter', out \subseteq out'
    PROVE  CountsExact' /\ FilesInv' /\ (MapsDone => MapsDone')
  BY DEF CountsExact, FilesInv, coordinator, Complete, MapsDone

\* When the counter says so, every map task is finished.
LEMMA AllMapped ==
    ASSUME TypeOK, CountsExact, taskNum = nTask
    PROVE  MapsDone
  BY CountAll, SizeAssumption DEF TypeOK, CountsExact, MapsDone, MapId, Status

\* A worker that moves on and leaves statuses and files alone.
LEMMA WorkerMoves ==
    ASSUME JobInv, NEW w \in Worker, UNCHANGED coordinator,
           inter \subseteq inter', out \subseteq out',
           TypeOK', WorkerInv(w)',
           \A v \in Worker \ {w} : pc'[v] = pc[v] /\ task'[v] = task[v] /\ at'[v] = at[v]
    PROVE  JobInv'
<1>1. CountsExact' /\ FilesInv' /\ (MapsDone => MapsDone')
  BY StatusKept DEF JobInv
<1>2. \A v \in Worker \ {w} : WorkerInv(v)'
  BY <1>1, OtherWorker DEF JobInv
<1> QED
  BY <1>1, <1>2 DEF JobInv

\* A task that is handed out, fails or times out: its status moves between 0 and 1.
LEMMA MapReopened ==
    ASSUME TypeOK, CountsExact, FilesInv, NEW m \in MapId, mapStatus[m] # 2,
           \/ mapStatus' = [mapStatus EXCEPT ![m] = 0]
           \/ mapStatus' = [mapStatus EXCEPT ![m] = 1],
           UNCHANGED <<reduceStatus, taskNum, reduceNum, files>>
    PROVE  /\ mapStatus' \in [MapId -> 0..2]
           /\ Finished(mapStatus') = Finished(mapStatus)
           /\ CountsExact' /\ FilesInv' /\ (MapsDone => MapsDone')
<1>1. /\ mapStatus' \in [MapId -> 0..2]
      /\ Finished(mapStatus') = Finished(mapStatus)
      /\ \A k \in MapId : mapStatus'[k] = 2 <=> mapStatus[k] = 2
  BY DEF TypeOK, Finished
<1>2. Finished(mapStatus)' = Finished(mapStatus) /\ Finished(reduceStatus)' = Finished(reduceStatus)
  BY <1>1 DEF Finished
<1>3. CountsExact'
  BY <1>2 DEF CountsExact
<1>4. FilesInv'
  BY <1>1 DEF FilesInv, Complete, files
<1>5. MapsDone => MapsDone'
  BY <1>1 DEF MapsDone
<1> QED
  BY <1>1, <1>3, <1>4, <1>5

LEMMA ReduceReopened ==
    ASSUME TypeOK, CountsExact, FilesInv, NEW r \in ReduceId, reduceStatus[r] # 2,
           \/ reduceStatus' = [reduceStatus EXCEPT ![r] = 0]
           \/ reduceStatus' = [reduceStatus EXCEPT ![r] = 1],
           UNCHANGED <<mapStatus, taskNum, reduceNum, files>>
    PROVE  /\ reduceStatus' \in [ReduceId -> 0..2]
           /\ Finished(reduceStatus') = Finished(reduceStatus)
           /\ CountsExact' /\ FilesInv' /\ (MapsDone => MapsDone')
<1>1. /\ reduceStatus' \in [ReduceId -> 0..2]
      /\ Finished(reduceStatus') = Finished(reduceStatus)
      /\ \A k \in ReduceId : reduceStatus'[k] = 2 <=> reduceStatus[k] = 2
  BY DEF TypeOK, Finished
<1>2. Finished(reduceStatus)' = Finished(reduceStatus) /\ Finished(mapStatus)' = Finished(mapStatus)
  BY <1>1 DEF Finished
<1>3. CountsExact'
  BY <1>2 DEF CountsExact
<1>4. FilesInv'
  BY <1>1 DEF FilesInv, Complete, files
<1>5. MapsDone => MapsDone'
  BY DEF MapsDone
<1> QED
  BY <1>1, <1>3, <1>4, <1>5

\* A map task whose files are there is counted.
LEMMA MapCounted ==
    ASSUME TypeOK, CountsExact, FilesInv, NEW m \in MapId, mapStatus[m] = 1, Complete(m),
           mapStatus' = [mapStatus EXCEPT ![m] = 2], taskNum' = taskNum + 1,
           UNCHANGED <<reduceStatus, reduceNum, files>>
    PROVE  /\ mapStatus' \in [MapId -> 0..2] /\ taskNum' \in 0..nTask
           /\ m \notin Finished(mapStatus)
           /\ Finished(mapStatus') = Finished(mapStatus) \cup {m}
           /\ CountsExact' /\ FilesInv' /\ (MapsDone => MapsDone')
<1>1. /\ mapStatus' \in [MapId -> 0..2]
      /\ m \notin Finished(mapStatus)
      /\ Finished(mapStatus') = Finished(mapStatus) \cup {m}
      /\ Cardinality(Finished(mapStatus')) = Cardinality(Finished(mapStatus)) + 1
      /\ Cardinality(Finished(mapStatus')) \in 0..nTask
  <2>1. /\ nTask \in Nat /\ mapStatus \in Status(nTask) /\ m \in 0..nTask - 1
        /\ mapStatus[m] = 1 /\ mapStatus' = [mapStatus EXCEPT ![m] = 2]
    BY SizeAssumption DEF TypeOK, Status, MapId
  <2> QED
    BY <2>1, CountStep, Zenon DEF Status, MapId
<1>2. CountsExact' /\ taskNum' \in 0..nTask
  BY <1>1 DEF CountsExact, Finished
<1>3. FilesInv'
  BY DEF FilesInv, Complete, files, TypeOK
<1>4. MapsDone => MapsDone'
  BY DEF MapsDone, TypeOK
<1> QED
  BY <1>1, <1>2, <1>3, <1>4

LEMMA ReduceCounted ==
    ASSUME TypeOK, CountsExact, FilesInv, NEW r \in ReduceId, reduceStatus[r] = 1, r \in out,
           reduceStatus' = [reduceStatus EXCEPT ![r] = 2], reduceNum' = reduceNum + 1,
           UNCHANGED <<mapStatus, taskNum, files>>
    PROVE  /\ reduceStatus' \in [ReduceId -> 0..2] /\ reduceNum' \in 0..nReduce
           /\ r \notin Finished(reduceStatus)
           /\ Finished(reduceStatus') = Finished(reduceStatus) \cup {r}
           /\ CountsExact' /\ FilesInv' /\ (MapsDone => MapsDone')
<1>1. /\ reduceStatus' \in [ReduceId -> 0..2]
      /\ r \notin Finished(reduceStatus)
      /\ Finished(reduceStatus') = Finished(reduceStatus) \cup {r}
      /\ Cardinality(Finished(reduceStatus')) = Cardinality(Finished(reduceStatus)) + 1
      /\ Cardinality(Finished(reduceStatus')) \in 0..nReduce
  <2>1. /\ nReduce \in Nat /\ reduceStatus \in Status(nReduce) /\ r \in 0..nReduce - 1
        /\ reduceStatus[r] = 1 /\ reduceStatus' = [reduceStatus EXCEPT ![r] = 2]
    BY SizeAssumption DEF TypeOK, Status, ReduceId
  <2> QED
    BY <2>1, CountStep, Zenon DEF Status, ReduceId
<1>2. CountsExact' /\ reduceNum' \in 0..nReduce
  BY <1>1 DEF CountsExact, Finished
<1>3. FilesInv'
  BY DEF FilesInv, Complete, files, TypeOK
<1>4. MapsDone => MapsDone'
  BY DEF MapsDone
<1> QED
  BY <1>1, <1>2, <1>3, <1>4

\* The three things a report of success can do.
LEMMA SuccessCases ==
    ASSUME JobInv, NEW w \in Worker, HandleSuccess(w)
    PROVE  \/ \E m \in MapId : /\ mapStatus[m] = 1 /\ Complete(m)
                               /\ mapStatus' = [mapStatus EXCEPT ![m] = 2]
                               /\ taskNum' = taskNum + 1
                               /\ UNCHANGED <<reduceStatus, reduceNum, files>>
           \/ \E r \in ReduceId : /\ reduceStatus[r] = 1 /\ r \in out
                                  /\ reduceStatus' = [reduceStatus EXCEPT ![r] = 2]
                                  /\ reduceNum' = reduceNum + 1
                                  /\ UNCHANGED <<mapStatus, taskNum, files>>
           \/ UNCHANGED <<coordinator, files>>
<1> DEFINE i == task[w].id
<1>1. /\ task[w].kind = "map" => i \in MapId /\ Complete(i)
      /\ task[w].kind = "reduce" => i \in ReduceId /\ i \in out
  BY DEF JobInv, TypeOK, WorkerInv, HandleSuccess, Task, NoTask
<1>2. CASE task[w].kind = "map" /\ Counts(mapStatus, i)
  BY <1>1, <1>2 DEF HandleSuccess, Counts
<1>3. CASE task[w].kind = "reduce" /\ Counts(reduceStatus, i)
  BY <1>1, <1>3 DEF HandleSuccess, Counts
<1>4. CASE ~(task[w].kind = "map" /\ Counts(mapStatus, i)) /\ ~(task[w].kind = "reduce" /\ Counts(reduceStatus, i))
  BY <1>4 DEF HandleSuccess
<1> QED
  BY <1>2, <1>3, <1>4

\* What a report of failure can do.
LEMMA ErrorCases ==
    ASSUME JobInv, NEW w \in Worker, HandleError(w)
    PROVE  \/ \E m \in MapId : /\ mapStatus[m] = 1
                               /\ mapStatus' = [mapStatus EXCEPT ![m] = 0]
                               /\ UNCHANGED <<reduceStatus, taskNum, reduceNum, files>>
           \/ \E r \in ReduceId : /\ reduceStatus[r] = 1
                                  /\ reduceStatus' = [reduceStatus EXCEPT ![r] = 0]
                                  /\ UNCHANGED <<mapStatus, taskNum, reduceNum, files>>
           \/ UNCHANGED <<coordinator, files>>
<1> DEFINE i == task[w].id
<1>1. /\ task[w].kind = "map" => i \in MapId
      /\ task[w].kind = "reduce" => i \in ReduceId
  BY DEF JobInv, TypeOK, Task, NoTask
<1>2. CASE task[w].kind = "map" /\ Reopens(mapStatus, i)
  BY <1>1, <1>2 DEF HandleError, Reopens
<1>3. CASE task[w].kind = "reduce" /\ Reopens(reduceStatus, i)
  BY <1>1, <1>3 DEF HandleError, Reopens
<1>4. CASE ~(task[w].kind = "map" /\ Reopens(mapStatus, i)) /\ ~(task[w].kind = "reduce" /\ Reopens(reduceStatus, i))
  BY <1>4 DEF HandleError, coordinator
<1> QED
  BY <1>2, <1>3, <1>4

\* A worker that reports is about to ask again, and holds no invariant of its own.
LEMMA ReportInv ==
    ASSUME JobInv, NEW w \in Worker, HandleSuccess(w) \/ HandleError(w)
    PROVE  JobInv'
<1> DEFINE Kept == /\ mapStatus' \in [MapId -> 0..2] /\ taskNum' \in 0..nTask
                   /\ reduceStatus' \in [ReduceId -> 0..2] /\ reduceNum' \in 0..nReduce
                   /\ CountsExact' /\ FilesInv' /\ (MapsDone => MapsDone')
<1>1. Kept
  <2>1. CASE UNCHANGED <<coordinator, files>>
    BY <2>1, StatusKept DEF JobInv, TypeOK, coordinator, files
  <2>2. ASSUME NEW m \in MapId, mapStatus[m] = 1, Complete(m),
               mapStatus' = [mapStatus EXCEPT ![m] = 2], taskNum' = taskNum + 1,
               UNCHANGED <<reduceStatus, reduceNum, files>>
        PROVE  Kept
    BY <2>2, MapCounted DEF JobInv, TypeOK
  <2>3. ASSUME NEW r \in ReduceId, reduceStatus[r] = 1, r \in out,
               reduceStatus' = [reduceStatus EXCEPT ![r] = 2], reduceNum' = reduceNum + 1,
               UNCHANGED <<mapStatus, taskNum, files>>
        PROVE  Kept
    BY <2>3, ReduceCounted DEF JobInv, TypeOK
  <2>4. ASSUME NEW m \in MapId, mapStatus[m] = 1,
               mapStatus' = [mapStatus EXCEPT ![m] = 0],
               UNCHANGED <<reduceStatus, taskNum, reduceNum, files>>
        PROVE  Kept
    <3>1. TypeOK /\ CountsExact /\ FilesInv /\ mapStatus[m] # 2
      BY <2>4 DEF JobInv
    <3>2. /\ mapStatus' \in [MapId -> 0..2]
          /\ CountsExact' /\ FilesInv' /\ (MapsDone => MapsDone')
      BY <2>4, <3>1, MapReopened, Zenon
    <3> QED
      BY <2>4, <3>1, <3>2 DEF TypeOK
  <2>5. ASSUME NEW r \in ReduceId, reduceStatus[r] = 1,
               reduceStatus' = [reduceStatus EXCEPT ![r] = 0],
               UNCHANGED <<mapStatus, taskNum, reduceNum, files>>
        PROVE  Kept
    <3>1. TypeOK /\ CountsExact /\ FilesInv /\ reduceStatus[r] # 2
      BY <2>5 DEF JobInv
    <3>2. /\ reduceStatus' \in [ReduceId -> 0..2]
          /\ CountsExact' /\ FilesInv' /\ (MapsDone => MapsDone')
      BY <2>5, <3>1, ReduceReopened, Zenon
    <3> QED
      BY <2>5, <3>1, <3>2 DEF TypeOK
  <2> HIDE DEF Kept
  <2>6. CASE HandleSuccess(w)
    BY <2>1, <2>2, <2>3, <2>6, SuccessCases
  <2>7. CASE HandleError(w)
    BY <2>1, <2>4, <2>5, <2>7, ErrorCases
  <2> QED
    BY <2>6, <2>7
<1>2. /\ pc' = [pc EXCEPT ![w] = "ask"]
      /\ UNCHANGED <<task, at, inter, out, crashes, errors, slow>>
  BY DEF HandleSuccess, HandleError, Goto, files, bounds
<1>3. TypeOK'
  BY <1>1, <1>2 DEF JobInv, TypeOK
<1>4. WorkerInv(w)'
  BY <1>2 DEF WorkerInv, JobInv, TypeOK
<1>5. \A v \in Worker \ {w} : WorkerInv(v)'
  BY <1>1, <1>2, OtherWorker DEF JobInv, TypeOK
<1> QED
  BY <1>1, <1>3, <1>4, <1>5 DEF JobInv

LEMMA NextInv == JobInv /\ [Next]_vars => JobInv'
<1> SUFFICES ASSUME JobInv, [Next]_vars PROVE JobInv'
  OBVIOUS
<1> USE SizeAssumption, BoundAssumption
<1>1. ASSUME NEW w \in Worker, Ask(w) PROVE JobInv'
  <2>1. TypeOK'
    BY <1>1 DEF Ask, Goto, JobInv, TypeOK, coordinator, files, bounds
  <2>2. WorkerInv(w)'
    BY <1>1, <2>1 DEF Ask, Goto, JobInv, TypeOK, WorkerInv, coordinator, files, bounds
  <2>3. /\ UNCHANGED coordinator /\ inter \subseteq inter' /\ out \subseteq out'
        /\ \A v \in Worker \ {w} : pc'[v] = pc[v] /\ task'[v] = task[v] /\ at'[v] = at[v]
    BY <1>1 DEF Ask, Goto, JobInv, TypeOK, coordinator, files, bounds
  <2> QED
    BY <2>1, <2>2, <2>3, WorkerMoves
<1>2. ASSUME NEW w \in Worker, Choose(w) PROVE JobInv'
  <2>1. TypeOK'
    BY <1>2 DEF Choose, Goto, Phase, JobInv, TypeOK, coordinator, files, bounds
  <2>2. WorkerInv(w)'
    <3>1. taskNum = nTask => MapsDone
      BY AllMapped DEF JobInv
    <3>2. MapsDone => MapsDone'
      BY <1>2 DEF Choose, MapsDone, coordinator
    <3> QED
      BY <1>2, <2>1, <3>1, <3>2 DEF Choose, Phase, Goto, JobInv, TypeOK, WorkerInv, coordinator, files, bounds
  <2>3. /\ UNCHANGED coordinator /\ inter \subseteq inter' /\ out \subseteq out'
        /\ \A v \in Worker \ {w} : pc'[v] = pc[v] /\ task'[v] = task[v] /\ at'[v] = at[v]
    BY <1>2 DEF Choose, Goto, JobInv, TypeOK, coordinator, files, bounds
  <2> QED
    BY <2>1, <2>2, <2>3, WorkerMoves
<1>3. ASSUME NEW w \in Worker, HandoutNothing(w) PROVE JobInv'
  <2>1. TypeOK'
    BY <1>3 DEF HandoutNothing, Goto, JobInv, TypeOK, coordinator, files, bounds, NoTask
  <2>2. WorkerInv(w)'
    BY <1>3, <2>1 DEF HandoutNothing, Goto, JobInv, TypeOK, WorkerInv, coordinator, files, bounds, NoTask
  <2>3. /\ UNCHANGED coordinator /\ inter \subseteq inter' /\ out \subseteq out'
        /\ \A v \in Worker \ {w} : pc'[v] = pc[v] /\ task'[v] = task[v] /\ at'[v] = at[v]
    BY <1>3 DEF HandoutNothing, Goto, JobInv, TypeOK, coordinator, files, bounds
  <2> QED
    BY <2>1, <2>2, <2>3, WorkerMoves
<1>4. ASSUME NEW w \in Worker, Prepare(w) PROVE JobInv'
  <2>1. TypeOK'
    BY <1>4 DEF Prepare, Goto, JobInv, TypeOK, coordinator, files, bounds, Task, NoTask
  <2>2. WorkerInv(w)'
    <3>1. /\ pc[w] = "open" /\ task[w] \in Task /\ (task[w].kind = "reduce" => MapsDone)
          /\ MapsDone => MapsDone'
      BY <1>4 DEF Prepare, JobInv, WorkerInv, MapsDone, coordinator
    <3>2. /\ pc'[w] = IF task[w].kind = "map" THEN "rename" ELSE "read"
          /\ at'[w] = 0 /\ task'[w] = task[w] /\ task[w].kind \in {"map", "reduce"}
      BY <1>4, <3>1 DEF Prepare, Goto, JobInv, TypeOK, Task
    <3>3. \A r \in ReduceId : ~(r < 0)
      BY DEF ReduceId
    <3> QED
      BY <3>1, <3>2, <3>3 DEF WorkerInv
  <2>3. /\ UNCHANGED coordinator /\ inter \subseteq inter' /\ out \subseteq out'
        /\ \A v \in Worker \ {w} : pc'[v] = pc[v] /\ task'[v] = task[v] /\ at'[v] = at[v]
    BY <1>4 DEF Prepare, Goto, JobInv, TypeOK, coordinator, files, bounds
  <2> QED
    BY <2>1, <2>2, <2>3, WorkerMoves
<1>5. ASSUME NEW w \in Worker, RenameInter(w) PROVE JobInv'
  <2> DEFINE m == task[w].id
  <2>0. /\ pc[w] = "rename" /\ task[w].kind = "map" /\ m \in MapId /\ at[w] \in Nat
        /\ \A r \in ReduceId : r < at[w] => <<m, r>> \in inter
        /\ task' = task /\ pc \in [Worker -> {"ask", "choose", "map", "reduce", "open", "rename",
               "read", "write", "succeed", "fail", "exited", "crashed", "panicked"}]
    BY <1>5 DEF RenameInter, JobInv, TypeOK, WorkerInv, Task, NoTask
  <2>1. TypeOK'
    <3>1. inter' \subseteq MapId \X ReduceId /\ at' \in [Worker -> Nat]
      <4>1. at[w] < nReduce => at[w] \in ReduceId
        BY <2>0 DEF ReduceId
      <4> QED
        BY <1>5, <2>0, <4>1 DEF RenameInter, JobInv, TypeOK
    <3> QED
      BY <1>5, <2>0, <3>1 DEF RenameInter, Goto, JobInv, TypeOK, coordinator, bounds
  <2>2. WorkerInv(w)'
    <3>1. CASE at[w] < nReduce
      <4>1. inter' = inter \cup {<<m, at[w]>>} /\ at'[w] = at[w] + 1 /\ pc'[w] = "rename"
        BY <1>5, <2>0, <3>1 DEF RenameInter, JobInv, TypeOK
      <4>2. \A r \in ReduceId : r < at'[w] => <<m, r>> \in inter'
        BY <2>0, <4>1 DEF ReduceId
      <4> QED
        BY <2>0, <4>1, <4>2 DEF WorkerInv
    <3>2. CASE ~(at[w] < nReduce)
      <4>1. inter' = inter /\ pc'[w] = "succeed"
        BY <1>5, <2>0, <3>2 DEF RenameInter, Goto
      <4>2. Complete(m)'
        BY <2>0, <3>2, <4>1 DEF Complete, ReduceId
      <4> QED
        BY <2>0, <4>1, <4>2 DEF WorkerInv
    <3> QED
      BY <3>1, <3>2
  <2>3. /\ UNCHANGED coordinator /\ inter \subseteq inter' /\ out \subseteq out'
        /\ \A v \in Worker \ {w} : pc'[v] = pc[v] /\ task'[v] = task[v] /\ at'[v] = at[v]
    BY <1>5 DEF RenameInter, Goto, JobInv, TypeOK, coordinator, files, bounds
  <2> QED
    BY <2>1, <2>2, <2>3, WorkerMoves
<1>6. ASSUME NEW w \in Worker, ReadInter(w) PROVE JobInv'
  <2>1. TypeOK'
    BY <1>6 DEF ReadInter, Goto, JobInv, TypeOK, coordinator, files, bounds
  <2>2. WorkerInv(w)'
    <3>1. MapsDone /\ MapsDone' /\ task[w].id \in ReduceId
      BY <1>6 DEF ReadInter, JobInv, WorkerInv, MapsDone, coordinator, TypeOK, Task, NoTask
    <3>2. at[w] < nTask => <<at[w], task[w].id>> \in inter
      BY <3>1 DEF MapsDone, MapId, JobInv, TypeOK, FilesInv, Complete
    <3> QED
      BY <1>6, <2>1, <3>1, <3>2 DEF ReadInter, Goto, JobInv, TypeOK, WorkerInv, coordinator, files, bounds
  <2>3. /\ UNCHANGED coordinator /\ inter \subseteq inter' /\ out \subseteq out'
        /\ \A v \in Worker \ {w} : pc'[v] = pc[v] /\ task'[v] = task[v] /\ at'[v] = at[v]
    BY <1>6 DEF ReadInter, Goto, JobInv, TypeOK, coordinator, files, bounds
  <2> QED
    BY <2>1, <2>2, <2>3, WorkerMoves
<1>7. ASSUME NEW w \in Worker, RenameOut(w) PROVE JobInv'
  <2>1. TypeOK'
    <3>1. task[w].id \in ReduceId
      BY <1>7 DEF RenameOut, JobInv, TypeOK, WorkerInv, Task, NoTask
    <3> QED
      BY <1>7, <3>1 DEF RenameOut, Goto, JobInv, TypeOK, coordinator, bounds
  <2>2. WorkerInv(w)'
    BY <1>7, <2>1 DEF RenameOut, Goto, JobInv, TypeOK, WorkerInv, coordinator, files, bounds, Task, NoTask
  <2>3. /\ UNCHANGED coordinator /\ inter \subseteq inter' /\ out \subseteq out'
        /\ \A v \in Worker \ {w} : pc'[v] = pc[v] /\ task'[v] = task[v] /\ at'[v] = at[v]
    BY <1>7 DEF RenameOut, Goto, JobInv, TypeOK, coordinator, files, bounds
  <2> QED
    BY <2>1, <2>2, <2>3, WorkerMoves
<1>8. ASSUME NEW w \in Worker, TaskFails(w) PROVE JobInv'
  <2>1. TypeOK'
    BY <1>8 DEF TaskFails, Goto, JobInv, TypeOK, coordinator, files, bounds
  <2>2. WorkerInv(w)'
    BY <1>8, <2>1 DEF TaskFails, Goto, JobInv, TypeOK, WorkerInv, coordinator, files, bounds
  <2>3. /\ UNCHANGED coordinator /\ inter \subseteq inter' /\ out \subseteq out'
        /\ \A v \in Worker \ {w} : pc'[v] = pc[v] /\ task'[v] = task[v] /\ at'[v] = at[v]
    BY <1>8 DEF TaskFails, Goto, JobInv, TypeOK, coordinator, files, bounds
  <2> QED
    BY <2>1, <2>2, <2>3, WorkerMoves
<1>9. ASSUME NEW w \in Worker, Crash(w) PROVE JobInv'
  <2>1. TypeOK'
    BY <1>9 DEF Crash, Goto, JobInv, TypeOK, coordinator, files, bounds
  <2>2. WorkerInv(w)'
    BY <1>9, <2>1 DEF Crash, Goto, JobInv, TypeOK, WorkerInv, coordinator, files, bounds
  <2>3. /\ UNCHANGED coordinator /\ inter \subseteq inter' /\ out \subseteq out'
        /\ \A v \in Worker \ {w} : pc'[v] = pc[v] /\ task'[v] = task[v] /\ at'[v] = at[v]
    BY <1>9 DEF Crash, Goto, JobInv, TypeOK, coordinator, files, bounds
  <2> QED
    BY <2>1, <2>2, <2>3, WorkerMoves
<1>10. ASSUME NEW w \in Worker, NEW m \in MapId, HandoutMap(w, m) PROVE JobInv'
  <2>1. mapStatus[m] # 2
    BY <1>10 DEF HandoutMap, FirstIdle
  <2>2. mapStatus' \in [MapId -> 0..2] /\ CountsExact' /\ FilesInv' /\ (MapsDone => MapsDone')
    BY <1>10, <2>1, MapReopened DEF HandoutMap, JobInv
  <2>3. TypeOK'
    BY <1>10, <2>2 DEF HandoutMap, Goto, JobInv, TypeOK, files, bounds, Task
  <2>4. WorkerInv(w)'
    BY <1>10, <2>2 DEF HandoutMap, Goto, JobInv, TypeOK, WorkerInv, Task
  <2>5. \A v \in Worker \ {w} : WorkerInv(v)'
    BY <1>10, <2>2, OtherWorker DEF HandoutMap, Goto, JobInv, TypeOK, files
  <2> QED
    BY <2>2, <2>3, <2>4, <2>5 DEF JobInv
<1>11. ASSUME NEW w \in Worker, NEW r \in ReduceId, HandoutReduce(w, r) PROVE JobInv'
  <2>1. reduceStatus[r] # 2
    BY <1>11 DEF HandoutReduce, FirstIdle
  <2>2. reduceStatus' \in [ReduceId -> 0..2] /\ CountsExact' /\ FilesInv' /\ (MapsDone => MapsDone')
    BY <1>11, <2>1, ReduceReopened DEF HandoutReduce, JobInv
  <2>3. TypeOK'
    BY <1>11, <2>2 DEF HandoutReduce, Goto, JobInv, TypeOK, files, bounds, Task
  <2>4. WorkerInv(w)'
    BY <1>11, <2>2 DEF HandoutReduce, Goto, JobInv, TypeOK, WorkerInv, Task
  <2>5. \A v \in Worker \ {w} : WorkerInv(v)'
    BY <1>11, <2>2, OtherWorker DEF HandoutReduce, Goto, JobInv, TypeOK, files
  <2> QED
    BY <2>2, <2>3, <2>4, <2>5 DEF JobInv
<1>12. ASSUME NEW w \in Worker, HandleSuccess(w) \/ HandleError(w) PROVE JobInv'
  BY <1>12, ReportInv
<1>13. ASSUME NEW t \in Task, Timeout(t) PROVE JobInv'
  <2>1. /\ mapStatus' \in [MapId -> 0..2] /\ reduceStatus' \in [ReduceId -> 0..2]
        /\ CountsExact' /\ FilesInv' /\ (MapsDone => MapsDone')
    <3>1. TypeOK /\ CountsExact /\ FilesInv
      BY DEF JobInv
    <3>2. CASE t.kind = "map"
      <4>1. /\ t.id \in MapId /\ mapStatus[t.id] # 2
            /\ mapStatus' = [mapStatus EXCEPT ![t.id] = 0]
            /\ UNCHANGED <<reduceStatus, taskNum, reduceNum, files>>
        BY <1>13, <3>2 DEF Timeout, Overdue, Task
      <4>2. mapStatus' \in [MapId -> 0..2] /\ CountsExact' /\ FilesInv' /\ (MapsDone => MapsDone')
        BY <3>1, <4>1, MapReopened
      <4> QED
        BY <3>1, <4>1, <4>2 DEF TypeOK
    <3>3. CASE t.kind = "reduce"
      <4>1. /\ t.id \in ReduceId /\ reduceStatus[t.id] # 2
            /\ reduceStatus' = [reduceStatus EXCEPT ![t.id] = 0]
            /\ UNCHANGED <<mapStatus, taskNum, reduceNum, files>>
        BY <1>13, <3>3 DEF Timeout, Overdue, Task
      <4>2. reduceStatus' \in [ReduceId -> 0..2] /\ CountsExact' /\ FilesInv' /\ (MapsDone => MapsDone')
        BY <3>1, <4>1, ReduceReopened
      <4> QED
        BY <3>1, <4>1, <4>2 DEF TypeOK
    <3> QED
      BY <3>2, <3>3 DEF Task
  <2>2. TypeOK'
    BY <1>13, <2>1 DEF Timeout, Expires, JobInv, TypeOK, files
  <2>3. \A v \in Worker : WorkerInv(v)'
    BY <1>13, <2>1, OtherWorker DEF Timeout, JobInv, files
  <2> QED
    BY <2>1, <2>2, <2>3 DEF JobInv
<1>14. ASSUME UNCHANGED vars PROVE JobInv'
  BY <1>14 DEF vars, coordinator, files, bounds, JobInv, TypeOK, CountsExact, FilesInv, WorkerInv,
       Complete, MapsDone
<1> QED
  BY <1>1, <1>2, <1>3, <1>4, <1>5, <1>6, <1>7, <1>8, <1>9, <1>10, <1>11, <1>12, <1>13, <1>14
  DEF Next, Work

\* A task counts when it leaves status 1 for 2, and its files are there by then.
THEOREM JobInvariant == Spec => []JobInv
  BY InitInv, NextInv, PTL DEF Spec

\* The variables keep the types of the coordinator's and the worker's fields.
THEOREM TypeCorrect == Spec => []TypeOK
<1>1. JobInv => TypeOK
  BY DEF JobInv
<1> QED
  BY <1>1, JobInvariant, PTL

\* The counters that decide the phase and the end count the finished tasks.
THEOREM CountersExact == Spec => []CountsExact
<1>1. JobInv => CountsExact
  BY DEF JobInv
<1> QED
  BY <1>1, JobInvariant, PTL

\* A reduce worker never misses an intermediate file.
THEOREM NeverPanics == Spec => []NoPanic
<1>1. JobInv => NoPanic
  BY DEF JobInv, WorkerInv, NoPanic
<1> QED
  BY <1>1, JobInvariant, PTL

-----------------------------------------------------------------------------
(* Every step is a step of Job or leaves it alone. *)

LEMMA InitJob == Init => Promise!Init
  BY CountNone, SizeAssumption DEF Init, Promise!Init, MapId, ReduceId, Finished

LEMMA StepJob == JobInv /\ [Next]_vars => [Promise!Next]_Promise!vars
<1> SUFFICES ASSUME JobInv, [Next]_vars PROVE Promise!Next \/ UNCHANGED Promise!vars
  OBVIOUS
<1>1. TypeOK /\ CountsExact /\ FilesInv
  BY DEF JobInv
<1>2. ASSUME UNCHANGED <<mapStatus, reduceStatus, out>> PROVE UNCHANGED Promise!vars
  BY <1>2 DEF Promise!vars, Finished
<1>3. ASSUME NEW w \in Worker,
             \/ Ask(w) \/ Choose(w) \/ HandoutNothing(w) \/ Prepare(w) \/ RenameInter(w)
             \/ ReadInter(w) \/ TaskFails(w) \/ Crash(w)
      PROVE  UNCHANGED <<mapStatus, reduceStatus, out>>
  BY <1>3 DEF Ask, Choose, HandoutNothing, Prepare, RenameInter, ReadInter, TaskFails, Crash,
       coordinator, files
<1>4. ASSUME NEW m \in MapId, mapStatus[m] # 2,
             \/ mapStatus' = [mapStatus EXCEPT ![m] = 0]
             \/ mapStatus' = [mapStatus EXCEPT ![m] = 1],
             UNCHANGED <<reduceStatus, out>>
      PROVE  UNCHANGED Promise!vars
  BY <1>1, <1>4 DEF Promise!vars, TypeOK, Finished
<1>5. ASSUME NEW r \in ReduceId, reduceStatus[r] # 2,
             \/ reduceStatus' = [reduceStatus EXCEPT ![r] = 0]
             \/ reduceStatus' = [reduceStatus EXCEPT ![r] = 1],
             UNCHANGED <<mapStatus, out>>
      PROVE  UNCHANGED Promise!vars
  BY <1>1, <1>5 DEF Promise!vars, TypeOK, Finished
<1>6. ASSUME NEW w \in Worker, NEW m \in MapId, HandoutMap(w, m) PROVE UNCHANGED Promise!vars
  <2>1. /\ mapStatus[m] # 2
        /\ mapStatus' = [mapStatus EXCEPT ![m] = 1] /\ UNCHANGED <<reduceStatus, out>>
    BY <1>6 DEF HandoutMap, FirstIdle, files
  <2> QED
    BY <1>4, <2>1
<1>7. ASSUME NEW w \in Worker, NEW r \in ReduceId, HandoutReduce(w, r) PROVE UNCHANGED Promise!vars
  <2>1. /\ reduceStatus[r] # 2
        /\ reduceStatus' = [reduceStatus EXCEPT ![r] = 1] /\ UNCHANGED <<mapStatus, out>>
    BY <1>7 DEF HandoutReduce, FirstIdle, files
  <2> QED
    BY <1>5, <2>1
<1>8. ASSUME NEW t \in Task, Timeout(t) PROVE UNCHANGED Promise!vars
  <2>1. CASE t.kind = "map"
    <3>1. /\ t.id \in MapId /\ mapStatus[t.id] # 2
          /\ mapStatus' = [mapStatus EXCEPT ![t.id] = 0] /\ UNCHANGED <<reduceStatus, out>>
      BY <1>8, <2>1 DEF Timeout, Overdue, Task, files
    <3> QED
      BY <1>4, <3>1
  <2>2. CASE t.kind = "reduce"
    <3>1. /\ t.id \in ReduceId /\ reduceStatus[t.id] # 2
          /\ reduceStatus' = [reduceStatus EXCEPT ![t.id] = 0] /\ UNCHANGED <<mapStatus, out>>
      BY <1>8, <2>2 DEF Timeout, Overdue, Task, files
    <3> QED
      BY <1>5, <3>1
  <2> QED
    BY <2>1, <2>2 DEF Task
<1>9. ASSUME NEW w \in Worker, HandleError(w) PROVE UNCHANGED Promise!vars
  BY <1>2, <1>4, <1>5, <1>9, ErrorCases DEF coordinator, files
<1>10. ASSUME NEW w \in Worker, RenameOut(w) PROVE Promise!Next \/ UNCHANGED Promise!vars
  <2> DEFINE r == task[w].id
  <2>1. r \in ReduceId /\ MapsDone /\ out' = out \cup {r} /\ UNCHANGED <<mapStatus, reduceStatus>>
    BY <1>10 DEF RenameOut, JobInv, TypeOK, WorkerInv, Task, NoTask, coordinator
  <2>2. Finished(mapStatus) = MapId
    BY <1>1, <2>1 DEF Finished, MapsDone, TypeOK
  <2>3. CASE r \in out
    BY <1>2, <2>1, <2>3
  <2>4. CASE r \notin out
    <3>1. Promise!Publish(r)
      BY <2>1, <2>2, <2>4 DEF Promise!Publish, Finished
    <3> QED
      BY <2>1, <3>1 DEF Promise!Next
  <2> QED
    BY <2>3, <2>4
<1>11. ASSUME NEW w \in Worker, HandleSuccess(w) PROVE Promise!Next \/ UNCHANGED Promise!vars
  <2>1. ASSUME NEW m \in MapId, mapStatus[m] = 1, Complete(m),
               mapStatus' = [mapStatus EXCEPT ![m] = 2], taskNum' = taskNum + 1,
               UNCHANGED <<reduceStatus, reduceNum, files>>
        PROVE  Promise!Next
    <3>1. m \notin Finished(mapStatus) /\ Finished(mapStatus') = Finished(mapStatus) \cup {m}
      BY <1>1, <2>1, MapCounted
    <3>2. Promise!FinishMap(m)
      BY <2>1, <3>1 DEF Promise!FinishMap, Finished, files
    <3> QED
      BY <3>2 DEF Promise!Next
  <2>2. ASSUME NEW r \in ReduceId, reduceStatus[r] = 1, r \in out,
               reduceStatus' = [reduceStatus EXCEPT ![r] = 2], reduceNum' = reduceNum + 1,
               UNCHANGED <<mapStatus, taskNum, files>>
        PROVE  Promise!Next
    <3>1. r \notin Finished(reduceStatus) /\ Finished(reduceStatus') = Finished(reduceStatus) \cup {r}
      BY <1>1, <2>2, ReduceCounted
    <3>2. Promise!FinishReduce(r)
      BY <2>2, <3>1 DEF Promise!FinishReduce, Finished, files
    <3> QED
      BY <3>2 DEF Promise!Next
  <2>3. CASE UNCHANGED <<coordinator, files>>
    BY <1>2, <2>3 DEF coordinator, files
  <2> QED
    <3> HIDE DEF Promise!Next, Promise!vars
    <3> QED
      BY <1>11, <2>1, <2>2, <2>3, SuccessCases
<1>12. CASE UNCHANGED vars
  BY <1>2, <1>12 DEF vars, coordinator, files
<1> QED
  <2>1. ASSUME NEW w \in Worker, Work(w) \/ TaskFails(w) \/ Crash(w)
        PROVE  Promise!Next \/ UNCHANGED Promise!vars
    BY <1>2, <1>3, <1>6, <1>7, <1>9, <1>10, <1>11, <2>1 DEF Work
  <2> QED
    BY <1>8, <1>12, <2>1 DEF Next

\* The coordinator and its workers keep what Job promises: a task is finished once
\* and for good, no output is published before the last map task is finished, and
\* a reduce task is finished only when its output is there.
THEOREM ImplementsJob == Spec => JobPromise
  BY InitJob, StepJob, JobInvariant, PTL DEF Spec, JobPromise, Promise!Spec

=============================================================================
