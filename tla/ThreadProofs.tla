---------------------------- MODULE ThreadProofs ----------------------------
(***************************************************************************)
(* Proofs about ThreadPool and Thread, as MCThreads runs them, for any     *)
(* finite set of workers and any bounds: the busy count is exact, so Wait  *)
(* returns only when all is done and the destructor leaves nothing behind; *)
(* and a thread is joined once.                                            *)
(***************************************************************************)
EXTENDS MCThreads, FiniteSetTheorems, TLAPS

USE DEF Pool!Thread, Pool!NoCall

Adding == {"add_push", "add_notify"}
MainPc == Adding \cup {"idle", "wait", "pop", "popping", "run", "spin", "negate", "notify", "stop", "dead"}
WorkerPc == Adding \cup {"unborn", "check", "sleep", "pop", "popping", "run", "exit", "gone"}

\* The destructor has negated _run.
Stopping == pc[Main] \in {"notify", "stop", "dead"}
Awake == {w \in started : pc[w] # "gone"}

PcInv == /\ pc[Main] \in MainPc
         /\ \A w \in Worker : pc[w] \in WorkerPc /\ (w \in started <=> pc[w] # "unborn")

\* An AddTask in progress has pushed all but `left' of its instances.
CallInv ==
  \A t \in Pool!Thread :
    /\ call[t].left <= MaxTask
    /\ IF pc[t] \in Adding THEN call[t].instances > 0 ELSE call[t] = Pool!NoCall
    /\ pc[t] = "add_push" => call[t].left > 0
    /\ pc[t] = "add_notify" => call[t].left = 0
    /\ pc[t] \in Adding /\ call[t].back = "idle" => t = Main

\* _run counts the workers, and once it is negated those that have not gone.
RunInv == /\ Cardinality(started) > 0
          /\ ~Stopping => /\ run = Cardinality(started)
                          /\ \A w \in Worker : pc[w] \notin {"exit", "gone"}
          /\ Stopping => run = -Cardinality(Awake)
          /\ Stopping \/ pc[Main] = "negate" => tasks = 0

\* Pool!BusyExact in the operators of this module.
BusyInv == tasks = queued + Cardinality(Pool!Executing) + Cardinality(Pool!Unpushed)

PoolInv == Pool!TypeOK /\ PcInv /\ CallInv /\ BusyInv /\ RunInv /\ Pool!ShutdownSafe
-----------------------------------------------------------------------------
(* Counting.                                                               *)

\* The instance has the operators of FiniteSets under its own names.
LEMMA SameCounting == \A S : /\ Pool!Cardinality(S) = Cardinality(S)
                             /\ Pool!IsFiniteSet(S) <=> IsFiniteSet(S)
BY DEF Pool!Cardinality, Cardinality, Pool!IsFiniteSet, IsFiniteSet

LEMMA CountPairs ==
  ASSUME NEW t, NEW m \in Nat
  PROVE  IsFiniteSet({t} \X (1..m)) /\ Cardinality({t} \X (1..m)) = m
<1> DEFINE A == {t}
           B == 1..m
<1>1. IsFiniteSet(A) /\ Cardinality(A) = 1
  BY FS_Singleton
<1>2. IsFiniteSet(B) /\ Cardinality(B) = m
  BY FS_Interval
<1> HIDE DEF A, B
<1>3. IsFiniteSet(A \X B) /\ Cardinality(A \X B) = Cardinality(A) * Cardinality(B)
  BY ONLY <1>1, <1>2, FS_Product
<1>4. Cardinality(A) * Cardinality(B) = m
  BY <1>1, <1>2
<1> QED BY <1>3, <1>4 DEF A, B

LEMMA CountBoth ==
  ASSUME NEW A, NEW B, IsFiniteSet(A), IsFiniteSet(B), A \cap B = {}
  PROVE  Cardinality(A \cup B) = Cardinality(A) + Cardinality(B)
<1>1. Cardinality(A) \in Nat /\ Cardinality(B) \in Nat /\ Cardinality(A \cap B) = 0
  BY FS_CardinalityType, FS_EmptySet
<1>2. Cardinality(A \cup B) = Cardinality(A) + Cardinality(B) - Cardinality(A \cap B)
  BY FS_Union
<1> QED BY <1>1, <1>2

LEMMA FiniteThreads == IsFiniteSet(Worker) /\ IsFiniteSet(Pool!Thread) /\ Main \notin Worker
<1>1. IsFiniteSet(Worker) /\ Main \notin Worker
  BY PoolAssumption, SameCounting DEF Pool!Assumptions
<1>2. IsFiniteSet(Worker \cup {Main})
  BY <1>1, FS_AddElement
<1> QED BY <1>1, <1>2

LEMMA FiniteStarted ==
  ASSUME Pool!TypeOK
  PROVE  /\ IsFiniteSet(started) /\ Cardinality(started) \in Nat /\ Cardinality(Worker) \in Nat
         /\ Cardinality(started) <= Cardinality(Worker)
<1>1. started \in SUBSET Worker
  BY DEF Pool!TypeOK
<1>2. IsFiniteSet(started) /\ Cardinality(started) <= Cardinality(Worker)
  BY <1>1, FiniteThreads, FS_Subset
<1> QED BY <1>2, FiniteThreads, FS_CardinalityType

\* What AddTask adds for the count it is given.
All(n) == IF n = 0 THEN Pool!Cardinality(started) ELSE n

LEMMA AllIsPositive ==
  ASSUME Pool!TypeOK, RunInv, NEW n \in Instances
  PROVE  All(n) \in Nat /\ All(n) > 0
<1>1. n \in Nat
  BY PoolAssumption DEF Pool!Assumptions
<1> QED BY <1>1, FiniteStarted, SameCounting DEF All, RunInv

LEMMA AddTaskStep ==
  ASSUME Pool!TypeOK, NEW t \in Pool!Thread, NEW n \in Instances, Pool!AddTask(t, n)
  PROVE  /\ pc[t] \in {"idle", "run"} /\ pc'[t] = "add_push"
         /\ added + All(n) <= MaxTask
         /\ tasks' = tasks + All(n) /\ added' = added + All(n)
         /\ call'[t] = [instances |-> All(n), left |-> All(n), back |-> pc[t]]
         /\ \A u \in Pool!Thread \ {t} : pc'[u] = pc[u] /\ call'[u] = call[u]
         /\ UNCHANGED <<run, queued, sem, started, raced, closing>>
BY DEF Pool!AddTask, Pool!Go, Pool!TypeOK, All

LEMMA AddPushStep ==
  ASSUME Pool!TypeOK, NEW t \in Pool!Thread, Pool!AddPush(t)
  PROVE  /\ pc[t] = "add_push"
         /\ pc'[t] = IF call[t].left = 1 THEN "add_notify" ELSE "add_push"
         /\ call'[t].left = call[t].left - 1
         /\ call'[t].instances = call[t].instances /\ call'[t].back = call[t].back
         /\ \A u \in Pool!Thread \ {t} : pc'[u] = pc[u] /\ call'[u] = call[u]
         /\ queued' = queued + 1
         /\ UNCHANGED <<run, tasks, sem, started, raced, closing, added>>
BY DEF Pool!AddPush, Pool!Go, Pool!TypeOK

\* A task on the thread's stack: executing, or adding from inside it.
Occupied(t) == pc[t] = "run" \/ (pc[t] \in Adding /\ call[t].back = "run")

LEMMA ExecutingIs ==
  ASSUME CallInv
  PROVE  Pool!Executing = {t \in Pool!Thread : Occupied(t)}
<1>1. ASSUME NEW t \in Pool!Thread
      PROVE  call[t] # Pool!NoCall <=> pc[t] \in Adding
  BY DEF CallInv
<1> QED BY <1>1 DEF Pool!Executing, Occupied

LEMMA ExecutingIsNext ==
  ASSUME CallInv'
  PROVE  Pool!Executing' = {t \in Pool!Thread : Occupied(t)'}
<1>1. ASSUME NEW t \in Pool!Thread
      PROVE  call'[t] # Pool!NoCall <=> pc'[t] \in Adding
  BY DEF CallInv
<1> QED BY <1>1 DEF Pool!Executing, Occupied

LEMMA FiniteExecuting == IsFiniteSet(Pool!Executing) /\ Cardinality(Pool!Executing) \in Nat
<1>1. Pool!Executing \in SUBSET Pool!Thread
  BY DEF Pool!Executing
<1> QED BY <1>1, FiniteThreads, FS_Subset, FS_CardinalityType

LEMMA UnpushedIs ==
  ASSUME Pool!TypeOK, NEW u, NEW k
  PROVE  <<u, k>> \in Pool!Unpushed <=> u \in Pool!Thread /\ k \in 1..call[u].left
BY DEF Pool!Unpushed

LEMMA FiniteUnpushed ==
  ASSUME Pool!TypeOK, CallInv
  PROVE  IsFiniteSet(Pool!Unpushed) /\ Cardinality(Pool!Unpushed) \in Nat
<1>1. MaxTask \in Nat /\ IsFiniteSet(1..MaxTask)
  BY PoolAssumption, FS_Interval DEF Pool!Assumptions
<1>2. IsFiniteSet(Pool!Thread \X (1..MaxTask))
  BY <1>1, FiniteThreads, FS_Product
<1>3. Pool!Unpushed \in SUBSET (Pool!Thread \X (1..MaxTask))
  <2>1. \A t \in Pool!Thread : {t} \X (1..call[t].left) \subseteq Pool!Thread \X (1..MaxTask)
    BY <1>1 DEF CallInv, Pool!TypeOK
  <2> QED BY <2>1 DEF Pool!Unpushed
<1> QED BY <1>2, <1>3, FS_Subset, FS_CardinalityType

\* One thread's step moves at most that thread.
LEMMA GoStep ==
  ASSUME Pool!TypeOK, NEW t \in Pool!Thread, NEW from, NEW to, Pool!Go(t, from, to)
  PROVE  pc[t] = from /\ pc'[t] = to /\ \A u \in Pool!Thread \ {t} : pc'[u] = pc[u]
BY DEF Pool!TypeOK, Pool!Go

LEMMA ExecutingStep ==
  ASSUME CallInv, CallInv', NEW t \in Pool!Thread,
         \A u \in Pool!Thread \ {t} : pc'[u] = pc[u] /\ call'[u] = call[u]
  PROVE  Cardinality(Pool!Executing') = Cardinality(Pool!Executing)
           + (IF Occupied(t)' THEN 1 ELSE 0) - (IF Occupied(t) THEN 1 ELSE 0)
<1> DEFINE E == Pool!Executing
<1>1. E = {u \in Pool!Thread : Occupied(u)} /\ E' = {u \in Pool!Thread : Occupied(u)'}
  BY ExecutingIs, ExecutingIsNext
<1>2. \A u \in Pool!Thread \ {t} : Occupied(u)' <=> Occupied(u)
  BY DEF Occupied
<1>3. IsFiniteSet(E) /\ Cardinality(E) \in Nat
  BY FiniteExecuting
<1> HIDE DEF E, Pool!Thread
<1>4. /\ Occupied(t) /\ Occupied(t)' => E' = E
      /\ ~Occupied(t) /\ ~Occupied(t)' => E' = E
      /\ ~Occupied(t) /\ Occupied(t)' => E' = E \cup {t} /\ t \notin E
      /\ Occupied(t) /\ ~Occupied(t)' => E' = E \ {t} /\ t \in E
  BY <1>1, <1>2
<1>5. CASE ~Occupied(t) /\ Occupied(t)'
  BY <1>3, <1>4, <1>5, FS_AddElement DEF E
<1>6. CASE Occupied(t) /\ ~Occupied(t)'
  BY <1>3, <1>4, <1>6, FS_RemoveElement DEF E
<1>7. CASE Occupied(t) <=> Occupied(t)'
  BY <1>3, <1>4, <1>7 DEF E
<1> QED BY <1>5, <1>6, <1>7
-----------------------------------------------------------------------------
(* Each part of the invariant is kept by every step.                       *)

LEMMA PcStep ==
  ASSUME PoolInv, Pool!Next
  PROVE  PcInv'
<1> USE FiniteThreads DEF PoolInv, PcInv, CallInv, Pool!TypeOK, Pool!Go, MainPc, WorkerPc, Adding
<1>1. ASSUME NEW t \in Pool!Thread, NEW n \in Instances, Pool!AddTask(t, n) PROVE PcInv'
  BY <1>1 DEF Pool!AddTask, Pool!vars
<1>2. ASSUME NEW t \in Pool!Thread, Pool!AddPush(t) PROVE PcInv'
  BY <1>2 DEF Pool!AddPush, Pool!vars
<1>3. ASSUME NEW t \in Pool!Thread, Pool!AddNotify(t) PROVE PcInv'
  BY <1>3 DEF Pool!AddNotify, Pool!vars
<1>4. ASSUME NEW t \in Pool!Thread, Pool!Pop(t) PROVE PcInv'
  BY <1>4 DEF Pool!Pop, Pool!vars
<1>5. ASSUME NEW t \in Pool!Thread, Pool!PopTask(t) PROVE PcInv'
  BY <1>5 DEF Pool!PopTask, Pool!vars
<1>6. ASSUME NEW t \in Pool!Thread, Pool!PopNothing(t) PROVE PcInv'
  BY <1>6 DEF Pool!PopNothing, Pool!vars
<1>7. ASSUME NEW t \in Pool!Thread, Pool!Finish(t) PROVE PcInv'
  BY <1>7 DEF Pool!Finish, Pool!vars
<1>8. ASSUME NEW w \in Worker, Pool!AddThread(w) PROVE PcInv'
  BY <1>8 DEF Pool!AddThread, Pool!vars
<1>9. ASSUME NEW w \in Worker, Pool!WorkerCheck(w) PROVE PcInv'
  BY <1>9 DEF Pool!WorkerCheck, Pool!vars
<1>10. ASSUME NEW w \in Worker, Pool!WorkerWake(w) PROVE PcInv'
  BY <1>10 DEF Pool!WorkerWake, Pool!vars
<1>11. ASSUME NEW w \in Worker, Pool!WorkerExit(w) PROVE PcInv'
  BY <1>11 DEF Pool!WorkerExit, Pool!vars
<1>12. CASE Pool!Wait
  BY <1>12 DEF Pool!Wait, Pool!vars
<1>13. CASE Pool!Close
  BY <1>13 DEF Pool!Close, Pool!vars
<1>14. CASE Pool!WaitLoop
  BY <1>14 DEF Pool!WaitLoop, Pool!vars
<1>15. CASE Pool!WaitDone
  BY <1>15 DEF Pool!WaitDone, Pool!vars
<1>16. CASE Pool!Negate
  BY <1>16 DEF Pool!Negate, Pool!vars
<1>17. CASE Pool!NotifyAll
  BY <1>17 DEF Pool!NotifyAll, Pool!vars
<1>18. CASE Pool!Stopped
  BY <1>18 DEF Pool!Stopped, Pool!vars
<1>19. CASE Pool!Terminated
  BY <1>19 DEF Pool!Terminated, Pool!vars
<1> QED BY <1>1, <1>2, <1>3, <1>4, <1>5, <1>6, <1>7, <1>8, <1>9, <1>10, <1>11, <1>12, <1>13,
           <1>14, <1>15, <1>16, <1>17, <1>18, <1>19 DEF Pool!Next, Pool!WorkerStep,
           Pool!MainStep, Pool!Step

LEMMA CallStep ==
  ASSUME PoolInv, Pool!Next
  PROVE  CallInv'
<1> USE FiniteThreads, PoolAssumption DEF Pool!Assumptions, PoolInv, PcInv, CallInv, RunInv, Pool!TypeOK, Pool!Go, MainPc, WorkerPc, Adding
<1>1. ASSUME NEW t \in Pool!Thread, NEW n \in Instances, Pool!AddTask(t, n) PROVE CallInv'
  <2>1. MaxTask \in Nat /\ added \in Nat /\ All(n) \in Nat /\ All(n) > 0
    BY AllIsPositive
  <2>2. /\ pc[t] \in {"idle", "run"} /\ pc'[t] = "add_push"
        /\ call'[t] = [instances |-> All(n), left |-> All(n), back |-> pc[t]]
        /\ added + All(n) <= MaxTask
        /\ \A u \in Pool!Thread \ {t} : pc'[u] = pc[u] /\ call'[u] = call[u]
    <3> HIDE DEF Pool!NoCall, Pool!Assumptions, Pool!TypeOK, PcInv, RunInv, Pool!Go, CallInv, Pool!Thread
    <3>1. Pool!TypeOK
      BY DEF PoolInv
    <3> QED BY <1>1, <3>1, AddTaskStep
  <2>3. pc[t] = "idle" => t = Main
    OBVIOUS
  <2> HIDE DEF Pool!NoCall, Pool!Assumptions, Pool!TypeOK, PcInv, RunInv, Pool!Go
  <2> QED BY <2>1, <2>2, <2>3
<1>2. ASSUME NEW t \in Pool!Thread, Pool!AddPush(t) PROVE CallInv'
  BY <1>2, AddPushStep
<1>3. ASSUME NEW t \in Pool!Thread, Pool!AddNotify(t) PROVE CallInv'
  BY <1>3 DEF Pool!AddNotify, Pool!vars
<1>4. ASSUME NEW t \in Pool!Thread, Pool!Pop(t) PROVE CallInv'
  BY <1>4 DEF Pool!Pop, Pool!vars
<1>5. ASSUME NEW t \in Pool!Thread, Pool!PopTask(t) PROVE CallInv'
  BY <1>5 DEF Pool!PopTask, Pool!vars
<1>6. ASSUME NEW t \in Pool!Thread, Pool!PopNothing(t) PROVE CallInv'
  BY <1>6 DEF Pool!PopNothing, Pool!vars
<1>7. ASSUME NEW t \in Pool!Thread, Pool!Finish(t) PROVE CallInv'
  BY <1>7 DEF Pool!Finish, Pool!vars
<1>8. ASSUME NEW w \in Worker, Pool!AddThread(w) PROVE CallInv'
  BY <1>8 DEF Pool!AddThread, Pool!vars
<1>9. ASSUME NEW w \in Worker, Pool!WorkerCheck(w) PROVE CallInv'
  BY <1>9 DEF Pool!WorkerCheck, Pool!vars
<1>10. ASSUME NEW w \in Worker, Pool!WorkerWake(w) PROVE CallInv'
  BY <1>10 DEF Pool!WorkerWake, Pool!vars
<1>11. ASSUME NEW w \in Worker, Pool!WorkerExit(w) PROVE CallInv'
  BY <1>11 DEF Pool!WorkerExit, Pool!vars
<1>12. CASE Pool!Wait
  BY <1>12 DEF Pool!Wait, Pool!vars
<1>13. CASE Pool!Close
  BY <1>13 DEF Pool!Close, Pool!vars
<1>14. CASE Pool!WaitLoop
  BY <1>14 DEF Pool!WaitLoop, Pool!vars
<1>15. CASE Pool!WaitDone
  BY <1>15 DEF Pool!WaitDone, Pool!vars
<1>16. CASE Pool!Negate
  BY <1>16 DEF Pool!Negate, Pool!vars
<1>17. CASE Pool!NotifyAll
  BY <1>17 DEF Pool!NotifyAll, Pool!vars
<1>18. CASE Pool!Stopped
  BY <1>18 DEF Pool!Stopped, Pool!vars
<1>19. CASE Pool!Terminated
  BY <1>19 DEF Pool!Terminated, Pool!vars
<1> QED BY <1>1, <1>2, <1>3, <1>4, <1>5, <1>6, <1>7, <1>8, <1>9, <1>10, <1>11, <1>12, <1>13,
           <1>14, <1>15, <1>16, <1>17, <1>18, <1>19 DEF Pool!Next, Pool!WorkerStep,
           Pool!MainStep, Pool!Step

\* A thread in a task keeps tasks above zero.
LEMMA OccupiedIsBusy ==
  ASSUME PoolInv, NEW t \in Pool!Thread, Occupied(t)
  PROVE  tasks > 0
<1>1. t \in Pool!Executing
  BY ExecutingIs DEF PoolInv
<1>2. Cardinality(Pool!Executing) > 0
  BY <1>1, FiniteExecuting, FS_EmptySet
<1> QED BY <1>2, FiniteExecuting, FiniteUnpushed DEF PoolInv, BusyInv, Pool!TypeOK

LEMMA FiniteAwake ==
  ASSUME Pool!TypeOK
  PROVE  /\ IsFiniteSet(Awake) /\ Cardinality(Awake) \in Nat
         /\ Cardinality(Awake) <= Cardinality(started)
         /\ Cardinality(Awake) = 0 => Awake = {}
<1>1. Awake \in SUBSET started
  BY DEF Awake
<1> QED BY <1>1, FiniteStarted, FS_Subset, FS_CardinalityType, FS_EmptySet

Final == {"negate", "notify", "stop", "dead"}

\* The step of a thread that neither starts nor ends a worker nor closes the pool.
LEMMA RunFrame ==
  ASSUME PoolInv, UNCHANGED <<run, started>>, NEW t \in Pool!Thread,
         \A u \in Pool!Thread \ {t} : pc'[u] = pc[u],
         pc[t] \notin Final \cup {"unborn", "gone"}, pc'[t] \notin Final \cup {"gone"},
         pc'[t] = "exit" => Stopping,
         tasks' = tasks \/ tasks > 0
  PROVE  RunInv' /\ Pool!ShutdownSafe'
<1> USE FiniteThreads DEF Final, PoolInv, PcInv, Stopping
<1>1. Stopping' <=> Stopping
  OBVIOUS
<1>2. Awake' = Awake
  BY DEF Awake, Pool!TypeOK
<1>3. pc[Main] # "dead" \/ t = Main
  BY DEF Pool!ShutdownSafe
<1>4. pc'[Main] # "dead"
  BY <1>3
<1>5. Pool!ShutdownSafe'
  BY <1>4 DEF Pool!ShutdownSafe
<1>6. Stopping' \/ pc'[Main] = "negate" => tasks' = 0
  BY DEF RunInv
<1> QED BY <1>1, <1>2, <1>5, <1>6 DEF RunInv

LEMMA RunStep ==
  ASSUME PoolInv, Pool!Next
  PROVE  RunInv' /\ Pool!ShutdownSafe'
<1>0. Pool!TypeOK /\ PcInv /\ CallInv /\ RunInv /\ BusyInv /\ Pool!ShutdownSafe
  BY DEF PoolInv
<1> DEFINE Kept == RunInv' /\ Pool!ShutdownSafe'
<1> USE FiniteThreads DEF Final
<1> HIDE DEF Pool!Thread, Pool!NoCall, Kept
<1>main. Main \in Pool!Thread /\ Worker \subseteq Pool!Thread
  BY DEF Pool!Thread
<1>1. ASSUME NEW t \in Pool!Thread, NEW n \in Instances, Pool!AddTask(t, n) PROVE Kept
  <2>1. pc[t] = "idle" => t = Main
    BY <1>0 DEF PcInv, WorkerPc, Adding, Pool!Thread
  <2>2. pc[t] = "run" => tasks > 0
    BY OccupiedIsBusy DEF Occupied
  <2>3. pc[t] = "idle" => ~Stopping /\ pc[Main] # "negate"
    BY <2>1 DEF Stopping
  <2>4. /\ pc[t] \in {"idle", "run"} /\ pc'[t] = "add_push" /\ UNCHANGED <<run, started>>
        /\ \A u \in Pool!Thread \ {t} : pc'[u] = pc[u]
    BY <1>0, <1>1, AddTaskStep
  <2>5. CASE pc[t] = "run"
    BY <2>2, <2>4, <2>5, RunFrame DEF Kept
  <2>6. CASE pc[t] = "idle"
    <3>1. Awake' = Awake
      BY <1>0, <1>main, <2>1, <2>4, <2>6 DEF Awake, Pool!TypeOK
    <3> QED BY <1>0, <1>main, <2>1, <2>3, <2>4, <2>6, <3>1 DEF Kept, RunInv, Stopping,
               Pool!ShutdownSafe
  <2> QED BY <2>4, <2>5, <2>6
<1>2. ASSUME NEW t \in Pool!Thread, Pool!AddPush(t) PROVE Kept
  BY <1>0, <1>2, RunFrame, AddPushStep DEF Kept
<1>3. ASSUME NEW t \in Pool!Thread, Pool!AddNotify(t) PROVE Kept
  <2>1. Pool!Go(t, "add_notify", call[t].back) /\ UNCHANGED <<run, started, tasks>>
    BY <1>3 DEF Pool!AddNotify
  <2>2. call[t].back \in {"idle", "run"}
    BY <1>0 DEF Pool!TypeOK
  <2> QED BY <1>0, <2>1, <2>2, RunFrame, GoStep DEF Kept
<1>4. ASSUME NEW t \in Pool!Thread, Pool!Pop(t) PROVE Kept
  BY <1>0, <1>4, RunFrame, GoStep DEF Kept, Pool!Pop
<1>5. ASSUME NEW t \in Pool!Thread, Pool!PopTask(t) PROVE Kept
  BY <1>0, <1>5, RunFrame, GoStep DEF Kept, Pool!PopTask
<1>6. ASSUME NEW t \in Pool!Thread, Pool!PopNothing(t) PROVE Kept
  BY <1>0, <1>6, RunFrame, GoStep DEF Kept, Pool!PopNothing
<1>7. ASSUME NEW t \in Pool!Thread, Pool!Finish(t) PROVE Kept
  <2>1. Pool!Go(t, "run", IF t = Main THEN "wait" ELSE "pop") /\ UNCHANGED <<run, started>>
    BY <1>7 DEF Pool!Finish
  <2>2. pc[t] = "run"
    BY <1>0, <2>1, GoStep
  <2>3. tasks > 0
    BY <2>2, OccupiedIsBusy DEF Occupied
  <2> QED BY <1>0, <2>1, <2>3, RunFrame, GoStep DEF Kept
<1>8. ASSUME NEW w \in Worker, Pool!AddThread(w) PROVE Kept
  <2>1. /\ pc[Main] = "idle" /\ pc[w] = "unborn" /\ pc'[w] = "check" /\ run' = run + 1
        /\ started' = started \cup {w} /\ tasks' = tasks
        /\ \A u \in Pool!Thread \ {w} : pc'[u] = pc[u]
    BY <1>0, <1>8, <1>main, GoStep DEF Pool!AddThread
  <2>2. w \notin started
    BY <1>0, <2>1 DEF PcInv
  <2>3. Cardinality(started') = Cardinality(started) + 1 /\ Cardinality(started) \in Nat
    BY <1>0, <2>1, <2>2, FiniteStarted, FS_AddElement
  <2>4. pc'[Main] = "idle"
    BY <1>main, <2>1
  <2> QED BY <1>0, <1>main, <2>1, <2>3, <2>4 DEF Kept, RunInv, Stopping, Pool!ShutdownSafe
<1>9. ASSUME NEW w \in Worker, Pool!WorkerCheck(w) PROVE Kept
  <2>1. ~Stopping => run > 0
    BY <1>0, FiniteStarted DEF RunInv
  <2> QED BY <1>0, <1>9, <1>main, <2>1, RunFrame, GoStep DEF Kept, Pool!WorkerCheck
<1>10. ASSUME NEW w \in Worker, Pool!WorkerWake(w) PROVE Kept
  BY <1>0, <1>10, <1>main, RunFrame, GoStep DEF Kept, Pool!WorkerWake
<1>11. ASSUME NEW w \in Worker, Pool!WorkerExit(w) PROVE Kept
  <2>1. /\ pc[w] = "exit" /\ pc'[w] = "gone" /\ run' = run + 1 /\ UNCHANGED <<started, tasks, queued>>
        /\ \A u \in Pool!Thread \ {w} : pc'[u] = pc[u]
    BY <1>0, <1>11, <1>main, GoStep DEF Pool!WorkerExit
  <2>2. Stopping /\ Stopping' /\ w \in started /\ pc'[Main] = pc[Main]
    BY <1>0, <1>main, <2>1 DEF RunInv, Stopping, PcInv
  <2>3. Awake' = Awake \ {w} /\ w \in Awake
    BY <1>0, <1>main, <2>1, <2>2 DEF Awake, Pool!TypeOK
  <2>4. Cardinality(Awake') = Cardinality(Awake) - 1 /\ Cardinality(Awake) \in Nat
    BY <1>0, <2>3, FiniteAwake, FS_RemoveElement
  <2>5. pc'[Main] # "dead"
    BY <1>0, <2>1, <2>2 DEF Pool!ShutdownSafe
  <2> QED BY <1>0, <2>1, <2>2, <2>4, <2>5 DEF Kept, RunInv, Stopping, Pool!ShutdownSafe
<1>12. CASE Pool!Wait
  BY <1>0, <1>12, <1>main, RunFrame, GoStep DEF Kept, Pool!Wait
<1>13. CASE Pool!Close
  BY <1>0, <1>13, <1>main, RunFrame, GoStep DEF Kept, Pool!Close
<1>14. CASE Pool!WaitLoop
  BY <1>0, <1>14, <1>main, RunFrame, GoStep DEF Kept, Pool!WaitLoop
<1>15. CASE Pool!WaitDone
  <2>1. /\ pc[Main] = "spin" /\ pc'[Main] \in {"negate", "idle"} /\ tasks = 0
        /\ UNCHANGED <<run, started, tasks, queued>> /\ \A u \in Pool!Thread \ {Main} : pc'[u] = pc[u]
    BY <1>0, <1>15, <1>main, GoStep DEF Pool!WaitDone
  <2> QED BY <1>0, <1>main, <2>1 DEF Kept, RunInv, Stopping, Pool!ShutdownSafe, Pool!Thread
<1>16. CASE Pool!Negate
  <2>1. /\ pc[Main] = "negate" /\ pc'[Main] = "notify" /\ run' = -run
        /\ UNCHANGED <<started, tasks, queued>> /\ \A u \in Pool!Thread \ {Main} : pc'[u] = pc[u]
    BY <1>0, <1>16, <1>main, GoStep DEF Pool!Negate
  <2>2. Awake' = started
    BY <1>0, <1>main, <2>1 DEF Awake, RunInv, Stopping, Pool!TypeOK, Pool!Thread
  <2> QED BY <1>0, <1>main, <2>1, <2>2, FiniteStarted DEF Kept, RunInv, Stopping,
             Pool!ShutdownSafe, Pool!Thread
<1>17. CASE Pool!NotifyAll
  <2>1. /\ pc[Main] = "notify" /\ pc'[Main] = "stop"
        /\ UNCHANGED <<run, started, tasks, queued>> /\ \A u \in Pool!Thread \ {Main} : pc'[u] = pc[u]
    BY <1>0, <1>17, <1>main, GoStep DEF Pool!NotifyAll
  <2>2. Awake' = Awake
    BY <1>0, <1>main, <2>1 DEF Awake, Pool!TypeOK, Pool!Thread
  <2> QED BY <1>0, <1>main, <2>1, <2>2 DEF Kept, RunInv, Stopping, Pool!ShutdownSafe, Pool!Thread
<1>18. CASE Pool!Stopped
  <2>1. /\ pc[Main] = "stop" /\ pc'[Main] = "dead" /\ run >= 0
        /\ UNCHANGED <<run, started, tasks, queued>> /\ \A u \in Pool!Thread \ {Main} : pc'[u] = pc[u]
    BY <1>0, <1>18, <1>main, GoStep DEF Pool!Stopped
  <2>2. Awake' = Awake
    BY <1>0, <1>main, <2>1 DEF Awake, Pool!TypeOK, Pool!Thread
  <2>3. run = -Cardinality(Awake) /\ tasks = 0
    BY <1>0, <2>1 DEF RunInv, Stopping
  <2>4. Awake = {} /\ Cardinality(Awake) = 0
    BY <1>0, <2>1, <2>3, FiniteAwake
  <2>5. queued = 0
    BY <1>0, <2>3, FiniteExecuting, FiniteUnpushed DEF BusyInv, Pool!TypeOK
  <2> QED BY <1>0, <2>1, <2>2, <2>3, <2>4, <2>5 DEF Kept, RunInv, Stopping, Awake, Pool!ShutdownSafe
<1>19. CASE Pool!Terminated
  BY <1>0, <1>19 DEF Kept, Pool!Terminated, Pool!vars, RunInv, Stopping, Awake, Pool!ShutdownSafe
<1> QED BY <1>1, <1>2, <1>3, <1>4, <1>5, <1>6, <1>7, <1>8, <1>9, <1>10, <1>11, <1>12, <1>13,
           <1>14, <1>15, <1>16, <1>17, <1>18, <1>19 DEF Kept, Pool!Next, Pool!WorkerStep,
           Pool!MainStep, Pool!Step, Pool!Thread

\* A step that neither moves a task nor changes what is unpushed.
LEMMA BusyFrame ==
  ASSUME PoolInv, CallInv', NEW t \in Pool!Thread,
         \A u \in Pool!Thread \ {t} : pc'[u] = pc[u] /\ call'[u] = call[u],
         call'[t].left = call[t].left, UNCHANGED <<tasks, queued>>,
         Occupied(t)' <=> Occupied(t)
  PROVE  BusyInv'
<1>1. Pool!Unpushed' = Pool!Unpushed
  BY DEF Pool!Unpushed
<1>2. Cardinality(Pool!Executing') = Cardinality(Pool!Executing)
  BY ExecutingStep, FiniteExecuting DEF PoolInv
<1> QED BY <1>1, <1>2 DEF PoolInv, BusyInv

LEMMA BusyStep ==
  ASSUME PoolInv, Pool!Next, CallInv'
  PROVE  BusyInv'
<1>0. Pool!TypeOK /\ PcInv /\ CallInv /\ RunInv /\ BusyInv
  BY DEF PoolInv
<1> DEFINE E == Pool!Executing
           U == Pool!Unpushed
<1>counts. /\ Cardinality(E) \in Nat /\ Cardinality(U) \in Nat /\ IsFiniteSet(U)
           /\ tasks = queued + Cardinality(E) + Cardinality(U) /\ queued \in Nat /\ tasks \in Nat
  BY <1>0, FiniteExecuting, FiniteUnpushed DEF BusyInv, Pool!TypeOK
<1>main. Main \in Pool!Thread /\ Worker \subseteq Pool!Thread
  BY DEF Pool!Thread
<1> USE FiniteThreads DEF Occupied, Adding
<1> HIDE DEF Pool!Thread, Pool!NoCall, E, U
<1>1. ASSUME NEW t \in Pool!Thread, NEW n \in Instances, Pool!AddTask(t, n) PROVE BusyInv'
  <2>1. All(n) \in Nat /\ All(n) > 0
    BY <1>0, AllIsPositive
  <2>2. /\ pc[t] \in {"idle", "run"} /\ pc'[t] = "add_push" /\ queued' = queued
        /\ tasks' = tasks + All(n)
        /\ call'[t] = [instances |-> All(n), left |-> All(n), back |-> pc[t]]
        /\ \A u \in Pool!Thread \ {t} : pc'[u] = pc[u] /\ call'[u] = call[u]
    BY <1>0, <1>1, AddTaskStep
  <2>3. Occupied(t)' <=> Occupied(t)
    BY <2>2
  <2>4. Cardinality(E') = Cardinality(E)
    BY <1>0, <1>counts, <2>2, <2>3, ExecutingStep DEF E
  <2> DEFINE New == {t} \X (1..All(n))
  <2>5. call[t].left = 0
    BY <1>0, <2>2 DEF CallInv, Pool!NoCall
  <2>6. U' = U \cup New /\ U \cap New = {}
    BY <2>1, <2>2, <2>5 DEF U, Pool!Unpushed
  <2>7. IsFiniteSet(New) /\ Cardinality(New) = All(n)
    <3>1. PICK m \in Nat : m = All(n)
      BY <2>1
    <3>2. IsFiniteSet({t} \X (1..m)) /\ Cardinality({t} \X (1..m)) = m
      BY CountPairs
    <3> QED BY <3>1, <3>2
  <2> HIDE DEF New
  <2>8. Cardinality(U') = Cardinality(U) + All(n)
    <3>1. Cardinality(U \cup New) = Cardinality(U) + Cardinality(New)
      BY <1>counts, <2>6, <2>7, CountBoth
    <3> QED BY <2>6, <2>7, <3>1
  <2> QED BY <1>counts, <2>1, <2>2, <2>4, <2>8 DEF BusyInv, E, U
<1>2. ASSUME NEW t \in Pool!Thread, Pool!AddPush(t) PROVE BusyInv'
  <2> DEFINE k == call[t].left
  <2>1. /\ pc[t] = "add_push" /\ pc'[t] \in {"add_push", "add_notify"} /\ queued' = queued + 1
        /\ tasks' = tasks /\ call'[t].left = k - 1 /\ call'[t].back = call[t].back
        /\ \A u \in Pool!Thread \ {t} : pc'[u] = pc[u] /\ call'[u] = call[u]
    BY <1>0, <1>2, AddPushStep
  <2>2. k \in Nat /\ k > 0
    BY <1>0, <2>1 DEF CallInv, Pool!TypeOK
  <2> HIDE DEF k
  <2>3. Cardinality(E') = Cardinality(E)
    BY <1>0, <1>counts, <2>1, ExecutingStep DEF E
  <2>4. U' = U \ {<<t, k>>} /\ <<t, k>> \in U
    <3>1. ASSUME NEW u \in Pool!Thread \ {t}
          PROVE  {u} \X (1..call'[u].left) = {u} \X (1..call[u].left)
      BY <2>1
    <3>2. {t} \X (1..call'[t].left) = ({t} \X (1..call[t].left)) \ {<<t, k>>}
      BY <2>1, <2>2 DEF k
    <3> QED BY <2>2, <3>1, <3>2 DEF U, Pool!Unpushed, k
  <2>5. Cardinality(U') = Cardinality(U) - 1
    BY <1>counts, <2>4, FS_RemoveElement
  <2> QED BY <1>counts, <2>1, <2>3, <2>5 DEF BusyInv, E, U
<1>3. ASSUME NEW t \in Pool!Thread, Pool!AddNotify(t) PROVE BusyInv'
  <2>1. /\ pc[t] = "add_notify" /\ pc'[t] = call[t].back /\ call'[t] = Pool!NoCall
        /\ UNCHANGED <<tasks, queued>>
        /\ \A u \in Pool!Thread \ {t} : pc'[u] = pc[u] /\ call'[u] = call[u]
    BY <1>0, <1>3, GoStep DEF Pool!AddNotify, Pool!TypeOK
  <2>2. call[t].left = 0 /\ call'[t].left = 0 /\ call[t].back \in {"idle", "run"}
    BY <1>0, <2>1 DEF CallInv, Pool!NoCall, Pool!TypeOK
  <2> QED BY <2>1, <2>2, BusyFrame
<1>4. ASSUME NEW t \in Pool!Thread, Pool!Pop(t) PROVE BusyInv'
  BY <1>0, <1>4, GoStep, BusyFrame DEF Pool!Pop
<1>5. ASSUME NEW t \in Pool!Thread, Pool!PopTask(t) PROVE BusyInv'
  <2>1. /\ pc[t] = "popping" /\ pc'[t] = "run" /\ queued' = queued - 1
        /\ UNCHANGED <<tasks, call>> /\ \A u \in Pool!Thread \ {t} : pc'[u] = pc[u]
    BY <1>0, <1>5, GoStep DEF Pool!PopTask
  <2>2. U' = U
    BY <2>1 DEF U, Pool!Unpushed
  <2>3. Cardinality(E') = Cardinality(E) + 1
    BY <1>0, <1>counts, <2>1, ExecutingStep DEF E
  <2> QED BY <1>counts, <2>1, <2>2, <2>3 DEF BusyInv, E, U
<1>6. ASSUME NEW t \in Pool!Thread, Pool!PopNothing(t) PROVE BusyInv'
  BY <1>0, <1>6, GoStep, BusyFrame DEF Pool!PopNothing
<1>7. ASSUME NEW t \in Pool!Thread, Pool!Finish(t) PROVE BusyInv'
  <2>1. /\ pc[t] = "run" /\ pc'[t] \in {"wait", "pop"} /\ tasks' = tasks - 1
        /\ UNCHANGED <<queued, call>> /\ \A u \in Pool!Thread \ {t} : pc'[u] = pc[u]
    BY <1>0, <1>7, GoStep DEF Pool!Finish
  <2>2. U' = U
    BY <2>1 DEF U, Pool!Unpushed
  <2>3. Cardinality(E') = Cardinality(E) - 1
    BY <1>0, <1>counts, <2>1, ExecutingStep DEF E
  <2> QED BY <1>counts, <2>1, <2>2, <2>3 DEF BusyInv, E, U
<1>8. ASSUME NEW w \in Worker, Pool!AddThread(w) PROVE BusyInv'
  BY <1>0, <1>8, <1>main, GoStep, BusyFrame DEF Pool!AddThread
<1>9. ASSUME NEW w \in Worker, Pool!WorkerCheck(w) PROVE BusyInv'
  BY <1>0, <1>9, <1>main, GoStep, BusyFrame DEF Pool!WorkerCheck
<1>10. ASSUME NEW w \in Worker, Pool!WorkerWake(w) PROVE BusyInv'
  BY <1>0, <1>10, <1>main, GoStep, BusyFrame DEF Pool!WorkerWake
<1>11. ASSUME NEW w \in Worker, Pool!WorkerExit(w) PROVE BusyInv'
  BY <1>0, <1>11, <1>main, GoStep, BusyFrame DEF Pool!WorkerExit
<1>12. CASE Pool!Wait
  BY <1>0, <1>12, <1>main, GoStep, BusyFrame DEF Pool!Wait
<1>13. CASE Pool!Close
  BY <1>0, <1>13, <1>main, GoStep, BusyFrame DEF Pool!Close
<1>14. CASE Pool!WaitLoop
  BY <1>0, <1>14, <1>main, GoStep, BusyFrame DEF Pool!WaitLoop
<1>15. CASE Pool!WaitDone
  BY <1>0, <1>15, <1>main, GoStep, BusyFrame DEF Pool!WaitDone
<1>16. CASE Pool!Negate
  BY <1>0, <1>16, <1>main, GoStep, BusyFrame DEF Pool!Negate
<1>17. CASE Pool!NotifyAll
  BY <1>0, <1>17, <1>main, GoStep, BusyFrame DEF Pool!NotifyAll
<1>18. CASE Pool!Stopped
  BY <1>0, <1>18, <1>main, GoStep, BusyFrame DEF Pool!Stopped
<1>19. CASE Pool!Terminated
  BY <1>0, <1>19, <1>main, BusyFrame DEF Pool!Terminated, Pool!vars
<1> QED BY <1>1, <1>2, <1>3, <1>4, <1>5, <1>6, <1>7, <1>8, <1>9, <1>10, <1>11, <1>12, <1>13,
           <1>14, <1>15, <1>16, <1>17, <1>18, <1>19 DEF Pool!Next, Pool!WorkerStep,
           Pool!MainStep, Pool!Step, Pool!Thread

LEMMA TypeStep ==
  ASSUME PoolInv, Pool!Next, RunInv', BusyInv', CallInv'
  PROVE  Pool!TypeOK'
<1>0. Pool!TypeOK /\ PcInv /\ CallInv /\ RunInv /\ BusyInv /\ MaxTask \in Nat
  BY PoolAssumption DEF PoolInv, Pool!Assumptions
<1>size. Cardinality(Worker) \in Nat
  BY FiniteThreads, FS_CardinalityType
<1> DEFINE Plain == /\ tasks' \in Nat /\ queued' \in Nat /\ sem' \in Nat /\ added' \in 0..MaxTask
                    /\ started' \subseteq Worker /\ pc' \in [Pool!Thread -> Pool!Labels]
                    /\ call' \in [Pool!Thread -> [instances : Nat, left : Nat, back : {"idle", "run"}]]
                    /\ raced' \subseteq Pool!Thread /\ closing' \in BOOLEAN
<1> USE FiniteThreads
<1>busy. ASSUME NEW t \in Pool!Thread, pc[t] = "run" PROVE tasks > 0
  BY <1>busy, OccupiedIsBusy DEF Occupied
<1> HIDE DEF Pool!Thread, Pool!NoCall
<1>main. Main \in Pool!Thread /\ Worker \subseteq Pool!Thread
  BY DEF Pool!Thread
<1>none. Pool!NoCall \in [instances : Nat, left : Nat, back : {"idle", "run"}]
  BY DEF Pool!NoCall
<1>labels. \A t \in Pool!Thread : call[t].back \in Pool!Labels
  BY <1>0 DEF Pool!TypeOK, Pool!Labels
<1> USE <1>0, <1>main, <1>none DEF Pool!TypeOK, Pool!Go
<1>1. ASSUME NEW t \in Pool!Thread, NEW n \in Instances, Pool!AddTask(t, n) PROVE Plain
  <2>1. All(n) \in Nat /\ All(n) > 0
    BY AllIsPositive
  <2>2. [instances |-> All(n), left |-> All(n), back |-> pc[t]]
           \in [instances : Nat, left : Nat, back : {"idle", "run"}]
    BY <1>1, <2>1 DEF Pool!AddTask
  <2> QED BY <1>1, <2>1, <2>2 DEF Pool!AddTask, Pool!Labels, All
<1>2. ASSUME NEW t \in Pool!Thread, Pool!AddPush(t) PROVE Plain
  <2>1. call[t].left - 1 \in Nat
    BY <1>2 DEF Pool!AddPush, CallInv
  <2>2. call' \in [Pool!Thread -> [instances : Nat, left : Nat, back : {"idle", "run"}]]
    BY <1>2, <2>1 DEF Pool!AddPush
  <2> QED BY <1>2, <2>2 DEF Pool!AddPush, Pool!Labels
<1>3. ASSUME NEW t \in Pool!Thread, Pool!AddNotify(t) PROVE Plain
  BY <1>3, <1>labels DEF Pool!AddNotify
<1>4. ASSUME NEW t \in Pool!Thread, Pool!Pop(t) PROVE Plain
  BY <1>4 DEF Pool!Pop, Pool!Labels
<1>5. ASSUME NEW t \in Pool!Thread, Pool!PopTask(t) PROVE Plain
  BY <1>5 DEF Pool!PopTask, Pool!Labels
<1>6. ASSUME NEW t \in Pool!Thread, Pool!PopNothing(t) PROVE Plain
  BY <1>6 DEF Pool!PopNothing, Pool!Labels
<1>7. ASSUME NEW t \in Pool!Thread, Pool!Finish(t) PROVE Plain
  BY <1>7, <1>busy DEF Pool!Finish, Pool!Labels
<1>8. ASSUME NEW w \in Worker, Pool!AddThread(w) PROVE Plain
  BY <1>8 DEF Pool!AddThread, Pool!Labels
<1>9. ASSUME NEW w \in Worker, Pool!WorkerCheck(w) PROVE Plain
  BY <1>9 DEF Pool!WorkerCheck, Pool!Labels
<1>10. ASSUME NEW w \in Worker, Pool!WorkerWake(w) PROVE Plain
  BY <1>10 DEF Pool!WorkerWake, Pool!Labels
<1>11. ASSUME NEW w \in Worker, Pool!WorkerExit(w) PROVE Plain
  BY <1>11 DEF Pool!WorkerExit, Pool!Labels
<1>12. ASSUME Pool!Wait PROVE Plain
  BY <1>12 DEF Pool!Wait, Pool!Labels
<1>13. ASSUME Pool!Close PROVE Plain
  BY <1>13 DEF Pool!Close, Pool!Labels
<1>14. ASSUME Pool!WaitLoop PROVE Plain
  BY <1>14 DEF Pool!WaitLoop, Pool!Labels
<1>15. ASSUME Pool!WaitDone PROVE Plain
  BY <1>15 DEF Pool!WaitDone, Pool!Labels
<1>16. ASSUME Pool!Negate PROVE Plain
  BY <1>16 DEF Pool!Negate, Pool!Labels
<1>17. ASSUME Pool!NotifyAll PROVE Plain
  <2>1. Pool!Cardinality(started) \in Nat
    BY FiniteStarted, SameCounting
  <2> QED BY <1>17, <2>1 DEF Pool!NotifyAll, Pool!Labels
<1>18. ASSUME Pool!Stopped PROVE Plain
  BY <1>18 DEF Pool!Stopped, Pool!Labels
<1>19. ASSUME Pool!Terminated PROVE Plain
  BY <1>19 DEF Pool!Terminated, Pool!vars
<1>20. Plain
  BY <1>1, <1>2, <1>3, <1>4, <1>5, <1>6, <1>7, <1>8, <1>9, <1>10, <1>11, <1>12, <1>13, <1>14,
     <1>15, <1>16, <1>17, <1>18, <1>19 DEF Pool!Next, Pool!WorkerStep, Pool!MainStep,
     Pool!Step, Pool!Thread
<1>21. run' \in -Cardinality(Worker)..Cardinality(Worker)
  <2>1. started' \in SUBSET Worker
    BY <1>20
  <2>2. IsFiniteSet(started') /\ Cardinality(started') <= Cardinality(Worker)
    BY <2>1, FS_Subset
  <2>3. Awake' \in SUBSET started'
    BY DEF Awake
  <2>4. Cardinality(Awake') <= Cardinality(started') /\ Cardinality(Awake') \in Nat
    BY <2>2, <2>3, FS_Subset, FS_CardinalityType
  <2>5. Cardinality(started') \in Nat
    BY <2>2, FS_CardinalityType
  <2> QED BY <1>size, <2>2, <2>4, <2>5 DEF RunInv
<1> QED BY <1>20, <1>21, SameCounting

LEMMA PoolInvStep ==
  ASSUME PoolInv, Pool!Next
  PROVE  PoolInv'
<1>1. PcInv' /\ CallInv' /\ RunInv' /\ Pool!ShutdownSafe'
  BY PcStep, CallStep, RunStep
<1>2. BusyInv'
  BY <1>1, BusyStep
<1>3. Pool!TypeOK'
  BY <1>1, <1>2, TypeStep
<1> QED BY <1>1, <1>2, <1>3 DEF PoolInv

LEMMA PoolInvInit ==
  ASSUME Pool!Init
  PROVE  PoolInv
<1> USE FiniteThreads
<1>1. /\ started \in SUBSET Worker /\ Cardinality(started) = Count
      /\ Count \in 1..Cardinality(Worker) /\ MaxTask \in Nat
  BY PoolAssumption, SameCounting DEF Pool!Init, Pool!Assumptions
<1>2. Cardinality(Worker) \in Nat
  BY FS_CardinalityType
<1>3. pc[Main] = "idle" /\ \A w \in Worker : pc[w] = IF w \in started THEN "check" ELSE "unborn"
  BY <1>1 DEF Pool!Init
<1>4. Pool!TypeOK
  <2>1. pc \in [Pool!Thread -> Pool!Labels]
    BY <1>1 DEF Pool!Init, Pool!Labels
  <2>2. call \in [Pool!Thread -> [instances : Nat, left : Nat, back : {"idle", "run"}]]
    BY DEF Pool!Init
  <2>3. run \in -Pool!Cardinality(Worker)..Pool!Cardinality(Worker)
    BY <1>1, <1>2, SameCounting DEF Pool!Init
  <2>4. /\ tasks \in Nat /\ queued \in Nat /\ sem \in Nat /\ added \in 0..MaxTask
        /\ started \subseteq Worker /\ raced \subseteq Pool!Thread
    BY <1>1 DEF Pool!Init
  <2>5. closing \in BOOLEAN
    BY DEF Pool!Init
  <2> QED BY <2>1, <2>2, <2>3, <2>4, <2>5, Zenon DEF Pool!TypeOK
<1>5. PcInv
  BY <1>1, <1>3 DEF PcInv, MainPc, WorkerPc, Adding
<1>6. CallInv
  BY <1>1, <1>3 DEF CallInv, Adding, Pool!Init
<1>7. RunInv
  BY <1>1, <1>2, <1>3 DEF RunInv, Stopping, Pool!Init
<1>8. BusyInv
  <2>1. Pool!Executing = {}
    BY <1>3 DEF Pool!Init, Pool!Executing
  <2>2. \A t \in Pool!Thread : {t} \X (1..call[t].left) = {}
    BY DEF Pool!Init
  <2>3. Pool!Unpushed = {}
    BY <2>2 DEF Pool!Unpushed
  <2> QED BY <2>1, <2>3, FS_EmptySet DEF BusyInv, Pool!Init
<1>9. Pool!ShutdownSafe
  BY <1>3 DEF Pool!ShutdownSafe
<1> QED BY <1>4, <1>5, <1>6, <1>7, <1>8, <1>9 DEF PoolInv

LEMMA PoolInvStutter ==
  ASSUME PoolInv, UNCHANGED poolVars
  PROVE  PoolInv'
<1> USE DEF PoolInv, poolVars
<1>1. Pool!TypeOK'
  BY DEF Pool!TypeOK
<1>2. PcInv' /\ CallInv'
  BY DEF PcInv, CallInv
<1>3. BusyInv'
  BY DEF BusyInv, Pool!Executing, Pool!Unpushed
<1>4. RunInv' /\ Pool!ShutdownSafe'
  BY DEF RunInv, Stopping, Awake, Pool!ShutdownSafe
<1> QED BY <1>1, <1>2, <1>3, <1>4
-----------------------------------------------------------------------------
(* Thread: while it can be joined it has not been, and a join ends only    *)
(* with the thread's end.                                                  *)

JoinInv == /\ Thr!TypeOK
           /\ joinable <=> joined = 0
           /\ joined = 1 => ~running
           /\ upc \in {"try", "timed", "join"} => joinable
           /\ upc = "gone" => joined = 1

LEMMA DivMod ==
  ASSUME NEW x \in Nat, NEW d \in Nat \ {0}
  PROVE  x \div d \in Nat /\ x % d \in Nat
OBVIOUS

LEMMA JoinInvInit ==
  ASSUME Thr!Init
  PROVE  JoinInv
BY JoinAssumption DEF JoinInv, Thr!Init, Thr!TypeOK, Thr!NoDeadline, Thr!Assumptions

LEMMA JoinedStep ==
  ASSUME JoinInv, joinable, ~running, joined' = joined + 1, joinable' = FALSE,
         upc' \in {"idle", "gone"}, deadline' = deadline,
         result' \in {"none", "joined", "failed"},
         UNCHANGED <<now, running, timeout, called, calls>>
  PROVE  JoinInv'
<1>1. joined = 0
  BY DEF JoinInv
<1>2. joined' = 1
  BY <1>1
<1>3. ~joinable' /\ joinable' \in BOOLEAN
  BY Zenon
<1>4. Thr!TypeOK'
  BY <1>2, <1>3 DEF JoinInv, Thr!TypeOK
<1> QED BY <1>2, <1>3, <1>4 DEF JoinInv

LEMMA JoinInvStep ==
  ASSUME JoinInv, Thr!Next \/ UNCHANGED threadVars
  PROVE  JoinInv'
<1> USE JoinAssumption DEF JoinInv, Thr!TypeOK, Thr!Assumptions
<1>1. CASE Thr!Clock
  BY <1>1 DEF Thr!Clock
<1>2. CASE Thr!Return
  BY <1>2 DEF Thr!Return
<1>3. ASSUME NEW ms \in Timeouts, Thr!Join(ms) PROVE JoinInv'
  <2>1. now \div PerSec \in Nat /\ now % PerSec \in Nat /\ ms \div PerSec \in Nat /\ ms % PerSec \in Nat
    BY DivMod
  <2>2. [sec |-> now \div PerSec + ms \div PerSec, nsec |-> (now % PerSec) + (ms % PerSec)]
           \in [sec : Nat, nsec : Nat]
    BY <2>1
  <2> QED BY <1>3, <2>2 DEF Thr!Join, Thr!Ends
<1>4. CASE Thr!TryJoin
  <2>1. CASE Thr!GivesUp
    BY <1>4, <2>1 DEF Thr!TryJoin, Thr!GivesUp, Thr!Ends
  <2>2. CASE ~running /\ Thr!Joined
    BY <1>4, <2>2, JoinedStep, Zenon DEF Thr!TryJoin, Thr!Joined, Thr!Ends
  <2> QED BY <1>4, <2>1, <2>2 DEF Thr!TryJoin
<1>5. CASE Thr!TimedJoin
  <2>1. CASE Thr!GivesUp
    BY <1>5, <2>1 DEF Thr!TimedJoin, Thr!GivesUp, Thr!Ends
  <2>2. CASE ~running /\ Thr!Joined
    BY <1>5, <2>2, JoinedStep, Zenon DEF Thr!TimedJoin, Thr!Joined, Thr!Ends
  <2> QED BY <1>5, <2>1, <2>2 DEF Thr!TimedJoin
<1>6. CASE Thr!Destroy
  BY <1>6 DEF Thr!Destroy
<1>7. CASE Thr!DestroyJoin
  BY <1>7, JoinedStep, Zenon DEF Thr!DestroyJoin
<1>8. CASE Thr!Terminated \/ UNCHANGED threadVars
  BY <1>8 DEF Thr!Terminated, Thr!vars, threadVars
<1> QED BY <1>1, <1>2, <1>3, <1>4, <1>5, <1>6, <1>7, <1>8 DEF Thr!Next
-----------------------------------------------------------------------------
(* The behaviours of MCThreads.                                            *)

ThreadInv == /\ kind \in {"pool", "thread"}
             /\ kind = "pool" => PoolInv
             /\ kind = "thread" => JoinInv

LEMMA ThreadInvInit == Init => ThreadInv
BY PoolInvInit, JoinInvInit DEF Init, ThreadInv

LEMMA NextIs ==
  ASSUME [Next]_vars
  PROVE  /\ kind' = kind
         /\ kind = "pool" => Pool!Next \/ UNCHANGED poolVars
         /\ kind = "thread" => Thr!Next \/ UNCHANGED threadVars
<1>1. CASE UNCHANGED vars
  BY <1>1 DEF vars
<1>2. CASE Next
  BY <1>2, FiniteThreads DEF Next, OfPool, OfThread, Pool!Next, Thr!Next, Pool!WorkerStep,
     Pool!MainStep, Pool!Step
<1> QED BY <1>1, <1>2

LEMMA ThreadInvStep == ThreadInv /\ [Next]_vars => ThreadInv'
<1> SUFFICES ASSUME ThreadInv, [Next]_vars PROVE ThreadInv'
  OBVIOUS
<1>1. CASE kind = "pool"
  BY <1>1, NextIs, PoolInvStep, PoolInvStutter DEF ThreadInv
<1>2. CASE kind = "thread"
  BY <1>2, NextIs, JoinInvStep DEF ThreadInv
<1> QED BY <1>1, <1>2 DEF ThreadInv

LEMMA ThreadInvAlways == Spec => []ThreadInv
BY ThreadInvInit, ThreadInvStep, PTL DEF Spec

\* The pool's and the thread object's state have their types.
THEOREM ThreadTypes == Spec => []TypeOK
<1>1. ThreadInv => TypeOK
  BY DEF ThreadInv, TypeOK, PoolInv, JoinInv
<1> QED BY <1>1, ThreadInvAlways, PTL

\* _tasks counts exactly the tasks that are queued, being executed or still
\* to be pushed by an AddTask in progress (ThreadPool.h:59, 94, 116).
THEOREM BusyCountIsExact == Spec => []BusyExact
<1>1. ThreadInv => BusyExact
  BY SameCounting DEF ThreadInv, PoolInv, BusyInv, BusyExact, Pool!BusyExact
<1> QED BY <1>1, ThreadInvAlways, PTL

\* When ~ThreadPool returns every worker has left the pool's state and no
\* task remains (ThreadPool.h:44-52, 120).
THEOREM ShutdownIsSafe == Spec => []ShutdownSafe
<1>1. ThreadInv => ShutdownSafe
  BY DEF ThreadInv, PoolInv, ShutdownSafe
<1> QED BY <1>1, ThreadInvAlways, PTL

\* A thread is joined once, and after it has ended (Thread.h:70-73, 97-110).
THEOREM ThreadIsJoinedOnce == Spec => []JoinedOnce
<1>1. ThreadInv => JoinedOnce
  BY DEF ThreadInv, JoinInv, JoinedOnce, Thr!JoinedOnce
<1> QED BY <1>1, ThreadInvAlways, PTL

LEMMA SpinEnds ==
  ASSUME PoolInv, Pool!Next, pc[Main] = "spin", pc'[Main] # "spin"
  PROVE  tasks = 0
<1>1. Pool!TypeOK /\ PcInv /\ Main \in Pool!Thread /\ Worker \subseteq Pool!Thread
  BY DEF PoolInv
<1>2. ASSUME NEW t \in Pool!Thread, NEW from, NEW to, from # "spin", Pool!Go(t, from, to) PROVE FALSE
  BY <1>1, <1>2, GoStep
<1> HIDE DEF Pool!Thread
<1>3. ASSUME NEW t \in Pool!Thread, NEW n \in Instances PROVE ~Pool!AddTask(t, n)
  BY <1>2 DEF Pool!AddTask
<1>4. ASSUME NEW t \in Pool!Thread PROVE ~Pool!Step(t)
  BY <1>2 DEF Pool!Step, Pool!AddPush, Pool!AddNotify, Pool!Pop, Pool!PopTask, Pool!PopNothing,
     Pool!Finish
<1>5. ASSUME NEW w \in Worker PROVE ~Pool!WorkerStep(w) /\ ~Pool!AddThread(w)
  BY <1>1, <1>2, <1>4 DEF Pool!WorkerStep, Pool!WorkerCheck, Pool!WorkerWake, Pool!WorkerExit,
     Pool!AddThread
<1>6. ~Pool!Wait /\ ~Pool!Close /\ ~Pool!WaitLoop /\ ~Pool!Negate /\ ~Pool!NotifyAll /\ ~Pool!Stopped
  BY <1>1, <1>2 DEF Pool!Wait, Pool!Close, Pool!WaitLoop, Pool!Negate, Pool!NotifyAll, Pool!Stopped
<1>7. ~Pool!Terminated
  BY DEF Pool!Terminated
<1> QED BY <1>1, <1>3, <1>4, <1>5, <1>6, <1>7 DEF Pool!Next, Pool!MainStep, Pool!WaitDone

LEMMA NoneLeft ==
  ASSUME PoolInv, tasks = 0, pc[Main] = "spin"
  PROVE  /\ queued = 0 /\ Pool!Executing = {}
         /\ \A t \in Pool!Thread : call[t] = Pool!NoCall
<1>1. Pool!TypeOK /\ PcInv /\ CallInv /\ BusyInv
  BY DEF PoolInv
<1>2. queued = 0 /\ Cardinality(Pool!Executing) = 0 /\ Cardinality(Pool!Unpushed) = 0
  BY <1>1, FiniteExecuting, FiniteUnpushed DEF BusyInv, Pool!TypeOK
<1>3. Pool!Executing = {} /\ Pool!Unpushed = {}
  BY <1>1, <1>2, FiniteExecuting, FiniteUnpushed, FS_EmptySet
<1>4. ASSUME NEW t \in Pool!Thread, call[t] # Pool!NoCall PROVE FALSE
  <2>1. pc[t] \in Adding /\ ~Occupied(t)
    BY <1>1, <1>3, <1>4, ExecutingIs DEF CallInv
  <2>2. call[t].back = "idle" /\ t # Main
    BY <1>1, <2>1 DEF Occupied, Pool!TypeOK, Adding
  <2> QED BY <1>1, <2>1, <2>2 DEF CallInv
<1> QED BY <1>2, <1>3, <1>4

\* Wait returns only when no task is queued, executing or being added
\* (ThreadPool.h:59, 91-95, 116).
THEOREM WaitReturnsWhenDone == Spec => WaitMeansDone
<1>1. ThreadInv /\ [Next]_vars =>
        [kind = "pool" /\ pc[Main] = "spin" /\ pc'[Main] # "spin" =>
           /\ queued = 0 /\ Pool!Executing = {}
           /\ \A t \in Pool!Thread : call[t] = Pool!NoCall]_vars
  <2> SUFFICES ASSUME ThreadInv, [Next]_vars, kind = "pool", pc[Main] = "spin", pc'[Main] # "spin"
               PROVE  /\ queued = 0 /\ Pool!Executing = {}
                      /\ \A t \in Pool!Thread : call[t] = Pool!NoCall
    OBVIOUS
  <2>1. PoolInv /\ Pool!Next
    BY NextIs DEF ThreadInv, poolVars
  <2>2. tasks = 0
    BY <2>1, SpinEnds
  <2> QED BY <2>1, <2>2, NoneLeft
<1> QED BY <1>1, ThreadInvAlways, PTL DEF Spec, WaitMeansDone

=============================================================================
