------------------------------ MODULE MCThreads -----------------------------
(***************************************************************************)
(* The pool of include/buntils/ThreadPool.h and the thread object of       *)
(* include/buntils/Thread.h for TLC: a behaviour is one of a pool or one   *)
(* of a single Thread that is joined, as `kind' says.                      *)
(***************************************************************************)
EXTENDS Naturals

CONSTANTS Worker, Main, Count, MaxTask, Instances,  \* ThreadPool
          PerSec, Timeouts, MaxNow, MaxCalls        \* Thread

VARIABLES kind,
          run, tasks, queued, sem, started, pc, call, raced, closing, added,
          now, running, joinable, joined, upc, timeout, called, deadline, result, calls

poolVars == <<run, tasks, queued, sem, started, pc, call, raced, closing, added>>
threadVars == <<now, running, joinable, joined, upc, timeout, called, deadline, result, calls>>
vars == <<kind, poolVars, threadVars>>

Pool == INSTANCE ThreadPool
Thr == INSTANCE Thread WITH pc <- upc

ASSUME PoolAssumption == Pool!Assumptions
ASSUME JoinAssumption == Thr!Assumptions

Init == \/ /\ kind = "pool" /\ Pool!Init
           /\ now = 0 /\ running = FALSE /\ joinable = FALSE /\ joined = 1 /\ upc = "gone"
           /\ timeout = 0 /\ called = 0 /\ deadline = Thr!NoDeadline
           /\ result = "none" /\ calls = 0
        \/ /\ kind = "thread" /\ Thr!Init
           /\ run = 0 /\ tasks = 0 /\ queued = 0 /\ sem = 0 /\ added = 0 /\ started = {}
           /\ pc = [t \in Pool!Thread |-> "dead"]
           /\ call = [t \in Pool!Thread |-> Pool!NoCall]
           /\ raced = {} /\ closing = FALSE

OfPool(A) == kind = "pool" /\ A /\ UNCHANGED <<kind, threadVars>>
OfThread(A) == kind = "thread" /\ A /\ UNCHANGED <<kind, poolVars>>

Next == \/ \E t \in Pool!Thread :
             \/ \E n \in Instances : OfPool(Pool!AddTask(t, n))
             \/ OfPool(Pool!AddPush(t)) \/ OfPool(Pool!AddNotify(t))
             \/ OfPool(Pool!Pop(t)) \/ OfPool(Pool!PopTask(t)) \/ OfPool(Pool!PopNothing(t))
             \/ OfPool(Pool!Finish(t))
        \/ \E w \in Worker :
             \/ OfPool(Pool!AddThread(w)) \/ OfPool(Pool!WorkerCheck(w))
             \/ OfPool(Pool!WorkerWake(w)) \/ OfPool(Pool!WorkerExit(w))
        \/ OfPool(Pool!Wait) \/ OfPool(Pool!WaitLoop) \/ OfPool(Pool!WaitDone)
        \/ OfPool(Pool!Close) \/ OfPool(Pool!Negate) \/ OfPool(Pool!NotifyAll)
        \/ OfPool(Pool!Stopped) \/ OfPool(Pool!Terminated)
        \/ OfThread(Thr!Clock) \/ OfThread(Thr!Return)
        \/ \E ms \in Timeouts : OfThread(Thr!Join(ms))
        \/ OfThread(Thr!TryJoin) \/ OfThread(Thr!TimedJoin)
        \/ OfThread(Thr!Destroy) \/ OfThread(Thr!DestroyJoin) \/ OfThread(Thr!Terminated)

\* Every thread is scheduled, tasks end, and the semaphore wakes a sleeper
\* whom the others do not keep ahead of for ever.  The clock runs; the thread
\* that is joined may never return.
Spec == /\ Init /\ [][Next]_vars
        /\ WF_vars(OfPool(Pool!MainStep))
        /\ \A w \in Worker : WF_vars(OfPool(Pool!WorkerStep(w)))
        /\ WF_vars(OfThread(Thr!Clock))
        /\ WF_vars(OfThread(Thr!TryJoin)) /\ WF_vars(OfThread(Thr!TimedJoin))
-----------------------------------------------------------------------------
TypeOK == /\ kind \in {"pool", "thread"}
          /\ kind = "pool" => Pool!TypeOK
          /\ kind = "thread" => Thr!TypeOK

(* Wait returns only when every task added so far, by the owner or by      *)
(* another task, has ended; a task that is being added keeps it waiting    *)
(* (ThreadPool.h:59, 91-95, 116).                                          *)
WaitMeansDone ==
  [][kind = "pool" /\ pc[Main] = "spin" /\ pc'[Main] # "spin" =>
       /\ queued = 0 /\ Pool!Executing = {}
       /\ \A t \in Pool!Thread : call[t] = Pool!NoCall]_vars

(* The busy count is exact: queued, executing or still to be pushed, so it *)
(* neither underflows nor stays positive after the last task               *)
(* (ThreadPool.h:59, 94, 116).                                             *)
BusyExact == kind = "pool" => Pool!BusyExact

(* When the pool's destructor returns no worker will touch the pool again  *)
(* and no task is left in it (ThreadPool.h:44-52, 120).                    *)
ShutdownSafe == kind = "pool" => Pool!ShutdownSafe

(* No task is orphaned: what is queued is executed, even when a worker is  *)
(* told that the queue is empty and goes to sleep because it raced with    *)
(* another Pop (LocklessQueue.h:182): who won that race pops again.        *)
TasksExecuted == queued > 0 ~> queued = 0

(* The pool's destructor returns: each sleeping worker is woken and stops  *)
(* (ThreadPool.h:46-52, 108).                                              *)
DestructorReturns == closing ~> pc[Main] = "dead"

(* However joins that time out, joins that succeed and the destructor      *)
(* follow each other, the thread is joined exactly once before the object  *)
(* is gone, and only after it has ended (Thread.h:70-73, 97-110).          *)
JoinedOnce == kind = "thread" => Thr!JoinedOnce

(* A join with a timeout returns although the thread may never do so       *)
(* (Thread.h:93-107).                                                      *)
JoinReturns == upc \in {"try", "timed"} ~> upc = "idle"

(* The comment above join (Thread.h:80): it "Blocks until either the       *)
(* thread has terminated, or 'timeout' milliseconds have elapsed."         *)
WaitsForTimeout ==
  [][upc = "timed" /\ upc' = "idle" /\ result' = "failed" => now >= called + timeout]_vars
=============================================================================
