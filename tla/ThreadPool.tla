----------------------------- MODULE ThreadPool -----------------------------
(***************************************************************************)
(* ThreadPool of include/buntils/ThreadPool.h: workers that sleep on a     *)
(* semaphore and drain a task queue, and the thread that owns the pool,    *)
(* adds tasks, waits for them while it executes some itself, and destroys  *)
(* the pool.  A running task may add tasks too.                            *)
(*                                                                         *)
(* Tasks are counted, not told apart.  The queue is a MicroLockQueue: Pop  *)
(* may return false although tasks are queued, but only when another       *)
(* thread popped since this Pop began (MicroLockQueue's unlocked look at   *)
(* _div->next sees a node that is no longer the dummy).                    *)
(***************************************************************************)
EXTENDS Integers, FiniteSets

CONSTANTS Worker,    \* the threads that can ever be started
          Main,      \* the thread that owns the pool
          Count,     \* the constructor's thread count
          MaxTask,   \* bound: task instances ever added
          Instances  \* the instance counts AddTask is called with

Assumptions == /\ IsFiniteSet(Worker) /\ Main \notin Worker
               /\ Count \in 1..Cardinality(Worker)
               /\ MaxTask \in Nat /\ Instances \subseteq Nat

Thread == Worker \cup {Main}

VARIABLES run,      \* _run: worker count, negated to stop them
          tasks,    \* _tasks: instances added and not finished
          queued,   \* _tasklist's length
          sem,      \* _lock
          started,  \* the workers in _threads
          pc,
          call,     \* the AddTask in progress in each thread
          raced,    \* threads inside Pop since whose start another one popped
          closing,  \* the destructor has been entered
          added     \* history: instances ever added

vars == <<run, tasks, queued, sem, started, pc, call, raced, closing, added>>

NoCall == [instances |-> 0, left |-> 0, back |-> "idle"]

\* The constructor: AddThreads(count) has started `Count' workers.
Init == /\ \E W \in SUBSET Worker : Cardinality(W) = Count /\ started = W
        /\ run = Count
        /\ tasks = 0 /\ queued = 0 /\ sem = 0 /\ added = 0
        /\ pc = [t \in Thread |-> IF t \in started THEN "check"
                                  ELSE IF t = Main THEN "idle" ELSE "unborn"]
        /\ call = [t \in Thread |-> NoCall]
        /\ raced = {}
        /\ closing = FALSE

Go(t, from, to) == pc[t] = from /\ pc' = [pc EXCEPT ![t] = to]
-----------------------------------------------------------------------------
(* AddTask, from the owner or from inside a task.                          *)

\* Mutation: the tasks are counted once they are in the queue.
BugAddTask(t, n) ==
  LET all == IF n = 0 THEN Cardinality(started) ELSE n IN
  /\ added + all <= MaxTask
  /\ added' = added + all
  /\ call' = [call EXCEPT ![t] = [instances |-> all, left |-> all, back |-> pc[t]]]
  /\ \E from \in {"idle", "run"} : Go(t, from, "add_push")
  /\ UNCHANGED <<run, tasks, queued, sem, started, raced, closing>>

\* The tasks count as busy before any of them can be popped.
AddTask(t, n) ==
  LET all == IF n = 0 THEN Cardinality(started) ELSE n IN
  /\ added + all <= MaxTask
  /\ added' = added + all
  /\ tasks' = tasks + all
  /\ call' = [call EXCEPT ![t] = [instances |-> all, left |-> all, back |-> pc[t]]]
  /\ \E from \in {"idle", "run"} : Go(t, from, "add_push")
  /\ UNCHANGED <<run, queued, sem, started, raced, closing>>

AddPush(t) ==
  /\ Go(t, "add_push", IF call[t].left = 1 THEN "add_notify" ELSE "add_push")
  /\ queued' = queued + 1
  /\ call' = [call EXCEPT ![t].left = @ - 1]
  /\ UNCHANGED <<run, tasks, sem, started, raced, closing, added>>

\* Mutation: nobody is woken.
BugAddNotify(t) ==
  /\ Go(t, "add_notify", call[t].back)
  /\ call' = [call EXCEPT ![t] = NoCall]
  /\ UNCHANGED <<run, tasks, queued, sem, started, raced, closing, added>>

AddNotify(t) ==
  /\ Go(t, "add_notify", call[t].back)
  /\ sem' = sem + call[t].instances
  /\ call' = [call EXCEPT ![t] = NoCall]
  /\ UNCHANGED <<run, tasks, queued, started, raced, closing, added>>

\* AddThreads(1): counted before the thread exists.
AddThread(w) == /\ pc[Main] = "idle" /\ ~closing
                /\ Go(w, "unborn", "check")
                /\ run' = run + 1
                /\ started' = started \cup {w}
                /\ UNCHANGED <<tasks, queued, sem, call, raced, closing, added>>
-----------------------------------------------------------------------------
(* Popping and executing a task, by a worker or by the owner in Wait.      *)

Pop(t) == /\ Go(t, "pop", "popping")
          /\ raced' = raced \ {t}
          /\ UNCHANGED <<run, tasks, queued, sem, started, call, closing, added>>

PopTask(t) == /\ Go(t, "popping", "run")
              /\ queued > 0
              /\ queued' = queued - 1
              /\ raced' = raced \cup {u \in Thread : pc[u] = "popping"}
              /\ UNCHANGED <<run, tasks, sem, started, call, closing, added>>

PopNothing(t) == /\ Go(t, "popping", IF t = Main THEN "spin" ELSE "check")
                 /\ queued = 0 \/ t \in raced
                 /\ UNCHANGED <<run, tasks, queued, sem, started, call, raced, closing, added>>

\* Mutation: only workers count a task as finished.
BugFinish(t) == /\ Go(t, "run", IF t = Main THEN "wait" ELSE "pop")
                /\ tasks' = IF t = Main THEN tasks ELSE tasks - 1
                /\ UNCHANGED <<run, queued, sem, started, call, raced, closing, added>>

\* The task has ended and is no longer busy; pop the next.
Finish(t) == /\ Go(t, "run", IF t = Main THEN "wait" ELSE "pop")
             /\ tasks' = tasks - 1
             /\ UNCHANGED <<run, queued, sem, started, call, raced, closing, added>>
-----------------------------------------------------------------------------
(* _worker                                                                 *)

WorkerCheck(w) == /\ Go(w, "check", IF run > 0 THEN "sleep" ELSE "exit")
                  /\ UNCHANGED <<run, tasks, queued, sem, started, call, raced, closing, added>>

WorkerWake(w) == /\ Go(w, "sleep", "pop")
                 /\ sem > 0
                 /\ sem' = sem - 1
                 /\ UNCHANGED <<run, tasks, queued, started, call, raced, closing, added>>

WorkerExit(w) == /\ Go(w, "exit", "gone")
                 /\ run' = run + 1
                 /\ UNCHANGED <<tasks, queued, sem, started, call, raced, closing, added>>
-----------------------------------------------------------------------------
(* Wait and the destructor, which begins with Wait.                        *)

Wait == /\ Go(Main, "idle", "wait")
        /\ UNCHANGED <<run, tasks, queued, sem, started, call, raced, closing, added>>

Close == /\ Go(Main, "idle", "wait") /\ ~closing
         /\ closing' = TRUE
         /\ UNCHANGED <<run, tasks, queued, sem, started, call, raced, added>>

WaitLoop == /\ Go(Main, "wait", IF run > 0 THEN "pop" ELSE "spin")
            /\ UNCHANGED <<run, tasks, queued, sem, started, call, raced, closing, added>>

WaitDone == /\ Go(Main, "spin", IF closing THEN "negate" ELSE "idle")
            /\ tasks = 0
            /\ UNCHANGED <<run, tasks, queued, sem, started, call, raced, closing, added>>

Negate == /\ Go(Main, "negate", "notify")
          /\ run' = -run
          /\ UNCHANGED <<tasks, queued, sem, started, call, raced, closing, added>>

\* Mutation: the destructor wakes one worker.
BugNotifyAll == /\ Go(Main, "notify", "stop")
                /\ sem' = sem + 1
                /\ UNCHANGED <<run, tasks, queued, started, call, raced, closing, added>>

NotifyAll == /\ Go(Main, "notify", "stop")
             /\ sem' = sem + Cardinality(started)
             /\ UNCHANGED <<run, tasks, queued, started, call, raced, closing, added>>

\* Mutation: the destructor does not wait for the workers' increments.
BugStopped == /\ Go(Main, "stop", "dead")
              /\ UNCHANGED <<run, tasks, queued, sem, started, call, raced, closing, added>>

Stopped == /\ Go(Main, "stop", "dead")
           /\ run >= 0
           /\ UNCHANGED <<run, tasks, queued, sem, started, call, raced, closing, added>>
-----------------------------------------------------------------------------
Step(t) == AddPush(t) \/ AddNotify(t) \/ Pop(t) \/ PopTask(t) \/ PopNothing(t) \/ Finish(t)
WorkerStep(w) == Step(w) \/ WorkerCheck(w) \/ WorkerWake(w) \/ WorkerExit(w)
MainStep == Step(Main) \/ WaitLoop \/ WaitDone \/ Negate \/ NotifyAll \/ Stopped

Terminated == pc[Main] = "dead" /\ UNCHANGED vars

Next == \/ \E w \in Worker : WorkerStep(w) \/ AddThread(w)
        \/ \E t \in Thread, n \in Instances : AddTask(t, n)
        \/ MainStep \/ Wait \/ Close \/ Terminated

Spec == Init /\ [][Next]_vars
-----------------------------------------------------------------------------
Labels == {"unborn", "idle", "check", "sleep", "pop", "popping", "run", "exit", "gone",
           "add_push", "add_notify", "wait", "spin", "negate", "notify", "stop", "dead"}

TypeOK == /\ run \in -Cardinality(Worker)..Cardinality(Worker)
          /\ tasks \in Nat /\ queued \in Nat /\ sem \in Nat /\ added \in 0..MaxTask
          /\ started \subseteq Worker
          /\ pc \in [Thread -> Labels]
          /\ call \in [Thread -> [instances : Nat, left : Nat, back : {"idle", "run"}]]
          /\ raced \subseteq Thread
          /\ closing \in BOOLEAN

\* Threads with a task on their stack: executing, or adding from inside it.
Executing == {t \in Thread : pc[t] = "run" \/ (call[t] # NoCall /\ call[t].back = "run")}

\* The instances that AddTask has counted and not yet pushed, one by one.
Unpushed == UNION {{t} \X (1..call[t].left) : t \in Thread}

(* The busy count is exact: queued, executing or still to be pushed, so it *)
(* neither underflows nor stays positive after the last task.              *)
BusyExact == tasks = queued + Cardinality(Executing) + Cardinality(Unpushed)

(* When the destructor returns no worker will touch the pool again and no  *)
(* task is left in it (ThreadPool.h:44-52, 120).                           *)
ShutdownSafe ==
  pc[Main] = "dead" => /\ \A w \in started : pc[w] = "gone"
                       /\ queued = 0 /\ tasks = 0
=============================================================================
