----------------------------- MODULE Scheduler ------------------------------
(***************************************************************************)
(* The scheduler of include/buntils/Scheduler.h: events in a heap by time, *)
(* the earliest first.  Update runs the due ones; an event may add others  *)
(* while it runs, and returns in how long it wants to run again.           *)
(***************************************************************************)
EXTENDS Integers, Sequences, FiniteSets, TLC

CONSTANTS MaxEvent, MaxNow, Delay, Result, Nobody

VARIABLES heap,       \* items [prio, event]; prio is the time, negated
          now,        \* _time of HighPrecisionTimer
          pc,         \* where Update is; "idle" outside of it
          running,    \* the event Update has called
          astray,     \* history: an event was taken for another, or kept although it was over
          want,       \* history: when each event should run next, as the comment has it
          right       \* history: Update has run what it should so far

vars == <<heap, now, pc, running, astray, want, right>>

\* The PriorityQueue: of BinaryHeap only what computes a new array is used.
Queue == INSTANCE BinaryHeap WITH misplaced <- FALSE, Prio <- Int, MaxItem <- MaxEvent, MaxSort <- 0

Item(event, time) == [prio |-> -time, event |-> event]
Time(item) == -item.prio

Init == /\ heap = <<>> /\ now = 0 /\ pc = "idle" /\ running = Nobody
        /\ astray = FALSE /\ want = <<>> /\ right = TRUE

\* A behaviour ends when Update has peeked into an empty heap, taken one event for
\* another or kept one that was over.
Usable == pc # "lost" /\ ~astray

\* A new event, added between updates or by the running event.
Add(event, t) ==
  /\ Usable /\ pc \in {"idle", "calling"}
  /\ event \notin DOMAIN want \cup {running}
  /\ heap' = Queue!HeapInsert(heap, Item(event, t + now))
  /\ want' = want @@ (event :> t + now)
  /\ UNCHANGED <<now, pc, running, astray, right>>

\* Update reads the clock.
Update(t) == /\ Usable /\ pc = "idle"
             /\ now' = t /\ t \in now..MaxNow
             /\ pc' = "test"
             /\ UNCHANGED <<heap, running, astray, want, right>>

\* The loop's condition and the call; it peeks whether or not there is an event.
Test ==
  /\ Usable /\ pc = "test"
  /\ \/ /\ heap = <<>>
        /\ pc' = "lost"
        /\ UNCHANGED <<running, right>>
     \/ /\ heap # <<>> /\ Time(Queue!Get(heap, 0)) <= now
        /\ pc' = "calling" /\ running' = Queue!Get(heap, 0).event
        /\ right' = (right /\ \A e \in DOMAIN want : want[running'] <= want[e])
     \/ /\ heap # <<>> /\ Time(Queue!Get(heap, 0)) > now
        /\ pc' = "idle"
        /\ right' = (right /\ \A e \in DOMAIN want : want[e] > now)
        /\ UNCHANGED running
  /\ UNCHANGED <<heap, now, astray, want>>

\* The event returns: whatever is in front then is removed or moved.  The comment
\* (Scheduler.h:11-12) has an event rescheduled if the result is greater than 0; the
\* code keeps it unless the result is 0.
Return(r) ==
  /\ Usable /\ pc = "calling"
  /\ LET front == Queue!Get(heap, 0).event
     IN  /\ heap' = IF r = 0 THEN Queue!HeapRemove(heap, 0)
                             ELSE Queue!HeapSet(heap, 0, Item(front, r + now))
         /\ astray' = (front # running \/ r < 0)
  /\ want' = IF r <= 0 THEN [e \in DOMAIN want \ {running} |-> want[e]]
                       ELSE [want EXCEPT ![running] = r + now]
  /\ running' = Nobody /\ pc' = "test"
  /\ UNCHANGED <<now, right>>

Terminated == ~Usable /\ UNCHANGED vars

Next == \/ \E event \in 1..MaxEvent, t \in Delay : Add(event, t)
        \/ \E t \in 0..MaxNow : Update(t)
        \/ Test
        \/ \E r \in Result \cup {-1} : Return(r)
        \/ Terminated

Spec == Init /\ [][Next]_vars
-----------------------------------------------------------------------------
TypeOK == /\ pc \in {"idle", "test", "calling", "lost"}
          /\ running \in 1..MaxEvent \cup {Nobody} /\ now \in 0..MaxNow
          /\ \A i \in DOMAIN heap : heap[i].event \in 1..MaxEvent

Contents == [e \in {heap[i].event : i \in DOMAIN heap} |->
               Time(heap[CHOOSE i \in DOMAIN heap : heap[i].event = e])]

\* Each event is in the heap once, and the heap is in order.
Queued == /\ Queue!HeapOrdered(heap)
          /\ Cardinality(DOMAIN Contents) = Len(heap)
          /\ pc = "calling" => running \in DOMAIN Contents

\* BinaryHeap.h:72: Peek is not used on an empty heap.
NeverPeeksEmpty == pc # "lost"
=============================================================================
