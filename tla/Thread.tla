------------------------------- MODULE Thread -------------------------------
(***************************************************************************)
(* Thread of include/buntils/Thread.h on POSIX: std::thread with a join    *)
(* that takes a timeout, and a destructor that joins.  One object, the     *)
(* thread it stands for, and the real-time clock.  Time is counted in      *)
(* ticks: a tick is the unit of `mstimeout' and of tv_nsec alike, PerSec   *)
(* of them make a second.  pthread_timedjoin_np refuses a deadline whose   *)
(* tv_nsec is not below a second, as its manual says.                      *)
(***************************************************************************)
EXTENDS Naturals

CONSTANTS PerSec,   \* ticks in a second
          Timeouts, \* the timeouts join is called with
          MaxNow,   \* bound: the clock
          MaxCalls  \* bound: calls of join

Assumptions == PerSec \in Nat \ {0} /\ Timeouts \subseteq Nat
               /\ MaxNow \in Nat /\ PerSec <= MaxNow /\ MaxCalls \in Nat

VARIABLES now,       \* CLOCK_REALTIME, in ticks
          running,   \* the thread has not returned
          joinable,  \* the object's id is not the null id
          joined,    \* history: how often the thread was joined
          pc,        \* of the thread that uses the object
          timeout,   \* mstimeout of the call in progress or last made
          called,    \* when it was made
          deadline,  \* ts
          result,    \* "none", "joined" or "failed" (-1)
          calls

vars == <<now, running, joinable, joined, pc, timeout, called, deadline, result, calls>>

NoDeadline == [sec |-> 0, nsec |-> 0]

Init == /\ now \in 0..(PerSec - 1)
        /\ running = TRUE /\ joinable = TRUE /\ joined = 0
        /\ pc = "idle" /\ timeout = 0 /\ called = 0
        /\ deadline = NoDeadline /\ result = "none"
        /\ calls = 0

Clock == /\ now < MaxNow
         /\ now' = now + 1
         /\ UNCHANGED <<running, joinable, joined, pc, timeout, called, deadline, result, calls>>

Return == /\ running
          /\ running' = FALSE
          /\ UNCHANGED <<now, joinable, joined, pc, timeout, called, deadline, result, calls>>

Ends(outcome) == pc' = "idle" /\ result' = outcome /\ UNCHANGED deadline
-----------------------------------------------------------------------------
(* join(mstimeout)                                                         *)

Join(ms) == /\ pc = "idle" /\ calls < MaxCalls /\ now + ms <= MaxNow
            /\ calls' = calls + 1
            /\ timeout' = ms /\ called' = now
            /\ \/ ~joinable /\ Ends("failed")
               \/ joinable /\ ms = 0 /\ pc' = "try" /\ result' = "none" /\ UNCHANGED deadline
               \/ joinable /\ ms # 0 /\ pc' = "timed" /\ result' = "none"
                  /\ deadline' = [sec  |-> now \div PerSec + ms \div PerSec,
                                  nsec |-> (now % PerSec) + (ms % PerSec)]
            /\ UNCHANGED <<now, running, joinable, joined>>

\* The thread is joined and the object's id is overwritten with the null id.
Joined == joined' = joined + 1 /\ Ends("joined") /\ joinable' = FALSE

GivesUp == Ends("failed") /\ UNCHANGED <<joined, joinable>>

\* Mutation: joins whether or not the thread has ended.
BugTryJoin == /\ pc = "try"
              /\ Joined
              /\ UNCHANGED <<now, running, timeout, called, calls>>

TryJoin == /\ pc = "try"
           /\ IF running THEN GivesUp ELSE Joined
           /\ UNCHANGED <<now, running, timeout, called, calls>>

DeadlineIsValid == deadline.nsec < PerSec
DeadlineIsOver == now >= deadline.sec * PerSec + deadline.nsec

\* Mutation: the deadline is not given to the system.
BugTimedJoin == /\ pc = "timed"
                /\ ~running /\ Joined
                /\ UNCHANGED <<now, running, timeout, called, calls>>

\* An invalid deadline fails at once, at least while the thread runs.
TimedJoin == /\ pc = "timed"
             /\ \/ ~DeadlineIsValid /\ GivesUp
                \/ DeadlineIsValid /\ running /\ DeadlineIsOver /\ GivesUp
                \/ ~running /\ Joined
             /\ UNCHANGED <<now, running, timeout, called, calls>>
-----------------------------------------------------------------------------
(* The destructor joins what is still joinable.                            *)

Destroy == /\ pc = "idle"
           /\ pc' = IF joinable THEN "join" ELSE "gone"
           /\ UNCHANGED <<now, running, joinable, joined, timeout, called, deadline, result, calls>>

DestroyJoin == /\ pc = "join" /\ ~running
               /\ joined' = joined + 1 /\ joinable' = FALSE
               /\ pc' = "gone"
               /\ UNCHANGED <<now, running, timeout, called, deadline, result, calls>>

Terminated == pc = "gone" /\ ~running /\ now = MaxNow /\ UNCHANGED vars

Next == \/ Clock \/ Return
        \/ (\E ms \in Timeouts : Join(ms)) \/ TryJoin \/ TimedJoin
        \/ Destroy \/ DestroyJoin \/ Terminated

Spec == Init /\ [][Next]_vars
-----------------------------------------------------------------------------
TypeOK == /\ now \in 0..MaxNow /\ running \in BOOLEAN /\ joinable \in BOOLEAN
          /\ joined \in 0..1 /\ pc \in {"idle", "try", "timed", "join", "gone"}
          /\ timeout \in Timeouts \cup {0} /\ called \in 0..MaxNow
          /\ deadline \in [sec : Nat, nsec : Nat]
          /\ result \in {"none", "joined", "failed"}
          /\ calls \in 0..MaxCalls

(* However joins that time out, joins that succeed and the destructor      *)
(* follow each other, the thread is joined exactly once before the object  *)
(* is gone, and only after it has ended (Thread.h:70-73, 97-110).          *)
JoinedOnce == /\ joined = 1 => ~running
              /\ pc = "gone" => joined = 1
=============================================================================
