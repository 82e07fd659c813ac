----------------------------- MODULE RWLockSpec -----------------------------
(***************************************************************************)
(* What include/buntils/RWLock.h promises its callers, without the word it *)
(* is implemented with: a write-preferring readers-writer lock.  A thread  *)
(* holds nothing, a read lock or the write lock; `claim' is the writer     *)
(* (entered or still waiting for readers to leave) that new readers yield  *)
(* to.  RWLock is shown to implement this specification.                   *)
(***************************************************************************)
CONSTANTS Thread,   \* the threads that use one lock
          NoThread  \* "no writer has claimed the lock", not a thread

VARIABLES held,     \* what each thread has been granted
          claim     \* the writer that readers yield to, or NoThread

vars == <<held, claim>>

TypeOK == /\ held \in [Thread -> {"none", "read", "write"}]
          /\ claim \in Thread \cup {NoThread}

Init == /\ held = [t \in Thread |-> "none"]
        /\ claim = NoThread

OthersHoldNothing(t) == \A u \in Thread \ {t} : held[u] = "none"

\* A reader is admitted only while no writer has claimed the lock.
AcquireRead(t) == /\ claim = NoThread
                  /\ held[t] = "none"
                  /\ held' = [held EXCEPT ![t] = "read"]
                  /\ UNCHANGED claim

ReleaseRead(t) == /\ claim # t
                  /\ held[t] = "read"
                  /\ held' = [held EXCEPT ![t] = "none"]
                  /\ UNCHANGED claim

\* A writer, or a reader that wants to become the writer, stops new readers.
Claim(t) == /\ claim = NoThread
            /\ claim' = t
            /\ UNCHANGED held

\* It enters once every other thread has let go.
Enter(t) == /\ claim = t
            /\ held[t] \in {"none", "read"}
            /\ OthersHoldNothing(t)
            /\ held' = [held EXCEPT ![t] = "write"]
            /\ UNCHANGED claim

\* The strict attempt claims and enters a free lock at once.
StrictEnter(t) == /\ claim = NoThread
                  /\ \A u \in Thread : held[u] = "none"
                  /\ held' = [held EXCEPT ![t] = "write"]
                  /\ claim' = t

\* Unlock gives everything up, Downgrade keeps a read lock.
Leave(t, kept) == /\ held[t] = "write"
                  /\ held' = [held EXCEPT ![t] = kept]
                  /\ claim' = NoThread

Next == \E t \in Thread :
          \/ AcquireRead(t)
          \/ ReleaseRead(t)
          \/ Claim(t)
          \/ Enter(t)
          \/ StrictEnter(t)
          \/ \E kept \in {"none", "read"} : Leave(t, kept)

Spec == Init /\ [][Next]_vars
=============================================================================
