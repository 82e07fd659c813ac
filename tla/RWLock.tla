------------------------------- MODULE RWLock -------------------------------
(***************************************************************************)
(* The readers-writer lock of include/buntils/RWLock.h, one action per     *)
(* atomic operation on its word `l'.  The word's top bit WFLAG is `flag'   *)
(* and the WMASK bits below it are `count'; each fetch_or, fetch_and,      *)
(* fetch_add, fetch_sub or compare-exchange updates both in one step.      *)
(* `pc' says where a thread is inside an operation, or what it holds       *)
(* between two operations ("idle", "reading", "writing", "upgraded").      *)
(*                                                                         *)
(* A loop that polls the word and finds nothing changed, and a failed      *)
(* attempt that leaves the word alone, are stuttering steps: the action    *)
(* below is the poll that succeeds.  A thread uses the lock as the code's  *)
(* comments demand: it acquires when it holds nothing, upgrades when it    *)
(* reads, and leaves an upgrade with Downgrade.  The atomics are modelled  *)
(* as sequentially consistent, and count never reaches WFLAG (2^63         *)
(* simultaneous readers).                                                  *)
(***************************************************************************)
EXTENDS Naturals, FiniteSets

CONSTANTS Thread,   \* the threads that use one lock
          NoThread  \* for the refinement: nobody owns the writer flag

ASSUME ThreadAssumption == IsFiniteSet(Thread) /\ NoThread \notin Thread

VARIABLES flag,    \* l & WFLAG
          count,   \* l & WMASK
          pc

vars == <<flag, count, pc>>

\* Where a thread has one unit in count, and where it owns the flag.
CountPc == {"rlock_sub", "arlock_sub", "reading", "up_or", "up_release",
            "up_reor", "up_flush", "reup_flush", "aup_flush", "upgraded"}
FlagPc  == {"lock_flush", "writing", "up_flush", "reup_flush", "aup_flush",
            "upgraded"}
Pc == CountPc \cup FlagPc \cup
      {"idle", "lock_or", "rlock_add", "rlock_spin", "up_spin", "up_add"}

Go(t, from, to) == pc[t] = from /\ pc' = [pc EXCEPT ![t] = to]

Init == /\ flag = FALSE
        /\ count = 0
        /\ pc = [t \in Thread |-> "idle"]
-----------------------------------------------------------------------------
(* Writers.                                                                *)

CallLock(t) == /\ Go(t, "idle", "lock_or")
               /\ UNCHANGED <<flag, count>>

\* The fetch_or that finds WFLAG clear; one that finds it set changes nothing.
LockOr(t) == /\ ~flag
             /\ Go(t, "lock_or", "lock_flush")
             /\ flag' = TRUE
             /\ UNCHANGED count

\* AttemptLock gives up where Lock would spin, and flushes readers as it does.
AttemptLock(t) == /\ ~flag
                  /\ Go(t, "idle", "lock_flush")
                  /\ flag' = TRUE
                  /\ UNCHANGED count

\* Mutation: Upgrade's bound copied into Lock, one reader is tolerated.
BugLockFlush(t) == /\ count <= 1
                   /\ Go(t, "lock_flush", "writing")
                   /\ UNCHANGED <<flag, count>>

LockFlush(t) == /\ count = 0
                /\ Go(t, "lock_flush", "writing")
                /\ UNCHANGED <<flag, count>>

\* compare_exchange from 0: fails on a flag, a reader or a reader's retraction.
AttemptStrictLock(t) == /\ ~flag /\ count = 0
                        /\ Go(t, "idle", "writing")
                        /\ flag' = TRUE
                        /\ UNCHANGED count

Unlock(t) == /\ Go(t, "writing", "idle")
             /\ flag' = FALSE
             /\ UNCHANGED count
-----------------------------------------------------------------------------
(* Readers.                                                                *)

CallRLock(t) == /\ Go(t, "idle", "rlock_add")
                /\ UNCHANGED <<flag, count>>

\* Mutation: the flag returned by the fetch_add is not looked at.
BugRLockAdd(t) == /\ Go(t, "rlock_add", "reading")
                  /\ count' = count + 1
                  /\ UNCHANGED flag

\* The optimistic fetch_add: it is the read lock unless the flag was set.
RLockAdd(t) == /\ Go(t, "rlock_add", IF flag THEN "rlock_sub" ELSE "reading")
               /\ count' = count + 1
               /\ UNCHANGED flag

\* Mutation: the reader retries at once instead of letting the writer through.
BugRLockSub(t) == /\ Go(t, "rlock_sub", "rlock_add")
                  /\ count' = count - 1
                  /\ UNCHANGED flag

\* Retract it; wait only if the flag is still set at that moment.
RLockSub(t) == /\ Go(t, "rlock_sub", IF flag THEN "rlock_spin" ELSE "rlock_add")
               /\ count' = count - 1
               /\ UNCHANGED flag

RLockSpin(t) == /\ ~flag
                /\ Go(t, "rlock_spin", "rlock_add")
                /\ UNCHANGED <<flag, count>>

AttemptRLock(t) == /\ Go(t, "idle", IF flag THEN "arlock_sub" ELSE "reading")
                   /\ count' = count + 1
                   /\ UNCHANGED flag

AttemptRLockSub(t) == /\ Go(t, "arlock_sub", "idle")
                      /\ count' = count - 1
                      /\ UNCHANGED flag

RUnlock(t) == /\ Go(t, "reading", "idle")
              /\ count' = count - 1
              /\ UNCHANGED flag
-----------------------------------------------------------------------------
(* Readers that become writers.  A failed first fetch_or gives the read    *)
(* lock up (up_release); the fetch_add that takes it back (up_add) does    *)
(* not look at the flag, so at up_reor the unit in count is no read lock.  *)

CallUpgrade(t) == /\ Go(t, "reading", "up_or")
                  /\ UNCHANGED <<flag, count>>

UpgradeOr(t) == /\ Go(t, "up_or", IF flag THEN "up_release" ELSE "up_flush")
                /\ flag' = TRUE
                /\ UNCHANGED count

UpgradeRelease(t) == /\ Go(t, "up_release", "up_spin")
                     /\ count' = count - 1
                     /\ UNCHANGED flag

UpgradeSpin(t) == /\ ~flag
                  /\ Go(t, "up_spin", "up_add")
                  /\ UNCHANGED <<flag, count>>

\* Mutation: the read lock is not taken back before the next attempt.
BugUpgradeAdd(t) == /\ Go(t, "up_add", "up_reor")
                    /\ UNCHANGED <<flag, count>>

UpgradeAdd(t) == /\ Go(t, "up_add", "up_reor")
                 /\ count' = count + 1
                 /\ UNCHANGED flag

UpgradeReOr(t) == /\ Go(t, "up_reor", IF flag THEN "up_release" ELSE "reup_flush")
                  /\ flag' = TRUE
                  /\ UNCHANGED count

\* Only the upgrader's own unit may be left.
UpgradeFlush(t) == /\ count <= 1
                   /\ \/ Go(t, "up_flush", "upgraded")
                      \/ Go(t, "reup_flush", "upgraded")
                      \/ Go(t, "aup_flush", "upgraded")
                   /\ UNCHANGED <<flag, count>>

\* Mutation: the flag returned by the fetch_or is not looked at.
BugAttemptUpgrade(t) == /\ Go(t, "reading", "aup_flush")
                        /\ flag' = TRUE
                        /\ UNCHANGED count

\* On a set flag AttemptUpgrade returns false and the read lock is kept.
AttemptUpgrade(t) == /\ ~flag
                     /\ Go(t, "reading", "aup_flush")
                     /\ flag' = TRUE
                     /\ UNCHANGED count

\* Mutation: Downgrade forgets to clear the flag.
BugDowngrade(t) == /\ Go(t, "upgraded", "reading")
                   /\ UNCHANGED <<flag, count>>

Downgrade(t) == /\ Go(t, "upgraded", "reading")
                /\ flag' = FALSE
                /\ UNCHANGED count
-----------------------------------------------------------------------------
\* Inside an operation a thread never stops; holding the lock it lets go.
Step(t) == \/ LockOr(t) \/ LockFlush(t) \/ RLockAdd(t) \/ RLockSub(t)
           \/ RLockSpin(t) \/ AttemptRLockSub(t) \/ UpgradeOr(t)
           \/ UpgradeRelease(t) \/ UpgradeSpin(t) \/ UpgradeAdd(t)
           \/ UpgradeReOr(t) \/ UpgradeFlush(t)
Release(t) == Unlock(t) \/ RUnlock(t) \/ Downgrade(t)
Call(t) == \/ CallLock(t) \/ AttemptLock(t) \/ AttemptStrictLock(t)
           \/ CallRLock(t) \/ AttemptRLock(t)
           \/ CallUpgrade(t) \/ AttemptUpgrade(t)

Next == \E t \in Thread : Step(t) \/ Release(t) \/ Call(t)

Spec == Init /\ [][Next]_vars

(* Operations take their steps, and critical sections end.  A thread that  *)
(* reads may upgrade again and again, but not for ever: RUnlock is fair.   *)
Fairness == \A t \in Thread : WF_vars(Step(t)) /\ WF_vars(Release(t))

FairSpec == Spec /\ Fairness
-----------------------------------------------------------------------------
TypeOK == /\ flag \in BOOLEAN
          /\ count \in Nat
          /\ pc \in [Thread -> Pc]

Counted == {t \in Thread : pc[t] \in CountPc}

\* What a thread has been granted, and who has claimed the lock (RWLockSpec).
Granted(p) == IF p \in {"reading", "up_or", "up_flush", "aup_flush"} THEN "read"
              ELSE IF p \in {"writing", "upgraded"} THEN "write"
              ELSE "none"
held == [t \in Thread |-> Granted(pc[t])]
claim == IF \E t \in Thread : pc[t] \in FlagPc
         THEN CHOOSE t \in Thread : pc[t] \in FlagPc
         ELSE NoThread

(* A thread inside Lock's or Upgrade's critical section is alone: no       *)
(* other thread reads or writes (RWLock.h:37-45, 112-126).                 *)
MutualExclusion ==
  \A t, u \in Thread : t # u /\ held[t] = "write" => held[u] = "none"

\* The reader count is the number of threads with one unit in it.
CountExact == count = Cardinality(Counted)

\* WFLAG is set exactly when one thread, and only one, owns it.
FlagExact == /\ flag <=> \E t \in Thread : pc[t] \in FlagPc
             /\ \A t, u \in Thread : pc[t] \in FlagPc /\ pc[u] \in FlagPc => t = u

(* The word always accounts for exactly the threads that use the lock,     *)
(* over every optimistic increment and its retraction: no fetch_sub ever   *)
(* borrows from WFLAG and the assertions of RUnlock, Unlock and Downgrade  *)
(* (RWLock.h:106, 72, 145) hold.                                           *)
WordExact == CountExact /\ FlagExact

(* Every behaviour of the word-level lock is one of the abstract lock.     *)
Abstract == INSTANCE RWLockSpec
AbstractSpec == Abstract!Spec

\* AttemptRLock knocks without regard for the flag, and its caller may retry
\* at once: while that goes on the count need never be seen at zero.
KnockingEnds == <>[](\A t \in Thread : pc[t] # "arlock_sub")

(* Who owns the flag gets the write lock, if callers of AttemptRLock do    *)
(* not retry for ever: every other reader that backs off waits for the     *)
(* flag to clear (RWLock.h:81-86), and of two readers that upgrade at the  *)
(* same time the one that lost lets its read lock go (118) instead of      *)
(* waiting on the other.                                                   *)
OwnerEnters ==
  KnockingEnds => \A t \in Thread : pc[t] \in FlagPc ~> held[t] = "write"

(* While somebody wants the write lock, somebody gets it.                  *)
SomeWriterEnters ==
  KnockingEnds => (\E t \in Thread : pc[t] \in {"lock_or", "up_or"})
                    ~> (\E t \in Thread : held[t] = "write")
=============================================================================
