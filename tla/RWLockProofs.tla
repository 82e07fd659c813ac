---------------------------- MODULE RWLockProofs ----------------------------
(***************************************************************************)
(* Proofs about RWLock for any finite set of threads and any choice of     *)
(* operations: its invariant, that it implements RWLockSpec, and that      *)
(* what a thread learns while it reads stays true (RWLockSnapshot).        *)
(***************************************************************************)
EXTENDS RWLockSnapshot, FiniteSetTheorems, TLAPS

USE DEF CountPc, FlagPc, Pc

(* The four conjuncts are inductive together: uniqueness of the flag's     *)
(* owner keeps a second writer out, and the exact count is what lets a     *)
(* writer that reads 0 (or 1) conclude that nobody else reads.             *)
IInv == TypeOK /\ CountExact /\ FlagExact /\ MutualExclusion

(* A step of one thread moves at most that thread in or out of Counted.    *)
LEMMA CountedStep ==
  ASSUME TypeOK, NEW t \in Thread, NEW from, NEW to, Go(t, from, to)
  PROVE  /\ pc[t] = from /\ pc'[t] = to
         /\ \A u \in Thread \ {t} : pc'[u] = pc[u]
         /\ to \in CountPc => Counted' = Counted \cup {t}
         /\ to \notin CountPc => Counted' = Counted \ {t}
         /\ t \in Counted <=> from \in CountPc
<1>1. /\ pc[t] = from /\ pc'[t] = to
      /\ \A u \in Thread \ {t} : pc'[u] = pc[u]
  BY DEF TypeOK, Go
<1> QED BY <1>1 DEF Counted

(* So the cardinality follows the thread's unit.                           *)
LEMMA CardinalityStep ==
  ASSUME TypeOK, CountExact, NEW t \in Thread, NEW from, NEW to, Go(t, from, to)
  PROVE  /\ IsFiniteSet(Counted) /\ Cardinality(Counted) \in Nat
         /\ from \in CountPc /\ to \in CountPc => Cardinality(Counted') = count
         /\ from \notin CountPc /\ to \notin CountPc => Cardinality(Counted') = count
         /\ from \notin CountPc /\ to \in CountPc => Cardinality(Counted') = count + 1
         /\ from \in CountPc /\ to \notin CountPc =>
              Cardinality(Counted') = count - 1 /\ count > 0
<1>1. IsFiniteSet(Counted)
  BY ThreadAssumption, FS_Subset DEF Counted
<1>2. Cardinality(Counted) \in Nat
  BY <1>1, FS_CardinalityType
<1>3. /\ t \notin Counted => Cardinality(Counted \cup {t}) = Cardinality(Counted) + 1
      /\ t \in Counted => Cardinality(Counted \ {t}) = Cardinality(Counted) - 1
  BY <1>1, FS_AddElement, FS_RemoveElement
<1>4. t \in Counted => Cardinality(Counted) > 0
  BY <1>1, <1>2, FS_EmptySet
<1> QED
  <2>1. /\ t \in Counted => Counted \cup {t} = Counted
        /\ t \notin Counted => Counted \ {t} = Counted
    OBVIOUS
  <2> QED BY <1>1, <1>2, <1>3, <1>4, <2>1, CountedStep DEF CountExact

(* A count of 0 means nobody is counted, a count of 1 only the one seen.   *)
LEMMA SmallCount ==
  ASSUME TypeOK, CountExact
  PROVE  /\ count = 0 => Counted = {}
         /\ \A t \in Counted : count <= 1 => Counted = {t}
<1>1. IsFiniteSet(Counted)
  BY ThreadAssumption, FS_Subset DEF Counted
<1>2. count = 0 => Counted = {}
  BY <1>1, FS_EmptySet DEF CountExact
<1>3. ASSUME NEW t \in Counted, count <= 1
      PROVE  Counted = {t}
  <2>1. /\ Cardinality(Counted \ {t}) = Cardinality(Counted) - 1
        /\ IsFiniteSet(Counted \ {t})
    BY <1>1, FS_RemoveElement, FS_Difference
  <2>2. Cardinality(Counted \ {t}) \in Nat
    BY <2>1, FS_CardinalityType
  <2>3. Cardinality(Counted \ {t}) = 0
    BY <1>3, <2>1, <2>2 DEF CountExact, TypeOK
  <2> QED BY <2>1, <2>3, FS_EmptySet
<1> QED BY <1>2, <1>3

LEMMA InitIInv == Init => IInv
<1> SUFFICES ASSUME Init PROVE IInv
  OBVIOUS
<1>1. TypeOK /\ FlagExact /\ MutualExclusion
  BY DEF Init, TypeOK, FlagExact, MutualExclusion, held, Granted
<1>2. Counted = {}
  BY DEF Init, Counted
<1> QED BY <1>1, <1>2, FS_EmptySet DEF Init, IInv, CountExact

LEMMA GoKeepsCount ==
  ASSUME TypeOK, CountExact, NEW t \in Thread, NEW from, NEW to \in Pc,
         Go(t, from, to), flag' \in BOOLEAN,
         count' = IF from \in CountPc
                  THEN IF to \in CountPc THEN count ELSE count - 1
                  ELSE IF to \in CountPc THEN count + 1 ELSE count
  PROVE  TypeOK' /\ CountExact'
<1>1. CountExact'
  BY CardinalityStep DEF CountExact
<1>2. count' \in Nat
  <2>1. from \in CountPc /\ to \notin CountPc => count > 0
    BY CardinalityStep
  <2> QED BY <2>1 DEF TypeOK
<1>3. pc' \in [Thread -> Pc]
  BY DEF TypeOK, Go
<1> QED BY <1>1, <1>2, <1>3 DEF TypeOK
-----------------------------------------------------------------------------
(* Every action keeps the type and the count exact.                        *)
LEMMA NextCount ==
  ASSUME TypeOK, CountExact, NEW t \in Thread, Step(t) \/ Release(t) \/ Call(t)
  PROVE  TypeOK' /\ CountExact'
<1>1. CASE LockOr(t)
  BY <1>1, GoKeepsCount DEF LockOr, TypeOK
<1>2. CASE LockFlush(t)
  BY <1>2, GoKeepsCount DEF LockFlush, TypeOK
<1>3. CASE RLockAdd(t)
  BY <1>3, GoKeepsCount DEF RLockAdd, TypeOK
<1>4. CASE RLockSub(t)
  BY <1>4, GoKeepsCount DEF RLockSub, TypeOK
<1>5. CASE RLockSpin(t)
  BY <1>5, GoKeepsCount DEF RLockSpin, TypeOK
<1>6. CASE AttemptRLockSub(t)
  BY <1>6, GoKeepsCount DEF AttemptRLockSub, TypeOK
<1>7. CASE UpgradeOr(t)
  BY <1>7, GoKeepsCount DEF UpgradeOr, TypeOK
<1>8. CASE UpgradeRelease(t)
  BY <1>8, GoKeepsCount DEF UpgradeRelease, TypeOK
<1>9. CASE UpgradeSpin(t)
  BY <1>9, GoKeepsCount DEF UpgradeSpin, TypeOK
<1>10. CASE UpgradeAdd(t)
  BY <1>10, GoKeepsCount DEF UpgradeAdd, TypeOK
<1>11. CASE UpgradeReOr(t)
  BY <1>11, GoKeepsCount DEF UpgradeReOr, TypeOK
<1>12. CASE UpgradeFlush(t)
  BY <1>12, GoKeepsCount DEF UpgradeFlush, TypeOK
<1>13. CASE Unlock(t)
  BY <1>13, GoKeepsCount DEF Unlock, TypeOK
<1>14. CASE RUnlock(t)
  BY <1>14, GoKeepsCount DEF RUnlock, TypeOK
<1>15. CASE Downgrade(t)
  BY <1>15, GoKeepsCount DEF Downgrade, TypeOK
<1>16. CASE CallLock(t)
  BY <1>16, GoKeepsCount DEF CallLock, TypeOK
<1>17. CASE AttemptLock(t)
  BY <1>17, GoKeepsCount DEF AttemptLock, TypeOK
<1>18. CASE AttemptStrictLock(t)
  BY <1>18, GoKeepsCount DEF AttemptStrictLock, TypeOK
<1>19. CASE CallRLock(t)
  BY <1>19, GoKeepsCount DEF CallRLock, TypeOK
<1>20. CASE AttemptRLock(t)
  BY <1>20, GoKeepsCount DEF AttemptRLock, TypeOK
<1>21. CASE CallUpgrade(t)
  BY <1>21, GoKeepsCount DEF CallUpgrade, TypeOK
<1>22. CASE AttemptUpgrade(t)
  BY <1>22, GoKeepsCount DEF AttemptUpgrade, TypeOK
<1> QED BY <1>1, <1>2, <1>3, <1>4, <1>5, <1>6, <1>7, <1>8, <1>9, <1>10, <1>11, <1>12, <1>13,
           <1>14, <1>15, <1>16, <1>17, <1>18, <1>19, <1>20, <1>21, <1>22 DEF Step, Release, Call
-----------------------------------------------------------------------------
(* The flag follows its owner: it is set by a thread that found it clear   *)
(* and cleared by the thread that owns it.                                 *)
LEMMA GoKeepsFlag ==
  ASSUME TypeOK, FlagExact, NEW t \in Thread, NEW from, NEW to, Go(t, from, to),
         \/ flag' = flag /\ (from \in FlagPc <=> to \in FlagPc)
         \/ ~flag /\ flag' /\ to \in FlagPc
         \/ from \in FlagPc /\ ~flag' /\ to \notin FlagPc
  PROVE  FlagExact'
BY CountedStep DEF TypeOK, FlagExact

LEMMA NextFlag ==
  ASSUME TypeOK, FlagExact, NEW t \in Thread, Step(t) \/ Release(t) \/ Call(t)
  PROVE  FlagExact'
<1>1. CASE LockOr(t)
  BY <1>1, GoKeepsFlag DEF LockOr, TypeOK
<1>2. CASE LockFlush(t)
  BY <1>2, GoKeepsFlag DEF LockFlush, TypeOK
<1>3. CASE RLockAdd(t)
  BY <1>3, GoKeepsFlag DEF RLockAdd, TypeOK
<1>4. CASE RLockSub(t)
  BY <1>4, GoKeepsFlag DEF RLockSub, TypeOK
<1>5. CASE RLockSpin(t)
  BY <1>5, GoKeepsFlag DEF RLockSpin, TypeOK
<1>6. CASE AttemptRLockSub(t)
  BY <1>6, GoKeepsFlag DEF AttemptRLockSub, TypeOK
<1>7. CASE UpgradeOr(t)
  BY <1>7, GoKeepsFlag DEF UpgradeOr, TypeOK
<1>8. CASE UpgradeRelease(t)
  BY <1>8, GoKeepsFlag DEF UpgradeRelease, TypeOK
<1>9. CASE UpgradeSpin(t)
  BY <1>9, GoKeepsFlag DEF UpgradeSpin, TypeOK
<1>10. CASE UpgradeAdd(t)
  BY <1>10, GoKeepsFlag DEF UpgradeAdd, TypeOK
<1>11. CASE UpgradeReOr(t)
  BY <1>11, GoKeepsFlag DEF UpgradeReOr, TypeOK
<1>12. CASE UpgradeFlush(t)
  BY <1>12, GoKeepsFlag DEF UpgradeFlush, TypeOK
<1>13. CASE Unlock(t)
  BY <1>13, GoKeepsFlag DEF Unlock, TypeOK
<1>14. CASE RUnlock(t)
  BY <1>14, GoKeepsFlag DEF RUnlock, TypeOK
<1>15. CASE Downgrade(t)
  BY <1>15, GoKeepsFlag DEF Downgrade, TypeOK
<1>16. CASE CallLock(t)
  BY <1>16, GoKeepsFlag DEF CallLock, TypeOK
<1>17. CASE AttemptLock(t)
  BY <1>17, GoKeepsFlag DEF AttemptLock, TypeOK
<1>18. CASE AttemptStrictLock(t)
  BY <1>18, GoKeepsFlag DEF AttemptStrictLock, TypeOK
<1>19. CASE CallRLock(t)
  BY <1>19, GoKeepsFlag DEF CallRLock, TypeOK
<1>20. CASE AttemptRLock(t)
  BY <1>20, GoKeepsFlag DEF AttemptRLock, TypeOK
<1>21. CASE CallUpgrade(t)
  BY <1>21, GoKeepsFlag DEF CallUpgrade, TypeOK
<1>22. CASE AttemptUpgrade(t)
  BY <1>22, GoKeepsFlag DEF AttemptUpgrade, TypeOK
<1> QED BY <1>1, <1>2, <1>3, <1>4, <1>5, <1>6, <1>7, <1>8, <1>9, <1>10, <1>11, <1>12, <1>13,
           <1>14, <1>15, <1>16, <1>17, <1>18, <1>19, <1>20, <1>21, <1>22 DEF Step, Release, Call
-----------------------------------------------------------------------------
(* A thread starts to read only past a clear flag, which no writer leaves  *)
(* clear, and starts to write only when it owns the flag and nobody else   *)
(* is counted.                                                             *)
LEMMA GoKeepsExclusion ==
  ASSUME TypeOK, FlagExact, MutualExclusion,
         NEW t \in Thread, NEW from, NEW to, Go(t, from, to),
         \/ held'[t] = "none"
         \/ held'[t] = "read" /\ held[t] # "none"
         \/ held'[t] = "read" /\ ~flag
         \/ held'[t] = "write" /\ \A u \in Thread \ {t} : held[u] = "none"
  PROVE  MutualExclusion'
<1>1. \A u \in Thread \ {t} : held'[u] = held[u]
  BY CountedStep DEF held
<1>2. \A u \in Thread : held[u] = "write" => flag
  BY DEF FlagExact, held, Granted
<1>3. \A u \in Thread : held[u] \in {"none", "read", "write"}
  BY DEF held, Granted
<1> QED BY <1>1, <1>2, <1>3 DEF MutualExclusion

(* Whoever flushes the readers and sees 0, or 1 with its own unit in it,   *)
(* is alone.                                                               *)
LEMMA FlushedAlone ==
  ASSUME IInv, NEW t \in Thread, pc[t] \in FlagPc,
         \/ count = 0
         \/ count <= 1 /\ pc[t] \in CountPc
  PROVE  \A u \in Thread \ {t} : held[u] = "none"
<1>1. \A u \in Thread \ {t} : pc[u] \notin CountPc
  BY SmallCount DEF IInv, Counted
<1>2. \A u \in Thread \ {t} : pc[u] \notin FlagPc
  BY DEF IInv, FlagExact
<1> QED BY <1>1, <1>2 DEF held, Granted

LEMMA NextExclusion ==
  ASSUME IInv, NEW t \in Thread, Step(t) \/ Release(t) \/ Call(t)
  PROVE  MutualExclusion'
<1>1. CASE LockOr(t)
  BY <1>1, GoKeepsExclusion, CountedStep DEF LockOr, IInv, held, Granted, TypeOK
<1>2. CASE LockFlush(t)
  BY <1>2, GoKeepsExclusion, FlushedAlone DEF LockFlush, IInv, Go, held, Granted, TypeOK
<1>3. CASE RLockAdd(t)
  BY <1>3, GoKeepsExclusion, CountedStep DEF RLockAdd, IInv, held, Granted, TypeOK
<1>4. CASE RLockSub(t)
  BY <1>4, GoKeepsExclusion, CountedStep DEF RLockSub, IInv, held, Granted, TypeOK
<1>5. CASE RLockSpin(t)
  BY <1>5, GoKeepsExclusion, CountedStep DEF RLockSpin, IInv, held, Granted, TypeOK
<1>6. CASE AttemptRLockSub(t)
  BY <1>6, GoKeepsExclusion, CountedStep DEF AttemptRLockSub, IInv, held, Granted, TypeOK
<1>7. CASE UpgradeOr(t)
  BY <1>7, GoKeepsExclusion, CountedStep DEF UpgradeOr, IInv, held, Granted, TypeOK
<1>8. CASE UpgradeRelease(t)
  BY <1>8, GoKeepsExclusion, CountedStep DEF UpgradeRelease, IInv, held, Granted, TypeOK
<1>9. CASE UpgradeSpin(t)
  BY <1>9, GoKeepsExclusion, CountedStep DEF UpgradeSpin, IInv, held, Granted, TypeOK
<1>10. CASE UpgradeAdd(t)
  BY <1>10, GoKeepsExclusion, CountedStep DEF UpgradeAdd, IInv, held, Granted, TypeOK
<1>11. CASE UpgradeReOr(t)
  BY <1>11, GoKeepsExclusion, CountedStep DEF UpgradeReOr, IInv, held, Granted, TypeOK
<1>12. CASE UpgradeFlush(t)
  BY <1>12, GoKeepsExclusion, FlushedAlone DEF UpgradeFlush, IInv, Go, held, Granted, TypeOK
<1>13. CASE Unlock(t)
  BY <1>13, GoKeepsExclusion, CountedStep DEF Unlock, IInv, held, Granted, TypeOK
<1>14. CASE RUnlock(t)
  BY <1>14, GoKeepsExclusion, CountedStep DEF RUnlock, IInv, held, Granted, TypeOK
<1>15. CASE Downgrade(t)
  BY <1>15, GoKeepsExclusion, CountedStep DEF Downgrade, IInv, held, Granted, TypeOK
<1>16. CASE CallLock(t)
  BY <1>16, GoKeepsExclusion, CountedStep DEF CallLock, IInv, held, Granted, TypeOK
<1>17. CASE AttemptLock(t)
  BY <1>17, GoKeepsExclusion, CountedStep DEF AttemptLock, IInv, held, Granted, TypeOK
<1>18. CASE AttemptStrictLock(t)
  <2>1. Counted = {} /\ \A u \in Thread : pc[u] \notin FlagPc
    BY <1>18, SmallCount DEF AttemptStrictLock, IInv, FlagExact
  <2>2. \A u \in Thread : held[u] = "none"
    BY <2>1 DEF held, Granted, Counted
  <2> QED BY <1>18, <2>2, GoKeepsExclusion, CountedStep DEF AttemptStrictLock, IInv, held, Granted
<1>19. CASE CallRLock(t)
  BY <1>19, GoKeepsExclusion, CountedStep DEF CallRLock, IInv, held, Granted, TypeOK
<1>20. CASE AttemptRLock(t)
  BY <1>20, GoKeepsExclusion, CountedStep DEF AttemptRLock, IInv, held, Granted, TypeOK
<1>21. CASE CallUpgrade(t)
  BY <1>21, GoKeepsExclusion, CountedStep DEF CallUpgrade, IInv, held, Granted, TypeOK
<1>22. CASE AttemptUpgrade(t)
  BY <1>22, GoKeepsExclusion, CountedStep DEF AttemptUpgrade, IInv, held, Granted, TypeOK
<1> QED BY <1>1, <1>2, <1>3, <1>4, <1>5, <1>6, <1>7, <1>8, <1>9, <1>10, <1>11, <1>12, <1>13,
           <1>14, <1>15, <1>16, <1>17, <1>18, <1>19, <1>20, <1>21, <1>22 DEF Step, Release, Call
-----------------------------------------------------------------------------
LEMMA NextIInv == IInv /\ [Next]_vars => IInv'
<1> SUFFICES ASSUME IInv, [Next]_vars PROVE IInv'
  OBVIOUS
<1>1. ASSUME NEW t \in Thread, Step(t) \/ Release(t) \/ Call(t)
      PROVE  IInv'
  BY <1>1, NextCount, NextFlag, NextExclusion DEF IInv
<1>2. CASE UNCHANGED vars
  BY <1>2 DEF vars, IInv, TypeOK, CountExact, Counted, FlagExact,
              MutualExclusion, held, Granted
<1> QED BY <1>1, <1>2 DEF Next

(* The invariant holds in every reachable state, for any number of         *)
(* threads: types, exact reader count, owned flag, exclusion.              *)
THEOREM Invariant == Spec => []IInv
BY InitIInv, NextIInv, PTL DEF Spec

(* The state of the lock is always well typed (RWLock.h:164).          *)
THEOREM TypeCorrect == Spec => []TypeOK
BY Invariant, PTL DEF IInv

(* A writer is alone, by Lock and by Upgrade (RWLock.h:37-66, 112-139).    *)
THEOREM Exclusion == Spec => []MutualExclusion
BY Invariant, PTL DEF IInv

(* The word accounts for exactly the threads that use the lock: the count  *)
(* for the readers, WFLAG for its one owner (RWLock.h:69-108).             *)
THEOREM WordAccounts == Spec => []WordExact
BY Invariant, PTL DEF IInv, WordExact
-----------------------------------------------------------------------------
(* Refinement: `held' and `claim' are a behaviour of RWLockSpec.           *)

LEMMA ClaimIsOwner ==
  ASSUME FlagExact
  PROVE  /\ claim = NoThread <=> ~flag
         /\ \A t \in Thread : pc[t] \in FlagPc <=> claim = t
         /\ \A t \in Thread : pc[t] \in FlagPc => flag
BY ThreadAssumption DEF FlagExact, claim

LEMMA NextClaimIsOwner ==
  ASSUME FlagExact'
  PROVE  /\ claim' = NoThread <=> ~flag'
         /\ \A t \in Thread : pc'[t] \in FlagPc <=> claim' = t
         /\ \A t \in Thread : pc'[t] \in FlagPc => flag'
BY ThreadAssumption DEF FlagExact, claim

LEMMA HeldStep ==
  ASSUME TypeOK, NEW t \in Thread, NEW from, NEW to, Go(t, from, to)
  PROVE  /\ held[t] = Granted(from)
         /\ held' = [held EXCEPT ![t] = Granted(to)]
         /\ Granted(to) = Granted(from) => held' = held
BY CountedStep DEF held

\* A step that moves no flag leaves the claim alone.
LEMMA ClaimKept ==
  ASSUME TypeOK, FlagExact, FlagExact', NEW t \in Thread, NEW from, NEW to,
         Go(t, from, to), flag' = flag, from \in FlagPc <=> to \in FlagPc
  PROVE  claim' = claim
<1>1. CASE ~flag
  BY <1>1, ClaimIsOwner, NextClaimIsOwner
<1>2. CASE flag
  <2>1. PICK u \in Thread : pc[u] \in FlagPc
    BY <1>2 DEF FlagExact
  <2>2. pc'[u] \in FlagPc
    BY <2>1, CountedStep
  <2> QED BY <2>1, <2>2, ClaimIsOwner, NextClaimIsOwner
<1> QED BY <1>1, <1>2 DEF TypeOK

\* If it grants nothing either, it is invisible.
LEMMA SilentStep ==
  ASSUME TypeOK, FlagExact, FlagExact', NEW t \in Thread, NEW from, NEW to,
         Go(t, from, to), Granted(to) = Granted(from), flag' = flag,
         from \in FlagPc <=> to \in FlagPc
  PROVE  UNCHANGED Abstract!vars
<1>1. held' = held
  BY HeldStep DEF held
<1> QED BY <1>1, ClaimKept DEF Abstract!vars

LEMMA StepRefines ==
  ASSUME IInv, IInv', NEW t \in Thread, Step(t) \/ Release(t) \/ Call(t)
  PROVE  Abstract!Next \/ UNCHANGED Abstract!vars
<1> USE DEF IInv, Granted
<1>1. CASE LockOr(t)
  <2>1. Abstract!Claim(t)
    BY <1>1, HeldStep, CountedStep, ClaimIsOwner, NextClaimIsOwner, ClaimKept
    DEF LockOr, Abstract!Claim
  <2> QED BY <2>1 DEF Abstract!Next
<1>2. CASE LockFlush(t)
  <2>1. Abstract!OthersHoldNothing(t)
    BY <1>2, FlushedAlone DEF LockFlush, Go, Abstract!OthersHoldNothing
  <2>2. Abstract!Enter(t)
    BY <1>2, <2>1, HeldStep, CountedStep, ClaimIsOwner, NextClaimIsOwner, ClaimKept
    DEF LockFlush, Abstract!Enter
  <2> QED BY <2>2 DEF Abstract!Next
<1>3. CASE RLockAdd(t)
  <2>1. CASE flag
    BY <1>3, <2>1, SilentStep DEF RLockAdd
  <2>2. CASE ~flag
    <3>1. Abstract!AcquireRead(t)
      BY <1>3, <2>2, HeldStep, CountedStep, ClaimIsOwner, NextClaimIsOwner, ClaimKept
      DEF RLockAdd, Abstract!AcquireRead
    <3> QED BY <3>1 DEF Abstract!Next
  <2> QED BY <2>1, <2>2
<1>4. CASE RLockSub(t)
  BY <1>4, SilentStep DEF RLockSub
<1>5. CASE RLockSpin(t)
  BY <1>5, SilentStep DEF RLockSpin
<1>6. CASE AttemptRLockSub(t)
  BY <1>6, SilentStep DEF AttemptRLockSub
<1>7. CASE UpgradeOr(t)
  <2>1. CASE flag
    <3>1. Abstract!ReleaseRead(t)
      BY <1>7, <2>1, HeldStep, CountedStep, ClaimIsOwner, NextClaimIsOwner, ClaimKept
      DEF UpgradeOr, Abstract!ReleaseRead
    <3> QED BY <3>1 DEF Abstract!Next
  <2>2. CASE ~flag
    <3>1. Abstract!Claim(t)
      BY <1>7, <2>2, HeldStep, CountedStep, ClaimIsOwner, NextClaimIsOwner, ClaimKept
      DEF UpgradeOr, Abstract!Claim
    <3> QED BY <3>1 DEF Abstract!Next
  <2> QED BY <2>1, <2>2
<1>8. CASE UpgradeRelease(t)
  BY <1>8, SilentStep DEF UpgradeRelease
<1>9. CASE UpgradeSpin(t)
  BY <1>9, SilentStep DEF UpgradeSpin
<1>10. CASE UpgradeAdd(t)
  BY <1>10, SilentStep DEF UpgradeAdd
<1>11. CASE UpgradeReOr(t)
  <2>1. CASE flag
    BY <1>11, <2>1, SilentStep DEF UpgradeReOr
  <2>2. CASE ~flag
    <3>1. Abstract!Claim(t)
      BY <1>11, <2>2, HeldStep, CountedStep, ClaimIsOwner, NextClaimIsOwner, ClaimKept
      DEF UpgradeReOr, Abstract!Claim
    <3> QED BY <3>1 DEF Abstract!Next
  <2> QED BY <2>1, <2>2
<1>12. CASE UpgradeFlush(t)
  <2>1. Abstract!OthersHoldNothing(t)
    BY <1>12, FlushedAlone DEF UpgradeFlush, Go, Abstract!OthersHoldNothing
  <2>2. Abstract!Enter(t)
    BY <1>12, <2>1, HeldStep, CountedStep, ClaimIsOwner, NextClaimIsOwner, ClaimKept
    DEF UpgradeFlush, Abstract!Enter
  <2> QED BY <2>2 DEF Abstract!Next
<1>13. CASE Unlock(t)
  <2>1. Abstract!Leave(t, "none")
    BY <1>13, HeldStep, CountedStep, ClaimIsOwner, NextClaimIsOwner, ClaimKept
    DEF Unlock, Abstract!Leave
  <2> QED BY <2>1 DEF Abstract!Next
<1>14. CASE RUnlock(t)
  <2>1. Abstract!ReleaseRead(t)
    BY <1>14, HeldStep, CountedStep, ClaimIsOwner, NextClaimIsOwner, ClaimKept
    DEF RUnlock, Abstract!ReleaseRead
  <2> QED BY <2>1 DEF Abstract!Next
<1>15. CASE Downgrade(t)
  <2>1. Abstract!Leave(t, "read")
    BY <1>15, HeldStep, CountedStep, ClaimIsOwner, NextClaimIsOwner, ClaimKept
    DEF Downgrade, Abstract!Leave
  <2> QED BY <2>1 DEF Abstract!Next
<1>16. CASE CallLock(t)
  BY <1>16, SilentStep DEF CallLock
<1>17. CASE AttemptLock(t)
  <2>1. Abstract!Claim(t)
    BY <1>17, HeldStep, CountedStep, ClaimIsOwner, NextClaimIsOwner, ClaimKept
    DEF AttemptLock, Abstract!Claim
  <2> QED BY <2>1 DEF Abstract!Next
<1>18. CASE AttemptStrictLock(t)
  <2>1. Counted = {} /\ \A u \in Thread : pc[u] \notin FlagPc
    BY <1>18, SmallCount DEF AttemptStrictLock, FlagExact
  <2>2. \A u \in Thread : held[u] = "none"
    BY <2>1 DEF held, Counted
  <2>3. Abstract!StrictEnter(t)
    BY <1>18, <2>2, HeldStep, CountedStep, ClaimIsOwner, NextClaimIsOwner, ClaimKept
    DEF AttemptStrictLock, Abstract!StrictEnter
  <2> QED BY <2>3 DEF Abstract!Next
<1>19. CASE CallRLock(t)
  BY <1>19, SilentStep DEF CallRLock
<1>20. CASE AttemptRLock(t)
  <2>1. CASE flag
    BY <1>20, <2>1, SilentStep DEF AttemptRLock
  <2>2. CASE ~flag
    <3>1. Abstract!AcquireRead(t)
      BY <1>20, <2>2, HeldStep, CountedStep, ClaimIsOwner, NextClaimIsOwner, ClaimKept
      DEF AttemptRLock, Abstract!AcquireRead
    <3> QED BY <3>1 DEF Abstract!Next
  <2> QED BY <2>1, <2>2
<1>21. CASE CallUpgrade(t)
  BY <1>21, SilentStep DEF CallUpgrade
<1>22. CASE AttemptUpgrade(t)
  <2>1. Abstract!Claim(t)
    BY <1>22, HeldStep, CountedStep, ClaimIsOwner, NextClaimIsOwner, ClaimKept
    DEF AttemptUpgrade, Abstract!Claim
  <2> QED BY <2>1 DEF Abstract!Next
<1> QED BY <1>1, <1>2, <1>3, <1>4, <1>5, <1>6, <1>7, <1>8, <1>9, <1>10, <1>11, <1>12, <1>13,
           <1>14, <1>15, <1>16, <1>17, <1>18, <1>19, <1>20, <1>21, <1>22 DEF Step, Release, Call

(* The word-level lock implements the abstract one, for every set of       *)
(* threads: RWLock.h:37-148 against the promise its comments make.         *)
THEOREM Refinement == Spec => AbstractSpec
<1>1. Init => Abstract!Init
  BY DEF Init, Abstract!Init, held, claim, Granted
<1>2. IInv /\ IInv' /\ [Next]_vars => [Abstract!Next]_(Abstract!vars)
  <2>1. ASSUME IInv, IInv', NEW t \in Thread, Step(t) \/ Release(t) \/ Call(t)
        PROVE  Abstract!Next \/ UNCHANGED Abstract!vars
    BY <2>1, StepRefines
  <2>2. UNCHANGED vars => UNCHANGED Abstract!vars
    BY DEF vars, Abstract!vars, held, claim
  <2> QED BY <2>1, <2>2 DEF Next
<1> QED BY <1>1, <1>2, Invariant, PTL DEF Spec, AbstractSpec, Abstract!Spec
-----------------------------------------------------------------------------
(* Snapshots: who reads has not been overtaken.                            *)

Unspoilt == \A t \in Thread : held[t] = "read" => t \notin overtaken

\* A writer that gets in while t reads, or beside t as a writer, breaks exclusion.
LEMMA NobodyGetsIn ==
  ASSUME IInv', NEW t \in Thread, held'[t] # "none"
  PROVE  \A u \in Thread \ {t} : ~BeginsToWrite(u)
BY DEF IInv, MutualExclusion, BeginsToWrite

LEMMA ObservedStep == SnapshotNext => \E t \in Thread : Step(t) \/ Release(t) \/ Call(t)
BY DEF SnapshotNext, Observed

LEMMA OvertakenStep ==
  ASSUME SnapshotNext, NEW t \in Thread
  PROVE  t \in overtaken' <=> \/ t \in overtaken /\ ~BeginsToRead(t)
                              \/ \E u \in Thread \ {t} : BeginsToWrite(u)
BY DEF SnapshotNext, Observed

\* A thread reads that did not before only by a step that begins a reading.
LEMMA ReadingBegins ==
  ASSUME TypeOK, NEW t \in Thread, NEW u \in Thread, Step(u) \/ Release(u) \/ Call(u),
         held[t] # "read", held'[t] = "read"
  PROVE  BeginsToRead(t)
<1>1. pc'[t] \in {"reading", "up_or", "up_flush", "aup_flush"}
      /\ pc[t] \notin {"reading", "up_or", "up_flush", "aup_flush"}
  BY DEF held, Granted
<1>2. PICK from, to : Go(u, from, to) /\ (to \in {"up_or", "aup_flush"} => from = "reading")
                                     /\ (to = "up_flush" => from = "up_or")
  BY DEF Step, Release, Call, LockOr, LockFlush, RLockAdd, RLockSub, RLockSpin,
         AttemptRLockSub, UpgradeOr, UpgradeRelease, UpgradeSpin, UpgradeAdd,
         UpgradeReOr, UpgradeFlush, Unlock, RUnlock, Downgrade, CallLock, AttemptLock,
         AttemptStrictLock, CallRLock, AttemptRLock, CallUpgrade, AttemptUpgrade
<1>3. t = u /\ pc[t] = from /\ pc'[t] = to
  BY <1>1, <1>2 DEF Go, TypeOK
<1> QED BY <1>1, <1>2, <1>3 DEF BeginsToRead

LEMMA UnspoiltStep ==
  IInv /\ IInv' /\ Unspoilt /\ [SnapshotNext]_snapshotVars => Unspoilt'
<1> SUFFICES ASSUME IInv, IInv', Unspoilt, [SnapshotNext]_snapshotVars,
                    NEW t \in Thread, held'[t] = "read"
             PROVE  t \notin overtaken'
  BY DEF Unspoilt
<1>1. CASE SnapshotNext
  <2>1. held[t] # "read" => BeginsToRead(t)
    BY <1>1, ObservedStep, ReadingBegins DEF IInv
  <2> QED BY <1>1, <2>1, OvertakenStep, NobodyGetsIn DEF Unspoilt
<1>2. CASE UNCHANGED snapshotVars
  BY <1>2 DEF snapshotVars, Unspoilt, held, Granted
<1> QED BY <1>1, <1>2

LEMMA UpgradesUnspoilt ==
  ASSUME IInv, IInv', Unspoilt, SnapshotNext, NEW t \in Thread,
         pc[t] = "aup_flush", pc'[t] = "upgraded"
  PROVE  t \notin overtaken'
<1>1. held[t] = "read" /\ held'[t] = "write"
  BY DEF held, Granted
<1> QED BY <1>1, OvertakenStep, NobodyGetsIn DEF Unspoilt

(* What a thread learnt since it began to read is true while it reads, and *)
(* when AttemptUpgrade has made it the writer (RWLock.h:77-102, 129-139),  *)
(* for any number of threads.                                              *)
THEOREM SnapshotsHold == SnapshotSpec => SnapshotStable
<1> DEFINE Keeps == \A t \in Thread :
              /\ held[t] = "read" => t \notin overtaken
              /\ pc[t] = "aup_flush" /\ pc'[t] = "upgraded" => t \notin overtaken'
<1>1. SnapshotInit => Init /\ Unspoilt
  BY DEF SnapshotInit, Unspoilt
<1>2. [SnapshotNext]_snapshotVars => [Next]_vars
  BY ObservedStep DEF Next, snapshotVars, vars
<1>3. SnapshotSpec => []IInv
  BY <1>1, <1>2, InitIInv, NextIInv, PTL DEF SnapshotSpec
<1>4. IInv /\ IInv' /\ Unspoilt /\ [SnapshotNext]_snapshotVars => [Keeps]_snapshotVars
  <2> SUFFICES ASSUME IInv, IInv', Unspoilt, SnapshotNext PROVE Keeps
    OBVIOUS
  <2> QED BY UpgradesUnspoilt DEF Unspoilt
<1> HIDE DEF Keeps
<1>5. SnapshotSpec => [][Keeps]_snapshotVars
  BY <1>1, <1>3, <1>4, UnspoiltStep, PTL DEF SnapshotSpec
<1> QED BY <1>5 DEF Keeps, SnapshotStable
=============================================================================
