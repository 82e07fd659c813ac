-------------------------- MODULE AllocatorProofs ---------------------------
(***************************************************************************)
(* Proofs about GreedyAlloc and CacheAlloc for any threads, sizes and      *)
(* bounds.  Of GreedyAlloc: memory in use does not overlap and lies in a   *)
(* chunk that has not been freed.  Of CacheAlloc: every block has one      *)
(* owner or is on one stack, which is a list, and is as large as asked.    *)
(***************************************************************************)
EXTENDS MCAllocators, FreeLists, SequenceTheorems

Reading == {"add", "test", "attempt", "flush", "runlock", "carve"}
Writing == {"grow", "downgrade", "c_reset", "c_free", "c_chunk", "c_unlock"}
Claiming == {"flush", "c_enter"} \cup Writing

\* The place of a thread says what it holds, and a writer is alone.
LockInv ==
  /\ \A t \in Thread : held[t] = IF pc[t] \in Reading THEN "read"
                                 ELSE IF pc[t] \in Writing THEN "write" ELSE "none"
  /\ \A t \in Thread : claim = t <=> pc[t] \in Claiming
  /\ \A t \in Thread : pc[t] \in Writing => Lock!OthersHoldNothing(t)

\* Clear empties the list before it adds a chunk again.
ListInv ==
  /\ root >= 1 /\ IsFiniteSet(live)
  /\ oldest = root + 1 => \E t \in Thread : pc[t] = "c_chunk"
  /\ \A t \in Thread : /\ pc[t] \in {"c_free", "c_chunk"} => live = {}
                       /\ pc[t] = "c_free" => oldest <= root

\* What a thread has added to _curpos is its own as long as it reads: nobody
\* else's offset, and no allocation of this chunk, reaches into it.
Holds(t) == pc[t] \in {"test", "carve"}
Apart(from, upto, start, end) == upto <= start \/ end <= from
OffsetInv ==
  /\ \A t \in Thread : /\ Holds(t) => rend(t) <= curpos
                       /\ pc[t] = "carve" => rend(t) < size[root]
                       /\ pc[t] \in {"attempt", "flush", "grow"} => rend(t) >= size[root]
  /\ \A t, u \in Thread : t # u /\ Holds(t) /\ Holds(u) => Apart(r[t], rend(t), r[u], rend(u))

LiveInv ==
  /\ \A a \in live : a.chunk = root =>
       /\ a.upto <= curpos
       /\ \A t \in Thread : Holds(t) => Apart(a.from, a.upto, r[t], rend(t))
  /\ AllocationsSound

\* The offsets are exclusive only because the chunk cannot change between the add
\* and the use, which takes the lock; and the lock is what the places say only
\* together with the types.
IInv == TypeOK /\ LockInv /\ ListInv /\ OffsetInv /\ LiveInv
-----------------------------------------------------------------------------
LEMMA InitInvariant == ASSUME Assumptions PROVE Init => IInv
<1> SUFFICES ASSUME Init PROVE IInv
  OBVIOUS
<1>1. TypeOK
  <2>1. /\ size \in Seq(Nat) /\ Len(size) = 1
    BY DEF Init, Assumptions
  <2> QED BY <2>1 DEF Init, TypeOK, Labels, Assumptions, Lock!Init, Lock!TypeOK
<1>2. LockInv
  BY DEF Init, Assumptions, LockInv, Lock!Init, Reading, Writing, Claiming
<1>3. ListInv
  BY FS_EmptySet DEF Init, ListInv
<1>4. OffsetInv /\ LiveInv
  BY DEF Init, OffsetInv, LiveInv, Holds, AllocationsSound
<1> QED BY <1>1, <1>2, <1>3, <1>4 DEF IInv

\* The lengths the code computes are numbers.
LEMMA AlignSizeType == ASSUME Assumptions, NEW bytes \in Sizes PROVE AlignSize(bytes, Align) \in Nat
<1> DEFINE q == bytes \div Align + (IF bytes % Align # 0 THEN 1 ELSE 0)
<1>1. bytes \in Nat /\ Align \in Nat /\ Align > 0
  BY DEF Assumptions
<1>2. bytes \div Align \in Nat
  BY <1>1
<1>3. q \in Nat
  BY <1>2
<1>4. \A a, b \in Nat : a * b \in Nat
  OBVIOUS
<1> QED BY <1>1, <1>3, <1>4 DEF AlignSize

LEMMA FbNextType == ASSUME NEW x \in Nat PROVE FbNext(x) \in Nat
BY DEF FbNext
-----------------------------------------------------------------------------
\* A step moves one thread, and tells where to.
LEMMA GoStep ==
  ASSUME TypeOK, NEW t \in Thread, NEW from, NEW to \in Labels, Go(t, from, to)
  PROVE  /\ pc[t] = from /\ pc'[t] = to /\ pc' \in [Thread -> Labels]
         /\ \A u \in Thread \ {t} : pc'[u] = pc[u]
BY DEF TypeOK, Go

\* A new chunk leaves the others their sizes.
LEMMA NewChunk ==
  ASSUME TypeOK, NEW n \in Nat, root' = root + 1, size' = Append(size, n)
  PROVE  /\ size' \in Seq(Nat) /\ root' = Len(size') /\ size'[root'] = n
         /\ \A c \in 1..root : size'[c] = size[c]
BY AppendProperties DEF TypeOK

LEMMA TypeStep ==
  ASSUME Assumptions, IInv, [Next]_vars
  PROVE  TypeOK'
<1> USE DEF IInv
<1> DEFINE Typed == [nth : Nat, chunk : 1..root, from : Nat, upto : Nat]
<1>1. ASSUME NEW t \in Thread, NEW bytes \in Sizes, Alloc(t, bytes) PROVE TypeOK'
  <2>1. AlignSize(bytes, Align) \in Nat
    BY AlignSizeType
  <2>2. pc' \in [Thread -> Labels] /\ want' \in [Thread -> Nat]
    BY <1>1, <2>1, GoStep DEF TypeOK, Alloc, Labels
  <2>3. calls' \in 0..MaxCalls
    BY <1>1 DEF TypeOK, Alloc, Assumptions
  <2>4. UNCHANGED <<held, claim, root, oldest, size, curpos, r, live, clears>>
    BY <1>1 DEF Alloc, lockVars, chunkVars
  <2> QED BY <2>2, <2>3, <2>4 DEF TypeOK, Lock!TypeOK
<1>2. ASSUME NEW t \in Thread, RLock(t) PROVE TypeOK'
  BY <1>2, GoStep DEF TypeOK, Lock!TypeOK, RLock, Lock!AcquireRead, countVars, chunkVars, Labels
<1>3. ASSUME NEW t \in Thread, Add(t) PROVE TypeOK'
  <2>1. pc' \in [Thread -> Labels]
    BY <1>3, GoStep DEF Add, Labels
  <2>2. r' \in [Thread -> Nat] /\ curpos' \in Nat
    BY <1>3 DEF Add, TypeOK
  <2> QED BY <1>3, <2>1, <2>2 DEF TypeOK, Lock!TypeOK, Add, lockVars, countVars, chunkVars
<1>4. ASSUME NEW t \in Thread, Test(t) PROVE TypeOK'
  BY <1>4, GoStep DEF TypeOK, Lock!TypeOK, Test, lockVars, countVars, chunkVars, Labels
<1>5. ASSUME NEW t \in Thread, AttemptUpgrade(t) PROVE TypeOK'
  BY <1>5, GoStep DEF TypeOK, Lock!TypeOK, AttemptUpgrade, Lock!Claim, lockVars, countVars,
     chunkVars, Labels
<1>6. ASSUME NEW t \in Thread, Flush(t) PROVE TypeOK'
  BY <1>6, GoStep DEF TypeOK, Lock!TypeOK, Flush, Lock!Enter, countVars, chunkVars, Labels
<1>7. ASSUME NEW t \in Thread, Grow(t) PROVE TypeOK'
  <2>1. pc' \in [Thread -> Labels]
    BY <1>7, GoStep DEF Grow, Labels
  <2>2. rend(t) \in Nat
    BY DEF TypeOK, rend
  <2>3. FbNext(rend(t)) \in Nat
    BY <2>2, FbNextType
  <2>4. CASE rend(t) >= size[root]
    <3>1. root' = root + 1 /\ size' = Append(size, FbNext(rend(t))) /\ UNCHANGED oldest
      BY <1>7, <2>4 DEF Grow, AddChunk
    <3>2. size' \in Seq(Nat) /\ root' = Len(size')
      BY <2>3, <3>1, NewChunk
    <3> QED BY <1>7, <2>1, <2>4, <3>1, <3>2 DEF TypeOK, Lock!TypeOK, Grow, lockVars, countVars
  <2>5. CASE ~(rend(t) >= size[root])
    BY <1>7, <2>1, <2>5 DEF TypeOK, Lock!TypeOK, Grow, lockVars, countVars, chunkVars
  <2> QED BY <2>4, <2>5
<1>8. ASSUME NEW t \in Thread, Downgrade(t) PROVE TypeOK'
  BY <1>8, GoStep DEF TypeOK, Lock!TypeOK, Downgrade, Lock!Leave, countVars, chunkVars, Labels
<1>9. ASSUME NEW t \in Thread, Retry(t) PROVE TypeOK'
  BY <1>9, GoStep DEF TypeOK, Lock!TypeOK, Retry, Lock!ReleaseRead, countVars, chunkVars, Labels
<1>10. ASSUME NEW t \in Thread, Carve(t) PROVE TypeOK'
  <2>1. pc' \in [Thread -> Labels]
    BY <1>10, GoStep DEF Carve, Labels
  <2>2. Cardinality(live) \in Nat
    BY FS_CardinalityType DEF ListInv
  <2>3. live' \subseteq Typed
    BY <1>10, <2>2 DEF Carve, TypeOK, rend, ListInv
  <2> QED BY <1>10, <2>1, <2>3 DEF TypeOK, Lock!TypeOK, Carve, Lock!ReleaseRead, countVars,
             chunkVars
<1>11. ASSUME NEW t \in Thread, Clear(t) PROVE TypeOK'
  BY <1>11, GoStep DEF TypeOK, Lock!TypeOK, Clear, lockVars, chunkVars, Labels, Assumptions
<1>12. ASSUME NEW t \in Thread, ClearLock(t) PROVE TypeOK'
  BY <1>12, GoStep DEF TypeOK, Lock!TypeOK, ClearLock, Lock!Claim, countVars, chunkVars, Labels
<1>13. ASSUME NEW t \in Thread, ClearEnter(t) PROVE TypeOK'
  BY <1>13, GoStep DEF TypeOK, Lock!TypeOK, ClearEnter, Lock!Enter, countVars, chunkVars, Labels
<1>14. ASSUME NEW t \in Thread, ClearReset(t) PROVE TypeOK'
  BY <1>14, GoStep DEF TypeOK, Lock!TypeOK, ClearReset, lockVars, countVars, chunkVars, Labels
<1>15. ASSUME NEW t \in Thread, ClearFree(t) PROVE TypeOK'
  <2>1. pc' \in [Thread -> Labels] /\ oldest \in 1..root
    BY <1>15, GoStep DEF ClearFree, Labels, Go, TypeOK, ListInv
  <2>2. size[oldest] \in Nat
    BY <2>1 DEF TypeOK
  <2>3. want' \in [Thread -> Nat]
    BY <1>15, <2>2 DEF ClearFree, TypeOK
  <2>4. oldest' \in 1..root' + 1
    BY <1>15, <2>1 DEF ClearFree, TypeOK
  <2> QED BY <1>15, <2>1, <2>3, <2>4 DEF TypeOK, Lock!TypeOK, ClearFree, lockVars, countVars
<1>16. ASSUME NEW t \in Thread, ClearChunk(t) PROVE TypeOK'
  <2>1. pc' \in [Thread -> Labels] /\ want[t] \in Nat /\ live = {}
    BY <1>16, GoStep DEF ClearChunk, Labels, Go, TypeOK, ListInv
  <2>2. size' \in Seq(Nat) /\ root' = Len(size')
    BY <1>16, <2>1, NewChunk DEF ClearChunk
  <2>3. live' = {} /\ oldest' \in 1..root' + 1
    BY <1>16, <2>1 DEF ClearChunk, TypeOK
  <2>4. want' \in [Thread -> Nat]
    BY <1>16 DEF ClearChunk, TypeOK
  <2> QED BY <1>16, <2>1, <2>2, <2>3, <2>4 DEF TypeOK, Lock!TypeOK, ClearChunk, lockVars, countVars
<1>17. ASSUME NEW t \in Thread, ClearUnlock(t) PROVE TypeOK'
  BY <1>17, GoStep DEF TypeOK, Lock!TypeOK, ClearUnlock, Lock!Leave, countVars, chunkVars, Labels
<1>18. CASE UNCHANGED vars
  BY <1>18 DEF TypeOK, Lock!TypeOK, vars, lockVars, chunkVars, countVars
<1> QED BY <1>1, <1>2, <1>3, <1>4, <1>5, <1>6, <1>7, <1>8, <1>9, <1>10, <1>11, <1>12, <1>13,
           <1>14, <1>15, <1>16, <1>17, <1>18 DEF Next, Step, Terminated

\* The lock is what the places say after every step.
LEMMA LockStep ==
  ASSUME Assumptions, IInv, [Next]_vars
  PROVE  LockInv'
<1> USE DEF IInv
<1> USE DEF LockInv, Reading, Writing, Claiming, Lock!OthersHoldNothing
<1>0. /\ held \in [Thread -> {"none", "read", "write"}] /\ claim \in Thread \cup {NoThread}
      /\ pc \in [Thread -> Labels] /\ NoThread \notin Thread
  BY DEF TypeOK, Lock!TypeOK, Assumptions
<1>1. ASSUME NEW t \in Thread, NEW bytes \in Sizes, Alloc(t, bytes) PROVE LockInv'
  BY <1>1, <1>0, GoStep DEF Labels, Alloc, lockVars
<1>2. ASSUME NEW t \in Thread, RLock(t) PROVE LockInv'
  BY <1>2, <1>0, GoStep DEF Labels, RLock, Lock!AcquireRead
<1>3. ASSUME NEW t \in Thread, Add(t) PROVE LockInv'
  BY <1>3, <1>0, GoStep DEF Labels, Add, lockVars
<1>4. ASSUME NEW t \in Thread, Test(t) PROVE LockInv'
  BY <1>4, <1>0, GoStep DEF Labels, Test, lockVars
<1>5. ASSUME NEW t \in Thread, AttemptUpgrade(t) PROVE LockInv'
  BY <1>5, <1>0, GoStep DEF Labels, AttemptUpgrade, Lock!Claim, lockVars
<1>6. ASSUME NEW t \in Thread, Flush(t) PROVE LockInv'
  BY <1>6, <1>0, GoStep DEF Labels, Flush, Lock!Enter
<1>7. ASSUME NEW t \in Thread, Grow(t) PROVE LockInv'
  BY <1>7, <1>0, GoStep DEF Labels, Grow, lockVars
<1>8. ASSUME NEW t \in Thread, Downgrade(t) PROVE LockInv'
  BY <1>8, <1>0, GoStep DEF Labels, Downgrade, Lock!Leave
<1>9. ASSUME NEW t \in Thread, Retry(t) PROVE LockInv'
  BY <1>9, <1>0, GoStep DEF Labels, Retry, Lock!ReleaseRead
<1>10. ASSUME NEW t \in Thread, Carve(t) PROVE LockInv'
  BY <1>10, <1>0, GoStep DEF Labels, Carve, Lock!ReleaseRead
<1>11. ASSUME NEW t \in Thread, Clear(t) PROVE LockInv'
  BY <1>11, <1>0, GoStep DEF Labels, Clear, lockVars
<1>12. ASSUME NEW t \in Thread, ClearLock(t) PROVE LockInv'
  BY <1>12, <1>0, GoStep DEF Labels, ClearLock, Lock!Claim
<1>13. ASSUME NEW t \in Thread, ClearEnter(t) PROVE LockInv'
  BY <1>13, <1>0, GoStep DEF Labels, ClearEnter, Lock!Enter
<1>14. ASSUME NEW t \in Thread, ClearReset(t) PROVE LockInv'
  BY <1>14, <1>0, GoStep DEF Labels, ClearReset, lockVars
<1>15. ASSUME NEW t \in Thread, ClearFree(t) PROVE LockInv'
  BY <1>15, <1>0, GoStep DEF Labels, ClearFree, lockVars
<1>16. ASSUME NEW t \in Thread, ClearChunk(t) PROVE LockInv'
  BY <1>16, <1>0, GoStep DEF Labels, ClearChunk, lockVars
<1>17. ASSUME NEW t \in Thread, ClearUnlock(t) PROVE LockInv'
  BY <1>17, <1>0, GoStep DEF Labels, ClearUnlock, Lock!Leave
<1>18. CASE UNCHANGED vars
  BY <1>18 DEF vars, lockVars
<1> QED BY <1>1, <1>2, <1>3, <1>4, <1>5, <1>6, <1>7, <1>8, <1>9, <1>10, <1>11, <1>12, <1>13,
           <1>14, <1>15, <1>16, <1>17, <1>18 DEF Next, Step, Terminated
-----------------------------------------------------------------------------
\* Nobody else reads or writes while a thread writes, nor writes while it reads.
LEMMA WriterAlone ==
  ASSUME IInv, NEW t \in Thread, NEW u \in Thread \ {t}, pc[t] \in Reading \cup Writing, pc[u] \in Writing
  PROVE  FALSE
BY DEF IInv, LockInv, Lock!OthersHoldNothing, Reading, Writing

LEMMA ListStep ==
  ASSUME Assumptions, IInv, [Next]_vars
  PROVE  ListInv'
<1> USE DEF ListInv
<1>0. /\ TypeOK /\ ListInv
      /\ root \in Nat /\ oldest \in 1..root + 1 /\ pc \in [Thread -> Labels]
      /\ \A t \in Thread, u \in Thread :
           t # u /\ pc[t] \in Reading \cup Writing => pc[u] \notin Writing
  BY WriterAlone DEF IInv, TypeOK
<1>1. ASSUME NEW t \in Thread, NEW bytes \in Sizes, Alloc(t, bytes) PROVE ListInv'
  BY <1>1, <1>0, GoStep DEF Labels, Reading, Writing, Alloc, chunkVars
<1>2. ASSUME NEW t \in Thread, RLock(t) PROVE ListInv'
  BY <1>2, <1>0, GoStep DEF Labels, Reading, Writing, RLock, chunkVars
<1>3. ASSUME NEW t \in Thread, Add(t) PROVE ListInv'
  BY <1>3, <1>0, GoStep DEF Labels, Reading, Writing, Add, chunkVars
<1>4. ASSUME NEW t \in Thread, Test(t) PROVE ListInv'
  BY <1>4, <1>0, GoStep DEF Labels, Reading, Writing, Test, chunkVars
<1>5. ASSUME NEW t \in Thread, AttemptUpgrade(t) PROVE ListInv'
  BY <1>5, <1>0, GoStep DEF Labels, Reading, Writing, AttemptUpgrade, chunkVars
<1>6. ASSUME NEW t \in Thread, Flush(t) PROVE ListInv'
  BY <1>6, <1>0, GoStep DEF Labels, Reading, Writing, Flush, chunkVars
<1>7. ASSUME NEW t \in Thread, Grow(t) PROVE ListInv'
  BY <1>7, <1>0, GoStep DEF Labels, Reading, Writing, Grow, AddChunk, chunkVars
<1>8. ASSUME NEW t \in Thread, Downgrade(t) PROVE ListInv'
  BY <1>8, <1>0, GoStep DEF Labels, Reading, Writing, Downgrade, chunkVars
<1>9. ASSUME NEW t \in Thread, Retry(t) PROVE ListInv'
  BY <1>9, <1>0, GoStep DEF Labels, Reading, Writing, Retry, chunkVars
<1>10. ASSUME NEW t \in Thread, Carve(t) PROVE ListInv'
  <2>1. IsFiniteSet(live')
    BY <1>0, <1>10, FS_AddElement DEF Carve
  <2>2. \A u \in Thread : pc[u] \notin {"c_free", "c_chunk"} /\ pc'[u] \notin {"c_free", "c_chunk"}
    BY <1>10, <1>0, GoStep DEF Carve, Labels, Reading, Writing
  <2> QED BY <1>10, <1>0, <2>1, <2>2 DEF Carve, chunkVars
<1>11. ASSUME NEW t \in Thread, Clear(t) PROVE ListInv'
  BY <1>11, <1>0, GoStep DEF Labels, Reading, Writing, Clear, chunkVars
<1>12. ASSUME NEW t \in Thread, ClearLock(t) PROVE ListInv'
  BY <1>12, <1>0, GoStep DEF Labels, Reading, Writing, ClearLock, chunkVars
<1>13. ASSUME NEW t \in Thread, ClearEnter(t) PROVE ListInv'
  BY <1>13, <1>0, GoStep DEF Labels, Reading, Writing, ClearEnter, chunkVars
<1>14. ASSUME NEW t \in Thread, ClearReset(t) PROVE ListInv'
  BY <1>14, <1>0, GoStep, FS_EmptySet DEF Labels, Reading, Writing, ClearReset, chunkVars
<1>15. ASSUME NEW t \in Thread, ClearFree(t) PROVE ListInv'
  BY <1>15, <1>0, GoStep DEF Labels, Reading, Writing, ClearFree
<1>16. ASSUME NEW t \in Thread, ClearChunk(t) PROVE ListInv'
  BY <1>16, <1>0, GoStep DEF Labels, Reading, Writing, ClearChunk
<1>17. ASSUME NEW t \in Thread, ClearUnlock(t) PROVE ListInv'
  BY <1>17, <1>0, GoStep DEF Labels, Reading, Writing, ClearUnlock, chunkVars
<1>18. CASE UNCHANGED vars
  BY <1>0, <1>18 DEF vars, chunkVars
<1> QED BY <1>1, <1>2, <1>3, <1>4, <1>5, <1>6, <1>7, <1>8, <1>9, <1>10, <1>11, <1>12, <1>13,
           <1>14, <1>15, <1>16, <1>17, <1>18 DEF Next, Step, Terminated

\* What has been added stays added as long as there are readers.
LEMMA OffsetStep ==
  ASSUME Assumptions, IInv, [Next]_vars
  PROVE  OffsetInv'
<1> USE DEF Holds, Apart, rend
<1>0. /\ TypeOK /\ pc \in [Thread -> Labels] /\ curpos \in Nat /\ size[root] \in Nat
      /\ want \in [Thread -> Nat] /\ r \in [Thread -> Nat]
      /\ \A t \in Thread, u \in Thread :
           t # u /\ pc[t] \in Reading \cup Writing => pc[u] \notin Writing
  BY WriterAlone DEF IInv, TypeOK, ListInv
<1>a. ASSUME NEW t \in Thread, pc[t] \in Writing, \A u \in Thread \ {t} : pc'[u] = pc[u],
              pc'[t] \in {"idle", "c_free", "c_chunk", "c_unlock", "downgrade", "runlock"}
      PROVE  OffsetInv'
  BY <1>0, <1>a DEF OffsetInv, Reading, Writing
<1>1. ASSUME NEW t \in Thread, NEW bytes \in Sizes, Alloc(t, bytes) PROVE OffsetInv'
  BY <1>1, <1>0, GoStep DEF IInv, OffsetInv, Labels, Alloc, chunkVars
<1>2. ASSUME NEW t \in Thread, RLock(t) PROVE OffsetInv'
  BY <1>2, <1>0, GoStep DEF IInv, OffsetInv, Labels, RLock, chunkVars
<1>3. ASSUME NEW t \in Thread, Add(t) PROVE OffsetInv'
  BY <1>3, <1>0, GoStep DEF IInv, OffsetInv, Labels, Add, chunkVars
<1>4. ASSUME NEW t \in Thread, Test(t) PROVE OffsetInv'
  BY <1>4, <1>0, GoStep DEF IInv, OffsetInv, Labels, Test, chunkVars
<1>5. ASSUME NEW t \in Thread, AttemptUpgrade(t) PROVE OffsetInv'
  BY <1>5, <1>0, GoStep DEF IInv, OffsetInv, Labels, AttemptUpgrade, chunkVars
<1>6. ASSUME NEW t \in Thread, Flush(t) PROVE OffsetInv'
  BY <1>6, <1>0, GoStep DEF IInv, OffsetInv, Labels, Flush, chunkVars
<1>7. ASSUME NEW t \in Thread, Grow(t) PROVE OffsetInv'
  BY <1>7, <1>0, <1>a, GoStep DEF Labels, Writing, Grow
<1>8. ASSUME NEW t \in Thread, Downgrade(t) PROVE OffsetInv'
  BY <1>8, <1>0, <1>a, GoStep DEF Labels, Writing, Downgrade
<1>9. ASSUME NEW t \in Thread, Retry(t) PROVE OffsetInv'
  BY <1>9, <1>0, GoStep DEF IInv, OffsetInv, Labels, Retry, chunkVars
<1>10. ASSUME NEW t \in Thread, Carve(t) PROVE OffsetInv'
  BY <1>10, <1>0, GoStep DEF IInv, OffsetInv, Labels, Carve, chunkVars
<1>11. ASSUME NEW t \in Thread, Clear(t) PROVE OffsetInv'
  BY <1>11, <1>0, GoStep DEF IInv, OffsetInv, Labels, Clear, chunkVars
<1>12. ASSUME NEW t \in Thread, ClearLock(t) PROVE OffsetInv'
  BY <1>12, <1>0, GoStep DEF IInv, OffsetInv, Labels, ClearLock, chunkVars
<1>13. ASSUME NEW t \in Thread, ClearEnter(t) PROVE OffsetInv'
  BY <1>13, <1>0, GoStep DEF IInv, OffsetInv, Labels, ClearEnter, chunkVars
<1>14. ASSUME NEW t \in Thread, ClearReset(t) PROVE OffsetInv'
  BY <1>14, <1>0, <1>a, GoStep DEF Labels, Writing, ClearReset
<1>15. ASSUME NEW t \in Thread, ClearFree(t) PROVE OffsetInv'
  BY <1>15, <1>0, <1>a, GoStep DEF Labels, Writing, ClearFree
<1>16. ASSUME NEW t \in Thread, ClearChunk(t) PROVE OffsetInv'
  BY <1>16, <1>0, <1>a, GoStep DEF Labels, Writing, ClearChunk
<1>17. ASSUME NEW t \in Thread, ClearUnlock(t) PROVE OffsetInv'
  BY <1>17, <1>0, <1>a, GoStep DEF Labels, Writing, ClearUnlock
<1>18. CASE UNCHANGED vars
  BY <1>0, <1>18 DEF IInv, OffsetInv, vars, chunkVars
<1> QED BY <1>1, <1>2, <1>3, <1>4, <1>5, <1>6, <1>7, <1>8, <1>9, <1>10, <1>11, <1>12, <1>13,
           <1>14, <1>15, <1>16, <1>17, <1>18 DEF Next, Step, Terminated

\* What is carved was added by the thread that carves it, and a chunk goes only
\* when nothing in it is in use.
LEMMA LiveStep ==
  ASSUME Assumptions, IInv, [Next]_vars
  PROVE  LiveInv'
<1> USE DEF Holds, Apart, rend
<1>0. /\ TypeOK /\ pc \in [Thread -> Labels] /\ curpos \in Nat /\ size[root] \in Nat
      /\ want \in [Thread -> Nat] /\ r \in [Thread -> Nat]
      /\ \A t \in Thread, u \in Thread :
           t # u /\ pc[t] \in Reading \cup Writing => pc[u] \notin Writing
  BY WriterAlone DEF IInv, TypeOK, ListInv
<1>typed. /\ root \in Nat /\ root = Len(size) /\ size \in Seq(Nat) /\ oldest \in 1..root + 1
      /\ \A a \in live : a.chunk \in 1..root /\ a.from \in Nat /\ a.upto \in Nat
  BY DEF IInv, TypeOK
<1>same. ASSUME UNCHANGED <<chunkVars, live>> PROVE AllocationsSound'
  BY <1>same DEF IInv, LiveInv, AllocationsSound, chunkVars
<1>1. ASSUME NEW t \in Thread, NEW bytes \in Sizes, Alloc(t, bytes) PROVE LiveInv'
  BY <1>1, <1>0, <1>typed, <1>same, GoStep DEF IInv, LiveInv, Labels, Alloc, chunkVars
<1>2. ASSUME NEW t \in Thread, RLock(t) PROVE LiveInv'
  BY <1>2, <1>0, <1>typed, <1>same, GoStep DEF IInv, LiveInv, Labels, RLock, chunkVars
<1>3. ASSUME NEW t \in Thread, Add(t) PROVE LiveInv'
  BY <1>3, <1>0, <1>typed, <1>same, GoStep DEF IInv, LiveInv, Labels, Add, chunkVars
<1>4. ASSUME NEW t \in Thread, Test(t) PROVE LiveInv'
  BY <1>4, <1>0, <1>typed, <1>same, GoStep DEF IInv, LiveInv, Labels, Test, chunkVars
<1>5. ASSUME NEW t \in Thread, AttemptUpgrade(t) PROVE LiveInv'
  BY <1>5, <1>0, <1>typed, <1>same, GoStep DEF IInv, LiveInv, Labels, AttemptUpgrade, chunkVars
<1>6. ASSUME NEW t \in Thread, Flush(t) PROVE LiveInv'
  BY <1>6, <1>0, <1>typed, <1>same, GoStep DEF IInv, LiveInv, Labels, Flush, chunkVars
<1>7. ASSUME NEW t \in Thread, Grow(t) PROVE LiveInv'
  <2>1. CASE rend(t) >= size[root]
    <3>1. FbNext(rend(t)) \in Nat
      BY <1>0, FbNextType
    <3>2. root' = root + 1 /\ size' = Append(size, FbNext(rend(t))) /\ UNCHANGED <<live, oldest>>
      BY <1>7, <2>1 DEF Grow, AddChunk
    <3>3. \A c \in 1..root : size'[c] = size[c]
      BY <1>0, <3>1, <3>2, NewChunk
    <3>4. AllocationsSound'
      BY <1>typed, <3>2, <3>3 DEF IInv, LiveInv, AllocationsSound
    <3> QED BY <1>typed, <3>2, <3>4 DEF LiveInv
  <2>2. CASE ~(rend(t) >= size[root])
    BY <1>7, <1>0, <1>same, <2>2, GoStep DEF IInv, LiveInv, Labels, Grow, chunkVars
  <2> QED BY <2>1, <2>2
<1>8. ASSUME NEW t \in Thread, Downgrade(t) PROVE LiveInv'
  BY <1>8, <1>0, <1>typed, <1>same, GoStep DEF IInv, LiveInv, Labels, Downgrade, chunkVars
<1>9. ASSUME NEW t \in Thread, Retry(t) PROVE LiveInv'
  BY <1>9, <1>0, <1>typed, <1>same, GoStep DEF IInv, LiveInv, Labels, Retry, chunkVars
<1>10. ASSUME NEW t \in Thread, Carve(t) PROVE LiveInv'
  <2> DEFINE new == [nth |-> Cardinality(live), chunk |-> root, from |-> r[t], upto |-> rend(t)]
  <2>1. /\ pc[t] = "carve" /\ live' = live \cup {new} /\ UNCHANGED <<curpos, chunkVars>>
        /\ \A u \in Thread \ {t} : pc'[u] = pc[u] /\ r'[u] = r[u] /\ want'[u] = want[u]
        /\ pc'[t] = "idle"
    BY <1>10, <1>0, GoStep DEF Carve, Labels
  <2>2. new.upto <= curpos /\ new.upto < size[root] /\ oldest <= root
    <3>1. oldest # root + 1
      BY <2>1, <1>0 DEF IInv, ListInv, Reading, Writing
    <3> QED BY <2>1, <3>1, <1>typed DEF IInv, OffsetInv
  <2>3. \A a \in live : a.chunk = root => Apart(a.from, a.upto, new.from, new.upto)
    BY <2>1 DEF IInv, LiveInv
  <2>4. AllocationsSound'
    BY <2>1, <2>2, <2>3, <1>0, <1>typed DEF IInv, LiveInv, AllocationsSound, chunkVars
  <2>5. \A u \in Thread : Holds(u)' => u # t /\ Holds(u) /\ Apart(new.from, new.upto, r[u], rend(u))
    BY <2>1 DEF IInv, OffsetInv
  <2> QED BY <2>1, <2>2, <2>4, <2>5 DEF IInv, LiveInv, chunkVars
<1>11. ASSUME NEW t \in Thread, Clear(t) PROVE LiveInv'
  BY <1>11, <1>0, <1>typed, <1>same, GoStep DEF IInv, LiveInv, Labels, Clear, chunkVars
<1>12. ASSUME NEW t \in Thread, ClearLock(t) PROVE LiveInv'
  BY <1>12, <1>0, <1>typed, <1>same, GoStep DEF IInv, LiveInv, Labels, ClearLock, chunkVars
<1>13. ASSUME NEW t \in Thread, ClearEnter(t) PROVE LiveInv'
  BY <1>13, <1>0, <1>typed, <1>same, GoStep DEF IInv, LiveInv, Labels, ClearEnter, chunkVars
<1>14. ASSUME NEW t \in Thread, ClearReset(t) PROVE LiveInv'
  BY <1>14 DEF IInv, ListInv, LiveInv, AllocationsSound, ClearReset, Go
<1>15. ASSUME NEW t \in Thread, ClearFree(t) PROVE LiveInv'
  BY <1>15 DEF IInv, ListInv, LiveInv, AllocationsSound, ClearFree, Go
<1>16. ASSUME NEW t \in Thread, ClearChunk(t) PROVE LiveInv'
  BY <1>16 DEF IInv, ListInv, LiveInv, AllocationsSound, ClearChunk, Go
<1>17. ASSUME NEW t \in Thread, ClearUnlock(t) PROVE LiveInv'
  BY <1>17, <1>0, <1>typed, <1>same, GoStep DEF IInv, LiveInv, Labels, ClearUnlock, chunkVars
<1>18. CASE UNCHANGED vars
  BY <1>0, <1>same, <1>18 DEF IInv, LiveInv, vars, chunkVars
<1> QED BY <1>1, <1>2, <1>3, <1>4, <1>5, <1>6, <1>7, <1>8, <1>9, <1>10, <1>11, <1>12, <1>13,
           <1>14, <1>15, <1>16, <1>17, <1>18 DEF Next, Step, Terminated
-----------------------------------------------------------------------------
(* A chunk is not left behind while it serves.                             *)

Asking == {"rlock", "add", "test", "attempt", "flush", "grow", "downgrade", "runlock"}

\* Who was the first to add to _curpos has carved, is about to, or asks for more
\* than the chunk holds.
WasteInv ==
  /\ \A t \in Thread : /\ pc[t] \in {"attempt", "flush", "grow"} => rend(t) <= curpos
                       /\ pc[t] \in {"c_free", "c_chunk"} => curpos = 0
  /\ curpos > 0 => \/ \E a \in live : a.chunk = root
                   \/ \E t \in Thread : Holds(t) /\ r[t] = 0
                   \/ \E t \in Thread : pc[t] \in Asking /\ want[t] >= size[root]

LEMMA WasteStep ==
  ASSUME Assumptions, IInv, WasteInv, [Next]_vars
  PROVE  WasteInv'
<1> USE DEF Holds, Asking, rend
<1>0. /\ TypeOK /\ WasteInv /\ pc \in [Thread -> Labels] /\ curpos \in Nat /\ size[root] \in Nat
      /\ want \in [Thread -> Nat] /\ r \in [Thread -> Nat]
      /\ \A t \in Thread : pc[t] \in {"test", "carve"} => rend(t) <= curpos
      /\ \A t \in Thread, u \in Thread :
           t # u /\ pc[t] \in Reading \cup Writing => pc[u] \notin Writing
  BY WriterAlone DEF IInv, TypeOK, ListInv, OffsetInv
<1>a. ASSUME NEW t \in Thread, pc[t] \in Writing, \A u \in Thread \ {t} : pc'[u] = pc[u], curpos' = 0,
             pc'[t] \in {"c_free", "c_chunk", "c_unlock", "downgrade"}
      PROVE  WasteInv'
  BY <1>0, <1>a DEF WasteInv, Reading, Writing
<1>1. ASSUME NEW t \in Thread, NEW bytes \in Sizes, Alloc(t, bytes) PROVE WasteInv'
  BY <1>1, <1>0, GoStep DEF WasteInv, Labels, Alloc, chunkVars
<1>2. ASSUME NEW t \in Thread, RLock(t) PROVE WasteInv'
  BY <1>2, <1>0, GoStep DEF WasteInv, Labels, RLock, chunkVars
<1>3. ASSUME NEW t \in Thread, Add(t) PROVE WasteInv'
  <2>1. /\ pc[t] = "add" /\ pc'[t] = "test" /\ r'[t] = curpos /\ curpos' = curpos + want[t]
        /\ UNCHANGED <<root, size, live, want>>
        /\ \A u \in Thread \ {t} : pc'[u] = pc[u] /\ r'[u] = r[u]
    BY <1>3, <1>0, GoStep DEF Add, Labels, chunkVars
  <2>2. \A u \in Thread : pc[u] \notin Writing
    BY <1>0, <2>1 DEF Reading, Writing
  <2>3. ASSUME NEW u \in Thread
        PROVE  /\ pc'[u] \in {"attempt", "flush", "grow"} => rend(u)' <= curpos'
               /\ pc'[u] \in {"c_free", "c_chunk"} => curpos' = 0
    BY <1>0, <2>1, <2>2 DEF WasteInv, Writing
  <2>4. \/ \E a \in live' : a.chunk = root'
        \/ \E u \in Thread : (Holds(u) /\ r[u] = 0)'
        \/ \E u \in Thread : (pc[u] \in Asking /\ want[u] >= size[root])'
        \/ curpos' = 0
    <3>1. CASE curpos = 0
      BY <2>1, <3>1
    <3>2. CASE curpos > 0
      BY <1>0, <2>1, <3>2 DEF WasteInv
    <3> QED BY <1>0, <3>1, <3>2
  <2> QED BY <2>3, <2>4 DEF WasteInv
<1>4. ASSUME NEW t \in Thread, Test(t) PROVE WasteInv'
  BY <1>4, <1>0, GoStep DEF WasteInv, Labels, Test, chunkVars
<1>5. ASSUME NEW t \in Thread, AttemptUpgrade(t) PROVE WasteInv'
  BY <1>5, <1>0, GoStep DEF WasteInv, Labels, AttemptUpgrade, chunkVars
<1>6. ASSUME NEW t \in Thread, Flush(t) PROVE WasteInv'
  BY <1>6, <1>0, GoStep DEF WasteInv, Labels, Flush, chunkVars
<1>7. ASSUME NEW t \in Thread, Grow(t) PROVE WasteInv'
  <2>1. CASE rend(t) >= size[root]
    BY <1>7, <2>1, <1>0, <1>a, GoStep DEF Labels, Writing, Grow
  <2>2. CASE ~(rend(t) >= size[root])
    BY <1>7, <2>2, <1>0, GoStep DEF WasteInv, Labels, Grow, chunkVars
  <2> QED BY <2>1, <2>2
<1>8. ASSUME NEW t \in Thread, Downgrade(t) PROVE WasteInv'
  BY <1>8, <1>0, GoStep DEF WasteInv, Labels, Downgrade, chunkVars
<1>9. ASSUME NEW t \in Thread, Retry(t) PROVE WasteInv'
  BY <1>9, <1>0, GoStep DEF WasteInv, Labels, Retry, chunkVars
<1>10. ASSUME NEW t \in Thread, Carve(t) PROVE WasteInv'
  <2>1. /\ pc[t] = "carve" /\ pc'[t] = "idle" /\ UNCHANGED <<root, size, curpos>>
        /\ \A u \in Thread \ {t} : pc'[u] = pc[u] /\ r'[u] = r[u] /\ want'[u] = want[u]
    BY <1>10, <1>0, GoStep DEF Carve, Labels, chunkVars
  <2>2. \E a \in live' : a.chunk = root'
    <3> DEFINE new == [nth |-> Cardinality(live), chunk |-> root, from |-> r[t], upto |-> rend(t)]
    <3>1. new \in live' /\ new.chunk = root
      BY <1>10 DEF Carve
    <3> QED BY <2>1, <3>1
  <2> QED BY <1>0, <2>1, <2>2 DEF WasteInv
<1>11. ASSUME NEW t \in Thread, Clear(t) PROVE WasteInv'
  BY <1>11, <1>0, GoStep DEF WasteInv, Labels, Clear, chunkVars
<1>12. ASSUME NEW t \in Thread, ClearLock(t) PROVE WasteInv'
  BY <1>12, <1>0, GoStep DEF WasteInv, Labels, ClearLock, chunkVars
<1>13. ASSUME NEW t \in Thread, ClearEnter(t) PROVE WasteInv'
  BY <1>13, <1>0, GoStep DEF WasteInv, Labels, ClearEnter, chunkVars
<1>14. ASSUME NEW t \in Thread, ClearReset(t) PROVE WasteInv'
  BY <1>14, <1>0, <1>a, GoStep DEF WasteInv, Labels, Writing, ClearReset
<1>15. ASSUME NEW t \in Thread, ClearFree(t) PROVE WasteInv'
  BY <1>15, <1>0, <1>a, GoStep DEF WasteInv, Labels, Writing, ClearFree
<1>16. ASSUME NEW t \in Thread, ClearChunk(t) PROVE WasteInv'
  BY <1>16, <1>0, <1>a, GoStep DEF WasteInv, Labels, Writing, ClearChunk
<1>17. ASSUME NEW t \in Thread, ClearUnlock(t) PROVE WasteInv'
  BY <1>17, <1>0, GoStep DEF WasteInv, Labels, ClearUnlock, chunkVars
<1>18. CASE UNCHANGED vars
  BY <1>0, <1>18 DEF WasteInv, vars, chunkVars
<1> QED BY <1>1, <1>2, <1>3, <1>4, <1>5, <1>6, <1>7, <1>8, <1>9, <1>10, <1>11, <1>12, <1>13,
           <1>14, <1>15, <1>16, <1>17, <1>18 DEF Next, Step, Terminated

LEMMA RootLeft ==
  ASSUME Assumptions, IInv, WasteInv, [Next]_vars, root' # root,
         \E t \in Thread : pc[t] = "grow" /\ pc'[t] # "grow"
  PROVE  (\E a \in live : a.chunk = root) \/ (\E t \in Thread : want[t] >= size[root])
<1>1. PICK t \in Thread : pc[t] = "grow" /\ pc'[t] # "grow"
  OBVIOUS
<1>2. /\ curpos \in Nat /\ size[root] \in Nat /\ r[t] \in Nat /\ want[t] \in Nat
      /\ \A u \in Thread \ {t} : pc[u] \notin Reading \cup Writing
  BY <1>1, WriterAlone DEF IInv, TypeOK, ListInv, Writing
<1>3. rend(t) >= size[root] /\ rend(t) <= curpos
  BY <1>1 DEF IInv, OffsetInv, WasteInv
<1>4. CASE r[t] = 0
  BY <1>2, <1>3, <1>4 DEF rend
<1>5. CASE r[t] > 0
  <2>1. curpos > 0
    BY <1>2, <1>3, <1>5 DEF rend
  <2>2. \A u \in Thread : ~Holds(u)
    BY <1>1, <1>2 DEF Holds, Reading
  <2> QED BY <2>1, <2>2 DEF WasteInv
<1> QED BY <1>2, <1>4, <1>5
-----------------------------------------------------------------------------
(* The strengthened invariant, for all of GreedyAlloc.h:56-124.            *)
THEOREM GreedyInvariant == ASSUME Assumptions PROVE Spec => []IInv
<1>1. Init => IInv
  BY InitInvariant
<1>2. IInv /\ [Next]_vars => IInv'
  BY TypeStep, LockStep, ListStep, OffsetStep, LiveStep DEF IInv
<1> QED BY <1>1, <1>2, PTL DEF Spec

(* Whatever the threads, the sizes and the order of the steps, memory that *)
(* is in use lies in a chunk that has not been freed and nobody else has   *)
(* been given a byte of it: the atomic add of Alloc and the read lock held *)
(* around it are enough (GreedyAlloc.h:60-94).                             *)
THEOREM GreedySound == ASSUME Assumptions PROVE Spec => []AllocationsSound
<1>1. IInv => AllocationsSound
  BY DEF IInv, LiveInv
<1> QED BY <1>1, GreedyInvariant, PTL

(* A thread that has upgraded its read lock finds the chunk too small as   *)
(* before: the second test under the write lock (GreedyAlloc.h:72-74) is   *)
(* never false, with any number of threads.                                *)
THEOREM GreedyFullChunk == ASSUME Assumptions PROVE Spec => []UpgradeSeesFullChunk
<1>1. IInv => UpgradeSeesFullChunk
  BY DEF IInv, OffsetInv, UpgradeSeesFullChunk
<1> QED BY <1>1, GreedyInvariant, PTL

(* The variables of GreedyAlloc keep their types.                          *)
THEOREM GreedyTypeCorrect == ASSUME Assumptions PROVE Spec => []TypeOK
<1>1. IInv => TypeOK
  BY DEF IInv
<1> QED BY <1>1, GreedyInvariant, PTL
-----------------------------------------------------------------------------
(* CacheAlloc: its inductive invariant.                                    *)

CacheReading == {"a_lookup", "a_upgrade", "a_flush", "a_load", "a_read", "a_cas", "a_carve", "a_runlock",
                 "d_load", "d_link", "d_cas", "d_runlock"}
CacheWriting == {"a_insert", "a_downgrade"}
CacheClaiming == {"a_flush"} \cup CacheWriting

\* The place of a thread says what it holds of _cachelock, and a writer is alone.
CacheLockInv ==
  /\ \A t \in CacheThread : held[t] = IF place[t] \in CacheReading THEN "read"
                                      ELSE IF place[t] \in CacheWriting THEN "write" ELSE "none"
  /\ \A t \in CacheThread : claim = t <=> place[t] \in CacheClaiming
  /\ \A t \in CacheThread : place[t] \in CacheWriting => Cache!Lock!OthersHoldNothing(t)

\* The stack for a size, once made, is there for good.
Exists(s) == s \in Cache!Cached => cache[s] # Cache!NoEntry

\* Where a thread has found its stack, where it is about to use one at all, where it
\* has a block in its hands, and where it gives one back.
Frees == {"free", "d_rlock", "d_load", "d_link", "d_cas", "d_runlock"}
Found == {"a_downgrade", "a_load", "a_read", "a_cas", "a_carve", "a_runlock", "a_return", "copy",
          "d_rlock", "d_load", "d_link", "d_cas", "d_runlock"}
Stacked == CacheReading \cup CacheWriting \cup {"a_rlock", "a_again", "d_rlock"}
Given == {"a_runlock", "a_return", "free", "d_rlock", "d_load", "d_link", "d_cas"}

PlaceOK(t) ==
  /\ place[t] # "idle" => sz[t] \in CacheSizes
  /\ place[t] \in Stacked => sz[t] <= MaxSize
  /\ place[t] \in {"malloc", "free"} => sz[t] > MaxSize
  /\ place[t] \in Found => Exists(sz[t])
  /\ block[t] # Null <=> place[t] \in Given
  /\ place[t] \in {"idle"} \cup Frees => old[t] = Cache!NoOld
  /\ place[t] = "copy" => old[t] # Cache!NoOld
OwnOK(t) ==
  /\ old[t] # Cache!NoOld => old[t].p \in owned[t] /\ asked[old[t].p] = old[t].size
  /\ \A b \in owned[t] : asked[b] \in CacheSizes /\ Exists(asked[b]) /\ asked[b] <= capacity[b]
  /\ place[t] \in Given => sz[t] <= capacity[block[t]]

\* Of a call: what its place says of its arguments; of a client: what it may free.
CallInv == \A t \in CacheThread : PlaceOK(t) /\ OwnOK(t)

\* Every block carved is with one thread, or on one stack of at most its size.
Holding(t) == owned[t] \cup ({block[t]} \ {Null})
Parted(F) ==
  /\ \A s \in Cache!Cached : /\ F[s] \subseteq made
                             /\ \A b \in F[s] : s <= capacity[b]
                             /\ \A t \in CacheThread : Holding(t) \cap F[s] = {}
  /\ \A s, u \in Cache!Cached : s # u => F[s] \cap F[u] = {}
  /\ \A t \in CacheThread : Holding(t) \subseteq made /\ block[t] \notin owned[t]
  /\ \A t, u \in CacheThread : t # u => Holding(t) \cap Holding(u) = {}
  /\ \A b \in made : capacity[b] <= MaxSize /\ b \notin forgotten =>
       (\E s \in Cache!Cached : b \in F[s]) \/ (\E t \in CacheThread : b \in Holding(t))
Lists(F) == \A s \in Cache!Cached : ListOf(Cache!Block, Null, link, cache[s].p, F[s])
StacksInv == \E F \in [Cache!Cached -> SUBSET Cache!Block] : Lists(F) /\ Parted(F)

\* No tag of a stack is used twice while somebody has its head in hand.
Watches == {"a_read", "a_cas", "d_link", "d_cas"}
WatchOK(t) == /\ seen[t].tag <= cache[sz[t]].tag
              /\ seen[t].tag = cache[sz[t]].tag => seen[t] = cache[sz[t]]
              /\ place[t] \in {"a_read", "a_cas"} => seen[t].p # Null
              /\ place[t] = "a_cas" /\ seen[t] = cache[sz[t]] => nval[t] = link[seen[t].p]
              /\ place[t] = "d_cas" => link[block[t]] = seen[t].p
WatchInv == \A t \in CacheThread : place[t] \in Watches => WatchOK(t)

MadeInv == /\ made = 1..Cardinality(made) /\ Cardinality(made) \in Nat

\* An insertion resets a tag, which WatchInv survives because of CacheLockInv; a
\* compare-and-swap that wins changes the list it has seen because of WatchInv.
CacheInv == Cache!TypeOK /\ CacheLockInv /\ CallInv /\ StacksInv /\ WatchInv /\ MadeInv
-----------------------------------------------------------------------------
LEMMA CacheConstants ==
  /\ CacheSizes \subseteq Nat /\ MaxSize \in Nat /\ MaxBlock \in Nat
  /\ Null \notin Nat /\ Data \notin Nat /\ Null # Data /\ NoThread \notin CacheThread
  /\ Cache!Block = 1..MaxBlock /\ Null \notin Cache!Block /\ Data \notin Cache!Ptr
  /\ \A s : s \in Cache!Cached <=> s \in CacheSizes /\ s <= MaxSize
  /\ Cache!Cached \subseteq Nat
  /\ Cache!NoHead \in Cache!HeadType /\ Cache!NoEntry \notin Cache!HeadType
  /\ Cache!NoHead.p = Null /\ Cache!NoHead.tag = 0 /\ Cache!NoHead # Cache!NoEntry
  /\ Cache!NoEntry.p = Null /\ Cache!NoEntry.tag = Null
  /\ \A p, n : Cache!Head(p, n).p = p /\ Cache!Head(p, n).tag = n
  /\ \A p \in Cache!Ptr, n \in Nat : Cache!Head(p, n) \in Cache!HeadType
<1>1. /\ CacheSizes \subseteq Nat /\ MaxSize \in Nat /\ MaxBlock \in Nat
      /\ Null \notin Nat /\ Data \notin Nat /\ Null # Data /\ NoThread \notin CacheThread
  BY AllocatorAssumption DEF Cache!Assumptions
<1>2. /\ \A p, n : Cache!Head(p, n).p = p /\ Cache!Head(p, n).tag = n
      /\ \A p \in Cache!Ptr, n \in Nat : Cache!Head(p, n) \in Cache!HeadType
  BY DEF Cache!Head, Cache!HeadType
<1>3. Cache!Block = 1..MaxBlock /\ Null \notin Cache!Block /\ Data \notin Cache!Ptr /\ Null \in Cache!Ptr
  BY <1>1 DEF Cache!Block, Cache!Ptr
<1>4. /\ \A s : s \in Cache!Cached <=> s \in CacheSizes /\ s <= MaxSize
      /\ Cache!Cached \subseteq Nat
  BY <1>1 DEF Cache!Cached
<1>5. /\ Cache!NoHead \in Cache!HeadType /\ Cache!NoHead.p = Null /\ Cache!NoHead.tag = 0
      /\ Cache!NoEntry.p = Null /\ Cache!NoEntry.tag = Null
  BY <1>2, <1>3 DEF Cache!NoHead, Cache!NoEntry
<1>6. Cache!NoEntry \notin Cache!HeadType /\ Cache!NoHead # Cache!NoEntry
  BY <1>1, <1>5 DEF Cache!HeadType
<1> QED BY <1>1, <1>2, <1>3, <1>4, <1>5, <1>6

LEMMA CacheSameCounting == \A S : /\ Cache!Cardinality(S) = Cardinality(S)
                                  /\ Cache!IsFiniteSet(S) <=> IsFiniteSet(S)
BY DEF Cache!Cardinality, Cardinality, Cache!IsFiniteSet, IsFiniteSet

\* A step moves one thread, and tells where to.
LEMMA PlaceStep ==
  ASSUME Cache!TypeOK, NEW t \in CacheThread, NEW from, NEW to \in Cache!Labels, Cache!Go(t, from, to)
  PROVE  /\ place[t] = from /\ place'[t] = to /\ place' \in [CacheThread -> Cache!Labels]
         /\ \A u \in CacheThread \ {t} : place'[u] = place[u]
BY DEF Cache!TypeOK, Cache!Go

LEMMA CacheInit == ASSUME Cache!Init PROVE CacheInv
<1> USE CacheConstants
<1>1. Cache!TypeOK
  BY DEF Cache!Init, Cache!TypeOK, Cache!Lock!Init, Cache!Lock!TypeOK, Cache!Labels, Cache!Ptr,
         Cache!Size,
         Cache!NoOld
<1>2. CacheLockInv
  BY DEF Cache!Init, Cache!Lock!Init, CacheLockInv, CacheReading, CacheWriting, CacheClaiming
<1>3. CallInv
  BY DEF Cache!Init, CallInv, PlaceOK, OwnOK, Stacked, Found, Given, CacheReading, CacheWriting
<1>4. StacksInv
  <2> DEFINE F == [s \in Cache!Cached |-> {}]
  <2>1. Lists(F)
    <3>1. ASSUME NEW s \in Cache!Cached PROVE ListOf(Cache!Block, Null, link, cache[s].p, {})
      <4>1. cache[s].p = Null
        BY DEF Cache!Init
      <4> QED BY <4>1, EmptyList
    <3> QED BY <3>1 DEF Lists
  <2>2. Parted(F)
    BY DEF Parted, Holding, Cache!Init
  <2> HIDE DEF F
  <2>3. F \in [Cache!Cached -> SUBSET Cache!Block]
    BY DEF F
  <2> QED BY <2>1, <2>2, <2>3 DEF StacksInv
<1>5. WatchInv
  BY DEF Cache!Init, WatchInv, Watches
<1>6. MadeInv
  BY FS_EmptySet DEF Cache!Init, MadeInv
<1> QED BY <1>1, <1>2, <1>3, <1>4, <1>5, <1>6 DEF CacheInv
-----------------------------------------------------------------------------
\* What begins a call that allocates.
Called(t, s) == /\ Cache!Start(t, s)
                /\ \/ old' = old
                   \/ \E b \in owned[t] : old' = [old EXCEPT ![t] = [p |-> b, size |-> asked[b]]]

LEMMA CacheSteps ==
  ASSUME Cache!Next \/ UNCHANGED Cache!vars
  PROVE  \/ UNCHANGED Cache!vars
         \/ \E t \in CacheThread : \/ Cache!Step(t)
                                   \/ \E s \in CacheSizes : Called(t, s)
                                   \/ \E b \in owned[t] : Cache!Dealloc(t, b)
<1>1. ASSUME NEW t \in CacheThread, NEW s \in CacheSizes, Cache!Alloc(t, s) PROVE Called(t, s)
  BY <1>1 DEF Cache!Alloc, Called
<1>2. ASSUME NEW t \in CacheThread, NEW b \in owned[t], NEW s \in CacheSizes, Cache!Reallocate(t, b, s)
      PROVE  Called(t, s)
  BY <1>2 DEF Cache!Reallocate, Called
<1>3. ASSUME NEW t \in CacheThread, Cache!Calls(t)
      PROVE  (\E s \in CacheSizes : Called(t, s)) \/ \E b \in owned[t] : Cache!Dealloc(t, b)
  BY <1>1, <1>2, <1>3 DEF Cache!Calls
<1>4. ASSUME Cache!Terminated PROVE UNCHANGED Cache!vars
  BY <1>4 DEF Cache!Terminated
<1>5. Cache!Next => Cache!Terminated \/ \E t \in CacheThread : Cache!Step(t) \/ Cache!Calls(t)
  BY DEF Cache!Next
<1> QED BY <1>3, <1>4, <1>5


LEMMA CacheLockStep ==
  ASSUME CacheInv, Cache!Next \/ UNCHANGED Cache!vars
  PROVE  CacheLockInv'
<1> USE DEF CacheLockInv, CacheReading, CacheWriting, CacheClaiming, Cache!Lock!OthersHoldNothing, Cache!lockVars
<1>0. Cache!TypeOK /\ CacheLockInv /\ held \in [CacheThread -> {"none", "read", "write"}] /\ NoThread \notin CacheThread
  BY CacheConstants DEF CacheInv, Cache!TypeOK, Cache!Lock!TypeOK
<1>1. ASSUME NEW t \in CacheThread, Cache!Malloc(t) PROVE CacheLockInv'
  BY <1>1, <1>0, PlaceStep DEF Cache!Malloc, Cache!NewBlock, Cache!Labels
<1>2. ASSUME NEW t \in CacheThread, Cache!Return(t) PROVE CacheLockInv'
  BY <1>2, <1>0, PlaceStep DEF Cache!Return, Cache!Labels
<1>3. ASSUME NEW t \in CacheThread, Cache!Copy(t) PROVE CacheLockInv'
  BY <1>3, <1>0, PlaceStep DEF Cache!Copy, Cache!FreeOf, Cache!Labels
<1>4. ASSUME NEW t \in CacheThread, Cache!Free(t) PROVE CacheLockInv'
  BY <1>4, <1>0, PlaceStep DEF Cache!Free, Cache!Labels
<1>5. ASSUME NEW t \in CacheThread, Cache!RLock(t) PROVE CacheLockInv'
  BY <1>5, <1>0, PlaceStep DEF Cache!RLock, Cache!Lock!AcquireRead, Cache!Labels
<1>6. ASSUME NEW t \in CacheThread, Cache!Lookup(t) PROVE CacheLockInv'
  BY <1>6, <1>0, PlaceStep DEF Cache!Lookup, Cache!Labels
<1>7. ASSUME NEW t \in CacheThread, Cache!Upgrade(t) PROVE CacheLockInv'
  BY <1>7, <1>0, PlaceStep DEF Cache!Upgrade, Cache!Lock!Claim, Cache!Lock!ReleaseRead, Cache!Labels
<1>8. ASSUME NEW t \in CacheThread, Cache!UpgradeAgain(t) PROVE CacheLockInv'
  BY <1>8, <1>0, PlaceStep DEF Cache!UpgradeAgain, Cache!Lock!AcquireRead, Cache!Labels
<1>9. ASSUME NEW t \in CacheThread, Cache!UpgradeFlush(t) PROVE CacheLockInv'
  BY <1>9, <1>0, PlaceStep DEF Cache!UpgradeFlush, Cache!Lock!Enter, Cache!Labels
<1>10. ASSUME NEW t \in CacheThread, Cache!Insert(t) PROVE CacheLockInv'
  BY <1>10, <1>0, PlaceStep DEF Cache!Insert, Cache!Labels
<1>11. ASSUME NEW t \in CacheThread, Cache!Downgrade(t) PROVE CacheLockInv'
  BY <1>11, <1>0, PlaceStep DEF Cache!Downgrade, Cache!Lock!Leave, Cache!Labels
<1>12. ASSUME NEW t \in CacheThread, Cache!Load(t) PROVE CacheLockInv'
  BY <1>12, <1>0, PlaceStep DEF Cache!Load, Cache!Loaded, Cache!Labels
<1>13. ASSUME NEW t \in CacheThread, Cache!ReadLink(t) PROVE CacheLockInv'
  BY <1>13, <1>0, PlaceStep DEF Cache!ReadLink, Cache!Labels
<1>14. ASSUME NEW t \in CacheThread, Cache!PopCas(t) PROVE CacheLockInv'
  BY <1>14, <1>0, PlaceStep DEF Cache!PopCas, Cache!Loaded, Cache!CasWins, Cache!Labels
<1>15. ASSUME NEW t \in CacheThread, Cache!Carve(t) PROVE CacheLockInv'
  BY <1>15, <1>0, PlaceStep DEF Cache!Carve, Cache!NewBlock, Cache!Labels
<1>16. ASSUME NEW t \in CacheThread, Cache!RUnlock(t) PROVE CacheLockInv'
  BY <1>16, <1>0, PlaceStep DEF Cache!RUnlock, Cache!Lock!ReleaseRead, Cache!Labels
<1>17. ASSUME NEW t \in CacheThread, Cache!PushLoad(t) PROVE CacheLockInv'
  BY <1>17, <1>0, PlaceStep DEF Cache!PushLoad, Cache!Labels
<1>18. ASSUME NEW t \in CacheThread, Cache!PushLink(t) PROVE CacheLockInv'
  BY <1>18, <1>0, PlaceStep DEF Cache!PushLink, Cache!Labels
<1>19. ASSUME NEW t \in CacheThread, Cache!PushCas(t) PROVE CacheLockInv'
  BY <1>19, <1>0, PlaceStep DEF Cache!PushCas, Cache!CasWins, Cache!Labels
<1>20. ASSUME NEW t \in CacheThread, Cache!PushRUnlock(t) PROVE CacheLockInv'
  BY <1>20, <1>0, PlaceStep DEF Cache!PushRUnlock, Cache!Lock!ReleaseRead, Cache!Labels
<1>21. ASSUME NEW t \in CacheThread, NEW b \in owned[t], Cache!Dealloc(t, b) PROVE CacheLockInv'
  BY <1>21, <1>0, PlaceStep DEF Cache!Dealloc, Cache!FreeOf, Cache!Labels
<1>22. ASSUME NEW t \in CacheThread, NEW s \in CacheSizes, Called(t, s) PROVE CacheLockInv'
  BY <1>22, <1>0, PlaceStep DEF Called, Cache!Start, Cache!Labels
<1>23. CASE UNCHANGED Cache!vars
  BY <1>23, <1>0, PlaceStep DEF Cache!vars, Cache!Labels
<1> QED BY <1>1, <1>2, <1>3, <1>4, <1>5, <1>6, <1>7, <1>8, <1>9, <1>10, <1>11, <1>12, <1>13, <1>14,
           <1>15, <1>16, <1>17, <1>18, <1>19, <1>20, <1>21, <1>22, <1>23, CacheSteps DEF Cache!Step
-----------------------------------------------------------------------------
LEMMA CacheOthers ==
  ASSUME CacheInv, NEW t \in CacheThread,
         \/ Cache!Step(t)
         \/ \E s \in CacheSizes : Called(t, s)
         \/ \E b \in owned[t] : Cache!Dealloc(t, b)
  PROVE  \A u \in CacheThread \ {t} :
           /\ place'[u] = place[u] /\ sz'[u] = sz[u] /\ block'[u] = block[u] /\ old'[u] = old[u]
           /\ seen'[u] = seen[u] /\ nval'[u] = nval[u] /\ owned'[u] = owned[u]
BY DEF CacheInv, Cache!TypeOK, Called, Cache!Start, Cache!Dealloc, Cache!FreeOf, Cache!Step,
       Cache!Malloc, Cache!Return,
   Cache!Copy, Cache!Free, Cache!RLock, Cache!Lookup, Cache!Upgrade, Cache!UpgradeAgain, Cache!UpgradeFlush, Cache!Insert,
   Cache!Downgrade, Cache!Load, Cache!ReadLink, Cache!PopCas, Cache!Carve, Cache!RUnlock, Cache!PushLoad, Cache!PushLink,
   Cache!PushCas, Cache!PushRUnlock, Cache!Go, Cache!Loaded, Cache!NewBlock, Cache!argVars, Cache!casVars, Cache!heapVars

LEMMA CacheTypes == ASSUME CacheInv
  PROVE  /\ cache \in [Cache!Cached -> Cache!HeadType \cup {Cache!NoEntry}]
         /\ link \in [Cache!Block -> Cache!Ptr \cup {Data}]
         /\ capacity \in [Cache!Block -> Nat] /\ asked \in [Cache!Block -> Nat]
         /\ \A t \in CacheThread : sz[t] \in Nat /\ old[t].size \in Nat /\ old[t] \in [p : Cache!Ptr, size : Cache!Size]
<1>1. Cache!Size \subseteq Nat
  BY CacheConstants DEF Cache!Size
<1>2. /\ cache \in [Cache!Cached -> Cache!HeadType \cup {Cache!NoEntry}]
      /\ link \in [Cache!Block -> Cache!Ptr \cup {Data}]
      /\ capacity \in [Cache!Block -> Cache!Size] /\ asked \in [Cache!Block -> Cache!Size]
      /\ \A t \in CacheThread : sz[t] \in Cache!Size /\ old[t] \in [p : Cache!Ptr, size : Cache!Size]
  BY DEF CacheInv, Cache!TypeOK
<1> QED BY <1>1, <1>2

LEMMA StackTypes == ASSUME CacheInv, NEW t \in CacheThread, place[t] \in Stacked PROVE sz[t] \in Cache!Cached
BY CacheConstants DEF CacheInv, CallInv, PlaceOK, Stacked, CacheReading, CacheWriting

\* What StacksInv says of two threads, and of a thread and a stack.
LEMMA BlocksApart == ASSUME CacheInv, NEW t \in CacheThread
  PROVE  /\ block[t] \notin owned[t] /\ owned[t] \subseteq made /\ owned[t] \subseteq Cache!Block
         /\ block[t] # Null => block[t] \in made /\ block[t] \in Cache!Block
         /\ \A u \in CacheThread \ {t} : /\ owned[u] \cap owned[t] = {}
                                         /\ block[t] # Null => block[t] \notin owned[u] /\ block[t] # block[u]
<1>1. PICK F \in [Cache!Cached -> SUBSET Cache!Block] : Parted(F)
  BY DEF CacheInv, StacksInv
<1>2. made \subseteq Cache!Block
  BY DEF CacheInv, Cache!TypeOK
<1> QED BY <1>1, <1>2 DEF Parted, Holding

LEMMA HeadApart == ASSUME CacheInv, NEW s \in Cache!Cached, cache[s].p # Null
  PROVE  /\ cache[s].p \in Cache!Block /\ link[cache[s].p] \in Cache!Ptr /\ s <= capacity[cache[s].p]
         /\ \A t \in CacheThread : cache[s].p # block[t] /\ cache[s].p \notin owned[t]
<1>1. PICK F \in [Cache!Cached -> SUBSET Cache!Block] : Lists(F) /\ Parted(F)
  BY DEF CacheInv, StacksInv
<1>2. PICK p : p = cache[s].p
  OBVIOUS
<1>3. ListOf(Cache!Block, Null, link, p, F[s]) /\ p # Null
  BY <1>1, <1>2 DEF Lists
<1>4. p \in F[s] /\ p \in Cache!Block /\ link[p] \in Cache!Block \cup {Null}
  BY ONLY <1>3, Popped
<1> QED BY <1>1, <1>2, <1>4 DEF Parted, Holding, Cache!Ptr


\* Blocks are carved one after the other.
LEMMA FreshBlock == ASSUME CacheInv, NEW t \in CacheThread, Cache!NewBlock(t)
  PROVE  \E b \in Cache!Block \ made :
           /\ made' = made \cup {b} /\ capacity' = [capacity EXCEPT ![b] = sz[t]]
           /\ block' = [block EXCEPT ![t] = b] /\ UNCHANGED <<link, asked>>
           /\ MadeInv'
<1> DEFINE n == Cardinality(made)
           b == n + 1
<1>1. n \in Nat /\ made = 1..n /\ made \subseteq Cache!Block /\ made # Cache!Block
      /\ MaxBlock \in Nat /\ Cache!Block = 1..MaxBlock
  BY CacheConstants DEF CacheInv, MadeInv, Cache!TypeOK, Cache!NewBlock
<1>2. b \in Cache!Block \ made
  BY <1>1
<1>3. /\ made' = made \cup {b} /\ capacity' = [capacity EXCEPT ![b] = sz[t]]
      /\ block' = [block EXCEPT ![t] = b] /\ UNCHANGED <<link, asked>>
  BY CacheSameCounting DEF Cache!NewBlock
<1>4. MadeInv'
  <2>1. made' = 1..b
    BY <1>1, <1>3
  <2>2. Cardinality(1..b) = b
    BY <1>1, FS_Interval
  <2> QED BY <1>1, <2>1, <2>2 DEF MadeInv
<1> QED BY <1>2, <1>3, <1>4

LEMMA CacheTypeStep ==
  ASSUME CacheInv, Cache!Next \/ UNCHANGED Cache!vars
  PROVE  Cache!TypeOK'
<1> USE DEF Cache!TypeOK, Cache!Lock!TypeOK, Cache!lockVars, Cache!heapVars, Cache!casVars, Cache!argVars, Cache!Labels
<1>0. /\ Cache!TypeOK /\ Null \in Cache!Ptr /\ 0 \in Cache!Size /\ Cache!Block \subseteq Cache!Ptr
      /\ CacheSizes \subseteq Cache!Size /\ Cache!NoHead \in Cache!HeadType
      /\ Cache!NoOld \in [p : Cache!Ptr, size : Cache!Size]
  BY CacheConstants DEF CacheInv, Cache!Ptr, Cache!Size, Cache!NoOld
<1>loaded. ASSUME NEW t \in CacheThread, place[t] \in Stacked \cap Found
           PROVE  sz[t] \in Cache!Cached /\ cache[sz[t]] \in Cache!HeadType
  BY <1>loaded, StackTypes DEF CacheInv, CallInv, PlaceOK, Exists, Stacked, Found
<1>1. ASSUME NEW t \in CacheThread, Cache!Malloc(t) PROVE Cache!TypeOK'
  <2>1. PICK b \in Cache!Block \ made : /\ made' = made \cup {b} /\ capacity' = [capacity EXCEPT ![b] = sz[t]]
                                        /\ block' = [block EXCEPT ![t] = b] /\ UNCHANGED <<link, asked>>
    BY <1>1, FreshBlock DEF Cache!Malloc
  <2> QED BY <1>1, <1>0, <2>1, PlaceStep DEF Cache!Malloc
<1>2. ASSUME NEW t \in CacheThread, Cache!Return(t) PROVE Cache!TypeOK'
  <2>1. place' \in [CacheThread -> Cache!Labels]
    BY <1>2, <1>0, PlaceStep DEF Cache!Return
  <2>2. link' \in [Cache!Block -> Cache!Ptr \cup {Data}] /\ asked' \in [Cache!Block -> Cache!Size]
    BY <1>2, <1>0 DEF Cache!Return
  <2>3. block[t] \in Cache!Block
    BY <1>2, <1>0 DEF Cache!Return, Cache!Go, CacheInv, CallInv, PlaceOK, Given, Cache!Ptr
  <2>4. owned' \in [CacheThread -> SUBSET Cache!Block]
    BY <1>2, <1>0, <2>3 DEF Cache!Return
  <2>5. block' \in [CacheThread -> Cache!Ptr] /\ sz' \in [CacheThread -> Cache!Size]
    BY <1>2, <1>0 DEF Cache!Return
  <2> QED BY <1>2, <1>0, <2>1, <2>2, <2>3, <2>4, <2>5 DEF Cache!Return
<1>3. ASSUME NEW t \in CacheThread, Cache!Copy(t) PROVE Cache!TypeOK'
  BY <1>3, <1>0, PlaceStep DEF Cache!Copy, Cache!FreeOf
<1>4. ASSUME NEW t \in CacheThread, Cache!Free(t) PROVE Cache!TypeOK'
  BY <1>4, <1>0, PlaceStep DEF Cache!Free
<1>5. ASSUME NEW t \in CacheThread, Cache!RLock(t) PROVE Cache!TypeOK'
  BY <1>5, <1>0, PlaceStep DEF Cache!RLock, Cache!Lock!AcquireRead
<1>6. ASSUME NEW t \in CacheThread, Cache!Lookup(t) PROVE Cache!TypeOK'
  BY <1>6, <1>0, PlaceStep DEF Cache!Lookup
<1>7. ASSUME NEW t \in CacheThread, Cache!Upgrade(t) PROVE Cache!TypeOK'
  <2>1. place' \in [CacheThread -> Cache!Labels]
    BY <1>7, <1>0, PlaceStep DEF Cache!Upgrade
  <2> QED BY <1>7, <1>0, <2>1 DEF Cache!Upgrade, Cache!Lock!Claim, Cache!Lock!ReleaseRead
<1>8. ASSUME NEW t \in CacheThread, Cache!UpgradeAgain(t) PROVE Cache!TypeOK'
  BY <1>8, <1>0, PlaceStep DEF Cache!UpgradeAgain, Cache!Lock!AcquireRead
<1>9. ASSUME NEW t \in CacheThread, Cache!UpgradeFlush(t) PROVE Cache!TypeOK'
  BY <1>9, <1>0, PlaceStep DEF Cache!UpgradeFlush, Cache!Lock!Enter
<1>10. ASSUME NEW t \in CacheThread, Cache!Insert(t) PROVE Cache!TypeOK'
  <2>1. place' \in [CacheThread -> Cache!Labels]
    BY <1>10, <1>0, PlaceStep DEF Cache!Insert
  <2>2. forgotten' \subseteq Cache!Block
    BY <1>10, <1>0 DEF Cache!Insert, Cache!Chain
  <2>3. cache' \in [Cache!Cached -> Cache!HeadType \cup {Cache!NoEntry}]
    BY <1>10, <1>0 DEF Cache!Insert
  <2> QED BY <1>10, <1>0, <2>1, <2>2, <2>3 DEF Cache!Insert
<1>11. ASSUME NEW t \in CacheThread, Cache!Downgrade(t) PROVE Cache!TypeOK'
  BY <1>11, <1>0, PlaceStep DEF Cache!Downgrade, Cache!Lock!Leave
<1>12. ASSUME NEW t \in CacheThread, Cache!Load(t) PROVE Cache!TypeOK'
  <2>1. place' \in [CacheThread -> Cache!Labels]
    BY <1>12, <1>0, PlaceStep DEF Cache!Load, Cache!Loaded
  <2>2. seen' \in [CacheThread -> Cache!HeadType]
    BY <1>12, <1>0, <1>loaded DEF Cache!Load, Cache!Loaded, Stacked, Found, CacheReading
  <2> QED BY <1>12, <1>0, <2>1, <2>2 DEF Cache!Load, Cache!Loaded
<1>13. ASSUME NEW t \in CacheThread, Cache!ReadLink(t) PROVE Cache!TypeOK'
  <2>1. place' \in [CacheThread -> Cache!Labels]
    BY <1>13, <1>0, PlaceStep DEF Cache!ReadLink
  <2>2. nval' \in [CacheThread -> Cache!Ptr \cup {Data}]
    BY <1>13, <1>0 DEF Cache!ReadLink, Cache!Go, CacheInv, WatchInv, Watches, WatchOK,
       Cache!HeadType, Cache!Ptr
  <2> QED BY <1>13, <1>0, <2>1, <2>2 DEF Cache!ReadLink
<1>14. ASSUME NEW t \in CacheThread, Cache!PopCas(t) PROVE Cache!TypeOK'
  <2>1. place' \in [CacheThread -> Cache!Labels]
    BY <1>14, <1>0, PlaceStep DEF Cache!PopCas, Cache!Loaded
  <2>2. CASE Cache!CasWins(t)
    <3>1. /\ sz[t] \in Cache!Cached /\ seen[t] = cache[sz[t]] /\ seen[t].p # Null
          /\ nval[t] = link[cache[sz[t]].p] /\ seen[t].p \in Cache!Ptr /\ seen[t].tag \in Nat
      BY <1>14, <2>2, <1>0, <1>loaded DEF Cache!PopCas, Cache!CasWins, Stacked, Found, CacheReading,
                                        CacheInv, WatchInv, Watches, WatchOK, Cache!HeadType
    <3>2. nval[t] \in Cache!Ptr
      BY <3>1, HeadApart
    <3>3. Cache!Head(nval[t], seen[t].tag + 1) \in Cache!HeadType
      BY <3>1, <3>2, CacheConstants
    <3>4. /\ cache' = [cache EXCEPT ![sz[t]] = Cache!Head(nval[t], seen[t].tag + 1)]
          /\ block' = [block EXCEPT ![t] = seen[t].p] /\ seen' = [seen EXCEPT ![t] = Cache!NoHead]
      BY <1>14, <2>2 DEF Cache!PopCas
    <3>5. /\ cache' \in [Cache!Cached -> Cache!HeadType \cup {Cache!NoEntry}]
          /\ block' \in [CacheThread -> Cache!Ptr] /\ seen' \in [CacheThread -> Cache!HeadType]
      BY <1>0, <3>1, <3>3, <3>4
    <3> QED BY <1>14, <1>0, <2>1, <3>5 DEF Cache!PopCas
  <2>3. CASE ~Cache!CasWins(t)
    <3>1. seen' \in [CacheThread -> Cache!HeadType]
      BY <1>14, <2>3, <1>0, <1>loaded DEF Cache!PopCas, Cache!Loaded, Stacked, Found, CacheReading
    <3> QED BY <1>14, <1>0, <2>1, <2>3, <3>1 DEF Cache!PopCas
  <2> QED BY <2>2, <2>3
<1>15. ASSUME NEW t \in CacheThread, Cache!Carve(t) PROVE Cache!TypeOK'
  <2>1. PICK b \in Cache!Block \ made : /\ made' = made \cup {b} /\ capacity' = [capacity EXCEPT ![b] = sz[t]]
                                        /\ block' = [block EXCEPT ![t] = b] /\ UNCHANGED <<link, asked>>
    BY <1>15, FreshBlock DEF Cache!Carve
  <2> QED BY <1>15, <1>0, <2>1, PlaceStep DEF Cache!Carve
<1>16. ASSUME NEW t \in CacheThread, Cache!RUnlock(t) PROVE Cache!TypeOK'
  BY <1>16, <1>0, PlaceStep DEF Cache!RUnlock, Cache!Lock!ReleaseRead
<1>17. ASSUME NEW t \in CacheThread, Cache!PushLoad(t) PROVE Cache!TypeOK'
  <2>1. place' \in [CacheThread -> Cache!Labels]
    BY <1>17, <1>0, PlaceStep DEF Cache!PushLoad
  <2>2. seen' \in [CacheThread -> Cache!HeadType]
    BY <1>17, <1>0, <1>loaded DEF Cache!PushLoad, Cache!Go, Stacked, Found, CacheReading
  <2> QED BY <1>17, <1>0, <2>1, <2>2 DEF Cache!PushLoad
<1>18. ASSUME NEW t \in CacheThread, Cache!PushLink(t) PROVE Cache!TypeOK'
  <2>1. place' \in [CacheThread -> Cache!Labels]
    BY <1>18, <1>0, PlaceStep DEF Cache!PushLink
  <2>2. link' \in [Cache!Block -> Cache!Ptr \cup {Data}]
    BY <1>18, <1>0 DEF Cache!PushLink, Cache!HeadType
  <2> QED BY <1>18, <1>0, <2>1, <2>2 DEF Cache!PushLink
<1>19. ASSUME NEW t \in CacheThread, Cache!PushCas(t) PROVE Cache!TypeOK'
  <2>1. place' \in [CacheThread -> Cache!Labels]
    BY <1>19, <1>0, PlaceStep DEF Cache!PushCas
  <2>2. sz[t] \in Cache!Cached /\ cache[sz[t]] \in Cache!HeadType /\ seen[t].tag \in Nat
    BY <1>19, <1>0, <1>loaded DEF Cache!PushCas, Stacked, Found, CacheReading, Cache!HeadType
  <2>3. Cache!Head(block[t], seen[t].tag + 1) \in Cache!HeadType
    <3>1. \A p \in Cache!Ptr, n \in Nat : Cache!Head(p, n) \in Cache!HeadType
      BY CacheConstants
    <3>2. block[t] \in Cache!Ptr /\ seen[t].tag + 1 \in Nat
      BY <1>0, <2>2
    <3> QED BY ONLY <3>1, <3>2
  <2>4. /\ cache' \in [Cache!Cached -> Cache!HeadType \cup {Cache!NoEntry}]
        /\ block' \in [CacheThread -> Cache!Ptr] /\ seen' \in [CacheThread -> Cache!HeadType]
    BY <1>19, <1>0, <2>2, <2>3 DEF Cache!PushCas
  <2> QED BY <1>19, <1>0, <2>1, <2>4 DEF Cache!PushCas
<1>20. ASSUME NEW t \in CacheThread, Cache!PushRUnlock(t) PROVE Cache!TypeOK'
  BY <1>20, <1>0, PlaceStep DEF Cache!PushRUnlock, Cache!Lock!ReleaseRead
<1>21. ASSUME NEW t \in CacheThread, NEW b \in owned[t], Cache!Dealloc(t, b) PROVE Cache!TypeOK'
  BY <1>21, <1>0, PlaceStep DEF Cache!Dealloc, Cache!FreeOf
<1>22. ASSUME NEW t \in CacheThread, NEW s \in CacheSizes, Called(t, s) PROVE Cache!TypeOK'
  <2>1. place' \in [CacheThread -> Cache!Labels]
    BY <1>22, <1>0, PlaceStep DEF Called, Cache!Start
  <2>2. old' \in [CacheThread -> [p : Cache!Ptr, size : Cache!Size]]
    BY <1>22, <1>0 DEF Called
  <2> QED BY <1>22, <1>0, <2>1, <2>2 DEF Called, Cache!Start
<1>23. CASE UNCHANGED Cache!vars
  BY <1>23, <1>0, PlaceStep DEF Cache!vars
<1> QED BY <1>1, <1>2, <1>3, <1>4, <1>5, <1>6, <1>7, <1>8, <1>9, <1>10, <1>11, <1>12, <1>13, <1>14,
           <1>15, <1>16, <1>17, <1>18, <1>19, <1>20, <1>21, <1>22, <1>23, CacheSteps DEF Cache!Step
-----------------------------------------------------------------------------
LEMMA StacksStay ==
  ASSUME CacheInv, NEW t \in CacheThread,
         \/ Cache!Step(t)
         \/ \E s \in CacheSizes : Called(t, s)
         \/ \E b \in owned[t] : Cache!Dealloc(t, b)
  PROVE  \A s : Exists(s) => Exists(s)'
<1>1. Cache!NoHead # Cache!NoEntry /\ \A p, n : n \in Nat => Cache!Head(p, n) # Cache!NoEntry
  <2>1. Null \notin Nat /\ Cache!NoEntry.tag = Null /\ Cache!NoHead # Cache!NoEntry
    BY CacheConstants
  <2>2. \A p, n : Cache!Head(p, n).tag = n
    BY DEF Cache!Head
  <2> QED BY <2>1, <2>2
<1>2. cache \in [Cache!Cached -> Cache!HeadType \cup {Cache!NoEntry}] /\ seen[t].tag + 1 \in Nat
  BY DEF CacheInv, Cache!TypeOK, Cache!HeadType
<1>3. \/ cache' = cache
      \/ cache' = [cache EXCEPT ![sz[t]] = Cache!NoHead]
      \/ \E p : cache' = [cache EXCEPT ![sz[t]] = Cache!Head(p, seen[t].tag + 1)]
  BY DEF Called, Cache!Start, Cache!Dealloc, Cache!FreeOf, Cache!Step, Cache!Malloc, Cache!Return,
     Cache!Copy, Cache!Free, Cache!RLock, Cache!Lookup, Cache!Upgrade, Cache!UpgradeAgain, Cache!UpgradeFlush, Cache!Insert,
     Cache!Downgrade, Cache!Load, Cache!ReadLink, Cache!PopCas, Cache!Carve, Cache!RUnlock, Cache!PushLoad, Cache!PushLink,
     Cache!PushCas, Cache!PushRUnlock
<1> QED BY <1>1, <1>2, <1>3 DEF Exists

\* Nobody touches a block that somebody else has.
LEMMA MemoryOthers ==
  ASSUME CacheInv, NEW t \in CacheThread,
         \/ Cache!Step(t)
         \/ \E s \in CacheSizes : Called(t, s)
         \/ \E b \in owned[t] : Cache!Dealloc(t, b)
  PROVE  \A u \in CacheThread \ {t}, b \in Cache!Block : b \in owned[u] \/ b = block[u] =>
           asked'[b] = asked[b] /\ capacity'[b] = capacity[b] /\ link'[b] = link[b]
<1>1. /\ link \in [Cache!Block -> Cache!Ptr \cup {Data}] /\ capacity \in [Cache!Block -> Nat]
      /\ asked \in [Cache!Block -> Nat] /\ Null \notin Cache!Block
  BY CacheTypes, CacheConstants
<1>2. \A u \in CacheThread \ {t}, b \in Cache!Block : b \in owned[u] \/ b = block[u] => b # block[t] /\ b \in made
  BY BlocksApart, <1>1
<1>3. CASE Cache!NewBlock(t)
  <2>1. PICK b \in Cache!Block \ made : /\ capacity' = [capacity EXCEPT ![b] = sz[t]]
                                        /\ UNCHANGED <<link, asked>>
    BY <1>3, FreshBlock
  <2> QED BY <1>1, <1>2, <2>1
<1>4. \/ Cache!NewBlock(t)
      \/ UNCHANGED <<link, capacity, asked>>
      \/ /\ UNCHANGED capacity
         /\ asked' = asked \/ asked' = [asked EXCEPT ![block[t]] = sz[t]]
         /\ \E x : link' = [link EXCEPT ![block[t]] = x]
  BY DEF Called, Cache!Start, Cache!Dealloc, Cache!FreeOf, Cache!Step, Cache!Malloc, Cache!Return,
     Cache!Copy, Cache!Free, Cache!RLock, Cache!Lookup, Cache!Upgrade, Cache!UpgradeAgain, Cache!UpgradeFlush, Cache!Insert,
     Cache!Downgrade, Cache!Load, Cache!ReadLink, Cache!PopCas, Cache!Carve, Cache!RUnlock, Cache!PushLoad, Cache!PushLink,
     Cache!PushCas, Cache!PushRUnlock, Cache!heapVars
<1> QED BY <1>1, <1>2, <1>3, <1>4


LEMMA CallPlaceStep ==
  ASSUME CacheInv, NEW t \in CacheThread,
         \/ Cache!Step(t)
         \/ \E s \in CacheSizes : Called(t, s)
         \/ \E b \in owned[t] : Cache!Dealloc(t, b)
  PROVE  PlaceOK(t)'
<1> USE DEF PlaceOK, Cache!Go, Cache!casVars, Cache!argVars, Stacked, Found, Given, Frees, CacheReading, CacheWriting
<1>0. /\ PlaceOK(t) /\ OwnOK(t) /\ place \in [CacheThread -> Cache!Labels] /\ sz \in [CacheThread -> Cache!Size]
      /\ block \in [CacheThread -> Cache!Ptr] /\ old \in [CacheThread -> [p : Cache!Ptr, size : Cache!Size]]
      /\ Null \notin Cache!Block /\ Cache!Block \subseteq Nat /\ \A s \in CacheSizes : s \in Nat
      /\ MaxSize \in Nat
      /\ \A s : s \in Cache!Cached <=> s \in CacheSizes /\ s <= MaxSize
      /\ \A s : Exists(s) => Exists(s)'
  BY CacheConstants, StacksStay DEF CacheInv, CallInv, Cache!TypeOK
<1>1. CASE Cache!Malloc(t)
  <2>1. PICK b \in Cache!Block : block' = [block EXCEPT ![t] = b]
    BY <1>1, FreshBlock DEF Cache!Malloc
  <2> QED BY <1>1, <1>0, <2>1 DEF Cache!Malloc, Exists
<1>2. CASE Cache!Return(t)
  BY <1>2, <1>0 DEF Cache!Return
<1>3. CASE Cache!Copy(t)
  <2>1. PICK count : count = IF sz[t] < old[t].size THEN sz[t] ELSE old[t].size
    OBVIOUS
  <2>2. /\ old[t].p \in owned[t] /\ old[t].size \in CacheSizes /\ Exists(old[t].size)
        /\ sz[t] \in CacheSizes /\ Exists(sz[t])
    BY <1>3, <1>0 DEF Cache!Copy, Cache!FreeOf, OwnOK
  <2>3. count \in CacheSizes /\ Exists(count)
    BY <2>1, <2>2
  <2>4. Exists(count)'
    BY <2>3, <1>0
  <2>5. old[t].p # Null
    BY <2>2, <1>0, BlocksApart
  <2>6. /\ Cache!Go(t, "copy", IF count > MaxSize THEN "free" ELSE "d_rlock")
        /\ block' = [block EXCEPT ![t] = old[t].p] /\ sz' = [sz EXCEPT ![t] = count]
        /\ old' = [old EXCEPT ![t] = Cache!NoOld]
    BY <1>3, <2>1 DEF Cache!Copy, Cache!FreeOf
  <2> QED BY <1>0, <2>3, <2>4, <2>5, <2>6
<1>4. CASE Cache!Free(t)
  BY <1>4, <1>0 DEF Cache!Free
<1>5. CASE Cache!RLock(t)
  BY <1>5, <1>0 DEF Cache!RLock, Cache!Lock!AcquireRead
<1>6. CASE Cache!Lookup(t)
  BY <1>6, <1>0 DEF Cache!Lookup, Exists
<1>7. CASE Cache!Upgrade(t)
  BY <1>7, <1>0 DEF Cache!Upgrade, Cache!Lock!Claim, Cache!Lock!ReleaseRead
<1>8. CASE Cache!UpgradeAgain(t)
  BY <1>8, <1>0 DEF Cache!UpgradeAgain, Cache!Lock!AcquireRead
<1>9. CASE Cache!UpgradeFlush(t)
  BY <1>9, <1>0 DEF Cache!UpgradeFlush, Cache!Lock!Enter
<1>10. CASE Cache!Insert(t)
  <2>1. Exists(sz[t])'
    BY <1>10, <1>0, CacheTypes, CacheConstants DEF Cache!Insert, Exists
  <2> QED BY <1>10, <1>0, <2>1 DEF Cache!Insert
<1>11. CASE Cache!Downgrade(t)
  BY <1>11, <1>0 DEF Cache!Downgrade, Cache!Lock!Leave
<1>12. CASE Cache!Load(t)
  BY <1>12, <1>0 DEF Cache!Load, Cache!Loaded
<1>13. CASE Cache!ReadLink(t)
  BY <1>13, <1>0 DEF Cache!ReadLink
<1>14. CASE Cache!PopCas(t)
  <2>1. Cache!CasWins(t) => seen[t].p # Null
    BY <1>14 DEF CacheInv, WatchInv, WatchOK, Watches, Cache!PopCas
  <2>2. CASE Cache!CasWins(t)
    BY <1>14, <1>0, <2>1, <2>2 DEF Cache!PopCas
  <2>3. CASE ~Cache!CasWins(t)
    BY <1>14, <1>0, <2>3 DEF Cache!PopCas, Cache!Loaded
  <2> QED BY <2>2, <2>3
<1>15. CASE Cache!Carve(t)
  <2>1. PICK b \in Cache!Block : block' = [block EXCEPT ![t] = b]
    BY <1>15, FreshBlock DEF Cache!Carve
  <2> QED BY <1>15, <1>0, <2>1 DEF Cache!Carve
<1>16. CASE Cache!RUnlock(t)
  BY <1>16, <1>0 DEF Cache!RUnlock, Cache!Lock!ReleaseRead
<1>17. CASE Cache!PushLoad(t)
  BY <1>17, <1>0 DEF Cache!PushLoad
<1>18. CASE Cache!PushLink(t)
  BY <1>18, <1>0 DEF Cache!PushLink
<1>19. CASE Cache!PushCas(t)
  BY <1>19, <1>0 DEF Cache!PushCas, Cache!CasWins
<1>20. CASE Cache!PushRUnlock(t)
  BY <1>20, <1>0 DEF Cache!PushRUnlock, Cache!Lock!ReleaseRead
<1>21. ASSUME NEW b \in owned[t], Cache!Dealloc(t, b) PROVE PlaceOK(t)'
  <2>1. PICK n : n = asked[b]
    OBVIOUS
  <2>2. n \in CacheSizes /\ Exists(n)
    BY <1>0, <2>1 DEF OwnOK
  <2>3. Exists(n)'
    BY <2>2, <1>0
  <2>4. b # Null
    BY <1>0, BlocksApart
  <2>5. /\ Cache!Go(t, "idle", IF n > MaxSize THEN "free" ELSE "d_rlock") /\ old' = old
        /\ block' = [block EXCEPT ![t] = b] /\ sz' = [sz EXCEPT ![t] = n]
    BY <1>21, <2>1 DEF Cache!Dealloc, Cache!FreeOf
  <2> QED BY <1>0, <2>2, <2>3, <2>4, <2>5
<1>22. ASSUME NEW s \in CacheSizes, Called(t, s) PROVE PlaceOK(t)'
  BY <1>22, <1>0 DEF Called, Cache!Start
<1> QED BY <1>1, <1>2, <1>3, <1>4, <1>5, <1>6, <1>7, <1>8, <1>9, <1>10, <1>11, <1>12, <1>13, <1>14,
           <1>15, <1>16, <1>17, <1>18, <1>19, <1>20, <1>21, <1>22 DEF Cache!Step
LEMMA CallOwnStep ==
  ASSUME CacheInv, NEW t \in CacheThread,
         \/ Cache!Step(t)
         \/ \E s \in CacheSizes : Called(t, s)
         \/ \E b \in owned[t] : Cache!Dealloc(t, b)
  PROVE  OwnOK(t)'
<1> USE DEF OwnOK, Cache!Go, Cache!casVars, Cache!argVars, Cache!heapVars, Given
<1>0. /\ PlaceOK(t) /\ OwnOK(t) /\ place \in [CacheThread -> Cache!Labels] /\ sz \in [CacheThread -> Cache!Size]
      /\ block \in [CacheThread -> Cache!Ptr] /\ old \in [CacheThread -> [p : Cache!Ptr, size : Cache!Size]]
      /\ owned \in [CacheThread -> SUBSET Cache!Block]
      /\ capacity \in [Cache!Block -> Nat] /\ asked \in [Cache!Block -> Nat]
      /\ sz[t] \in Nat /\ old[t].size \in Nat
      /\ block[t] \notin owned[t] /\ owned[t] \subseteq made
      /\ block[t] # Null => block[t] \in Cache!Block
      /\ \A s : Exists(s) => Exists(s)'
  BY CacheTypes, BlocksApart, StacksStay DEF CacheInv, CallInv, Cache!TypeOK
<1>1. CASE Cache!Malloc(t)
  <2>1. PICK b \in Cache!Block \ made : /\ capacity' = [capacity EXCEPT ![b] = sz[t]]
                                        /\ block' = [block EXCEPT ![t] = b] /\ UNCHANGED asked
    BY <1>1, FreshBlock DEF Cache!Malloc
  <2>2. capacity'[b] = sz[t] /\ block'[t] = b /\ \A c \in owned[t] : capacity'[c] = capacity[c]
    BY <1>0, <2>1
  <2>3. owned' = owned /\ old' = old /\ sz' = sz
    BY <1>1 DEF Cache!Malloc
  <2> QED BY <1>0, <2>1, <2>2, <2>3
<1>2. CASE Cache!Return(t)
  <2>1. PICK b : b = block[t]
    OBVIOUS
  <2>2. b \in Cache!Block /\ b \notin owned[t] /\ sz[t] \in CacheSizes /\ Exists(sz[t]) /\ sz[t] <= capacity[b]
    BY <1>2, <1>0, <2>1 DEF Cache!Return, PlaceOK, Found
  <2>3. /\ owned' = [owned EXCEPT ![t] = @ \cup {b}] /\ asked' = [asked EXCEPT ![b] = sz[t]]
        /\ UNCHANGED <<capacity, old>>
    BY <1>2, <2>1 DEF Cache!Return
  <2>4. place'[t] \notin Given
    BY <1>2, <1>0 DEF Cache!Return
  <2>5. owned'[t] = owned[t] \cup {b} /\ asked'[b] = sz[t] /\ \A c \in owned[t] : asked'[c] = asked[c]
    BY <1>0, <2>2, <2>3
  <2>6. \A c \in owned'[t] : asked'[c] \in CacheSizes /\ Exists(asked'[c]) /\ asked'[c] <= capacity'[c]
    BY <1>0, <2>2, <2>3, <2>5
  <2>7. cache' = cache
    BY <1>2 DEF Cache!Return
  <2> QED BY <1>0, <2>3, <2>4, <2>5, <2>6, <2>7 DEF Exists
<1>3. CASE Cache!Copy(t)
  <2>1. PICK b : b = old[t].p
    OBVIOUS
  <2>2. b \in owned[t] /\ asked[b] = old[t].size /\ asked[b] <= capacity[b]
    BY <1>3, <1>0, <2>1 DEF Cache!Copy, Cache!FreeOf, PlaceOK
  <2>3. sz'[t] <= asked[b] /\ block'[t] = b /\ owned'[t] \subseteq owned[t] /\ old'[t] = Cache!NoOld
        /\ sz'[t] \in Nat
    BY <1>3, <1>0, <2>1, <2>2 DEF Cache!Copy, Cache!FreeOf
  <2>4. UNCHANGED <<cache, asked, capacity>>
    BY <1>3 DEF Cache!Copy
  <2> QED BY <1>0, <2>2, <2>3, <2>4 DEF Exists
<1>4. CASE Cache!Free(t)
  BY <1>4, <1>0 DEF Cache!Free
<1>5. CASE Cache!RLock(t)
  BY <1>5, <1>0 DEF Cache!RLock, Cache!Lock!AcquireRead
<1>6. CASE Cache!Lookup(t)
  BY <1>6, <1>0 DEF Cache!Lookup
<1>7. CASE Cache!Upgrade(t)
  BY <1>7, <1>0 DEF Cache!Upgrade, Cache!Lock!Claim, Cache!Lock!ReleaseRead
<1>8. CASE Cache!UpgradeAgain(t)
  BY <1>8, <1>0 DEF Cache!UpgradeAgain, Cache!Lock!AcquireRead
<1>9. CASE Cache!UpgradeFlush(t)
  BY <1>9, <1>0 DEF Cache!UpgradeFlush, Cache!Lock!Enter
<1>10. CASE Cache!Insert(t)
  BY <1>10, <1>0 DEF Cache!Insert
<1>11. CASE Cache!Downgrade(t)
  BY <1>11, <1>0 DEF Cache!Downgrade, Cache!Lock!Leave
<1>12. CASE Cache!Load(t)
  BY <1>12, <1>0 DEF Cache!Load, Cache!Loaded
<1>13. CASE Cache!ReadLink(t)
  BY <1>13, <1>0 DEF Cache!ReadLink
<1>14. CASE Cache!PopCas(t)
  <2>1. CASE Cache!CasWins(t)
    <3>1. sz[t] \in Cache!Cached
      BY <1>14, StackTypes DEF Cache!PopCas, Stacked, CacheReading
    <3>2. seen[t].p = cache[sz[t]].p /\ seen[t].p # Null
      BY <1>14, <2>1 DEF CacheInv, WatchInv, WatchOK, Watches, Cache!PopCas, Cache!CasWins
    <3>3. sz[t] <= capacity[seen[t].p]
      BY <3>1, <3>2, HeadApart
    <3>4. block'[t] = seen[t].p /\ UNCHANGED <<sz, old, asked, capacity, owned>>
      BY <1>14, <2>1, <1>0 DEF Cache!PopCas
    <3> QED BY <1>0, <3>3, <3>4
  <2>2. CASE ~Cache!CasWins(t)
    BY <1>14, <1>0, <2>2 DEF Cache!PopCas, Cache!Loaded
  <2> QED BY <2>1, <2>2
<1>15. CASE Cache!Carve(t)
  <2>1. PICK b \in Cache!Block \ made : /\ capacity' = [capacity EXCEPT ![b] = sz[t]]
                                        /\ block' = [block EXCEPT ![t] = b] /\ UNCHANGED asked
    BY <1>15, FreshBlock DEF Cache!Carve
  <2>2. capacity'[b] = sz[t] /\ block'[t] = b /\ \A c \in owned[t] : capacity'[c] = capacity[c]
    BY <1>0, <2>1
  <2>3. owned' = owned /\ old' = old /\ sz' = sz
    BY <1>15 DEF Cache!Carve
  <2> QED BY <1>0, <2>1, <2>2, <2>3
<1>16. CASE Cache!RUnlock(t)
  BY <1>16, <1>0 DEF Cache!RUnlock, Cache!Lock!ReleaseRead
<1>17. CASE Cache!PushLoad(t)
  BY <1>17, <1>0 DEF Cache!PushLoad
<1>18. CASE Cache!PushLink(t)
  BY <1>18, <1>0 DEF Cache!PushLink
<1>19. CASE Cache!PushCas(t)
  BY <1>19, <1>0 DEF Cache!PushCas, Cache!CasWins
<1>20. CASE Cache!PushRUnlock(t)
  BY <1>20, <1>0 DEF Cache!PushRUnlock, Cache!Lock!ReleaseRead
<1>21. ASSUME NEW b \in owned[t], Cache!Dealloc(t, b) PROVE OwnOK(t)'
  <2>1. sz'[t] = asked[b] /\ block'[t] = b /\ owned'[t] \subseteq owned[t] /\ old' = old
    BY <1>21, <1>0 DEF Cache!Dealloc, Cache!FreeOf
  <2>2. old[t] = Cache!NoOld /\ UNCHANGED <<cache, asked, capacity>>
    BY <1>21 DEF Cache!Dealloc, Cache!FreeOf, PlaceOK, CacheInv, CallInv
  <2> QED BY <1>0, <2>1, <2>2 DEF Exists
<1>22. ASSUME NEW s \in CacheSizes, Called(t, s) PROVE OwnOK(t)'
  BY <1>22, <1>0 DEF Called, Cache!Start
<1> QED BY <1>1, <1>2, <1>3, <1>4, <1>5, <1>6, <1>7, <1>8, <1>9, <1>10, <1>11, <1>12, <1>13, <1>14,
           <1>15, <1>16, <1>17, <1>18, <1>19, <1>20, <1>21, <1>22 DEF Cache!Step

LEMMA CallStep ==
  ASSUME CacheInv, NEW t \in CacheThread,
         \/ Cache!Step(t)
         \/ \E s \in CacheSizes : Called(t, s)
         \/ \E b \in owned[t] : Cache!Dealloc(t, b)
  PROVE  CallInv'
<1>1. PlaceOK(t)' /\ OwnOK(t)'
  BY CallPlaceStep, CallOwnStep
<1>2. ASSUME NEW u \in CacheThread \ {t} PROVE PlaceOK(u)' /\ OwnOK(u)'
  <2>1. /\ place'[u] = place[u] /\ sz'[u] = sz[u] /\ block'[u] = block[u] /\ old'[u] = old[u] /\ owned'[u] = owned[u]
    BY CacheOthers
  <2>2. PlaceOK(u) /\ OwnOK(u)
    BY DEF CacheInv, CallInv
  <2>3. PICK n, a : n = sz[u] /\ a = old[u].p
    OBVIOUS
  <2>4. Exists(n) => Exists(n)'
    BY StacksStay
  <2>5. PlaceOK(u)'
    BY <2>1, <2>2, <2>3, <2>4 DEF PlaceOK
  <2>6. \A b \in owned[u] : asked'[b] = asked[b] /\ capacity'[b] = capacity[b]
    BY MemoryOthers, BlocksApart
  <2>7. place[u] \in Given => capacity'[block[u]] = capacity[block[u]]
    BY <2>2, MemoryOthers, BlocksApart DEF PlaceOK
  <2>8. \A b \in owned[u] : asked'[b] \in CacheSizes /\ Exists(asked[b])'
    <3> SUFFICES ASSUME NEW b \in owned[u] PROVE asked'[b] \in CacheSizes /\ Exists(asked[b])'
      OBVIOUS
    <3>1. PICK k : k = asked[b]
      OBVIOUS
    <3>2. k \in CacheSizes /\ Exists(k) /\ asked'[b] = k
      BY <2>2, <2>6, <3>1 DEF OwnOK
    <3>3. Exists(k)'
      BY <3>2, StacksStay
    <3> QED BY <3>2, <3>3
  <2>9. OwnOK(u)'
    BY <2>1, <2>2, <2>3, <2>6, <2>7, <2>8 DEF OwnOK
  <2> QED BY <2>5, <2>9
<1> QED BY <1>1, <1>2 DEF CallInv
-----------------------------------------------------------------------------
\* A step that hands nothing over and changes only links of blocks in use.
LEMMA StacksKept ==
  ASSUME CacheInv, UNCHANGED <<cache, made, capacity, forgotten>>,
         \A u \in CacheThread : Holding(u)' = Holding(u) /\ block'[u] \notin owned'[u],
         \A b \in Cache!Block : link'[b] = link[b] \/ \E u \in CacheThread : b \in Holding(u)
  PROVE  StacksInv'
<1>1. PICK F \in [Cache!Cached -> SUBSET Cache!Block] : Lists(F) /\ Parted(F)
  BY DEF CacheInv, StacksInv
<1>2. Lists(F)'
  <2>1. ASSUME NEW s \in Cache!Cached PROVE ListOf(Cache!Block, Null, link', cache'[s].p, F[s])
    <3>1. \A b \in F[s] : link'[b] = link[b]
      BY <1>1 DEF Parted
    <3>2. PICK p : p = cache[s].p
      OBVIOUS
    <3>3. ListOf(Cache!Block, Null, link, p, F[s])
      BY <1>1, <3>2 DEF Lists
    <3>4. PICK links : links = link'
      OBVIOUS
    <3>5. ListOf(Cache!Block, Null, links, p, F[s])
      BY <3>1, <3>3, <3>4, SameLinks
    <3> QED BY <3>2, <3>4, <3>5
  <2> QED BY <2>1 DEF Lists
<1>3. Parted(F)'
  BY <1>1 DEF Parted
<1> QED BY <1>1, <1>2, <1>3 DEF StacksInv

\* A new block joins what a thread has in hand.
LEMMA StacksCarved ==
  ASSUME CacheInv, NEW t \in CacheThread, Cache!NewBlock(t), place[t] \notin Given, UNCHANGED <<cache, owned, forgotten>>
  PROVE  StacksInv'
<1>1. PICK F \in [Cache!Cached -> SUBSET Cache!Block] : Lists(F) /\ Parted(F)
  BY DEF CacheInv, StacksInv
<1>2. PICK b \in Cache!Block \ made :
        /\ made' = made \cup {b} /\ capacity' = [capacity EXCEPT ![b] = sz[t]]
        /\ block' = [block EXCEPT ![t] = b] /\ link' = link
  BY FreshBlock
<1>3. /\ block[t] = Null /\ b # Null /\ block \in [CacheThread -> Cache!Ptr]
      /\ capacity \in [Cache!Block -> Nat]
  BY CacheConstants, CacheTypes DEF CacheInv, CallInv, PlaceOK, Cache!TypeOK
<1>4. Lists(F)'
  BY <1>1, <1>2 DEF Lists
<1>5. /\ \A u \in CacheThread : Holding(u)' = IF u = t THEN Holding(t) \cup {b} ELSE Holding(u)
      /\ \A u \in CacheThread : Holding(u) \subseteq made /\ block'[u] = IF u = t THEN b ELSE block[u]
  BY <1>1, <1>2, <1>3 DEF Holding, Parted
<1>6. \A c \in made : capacity'[c] = capacity[c]
  BY <1>2, <1>3 DEF CacheInv, Cache!TypeOK
<1>7. Parted(F)'
  <2>1. \A s \in Cache!Cached : /\ F[s] \subseteq made' /\ b \notin F[s]
                                /\ \A c \in F[s] : s <= capacity'[c]
                                /\ \A u \in CacheThread : Holding(u)' \cap F[s] = {}
    BY <1>1, <1>2, <1>5, <1>6 DEF Parted
  <2>2. \A s, u \in Cache!Cached : s # u => F[s] \cap F[u] = {}
    BY <1>1 DEF Parted
  <2>3. \A u \in CacheThread : Holding(u)' \subseteq made' /\ block'[u] \notin owned'[u]
    BY <1>1, <1>2, <1>5 DEF Parted, Holding
  <2>4. \A u, v \in CacheThread : u # v => Holding(u)' \cap Holding(v)' = {}
    BY <1>1, <1>2, <1>5 DEF Parted
  <2>5. \A c \in made' : capacity'[c] <= MaxSize /\ c \notin forgotten' =>
          (\E s \in Cache!Cached : c \in F[s]) \/ (\E u \in CacheThread : c \in Holding(u)')
    BY <1>1, <1>2, <1>5, <1>6 DEF Parted
  <2> QED BY <2>1, <2>2, <2>3, <2>4, <2>5 DEF Parted
<1> QED BY <1>1, <1>4, <1>7 DEF StacksInv

\* free: what malloc has made is nobody's block any more.
LEMMA StacksFreed ==
  ASSUME CacheInv, NEW t \in CacheThread, Cache!Free(t)
  PROVE  StacksInv'
<1>1. PICK F \in [Cache!Cached -> SUBSET Cache!Block] : Lists(F) /\ Parted(F)
  BY DEF CacheInv, StacksInv
<1>2. /\ UNCHANGED <<cache, link, made, capacity, owned, forgotten>>
      /\ block' = [block EXCEPT ![t] = Null] /\ block \in [CacheThread -> Cache!Ptr]
      /\ block[t] # Null /\ ~(capacity[block[t]] <= MaxSize)
  <2>1. block[t] # Null /\ sz[t] > MaxSize /\ sz[t] <= capacity[block[t]]
    BY DEF Cache!Free, Cache!Go, CacheInv, CallInv, PlaceOK, OwnOK, Given
  <2>2. sz[t] \in Nat /\ MaxSize \in Nat /\ capacity[block[t]] \in Nat
    BY <2>1, BlocksApart, CacheTypes, CacheConstants
  <2> QED BY <2>1, <2>2 DEF Cache!Free, Cache!heapVars, CacheInv, Cache!TypeOK
<1>3. Lists(F)'
  BY <1>1, <1>2 DEF Lists
<1>4. \A u \in CacheThread : /\ Holding(u)' = IF u = t THEN owned[t] ELSE Holding(u)
                             /\ block'[u] = IF u = t THEN Null ELSE block[u]
  BY <1>2 DEF Holding
<1>5. Null \notin made
  BY CacheConstants DEF CacheInv, Cache!TypeOK
<1>6. Parted(F)'
  <2>1. \A u \in CacheThread : Holding(u)' \subseteq Holding(u) /\ block'[u] \notin owned'[u]
    BY <1>1, <1>2, <1>4, <1>5 DEF Parted, Holding
  <2>2. \A c \in made : capacity[c] <= MaxSize => \A u \in CacheThread : c \in Holding(u) => c \in Holding(u)'
    BY <1>2, <1>4 DEF Holding
  <2> QED BY <1>1, <1>2, <2>1, <2>2 DEF Parted
<1> QED BY <1>1, <1>3, <1>6 DEF StacksInv


\* Following the links of a list meets its blocks and nothing else.
LEMMA CacheChain == ASSUME NEW p, NEW F, ListOf(Cache!Block, Null, link, p, F)
                    PROVE  Cache!Chain(p) = F /\ Cache!Follow(p)[MaxBlock] = Null
<1>1. /\ Null \notin Cache!Block /\ MaxBlock \in Nat
      /\ IsFiniteSet(Cache!Block) /\ Cardinality(Cache!Block) <= MaxBlock
  BY CacheConstants, FS_Interval
<1>2. \E at : Followed(at, Cache!Block, link, p, MaxBlock)
  BY <1>1, ListIsWalked
<1>3. Followed(Cache!Follow(p), Cache!Block, link, p, MaxBlock)
  BY <1>2, Zenon DEF Cache!Follow, Followed
<1>4. PICK f : f = Cache!Follow(p)
  OBVIOUS
<1>5. Followed(f, Cache!Block, link, p, MaxBlock)
  BY <1>3, <1>4
<1>6. Meets(f, Cache!Block, Null, F, MaxBlock)
  BY <1>1, <1>5, ListIsChain
<1> QED BY <1>4, <1>6 DEF Meets, Cache!Chain

\* Insert makes a stack empty; what was on the one it overwrites is forgotten.
LEMMA StacksInserted ==
  ASSUME CacheInv, NEW t \in CacheThread, Cache!Insert(t)
  PROVE  StacksInv'
<1>1. PICK F \in [Cache!Cached -> SUBSET Cache!Block] : Lists(F) /\ Parted(F)
  BY DEF CacheInv, StacksInv
<1>2. PICK z, p : z = sz[t] /\ p = cache[z].p
  OBVIOUS
<1>3. /\ z \in Cache!Cached /\ ListOf(Cache!Block, Null, link, p, F[z])
      /\ cache' = [cache EXCEPT ![z] = Cache!NoHead]
      /\ forgotten' = forgotten \cup Cache!Chain(p)
      /\ UNCHANGED <<link, made, capacity, owned, block>>
  BY <1>1, <1>2, StackTypes DEF Lists, Cache!Insert, Cache!Go, Stacked, CacheWriting,
     Cache!heapVars, Cache!argVars
<1>4. Cache!Chain(p) = F[z]
  BY <1>3, CacheChain
<1> DEFINE G == [F EXCEPT ![z] = {}]
<1>5. G \in [Cache!Cached -> SUBSET Cache!Block]
  OBVIOUS
<1>6. \A s \in Cache!Cached : G[s] = IF s = z THEN {} ELSE F[s]
  OBVIOUS
<1> HIDE DEF G
<1>7. Lists(G)'
  <2>1. cache'[z].p = Null /\ \A s \in Cache!Cached : s # z => cache'[s] = cache[s]
    BY <1>3, CacheTypes, CacheConstants
  <2>2. ListOf(Cache!Block, Null, link', Null, {})
    BY EmptyList
  <2> QED BY <1>1, <1>3, <1>6, <2>1, <2>2 DEF Lists
<1>8. Parted(G)'
  <2>1. \A u \in CacheThread : Holding(u)' = Holding(u)
    BY <1>3 DEF Holding
  <2> QED BY <1>1, <1>3, <1>4, <1>6, <2>1 DEF Parted
<1> QED BY <1>5, <1>7, <1>8 DEF StacksInv

\* The pop: the link read long ago is still the one below the block.
LEMMA StacksPopped ==
  ASSUME CacheInv, NEW t \in CacheThread, Cache!PopCas(t), Cache!CasWins(t)
  PROVE  StacksInv'
<1>1. PICK F \in [Cache!Cached -> SUBSET Cache!Block] : Lists(F) /\ Parted(F)
  BY DEF CacheInv, StacksInv
<1>2. PICK z, p : z = sz[t] /\ p = cache[z].p
  OBVIOUS
<1>3. /\ z \in Cache!Cached /\ p # Null /\ nval[t] = link[p] /\ seen[t].p = p /\ block[t] = Null
  BY <1>2, StackTypes DEF Cache!PopCas, Cache!CasWins, Stacked, CacheReading, CacheInv,
     WatchInv, WatchOK, Watches,
                          CallInv, PlaceOK, Given
<1>4. /\ cache' = [cache EXCEPT ![z] = Cache!Head(link[p], seen[t].tag + 1)]
      /\ block' = [block EXCEPT ![t] = p]
      /\ UNCHANGED <<link, made, capacity, owned, forgotten>>
  BY <1>2, <1>3 DEF Cache!PopCas, Cache!heapVars
<1>5. PICK D : D = F[z] /\ ListOf(Cache!Block, Null, link, p, D) /\ p # Null
  BY <1>1, <1>2, <1>3 DEF Lists
<1>6. /\ p \in D /\ p \in Cache!Block /\ ListOf(Cache!Block, Null, link, link[p], D \ {p})
  BY ONLY <1>5, Popped
<1> DEFINE G == [F EXCEPT ![z] = @ \ {p}]
<1>7. G \in [Cache!Cached -> SUBSET Cache!Block]
  OBVIOUS
<1>8. \A s \in Cache!Cached : G[s] = IF s = z THEN D \ {p} ELSE F[s]
  BY <1>5
<1> HIDE DEF G
<1>9. Lists(G)'
  <2>1. cache'[z].p = link[p] /\ \A s \in Cache!Cached : s # z => cache'[s] = cache[s]
    BY <1>3, <1>4, CacheTypes, CacheConstants
  <2> QED BY <1>1, <1>4, <1>6, <1>8, <2>1 DEF Lists
<1>10. Parted(G)'
  <2>1. block \in [CacheThread -> Cache!Ptr] /\ p # Null
    BY <1>3 DEF CacheInv, Cache!TypeOK
  <2>2. \A u \in CacheThread : /\ Holding(u)' = IF u = t THEN Holding(t) \cup {p} ELSE Holding(u)
                               /\ block'[u] = IF u = t THEN p ELSE block[u]
    BY <1>3, <1>4, <2>1 DEF Holding
  <2>3. p \in made /\ \A u \in CacheThread : p \notin Holding(u)
    BY <1>1, <1>3, <1>5, <1>6 DEF Parted
  <2>4. \A s \in Cache!Cached : /\ G[s] \subseteq made' /\ G[s] \subseteq F[s] /\ p \notin G[s]
                                /\ \A c \in G[s] : s <= capacity'[c]
                                /\ \A u \in CacheThread : Holding(u)' \cap G[s] = {}
    BY <1>1, <1>3, <1>4, <1>5, <1>6, <1>8, <2>2 DEF Parted
  <2>5. \A s, u \in Cache!Cached : s # u => G[s] \cap G[u] = {}
    BY <1>1, <2>4 DEF Parted
  <2>6. \A u \in CacheThread : Holding(u)' \subseteq made' /\ block'[u] \notin owned'[u]
    BY <1>1, <1>4, <2>2, <2>3 DEF Parted, Holding
  <2>7. \A u, v \in CacheThread : u # v => Holding(u)' \cap Holding(v)' = {}
    BY <1>1, <2>2, <2>3 DEF Parted
  <2>8. \A c \in made' : capacity'[c] <= MaxSize /\ c \notin forgotten' =>
          (\E s \in Cache!Cached : c \in G[s]) \/ (\E u \in CacheThread : c \in Holding(u)')
    <3> SUFFICES ASSUME NEW c \in made, capacity[c] <= MaxSize, c \notin forgotten
                 PROVE  (\E s \in Cache!Cached : c \in G[s]) \/ (\E u \in CacheThread : c \in Holding(u)')
      BY <1>4
    <3>1. (\E s \in Cache!Cached : c \in F[s]) \/ (\E u \in CacheThread : c \in Holding(u))
      BY <1>1 DEF Parted
    <3> QED BY <3>1, <1>5, <1>8, <2>2
  <2> QED BY <2>4, <2>5, <2>6, <2>7, <2>8 DEF Parted
<1> QED BY <1>7, <1>9, <1>10 DEF StacksInv

\* The push: the block's link leads to the head that it replaces.
LEMMA StacksPushed ==
  ASSUME CacheInv, NEW t \in CacheThread, Cache!PushCas(t), Cache!CasWins(t)
  PROVE  StacksInv'
<1>1. PICK F \in [Cache!Cached -> SUBSET Cache!Block] : Lists(F) /\ Parted(F)
  BY DEF CacheInv, StacksInv
<1>2. PICK z, p, b : z = sz[t] /\ p = cache[z].p /\ b = block[t]
  OBVIOUS
<1>3. /\ z \in Cache!Cached /\ b # Null /\ b \in Cache!Block /\ b \in made /\ z <= capacity[b] /\ link[b] = p
      /\ b \in Holding(t) /\ b \notin owned[t]
  <2>1. z \in Cache!Cached /\ link[b] = p
    BY <1>2, StackTypes DEF Cache!PushCas, Cache!CasWins, Stacked, CacheReading, CacheInv,
       WatchInv, WatchOK, Watches
  <2>2. b # Null /\ z <= capacity[b]
    BY <1>2 DEF Cache!PushCas, CacheInv, CallInv, PlaceOK, OwnOK, Given
  <2> QED BY <1>2, <2>1, <2>2, BlocksApart DEF Holding
<1>4. /\ cache' = [cache EXCEPT ![z] = Cache!Head(b, seen[t].tag + 1)]
      /\ block' = [block EXCEPT ![t] = Null]
      /\ UNCHANGED <<link, made, capacity, owned, forgotten>>
  BY <1>2 DEF Cache!PushCas, Cache!heapVars
<1>5. ListOf(Cache!Block, Null, link, p, F[z]) /\ b \notin F[z]
  BY <1>1, <1>2, <1>3 DEF Lists, Parted
<1>6. ListOf(Cache!Block, Null, link, b, F[z] \cup {b})
  BY ONLY <1>3, <1>5, PushedOne
<1> DEFINE G == [F EXCEPT ![z] = @ \cup {b}]
<1>7. G \in [Cache!Cached -> SUBSET Cache!Block]
  BY <1>3
<1>8. \A s \in Cache!Cached : G[s] = IF s = z THEN F[z] \cup {b} ELSE F[s]
  OBVIOUS
<1> HIDE DEF G
<1>9. Lists(G)'
  <2>1. cache'[z].p = b /\ \A s \in Cache!Cached : s # z => cache'[s] = cache[s]
    BY <1>3, <1>4, CacheTypes, CacheConstants
  <2> QED BY <1>1, <1>4, <1>6, <1>8, <2>1 DEF Lists
<1>10. Parted(G)'
  <2>1. block \in [CacheThread -> Cache!Ptr]
    BY DEF CacheInv, Cache!TypeOK
  <2>2. \A u \in CacheThread : /\ Holding(u)' = IF u = t THEN Holding(t) \ {b} ELSE Holding(u)
                               /\ block'[u] = IF u = t THEN Null ELSE block[u]
    BY <1>2, <1>3, <1>4, <2>1 DEF Holding
  <2>3. \A u \in CacheThread : b \in Holding(u) => u = t
    BY <1>1, <1>3 DEF Parted
  <2>4. \A s \in Cache!Cached : /\ G[s] \subseteq made'
                                /\ \A c \in G[s] : s <= capacity'[c]
                                /\ \A u \in CacheThread : Holding(u)' \cap G[s] = {}
    BY <1>1, <1>3, <1>4, <1>8, <2>2, <2>3 DEF Parted
  <2>5. \A s, u \in Cache!Cached : s # u => G[s] \cap G[u] = {}
    BY <1>1, <1>3, <1>8 DEF Parted
  <2>6. \A u \in CacheThread : Holding(u)' \subseteq made' /\ block'[u] \notin owned'[u]
    <3>1. Null \notin made
      BY CacheConstants DEF CacheInv, Cache!TypeOK
    <3> QED BY <1>1, <1>4, <2>2, <3>1 DEF Parted, Holding
  <2>7. \A u, v \in CacheThread : u # v => Holding(u)' \cap Holding(v)' = {}
    BY <1>1, <2>2 DEF Parted
  <2>8. \A c \in made' : capacity'[c] <= MaxSize /\ c \notin forgotten' =>
          (\E s \in Cache!Cached : c \in G[s]) \/ (\E u \in CacheThread : c \in Holding(u)')
    <3> SUFFICES ASSUME NEW c \in made, capacity[c] <= MaxSize, c \notin forgotten
                 PROVE  (\E s \in Cache!Cached : c \in G[s]) \/ (\E u \in CacheThread : c \in Holding(u)')
      BY <1>4
    <3>1. (\E s \in Cache!Cached : c \in F[s]) \/ (\E u \in CacheThread : c \in Holding(u))
      BY <1>1 DEF Parted
    <3> QED BY <3>1, <1>3, <1>8, <2>2
  <2> QED BY <2>4, <2>5, <2>6, <2>7, <2>8 DEF Parted
<1> QED BY <1>7, <1>9, <1>10 DEF StacksInv


LEMMA StacksStep ==
  ASSUME CacheInv, NEW t \in CacheThread,
         \/ Cache!Step(t)
         \/ \E s \in CacheSizes : Called(t, s)
         \/ \E b \in owned[t] : Cache!Dealloc(t, b)
  PROVE  StacksInv'
<1>1. CASE Cache!Free(t)
  BY <1>1, StacksFreed
<1>2. CASE Cache!Insert(t)
  BY <1>2, StacksInserted
<1>3. CASE Cache!PopCas(t) /\ Cache!CasWins(t)
  BY <1>3, StacksPopped
<1>4. CASE Cache!PushCas(t) /\ Cache!CasWins(t)
  BY <1>4, StacksPushed
<1>5. CASE Cache!Malloc(t) \/ Cache!Carve(t)
  BY <1>5, StacksCarved DEF Cache!Malloc, Cache!Carve, Cache!Go, Given
<1> DEFINE Other == /\ ~Cache!Free(t) /\ ~Cache!Insert(t) /\ ~(Cache!PopCas(t) /\ Cache!CasWins(t))
                    /\ ~(Cache!PushCas(t) /\ Cache!CasWins(t)) /\ ~(Cache!Malloc(t) \/ Cache!Carve(t))
<1>6. CASE Other
  <2>1. UNCHANGED <<cache, made, capacity, forgotten>>
    BY <1>6 DEF Called, Cache!Start, Cache!Dealloc, Cache!FreeOf, Cache!Step, Cache!Return,
       Cache!Copy, Cache!RLock, Cache!Lookup, Cache!Upgrade, Cache!UpgradeAgain, Cache!UpgradeFlush,
       Cache!Downgrade, Cache!Load, Cache!ReadLink, Cache!PopCas, Cache!RUnlock, Cache!PushLoad, Cache!PushLink,
       Cache!PushCas, Cache!PushRUnlock, Cache!heapVars
  <2>2. /\ \/ owned' = owned /\ block' = block
           \/ /\ place[t] = "a_return" /\ block' = [block EXCEPT ![t] = Null]
              /\ owned' = [owned EXCEPT ![t] = @ \cup {block[t]}]
           \/ \E b \in owned[t] : /\ block' = [block EXCEPT ![t] = b] /\ owned' = [owned EXCEPT ![t] = @ \ {b}]
                                  /\ place[t] \in {"idle", "copy"}
        /\ \/ link' = link
           \/ \E x : link' = [link EXCEPT ![block[t]] = x] /\ place[t] \in Given
    <3>1. place[t] = "copy" => old[t].p \in owned[t]
      BY DEF CacheInv, CallInv, PlaceOK, OwnOK
    <3>2. CASE Cache!Copy(t)
      BY <3>1, <3>2 DEF Cache!Copy, Cache!FreeOf, Cache!Go, Cache!heapVars
    <3>3. CASE \E b \in owned[t] : Cache!Dealloc(t, b)
      BY <3>3 DEF Cache!Dealloc, Cache!FreeOf, Cache!Go, Cache!heapVars
    <3>4. CASE Cache!Return(t)
      BY <3>4 DEF Cache!Return, Cache!Go, Given
    <3>5. CASE Cache!PushLink(t)
      BY <3>5 DEF Cache!PushLink, Cache!Go, Given, Cache!argVars
    <3>6. CASE ~Cache!Copy(t) /\ ~(\E b \in owned[t] : Cache!Dealloc(t, b)) /\ ~Cache!Return(t) /\ ~Cache!PushLink(t)
      BY <1>6, <3>6 DEF Called, Cache!Start, Cache!Step,
         Cache!RLock, Cache!Lookup, Cache!Upgrade, Cache!UpgradeAgain, Cache!UpgradeFlush,
         Cache!Downgrade, Cache!Load, Cache!ReadLink, Cache!PopCas, Cache!RUnlock, Cache!PushLoad,
         Cache!PushCas, Cache!PushRUnlock, Cache!heapVars, Cache!argVars
    <3> QED BY <3>2, <3>3, <3>4, <3>5, <3>6
  <2> HIDE DEF Other
  <2>3. /\ owned \in [CacheThread -> SUBSET Cache!Block] /\ block \in [CacheThread -> Cache!Ptr]
        /\ link \in [Cache!Block -> Cache!Ptr \cup {Data}] /\ Null \notin Cache!Block
        /\ block[t] # Null <=> place[t] \in Given
        /\ \A u \in CacheThread : block[u] \notin owned[u]
    BY CacheConstants, BlocksApart DEF CacheInv, Cache!TypeOK, CallInv, PlaceOK
  <2>4. ASSUME NEW u \in CacheThread PROVE Holding(u)' = Holding(u) /\ block'[u] \notin owned'[u]
    BY <2>2, <2>3 DEF Holding, Given
  <2>5. ASSUME NEW b \in Cache!Block PROVE link'[b] = link[b] \/ \E u \in CacheThread : b \in Holding(u)
    BY <2>2, <2>3 DEF Holding
  <2> QED BY <2>1, <2>4, <2>5, StacksKept
<1> QED BY <1>1, <1>2, <1>3, <1>4, <1>5, <1>6
-----------------------------------------------------------------------------
\* Who watches a stack reads it, so its entry is there.
LEMMA Watched == ASSUME CacheInv, NEW t \in CacheThread, place[t] \in Watches \cup {"a_load", "d_load"}
                 PROVE  /\ sz[t] \in Cache!Cached /\ cache[sz[t]] \in Cache!HeadType
                        /\ seen[t] \in Cache!HeadType /\ place[t] \in CacheReading
<1>1. sz[t] \in Cache!Cached
  BY StackTypes DEF Watches, Stacked, CacheReading
<1>2. cache[sz[t]] # Cache!NoEntry
  BY <1>1 DEF CacheInv, CallInv, PlaceOK, Found, Exists, Watches
<1> QED BY <1>1, <1>2 DEF CacheInv, Cache!TypeOK, Watches, CacheReading

\* Nobody reads while an entry is made.
LEMMA InsertAlone == ASSUME CacheInv, NEW t \in CacheThread, NEW u \in CacheThread \ {t},
                            place[t] \in CacheWriting, place[u] \in CacheReading
                     PROVE  FALSE
BY DEF CacheInv, CacheLockInv, Cache!Lock!OthersHoldNothing, CacheReading, CacheWriting

LEMMA WatchOthers ==
  ASSUME CacheInv, NEW t \in CacheThread, NEW u \in CacheThread \ {t}, place[u] \in Watches,
         \/ Cache!Step(t)
         \/ \E s \in CacheSizes : Called(t, s)
         \/ \E b \in owned[t] : Cache!Dealloc(t, b)
  PROVE  WatchOK(u)'
<1>1. /\ place'[u] = place[u] /\ sz'[u] = sz[u] /\ block'[u] = block[u] /\ seen'[u] = seen[u] /\ nval'[u] = nval[u]
  BY CacheOthers
<1>2. /\ sz[u] \in Cache!Cached /\ cache[sz[u]] \in Cache!HeadType /\ seen[u] \in Cache!HeadType
      /\ place[u] \in CacheReading
  BY Watched
<1>3. WatchOK(u)
  BY DEF CacheInv, WatchInv
<1>4. place[u] = "d_cas" => link'[block[u]] = link[block[u]]
  <2>1. place[u] = "d_cas" => block[u] # Null
    BY DEF CacheInv, CallInv, PlaceOK, Given
  <2> QED BY <2>1, MemoryOthers, BlocksApart
<1>5. seen[u] = cache[sz[u]] /\ place[u] = "a_cas" => link'[seen[u].p] = link[seen[u].p]
  <2> SUFFICES ASSUME seen[u] = cache[sz[u]], place[u] = "a_cas" PROVE link'[seen[u].p] = link[seen[u].p]
    OBVIOUS
  <2>1. seen[u].p # Null
    BY <1>3 DEF WatchOK
  <2>2. seen[u].p \in Cache!Block /\ seen[u].p # block[t]
    BY <1>2, <2>1, HeadApart
  <2>3. link' = link \/ \E x : link' = [link EXCEPT ![block[t]] = x]
    BY DEF Called, Cache!Start, Cache!Dealloc, Cache!FreeOf, Cache!Step, Cache!Malloc, Cache!Return,
     Cache!Copy, Cache!Free, Cache!RLock, Cache!Lookup, Cache!Upgrade, Cache!UpgradeAgain, Cache!UpgradeFlush, Cache!Insert,
     Cache!Downgrade, Cache!Load, Cache!ReadLink, Cache!PopCas, Cache!Carve, Cache!RUnlock, Cache!PushLoad, Cache!PushLink,
     Cache!PushCas, Cache!PushRUnlock, Cache!heapVars, Cache!NewBlock
  <2> QED BY <2>2, <2>3, CacheTypes
<1>6. \/ cache'[sz[u]] = cache[sz[u]]
      \/ cache'[sz[u]].tag = cache[sz[u]].tag + 1
  <2>1. \/ cache' = cache
        \/ Cache!Insert(t)
        \/ /\ Cache!CasWins(t) /\ place[t] \in {"a_cas", "d_cas"}
           /\ \E p : cache' = [cache EXCEPT ![sz[t]] = Cache!Head(p, seen[t].tag + 1)]
    BY DEF Called, Cache!Start, Cache!Dealloc, Cache!FreeOf, Cache!Step, Cache!Malloc, Cache!Return,
     Cache!Copy, Cache!Free, Cache!RLock, Cache!Lookup, Cache!Upgrade, Cache!UpgradeAgain, Cache!UpgradeFlush,
     Cache!Downgrade, Cache!Load, Cache!ReadLink, Cache!PopCas, Cache!Carve, Cache!RUnlock, Cache!PushLoad, Cache!PushLink,
     Cache!PushCas, Cache!PushRUnlock
  <2>2. CASE Cache!Insert(t)
    BY <2>2, <1>2, InsertAlone DEF Cache!Insert, Cache!Go, CacheWriting
  <2>3. ASSUME NEW p, Cache!CasWins(t), cache' = [cache EXCEPT ![sz[t]] = Cache!Head(p, seen[t].tag + 1)]
        PROVE  cache'[sz[u]] = cache[sz[u]] \/ cache'[sz[u]].tag = cache[sz[u]].tag + 1
    <3>1. Cache!Head(p, seen[t].tag + 1).tag = seen[t].tag + 1 /\ seen[t] = cache[sz[t]]
      BY <2>3 DEF Cache!Head, Cache!CasWins
    <3> QED BY <2>3, <3>1, <1>2, CacheTypes
  <2> QED BY <2>1, <2>2, <2>3
<1>7. seen[u].tag \in Nat /\ cache[sz[u]].tag \in Nat
  BY <1>2 DEF Cache!HeadType
<1> QED BY <1>1, <1>3, <1>4, <1>5, <1>6, <1>7 DEF WatchOK

LEMMA WatchOwn ==
  ASSUME CacheInv, NEW t \in CacheThread,
         \/ Cache!Step(t)
         \/ \E s \in CacheSizes : Called(t, s)
         \/ \E b \in owned[t] : Cache!Dealloc(t, b),
         place'[t] \in Watches
  PROVE  WatchOK(t)'
<1>1. \/ /\ place[t] \in Watches \cup {"a_load", "d_load"} /\ place'[t] # "a_cas" /\ place'[t] # "d_cas"
         /\ seen'[t] = cache[sz[t]] /\ (place'[t] = "a_read" => cache[sz[t]].p # Null)
         /\ cache' = cache /\ sz' = sz
      \/ /\ place[t] = "a_read" /\ place'[t] = "a_cas" /\ nval'[t] = link[seen[t].p]
         /\ UNCHANGED <<cache, link, sz, seen>>
      \/ /\ place[t] = "d_link" /\ place'[t] = "d_cas" /\ link' = [link EXCEPT ![block[t]] = seen[t].p]
         /\ UNCHANGED <<cache, sz, seen, block>>
  BY DEF CacheInv, Cache!TypeOK, Watches, Called, Cache!Start, Cache!Dealloc, Cache!FreeOf,
         Cache!Step, Cache!Malloc, Cache!Return,
     Cache!Copy, Cache!Free, Cache!RLock, Cache!Lookup, Cache!Upgrade, Cache!UpgradeAgain, Cache!UpgradeFlush, Cache!Insert,
     Cache!Downgrade, Cache!Load, Cache!ReadLink, Cache!PopCas, Cache!Carve, Cache!RUnlock, Cache!PushLoad, Cache!PushLink,
     Cache!PushCas, Cache!PushRUnlock, Cache!Go, Cache!Loaded, Cache!heapVars, Cache!argVars, Cache!casVars
<1>2. place[t] \in Watches \cup {"a_load", "d_load"}
  BY <1>1 DEF Watches
<1>3. /\ sz[t] \in Cache!Cached /\ cache[sz[t]].tag \in Nat /\ seen[t].tag \in Nat
      /\ place[t] \in Watches => WatchOK(t)
  BY <1>2, Watched DEF Cache!HeadType, CacheInv, WatchInv
<1>4. place[t] = "d_link" => block[t] \in Cache!Block
  BY BlocksApart DEF CacheInv, CallInv, PlaceOK, Given
<1> QED BY <1>1, <1>3, <1>4, CacheTypes DEF WatchOK, Watches

LEMMA WatchStep ==
  ASSUME CacheInv, NEW t \in CacheThread,
         \/ Cache!Step(t)
         \/ \E s \in CacheSizes : Called(t, s)
         \/ \E b \in owned[t] : Cache!Dealloc(t, b)
  PROVE  WatchInv'
<1>1. \A u \in CacheThread \ {t} : place'[u] = place[u]
  BY CacheOthers
<1> QED BY <1>1, WatchOthers, WatchOwn DEF WatchInv

LEMMA MadeStep ==
  ASSUME CacheInv, NEW t \in CacheThread,
         \/ Cache!Step(t)
         \/ \E s \in CacheSizes : Called(t, s)
         \/ \E b \in owned[t] : Cache!Dealloc(t, b)
  PROVE  MadeInv'
<1>1. made' = made \/ Cache!NewBlock(t)
  BY DEF Called, Cache!Start, Cache!Dealloc, Cache!FreeOf, Cache!Step, Cache!Malloc, Cache!Return,
     Cache!Copy, Cache!Free, Cache!RLock, Cache!Lookup, Cache!Upgrade, Cache!UpgradeAgain, Cache!UpgradeFlush, Cache!Insert,
     Cache!Downgrade, Cache!Load, Cache!ReadLink, Cache!PopCas, Cache!Carve, Cache!RUnlock, Cache!PushLoad, Cache!PushLink,
     Cache!PushCas, Cache!PushRUnlock, Cache!heapVars
<1> QED BY <1>1, FreshBlock DEF CacheInv, MadeInv

LEMMA CacheNext ==
  ASSUME CacheInv, Cache!Next \/ UNCHANGED Cache!vars
  PROVE  CacheInv'
<1>1. ASSUME NEW t \in CacheThread,
             \/ Cache!Step(t)
             \/ \E s \in CacheSizes : Called(t, s)
             \/ \E b \in owned[t] : Cache!Dealloc(t, b)
      PROVE  CallInv' /\ StacksInv' /\ WatchInv' /\ MadeInv'
  BY <1>1, CallStep, StacksStep, WatchStep, MadeStep
<1>2. ASSUME UNCHANGED Cache!vars PROVE CallInv' /\ StacksInv' /\ WatchInv' /\ MadeInv'
  <2>1. UNCHANGED <<cache, link, made, capacity, asked, owned, forgotten, place, sz, block, seen, nval, old>>
    BY <1>2 DEF Cache!vars, Cache!heapVars
  <2>2. CallInv'
    BY <2>1 DEF CacheInv, CallInv, PlaceOK, OwnOK, Exists
  <2>3. WatchInv' /\ MadeInv'
    BY <2>1 DEF CacheInv, WatchInv, WatchOK, MadeInv
  <2>4. StacksInv'
    BY <2>1, StacksKept, BlocksApart DEF Holding
  <2> QED BY <2>2, <2>3, <2>4
<1> QED BY <1>1, <1>2, CacheSteps, CacheTypeStep, CacheLockStep DEF CacheInv

-----------------------------------------------------------------------------
LEMMA CacheEachBlockOnce == CacheInv => Cache!EachBlockOnce
<1> SUFFICES ASSUME CacheInv PROVE Cache!EachBlockOnce
  OBVIOUS
<1>1. PICK F \in [Cache!Cached -> SUBSET Cache!Block] : Lists(F) /\ Parted(F)
  BY DEF CacheInv, StacksInv
<1>2. ASSUME NEW s \in Cache!Cached
      PROVE  Cache!Stack(s) = F[s] /\ Cache!Follow(cache[s].p)[MaxBlock] = Null
  <2>1. PICK p : p = cache[s].p
    OBVIOUS
  <2>2. ListOf(Cache!Block, Null, link, p, F[s])
    BY <1>1, <2>1 DEF Lists
  <2>3. Cache!Chain(p) = F[s] /\ Cache!Follow(p)[MaxBlock] = Null
    BY <2>2, CacheChain
  <2> QED BY <2>1, <2>3 DEF Cache!Stack
<1>3. ASSUME NEW b \in made
      PROVE  /\ Cache!Places(b) <= 1
             /\ capacity[b] <= MaxSize /\ b \notin forgotten => Cache!Places(b) = 1
  <2> DEFINE Own == {t \in CacheThread : b \in owned[t]}
             Use == {t \in CacheThread : block[t] = b}
             On  == {s \in Cache!Cached : b \in F[s]}
  <2>1. Cache!Places(b) = Cardinality(Own) + Cardinality(Use) + Cardinality(On)
    <3>1. On = {s \in Cache!Cached : b \in Cache!Stack(s)}
      BY <1>2
    <3> QED BY <3>1, CacheSameCounting DEF Cache!Places
  <2>2. b # Null
    BY CacheConstants DEF CacheInv, Cache!TypeOK
  <2>3. \A S : (\A x, y \in S : x = y) => \/ S = {} /\ Cardinality(S) = 0
                                          \/ Cardinality(S) = 1
    <3> SUFFICES ASSUME NEW S, \A x, y \in S : x = y, S # {} PROVE Cardinality(S) = 1
      BY FS_EmptySet
    <3>1. PICK x : S = {x}
      OBVIOUS
    <3> QED BY <3>1, FS_Singleton
  <2>4. /\ \A t, u \in Own : t = u
        /\ \A t, u \in Use : t = u
        /\ \A s, u \in On : s = u
        /\ (Own = {} \/ Use = {}) /\ (Own = {} \/ On = {}) /\ (Use = {} \/ On = {})
    BY <1>1, <2>2 DEF Parted, Holding
  <2>5. capacity[b] <= MaxSize /\ b \notin forgotten => Own # {} \/ Use # {} \/ On # {}
    BY <1>1 DEF Parted, Holding
  <2> HIDE DEF Own, Use, On
  <2>6. /\ Own = {} => Cardinality(Own) = 0
        /\ Use = {} => Cardinality(Use) = 0
        /\ On = {} => Cardinality(On) = 0
        /\ Own # {} => Cardinality(Own) = 1
        /\ Use # {} => Cardinality(Use) = 1
        /\ On # {} => Cardinality(On) = 1
    BY <2>3, <2>4, FS_EmptySet
  <2> QED BY <2>1, <2>4, <2>5, <2>6
<1> QED BY <1>2, <1>3 DEF Cache!EachBlockOnce

LEMMA CacheReferencesStable == CacheInv => Cache!ReferencesStable
BY InsertAlone DEF Cache!ReferencesStable, CacheReading, CacheWriting

LEMMA CacheCapacitySuffices == CacheInv => Cache!CapacitySuffices
<1> SUFFICES ASSUME CacheInv PROVE Cache!CapacitySuffices
  OBVIOUS
<1>1. PICK F \in [Cache!Cached -> SUBSET Cache!Block] : Lists(F) /\ Parted(F)
  BY DEF CacheInv, StacksInv
<1>2. ASSUME NEW s \in Cache!Cached PROVE Cache!Stack(s) = F[s]
  <2>1. PICK p : p = cache[s].p
    OBVIOUS
  <2>2. ListOf(Cache!Block, Null, link, p, F[s])
    BY <1>1, <2>1 DEF Lists
  <2>3. Cache!Chain(p) = F[s]
    BY <2>2, CacheChain
  <2> QED BY <2>1, <2>3 DEF Cache!Stack
<1>3. \A t \in CacheThread : \A b \in owned[t] : asked[b] <= capacity[b]
  BY DEF CacheInv, CallInv, OwnOK
<1>4. \A s \in Cache!Cached : \A b \in Cache!Stack(s) : s <= capacity[b]
  BY <1>1, <1>2 DEF Parted
<1> QED BY <1>3, <1>4 DEF Cache!CapacitySuffices
-----------------------------------------------------------------------------
(* Both allocators together.                                               *)

EitherInv == /\ kind \in {"greedy", "cache"}
             /\ kind = "greedy" => IInv /\ WasteInv
             /\ kind = "cache" => CacheInv

LEMMA EitherMoves ==
  ASSUME [EitherNext]_allVars
  PROVE  /\ kind' = kind
         /\ kind = "greedy" => [Next]_vars
         /\ kind = "cache" => Cache!Next \/ UNCHANGED Cache!vars
<1>1. CASE OfGreedy(Next)
  BY <1>1 DEF OfGreedy
<1>2. CASE OfCache(Cache!Next)
  BY <1>2 DEF OfCache
<1>3. CASE UNCHANGED allVars
  <2>1. UNCHANGED <<kind, vars>>
    BY <1>3 DEF allVars, greedyVars, vars
  <2>2. UNCHANGED Cache!vars
    BY <1>3 DEF allVars, cacheVars, lockVars, Cache!vars, Cache!lockVars, Cache!heapVars
  <2> QED BY <2>1, <2>2
<1> QED BY <1>1, <1>2, <1>3 DEF EitherNext

LEMMA EitherStep == EitherInv /\ [EitherNext]_allVars => EitherInv'
<1> SUFFICES ASSUME EitherInv, [EitherNext]_allVars PROVE EitherInv'
  OBVIOUS
<1>1. /\ kind' = kind
      /\ kind = "greedy" => [Next]_vars
      /\ kind = "cache" => Cache!Next \/ UNCHANGED Cache!vars
  BY EitherMoves
<1>2. CASE kind = "greedy"
  <2>1. IInv /\ WasteInv /\ [Next]_vars
    BY <1>1, <1>2 DEF EitherInv
  <2>2. IInv' /\ WasteInv'
    BY <2>1, WasteStep, TypeStep, LockStep, ListStep, OffsetStep, LiveStep,
       AllocatorAssumption DEF IInv
  <2> QED BY <1>1, <1>2, <2>2 DEF EitherInv
<1>3. CASE kind = "cache"
  <2>1. CacheInv'
    BY <1>1, <1>3, CacheNext DEF EitherInv
  <2> QED BY <1>1, <1>3, <2>1 DEF EitherInv
<1> QED BY <1>2, <1>3 DEF EitherInv

(* The strengthened invariant of a behaviour of either allocator           *)
(* (GreedyAlloc.h:56-124, CacheAlloc.h:33-151): for CacheAlloc types, what *)
(* a place holds of _cachelock and says of the call, the stacks as lists   *)
(* with every block in one place, and heads that are current when their    *)
(* tag is.                                                                 *)
THEOREM EitherInvariant == EitherSpec => []EitherInv
<1>1. EitherInit => EitherInv
  <2>1. Init => IInv /\ WasteInv
    BY InitInvariant, AllocatorAssumption DEF Init, WasteInv
  <2> QED BY <2>1, CacheInit DEF EitherInit, EitherInv
<1> QED BY <1>1, EitherStep, PTL DEF EitherSpec

(* A chunk of a GreedyAlloc is left behind unused only when it is too      *)
(* small for a request that is being served, for any threads and sizes     *)
(* (GreedyAlloc.h:61-85).                                                  *)
THEOREM ChunksAreUsed == EitherSpec => NoChunkWasted
<1> DEFINE Wasted == kind = "greedy" /\ root' # root /\ (\E t \in Thread : pc[t] = "grow" /\ pc'[t] # "grow")
           Excused == \/ \E a \in live : a.chunk = root
                      \/ \E t \in Thread : want[t] >= size[root]
<1>1. EitherInv /\ [EitherNext]_allVars => [Wasted => Excused]_allVars
  BY EitherMoves, RootLeft, AllocatorAssumption DEF EitherInv
<1> QED BY <1>1, EitherInvariant, PTL DEF EitherSpec, NoChunkWasted

(* The variables of both allocators keep their types; a client's data      *)
(* never becomes the head of a stack.                                      *)
THEOREM EitherTypes == EitherSpec => []EitherTypeOK
<1>1. EitherInv => EitherTypeOK
  BY DEF EitherInv, EitherTypeOK, IInv, CacheInv
<1> QED BY <1>1, EitherInvariant, PTL

(* However the calls of any threads overlap, those that make a stack and   *)
(* reset its tag among them, a block of a CacheAlloc has one owner or is   *)
(* on one stack, and a stack's links lead to null                          *)
(* (CacheAlloc.h:45-70, 115-126).                                          *)
THEOREM CacheBlocksOnce == EitherSpec => []EachBlockOnce
<1>1. EitherInv => EachBlockOnce
  BY CacheEachBlockOnce DEF EitherInv, EachBlockOnce
<1> QED BY <1>1, EitherInvariant, PTL

(* No insertion into the hash of a CacheAlloc runs while another thread    *)
(* uses a reference into it (CacheAlloc.h:42, 46, 100).                    *)
THEOREM CacheReferences == EitherSpec => []ReferencesStable
<1>1. EitherInv => ReferencesStable
  BY CacheReferencesStable DEF EitherInv, ReferencesStable
<1> QED BY <1>1, EitherInvariant, PTL

(* A client of a CacheAlloc has at least the memory it asked for, also     *)
(* when reallocations return blocks under smaller sizes than they were     *)
(* carved with (CacheAlloc.h:140-151).                                     *)
THEOREM CacheCapacity == EitherSpec => []CapacitySuffices
<1>1. EitherInv => CapacitySuffices
  BY CacheCapacitySuffices DEF EitherInv, CapacitySuffices
<1> QED BY <1>1, EitherInvariant, PTL
=============================================================================
