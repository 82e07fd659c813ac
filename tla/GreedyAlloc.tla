----------------------------- MODULE GreedyAlloc ----------------------------
(***************************************************************************)
(* GreedyAlloc of include/buntils/GreedyAlloc.h: memory is carved off the  *)
(* newest chunk by an atomic add to _curpos.  Threads add under a read     *)
(* lock, so that the chunk cannot be replaced between the add and the use  *)
(* of the offset; who runs over the end turns its read lock into the write *)
(* lock and adds a larger chunk.  The lock is the one RWLock implements.   *)
(*                                                                         *)
(* Sizes are in bytes.  Chunks are numbered as they are allocated.  One    *)
(* action per access to shared memory, one for what runs under the write   *)
(* lock up to the store to _curpos.                                        *)
(***************************************************************************)
EXTENDS Naturals, Sequences, FiniteSets

CONSTANTS Thread, NoThread,
          Sizes,     \* the sizes Alloc is called with
          Align,     \* the constructor's `align'
          InitSize,  \* the constructor's `init'
          MaxCalls,  \* bound: calls of Alloc
          MaxClears  \* bound: calls of Clear

Assumptions == /\ Sizes \subseteq Nat /\ Align \in Nat \ {0} /\ InitSize \in Nat \ {0}
               /\ MaxCalls \in Nat /\ MaxClears \in Nat
               /\ NoThread \notin Thread

VARIABLES held, claim,   \* _lock
          root, oldest,  \* the chunks in the list are oldest..root
          size,          \* Node::size of each chunk
          curpos,        \* _curpos
          pc,
          want,          \* Alloc's sz after alignment, Clear's nsize
          r,             \* Alloc's r
          live,          \* the memory handed out: [nth, chunk, from, upto]
          calls, clears  \* how many there have been

lockVars == <<held, claim>>
chunkVars == <<root, oldest, size>>
countVars == <<calls, clears>>
vars == <<lockVars, chunkVars, curpos, pc, want, r, live, countVars>>

Lock == INSTANCE RWLockSpec

AlignSize(sz, align) == (sz \div align + (IF sz % align # 0 THEN 1 ELSE 0)) * align

\* T_FBNEXT of defines.h.
FbNext(x) == x + 1 + x \div 2 + x \div 8 - x \div 128

Init == /\ Lock!Init
        /\ root = 1 /\ oldest = 1
        /\ size = <<InitSize>>
        /\ curpos = 0
        /\ pc = [t \in Thread |-> "idle"]
        /\ want = [t \in Thread |-> 0]
        /\ r = [t \in Thread |-> 0]
        /\ live = {}
        /\ calls = 0 /\ clears = 0

Go(t, from, to) == pc[t] = from /\ pc' = [pc EXCEPT ![t] = to]
rend(t) == r[t] + want[t]
-----------------------------------------------------------------------------
(* Alloc                                                                   *)

Alloc(t, sz) == /\ Go(t, "idle", "rlock")
                /\ calls < MaxCalls
                /\ calls' = calls + 1
                /\ want' = [want EXCEPT ![t] = AlignSize(sz, Align)]
                /\ UNCHANGED <<lockVars, chunkVars, curpos, r, live, clears>>

RLock(t) == /\ Go(t, "rlock", "add")
            /\ Lock!AcquireRead(t)
            /\ UNCHANGED <<chunkVars, curpos, want, r, live, countVars>>

Add(t) == /\ Go(t, "add", "test")
          /\ r' = [r EXCEPT ![t] = curpos]
          /\ curpos' = curpos + want[t]
          /\ UNCHANGED <<lockVars, chunkVars, want, live, countVars>>

\* An allocation that would end exactly at the end of the chunk is refused.
Test(t) == /\ Go(t, "test", IF rend(t) >= size[root] THEN "attempt" ELSE "carve")
           /\ UNCHANGED <<lockVars, chunkVars, curpos, want, r, live, countVars>>

\* Mutation: Upgrade, which gives the read lock up to wait for another writer.
BugAttemptUpgrade(t) ==
  /\ \/ Lock!Claim(t) /\ Go(t, "attempt", "flush")
     \/ claim # NoThread /\ Lock!ReleaseRead(t) /\ Go(t, "attempt", "attempt")
  /\ UNCHANGED <<chunkVars, curpos, want, r, live, countVars>>

\* AttemptUpgrade fails at once when another thread is the writer.
AttemptUpgrade(t) ==
  /\ \/ Lock!Claim(t) /\ Go(t, "attempt", "flush")
     \/ claim # NoThread /\ UNCHANGED lockVars /\ Go(t, "attempt", "runlock")
  /\ UNCHANGED <<chunkVars, curpos, want, r, live, countVars>>

\* Mutation: the other readers are not waited for.
BugFlush(t) == /\ Go(t, "flush", "grow")
               /\ held' = [held EXCEPT ![t] = "write"]
               /\ UNCHANGED <<claim, chunkVars, curpos, want, r, live, countVars>>

Flush(t) == /\ Go(t, "flush", "grow")
            /\ Lock!Enter(t)
            /\ UNCHANGED <<chunkVars, curpos, want, r, live, countVars>>

\* _allocChunk, unless the root has changed since Test.
AddChunk(t) == /\ root' = root + 1
               /\ size' = Append(size, FbNext(rend(t)))
               /\ UNCHANGED oldest

\* Mutation: _curpos goes on from where it was.
BugGrow(t) == /\ Go(t, "grow", "downgrade")
              /\ IF rend(t) >= size[root] THEN AddChunk(t) ELSE UNCHANGED chunkVars
              /\ UNCHANGED <<lockVars, curpos, want, r, live, countVars>>

Grow(t) == /\ Go(t, "grow", "downgrade")
           /\ IF rend(t) >= size[root]
              THEN AddChunk(t) /\ curpos' = 0
              ELSE UNCHANGED <<chunkVars, curpos>>
           /\ UNCHANGED <<lockVars, want, r, live, countVars>>

\* Mutation: the write lock is kept.
BugDowngrade(t) == /\ Go(t, "downgrade", "runlock")
                   /\ UNCHANGED <<lockVars, chunkVars, curpos, want, r, live, countVars>>

Downgrade(t) == /\ Go(t, "downgrade", "runlock")
                /\ Lock!Leave(t, "read")
                /\ UNCHANGED <<chunkVars, curpos, want, r, live, countVars>>

\* Back to the top of the loop, whoever has grown the list.
Retry(t) == /\ Go(t, "runlock", "rlock")
            /\ Lock!ReleaseRead(t)
            /\ r' = [r EXCEPT ![t] = 0]
            /\ UNCHANGED <<chunkVars, curpos, want, live, countVars>>

Carve(t) == /\ Go(t, "carve", "idle")
            /\ Lock!ReleaseRead(t)
            /\ live' = live \cup {[nth |-> Cardinality(live), chunk |-> root,
                                 from |-> r[t], upto |-> rend(t)]}
            /\ r' = [r EXCEPT ![t] = 0]
            /\ want' = [want EXCEPT ![t] = 0]
            /\ UNCHANGED <<chunkVars, curpos, countVars>>
-----------------------------------------------------------------------------
(* Clear ends the life of all that was handed out before it got the lock.  *)

Clear(t) == /\ Go(t, "idle", "c_lock")
            /\ clears < MaxClears
            /\ clears' = clears + 1
            /\ UNCHANGED <<lockVars, chunkVars, curpos, want, r, live, calls>>

ClearLock(t) == /\ Go(t, "c_lock", "c_enter")
                /\ Lock!Claim(t)
                /\ UNCHANGED <<chunkVars, curpos, want, r, live, countVars>>

ClearEnter(t) == /\ Go(t, "c_enter", "c_reset")
                 /\ Lock!Enter(t)
                 /\ UNCHANGED <<chunkVars, curpos, want, r, live, countVars>>

ClearReset(t) ==
  /\ Go(t, "c_reset", IF root = oldest THEN "c_unlock" ELSE "c_free")
  /\ curpos' = 0
  /\ live' = {}
  /\ UNCHANGED <<lockVars, chunkVars, want, r, countVars>>

\* Several chunks are replaced by one of their total size: the loop over the list.
ClearFree(t) == /\ Go(t, "c_free", IF oldest = root THEN "c_chunk" ELSE "c_free")
                /\ want' = [want EXCEPT ![t] = @ + size[oldest]]
                /\ oldest' = oldest + 1
                /\ UNCHANGED <<lockVars, root, size, curpos, r, live, countVars>>

ClearChunk(t) == /\ Go(t, "c_chunk", "c_unlock")
                 /\ root' = root + 1
                 /\ size' = Append(size, want[t])
                 /\ want' = [want EXCEPT ![t] = 0]
                 /\ UNCHANGED <<lockVars, oldest, curpos, r, live, countVars>>

ClearUnlock(t) == /\ Go(t, "c_unlock", "idle")
                  /\ Lock!Leave(t, "none")
                  /\ UNCHANGED <<chunkVars, curpos, want, r, live, countVars>>
-----------------------------------------------------------------------------
Step(t) == \/ RLock(t) \/ Add(t) \/ Test(t) \/ AttemptUpgrade(t) \/ Flush(t)
           \/ Grow(t) \/ Downgrade(t) \/ Retry(t) \/ Carve(t)
           \/ ClearLock(t) \/ ClearEnter(t) \/ ClearReset(t)
           \/ ClearFree(t) \/ ClearChunk(t) \/ ClearUnlock(t)

\* No call is in progress and the bounds allow no other.
Terminated == /\ \A t \in Thread : pc[t] = "idle"
              /\ calls = MaxCalls /\ clears = MaxClears
              /\ UNCHANGED vars

Next == \/ \E t \in Thread : Step(t) \/ Clear(t) \/ \E sz \in Sizes : Alloc(t, sz)
        \/ Terminated

Spec == Init /\ [][Next]_vars
-----------------------------------------------------------------------------
Labels == {"idle", "rlock", "add", "test", "attempt", "flush", "grow", "downgrade",
           "runlock", "carve", "c_lock", "c_enter", "c_reset", "c_free", "c_chunk", "c_unlock"}

TypeOK == /\ Lock!TypeOK
          /\ size \in Seq(Nat) /\ root = Len(size) /\ oldest \in 1..root + 1
          /\ curpos \in Nat
          /\ pc \in [Thread -> Labels]
          /\ want \in [Thread -> Nat] /\ r \in [Thread -> Nat]
          /\ live \subseteq [nth : Nat, chunk : 1..root, from : Nat, upto : Nat]
          /\ calls \in 0..MaxCalls /\ clears \in 0..MaxClears

(* Memory that is in use lies inside a chunk that has not been freed, and  *)
(* no two allocations share a byte, although the offset is taken before    *)
(* the chunk it belongs to is looked up (GreedyAlloc.h:64-68, 87).         *)
AllocationsSound ==
  \A a \in live :
    /\ a.chunk \in oldest..root
    /\ a.upto <= size[a.chunk]
    /\ \A b \in live \ {a} : \/ a.chunk # b.chunk
                             \/ a.upto <= b.from \/ b.upto <= a.from

(* Who becomes the writer finds the chunk as full as before: nobody can    *)
(* have replaced it since the test, because AttemptUpgrade never lets go   *)
(* of the read lock.  The check that "another thread didn't already resize *)
(* the root for us" (GreedyAlloc.h:72-74) never finds that one has.        *)
UpgradeSeesFullChunk ==
  \A t \in Thread : pc[t] = "grow" => rend(t) >= size[root]
=============================================================================
