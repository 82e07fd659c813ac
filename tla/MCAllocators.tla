---------------------------- MODULE MCAllocators ----------------------------
(***************************************************************************)
(* The two allocators that use an RWLock, for TLC: a behaviour is one of   *)
(* a single GreedyAlloc or CacheAlloc, as `kind' says.  The lock is a      *)
(* variable of both.  Beside a CacheAlloc there is a GreedyAlloc that      *)
(* nobody calls, so its invariants are about every behaviour.              *)
(***************************************************************************)
EXTENDS GreedyAlloc

CONSTANTS CacheThread, CacheSizes, MaxSize, MaxBlock, MaxTag,  \* CacheAlloc
          Null, Data

VARIABLES kind,
          cache, link, made, capacity, asked, owned, forgotten,
          place, sz, block, seen, nval, old

greedyVars == <<chunkVars, curpos, pc, want, r, live, countVars>>
cacheVars == <<cache, link, made, capacity, asked, owned, forgotten, place, sz, block, seen, nval, old>>
allVars == <<kind, lockVars, greedyVars, cacheVars>>

Cache == INSTANCE CacheAlloc WITH Thread <- CacheThread, Sizes <- CacheSizes, pc <- place

ASSUME AllocatorAssumption == Assumptions /\ Cache!Assumptions

EitherInit ==
  \/ /\ kind = "greedy" /\ Init
     /\ cache = 0 /\ link = 0 /\ made = {} /\ capacity = 0 /\ asked = 0 /\ owned = 0
     /\ forgotten = {} /\ place = 0 /\ sz = 0 /\ block = 0 /\ seen = 0 /\ nval = 0 /\ old = 0
  \/ /\ kind = "cache" /\ Cache!Init
     /\ root = 0 /\ oldest = 0 /\ size = 0 /\ curpos = 0 /\ pc = [t \in Thread |-> "idle"] /\ want = 0 /\ r = 0
     /\ live = {} /\ calls = 0 /\ clears = 0

OfGreedy(A) == kind = "greedy" /\ A /\ UNCHANGED <<kind, cacheVars>>
OfCache(A) == kind = "cache" /\ A /\ UNCHANGED <<kind, greedyVars>>

EitherNext == OfGreedy(Next) \/ OfCache(Cache!Next)

\* A thread inside an operation of GreedyAlloc runs on.  The lock's spins need
\* no more than that: once the other threads have returned it stays available.
EitherSpec == /\ EitherInit /\ [][EitherNext]_allVars
              /\ \A t \in Thread : WF_allVars(OfGreedy(Step(t)))
-----------------------------------------------------------------------------
EitherTypeOK == /\ kind \in {"greedy", "cache"}
                /\ kind = "greedy" => TypeOK
                /\ kind = "cache" => Cache!TypeOK

(* A chunk of a GreedyAlloc is left behind unused only when it is too      *)
(* small for a request that is being served (GreedyAlloc.h:76-77).         *)
NoChunkWasted ==
  [][kind = "greedy" /\ root' # root /\ (\E t \in Thread : pc[t] = "grow" /\ pc'[t] # "grow") =>
       \/ \E a \in live : a.chunk = root
       \/ \E t \in Thread : want[t] >= size[root]]_allVars

(* Every Alloc and every Clear of a GreedyAlloc returns, however many      *)
(* threads run over the end together (GreedyAlloc.h:61-85).                *)
OperationEnds == \A t \in Thread : (kind = "greedy" /\ pc[t] # "idle") ~> (kind = "greedy" /\ pc[t] = "idle")

(* A block of a CacheAlloc has one owner or is on one stack, whatever      *)
(* calls overlap (CacheAlloc.h:45-70, 115-126).                            *)
EachBlockOnce == kind = "cache" => Cache!EachBlockOnce

(* No insertion into the hash of a CacheAlloc runs while another thread    *)
(* uses a reference into it (CacheAlloc.h:42, 46, 100).                    *)
ReferencesStable == kind = "cache" => Cache!ReferencesStable

(* A client of a CacheAlloc never gets less memory than it asked for, also *)
(* after reallocations (CacheAlloc.h:140-151).                             *)
CapacitySuffices == kind = "cache" => Cache!CapacitySuffices
=============================================================================
