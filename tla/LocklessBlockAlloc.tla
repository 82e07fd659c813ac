------------------------- MODULE LocklessBlockAlloc -------------------------
(***************************************************************************)
(* LocklessBlockAllocator (include/buntils/BlockAllocMT.h): fixed-size     *)
(* blocks kept on a lock-free stack whose head is a pointer with a tag,    *)
(* changed by a double-width compare-and-swap (include/buntils/lockless.h).*)
(* The first word of a free block is its link; in a block that a client    *)
(* owns that word is the client's data.                                    *)
(*                                                                         *)
(* One action per access to shared memory.  Blocks are numbered over the   *)
(* chunks in the order these were allocated, by address within a chunk.    *)
(***************************************************************************)
EXTENDS Naturals, FiniteSets

CONSTANTS Thread,
          Null,
          Data,      \* whatever a client has written over the link of its block
          InitSize,  \* the constructor's `init': blocks in the first chunk
          MaxBlock,  \* bound: blocks that can ever exist
          MaxOut,    \* bound: blocks clients own, plus operations in progress
          MaxTag     \* bound: the highest tag (operations since Clear)

Block == 1..MaxBlock

ASSUME SizeAssumption == InitSize \in Nat \ {0} /\ MaxBlock \in Nat
                         /\ InitSize <= MaxBlock
ASSUME ThreadAssumption == IsFiniteSet(Thread) /\ MaxOut \in Nat
ASSUME NullAssumption == Null \notin Nat /\ Data \notin Nat /\ Null # Data

VARIABLES freelist,  \* _freelist: [p, tag]
          link,      \* the first word of each block
          growing,   \* _flag, set while one thread adds a chunk
          root,      \* _root->size and the blocks of all chunks: [size, blocks]
          pc,
          seen,      \* alloc's ret, _setFreeList's prev: the head last loaded
          nval,      \* alloc's nval.p: the link read from the block on top
          push,      \* _setFreeList's arguments: [p, target]
          owned      \* the blocks alloc has returned to each thread

vars == <<freelist, link, growing, root, pc, seen, nval, push, owned>>

\* T_FBNEXT of defines.h: the blocks of the next chunk.
FbNext(x) == x + 1 + x \div 2 + x \div 8 - x \div 128

\* _initChunk links a chunk downwards, its lowest block is still unlinked.
Linked(links, first, last) ==
  [b \in Block |-> IF b \in (first + 1)..last THEN b - 1
                   ELSE IF b = first THEN Null ELSE links[b]]

Head(p, tag) == [p |-> p, tag |-> tag]
NoHead == Head(Null, 0)
NoPush == [p |-> Null, target |-> Null]

Init == /\ freelist = Head(InitSize, 1)
        /\ link = Linked([b \in Block |-> Data], 1, InitSize)
        /\ growing = FALSE
        /\ root = [size |-> InitSize, blocks |-> InitSize]
        /\ pc = [t \in Thread |-> "idle"]
        /\ seen = [t \in Thread |-> NoHead]
        /\ nval = [t \in Thread |-> Null]
        /\ push = [t \in Thread |-> NoPush]
        /\ owned = [t \in Thread |-> {}]

Busy == {t \in Thread : pc[t] # "idle"}
Out == Cardinality(Busy) + Cardinality(UNION {owned[t] : t \in Thread})
MayStart == freelist.tag + Cardinality(Busy) < MaxTag

Goto(t, label) == pc' = [pc EXCEPT ![t] = label]

\* The operation is over and its locals are gone.
Return(t) == /\ Goto(t, "idle")
             /\ seen' = [seen EXCEPT ![t] = NoHead]
             /\ nval' = [nval EXCEPT ![t] = Null]
             /\ push' = [push EXCEPT ![t] = NoPush]

\* Mutation: compares the pointer alone, the ABA problem of lines 112-113.
BugCasWins(t) == freelist.p = seen[t].p

\* asmcasr: pointer and tag must both be the ones loaded.
CasWins(t) == freelist = seen[t]

\* What alloc does next with the head it has just loaded.
Loaded(t) == /\ seen' = [seen EXCEPT ![t] = freelist]
             /\ Goto(t, IF freelist.p = Null THEN "a_flag" ELSE "a_read")
-----------------------------------------------------------------------------
(* alloc                                                                   *)

Alloc(t) == /\ pc[t] = "idle" /\ Out < MaxOut /\ MayStart
            /\ Loaded(t)
            /\ UNCHANGED <<freelist, link, growing, root, nval, push, owned>>

\* The link is read from a block that may already belong to somebody else.
AllocRead(t) == /\ pc[t] = "a_read"
                /\ nval' = [nval EXCEPT ![t] = link[seen[t].p]]
                /\ Goto(t, "a_cas")
                /\ UNCHANGED <<freelist, link, growing, root, seen, push, owned>>

\* The new owner writes its data over the link.
AllocCas(t) ==
  /\ pc[t] = "a_cas"
  /\ \/ /\ CasWins(t)
        /\ freelist' = Head(nval[t], seen[t].tag + 1)
        /\ owned' = [owned EXCEPT ![t] = @ \cup {seen[t].p}]
        /\ link' = [link EXCEPT ![seen[t].p] = Data]
        /\ Return(t)
     \/ /\ ~CasWins(t)
        /\ Loaded(t)
        /\ UNCHANGED <<freelist, link, owned, nval, push>>
  /\ UNCHANGED <<growing, root>>

\* test_and_set on _flag; who does not get it reloads the head.
AllocFlag(t) == /\ pc[t] = "a_flag"
                /\ growing' = TRUE
                /\ Goto(t, IF growing THEN "a_load" ELSE "a_check")
                /\ UNCHANGED <<freelist, link, root, seen, nval, push, owned>>

\* Mutation: the head is not looked at again once the flag is held.
BugAllocCheck(t) == /\ pc[t] = "a_check"
                    /\ Goto(t, "a_grow")
                    /\ UNCHANGED <<freelist, link, growing, root, seen, nval, push, owned>>

\* With the flag: somebody may have grown the list or freed in the meantime.
AllocCheck(t) == /\ pc[t] = "a_check"
                 /\ Goto(t, IF freelist.p = Null THEN "a_grow" ELSE "a_clear")
                 /\ UNCHANGED <<freelist, link, growing, root, seen, nval, push, owned>>

\* _allocChunk: a new chunk, linked privately, and _setFreeList's first load.
AllocGrow(t) ==
  LET size == FbNext(root.size)
      all  == root.blocks + size
  IN  /\ pc[t] = "a_grow"
      /\ all <= MaxBlock
      /\ root' = [size |-> size, blocks |-> all]
      /\ link' = Linked(link, root.blocks + 1, all)
      /\ push' = [push EXCEPT ![t] = [p |-> all, target |-> root.blocks + 1]]
      /\ seen' = [seen EXCEPT ![t] = freelist]
      /\ Goto(t, "g_link")
      /\ UNCHANGED <<freelist, growing, nval, owned>>

\* Mutation: the flag stays set.
BugAllocClear(t) == /\ pc[t] = "a_clear"
                    /\ Goto(t, "a_load")
                    /\ UNCHANGED <<freelist, link, growing, root, seen, nval, push, owned>>

AllocClear(t) == /\ pc[t] = "a_clear"
                 /\ growing' = FALSE
                 /\ Goto(t, "a_load")
                 /\ UNCHANGED <<freelist, link, root, seen, nval, push, owned>>

AllocLoad(t) == /\ pc[t] = "a_load"
                /\ Loaded(t)
                /\ UNCHANGED <<freelist, link, growing, root, nval, push, owned>>
-----------------------------------------------------------------------------
(* dealloc; _setFreeList for one block (d_) and for a chunk (g_).          *)

Dealloc(t, b) == /\ pc[t] = "idle" /\ b \in owned[t] /\ MayStart
                 /\ owned' = [owned EXCEPT ![t] = @ \ {b}]
                 /\ push' = [push EXCEPT ![t] = [p |-> b, target |-> b]]
                 /\ seen' = [seen EXCEPT ![t] = freelist]
                 /\ Goto(t, "d_link")
                 /\ UNCHANGED <<freelist, link, growing, root, nval>>

\* Mutation: the old list is hung below the block that becomes the head.
BugPushLink(t, label, next) ==
  /\ pc[t] = label
  /\ link' = [link EXCEPT ![push[t].p] = seen[t].p]
  /\ Goto(t, next)
  /\ UNCHANGED <<freelist, growing, root, seen, nval, push, owned>>

PushLink(t, label, next) ==
  /\ pc[t] = label
  /\ link' = [link EXCEPT ![push[t].target] = seen[t].p]
  /\ Goto(t, next)
  /\ UNCHANGED <<freelist, growing, root, seen, nval, push, owned>>

PushRetry(t, label, retry) ==
  /\ pc[t] = label /\ ~CasWins(t)
  /\ seen' = [seen EXCEPT ![t] = freelist]
  /\ Goto(t, retry)
  /\ UNCHANGED <<freelist, link, growing, root, nval, push, owned>>

Push(t, label) ==
  /\ pc[t] = label /\ CasWins(t)
  /\ freelist' = Head(push[t].p, seen[t].tag + 1)
  /\ UNCHANGED <<link, growing, root, owned>>

PushBlock(t) == Push(t, "d_cas") /\ Return(t)

PushChunk(t) == /\ Push(t, "g_cas")
                /\ Goto(t, "a_clear")
                /\ UNCHANGED <<seen, nval, push>>

\* Clear, which no operation may overlap: one chunk as large as the newest.
Clear == /\ Busy = {}
         /\ freelist' = Head(root.size, 1)
         /\ link' = Linked([b \in Block |-> Data], 1, root.size)
         /\ root' = [root EXCEPT !.blocks = root.size]
         /\ owned' = [t \in Thread |-> {}]
         /\ UNCHANGED <<growing, pc, seen, nval, push>>
-----------------------------------------------------------------------------
Step(t) == \/ AllocRead(t) \/ AllocCas(t) \/ AllocFlag(t) \/ AllocCheck(t)
           \/ AllocGrow(t) \/ AllocClear(t) \/ AllocLoad(t)
           \/ PushLink(t, "d_link", "d_cas") \/ PushRetry(t, "d_cas", "d_link")
           \/ PushLink(t, "g_link", "g_cas") \/ PushRetry(t, "g_cas", "g_link")
           \/ PushBlock(t) \/ PushChunk(t)

Next == \/ \E t \in Thread : Step(t) \/ Alloc(t) \/ \E b \in owned[t] : Dealloc(t, b)
        \/ Clear

Spec == Init /\ [][Next]_vars

\* A thread in the middle of an operation is not suspended for ever.
FairSpec == Spec /\ \A t \in Thread : WF_vars(Step(t))
-----------------------------------------------------------------------------
Labels == {"idle", "a_load", "a_read", "a_cas", "a_flag", "a_check", "a_grow",
           "a_clear", "d_link", "d_cas", "g_link", "g_cas"}
Ptr == Block \cup {Null}

TypeOK == /\ freelist \in [p : Ptr, tag : Nat]
          /\ link \in [Block -> Ptr \cup {Data}]
          /\ growing \in BOOLEAN
          /\ root.size \in Block /\ root.blocks \in Block
          /\ pc \in [Thread -> Labels]
          /\ seen \in [Thread -> [p : Ptr, tag : Nat]]
          /\ nval \in [Thread -> Ptr \cup {Data}]
          /\ push \in [Thread -> [p : Ptr, target : Ptr]]
          /\ owned \in [Thread -> SUBSET Block]

\* The pointer reached from p by n links, and all blocks on the way to Null.
Follow(p) ==
  LET at[n \in 0..MaxBlock] ==
        IF n = 0 THEN p
        ELSE IF at[n - 1] \in Block THEN link[at[n - 1]] ELSE at[n - 1]
  IN  at
Chain(p) == {Follow(p)[n] : n \in 0..MaxBlock} \cap Block
EndsAt(p) == Follow(p)[MaxBlock]

\* The blocks a thread is pushing: one, or a chunk down to its target.
Pushing(t) == IF pc[t] \in {"d_link", "d_cas", "g_link", "g_cas"}
              THEN {b \in Block : push[t].target <= b /\ b <= push[t].p}
              ELSE {}

(* Whatever operations overlap, a block has one owner and none is lost:    *)
(* from the head the links lead to null, never through a client's data,    *)
(* and each block of the chunks is on the way, or owned by the one thread  *)
(* that was given it, or being pushed.  The tag in the head makes the      *)
(* difference when a block is popped and pushed between another thread's   *)
(* read of its link and its compare-and-swap (BlockAllocMT.h:90-93).       *)
EachBlockOnce ==
  /\ EndsAt(freelist.p) = Null
  /\ \A b \in 1..root.blocks :
       Cardinality({t \in Thread : b \in owned[t]}) + Cardinality({t \in Thread : b \in Pushing(t)})
         + (IF b \in Chain(freelist.p) THEN 1 ELSE 0) = 1

\* The thread that adds a chunk has decided to, and its list is not in place yet.
Adding == {"a_grow", "g_link", "g_cas"}

(* Threads that find the list empty together grow it once: a thread decides *)
(* to add a chunk, with the flag held, only at a moment when each block that *)
(* exists belongs to a client or is being given back, and nobody else is     *)
(* adding one.  Without the look at the head under the flag                  *)
(* (BlockAllocMT.h:79) each of them would.  Blocks given back between that   *)
(* look and the addition may be free when the chunk comes.                   *)
GrowsOnDemand ==
  [][\A t \in Thread : pc[t] # "a_grow" /\ pc'[t] = "a_grow" =>
       /\ \A b \in 1..root.blocks : \E u \in Thread : b \in owned[u] \cup Pushing(u)
       /\ \A u \in Thread \ {t} : pc[u] \notin Adding]_vars

(* An allocation returns, also when it loses the flag or every race for    *)
(* the head to others for as long as they have operations to start.        *)
OperationEnds == \A t \in Thread : pc[t] # "idle" ~> pc[t] = "idle"
=============================================================================
