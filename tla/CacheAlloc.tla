----------------------------- MODULE CacheAlloc -----------------------------
(***************************************************************************)
(* CacheAlloc and CachePolicy of include/buntils/CacheAlloc.h: freed       *)
(* memory is kept in one lock-free stack per exact size.  The stacks are   *)
(* the values of a hash (`_cache'), read under a read lock and extended    *)
(* under the write lock; blocks come from the GreedyAlloc base, which      *)
(* never gives the same memory twice, and sizes above _maxsize from        *)
(* malloc.  One action per access to shared memory.                        *)
(***************************************************************************)
EXTENDS Naturals, FiniteSets

CONSTANTS Thread, NoThread,
          Sizes,    \* the sizes the allocator is used with
          MaxSize,  \* _maxsize: larger blocks come from malloc
          MaxBlock, \* bound: blocks ever carved or malloc'ed
          MaxTag,   \* bound: tags of a stack
          Null,
          Data      \* whatever a client has written over the link of its block

Block == 1..MaxBlock
Cached == {s \in Sizes : s <= MaxSize}

Assumptions == /\ Sizes \subseteq Nat /\ MaxSize \in Nat
               /\ MaxBlock \in Nat /\ MaxTag \in Nat
               /\ Null \notin Nat /\ Data \notin Nat /\ Null # Data
               /\ NoThread \notin Thread

VARIABLES held, claim,  \* _cachelock
          cache,        \* _cache: the head [p, tag] for a size, or NoEntry
          link,         \* the first word of each block
          made,         \* the blocks that exist
          capacity,     \* the size each block was carved with
          asked,        \* the size its owner last asked for
          owned,        \* the blocks each client thread holds
          forgotten,    \* history: blocks on a stack that was overwritten
          pc,
          sz, block,    \* Alloc's and Dealloc's arguments; Alloc's result
          seen, nval,   \* the head last loaded; the link read from its block
          old           \* allocate's p and old: [p, size], or NoOld

lockVars == <<held, claim>>
heapVars == <<link, made, capacity, asked>>
vars == <<lockVars, cache, heapVars, owned, forgotten, pc, sz, block, seen, nval, old>>

Lock == INSTANCE RWLockSpec

Head(p, tag) == [p |-> p, tag |-> tag]
NoEntry == Head(Null, Null)
NoHead == Head(Null, 0)
NoOld == [p |-> Null, size |-> 0]

Init == /\ Lock!Init
        /\ cache = [s \in Cached |-> NoEntry]
        /\ link = [b \in Block |-> Data]
        /\ made = {}
        /\ capacity = [b \in Block |-> 0]
        /\ asked = [b \in Block |-> 0]
        /\ owned = [t \in Thread |-> {}]
        /\ forgotten = {}
        /\ pc = [t \in Thread |-> "idle"]
        /\ sz = [t \in Thread |-> 0]
        /\ block = [t \in Thread |-> Null]
        /\ seen = [t \in Thread |-> NoHead]
        /\ nval = [t \in Thread |-> Null]
        /\ old = [t \in Thread |-> NoOld]

Go(t, from, to) == pc[t] = from /\ pc' = [pc EXCEPT ![t] = to]
argVars == <<sz, block, old>>
casVars == <<seen, nval>>

\* GreedyAlloc::Alloc or malloc: memory nobody has had before.
NewBlock(t) == /\ made # Block
               /\ LET b == Cardinality(made) + 1
                  IN  /\ made' = made \cup {b}
                      /\ capacity' = [capacity EXCEPT ![b] = sz[t]]
                      /\ block' = [block EXCEPT ![t] = b]
               /\ UNCHANGED <<link, asked>>
-----------------------------------------------------------------------------
(* The calls.  allocate(cnt, p, old) is Alloc, a copy and Dealloc of p.    *)

\* Bounds: every call in progress may carve a block and push and pop one.
Busy == {t \in Thread : pc[t] # "idle"}
MayStart == /\ Cardinality(made) + Cardinality(Busy) < MaxBlock
            /\ \A s \in Cached : cache[s] # NoEntry => cache[s].tag + 2 * (Cardinality(Busy) + 1) <= MaxTag

Start(t, s) == /\ MayStart
               /\ Go(t, "idle", IF s > MaxSize THEN "malloc" ELSE "a_rlock")
               /\ sz' = [sz EXCEPT ![t] = s]
               /\ UNCHANGED <<lockVars, cache, heapVars, owned, forgotten, block, casVars>>

Alloc(t, s) == Start(t, s) /\ UNCHANGED old

Reallocate(t, b, s) ==
  /\ b \in owned[t]
  /\ Start(t, s)
  /\ old' = [old EXCEPT ![t] = [p |-> b, size |-> asked[b]]]

Malloc(t) == /\ Go(t, "malloc", "a_return")
             /\ NewBlock(t)
             /\ UNCHANGED <<lockVars, cache, owned, forgotten, sz, old, casVars>>

FreeOf(t, b, s, from) ==
  /\ Go(t, from, IF s > MaxSize THEN "free" ELSE "d_rlock")
  /\ owned' = [owned EXCEPT ![t] = @ \ {b}]
  /\ block' = [block EXCEPT ![t] = b]
  /\ sz' = [sz EXCEPT ![t] = s]

Dealloc(t, b) == /\ b \in owned[t]
                 /\ MayStart
                 /\ FreeOf(t, b, asked[b], "idle")
                 /\ UNCHANGED <<lockVars, cache, heapVars, forgotten, casVars, old>>

\* The block is the client's; a reallocation goes on with the old one.
Return(t) == /\ Go(t, "a_return", IF old[t] = NoOld THEN "idle" ELSE "copy")
             /\ owned' = [owned EXCEPT ![t] = @ \cup {block[t]}]
             /\ link' = [link EXCEPT ![block[t]] = Data]
             /\ asked' = [asked EXCEPT ![block[t]] = sz[t]]
             /\ block' = [block EXCEPT ![t] = Null]
             /\ sz' = [sz EXCEPT ![t] = IF old[t] = NoOld THEN 0 ELSE @]
             /\ UNCHANGED <<lockVars, cache, made, capacity, forgotten, casVars, old>>

\* Mutation: the new count is taken for the old block's size in both cases.
BugCopy(t) == /\ FreeOf(t, old[t].p, sz[t], "copy")
              /\ old' = [old EXCEPT ![t] = NoOld]
              /\ UNCHANGED <<lockVars, cache, heapVars, forgotten, casVars>>

\* `old' is cut down to the new count before the old block is deallocated.
Copy(t) == LET count == IF sz[t] < old[t].size THEN sz[t] ELSE old[t].size
           IN  /\ FreeOf(t, old[t].p, count, "copy")
               /\ old' = [old EXCEPT ![t] = NoOld]
               /\ UNCHANGED <<lockVars, cache, heapVars, forgotten, casVars>>

Free(t) == /\ Go(t, "free", "idle")
           /\ block' = [block EXCEPT ![t] = Null]
           /\ sz' = [sz EXCEPT ![t] = 0]
           /\ UNCHANGED <<lockVars, cache, heapVars, owned, forgotten, casVars, old>>
-----------------------------------------------------------------------------
(* Alloc of a cached size: find or make the stack, under _cachelock.       *)

RLock(t) == /\ Lock!AcquireRead(t)
            /\ \/ Go(t, "a_rlock", "a_lookup") \/ Go(t, "d_rlock", "d_load")
            /\ UNCHANGED <<cache, heapVars, owned, forgotten, argVars, casVars>>

Lookup(t) == /\ Go(t, "a_lookup", IF cache[sz[t]] = NoEntry THEN "a_upgrade" ELSE "a_load")
             /\ UNCHANGED <<lockVars, cache, heapVars, owned, forgotten, argVars, casVars>>

\* Upgrade: who finds another writer lets go and begins to read again later.
Upgrade(t) == /\ \/ Lock!Claim(t) /\ Go(t, "a_upgrade", "a_flush")
                 \/ claim # NoThread /\ Lock!ReleaseRead(t) /\ Go(t, "a_upgrade", "a_again")
              /\ UNCHANGED <<cache, heapVars, owned, forgotten, argVars, casVars>>

UpgradeAgain(t) == /\ Lock!AcquireRead(t) /\ Go(t, "a_again", "a_upgrade")
                   /\ UNCHANGED <<cache, heapVars, owned, forgotten, argVars, casVars>>

\* Mutation: the other readers are not waited for.
BugUpgradeFlush(t) == /\ Go(t, "a_flush", "a_insert")
                      /\ held' = [held EXCEPT ![t] = "write"]
                      /\ UNCHANGED <<claim, cache, heapVars, owned, forgotten, argVars, casVars>>

UpgradeFlush(t) == /\ Lock!Enter(t) /\ Go(t, "a_flush", "a_insert")
                   /\ UNCHANGED <<cache, heapVars, owned, forgotten, argVars, casVars>>

\* The blocks below a head, by links.
Follow(p) ==
  LET at[n \in 0..MaxBlock] ==
        IF n = 0 THEN p
        ELSE IF at[n - 1] \in Block THEN link[at[n - 1]] ELSE at[n - 1]
  IN  at
Chain(p) == {Follow(p)[n] : n \in 0..MaxBlock} \cap Block

\* Insert overwrites the value of a key that is already there.
Insert(t) == /\ Go(t, "a_insert", "a_downgrade")
             /\ cache' = [cache EXCEPT ![sz[t]] = NoHead]
             /\ forgotten' = forgotten \cup Chain(cache[sz[t]].p)
             /\ UNCHANGED <<lockVars, heapVars, owned, argVars, casVars>>

Downgrade(t) == /\ Lock!Leave(t, "read") /\ Go(t, "a_downgrade", "a_load")
                /\ UNCHANGED <<cache, heapVars, owned, forgotten, argVars, casVars>>
-----------------------------------------------------------------------------
(* Pop from the stack, or carve a new block when it is empty.              *)

Loaded(t) == /\ seen' = [seen EXCEPT ![t] = cache[sz[t]]]
             /\ Go(t, pc[t], IF cache[sz[t]].p = Null THEN "a_carve" ELSE "a_read")

Load(t) == /\ pc[t] = "a_load"
           /\ Loaded(t)
           /\ UNCHANGED <<lockVars, cache, heapVars, owned, forgotten, argVars, nval>>

ReadLink(t) == /\ Go(t, "a_read", "a_cas")
               /\ nval' = [nval EXCEPT ![t] = link[seen[t].p]]
               /\ UNCHANGED <<lockVars, cache, heapVars, owned, forgotten, argVars, seen>>

\* Mutation: compares the pointer alone.
BugCasWins(t) == cache[sz[t]].p = seen[t].p

\* asmcasr: pointer and tag must both be the ones loaded.
CasWins(t) == cache[sz[t]] = seen[t]

PopCas(t) ==
  /\ pc[t] = "a_cas"
  /\ \/ /\ CasWins(t) 
        /\ cache' = [cache EXCEPT ![sz[t]] = Head(nval[t], seen[t].tag + 1)]
        /\ block' = [block EXCEPT ![t] = seen[t].p]
        /\ seen' = [seen EXCEPT ![t] = NoHead]
        /\ Go(t, "a_cas", "a_runlock")
     \/ /\ ~CasWins(t)
        /\ Loaded(t)
        /\ UNCHANGED <<cache, block>>
  /\ nval' = [nval EXCEPT ![t] = Null]
  /\ UNCHANGED <<lockVars, heapVars, owned, forgotten, sz, old>>

Carve(t) == /\ Go(t, "a_carve", "a_runlock")
            /\ NewBlock(t)
            /\ UNCHANGED <<lockVars, cache, owned, forgotten, sz, old, casVars>>

RUnlock(t) == /\ Lock!ReleaseRead(t)
              /\ Go(t, "a_runlock", "a_return")
              /\ UNCHANGED <<cache, heapVars, owned, forgotten, argVars, casVars>>
-----------------------------------------------------------------------------
(* Dealloc of a cached size: _setFreeList under the read lock.             *)

PushLoad(t) == /\ Go(t, "d_load", "d_link")
               /\ seen' = [seen EXCEPT ![t] = cache[sz[t]]]
               /\ UNCHANGED <<lockVars, cache, heapVars, owned, forgotten, argVars, nval>>

\* Mutation: the link is set once the block is on the stack, that is, never.
BugPushLink(t) == /\ Go(t, "d_link", "d_cas")
                  /\ UNCHANGED <<lockVars, cache, heapVars, owned, forgotten, argVars, casVars>>

PushLink(t) == /\ Go(t, "d_link", "d_cas")
               /\ link' = [link EXCEPT ![block[t]] = seen[t].p]
               /\ UNCHANGED <<lockVars, cache, made, capacity, asked, owned, forgotten, argVars, casVars>>

PushCas(t) ==
  /\ pc[t] = "d_cas"
  /\ IF CasWins(t)
     THEN /\ Go(t, "d_cas", "d_runlock")
          /\ cache' = [cache EXCEPT ![sz[t]] = Head(block[t], seen[t].tag + 1)]
          /\ block' = [block EXCEPT ![t] = Null]
          /\ seen' = [seen EXCEPT ![t] = NoHead]
     ELSE /\ Go(t, "d_cas", "d_link")
          /\ seen' = [seen EXCEPT ![t] = cache[sz[t]]]
          /\ UNCHANGED <<cache, block>>
  /\ UNCHANGED <<lockVars, heapVars, owned, forgotten, sz, old, nval>>

PushRUnlock(t) == /\ Lock!ReleaseRead(t)
                  /\ Go(t, "d_runlock", "idle")
                  /\ sz' = [sz EXCEPT ![t] = 0]
                  /\ UNCHANGED <<cache, heapVars, owned, forgotten, block, old, casVars>>
-----------------------------------------------------------------------------
Step(t) == \/ Malloc(t) \/ Return(t) \/ Copy(t) \/ Free(t)
           \/ RLock(t) \/ Lookup(t) \/ Upgrade(t) \/ UpgradeAgain(t) \/ UpgradeFlush(t)
           \/ Insert(t) \/ Downgrade(t)
           \/ Load(t) \/ ReadLink(t) \/ PopCas(t) \/ Carve(t) \/ RUnlock(t)
           \/ PushLoad(t) \/ PushLink(t) \/ PushCas(t) \/ PushRUnlock(t)

\* No call is in progress and the bounds allow no other.
Terminated == Busy = {} /\ ~MayStart /\ UNCHANGED vars

Calls(t) == \/ \E s \in Sizes : Alloc(t, s)
            \/ \E b \in owned[t] : Dealloc(t, b)
            \/ \E b \in owned[t], s \in Sizes : Reallocate(t, b, s)

Next == (\E t \in Thread : Step(t) \/ Calls(t)) \/ Terminated

Spec == Init /\ [][Next]_vars
-----------------------------------------------------------------------------
Labels == {"idle", "malloc", "copy", "free", "a_rlock", "a_lookup", "a_upgrade", "a_again",
           "a_flush", "a_insert", "a_downgrade", "a_load", "a_read", "a_cas", "a_carve",
           "a_runlock", "a_return", "d_rlock", "d_load", "d_link", "d_cas", "d_runlock"}
Ptr == Block \cup {Null}
Size == Sizes \cup {0}
HeadType == [p : Ptr, tag : Nat]

TypeOK == /\ Lock!TypeOK
          /\ cache \in [Cached -> HeadType \cup {NoEntry}]
          /\ link \in [Block -> Ptr \cup {Data}]
          /\ made \subseteq Block
          /\ capacity \in [Block -> Size] /\ asked \in [Block -> Size]
          /\ owned \in [Thread -> SUBSET Block]
          /\ forgotten \subseteq Block
          /\ pc \in [Thread -> Labels]
          /\ sz \in [Thread -> Size] /\ block \in [Thread -> Ptr]
          /\ seen \in [Thread -> HeadType] /\ nval \in [Thread -> Ptr \cup {Data}]
          /\ old \in [Thread -> [p : Ptr, size : Size]]

Stack(s) == Chain(cache[s].p)

\* How often a block is to be found: with a client, in a call, or on a stack.
Places(b) == Cardinality({t \in Thread : b \in owned[t]})
             + Cardinality({t \in Thread : block[t] = b})
             + Cardinality({s \in Cached : b \in Stack(s)})

(* Whatever calls overlap, among them the ones that make a stack and reset *)
(* its tag, memory has one owner or is on one stack, and the links of a    *)
(* stack lead to null and never through a client's data                    *)
(* (CacheAlloc.h:45-70, 115-126).  What was carved is only lost when its   *)
(* stack was overwritten.                                                  *)
EachBlockOnce ==
  /\ \A s \in Cached : Follow(cache[s].p)[MaxBlock] = Null
  /\ \A b \in made : /\ Places(b) <= 1
                     /\ capacity[b] <= MaxSize /\ b \notin forgotten => Places(b) = 1

(* A thread that uses a stack holds a reference into the hash's value      *)
(* array; no insertion, which may rehash and move that array, runs then    *)
(* (CacheAlloc.h:42, 46, 100).                                             *)
ReferencesStable ==
  \A t, u \in Thread :
    t # u /\ pc[t] = "a_insert" =>
      pc[u] \notin {"a_lookup", "a_load", "a_read", "a_cas", "a_carve", "d_load", "d_link", "d_cas"}

(* A client never gets less memory than it asked for: what is on a stack   *)
(* has at least the stack's size, also after a reallocation returned a     *)
(* block under another size than it was allocated with                     *)
(* (CacheAlloc.h:140-151).                                                 *)
CapacitySuffices ==
  /\ \A t \in Thread : \A b \in owned[t] : asked[b] <= capacity[b]
  /\ \A s \in Cached : \A b \in Stack(s) : s <= capacity[b]

(* The assertion in Dealloc (CacheAlloc.h:88): the size given is the size  *)
(* the memory was allocated with.                                          *)
SizeMatches ==
  \A t \in Thread : pc[t] \in {"free", "d_rlock"} => sz[t] = asked[block[t]]
=============================================================================
