---------------------- MODULE LocklessBlockAllocProofs ----------------------
(***************************************************************************)
(* Proofs about LocklessBlockAlloc for any finite set of threads, any      *)
(* sizes and bounds: the tagged stack stays a list, every block has one    *)
(* place, and the stack grows on demand.                                   *)
(***************************************************************************)
EXTENDS LocklessBlockAlloc, FreeLists

LEMMA NullIsNoBlock == Null \notin Block
BY NullAssumption, SizeAssumption DEF Block

\* A run of blocks, linked downwards, put on top of a list.
LEMMA Pushed == ASSUME NEW links, NEW p, NEW F, ListOf(Block, Null, links, p, F),
                       NEW lo \in Block, NEW hi \in Block, lo <= hi, (lo..hi) \cap F = {},
                       \A b \in (lo + 1)..hi : links[b] = b - 1, links[lo] = p
                PROVE  ListOf(Block, Null, links, hi, F \cup (lo..hi))
<1>1. PICK n \in Nat : \E s \in [1..n -> Block] : IsList(Null, links, p, s, n) /\ F = {s[i] : i \in 1..n}
  BY DEF ListOf
<1>2. PICK s \in [1..n -> Block] : IsList(Null, links, p, s, n) /\ F = {s[i] : i \in 1..n}
  BY <1>1
<1> DEFINE k == hi - lo + 1
           m == k + n
           u == [i \in 1..m |-> IF i <= k THEN hi + 1 - i ELSE s[i - k]]
<1>3. k \in Nat /\ k > 0 /\ m \in Nat /\ MaxBlock \in Nat
  BY SizeAssumption DEF Block
<1>4. \A i \in 1..k : u[i] = hi + 1 - i /\ u[i] \in lo..hi
  BY <1>3, SizeAssumption DEF Block
<1>5. \A i \in 1..m : i > k => i - k \in 1..n /\ u[i] = s[i - k] /\ u[i] \in F
  BY <1>2, <1>3
<1>6. u \in [1..m -> Block]
  BY <1>2, <1>3, <1>4, <1>5, SizeAssumption DEF Block
<1>7. F \cup (lo..hi) = {u[i] : i \in 1..m}
  <2>1. ASSUME NEW b \in lo..hi PROVE \E i \in 1..m : b = u[i]
    <3>1. hi + 1 - b \in 1..m /\ u[hi + 1 - b] = b
      BY <1>3, SizeAssumption DEF Block
    <3> QED BY <3>1
  <2>2. ASSUME NEW b \in F PROVE \E i \in 1..m : b = u[i]
    <3>1. PICK i \in 1..n : b = s[i]
      BY <1>2
    <3>2. i + k \in 1..m /\ u[i + k] = b
      BY <3>1, <1>3
    <3> QED BY <3>2
  <2> HIDE DEF u, m
  <2>3. ASSUME NEW i \in 1..m PROVE u[i] \in F \cup (lo..hi)
    <3>1. CASE i <= k
      BY <3>1, <1>3, <1>4
    <3>2. CASE i > k
      BY <3>2, <1>5
    <3> QED BY <3>1, <3>2, <1>3
  <2> QED BY <2>1, <2>2, <2>3
<1>8. IsList(Null, links, hi, u, m)
  <2>1. ASSUME NEW i \in 1..m, NEW j \in 1..m, u[i] = u[j] PROVE i = j
    <3>1. CASE i <= k /\ j <= k
      BY <3>1, <2>1, <1>3, <1>4 DEF Block
    <3>2. CASE i > k /\ j > k
      BY <3>2, <2>1, <1>2, <1>3, <1>5 DEF IsList
    <3> HIDE DEF u, m
    <3>3. CASE i <= k /\ j > k
      <4>1. u[i] \in lo..hi /\ u[j] \in F
        BY <3>3, <1>4, <1>5
      <4> QED BY <4>1, <2>1
    <3>4. CASE i > k /\ j <= k
      <4>1. u[j] \in lo..hi /\ u[i] \in F
        BY <3>4, <1>4, <1>5
      <4> QED BY <4>1, <2>1
    <3> USE DEF m
    <3> QED BY <3>1, <3>2, <3>3, <3>4, <1>3
  <2>2. hi = u[1] /\ m # 0
    BY <1>3, <1>4 DEF Block
  <2>3. ASSUME NEW i \in 1..m PROVE links[u[i]] = IF i = m THEN Null ELSE u[i + 1]
    <3>1. CASE i < k
      BY <3>1, <1>3, <1>4 DEF Block
    <3>2. CASE i = k
      <4>1. u[i] = lo
        BY <3>2, <1>3, <1>4 DEF Block
      <4>2. n # 0 => u[i + 1] = s[1]
        BY <3>2, <1>3
      <4> QED BY <4>1, <4>2, <3>2, <1>2, <1>3 DEF IsList
    <3>3. CASE i > k
      <4>1. i # m => u[i + 1] = s[i - k + 1]
        BY <3>3, <1>3
      <4>2. i - k = n <=> i = m
        BY <1>3
      <4>3. links[s[i - k]] = IF i - k = n THEN Null ELSE s[i - k + 1]
        BY <3>3, <1>2, <1>5 DEF IsList
      <4> QED BY <3>3, <4>1, <4>2, <4>3, <1>5
    <3> QED BY <3>1, <3>2, <3>3, <1>3
  <2> QED BY <2>1, <2>2, <2>3 DEF IsList
<1> HIDE DEF u, m
<1> QED BY <1>3, <1>6, <1>7, <1>8 DEF ListOf
-----------------------------------------------------------------------------
\* Following the links of a list meets its blocks and nothing else.
LEMMA StackIsChain == ASSUME NEW p, NEW F, ListOf(Block, Null, link, p, F)
                      PROVE  Chain(p) = F /\ EndsAt(p) = Null
<1>1. Null \notin Block /\ IsFiniteSet(Block) /\ MaxBlock \in Nat /\ Cardinality(Block) <= MaxBlock
  BY NullIsNoBlock, SizeAssumption, FS_Interval DEF Block
<1>2. \E at : Followed(at, Block, link, p, MaxBlock)
  BY <1>1, ListIsWalked
<1>3. Followed(Follow(p), Block, link, p, MaxBlock)
  BY <1>2, Zenon DEF Follow, Followed
<1>4. Meets(Follow(p), Block, Null, F, MaxBlock)
  BY <1>1, <1>3, ListIsChain
<1> QED BY <1>4 DEF Meets, Chain, EndsAt
-----------------------------------------------------------------------------
(* The inductive invariant.                                                *)

Reading == {"a_read", "a_cas"}
Pushes == {"d_link", "d_cas", "g_link", "g_cas"}
Holds(t) == owned[t] \cup Pushing(t)

\* The blocks of the chunks are the free ones and what each thread holds.
Shared(F) ==
  /\ F \subseteq 1..root.blocks
  /\ \A t \in Thread : /\ Holds(t) \subseteq 1..root.blocks
                       /\ owned[t] \cap Pushing(t) = {}
                       /\ Holds(t) \cap F = {}
  /\ \A t, u \in Thread : t # u => Holds(t) \cap Holds(u) = {}
  /\ \A b \in 1..root.blocks : b \in F \/ \E t \in Thread : b \in Holds(t)

StackInv == \E F \in SUBSET Block : ListOf(Block, Null, link, freelist.p, F) /\ Shared(F)

\* No tag is used twice, so a head that is still the one loaded was so all along.
HeadOK(t) == /\ seen[t].tag <= freelist.tag
             /\ seen[t].tag = freelist.tag => seen[t] = freelist
             /\ pc[t] \in Reading => seen[t].p # Null
             /\ pc[t] = "a_cas" /\ seen[t] = freelist => nval[t] = link[freelist.p]
HeadInv == \A t \in Thread : pc[t] \in Reading \cup Pushes => HeadOK(t)

\* What a thread pushes is linked downwards, at last to the head it has loaded.
PushOK(t) == /\ push[t].p \in Block /\ push[t].target \in Block /\ push[t].target <= push[t].p
             /\ \A b \in (push[t].target + 1)..push[t].p : link[b] = b - 1
             /\ pc[t] \in {"d_cas", "g_cas"} => link[push[t].target] = seen[t].p
PushInv == \A t \in Thread : pc[t] \in Pushes => PushOK(t)

\* A compare-and-swap that wins changes the stack it has seen because of HeadInv and
\* puts a list on it because of PushInv; both last because blocks have one place.
IInv == TypeOK /\ StackInv /\ HeadInv /\ PushInv
-----------------------------------------------------------------------------
LEMMA NextChunk == ASSUME NEW x \in Nat \ {0} PROVE FbNext(x) \in Nat \ {0}
<1>1. x \div 2 \in Nat /\ x \div 8 \in Nat /\ x \div 128 \in Nat /\ x \div 128 <= x
  OBVIOUS
<1> QED BY <1>1 DEF FbNext

\* Links that run down from a block to the first are a list.
LEMMA ChunkIsList == ASSUME NEW links, NEW last \in Block
                     PROVE  ListOf(Block, Null, Linked(links, 1, last), last, 1..last)
<1> DEFINE new == Linked(links, 1, last)
<1>1. 1 \in Block /\ 1 <= last /\ 1..last \subseteq Block
  BY SizeAssumption DEF Block
<1>2. new[1] = Null /\ (1..last) \cap {} = {} /\ \A b \in (1 + 1)..last : new[b] = b - 1
  BY <1>1, SizeAssumption DEF Linked, Block
<1>3. ListOf(Block, Null, new, Null, {})
  BY EmptyList
<1> HIDE DEF new
<1>4. ListOf(Block, Null, new, last, {} \cup (1..last))
  BY <1>1, <1>2, <1>3, Pushed
<1> QED BY <1>4 DEF new

\* After its constructor and after Clear the allocator has one chunk.
Fresh == /\ root.size \in Block /\ root.blocks = root.size
         /\ freelist = Head(root.size, 1)
         /\ link = Linked([b \in Block |-> Data], 1, root.size)
         /\ \A t \in Thread : owned[t] = {} /\ pc[t] = "idle"

LEMMA OneChunk == Fresh => StackInv /\ HeadInv /\ PushInv
<1> SUFFICES ASSUME Fresh PROVE StackInv /\ HeadInv /\ PushInv
  OBVIOUS
<1> DEFINE size == root.size
<1>1. ListOf(Block, Null, link, freelist.p, 1..size)
  BY ChunkIsList DEF Fresh, Head
<1>2. \A t \in Thread : Holds(t) = {} /\ Pushing(t) = {}
  BY DEF Fresh, Holds, Pushing
<1>3. Shared(1..size) /\ 1..size \in SUBSET Block
  BY <1>2, SizeAssumption DEF Fresh, Shared, Block
<1> QED BY <1>1, <1>3 DEF Fresh, StackInv, HeadInv, PushInv, Reading, Pushes

LEMMA LinkedType == ASSUME NEW links \in [Block -> Ptr \cup {Data}], NEW a \in Nat \ {0}, NEW b \in Block
                    PROVE  Linked(links, a, b) \in [Block -> Ptr \cup {Data}]
BY SizeAssumption DEF Linked, Block, Ptr

LEMMA InitInvariant == Init => IInv
<1> SUFFICES ASSUME Init PROVE IInv
  OBVIOUS
<1>1. InitSize \in Block
  BY SizeAssumption DEF Block
<1>2. StackInv /\ HeadInv /\ PushInv
  BY <1>1, OneChunk DEF Init, Fresh
<1>3. TypeOK
  <2>1. link \in [Block -> Ptr \cup {Data}]
    BY <1>1, LinkedType DEF Init
  <2>2. NoHead \in [p : Ptr, tag : Nat] /\ NoPush \in [p : Ptr, target : Ptr]
    BY DEF NoHead, NoPush, Head, Ptr
  <2> QED BY <1>1, <2>1, <2>2 DEF Init, TypeOK, Labels, Head, Ptr
<1> QED BY <1>2, <1>3 DEF IInv

\* A step that touches no list, no owner and no push leaves the stack alone.
LEMMA StackStays == ASSUME StackInv, UNCHANGED <<freelist, link, root, owned>>,
                           \A t \in Thread : Pushing(t)' = Pushing(t)
                    PROVE  StackInv'
<1>1. \A t \in Thread : Holds(t)' = Holds(t)
  BY DEF Holds
<1>2. PICK F \in SUBSET Block : ListOf(Block, Null, link, freelist.p, F) /\ Shared(F)
  BY DEF StackInv
<1>3. Shared(F)'
  BY <1>1, <1>2 DEF Shared
<1> QED BY <1>2, <1>3 DEF StackInv

\* A push is not disturbed by who leaves its thread and its blocks alone.
LEMMA PushKept == ASSUME PushInv, NEW u \in Thread, pc[u] \in Pushes,
                         pc'[u] = pc[u], push'[u] = push[u], seen'[u] = seen[u],
                         \A b \in Pushing(u) : link'[b] = link[b]
                  PROVE  PushOK(u)'
<1>1. PushOK(u)
  BY DEF PushInv
<1>2. \A b \in push[u].target..push[u].p : b \in Pushing(u)
  BY <1>1, SizeAssumption DEF PushOK, Pushing, Pushes, Block
<1>3. /\ \A b \in (push[u].target + 1)..push[u].p : b \in push[u].target..push[u].p
      /\ push[u].target \in push[u].target..push[u].p
  BY <1>1 DEF PushOK, Block
<1> QED BY <1>1, <1>2, <1>3 DEF PushOK
-----------------------------------------------------------------------------
\* The steps that only look, or give up a race.
Quiet(t) == \/ Alloc(t) \/ AllocRead(t) \/ AllocFlag(t) \/ AllocCheck(t) \/ AllocClear(t) \/ AllocLoad(t)
            \/ PushRetry(t, "d_cas", "d_link") \/ PushRetry(t, "g_cas", "g_link")
            \/ AllocCas(t) /\ ~CasWins(t)

LEMMA QuietStep == ASSUME IInv, NEW t \in Thread, Quiet(t) PROVE IInv'
<1> USE DEF IInv
<1>1. /\ UNCHANGED <<freelist, link, root, owned, push>>
      /\ \A u \in Thread \ {t} : pc'[u] = pc[u] /\ seen'[u] = seen[u] /\ nval'[u] = nval[u]
      /\ pc' \in [Thread -> Labels]
  BY DEF Quiet, Alloc, AllocRead, AllocFlag, AllocCheck, AllocClear, AllocLoad, PushRetry, AllocCas,
         Loaded, Goto, TypeOK, Labels
<1>2. \/ pc[t] \notin Pushes /\ pc'[t] \notin Pushes
      \/ pc[t] \in Pushes /\ pc'[t] \in {"d_link", "g_link"}
  BY DEF Quiet, Alloc, AllocRead, AllocFlag, AllocCheck, AllocClear, AllocLoad, PushRetry, AllocCas,
         Loaded, Goto, TypeOK, Pushes
<1>3. TypeOK'
  <2>1. growing' \in BOOLEAN
    BY DEF Quiet, Alloc, AllocRead, AllocFlag, AllocCheck, AllocClear, AllocLoad, PushRetry,
           AllocCas,
           Loaded, TypeOK
  <2>2. seen' \in [Thread -> [p : Ptr, tag : Nat]]
    BY DEF Quiet, Alloc, AllocRead, AllocFlag, AllocCheck, AllocClear, AllocLoad, PushRetry,
           AllocCas,
           Loaded, TypeOK
  <2>3. nval' \in [Thread -> Ptr \cup {Data}]
    <3>1. CASE AllocRead(t)
      <4>1. seen[t].p \in Block
        BY <3>1 DEF AllocRead, TypeOK, Ptr, HeadInv, HeadOK, Reading
      <4> QED BY <3>1, <4>1 DEF AllocRead, TypeOK
    <3>2. CASE ~AllocRead(t)
      BY <3>2 DEF Quiet, Alloc, AllocFlag, AllocCheck, AllocClear, AllocLoad, PushRetry,
         AllocCas, TypeOK
    <3> QED BY <3>1, <3>2
  <2> QED BY <1>1, <2>1, <2>2, <2>3 DEF TypeOK
<1>4. StackInv'
  <2>1. \A u \in Thread : Pushing(u)' = Pushing(u)
    BY <1>1, <1>2 DEF Pushing, Pushes
  <2> QED BY <1>1, <2>1, StackStays
<1>5. HeadInv'
  <2>1. \/ pc'[t] \notin Reading \cup Pushes
        \/ seen'[t] = freelist /\ pc'[t] # "a_cas" /\ (pc'[t] \in Reading => freelist.p # Null)
        \/ pc[t] = "a_read" /\ pc'[t] = "a_cas" /\ seen'[t] = seen[t] /\ nval'[t] = link[seen[t].p]
    BY DEF Quiet, Alloc, AllocRead, AllocFlag, AllocCheck, AllocClear, AllocLoad, PushRetry,
           AllocCas,
           Loaded, Goto, TypeOK, Reading, Pushes
  <2>2. ASSUME NEW u \in Thread \ {t}, pc'[u] \in Reading \cup Pushes
        PROVE  HeadOK(u)'
    BY <1>1, <2>2 DEF HeadInv, HeadOK
  <2>3. ASSUME pc'[t] \in Reading \cup Pushes
        PROVE  HeadOK(t)'
    <3>1. CASE seen'[t] = freelist /\ pc'[t] # "a_cas" /\ (pc'[t] \in Reading => freelist.p # Null)
      BY <1>1, <3>1 DEF TypeOK, HeadOK
    <3>2. CASE pc[t] = "a_read" /\ pc'[t] = "a_cas" /\ seen'[t] = seen[t] /\ nval'[t] = link[seen[t].p]
      BY <1>1, <3>2 DEF HeadInv, HeadOK, Reading
    <3> QED BY <2>1, <2>3, <3>1, <3>2
  <2> QED BY <2>2, <2>3 DEF HeadInv
<1>6. PushInv'
  BY <1>1, <1>2 DEF PushInv, PushOK, Pushes
<1> QED BY <1>3, <1>4, <1>5, <1>6

\* The pop: the link read long ago is still the one below the block.
LEMMA PopStep == ASSUME IInv, NEW t \in Thread, AllocCas(t), CasWins(t) PROVE IInv'
<1> USE DEF IInv
<1>0. PICK p : p = freelist.p
  OBVIOUS
<1>1. PICK F \in SUBSET Block : ListOf(Block, Null, link, p, F) /\ Shared(F)
  BY <1>0 DEF StackInv
<1>2. /\ pc[t] = "a_cas" /\ freelist = seen[t] /\ p # Null
      /\ nval[t] = link[p]
  BY <1>0 DEF AllocCas, CasWins, HeadInv, HeadOK, Reading
<1>3. p \in F /\ p \in Block /\ link[p] \in Ptr /\ ListOf(Block, Null, link, link[p], F \ {p})
  BY <1>1, <1>2, Popped DEF Ptr
<1>4. /\ freelist' = Head(link[p], freelist.tag + 1)
      /\ owned' = [owned EXCEPT ![t] = @ \cup {p}]
      /\ link' = [link EXCEPT ![p] = Data]
      /\ pc' = [pc EXCEPT ![t] = "idle"]
      /\ seen' = [seen EXCEPT ![t] = NoHead] /\ nval' = [nval EXCEPT ![t] = Null]
      /\ push' = [push EXCEPT ![t] = NoPush]
      /\ UNCHANGED <<growing, root>>
  BY <1>0, <1>2 DEF AllocCas, CasWins, Return, Goto
<1>5. freelist.tag \in Nat /\ freelist'.p = link[p] /\ freelist'.tag = freelist.tag + 1
  BY <1>4 DEF TypeOK, Head
<1>6. TypeOK'
  <2>1. freelist' \in [p : Ptr, tag : Nat]
    BY <1>3, <1>4, <1>5 DEF Head
  <2>2. link' \in [Block -> Ptr \cup {Data}] /\ owned' \in [Thread -> SUBSET Block]
    BY <1>3, <1>4 DEF TypeOK
  <2>3. NoHead \in [p : Ptr, tag : Nat] /\ NoPush \in [p : Ptr, target : Ptr] /\ Null \in Ptr
    BY DEF NoHead, NoPush, Head, Ptr
  <2> QED BY <1>4, <2>1, <2>2, <2>3 DEF TypeOK, Labels
<1>7. \A u \in Thread : /\ u # t => pc'[u] = pc[u] /\ push'[u] = push[u] /\ owned'[u] = owned[u]
                                    /\ seen'[u] = seen[u] /\ nval'[u] = nval[u]
                        /\ pc'[t] = "idle" /\ owned'[t] = owned[t] \cup {p}
  BY <1>4 DEF TypeOK
<1>8. StackInv'
  <2>1. \A u \in Thread : Pushing(u)' = Pushing(u)
    BY <1>2, <1>7 DEF Pushing
  <2>2. Pushing(t) = {}
    BY <1>2 DEF Pushing
  <2>3. \A u \in Thread : Holds(u)' = IF u = t THEN Holds(t) \cup {p} ELSE Holds(u)
    BY <1>7, <2>1 DEF Holds
  <2>4. Shared(F \ {p})'
    <3>1. p \in 1..root.blocks /\ root' = root
      BY <1>1, <1>3, <1>4 DEF Shared
    <3>2. \A u \in Thread : p \notin Holds(u)
      BY <1>1, <1>3 DEF Shared
    <3>3. \A u \in Thread : /\ Holds(u)' \subseteq 1..root.blocks
                            /\ owned'[u] \cap Pushing(u)' = {}
                            /\ Holds(u)' \cap (F \ {p}) = {}
      BY <1>1, <1>7, <2>1, <2>2, <2>3, <3>1 DEF Shared
    <3>4. \A u, v \in Thread : u # v => Holds(u)' \cap Holds(v)' = {}
      BY <1>1, <2>3, <3>2 DEF Shared
    <3>5. \A b \in 1..root.blocks : b \in F \ {p} \/ \E u \in Thread : b \in Holds(u)'
      BY <1>1, <2>3 DEF Shared
    <3> QED BY <1>1, <3>1, <3>3, <3>4, <3>5 DEF Shared
  <2>5. ListOf(Block, Null, link', link[p], F \ {p})
    BY <1>3, <1>4, SameLinks DEF TypeOK
  <2> QED BY <1>1, <1>5, <2>4, <2>5 DEF StackInv
<1>9. HeadInv'
  BY <1>5, <1>7 DEF HeadInv, HeadOK, TypeOK, Reading, Pushes
<1>10. PushInv'
  <2> SUFFICES ASSUME NEW u \in Thread, pc'[u] \in Pushes PROVE PushOK(u)'
    BY DEF PushInv
  <2>1. u # t /\ pc'[u] = pc[u] /\ push'[u] = push[u] /\ seen'[u] = seen[u]
    BY <1>7 DEF Pushes
  <2>2. \A b \in Pushing(u) : link'[b] = link[b]
    BY <1>1, <1>3, <1>4 DEF Shared, Holds, Pushing, TypeOK
  <2> QED BY <2>1, <2>2, PushKept
<1> QED BY <1>6, <1>8, <1>9, <1>10

\* The link under what is pushed; nobody else sees that block.
LEMMA LinkStep == ASSUME IInv, NEW t \in Thread,
                         PushLink(t, "d_link", "d_cas") \/ PushLink(t, "g_link", "g_cas")
                  PROVE  IInv'
<1> USE DEF IInv
<1>1. PICK low : low = push[t].target
  OBVIOUS
<1>2. /\ pc[t] \in {"d_link", "g_link"} /\ pc'[t] \in {"d_cas", "g_cas"}
      /\ \A u \in Thread \ {t} : pc'[u] = pc[u]
      /\ pc' \in [Thread -> Labels]
      /\ link' = [link EXCEPT ![low] = seen[t].p]
      /\ UNCHANGED <<freelist, growing, root, seen, nval, push, owned>>
  BY <1>1 DEF PushLink, Goto, TypeOK, Labels
<1>3. PushOK(t) /\ low \in Block
  BY <1>1, <1>2 DEF PushInv, PushOK, Pushes
<1>4. low \in Pushing(t)
  BY <1>1, <1>2, <1>3, SizeAssumption DEF PushOK, Pushing, Block
<1>5. \A b \in Block : b # low => link'[b] = link[b]
  BY <1>2, <1>3 DEF TypeOK
<1>6. link'[low] = seen[t].p
  BY <1>2, <1>3 DEF TypeOK
<1>7. PICK F \in SUBSET Block : ListOf(Block, Null, link, freelist.p, F) /\ Shared(F)
  BY DEF StackInv
<1>8. low \notin F /\ \A u \in Thread : u # t => low \notin Pushing(u)
  BY <1>4, <1>7 DEF Shared, Holds
<1>9. TypeOK'
  BY <1>2, <1>3 DEF TypeOK, Ptr
<1>10. StackInv'
  <2>1. \A u \in Thread : Pushing(u)' = Pushing(u)
    BY <1>2 DEF Pushing
  <2>2. \A u \in Thread : Holds(u)' = Holds(u)
    BY <1>2, <2>1 DEF Holds
  <2>3. Shared(F)'
    BY <1>2, <1>7, <2>1, <2>2 DEF Shared
  <2>4. ListOf(Block, Null, link', freelist.p, F)
    BY <1>5, <1>7, <1>8, SameLinks
  <2> QED BY <1>2, <1>7, <2>3, <2>4 DEF StackInv
<1>11. HeadInv'
  <2>1. freelist.p # Null => freelist.p \in F
    BY <1>7, Popped
  <2>2. ASSUME NEW u \in Thread, pc'[u] \in Reading \cup Pushes PROVE HeadOK(u)'
    <3>1. pc[u] \in Reading \cup Pushes /\ (pc'[u] \in Reading => pc[u] = pc'[u])
      BY <1>2, <2>2 DEF Reading, Pushes
    <3>2. HeadOK(u) /\ (pc'[u] = "a_cas" /\ seen[u] = freelist => freelist.p # Null)
      <4>1. HeadOK(u)
        BY <3>1 DEF HeadInv
      <4> QED BY <3>1, <4>1 DEF HeadOK, Reading
    <3>3. pc'[u] = "a_cas" /\ seen[u] = freelist => link'[freelist.p] = link[freelist.p]
      BY <3>2, <2>1, <1>5, <1>7, <1>8
    <3> QED BY <1>2, <3>1, <3>2, <3>3 DEF HeadOK, Reading
  <2> QED BY <2>2 DEF HeadInv
<1>12. PushInv'
  <2>1. PushOK(t)'
    BY <1>1, <1>2, <1>3, <1>5, <1>6, SizeAssumption DEF PushOK, Block
  <2>2. ASSUME NEW u \in Thread \ {t}, pc'[u] \in Pushes PROVE PushOK(u)'
    <3>1. pc[u] = pc'[u] /\ push'[u] = push[u] /\ seen'[u] = seen[u]
      BY <1>2
    <3>2. \A b \in Pushing(u) : link'[b] = link[b]
      BY <1>5, <1>8 DEF Pushing
    <3> QED BY <2>2, <3>1, <3>2, PushKept
  <2> QED BY <2>1, <2>2 DEF PushInv
<1> QED BY <1>9, <1>10, <1>11, <1>12

\* The compare-and-swap that puts a block or a chunk on the stack.
LEMMA PushStep == ASSUME IInv, NEW t \in Thread, PushBlock(t) \/ PushChunk(t) PROVE IInv'
<1> USE DEF IInv
<1>1. PICK low, top : low = push[t].target /\ top = push[t].p
  OBVIOUS
<1>2. /\ pc[t] \in {"d_cas", "g_cas"} /\ pc'[t] \notin Reading \cup Pushes
      /\ freelist = seen[t] /\ freelist' = Head(top, freelist.tag + 1)
      /\ UNCHANGED <<link, growing, root, owned>>
  BY <1>1 DEF PushBlock, PushChunk, Push, Return, Goto, CasWins, TypeOK, Reading, Pushes
<1>3. \A u \in Thread \ {t} : pc'[u] = pc[u] /\ seen'[u] = seen[u] /\ nval'[u] = nval[u] /\ push'[u] = push[u]
  BY DEF PushBlock, PushChunk, Push, Return, Goto, TypeOK
<1>4. /\ low \in Block /\ top \in Block /\ low <= top /\ link[low] = freelist.p
      /\ \A b \in (low + 1)..top : link[b] = b - 1
  BY <1>1, <1>2 DEF PushInv, PushOK, Pushes
<1>5. Pushing(t) = low..top /\ Pushing(t)' = {}
  <2>1. Pushing(t) = {b \in Block : low <= b /\ b <= top}
    BY <1>1, <1>2 DEF Pushing
  <2>2. {b \in Block : low <= b /\ b <= top} = low..top
    BY <1>4, SizeAssumption DEF Block
  <2> QED BY <1>2, <2>1, <2>2 DEF Pushing, Pushes
<1>6. freelist.tag \in Nat /\ freelist'.p = top /\ freelist'.tag = freelist.tag + 1
  BY <1>2 DEF TypeOK, Head
<1>7. TypeOK'
  <2>1. NoHead \in [p : Ptr, tag : Nat] /\ NoPush \in [p : Ptr, target : Ptr] /\ Null \in Ptr
    BY DEF NoHead, NoPush, Head, Ptr
  <2>2. freelist' \in [p : Ptr, tag : Nat]
    BY <1>2, <1>4, <1>6 DEF Head, Ptr
  <2>3. pc' \in [Thread -> Labels] /\ seen' \in [Thread -> [p : Ptr, tag : Nat]]
        /\ nval' \in [Thread -> Ptr \cup {Data}] /\ push' \in [Thread -> [p : Ptr, target : Ptr]]
    <3>1. CASE PushBlock(t)
      BY <2>1, <3>1 DEF PushBlock, Return, Goto, TypeOK, Labels
    <3>2. CASE PushChunk(t)
      BY <3>2 DEF PushChunk, Goto, TypeOK, Labels
    <3> QED BY <3>1, <3>2
  <2> QED BY <1>2, <2>2, <2>3 DEF TypeOK
<1>8. StackInv'
  <2>1. PICK F \in SUBSET Block : ListOf(Block, Null, link, freelist.p, F) /\ Shared(F)
    BY DEF StackInv
  <2>2. ListOf(Block, Null, link, top, F \cup (low..top))
    <3>1. (low..top) \cap F = {}
      BY <1>5, <2>1 DEF Shared, Holds
    <3> QED BY <3>1, <1>4, <2>1, Pushed
  <2>3. \A u \in Thread : Pushing(u)' = IF u = t THEN {} ELSE Pushing(u)
    BY <1>3, <1>5 DEF Pushing
  <2>4. \A u \in Thread : Holds(u)' = IF u = t THEN owned[t] ELSE Holds(u)
    BY <1>2, <2>3 DEF Holds
  <2>5. Shared(F \cup (low..top))'
    <3>1. low..top \subseteq Holds(t) /\ Holds(t) = owned[t] \cup (low..top)
          /\ owned[t] \cap (low..top) = {}
      BY <1>5, <2>1 DEF Holds, Shared
    <3>2. F \cup (low..top) \subseteq 1..root.blocks
      BY <2>1, <3>1 DEF Shared
    <3>3. \A u \in Thread : /\ Holds(u)' \subseteq 1..root.blocks
                            /\ owned[u] \cap Pushing(u)' = {}
                            /\ Holds(u)' \cap (F \cup (low..top)) = {}
      BY <2>1, <2>3, <2>4, <3>1 DEF Shared
    <3>4. \A u, v \in Thread : u # v => Holds(u)' \cap Holds(v)' = {}
      BY <2>1, <2>4, <3>1 DEF Shared
    <3>5. \A b \in 1..root.blocks : b \in F \cup (low..top) \/ \E u \in Thread : b \in Holds(u)'
      BY <2>1, <2>4, <3>1 DEF Shared
    <3> QED BY <1>2, <3>2, <3>3, <3>4, <3>5 DEF Shared
  <2>6. F \cup (low..top) \in SUBSET Block
    BY <1>5, <2>1 DEF Pushing
  <2> QED BY <1>2, <1>6, <2>2, <2>5, <2>6 DEF StackInv
<1>9. HeadInv'
  <2> SUFFICES ASSUME NEW u \in Thread, pc'[u] \in Reading \cup Pushes PROVE HeadOK(u)'
    BY DEF HeadInv
  <2>1. u # t /\ HeadOK(u) /\ seen[u].tag \in Nat
    BY <1>2, <1>3 DEF HeadInv, TypeOK
  <2> QED BY <1>3, <1>6, <2>1 DEF HeadOK
<1>10. PushInv'
  <2> SUFFICES ASSUME NEW u \in Thread, pc'[u] \in Pushes PROVE PushOK(u)'
    BY DEF PushInv
  <2>1. u # t
    BY <1>2
  <2> QED BY <1>2, <1>3, <2>1, PushKept
<1> QED BY <1>7, <1>8, <1>9, <1>10

\* A block that is given back is pushed by the thread that owned it.
LEMMA DeallocStep == ASSUME IInv, NEW t \in Thread, NEW b \in owned[t], Dealloc(t, b) PROVE IInv'
<1> USE DEF IInv
<1>1. /\ pc[t] = "idle" /\ pc'[t] = "d_link" /\ pc' \in [Thread -> Labels]
      /\ owned' = [owned EXCEPT ![t] = @ \ {b}]
      /\ push'[t] = [p |-> b, target |-> b] /\ seen'[t] = freelist
      /\ UNCHANGED <<freelist, link, growing, root, nval>>
      /\ \A u \in Thread \ {t} : pc'[u] = pc[u] /\ seen'[u] = seen[u] /\ push'[u] = push[u]
  BY DEF Dealloc, Goto, TypeOK, Labels
<1>2. b \in Block /\ freelist \in [p : Ptr, tag : Nat]
  BY DEF TypeOK
<1>3. TypeOK'
  BY <1>1, <1>2 DEF Dealloc, TypeOK, Ptr
<1>4. StackInv'
  <2>1. PICK F \in SUBSET Block : ListOf(Block, Null, link, freelist.p, F) /\ Shared(F)
    BY DEF StackInv
  <2>2. Pushing(t) = {} /\ Pushing(t)' = {b}
    BY <1>1, <1>2, SizeAssumption DEF Pushing, Block
  <2>3. \A u \in Thread \ {t} : Pushing(u)' = Pushing(u) /\ owned'[u] = owned[u]
    BY <1>1 DEF Pushing, TypeOK
  <2>4. owned'[t] = owned[t] \ {b}
    BY <1>1 DEF TypeOK
  <2>5. \A u \in Thread : Holds(u)' = Holds(u) /\ owned'[u] \cap Pushing(u)' = {}
    BY <2>1, <2>2, <2>3, <2>4 DEF Holds, Shared
  <2>6. Shared(F)'
    BY <1>1, <2>1, <2>5 DEF Shared
  <2> QED BY <1>1, <2>1, <2>6 DEF StackInv
<1>5. HeadInv'
  <2> SUFFICES ASSUME NEW u \in Thread, pc'[u] \in Reading \cup Pushes PROVE HeadOK(u)'
    BY DEF HeadInv
  <2>1. CASE u = t
    BY <1>1, <1>2, <2>1 DEF HeadOK, Reading
  <2>2. CASE u # t
    BY <1>1, <2>2 DEF HeadInv, HeadOK
  <2> QED BY <2>1, <2>2
<1>6. PushInv'
  <2> SUFFICES ASSUME NEW u \in Thread, pc'[u] \in Pushes PROVE PushOK(u)'
    BY DEF PushInv
  <2>1. CASE u = t
    BY <1>1, <1>2, <2>1, SizeAssumption DEF PushOK, Block
  <2>2. CASE u # t
    BY <1>1, <2>2, PushKept
  <2> QED BY <2>1, <2>2
<1> QED BY <1>3, <1>4, <1>5, <1>6

\* A new chunk: its blocks are nobody's until the thread that adds it pushes them.
LEMMA GrowStep == ASSUME IInv, NEW t \in Thread, AllocGrow(t) PROVE IInv'
<1> USE DEF IInv
<1>1. PICK old, size, all : old = root.blocks /\ size = FbNext(root.size) /\ all = old + size
  OBVIOUS
<1>2. /\ pc[t] = "a_grow" /\ pc'[t] = "g_link" /\ pc' \in [Thread -> Labels]
      /\ all <= MaxBlock /\ root' = [size |-> size, blocks |-> all]
      /\ link' = Linked(link, old + 1, all)
      /\ push'[t] = [p |-> all, target |-> old + 1] /\ seen'[t] = freelist
      /\ UNCHANGED <<freelist, growing, nval, owned>>
      /\ \A u \in Thread \ {t} : pc'[u] = pc[u] /\ seen'[u] = seen[u] /\ push'[u] = push[u]
  BY <1>1 DEF AllocGrow, Goto, TypeOK, Labels
<1>3. root.size \in Nat \ {0} /\ old \in Nat /\ freelist \in [p : Ptr, tag : Nat] /\ MaxBlock \in Nat
  BY <1>1, SizeAssumption DEF TypeOK, Block
<1>4. size \in Nat \ {0}
  BY <1>1, <1>3, NextChunk
<1>5. all \in Block /\ size \in Block /\ old + 1 \in Block /\ old + 1 <= all
  BY <1>1, <1>2, <1>3, <1>4 DEF Block
<1>6. /\ \A b \in 1..old : link'[b] = link[b]
      /\ \A b \in (old + 2)..all : link'[b] = b - 1
  BY <1>2, <1>3, <1>5 DEF Linked, Block
<1>7. TypeOK'
  <2>1. link' \in [Block -> Ptr \cup {Data}]
    BY <1>2, <1>3, <1>5, LinkedType DEF TypeOK
  <2>2. push' \in [Thread -> [p : Ptr, target : Ptr]] /\ seen' \in [Thread -> [p : Ptr, tag : Nat]]
    BY <1>1, <1>3, <1>5 DEF AllocGrow, TypeOK, Ptr
  <2> QED BY <1>2, <1>5, <2>1, <2>2 DEF TypeOK
<1>8. PICK F \in SUBSET Block : ListOf(Block, Null, link, freelist.p, F) /\ Shared(F)
  BY DEF StackInv
<1>9. F \subseteq 1..old /\ \A u \in Thread : Holds(u) \subseteq 1..old
  BY <1>1, <1>8 DEF Shared
<1>10. StackInv'
  <2>1. Pushing(t) = {} /\ Pushing(t)' = (old + 1)..all
    <3>1. Pushing(t)' = {b \in Block : old + 1 <= b /\ b <= all}
      BY <1>2 DEF Pushing
    <3>2. {b \in Block : old + 1 <= b /\ b <= all} = (old + 1)..all
      BY <1>3, <1>5 DEF Block
    <3> QED BY <1>2, <3>1, <3>2 DEF Pushing
  <2>2. \A u \in Thread \ {t} : Pushing(u)' = Pushing(u)
    BY <1>2 DEF Pushing
  <2>3. Holds(t)' = Holds(t) \cup ((old + 1)..all)
    BY <1>2, <2>1 DEF Holds
  <2>4. \A u \in Thread \ {t} : Holds(u)' = Holds(u)
    BY <1>2, <2>2 DEF Holds
  <2>5. 1..all = (1..old) \cup ((old + 1)..all) /\ (1..old) \cap ((old + 1)..all) = {}
    BY <1>3, <1>5 DEF Block
  <2>6. Shared(F)'
    <3>1. \A u \in Thread : /\ Holds(u)' \subseteq 1..all
                            /\ owned[u] \cap Pushing(u)' = {}
                            /\ Holds(u)' \cap F = {}
      <4>1. \A u \in Thread : owned[u] \cap Pushing(u) = {} /\ Holds(u) \cap F = {}
        BY <1>8 DEF Shared
      <4>2. owned[t] \subseteq 1..old
        BY <1>9 DEF Holds
      <4>3. /\ Holds(t)' \subseteq 1..all /\ owned[t] \cap Pushing(t)' = {}
            /\ Holds(t)' \cap F = {}
        BY <1>9, <2>1, <2>3, <2>5, <4>1, <4>2
      <4>4. \A u \in Thread \ {t} : /\ Holds(u)' \subseteq 1..all
                                   /\ owned[u] \cap Pushing(u)' = {}
                                   /\ Holds(u)' \cap F = {}
        BY <1>9, <2>2, <2>4, <2>5, <4>1
      <4> QED BY <4>3, <4>4
    <3>2. \A u, v \in Thread : u # v => Holds(u)' \cap Holds(v)' = {}
      BY <1>8, <1>9, <2>3, <2>4, <2>5 DEF Shared
    <3>3. \A b \in 1..all : b \in F \/ \E u \in Thread : b \in Holds(u)'
      BY <1>1, <1>8, <2>3, <2>4, <2>5 DEF Shared
    <3>4. F \subseteq 1..all
      BY <1>9, <2>5
    <3> QED BY <1>2, <3>1, <3>2, <3>3, <3>4 DEF Shared
  <2>7. ListOf(Block, Null, link', freelist.p, F)
    BY <1>6, <1>8, <1>9, SameLinks
  <2> QED BY <1>2, <1>8, <2>6, <2>7 DEF StackInv
<1>11. HeadInv'
  <2> SUFFICES ASSUME NEW u \in Thread, pc'[u] \in Reading \cup Pushes PROVE HeadOK(u)'
    BY DEF HeadInv
  <2>1. CASE u = t
    BY <1>2, <1>3, <2>1 DEF HeadOK, Reading
  <2>2. CASE u # t
    <3>1. HeadOK(u) /\ pc'[u] = pc[u] /\ seen'[u] = seen[u]
      BY <1>2, <2>2 DEF HeadInv
    <3>2. freelist.p # Null => link'[freelist.p] = link[freelist.p]
      BY <1>6, <1>8, <1>9, Popped
    <3> QED BY <1>2, <3>1, <3>2 DEF HeadOK, Reading
  <2> QED BY <2>1, <2>2
<1>12. PushInv'
  <2> SUFFICES ASSUME NEW u \in Thread, pc'[u] \in Pushes PROVE PushOK(u)'
    BY DEF PushInv
  <2>1. CASE u = t
    BY <1>2, <1>3, <1>5, <1>6, <2>1 DEF PushOK, Block
  <2>2. CASE u # t
    <3>1. \A b \in Pushing(u) : link'[b] = link[b]
      BY <1>6, <1>9 DEF Holds
    <3> QED BY <1>2, <2>2, <3>1, PushKept
  <2> QED BY <2>1, <2>2
<1> QED BY <1>7, <1>10, <1>11, <1>12

LEMMA ClearStep == IInv /\ Clear => IInv'
<1> SUFFICES ASSUME IInv, Clear PROVE IInv'
  OBVIOUS
<1>1. \A t \in Thread : pc'[t] = "idle" /\ owned'[t] = {}
  BY DEF Clear, Busy
<1>2. root.size \in Block /\ root'.blocks = root.size /\ root'.size = root.size
  BY DEF Clear, IInv, TypeOK
<1>3. StackInv' /\ HeadInv' /\ PushInv'
  <2>1. Fresh'
    BY <1>1, <1>2 DEF Clear, Fresh, Head
  <2>2. (Fresh => StackInv /\ HeadInv /\ PushInv)'
    BY OneChunk, PTL
  <2> QED BY <2>1, <2>2
<1>4. TypeOK'
  <2>1. link' \in [Block -> Ptr \cup {Data}]
    BY <1>2, LinkedType DEF Clear
  <2> QED BY <1>2, <2>1 DEF Clear, IInv, TypeOK, Head, Ptr
<1> QED BY <1>3, <1>4 DEF IInv

LEMMA NextInvariant == IInv /\ [Next]_vars => IInv'
<1> SUFFICES ASSUME IInv, [Next]_vars PROVE IInv'
  OBVIOUS
<1>1. ASSUME NEW t \in Thread, Step(t) \/ Alloc(t) PROVE IInv'
  <2>1. CASE Quiet(t)
    BY <2>1, QuietStep
  <2>2. CASE AllocCas(t) /\ CasWins(t)
    BY <2>2, PopStep
  <2>3. CASE AllocGrow(t)
    BY <2>3, GrowStep
  <2>4. CASE PushLink(t, "d_link", "d_cas") \/ PushLink(t, "g_link", "g_cas")
    BY <2>4, LinkStep
  <2>5. CASE PushBlock(t) \/ PushChunk(t)
    BY <2>5, PushStep
  <2> QED BY <1>1, <2>1, <2>2, <2>3, <2>4, <2>5 DEF Step, Quiet
<1>2. ASSUME NEW t \in Thread, NEW b \in owned[t], Dealloc(t, b) PROVE IInv'
  BY <1>2, DeallocStep
<1>3. CASE Clear
  BY <1>3, ClearStep
<1>4. CASE UNCHANGED vars
  <2>1. TypeOK'
    BY <1>4 DEF vars, IInv, TypeOK
  <2>2. StackInv'
    BY <1>4, StackStays DEF vars, IInv, Pushing
  <2>3. HeadInv'
    BY <1>4 DEF vars, IInv, HeadInv, HeadOK
  <2>4. PushInv'
    BY <1>4 DEF vars, IInv, PushInv, PushOK
  <2> QED BY <2>1, <2>2, <2>3, <2>4 DEF IInv
<1> QED BY <1>1, <1>2, <1>3, <1>4 DEF Next
-----------------------------------------------------------------------------
(* At every step the head begins a list of blocks, and no block of it is   *)
(* owned or being pushed (BlockAllocMT.h:90-99, 186-198).                  *)
THEOREM StackInvariant == Spec => []IInv
<1>1. Init => IInv
  BY InitInvariant
<1>2. IInv /\ [Next]_vars => IInv'
  BY NextInvariant
<1> QED BY <1>1, <1>2, PTL DEF Spec

(* Types; in particular a client's data is never taken for a link.         *)
THEOREM TypeCorrect == Spec => []TypeOK
<1>1. IInv => TypeOK
  BY DEF IInv
<1> QED BY <1>1, StackInvariant, PTL

LEMMA OnceEach == IInv => EachBlockOnce
<1> SUFFICES ASSUME IInv PROVE EachBlockOnce
  OBVIOUS
<1>1. PICK F \in SUBSET Block : ListOf(Block, Null, link, freelist.p, F) /\ Shared(F)
  BY DEF IInv, StackInv
<1>2. Chain(freelist.p) = F /\ EndsAt(freelist.p) = Null
  BY <1>1, StackIsChain
<1>3. ASSUME NEW b \in 1..root.blocks
      PROVE  Cardinality({t \in Thread : b \in owned[t]}) + Cardinality({t \in Thread : b \in Pushing(t)})
               + (IF b \in F THEN 1 ELSE 0) = 1
  <2>1. CASE b \in F
    <3>1. {t \in Thread : b \in owned[t]} = {} /\ {t \in Thread : b \in Pushing(t)} = {}
      BY <1>1, <2>1 DEF Shared, Holds
    <3>2. Cardinality({t \in Thread : b \in owned[t]}) = 0 /\ Cardinality({t \in Thread : b \in Pushing(t)}) = 0
      BY <3>1, FS_EmptySet, Zenon
    <3> QED BY <2>1, <3>2
  <2>2. CASE b \notin F
    <3>1. PICK t \in Thread : b \in Holds(t)
      BY <1>1, <2>2 DEF Shared
    <3>2. \A u \in Thread : u # t => b \notin owned[u] /\ b \notin Pushing(u)
      BY <1>1, <3>1 DEF Shared, Holds
    <3>3. CASE b \in owned[t]
      <4>1. {u \in Thread : b \in owned[u]} = {t} /\ {u \in Thread : b \in Pushing(u)} = {}
        BY <1>1, <3>2, <3>3 DEF Shared
      <4>2. Cardinality({u \in Thread : b \in owned[u]}) = 1 /\ Cardinality({u \in Thread : b \in Pushing(u)}) = 0
        BY <4>1, FS_EmptySet, FS_Singleton, Zenon
      <4> QED BY <2>2, <4>2
    <3>4. CASE b \in Pushing(t)
      <4>1. {u \in Thread : b \in owned[u]} = {} /\ {u \in Thread : b \in Pushing(u)} = {t}
        BY <1>1, <3>2, <3>4 DEF Shared
      <4>2. Cardinality({u \in Thread : b \in owned[u]}) = 0 /\ Cardinality({u \in Thread : b \in Pushing(u)}) = 1
        BY <4>1, FS_EmptySet, FS_Singleton, Zenon
      <4> QED BY <2>2, <4>2
    <3> QED BY <3>1, <3>3, <3>4 DEF Holds
  <2> QED BY <2>1, <2>2
<1> QED BY <1>2, <1>3 DEF EachBlockOnce

(* Every block of the chunks is free, owned by one thread, or in the hands *)
(* of one thread that pushes it, whatever operations overlap.              *)
THEOREM BlocksOnce == Spec => []EachBlockOnce
BY StackInvariant, OnceEach, PTL
-----------------------------------------------------------------------------
(* The list grows on demand.                                               *)

Growers == {"a_check", "a_clear"} \cup Adding

\* Whoever is behind the flag is there alone, and it is set.
FlagInv == \A t \in Thread : pc[t] \in Growers =>
             growing /\ \A u \in Thread \ {t} : pc[u] \notin Growers

LEMMA FlagStep == ASSUME TypeOK, FlagInv, NEW t \in Thread,
                         Step(t) \/ Alloc(t) \/ \E b \in owned[t] : Dealloc(t, b)
                  PROVE  FlagInv'
<1>1. \A u \in Thread \ {t} : pc'[u] = pc[u]
  BY DEF Step, Alloc, AllocRead, AllocFlag, AllocCheck, AllocClear, AllocLoad, PushRetry,
         AllocCas, AllocGrow,
         PushLink, Push, PushBlock, PushChunk, Dealloc, Return, Loaded, Goto, TypeOK
<1>2. \/ pc'[t] \notin Growers /\ growing' = growing
      \/ pc[t] \in Growers /\ pc'[t] \in Growers /\ growing' = growing
      \/ pc[t] \in Growers /\ pc'[t] \notin Growers
      \/ pc'[t] \notin Growers /\ growing'
      \/ pc'[t] \in Growers /\ ~growing /\ growing'
  BY DEF Step, Alloc, AllocRead, AllocFlag, AllocCheck, AllocClear, AllocLoad, PushRetry,
         AllocCas, AllocGrow,
         PushLink, Push, PushBlock, PushChunk, Dealloc, Return, Loaded, Goto, TypeOK, Growers, Adding
<1> QED BY <1>1, <1>2 DEF FlagInv

LEMMA FlagNext == IInv /\ FlagInv /\ [Next]_vars => FlagInv'
<1> SUFFICES ASSUME IInv, FlagInv, [Next]_vars PROVE FlagInv'
  OBVIOUS
<1>1. ASSUME NEW t \in Thread, Step(t) \/ Alloc(t) \/ \E b \in owned[t] : Dealloc(t, b)
      PROVE  FlagInv'
  BY <1>1, FlagStep DEF IInv
<1>2. CASE Clear
  BY <1>2 DEF Clear, Busy, FlagInv, Growers, Adding
<1>3. CASE UNCHANGED vars
  BY <1>3 DEF vars, FlagInv
<1> QED BY <1>1, <1>2, <1>3 DEF Next

\* An empty list holds no block, so each is a client's or in the hands of a call.
LEMMA AllTaken == ASSUME IInv, freelist.p = Null
                  PROVE  \A b \in 1..root.blocks : \E u \in Thread : b \in owned[u] \cup Pushing(u)
<1>1. PICK F \in SUBSET Block : ListOf(Block, Null, link, Null, F) /\ Shared(F)
  BY DEF IInv, StackInv
<1>2. F = {}
  <2>1. PICK n \in Nat : \E s \in [1..n -> Block] : IsList(Null, link, Null, s, n) /\ F = {s[i] : i \in 1..n}
    BY <1>1 DEF ListOf
  <2>2. PICK s \in [1..n -> Block] : IsList(Null, link, Null, s, n) /\ F = {s[i] : i \in 1..n}
    BY <2>1
  <2>3. n = 0
    BY <2>2, NullIsNoBlock DEF IsList
  <2> QED BY <2>2, <2>3
<1> QED BY <1>1, <1>2 DEF Shared, Holds

\* Nobody but AllocCheck sends a thread to the addition.
LEMMA Decided == ASSUME TypeOK, Next, NEW t \in Thread, pc[t] # "a_grow", pc'[t] = "a_grow"
                 PROVE  pc[t] = "a_check" /\ freelist.p = Null
<1>1. ~Clear
  BY DEF Clear
<1>2. PICK u \in Thread : Step(u) \/ Alloc(u) \/ \E b \in owned[u] : Dealloc(u, b)
  BY <1>1 DEF Next
<1>3. u = t
  BY <1>2 DEF Step, Alloc, AllocRead, AllocFlag, AllocCheck, AllocClear, AllocLoad, PushRetry,
         AllocCas, AllocGrow,
         PushLink, Push, PushBlock, PushChunk, Dealloc, Return, Loaded, Goto, TypeOK
<1>4. AllocCheck(t)
  BY <1>2, <1>3 DEF Step, Alloc, AllocRead, AllocFlag, AllocClear, AllocLoad, PushRetry,
         AllocCas, AllocGrow,
         PushLink, Push, PushBlock, PushChunk, Dealloc, Return, Loaded, Goto, TypeOK
<1> QED BY <1>4 DEF AllocCheck, Goto, TypeOK

(* A thread decides to add a chunk only when each block that exists is a   *)
(* client's or in the hands of a call that gives it back, and nobody else  *)
(* is adding one: the look at the head under the flag saw an empty list    *)
(* (BlockAllocMT.h:77-82).                                                 *)
THEOREM GrownOnDemand == Spec => GrowsOnDemand
<1>1. Init => IInv /\ FlagInv
  BY InitInvariant DEF Init, FlagInv, Growers, Adding
<1>2. IInv /\ FlagInv /\ [Next]_vars => IInv' /\ FlagInv'
  BY NextInvariant, FlagNext
<1>3. IInv /\ FlagInv /\ [Next]_vars =>
        [\A t \in Thread : pc[t] # "a_grow" /\ pc'[t] = "a_grow" =>
           /\ \A b \in 1..root.blocks : \E u \in Thread : b \in owned[u] \cup Pushing(u)
           /\ \A u \in Thread \ {t} : pc[u] \notin Adding]_vars
  <2> SUFFICES ASSUME IInv, FlagInv, Next, NEW t \in Thread, pc[t] # "a_grow", pc'[t] = "a_grow"
               PROVE  /\ \A b \in 1..root.blocks : \E u \in Thread : b \in owned[u] \cup Pushing(u)
                      /\ \A u \in Thread \ {t} : pc[u] \notin Adding
    OBVIOUS
  <2>1. pc[t] = "a_check" /\ freelist.p = Null
    BY Decided DEF IInv
  <2>2. \A b \in 1..root.blocks : \E u \in Thread : b \in owned[u] \cup Pushing(u)
    BY <2>1, AllTaken
  <2>3. \A u \in Thread \ {t} : pc[u] \notin Adding
    BY <2>1 DEF FlagInv, Growers
  <2> QED BY <2>2, <2>3
<1> QED BY <1>1, <1>2, <1>3, PTL DEF Spec, GrowsOnDemand
=============================================================================
