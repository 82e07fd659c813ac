----------------------------- MODULE BlockAlloc -----------------------------
(***************************************************************************)
(* The allocators of one thread: BlockAlloc (blocks of one size in a list  *)
(* of free ones that is kept in the blocks), GreedyBlockPolicy (memory     *)
(* from the front of a chunk, given back by Clear only), the               *)
(* LocklessBlockCollection that chooses an allocator by size, used by one  *)
(* thread, and the StandardAllocator with the sizes its debug build keeps. *)
(* Addresses are a chunk and an offset in bytes.                           *)
(***************************************************************************)
EXTENDS Integers, Sequences, FiniteSets

CONSTANTS Size, Align,  \* of the blocks that are asked for; a type is as large as a block
          Count,        \* allocators of the collection
          MaxBytes      \* bound: the bytes of all chunks

Sets == INSTANCE FiniteSetsExt
Seqs == INSTANCE SequencesExt

VARIABLES alloc,
          want,   \* history: what is owned
          right   \* history: every step so far gave what it promises

vars == <<alloc, want, right>>

Null == <<>>
Used == <<-1>>  \* what an owner writes
FbNext(x) == x + 1 + x \div 2 + x \div 8 - x \div 128
AlignSize(sz, align) == (sz \div align + IF sz % align # 0 THEN 1 ELSE 0) * align
Sz == AlignSize(Size, Align)  \* _sz

Bytes(chunks) == Seqs!FoldLeft(LAMBDA n, c : n + c.size, 0, chunks)
Ids(chunks) == {chunks[i].id : i \in DOMAIN chunks}
Fresh(chunks) == CHOOSE i \in 1..Len(chunks) + 1 : i \notin Ids(chunks)
WithChunk(chunks, size) == <<[id |-> Fresh(chunks), size |-> size]>> \o chunks
Blocks(chunk) == {<<chunk.id, k * Sz>> : k \in 0..(chunk.size + Sz - 1) \div Sz - 1}
-----------------------------------------------------------------------------
\* _allocChunk and _initChunk: the blocks of the new chunk, the last one first, then the rest.
AllocChunk(a, size) ==
  LET chunks == WithChunk(a.chunks, size)
      new == Blocks(chunks[1])
      Before(b) == <<b[1], b[2] - Sz>>
  IN  [a EXCEPT !.chunks = chunks,
                !.free = IF new = {} THEN @ ELSE <<chunks[1].id, Sets!Max({b[2] : b \in new})>>,
                !.link = [b \in DOMAIN @ \cup new |-> IF b \notin new THEN @[b]
                                                      ELSE IF b[2] = 0 THEN a.free ELSE Before(b)]]

None == <<>>
NewBlockAlloc(init) == AllocChunk([class |-> "block", chunks |-> None, free |-> Null, link |-> None], init * Sz)

Grown(a) == IF a.free # Null THEN a ELSE AllocChunk(a, FbNext(a.chunks[1].size \div Sz) * Sz)

\* No memory is left: the list stays empty and Alloc returns null.
AllocFails == alloc.class = "block" /\ alloc.free = Null /\ UNCHANGED vars

Alloc ==
  /\ alloc.class = "block"
  /\ LET a == Grown(alloc)
         ret == a.free
     IN  /\ Bytes(a.chunks) <= MaxBytes
         /\ alloc' = [a EXCEPT !.free = a.link[ret], !.link[ret] = Used]
         /\ want' = want \cup {ret}
         /\ right' = (right /\ ret \notin want /\ a.link[ret] # Used
                            /\ (a # alloc => \A c \in Ids(alloc.chunks), o \in 0..MaxBytes :
                                               <<c, o>> \in DOMAIN alloc.link => <<c, o>> \in want))

Dealloc(p) ==
  /\ alloc.class = "block"
  /\ alloc' = [alloc EXCEPT !.free = p, !.link[p] = alloc.free]
  /\ want' = want \ {p} /\ UNCHANGED right

\* Clear of BlockAlloc: one chunk of all the memory there was.
Cleared(a) == AllocChunk([a EXCEPT !.chunks = None, !.free = Null, !.link = None], Bytes(a.chunks))
Clear ==
  /\ alloc.class = "block" /\ alloc' = Cleared(alloc) /\ want' = {}
  /\ right' = (right /\ Cardinality(DOMAIN alloc'.link) = Cardinality(DOMAIN alloc.link))

RECURSIVE Walk(_, _, _)
Walk(a, p, n) == IF p \notin DOMAIN a.link \/ n = 0 THEN <<p>> ELSE <<p>> \o Walk(a, a.link[p], n - 1)
FreeBlocks == Walk(alloc, alloc.free, Cardinality(DOMAIN alloc.link))

\* The free list ends, and holds each block that is not owned once; no block leaves its chunk.
BlocksSound ==
  LET n == Len(FreeBlocks)
      free == {FreeBlocks[i] : i \in 1..n - 1}
  IN  /\ FreeBlocks[n] = Null /\ Cardinality(free) = n - 1
      /\ free = DOMAIN alloc.link \ want /\ want \subseteq DOMAIN alloc.link
      /\ \A b \in DOMAIN alloc.link : \E i \in DOMAIN alloc.chunks :
           alloc.chunks[i].id = b[1] /\ b[2] + Sz <= alloc.chunks[i].size
-----------------------------------------------------------------------------
\* GreedyBlockPolicy: what is handed out is [id, from, to].
GreedyChunk(a, nsize) == [a EXCEPT !.chunks = WithChunk(@, AlignSize(AlignSize(nsize, Sz), Align))]
NewGreedy(init) == GreedyChunk([class |-> "greedy", chunks |-> None, curpos |-> 0], init)

GreedyAllocate(n) ==
  /\ alloc.class = "greedy"
  /\ LET sz == AlignSize(n * Sz, Align)
         over == alloc.curpos + sz > alloc.chunks[1].size
         a == IF over THEN GreedyChunk(alloc, FbNext(alloc.curpos + sz)) ELSE alloc
         r == IF over THEN 0 ELSE alloc.curpos
     IN  /\ Bytes(a.chunks) <= 2 * MaxBytes
         /\ alloc' = [a EXCEPT !.curpos = r + sz]
         /\ want' = want \cup {[id |-> a.chunks[1].id, from |-> r, to |-> r + n * Sz]}
  /\ UNCHANGED right

GreedyClear ==
  /\ alloc.class = "greedy" /\ want' = {}
  /\ alloc' = LET a == [alloc EXCEPT !.curpos = 0]
              IN  IF Len(a.chunks) = 1 THEN a ELSE GreedyChunk([a EXCEPT !.chunks = None], Bytes(a.chunks))
  /\ right' = (right /\ Len(alloc'.chunks) = 1 /\ Bytes(alloc'.chunks) = Bytes(alloc.chunks))

\* What is owned lies in chunks there are, is aligned, and does not overlap.
GreedySound ==
  /\ \A m \in want : /\ m.from % Align = 0
                     /\ \E i \in DOMAIN alloc.chunks : alloc.chunks[i].id = m.id /\ m.to <= alloc.chunks[i].size
  /\ \A m, o \in want : m # o /\ m.id = o.id => m.to <= o.from \/ o.to <= m.from
-----------------------------------------------------------------------------
\* NextPow2 and bun_Log2 are those of Bits.tla.  For fewer than 5 bytes _getindex asks for
\* the logarithm of 0, which the build leaves open: no such size is asked for.
NextPow2(n) == CHOOSE p \in {2^k : k \in 0..16} : p >= n /\ (p = 1 \/ p \div 2 < n)
GetIndex(n) == CHOOSE k \in 0..16 : 2^k = NextPow2(n) \div 8

\* The sizes on both sides of each boundary.
Sizes == {5, 8, 9, 16, 17} \cup {8 * 2^(Count - 1), 8 * 2^(Count - 1) + 1, 8 * 2^Count + 1}
Block(num) == IF GetIndex(num) >= Count THEN [pool |-> Count, bytes |-> num]
              ELSE [pool |-> GetIndex(num), bytes |-> 8 * 2^GetIndex(num)]
NewCollection == [class |-> "collection", block |-> None, lost |-> FALSE]

\* allocate(num, p, old): the same block if it is one of the collection that fits as well.
Collected(c, p, num) ==
  LET from == Block(want[p]).pool
      idx == GetIndex(num)
  IN  [c EXCEPT !.lost = @ \/ (idx >= Count /\ GetIndex(want[p]) # idx), \* realloc of what was just freed
                !.block[p] = IF from = idx /\ idx < Count THEN @ ELSE Block(num)]

CollectionAllocate(num) ==
  /\ alloc.class = "collection" /\ ~alloc.lost /\ Len(want) < 2
  /\ alloc' = [alloc EXCEPT !.block = Append(@, Block(num))]
  /\ want' = Append(want, num) /\ UNCHANGED right
CollectionMove(p, num) ==
  /\ alloc.class = "collection" /\ ~alloc.lost
  /\ alloc' = Collected(alloc, p, num) /\ want' = [want EXCEPT ![p] = num] /\ UNCHANGED right
\* deallocate(p, num) gives the block back to the allocator its size names.
CollectionDeallocate(p) ==
  /\ alloc.class = "collection" /\ ~alloc.lost
  /\ alloc' = [alloc EXCEPT !.block = Seqs!RemoveAt(@, p)] /\ want' = Seqs!RemoveAt(want, p)
  /\ right' = (right /\ alloc.block[p].pool = Block(want[p]).pool)

\* Each block is as large as what was asked for, and comes from the allocator of its size.
CollectionSound ==
  alloc.lost \/ \A p \in DOMAIN want : /\ alloc.block[p].bytes >= want[p]
                                       /\ alloc.block[p].pool = Block(want[p]).pool
-----------------------------------------------------------------------------
\* StandardAllocator: the debug build keeps the size in front of the memory.  What
\* realloc keeps is what aligned_realloc copies.
NewStandard == [class |-> "standard", sz |-> 0, cells |-> None]
Kept(cells, n) == [i \in 1..n |-> IF i \in DOMAIN cells THEN cells[i] ELSE Null]
Reallocated(a, cnt) == [a EXCEPT !.sz = cnt * Sz, !.cells = Kept(@, cnt)]

Reallocate(cnt) ==
  /\ alloc.class = "standard" /\ alloc' = Reallocated(alloc, cnt)
  /\ want' = Kept(want, cnt)
  /\ right' = (right /\ (Len(want) = 0 \/ alloc.sz = Len(want) * Sz)) \* assert(r[-1].sz == oldsize * sizeof(T))
WriteCell(i) == /\ alloc.class = "standard" /\ alloc' = [alloc EXCEPT !.cells[i] = Used]
                /\ want' = [want EXCEPT ![i] = Used] /\ UNCHANGED right
StandardDeallocate ==
  /\ alloc.class = "standard" /\ want # None
  /\ alloc' = NewStandard /\ want' = None /\ right' = (right /\ alloc.sz = Len(want) * Sz)
-----------------------------------------------------------------------------
Init == /\ right = TRUE
        /\ \/ \E init \in 0..2 : (alloc = NewBlockAlloc(init) \/ alloc = NewGreedy(init * Sz)) /\ want = {}
           \/ (alloc = NewCollection \/ alloc = NewStandard) /\ want = None

Next == \/ Alloc \/ AllocFails \/ Clear \/ GreedyClear \/ StandardDeallocate
        \/ alloc.class = "block" /\ \E p \in want : Dealloc(p)
        \/ \E n \in 1..3 : GreedyAllocate(n) \/ Reallocate(n)
        \/ \E num \in Sizes : CollectionAllocate(num)
        \/ /\ alloc.class = "collection"
           /\ \E p \in DOMAIN want : CollectionDeallocate(p) \/ \E num \in Sizes : CollectionMove(p, num)
        \/ alloc.class = "standard" /\ \E i \in DOMAIN want : WriteCell(i)

Spec == Init /\ [][Next]_vars
-----------------------------------------------------------------------------
\* What is owned is memory of the allocator's, and nothing of it is free or owned twice.
Sound == CASE alloc.class = "block" -> BlocksSound
           [] alloc.class = "greedy" -> GreedySound
           [] alloc.class = "collection" -> CollectionSound
           [] alloc.class = "standard" -> alloc.cells = want
=============================================================================
