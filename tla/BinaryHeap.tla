----------------------------- MODULE BinaryHeap -----------------------------
(***************************************************************************)
(* The array algorithms of include/buntils/BinaryHeap.h, the heap as its   *)
(* users see it, and the PriorityQueue that forwards to it.  An item is    *)
(* compared by its field prio, the greatest first, as first_three_way      *)
(* compares pairs; indices are those of the code, from 0.                  *)
(***************************************************************************)
EXTENDS Integers, Sequences, FiniteSets, FiniteSetsExt, Functions, Bags, BagsExt

CONSTANTS Prio, MaxItem, MaxSort

VARIABLES heap,
          misplaced,  \* history: Remove put an item below a smaller one
          want,       \* history: the bag of items there should be
          right       \* history: every result so far was the right one

vars == <<heap, misplaced, want, right>>

Parent(k) == (k - 1) \div 2
Get(a, k) == a[k + 1]
Set(a, k, v) == [a EXCEPT ![k + 1] = v]

RECURSIVE PercolateUp(_, _, _)
PercolateUp(a, k, v) ==
  IF k > 0 /\ v.prio >= Get(a, Parent(k)).prio
  THEN PercolateUp(Set(a, k, Get(a, Parent(k))), Parent(k), v)
  ELSE Set(a, k, v)

RECURSIVE PercolateDown(_, _, _, _)
\* Only the first n items of a belong to the heap.
PercolateDown(a, n, k, v) ==
  LET second == 2 * k + 2
      first == second - 1
      child == IF second < n /\ Get(a, first).prio <= Get(a, second).prio THEN second ELSE first
  IN  IF child < n /\ v.prio <= Get(a, child).prio
      THEN PercolateDown(Set(a, k, Get(a, child)), n, child, v)
      ELSE Set(a, k, v)

\* _insert
HeapInsert(a, v) == PercolateUp(Append(a, v), Len(a), v)

\* _set
HeapSet(a, k, v) == IF Get(a, k).prio <= v.prio THEN PercolateUp(a, k, v)
                                                ELSE PercolateDown(a, Len(a), k, v)

\* Remove: the last item goes down from the gap.
HeapRemove(a, k) ==
  LET n == Len(a) - 1
  IN  IF n = 0 THEN <<>> ELSE SubSeq(PercolateDown(a, n, k, Get(a, n)), 1, n)

RECURSIVE HeapifyFrom(_, _), SortFrom(_, _)
\* Heapify: from the last parent, i - 1, down to the root.
HeapifyFrom(a, i) ==
  IF i = 0 THEN a
  ELSE HeapifyFrom(PercolateDown(a, Len(a), i - 1, Get(a, i - 1)), i - 1)
Heapify(a) == HeapifyFrom(a, Len(a) \div 2)

\* HeapSort's loop with n items left in the heap.
SortFrom(a, n) ==
  IF n <= 1 THEN a
  ELSE LET last == Get(a, n - 1)
       IN  SortFrom(PercolateDown(Set(a, n - 1, Get(a, 0)), n - 1, 0, last), n - 1)
HeapSort(a) == SortFrom(Heapify(a), Len(a))

HeapOrdered(a) == \A k \in 1..Len(a) - 1 : Get(a, k).prio <= Get(a, Parent(k)).prio
-----------------------------------------------------------------------------

Item == [prio : Prio]
Contents(a) == [x \in Range(a) |-> Cardinality({i \in DOMAIN a : a[i] = x})]

Init == heap = <<>> /\ misplaced = FALSE /\ want = EmptyBag /\ right = TRUE

Insert(v) == /\ Len(heap) < MaxItem
             /\ heap' = HeapInsert(heap, v)
             /\ want' = BagAdd(want, v)
             /\ UNCHANGED <<misplaced, right>>

\* Pop and Discard return and remove the first item: a greatest one.
Pop == /\ heap # <<>>
       /\ heap' = HeapRemove(heap, 0)
       /\ want' = BagRemove(want, Get(heap, 0))
       /\ right' = (right /\ (misplaced \/ \A x \in DOMAIN want : x.prio <= Get(heap, 0).prio))
       /\ UNCHANGED misplaced

\* Set of an index with another value.
SetItem(k, v) == /\ k < Len(heap)
                 /\ heap' = HeapSet(heap, k, v)
                 /\ want' = BagAdd(BagRemove(want, Get(heap, k)), v)
                 /\ UNCHANGED <<misplaced, right>>

\* Remove of any index: from another branch the last item may belong above it.
RemoveItem(k) ==
  /\ k < Len(heap)
  /\ heap' = HeapRemove(heap, k)
  /\ want' = BagRemove(want, Get(heap, k))
  /\ misplaced' = (misplaced \/ (/\ k \in 1..Len(heap) - 2
                                 /\ Get(heap, Len(heap) - 1).prio > Get(heap, Parent(k)).prio))
  /\ UNCHANGED right

Clear == heap' = <<>> /\ want' = EmptyBag /\ misplaced' = FALSE /\ UNCHANGED right

\* The static HeapSort works on an array of the caller's.
Sort(a) ==
  /\ heap = <<>>
  /\ LET s == HeapSort(a)
     IN  right' = (right /\ Contents(s) = Contents(a)
                         /\ \A i, j \in DOMAIN s : i <= j => s[i].prio <= s[j].prio)
  /\ UNCHANGED <<heap, misplaced, want>>

Next == \/ \E v \in Item : Insert(v) \/ (\E k \in 0..MaxItem - 1 : SetItem(k, v))
        \/ Pop \/ Clear
        \/ \E k \in 0..MaxItem - 1 : RemoveItem(k)
        \/ \E a \in UNION {[1..n -> Item] : n \in 0..MaxSort} : Sort(a)

Spec == Init /\ [][Next]_vars
-----------------------------------------------------------------------------
TypeOK == heap \in Seq(Item) /\ Len(heap) <= MaxItem

\* No item is above a greater one, unless Remove was used where it cannot keep that.
Ordered == misplaced \/ HeapOrdered(heap)
=============================================================================
