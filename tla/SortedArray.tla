---------------------------- MODULE SortedArray ----------------------------
(***************************************************************************)
(* ArraySort, and the Map over it: an array of pairs kept sorted by key,   *)
(* in which Insert adds a pair even when the key is there.                 *)
(***************************************************************************)
EXTENDS Integers, Sequences, Bags, FiniteSets

CONSTANTS Key, Data, MaxSize

Seqs == INSTANCE SequencesExt

Find == INSTANCE Numbers

VARIABLES array,
          want,    \* history: the bag of pairs there should be
          right    \* history: every result so far was the right one

vars == <<array, want, right>>

Keys(a) == [i \in 1..Len(a) |-> a[i].key]
Pair(k, d) == [key |-> k, val |-> d]
Item == [key : Key, val : Data]
NotNpos(a, i) == IF i \in 0..Len(a) - 1 THEN i ELSE Find!None

\* _insert: where an item goes.
Loc(a, k) == CASE Len(a) = 0 -> 0
               [] Len(a) > 0 /\ k < a[1].key -> 0
               [] Len(a) > 0 /\ k >= a[Len(a)].key -> Len(a)
               [] OTHER -> Find!SearchAfter(Keys(a), k)

\* The two loops of ReplaceData swap the item at i down, then up, while the next one is
\* strictly on the wrong side: the array after that, and where the item is.
Settle(a, i) ==
  LET RECURSIVE Sink(_, _)
      Sink(b, j) == IF j > 0 /\ b[j].key > b[j + 1].key
                    THEN Sink([b EXCEPT ![j] = b[j + 1], ![j + 1] = b[j]], j - 1) ELSE <<b, j>>
      RECURSIVE Rise(_, _)
      Rise(b, j) == IF j < Len(b) - 1 /\ b[j + 2].key < b[j + 1].key
                    THEN Rise([b EXCEPT ![j + 2] = b[j + 1], ![j + 1] = b[j + 2]], j + 1) ELSE <<b, j>>
      low == Sink(a, i)
  IN  Rise(low[1], low[2])

\* Map: GetNear and Get.
GetNear(k, before) ==
  NotNpos(array, IF before THEN Find!SearchBefore(Keys(array), k) ELSE Find!SearchAfter(Keys(array), k))
Get(k) == LET i == GetNear(k, TRUE) IN IF i # Find!None /\ array[i + 1].key = k THEN i ELSE Find!None
-----------------------------------------------------------------------------
Init == array = <<>> /\ want = EmptyBag /\ right = TRUE

Insert(p) ==
  LET loc == Loc(array, p.key)
  IN  /\ Len(array) < MaxSize
      /\ array' = Seqs!InsertAt(array, loc + 1, p)
      /\ want' = want (+) SetToBag({p})
      /\ right' = (right /\ array'[loc + 1] = p)

Replace(i, p) ==
  LET new == Settle([array EXCEPT ![i + 1] = p], i)
  IN  /\ i < Len(array)
      /\ array' = new[1]
      /\ want' = (want (-) SetToBag({array[i + 1]})) (+) SetToBag({p})
      /\ right' = (right /\ array'[new[2] + 1] = p)

ReplaceKey(i, k) == i < Len(array) /\ Replace(i, Pair(k, array[i + 1].val))

RemoveIndex(i) ==
  /\ array' = IF i >= Len(array) THEN array ELSE Seqs!RemoveAt(array, i + 1)
  /\ want' = IF i >= Len(array) THEN want ELSE want (-) SetToBag({array[i + 1]})
  /\ UNCHANGED right

\* Remove of a key that is not there removes the index (CT)-1, that is nothing.
Remove(k) ==
  LET i == Get(k)
  IN  /\ RemoveIndex(IF i = Find!None THEN MaxSize ELSE i)

\* Set changes the data of one pair that has the key.
Set(k, d) ==
  LET i == GetNear(k, TRUE)
      there == i # Find!None /\ array[i + 1].key = k
  IN  /\ array' = IF there THEN [array EXCEPT ![i + 1].val = d] ELSE array
      /\ want' = IF there THEN (want (-) SetToBag({array[i + 1]})) (+) SetToBag({Pair(k, d)}) ELSE want
      /\ right' = (right /\ (there <=> \E p \in BagToSet(want) : p.key = k))

Discard(num) ==
  LET left == IF num > Len(array) THEN 0 ELSE Len(array) - num
  IN  /\ array' = SubSeq(array, 1, left)
      /\ want' = Seqs!FoldLeft(LAMBDA b, p : b (-) SetToBag({p}), want, SubSeq(array, left + 1, Len(array)))
      /\ UNCHANGED right

Clear == array' = <<>> /\ want' = EmptyBag /\ UNCHANGED right

Next == \/ \E p \in Item : Insert(p) \/ \E i \in 0..MaxSize - 1 : Replace(i, p)
        \/ \E i \in 0..MaxSize : RemoveIndex(i) \/ \E k \in Key : ReplaceKey(i, k)
        \/ \E k \in Key : Remove(k) \/ \E d \in Data : Set(k, d)
        \/ \E num \in 1..MaxSize : Discard(num)
        \/ Clear

Spec == Init /\ [][Next]_vars
-----------------------------------------------------------------------------
Contents == Seqs!FoldLeft(LAMBDA b, p : b (+) SetToBag({p}), EmptyBag, array)

\* The keys are in order, and each search finds what its name says.
Sorted ==
  /\ \A i \in 1..Len(array) - 1 : array[i].key <= array[i + 1].key
  /\ \A k \in Key :
       /\ Get(k) # Find!None <=> \E i \in DOMAIN array : array[i].key = k
       /\ LET i == Find!SearchExact(Keys(array), k)
          IN  IF Get(k) = Find!None THEN i = Find!None ELSE array[i + 1].key = k
       /\ GetNear(k, TRUE) = Cardinality({i \in DOMAIN array : array[i].key <= k}) - 1
       /\ GetNear(k, FALSE) = LET n == Cardinality({i \in DOMAIN array : array[i].key < k})
                              IN  IF n = Len(array) THEN Find!None ELSE n
=============================================================================
