------------------------------ MODULE DynArray ------------------------------
(***************************************************************************)
(* The arrays over ArrayBase: Array (its length is its capacity), DynArray *)
(* with Stack over it, CompactArray (the first I elements are in the       *)
(* object) and RandomQueue, whose elements are trivial: its Remove leaves  *)
(* the last object as it is.  Data are added from outside the array.       *)
(* DynArray<bool> packs its bits into words of W bits and shifts them      *)
(* across words; a word is a number, and bits beyond the length keep what  *)
(* they held, so a fresh word may hold anything (BitJunk).                 *)
(***************************************************************************)
EXTENDS Integers, Sequences, FiniteSets

CONSTANTS Item, MaxSize, I, Junk, Default,
          Raw,  \* memory without an object
          W, MaxBits, BitJunk

Seqs == INSTANCE SequencesExt
Sets == INSTANCE FiniteSetsExt

VARIABLES array,
          want,   \* history: the elements in order
          right   \* history: every result so far was the right one

vars == <<array, want, right>>

(***************************************************************************)
(* ArrayBase of Array.h: memory in which objects begin and end.  A cell is *)
(* Raw or holds a value; ok turns false when an object is made over one    *)
(* that lives, ended twice, read from raw memory, or freed while it lives. *)
(* Elements may have constructors; for trivial ones the same cells are     *)
(* copied as bytes, and what a Raw cell holds is not specified.            *)
(***************************************************************************)
Alloc(n) == [cells |-> [i \in 1..n |-> Raw], ok |-> TRUE]
LiveCells(m) == {i \in DOMAIN m.cells : m.cells[i] # Raw}
Least(a, b) == IF a < b THEN a ELSE b

\* T_FBNEXT: how an array grows.
FbNext(x) == x + 1 + x \div 2 + x \div 8 - x \div 128

\* _setLength ends the objects above n, or makes new ones.
SetLength(m, old, n, fresh) ==
  [cells |-> [i \in DOMAIN m.cells |-> IF i > n /\ i <= old THEN Raw
                                       ELSE IF i > old /\ i <= n THEN fresh ELSE m.cells[i]],
   ok |-> /\ m.ok /\ n + 1..old \subseteq LiveCells(m)
          /\ old + 1..n \subseteq DOMAIN m.cells \ LiveCells(m)]

\* _setCapacity moves length objects, as far as they fit, and frees the old memory.
SetCapacity(m, capacity, length) ==
  LET n == Least(length, capacity)
  IN  [cells |-> [i \in 1..capacity |-> IF i <= n THEN m.cells[i] ELSE Raw],
       ok |-> m.ok /\ LiveCells(m) = 1..n]
SetCapacityDiscard(m, capacity) == [Alloc(capacity) EXCEPT !.ok = m.ok /\ LiveCells(m) = {}]

\* _copy makes objects from those of a list, from cell at + 1 on.
Copy(m, at, items) ==
  LET to == at + 1..at + Len(items)
  IN  [cells |-> [i \in DOMAIN m.cells |-> IF i \in to THEN items[i - at] ELSE m.cells[i]],
       ok |-> m.ok /\ to \subseteq DOMAIN m.cells \ LiveCells(m)]

\* _insert and _remove move the objects behind index.
InsertAt(m, length, index, x) ==
  [cells |-> [i \in DOMAIN m.cells |-> CASE i = index + 1 -> x
                                         [] i > index + 1 /\ i <= length + 1 -> m.cells[i - 1]
                                         [] OTHER -> m.cells[i]],
   ok |-> m.ok /\ length + 1 \in DOMAIN m.cells \ LiveCells(m) /\ 1..length \subseteq LiveCells(m)]
RemoveAt(m, length, index) ==
  [cells |-> [i \in DOMAIN m.cells |-> CASE i > index /\ i < length -> m.cells[i + 1]
                                         [] i = length -> Raw
                                         [] OTHER -> m.cells[i]],
   ok |-> m.ok /\ 1..length \subseteq LiveCells(m)]

Fixed == array.form = "Array"
Dynamic == array.form \in {"DynArray", "RandomQueue"}
Compact == array.form = "CompactArray"
Packed == array.form = "bool"
\* What a new element of its type holds.
Fresh == IF Compact \/ array.form = "RandomQueue" THEN Junk ELSE Default
Lists == UNION {[1..n -> Item] : n \in 0..2}
Cut(s, n) == [i \in 1..n |-> IF i <= Len(s) THEN s[i] ELSE Fresh]
Becomes(m, len) == array' = [array EXCEPT !.m = m, !.len = len]
Room == array.len < MaxSize
\* CheckSize: one more element has room.
CheckSize == IF array.len < Len(array.m.cells) THEN array.m
             ELSE SetCapacity(array.m, FbNext(Len(array.m.cells)), array.len)

\* CompactArray::SetCapacity allocates anew whenever the object itself is too small.
CompactCapacity(m, capacity, length) ==
  IF capacity > I THEN SetCapacity(m, FbNext(capacity), length) ELSE m
CompactLength(n) ==
  LET m == CompactCapacity(IF n < array.len THEN SetLength(array.m, array.len, n, Fresh) ELSE array.m,
                           n, Least(n, array.len))
  IN  IF n > array.len THEN SetLength(m, array.len, n, Fresh) ELSE m
-----------------------------------------------------------------------------
(* The words of a DynArray<bool>.                                          *)

Chunks(n) == (n + W - 1) \div W
BitCount(x) == Cardinality({b \in 0..W - 1 : (x \div 2^b) % 2 = 1})
Low(x, n) == x % 2^n
High(x, n) == x - Low(x, n)
Shl(x) == (2 * x) % 2^W
Top(x) == x \div 2^(W - 1)

GetBit(words, i) == (words[i \div W + 1] \div 2^(i % W)) % 2
\* _BIT_REF = v.
PutBit(words, i, v) ==
  [words EXCEPT ![i \div W + 1] = @ + (v - GetBit(words, i)) * 2^(i % W)]

\* _setCapacity keeps the words there are.
BitsCapacity(words, n) == [i \in 1..n |-> IF i <= Len(words) THEN words[i] ELSE BitJunk]
BitsCheckSize ==
  IF array.len < Len(array.words) * W THEN array.words ELSE BitsCapacity(array.words, FbNext(Len(array.words)))

\* _shiftDelete: each word gets the lowest bit of the next one as its top bit.
ShiftDelete(words, len, index) ==
  LET ind == index \div W + 1
      off == index % W
      last == Chunks(len)
      Own(i) == IF i = ind THEN High(words[i] \div 2, off) + Low(words[i], off) ELSE words[i] \div 2
  IN  [i \in DOMAIN words |->
         CASE i >= ind /\ i < last -> Low(Own(i), W - 1) + (words[i + 1] % 2) * 2^(W - 1)
           [] i >= ind /\ i = last -> Own(i)
           [] OTHER -> words[i]]

\* _shiftInsert: the bit carried on from the second word moved is one that has been
\* moved already.
ShiftInsert(words, len, index) ==
  LET ind == index \div W + 1
      off == index % W
      last == Chunks(len + 1)
      first == [words EXCEPT ![ind] = (Shl(High(@, off)) + Low(@, off)) % 2^W]
      Step(s, i) == LET w == Top(s.store) + Shl(s.words[i])
                    IN  [words |-> [s.words EXCEPT ![i] = w], store |-> w]
  IN  Seqs!FoldLeft(Step, [words |-> first, store |-> words[ind]], [k \in 1..last - ind |-> ind + k]).words

\* CountBits of length bits from index on, word by word.
CountBits(index, length) ==
  LET to == index + length
      start == index \div W + 1
      end == Chunks(to)
      emask == to - (end - 1) * W
      From(x) == High(x, index % W)
  IN  IF length = 0 THEN 0
      ELSE IF start = end THEN BitCount(Low(From(array.words[start]), emask))
      ELSE BitCount(From(array.words[start])) + BitCount(Low(array.words[end], emask))
           + Seqs!FoldLeft(LAMBDA c, i : c + BitCount(array.words[i]), 0,
                                              [k \in 1..end - start - 1 |-> start + k])
BitsBecome(words, len) == array' = [array EXCEPT !.words = words, !.len = len]
-----------------------------------------------------------------------------
Init == /\ \/ \E form \in {"Array", "DynArray", "CompactArray", "RandomQueue"} :
                array = [form |-> form, m |-> Alloc(IF form = "CompactArray" THEN I ELSE 0), len |-> 0]
           \/ array = [form |-> "bool", words |-> <<>>, len |-> 0]
        /\ want = <<>> /\ right = TRUE

\* Insert; Add and Push insert at the end.
ArrayInsert(x, i) ==
  /\ Fixed /\ Room
  /\ Becomes(InsertAt(SetCapacity(array.m, array.len + 1, array.len), array.len, i, x), array.len + 1)
  /\ want' = Seqs!InsertAt(want, i + 1, x) /\ UNCHANGED right
DynInsert(x, i) ==
  /\ Dynamic /\ Room /\ (array.form = "DynArray" \/ i = array.len)
  /\ Becomes(InsertAt(CheckSize, array.len, i, x), array.len + 1)
  /\ want' = Seqs!InsertAt(want, i + 1, x) /\ UNCHANGED right
CompactInsert(x, i) ==
  /\ Compact /\ Room
  /\ Becomes(InsertAt(CompactCapacity(array.m, array.len + 1, array.len), array.len, i, x), array.len + 1)
  /\ want' = Seqs!InsertAt(want, i + 1, x) /\ UNCHANGED right

ArrayRemove(i) ==
  /\ Fixed
  /\ Becomes(SetCapacity(RemoveAt(array.m, array.len, i), array.len - 1, array.len), array.len - 1)
  /\ want' = Seqs!RemoveAt(want, i + 1) /\ UNCHANGED right
DynRemove(i) ==
  /\ Compact \/ array.form = "DynArray"
  /\ Becomes(RemoveAt(array.m, array.len, i), array.len - 1)
  /\ want' = Seqs!RemoveAt(want, i + 1) /\ UNCHANGED right
\* Pop of a Stack hands out the last element.
StackPop ==
  /\ array.form = "DynArray" /\ array.len > 0
  /\ Becomes(RemoveAt(array.m, array.len, array.len - 1), array.len - 1)
  /\ want' = Seqs!Front(want)
  /\ right' = (right /\ array.m.cells[array.len] = Seqs!Last(want))

\* RandomQueue::Pop and Remove: the last element takes the place of the one drawn.
QueueRemove(i) ==
  /\ array.form = "RandomQueue"
  /\ Becomes([array.m EXCEPT !.cells[i + 1] = array.m.cells[array.len], !.cells[array.len] = Raw], array.len - 1)
  /\ want' = [j \in 1..Len(want) - 1 |-> IF j = i + 1 THEN Seqs!Last(want) ELSE want[j]]
  /\ UNCHANGED right

ArraySetCapacity(n) ==
  /\ Fixed /\ n # array.len
  /\ LET m == IF n < array.len THEN SetLength(array.m, array.len, n, Fresh) ELSE array.m
         c == SetCapacity(m, n, array.len)
     IN  Becomes(IF n > array.len THEN SetLength(c, array.len, n, Fresh) ELSE c, n)
  /\ want' = Cut(want, n) /\ UNCHANGED right
ArrayDiscard(n) ==
  /\ Fixed /\ n # array.len
  /\ Becomes(SetLength(SetCapacityDiscard(SetLength(array.m, array.len, 0, Fresh), n), 0, n, Fresh), n)
  /\ want' = Cut(<<>>, n) /\ UNCHANGED right

\* SetLength; Clear is SetLength of 0.
DynSetLength(n) ==
  /\ Dynamic
  /\ LET less == IF n < array.len THEN SetLength(array.m, array.len, n, Fresh) ELSE array.m
         more == IF n > Len(less.cells) THEN SetCapacity(less, n, array.len) ELSE less
     IN  Becomes(IF n > array.len THEN SetLength(more, array.len, n, Fresh) ELSE more, n)
  /\ want' = Cut(want, n) /\ UNCHANGED right
CompactSetLength(n) ==
  Compact /\ Becomes(CompactLength(n), n) /\ want' = Cut(want, n) /\ UNCHANGED right
CompactClear ==
  Compact /\ Becomes(SetLength(array.m, array.len, 0, Fresh), 0) /\ want' = <<>> /\ UNCHANGED right

\* SetCapacity; that of a CompactArray must not be less than its length.
DynSetCapacity(n) ==
  /\ array.form = "DynArray"
  /\ Becomes(IF n > Len(array.m.cells) THEN SetCapacity(array.m, n, array.len) ELSE array.m, array.len)
  /\ UNCHANGED <<want, right>>
CompactSetCapacity(n) ==
  /\ Compact /\ n >= array.len /\ Becomes(CompactCapacity(array.m, n, array.len), array.len)
  /\ UNCHANGED <<want, right>>

\* Set and the assignments: another array, or a list, that holds these items.
ArraySet(items) ==
  /\ Fixed
  /\ Becomes(Copy(SetCapacityDiscard(SetLength(array.m, array.len, 0, Fresh), Len(items)), 0, items), Len(items))
  /\ want' = items /\ UNCHANGED right
DynSet(items, spare) ==
  /\ Dynamic
  /\ LET m == SetLength(array.m, array.len, 0, Fresh)
     IN  Becomes(Copy(IF Len(items) > Len(m.cells) THEN SetCapacityDiscard(m, Len(items) + spare) ELSE m, 0, items),
                 Len(items))
  /\ want' = items /\ UNCHANGED right
CompactSet(items) ==
  /\ Compact
  /\ Becomes([CompactLength(Len(items)) EXCEPT !.cells = [i \in DOMAIN @ |-> IF i <= Len(items) THEN items[i] ELSE @[i]]],
             Len(items))
  /\ want' = items /\ UNCHANGED right

\* operator+=, and operator+ into a new array.
ArrayPlus(items) ==
  /\ Fixed /\ array.len + Len(items) <= MaxSize
  /\ Becomes(Copy(SetCapacity(array.m, array.len + Len(items), array.len), array.len, items), array.len + Len(items))
  /\ want' = want \o items /\ UNCHANGED right
DynPlus(items) ==
  /\ Dynamic /\ array.len + Len(items) <= MaxSize
  /\ \/ Becomes(Copy(SetCapacity(array.m, array.len + Len(items), array.len), array.len, items), array.len + Len(items))
     \/ Becomes(Copy(Copy(Alloc(array.len + Len(items)), 0, SubSeq(array.m.cells, 1, array.len)), array.len, items),
                array.len + Len(items))
  /\ want' = want \o items /\ UNCHANGED right

BitsAdd(v) ==
  /\ Packed /\ array.len < MaxBits
  /\ BitsBecome(PutBit(BitsCheckSize, array.len, v), array.len + 1)
  /\ want' = Append(want, v) /\ UNCHANGED right

\* An insertion that moves no more than two words.
BitsInsert(v, i) ==
  /\ Packed /\ array.len < MaxBits /\ Chunks(array.len + 1) - i \div W <= 2
  /\ BitsBecome(PutBit(ShiftInsert(BitsCheckSize, array.len, i), i, v), array.len + 1)
  /\ want' = Seqs!InsertAt(want, i + 1, v) /\ UNCHANGED right

BitsRemove(i) ==
  /\ Packed
  /\ BitsBecome(ShiftDelete(array.words, array.len, i), array.len - 1)
  /\ want' = Seqs!RemoveAt(want, i + 1) /\ UNCHANGED right

BitsRemoveLast == /\ Packed /\ array.len > 0 /\ BitsBecome(array.words, array.len - 1)
                  /\ want' = Seqs!Front(want) /\ UNCHANGED right

\* SetLength; Clear is SetLength of 0.
BitsSetLength(n) ==
  /\ Packed
  /\ LET words == IF n > Len(array.words) * W THEN BitsCapacity(array.words, Chunks(n)) ELSE array.words
     IN  BitsBecome(Seqs!FoldLeft(LAMBDA w, i : PutBit(w, i, 0), words,
                                  [k \in 1..n - array.len |-> array.len + k - 1]), n)
  /\ want' = [i \in 1..n |-> IF i <= Len(want) THEN want[i] ELSE 0] /\ UNCHANGED right

BitsCount(i, n) ==
  /\ Packed /\ i + n <= array.len
  /\ right' = (right /\ CountBits(i, n) = Cardinality({j \in i + 1..i + n : want[j] = 1}))
  /\ UNCHANGED <<array, want>>

Next == \/ \E x \in Item, i \in 0..array.len : ArrayInsert(x, i) \/ DynInsert(x, i) \/ CompactInsert(x, i)
        \/ \E i \in 0..array.len - 1 : ArrayRemove(i) \/ DynRemove(i) \/ QueueRemove(i)
        \/ StackPop \/ CompactClear
        \/ \E n \in 0..MaxSize : \/ ArraySetCapacity(n) \/ ArrayDiscard(n) \/ DynSetLength(n) \/ CompactSetLength(n)
                                 \/ DynSetCapacity(n) \/ CompactSetCapacity(n)
        \/ \E items \in Lists : \/ ArraySet(items) \/ CompactSet(items) \/ ArrayPlus(items) \/ DynPlus(items)
                                \/ \E spare \in 0..1 : DynSet(items, spare)
        \/ \E v \in 0..1 : BitsAdd(v) \/ \E i \in 0..array.len : BitsInsert(v, i)
        \/ \E i \in 0..array.len - 1 : BitsRemove(i) \/ \E n \in 1..array.len : BitsCount(i, n)
        \/ BitsRemoveLast
        \/ \E n \in 0..MaxBits : BitsSetLength(n)

Spec == Init /\ [][Next]_vars
-----------------------------------------------------------------------------
Contents == IF Packed THEN [i \in 1..array.len |-> GetBit(array.words, i - 1)]
            ELSE SubSeq(array.m.cells, 1, array.len)

\* The objects that live are the elements, and no object was lost, ended twice or made
\* over another one.
WellFormed == \/ Packed
              \/ /\ array.m.ok /\ LiveCells(array.m) = 1..array.len
                 /\ Fixed => array.len = Len(array.m.cells)
=============================================================================
