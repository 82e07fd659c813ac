---------------------------- MODULE LinkedArray -----------------------------
(***************************************************************************)
(* The list kept in an array of include/buntils/LinkedArray.h: slots are   *)
(* chained by indices in both directions, unused ones through `next' in a  *)
(* free list.  Callers keep the indices that insertions return.            *)
(***************************************************************************)
EXTENDS Integers, Sequences, FiniteSets, Functions

CONSTANTS Value, MaxCapacity, Junk  \* Junk: what a new slot holds

VARIABLES ref,       \* _ref: the slots, 0 .. capacity - 1
          start, end, freelist, length,
          want,      \* history: what the list should be, by the calls made
          right      \* history: every result so far was the right one

vars == <<ref, start, end, freelist, length, want, right>>

Assumptions == MaxCapacity \in Nat \ {0}

Seqs == INSTANCE SequencesExt

None == -1  \* (CT_)~0

Capacity == Cardinality(DOMAIN ref)

\* Mutation: the last new slot leads behind the end.
BugGrown(r, free, size) ==
  [i \in 0..size - 1 |->
     IF i \in DOMAIN r THEN r[i]
     ELSE [val |-> Junk, prev |-> None, next |-> IF i = size THEN free ELSE i + 1]]

\* _ref.SetCapacity and _setupChunk: the new slots go to the free list, the
\* lowest in front.
Grown(r, free, size) ==
  [i \in 0..size - 1 |->
     IF i \in DOMAIN r THEN r[i]
     ELSE [val |-> Junk, prev |-> None, next |-> IF i = size - 1 THEN free ELSE i + 1]]

\* T_FBNEXT for small numbers.
fbnext(n) == n + 1 + n \div 2 + n \div 8

\* _insertPrep: the slots and the slot to use, grown if none is free.
InsertPrep ==
  IF freelist # None THEN [ref |-> ref, cur |-> freelist]
  ELSE [ref |-> Grown(ref, None, fbnext(Capacity)), cur |-> Capacity]

SetNext(r, i, x) == IF i = None THEN r ELSE [r EXCEPT ![i].next = x]
SetPrev(r, i, x) == IF i = None THEN r ELSE [r EXCEPT ![i].prev = x]

\* The slot in use between prev and next, either of which may be None.
Link(p, v, prev, next) ==
  LET node == [val |-> v, next |-> next, prev |-> prev]
  IN  /\ freelist' = p.ref[p.cur].next
      /\ ref' = SetPrev(SetNext([p.ref EXCEPT ![p.cur] = node], prev, p.cur), next, p.cur)
      /\ start' = IF prev = None THEN p.cur ELSE start
      /\ end' = IF next = None THEN p.cur ELSE end
      /\ length' = length + 1
-----------------------------------------------------------------------------
Position(i) == CHOOSE k \in DOMAIN want : want[k].at = i
Live == {want[k].at : k \in DOMAIN want}
Room == freelist # None \/ fbnext(Capacity) <= MaxCapacity

\* Default construction: one slot.
Init == /\ ref = Grown(<<>>, None, 1) /\ freelist = 0
        /\ start = None /\ end = None /\ length = 0
        /\ want = <<>> /\ right = TRUE

\* _insertAfter; ~0 stands for the end of the list.
InsertAfter(v, i) ==
  /\ Room /\ i \in Live \cup {None}
  /\ LET p == InsertPrep
         prev == IF i = None THEN end ELSE i
         next == IF prev = None THEN None ELSE p.ref[prev].next
     IN  /\ Link(p, v, prev, next)
         /\ want' = Seqs!InsertAt(want, IF i = None THEN Len(want) + 1 ELSE Position(i) + 1,
                             [at |-> p.cur, val |-> v])
         /\ right' = (right /\ p.cur \notin Live)

\* _insertBefore; ~0 stands for the end of the list here too.
InsertBefore(v, i) ==
  /\ Room /\ i \in Live \cup {None}
  /\ LET p == InsertPrep
         prev == IF i = None THEN end ELSE p.ref[i].prev
     IN  /\ Link(p, v, prev, i)
         /\ want' = Seqs!InsertAt(want, IF i = None THEN Len(want) + 1 ELSE Position(i),
                             [at |-> p.cur, val |-> v])
         /\ right' = (right /\ p.cur \notin Live)

Remove(i) ==
  LET prev == ref[i].prev
      next == ref[i].next
  IN  /\ i \in Live
      /\ end' = IF next = None THEN prev ELSE end
      /\ start' = IF prev = None THEN next ELSE start
      /\ ref' = [SetNext(SetPrev(ref, next, prev), prev, next) EXCEPT ![i].next = freelist]
      /\ freelist' = i
      /\ length' = length - 1
      /\ right' = (right /\ ref[i].val = want[Position(i)].val)
      /\ want' = Seqs!RemoveAt(want, Position(i))

SetCapacity(size) ==
  /\ size > Capacity
  /\ ref' = Grown(ref, freelist, size)
  /\ freelist' = Capacity
  /\ UNCHANGED <<start, end, length, want, right>>

Clear == /\ ref' = [i \in DOMAIN ref |->
                      [ref[i] EXCEPT !.next = IF i + 1 = Capacity THEN None ELSE i + 1]]
         /\ freelist' = 0 /\ start' = None /\ end' = None /\ length' = 0
         /\ want' = <<>> /\ UNCHANGED right

Next == \/ \E v \in Value, i \in None..MaxCapacity - 1 : InsertAfter(v, i) \/ InsertBefore(v, i)
        \/ \E i \in 0..MaxCapacity - 1 : Remove(i)
        \/ \E size \in 1..MaxCapacity : SetCapacity(size)
        \/ Clear

Spec == Init /\ [][Next]_vars
-----------------------------------------------------------------------------
\* The slot so many links from i, None behind the last one.
Follow(i, field) ==
  LET at[n \in 0..Capacity] ==
        IF n = 0 THEN i ELSE IF at[n - 1] = None THEN None ELSE ref[at[n - 1]][field]
  IN  at

\* The slots met from i along a field; more than Capacity of them in a cycle.
Chain(i, field) ==
  LET at == Follow(i, field)
      met == {n \in 0..Capacity : at[n] # None}
  IN  [n \in 1..Cardinality(met) |-> at[n - 1]]

Contents == LET c == Chain(start, "next")
            IN  [k \in DOMAIN c |-> [at |-> c[k], val |-> ref[c[k]].val]]

TypeOK == LET Slot == DOMAIN ref \cup {None} IN
  /\ ref \in [0..Capacity - 1 -> [val : Value \cup {Junk}, next : Slot, prev : Slot]]
  /\ {start, end, freelist} \subseteq Slot
  /\ length \in 0..MaxCapacity

\* Both directions agree, and a slot is either in the list or free.
LinksAgree ==
  LET used == Chain(start, "next")
      free == Chain(freelist, "next")
  IN  /\ Chain(end, "prev") = Seqs!Reverse(used)
      /\ length = Len(used)
      /\ Len(used) + Len(free) = Capacity
      /\ Range(used) \cup Range(free) = DOMAIN ref
=============================================================================
