---------------------------- MODULE DisjointSet -----------------------------
(***************************************************************************)
(* The union-find structure of include/buntils/DisjointSet.h: an array of  *)
(* parents, in which a root holds the negated size of its set.  Its users  *)
(* (MinSpanningTree) never unite a set with itself.                        *)
(***************************************************************************)
EXTENDS Integers, FiniteSets, FiniteSetsExt

CONSTANT MaxElement

VARIABLES array,    \* _array, indices 0 .. size - 1
          numsets,  \* _numsets
          want,     \* history: the partition there should be
          right     \* history: every result so far was the right one

vars == <<array, numsets, want, right>>

Assumptions == MaxElement \in Nat

Element == DOMAIN array
Singletons(S) == {{x} : x \in S}
SetOf(x) == CHOOSE s \in want : x \in s

\* A root is its own parent.
Parent(a, x) == IF a[x] < 0 THEN x ELSE a[x]

\* From x up, each element the parent of the one before.
Climb(a, x) ==
  LET up[n \in 0..Cardinality(DOMAIN a)] == IF n = 0 THEN x ELSE Parent(a, up[n - 1])
  IN  up

\* The elements from x up to its root.
Path(a, x) == Range(Climb(a, x))
RootOf(a, x) == CHOOSE r \in Path(a, x) : a[r] < 0
Roots == {x \in Element : array[x] < 0}

\* Find's path compression.
Compressed(a, x) ==
  [y \in DOMAIN a |-> IF y \in Path(a, x) \ {RootOf(a, x)} THEN RootOf(a, x) ELSE a[y]]

\* Mutation: sizes are compared as if they were not negated.
BugUnited(a, set1, set2) ==
  IF a[set1] < a[set2] THEN [a EXCEPT ![set2] = @ + a[set1], ![set1] = set2]
                       ELSE [a EXCEPT ![set1] = @ + a[set2], ![set2] = set1]

\* The smaller set goes under the root of the other one.
United(a, set1, set2) ==
  IF a[set1] > a[set2] THEN [a EXCEPT ![set2] = @ + a[set1], ![set1] = set2]
                       ELSE [a EXCEPT ![set1] = @ + a[set2], ![set2] = set1]

Merged(x, y) == (want \ {SetOf(x), SetOf(y)}) \cup {SetOf(x) \cup SetOf(y)}

Init == /\ \E n \in 1..MaxElement : array = [i \in 0..n - 1 |-> -1]
        /\ numsets = Cardinality(Element)
        /\ want = Singletons(Element)
        /\ right = TRUE

\* Union of two set names; names that are none are refused without a change.
Union(set1, set2) ==
  /\ {set1, set2} \subseteq Roots /\ set1 # set2
  /\ array' = United(array, set1, set2)
  /\ numsets' = numsets - 1
  /\ want' = Merged(set1, set2)
  /\ right' = (right /\ SetOf(set1) # SetOf(set2))

\* Find, and NumElements, which negates what it finds there.
Find(x) ==
  /\ x \in Element
  /\ array' = Compressed(array, x)
  /\ right' = (right /\ RootOf(array, x) \in SetOf(x)
                     /\ -array[RootOf(array, x)] = Cardinality(SetOf(x)))
  /\ UNCHANGED <<numsets, want>>

\* One edge of MinSpanningTree: it is in the tree if it joins two sets.
Edge(x, y) ==
  LET a == Compressed(array, x)
      b == Compressed(a, y)
      r == RootOf(b, x)
      s == RootOf(b, y)
  IN  /\ {x, y} \subseteq Element
      /\ array' = IF r = s THEN b ELSE United(b, r, s)
      /\ numsets' = IF r = s THEN numsets ELSE numsets - 1
      /\ want' = Merged(x, y)
      /\ right' = (right /\ (r = s <=> SetOf(x) = SetOf(y)))

\* GetElements with room for the whole set, as NumElements tells: it looks up
\* the elements until it has seen the last one of the set.
GetElements(set) ==
  LET members == {y \in Element : RootOf(array, y) = RootOf(array, set)}
      seen == UNION {Path(array, y) : y \in {set} \cup 0..Max(members)}
  IN  /\ set \in Element
      /\ array' = [y \in Element |-> IF y \in seen /\ array[y] >= 0 THEN RootOf(array, y)
                                     ELSE array[y]]
      /\ right' = (right /\ members = SetOf(set))
      /\ UNCHANGED <<numsets, want>>

AddSets(n) ==
  LET size == Cardinality(Element)
  IN  /\ size + n <= MaxElement
      /\ array' = [i \in 0..size + n - 1 |-> IF i < size THEN array[i] ELSE -1]
      /\ numsets' = numsets + n
      /\ want' = want \cup Singletons(size..size + n - 1)
      /\ UNCHANGED right

Reset == /\ array' = [x \in Element |-> -1]
         /\ numsets' = Cardinality(Element)
         /\ want' = Singletons(Element)
         /\ UNCHANGED right

Index == 0..MaxElement - 1
Next == \/ \E x, y \in Index : Union(x, y) \/ Edge(x, y)
        \/ \E x \in Index : Find(x) \/ GetElements(x)
        \/ \E n \in 1..MaxElement : AddSets(n)
        \/ Reset

Spec == Init /\ [][Next]_vars
-----------------------------------------------------------------------------
TypeOK == array \in [Element -> -MaxElement..MaxElement] /\ numsets \in 0..MaxElement

\* The sets that the array stands for.
Contents == {{x \in Element : r \in Path(array, x)} : r \in Roots}

Power(k) == LET twice[n \in 0..MaxElement] == IF n = 0 THEN 1 ELSE 2 * twice[n - 1]
            IN  twice[k]

\* Roots know their sizes, their number is right, and trees are as low as
\* union by size keeps them.
Weighted ==
  /\ numsets = Cardinality(Roots)
  /\ \A x \in Element : LET r == RootOf(array, x)
                            size == Cardinality({y \in Element : r \in Path(array, y)})
                        IN  /\ array[r] = -size
                            /\ Power(Cardinality(Path(array, x)) - 1) <= size
=============================================================================
