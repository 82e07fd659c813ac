--------------------------- MODULE ArrayCircular ----------------------------
(***************************************************************************)
(* The ring buffer of include/buntils/ArrayCircular.h.  A cell holds an    *)
(* item while an object is constructed in it, and is Dead otherwise: the   *)
(* container must destroy exactly what it constructed.                     *)
(***************************************************************************)
EXTENDS Integers, Sequences, FiniteSets, SequencesExt

CONSTANTS Value, MaxCapacity, Dead

VARIABLES array,    \* _array, cells 0 .. capacity - 1
          cur,      \* _cur: the item pushed last
          length,   \* _length
          want,     \* history: the items there should be, newest first
          right     \* history: results, constructions and destructions were right

vars == <<array, cur, length, want, right>>

Assumptions == MaxCapacity \in Nat /\ Dead \notin Value

Raw(size) == [i \in 0..size - 1 |-> Dead]
Capacity == Cardinality(DOMAIN array)

\* _modIndex; bun_Mod is never negative.
ModIndex(i) == (cur - i) % Capacity

\* Is the used part one piece?  (Also true of an empty ring.)
Contiguous == cur - length >= -1

\* Mutation: the upper part stays where it was in the smaller array.
BugPieces(size) ==
  IF Contiguous THEN {<<i, i>> : i \in cur - length + 1 .. cur}
  ELSE {<<i, i>> : i \in ModIndex(length - 1) .. Capacity - 1} \cup {<<i, i>> : i \in 0..cur}

\* The cells that the two branches of Clear and SetCapacity work on: pairs of
\* the cell and where it goes in an array of `size' cells.
Pieces(size) ==
  IF Contiguous THEN {<<i, i>> : i \in cur - length + 1 .. cur}
  ELSE LET first == ModIndex(length - 1)
           shift == ((cur - length + 1) % size) - first
       IN  {<<i, i + shift>> : i \in first .. Capacity - 1} \cup {<<i, i>> : i \in 0..cur}

Init == array = Raw(0) /\ cur = -1 /\ length = 0 /\ want = <<>> /\ right = TRUE

\* _push: a full ring assigns over its oldest item.
Push(v) ==
  /\ Capacity > 0
  /\ LET at == (cur + 1) % Capacity
         full == length >= Capacity
     IN  /\ cur' = at
         /\ array' = [array EXCEPT ![at] = v]
         /\ length' = IF full THEN length ELSE length + 1
         /\ right' = (right /\ (full <=> array[at] # Dead))
         /\ want' = <<v>> \o (IF Len(want) = Capacity THEN Front(want) ELSE want)

Pop == /\ length > 0
       /\ length' = length - 1
       /\ array' = [array EXCEPT ![cur] = Dead]
       /\ cur' = (cur - 1) % Capacity
       /\ right' = (right /\ array[cur] = Head(want))
       /\ want' = Tail(want)

PopBack == /\ length > 0
           /\ length' = length - 1
           /\ LET l == ModIndex(length - 1)
              IN  /\ array' = [array EXCEPT ![l] = Dead]
                  /\ right' = (right /\ array[l] = Last(want))
           /\ want' = Front(want)
           /\ UNCHANGED cur

\* What Clear destroys.
Cleared == IF length = Capacity THEN 0..length - 1
           ELSE {p[1] : p \in Pieces(Capacity)}

Clear == /\ array' = [i \in DOMAIN array |-> IF i \in Cleared THEN Dead ELSE array[i]]
         /\ length' = 0 /\ cur' = -1 /\ want' = <<>>
         /\ right' = (right /\ \A i \in Cleared : array[i] # Dead)

\* SetCapacity to fewer cells clears first and frees the memory.
Shrink(size) ==
  /\ size < Capacity
  /\ array' = Raw(size)
  /\ length' = 0 /\ cur' = -1 /\ want' = <<>>
  /\ right' = (right /\ Cleared = {i \in DOMAIN array : array[i] # Dead})

\* SetCapacity to more cells moves the one or two pieces in use.
Grow(size) ==
  /\ size > Capacity
  /\ LET moved == Pieces(size)
     IN  /\ array' = [i \in 0..size - 1 |->
                        IF \E p \in moved : p[2] = i
                        THEN array[(CHOOSE p \in moved : p[2] = i)[1]] ELSE Dead]
         /\ right' = (right /\ {p[1] : p \in moved} = {i \in DOMAIN array : array[i] # Dead})
  /\ UNCHANGED <<cur, length, want>>

Next == \/ \E v \in Value : Push(v)
        \/ Pop \/ PopBack \/ Clear
        \/ \E size \in 0..MaxCapacity : Shrink(size) \/ Grow(size)

Spec == Init /\ [][Next]_vars
-----------------------------------------------------------------------------
\* operator[] from 0: the newest item first.
Contents == [k \in 1..length |-> array[ModIndex(k - 1)]]

TypeOK == /\ array \in [0..Capacity - 1 -> Value \cup {Dead}]
          /\ cur \in -1..MaxCapacity - 1
          /\ length \in 0..MaxCapacity

\* Objects are alive in the cells of the window and nowhere else.
LiveWindow == /\ length <= Capacity
              /\ {i \in DOMAIN array : array[i] # Dead} = {ModIndex(k) : k \in 0..length - 1}
=============================================================================
