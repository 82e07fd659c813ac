--------------------------- MODULE RingListProofs ---------------------------
(***************************************************************************)
(* Proofs about ArrayCircular and LinkedArray, as MCContainers runs them,  *)
(* for any values and any bound on the capacity.  RingInv says what is in  *)
(* each cell of the ring by how far back it is from the newest one, and    *)
(* ListInv that the slots of the list are threaded in both directions in   *)
(* the order of their items while the free list has exactly the others.    *)
(* ContainerProofs ends with the theorems.                                 *)
(***************************************************************************)
EXTENDS MCContainers, Sequences, SequenceTheorems, FreeLists

(* Each module brings its own copy of FiniteSets.                          *)
LEMMA SameCounting ==
  \A S : /\ List!Cardinality(S) = Cardinality(S) /\ Ring!Cardinality(S) = Cardinality(S)
         /\ Sets!Cardinality(S) = Cardinality(S) /\ Refs!Cardinality(S) = Cardinality(S)
         /\ Refs!IsFiniteSet(S) <=> IsFiniteSet(S)
BY DEF List!Cardinality, Ring!Cardinality, Sets!Cardinality, Refs!Cardinality, Cardinality,
       Refs!IsFiniteSet, IsFiniteSet

(* Remainders near the modulus. *)
LEMMA Multiples == ASSUME NEW N \in Nat \ {0}, NEW k \in Int
                   PROVE  /\ k >= 1 => k * N >= N
                          /\ k <= -1 => k * N <= -N
OBVIOUS

LEMMA ModNear ==
  ASSUME NEW N \in Nat \ {0}, NEW x \in Int, -N <= x, x < 2 * N
  PROVE  x % N = IF x < 0 THEN x + N ELSE IF x < N THEN x ELSE x - N
<1> DEFINE Times(k) == k * N
<1>1. x % N \in 0..N - 1 /\ x \div N \in Int /\ x = Times(x \div N) + (x % N)
  OBVIOUS
<1>2. PICK q \in Int, r \in 0..N - 1 : x = Times(q) + r /\ x % N = r
  BY <1>1
<1>3. /\ q >= 1 => Times(q) >= N
      /\ q <= -1 => Times(q) <= -N
      /\ q - 1 >= 1 => Times(q - 1) >= N
      /\ q + 1 <= -1 => Times(q + 1) <= -N
  BY Multiples
<1>4. Times(q - 1) = Times(q) - N /\ Times(q + 1) = Times(q) + N /\ Times(0) = 0 /\ Times(1) = N /\ Times(-1) = -N
  OBVIOUS
<1>5. Times(q) \in Int
  OBVIOUS
<1>6. q = -1 \/ q = 0 \/ q = 1
  <2> HIDE DEF Times
  <2> QED BY <1>2, <1>3, <1>4, <1>5
<1>7. Times(q) = IF q = -1 THEN -N ELSE IF q = 0 THEN 0 ELSE N
  BY <1>4, <1>6
<1> HIDE DEF Times
<1> QED BY <1>2, <1>6, <1>7

-----------------------------------------------------------------------------
(* ArrayCircular.                                                          *)

\* How many items are newer than the one in cell i, if that is used.
Back(c, i, n) == IF i <= c THEN c - i ELSE c - i + n

\* A ring of n cells, which holds want.
RingIs(n) ==
  /\ n \in 0..MaxCapacity /\ array \in [0..n - 1 -> Value \cup {Null}]
  /\ length \in 0..n /\ cur \in -1..n - 1 /\ (length > 0 => cur >= 0)
  /\ want \in Seq(Value) /\ Len(want) = length /\ right = TRUE
  /\ \A i \in 0..n - 1 : array[i] = IF Back(cur, i, n) < length THEN want[Back(cur, i, n) + 1] ELSE Null

RingInv == \E n \in Nat : RingIs(n)

LEMMA Cells == ASSUME NEW n \in Nat, RingIs(n)
               PROVE  Ring!Capacity = n /\ DOMAIN array = 0..n - 1
<1>1. Cardinality(0..n - 1) = n
  BY FS_Interval
<1>2. DOMAIN array = 0..n - 1
  BY DEF RingIs
<1> QED BY <1>1, <1>2, SameCounting DEF Ring!Capacity

LEMMA RingStarts == ASSUME Ring!Init PROVE RingIs(0)
<1>1. MaxCapacity \in Nat
  BY RingAssumption DEF Ring!Assumptions
<1> QED BY <1>1 DEF Ring!Init, Ring!Raw, RingIs

LEMMA IndexIsMod == ASSUME NEW n \in Nat, RingIs(n), NEW k \in 0..n - 1, cur >= 0
                    PROVE  Ring!ModIndex(k) = IF k <= cur THEN cur - k ELSE cur - k + n
<1>1. n \in Nat \ {0} /\ cur - k \in Int /\ -n <= cur - k /\ cur - k < n
  BY DEF RingIs
<1>2. (cur - k) % n = IF cur - k < 0 THEN cur - k + n ELSE cur - k
  BY <1>1, ModNear
<1> QED BY <1>2, Cells DEF Ring!ModIndex, RingIs

LEMMA PushKeeps == ASSUME NEW n \in Nat, RingIs(n), NEW v \in Value, Ring!Push(v)
                   PROVE  RingIs(n)'
<1>1. Ring!Capacity = n /\ DOMAIN array = 0..n - 1 /\ n > 0
  BY Cells DEF Ring!Push
<1> DEFINE at == IF cur + 1 = n THEN 0 ELSE cur + 1
           full == length >= n
<1>2. (cur + 1) % n = at
  <2>1. PICK x \in Int : x = cur + 1 /\ -n <= x /\ x < 2 * n /\ n \in Nat \ {0}
    BY <1>1 DEF RingIs
  <2>2. x % n = IF x < 0 THEN x + n ELSE IF x < n THEN x ELSE x - n
    BY <2>1, ModNear
  <2> QED BY <2>1, <2>2 DEF RingIs
<1>3. /\ cur' = at /\ array' = [array EXCEPT ![at] = v]
      /\ length' = IF full THEN length ELSE length + 1
      /\ right' = (right /\ (full <=> array[at] # Null))
      /\ want' = <<v>> \o (IF Len(want) = n THEN Ring!Front(want) ELSE want)
  BY <1>1, <1>2 DEF Ring!Push
<1>4. at \in 0..n - 1
  BY <1>1 DEF RingIs
<1>5. Null \notin Value
  BY RingAssumption DEF Ring!Assumptions
<1>6. right' = TRUE
  <2>1. Back(cur, at, n) = n - 1 \/ (cur = -1 /\ length = 0)
    BY <1>1 DEF RingIs, Back
  <2>2. full <=> array[at] # Null
    BY <1>4, <1>5, <2>1 DEF RingIs, Back
  <2> QED BY <1>3, <2>2 DEF RingIs
<1>7. \A i \in 0..n - 1 : i # at => Back(at, i, n) = Back(cur, i, n) + 1 /\ Back(at, i, n) \in 1..n - 1
  BY <1>1 DEF RingIs, Back
<1>8. Back(at, at, n) = 0
  BY <1>4 DEF Back
<1> HIDE DEF at
<1> DEFINE old == IF Len(want) = n THEN Ring!Front(want) ELSE want
<1>9. old \in Seq(Value) /\ Len(old) = (IF full THEN length - 1 ELSE length)
      /\ \A k \in 1..Len(old) : old[k] = want[k]
  BY <1>1 DEF RingIs, Ring!Front
<1> HIDE DEF old
<1>10. want' \in Seq(Value) /\ Len(want') = length'
       /\ want'[1] = v /\ \A k \in 1..Len(old) : want'[k + 1] = want[k]
  BY <1>3, <1>9, <1>1 DEF RingIs, old
<1>11. ASSUME NEW i \in 0..n - 1
       PROVE  array'[i] = IF Back(at, i, n) < length' THEN want'[Back(at, i, n) + 1] ELSE Null
  <2>1. CASE i = at
    BY <2>1, <1>1, <1>3, <1>8, <1>10 DEF RingIs
  <2>2. CASE i # at
    <3>1. array'[i] = array[i]
      BY <1>3, <2>2 DEF RingIs
    <3>2. Back(at, i, n) = Back(cur, i, n) + 1 /\ Back(at, i, n) \in 1..n - 1
      BY <1>7, <2>2
    <3>3. array[i] = IF Back(cur, i, n) < length THEN want[Back(cur, i, n) + 1] ELSE Null
      BY DEF RingIs
    <3>4. Back(cur, i, n) \in 0..n - 2
      BY <3>2 DEF RingIs, Back
    <3>5. Back(at, i, n) < length' <=> Back(cur, i, n) < Len(old)
      BY <3>2, <3>4, <1>3, <1>9 DEF RingIs
    <3>6. Back(cur, i, n) < length <=> Back(cur, i, n) < Len(old)
      BY <3>4, <1>9 DEF RingIs
    <3>7. Back(cur, i, n) < Len(old) => want'[Back(cur, i, n) + 1 + 1] = want[Back(cur, i, n) + 1]
      <4>1. Back(cur, i, n) < Len(old) => Back(cur, i, n) + 1 \in 1..Len(old)
        BY <3>4, <1>9
      <4> QED BY <4>1, <1>10
    <3> QED BY <3>1, <3>2, <3>3, <3>5, <3>6, <3>7
  <2> QED BY <2>1, <2>2
<1>12. array' \in [0..n - 1 -> Value \cup {Null}]
  BY <1>3, <1>4 DEF RingIs
<1>13. n \in 0..MaxCapacity /\ length' \in 0..n /\ cur' \in -1..n - 1 /\ cur' >= 0
  BY <1>1, <1>3, <1>4 DEF RingIs
<1>14. cur' = at
  BY <1>3
<1> QED BY <1>6, <1>10, <1>11, <1>12, <1>13, <1>14 DEF RingIs

\* What the steps have in common: only the contents are left to be shown.
LEMMA RingKept ==
  ASSUME NEW n \in 0..MaxCapacity, right' = TRUE,
         array' \in [0..n - 1 -> Value \cup {Null}],
         length' \in 0..n, cur' \in -1..n - 1, length' > 0 => cur' >= 0,
         want' \in Seq(Value), Len(want') = length',
         \A i \in 0..n - 1 : array'[i] = IF Back(cur', i, n) < length' THEN want'[Back(cur', i, n) + 1]
                                         ELSE Null
  PROVE  RingIs(n)'
BY DEF RingIs

LEMMA PopKeeps == ASSUME NEW n \in Nat, RingIs(n), Ring!Pop PROVE RingIs(n)'
<1>1. Ring!Capacity = n /\ DOMAIN array = 0..n - 1 /\ length > 0 /\ n > 0
  <2>1. Ring!Capacity = n /\ DOMAIN array = 0..n - 1
    BY Cells
  <2>2. length > 0
    BY DEF Ring!Pop
  <2> QED BY <2>1, <2>2 DEF RingIs
<1> DEFINE at == IF cur = 0 THEN n - 1 ELSE cur - 1
<1>2. (cur - 1) % n = at
  <2>1. PICK x \in Int : x = cur - 1 /\ -n <= x /\ x < 2 * n /\ n \in Nat \ {0}
    BY <1>1 DEF RingIs
  <2>2. x % n = IF x < 0 THEN x + n ELSE IF x < n THEN x ELSE x - n
    BY <2>1, ModNear
  <2> QED BY <1>1, <2>1, <2>2 DEF RingIs
<1>3. /\ length' = length - 1 /\ array' = [array EXCEPT ![cur] = Null] /\ cur' = at
      /\ right' = (right /\ array[cur] = Head(want)) /\ want' = Tail(want)
  BY <1>1, <1>2 DEF Ring!Pop
<1>4. at \in 0..n - 1 /\ cur \in 0..n - 1
  BY <1>1 DEF RingIs
<1>5. want # <<>> /\ Head(want) = want[1]
  BY <1>1 DEF RingIs
<1>6. want' \in Seq(Value) /\ Len(want') = length' /\ \A k \in 1..length - 1 : want'[k] = want[k + 1]
  BY <1>1, <1>3, <1>5 DEF RingIs
<1>7. Back(cur, cur, n) = 0
  BY <1>4 DEF Back
<1>8. right' = TRUE
  <2>1. array[cur] = IF Back(cur, cur, n) < length THEN want[Back(cur, cur, n) + 1] ELSE Null
    BY <1>4 DEF RingIs
  <2>2. array[cur] = want[1]
    BY <2>1, <1>1, <1>7
  <2>3. right = TRUE
    BY DEF RingIs
  <2> QED BY <2>2, <2>3, <1>3, <1>5
<1>9. ASSUME NEW i \in 0..n - 1
      PROVE  array'[i] = IF Back(cur', i, n) < length' THEN want'[Back(cur', i, n) + 1] ELSE Null
  <2>1. CASE i = cur
    <3>1. Back(at, cur, n) = n - 1
      BY <1>4 DEF Back
    <3> QED BY <2>1, <3>1, <1>3, <1>4 DEF RingIs
  <2>2. CASE i # cur
    <3>1. array'[i] = array[i]
      BY <1>3, <2>2 DEF RingIs
    <3>2. Back(cur, i, n) = Back(at, i, n) + 1 /\ Back(at, i, n) \in 0..n - 2
      BY <1>4, <2>2 DEF Back
    <3>3. array[i] = IF Back(cur, i, n) < length THEN want[Back(cur, i, n) + 1] ELSE Null
      BY DEF RingIs
    <3>4. Back(at, i, n) < length - 1 => want'[Back(at, i, n) + 1] = want[Back(at, i, n) + 1 + 1]
      <4>1. Back(at, i, n) < length - 1 => Back(at, i, n) + 1 \in 1..length - 1
        BY <3>2 DEF RingIs
      <4> QED BY <4>1, <1>6
    <3>5. Back(cur, i, n) < length <=> Back(at, i, n) < length - 1
      BY <3>2 DEF RingIs
    <3> HIDE DEF at
    <3> QED BY <3>1, <3>2, <3>3, <3>4, <3>5, <1>3
  <2> QED BY <2>1, <2>2
<1>10. array' \in [0..n - 1 -> Value \cup {Null}]
  BY <1>3, <1>4 DEF RingIs
<1>11. n \in 0..MaxCapacity /\ length' \in 0..n /\ cur' \in -1..n - 1 /\ cur' >= 0
  BY <1>1, <1>3, <1>4 DEF RingIs
<1> QED BY <1>6, <1>8, <1>9, <1>10, <1>11, RingKept

LEMMA PopBackKeeps == ASSUME NEW n \in Nat, RingIs(n), Ring!PopBack PROVE RingIs(n)'
<1>1. Ring!Capacity = n /\ DOMAIN array = 0..n - 1 /\ length > 0 /\ n > 0
  <2>1. Ring!Capacity = n /\ DOMAIN array = 0..n - 1
    BY Cells
  <2>2. length > 0
    BY DEF Ring!PopBack
  <2> QED BY <2>1, <2>2 DEF RingIs
<1> DEFINE l == IF length - 1 <= cur THEN cur - (length - 1) ELSE cur - (length - 1) + n
<1>2. Ring!ModIndex(length - 1) = l
  <2>1. length - 1 \in 0..n - 1 /\ cur >= 0
    BY <1>1 DEF RingIs
  <2> QED BY <2>1, IndexIsMod
<1>3. /\ length' = length - 1 /\ array' = [array EXCEPT ![l] = Null]
      /\ right' = (right /\ array[l] = Ring!Last(want))
      /\ want' = Ring!Front(want) /\ cur' = cur
  BY <1>2 DEF Ring!PopBack
<1>4. l \in 0..n - 1 /\ Back(cur, l, n) = length - 1
  BY <1>1 DEF RingIs, Back
<1>5. Ring!Last(want) = want[length]
  BY DEF RingIs, Ring!Last
<1>6. want' \in Seq(Value) /\ Len(want') = length' /\ \A k \in 1..length - 1 : want'[k] = want[k]
  BY <1>1, <1>3 DEF RingIs, Ring!Front
<1>7. right' = TRUE
  <2>1. array[l] = IF Back(cur, l, n) < length THEN want[Back(cur, l, n) + 1] ELSE Null
    BY <1>4 DEF RingIs
  <2>2. array[l] = want[length]
    <3>1. length \in Nat
      BY DEF RingIs
    <3> QED BY <2>1, <3>1, <1>4
  <2>3. right = TRUE
    BY DEF RingIs
  <2> QED BY <2>2, <2>3, <1>3, <1>5
<1>8. ASSUME NEW i \in 0..n - 1
      PROVE  array'[i] = IF Back(cur', i, n) < length' THEN want'[Back(cur', i, n) + 1] ELSE Null
  <2>1. CASE i = l
    BY <2>1, <1>3, <1>4 DEF RingIs
  <2>2. CASE i # l
    <3>1. array'[i] = array[i] /\ Back(cur, i, n) # length - 1 /\ Back(cur, i, n) \in Nat
      BY <1>1, <1>3, <2>2 DEF RingIs, Back
    <3>2. Back(cur, i, n) < length <=> Back(cur, i, n) < length - 1
      BY <3>1 DEF RingIs
    <3>3. Back(cur, i, n) < length - 1 => want'[Back(cur, i, n) + 1] = want[Back(cur, i, n) + 1]
      <4>1. Back(cur, i, n) < length - 1 => Back(cur, i, n) + 1 \in 1..length - 1
        BY <3>1 DEF RingIs
      <4> QED BY <4>1, <1>6
    <3> QED BY <3>1, <3>2, <3>3, <1>3 DEF RingIs
  <2> QED BY <2>1, <2>2
<1>9. array' \in [0..n - 1 -> Value \cup {Null}]
  BY <1>3, <1>4 DEF RingIs
<1>10. n \in 0..MaxCapacity /\ length' \in 0..n /\ cur' \in -1..n - 1 /\ (length' > 0 => cur' >= 0)
  BY <1>1, <1>3 DEF RingIs
<1> QED BY <1>6, <1>7, <1>8, <1>9, <1>10, RingKept

\* The cells that Clear and SetCapacity take for the used ones are those.
Used(i, n) == Back(cur, i, n) < length

LEMMA LiveIsUsed == ASSUME NEW n \in Nat, RingIs(n), NEW i \in 0..n - 1
                    PROVE  array[i] # Null <=> Used(i, n)
<1>1. Null \notin Value
  BY RingAssumption DEF Ring!Assumptions
<1>2. Back(cur, i, n) \in 0..n - 1
  BY DEF RingIs, Back
<1>3. Used(i, n) => want[Back(cur, i, n) + 1] \in Value
  BY <1>2 DEF RingIs, Used
<1> QED BY <1>1, <1>3 DEF RingIs, Used

LEMMA Firsts == ASSUME NEW T PROVE {p[1] : p \in {<<i, i>> : i \in T}} = T
<1>1. \A i \in T : <<i, i>>[1] = i
  OBVIOUS
<1> QED BY <1>1, Zenon

LEMMA PiecesUsed ==
  ASSUME NEW n \in Nat, RingIs(n), NEW size \in Nat
  PROVE  {p[1] : p \in Ring!Pieces(size)} = {i \in 0..n - 1 : Used(i, n)}
<1>1. CASE Ring!Contiguous
  <2>1. Ring!Pieces(size) = {<<i, i>> : i \in cur - length + 1 .. cur}
    BY <1>1 DEF Ring!Pieces
  <2>2. \A i \in Int : i \in cur - length + 1 .. cur <=> i \in 0..n - 1 /\ Used(i, n)
    BY <1>1 DEF Ring!Contiguous, RingIs, Used, Back
  <2>3. cur - length + 1 .. cur = {i \in 0..n - 1 : Used(i, n)}
    BY <2>2 DEF RingIs
  <2> QED BY <2>1, <2>3, Firsts
<1>2. CASE ~Ring!Contiguous
  <2> DEFINE first == cur - (length - 1) + n
  <2>1. n > 0 /\ length - 1 \in 0..n - 1 /\ cur >= 0 /\ length - 1 > cur
    BY <1>2 DEF Ring!Contiguous, RingIs
  <2>2. Ring!ModIndex(length - 1) = first
    BY <2>1, IndexIsMod DEF RingIs
  <2>3. PICK shift : Ring!Pieces(size) = {<<i, i + shift>> : i \in first .. n - 1} \cup {<<i, i>> : i \in 0..cur}
    BY <1>2, <2>2, Cells DEF Ring!Pieces
  <2>4. \A i \in Int : i \in first .. n - 1 \/ i \in 0..cur <=> i \in 0..n - 1 /\ Used(i, n)
    BY <2>1 DEF RingIs, Used, Back
  <2>5. first \in Int
    BY <2>1 DEF RingIs
  <2> HIDE DEF first
  <2>6. first .. n - 1 \cup 0..cur = {i \in 0..n - 1 : Used(i, n)}
    BY <2>4, <2>5 DEF RingIs
  <2>7. {p[1] : p \in Ring!Pieces(size)} = (first .. n - 1) \cup (0..cur)
    <3> DEFINE upper == first .. n - 1
               lower == 0..cur
    <3>1. Ring!Pieces(size) = {<<i, i + shift>> : i \in upper} \cup {<<i, i>> : i \in lower}
      BY <2>3
    <3> HIDE DEF upper, lower
    <3>2. {p[1] : p \in {<<i, i + shift>> : i \in upper} \cup {<<i, i>> : i \in lower}} = upper \cup lower
      <4>1. /\ \A i \in lower : <<i, i>>[1] = i
            /\ \A i \in upper : <<i, i + shift>>[1] = i
        OBVIOUS
      <4> QED BY <4>1, Zenon
    <3>3. {p[1] : p \in Ring!Pieces(size)} = upper \cup lower
      BY <3>1, <3>2, Zenon
    <3> QED BY <3>3 DEF upper, lower
  <2> QED BY <2>6, <2>7
<1> QED BY <1>1, <1>2

LEMMA ClearedIsUsed == ASSUME NEW n \in Nat, RingIs(n)
                       PROVE  Ring!Cleared = {i \in 0..n - 1 : Used(i, n)}
<1>1. CASE length = n
  <2>1. \A i \in 0..n - 1 : Used(i, n)
    BY <1>1 DEF RingIs, Used, Back
  <2> QED BY <1>1, <2>1, Cells DEF Ring!Cleared
<1>2. CASE length # n
  BY <1>2, Cells, PiecesUsed DEF Ring!Cleared
<1> QED BY <1>1, <1>2

LEMMA ClearKeeps == ASSUME NEW n \in Nat, RingIs(n), Ring!Clear PROVE RingIs(n)'
<1>1. Ring!Cleared = {i \in 0..n - 1 : Used(i, n)} /\ DOMAIN array = 0..n - 1
  BY ClearedIsUsed, Cells
<1>2. \A i \in 0..n - 1 : array[i] # Null <=> Used(i, n)
  BY LiveIsUsed
<1>3. array' = [i \in 0..n - 1 |-> Null]
  BY <1>1, <1>2 DEF Ring!Clear
<1>4. right' = TRUE
  BY <1>1, <1>2 DEF Ring!Clear, RingIs
<1>5. length' = 0 /\ cur' = -1 /\ want' = <<>> /\ n \in 0..MaxCapacity
  BY DEF Ring!Clear, RingIs
<1>6. \A i \in 0..n - 1 : Back(-1, i, n) = n - 1 - i
  BY DEF Back
<1> QED BY <1>3, <1>4, <1>5, <1>6, RingKept

LEMMA ShrinkKeeps ==
  ASSUME NEW n \in Nat, RingIs(n), NEW size \in 0..MaxCapacity, Ring!Shrink(size)
  PROVE  RingIs(size)'
<1>1. Ring!Cleared = {i \in DOMAIN array : array[i] # Null}
  BY ClearedIsUsed, Cells, LiveIsUsed
<1>2. right' = TRUE
  BY <1>1 DEF Ring!Shrink, RingIs
<1>3. array' = [i \in 0..size - 1 |-> Null]
  BY DEF Ring!Shrink, Ring!Raw
<1>4. length' = 0 /\ cur' = -1 /\ want' = <<>> /\ size \in Nat
  BY RingAssumption DEF Ring!Shrink, Ring!Assumptions
<1>5. \A i \in 0..size - 1 : Back(-1, i, size) = size - 1 - i
  BY <1>4 DEF Back
<1> QED BY <1>2, <1>3, <1>4, <1>5, RingKept

\* Where a cell of the larger array gets its object from.
LEMMA MovedOnce ==
  ASSUME NEW moved, NEW p \in moved, \A q \in moved : q[2] = p[2] => q[1] = p[1]
  PROVE  (CHOOSE q \in moved : q[2] = p[2])[1] = p[1]
OBVIOUS

MovedTo(moved, i) == IF \E p \in moved : p[2] = i
                     THEN array[(CHOOSE p \in moved : p[2] = i)[1]] ELSE Null

LEMMA OnePiece ==
  ASSUME NEW n \in Nat, RingIs(n), NEW size \in Nat, size > n, Ring!Contiguous, NEW i \in 0..size - 1
  PROVE  MovedTo(Ring!Pieces(size), i) = IF Back(cur, i, size) < length THEN want[Back(cur, i, size) + 1]
                                         ELSE Null
<1> DEFINE used == cur - length + 1 .. cur
<1>1. Ring!Pieces(size) = {<<j, j>> : j \in used}
  BY DEF Ring!Pieces
<1>2. i \in used <=> Back(cur, i, size) < length
  BY DEF Ring!Contiguous, RingIs, Back
<1>3. CASE i \in used
  <2>1. i \in 0..n - 1 /\ Back(cur, i, size) = Back(cur, i, n)
    BY <1>3 DEF Ring!Contiguous, RingIs, Back
  <2>2. <<i, i>> \in Ring!Pieces(size) /\ \A q \in Ring!Pieces(size) : q[2] = i => q[1] = i
    BY <1>1, <1>3
  <2>3. MovedTo(Ring!Pieces(size), i) = array[i]
    BY <2>2, MovedOnce DEF MovedTo
  <2> QED BY <1>2, <1>3, <2>1, <2>3 DEF RingIs
<1>4. CASE i \notin used
  <2>1. \A q \in Ring!Pieces(size) : q[2] # i
    BY <1>1, <1>4
  <2> QED BY <1>2, <1>4, <2>1 DEF MovedTo
<1> QED BY <1>3, <1>4

LEMMA TwoPieces ==
  ASSUME NEW n \in Nat, RingIs(n), NEW size \in Nat, size > n, ~Ring!Contiguous, NEW i \in 0..size - 1
  PROVE  MovedTo(Ring!Pieces(size), i) = IF Back(cur, i, size) < length THEN want[Back(cur, i, size) + 1]
                                         ELSE Null
<1> DEFINE first == cur - (length - 1) + n
           shift == size - n
<1>1. n > 0 /\ length - 1 \in 0..n - 1 /\ cur \in 0..n - 1 /\ length - 1 > cur /\ first \in 0..n - 1
      /\ first > cur /\ length \in Nat
  BY DEF Ring!Contiguous, RingIs
<1>2. Ring!ModIndex(length - 1) = first
  <2>1. PICK k \in 0..n - 1 : k = length - 1 /\ k > cur /\ cur >= 0
    BY <1>1
  <2>2. Ring!ModIndex(k) = cur - k + n
    BY <2>1, <1>1, IndexIsMod
  <2> QED BY <2>1, <2>2
<1>3. ((cur - length + 1) % size) - first = shift
  <2>1. PICK x \in Int : x = cur - length + 1 /\ -size <= x /\ x < 0 /\ size \in Nat \ {0}
    BY <1>1
  <2>2. x % size = x + size
    BY <2>1, ModNear
  <2> QED BY <1>1, <2>1, <2>2
<1>4. Ring!Pieces(size) = {<<j, j + shift>> : j \in first .. n - 1} \cup {<<j, j>> : j \in 0..cur}
  BY <1>2, <1>3, Cells DEF Ring!Pieces
<1>5. CASE i <= cur
  <2>1. <<i, i>> \in Ring!Pieces(size) /\ \A q \in Ring!Pieces(size) : q[2] = i => q[1] = i
    BY <1>1, <1>4, <1>5
  <2>2. MovedTo(Ring!Pieces(size), i) = array[i]
    BY <2>1, MovedOnce DEF MovedTo
  <2>3. i \in 0..n - 1 /\ Back(cur, i, size) = Back(cur, i, n) /\ Back(cur, i, n) < length
    BY <1>1, <1>5 DEF Back
  <2> QED BY <2>2, <2>3 DEF RingIs
<1>6. CASE i >= first + shift
  <2> DEFINE j == i - shift
  <2>0. j \in first .. n - 1 /\ j + shift = i
    BY <1>1, <1>6
  <2>1. <<j, i>> \in Ring!Pieces(size) /\ \A q \in Ring!Pieces(size) : q[2] = i => q[1] = j
    BY <1>1, <1>4, <1>6, <2>0
  <2>2. MovedTo(Ring!Pieces(size), i) = array[j]
    BY <2>1, MovedOnce DEF MovedTo
  <2>3. j \in 0..n - 1 /\ Back(cur, i, size) = Back(cur, j, n) /\ Back(cur, j, n) < length
    BY <1>1, <1>6 DEF Back
  <2> QED BY <2>2, <2>3 DEF RingIs
<1>7. CASE i > cur /\ i < first + shift
  <2>1. \A q \in Ring!Pieces(size) : q[2] # i
    BY <1>1, <1>4, <1>7
  <2>2. ~(Back(cur, i, size) < length)
    BY <1>1, <1>7 DEF Back
  <2> QED BY <2>1, <2>2 DEF MovedTo
<1> QED BY <1>1, <1>5, <1>6, <1>7

LEMMA GrowKeeps ==
  ASSUME NEW n \in Nat, RingIs(n), NEW size \in 0..MaxCapacity, Ring!Grow(size)
  PROVE  RingIs(size)'
<1>1. size \in Nat /\ size > n /\ DOMAIN array = 0..n - 1 /\ Ring!Capacity = n
  BY Cells, RingAssumption DEF Ring!Grow, Ring!Assumptions
<1>2. array' = [i \in 0..size - 1 |-> MovedTo(Ring!Pieces(size), i)]
  BY DEF Ring!Grow, MovedTo
<1>3. \A i \in 0..size - 1 : array'[i] = IF Back(cur, i, size) < length THEN want[Back(cur, i, size) + 1] ELSE Null
  <2>1. \A i \in 0..size - 1 : array'[i] = MovedTo(Ring!Pieces(size), i)
    BY <1>2
  <2> QED BY <1>1, <2>1, OnePiece, TwoPieces
<1>4. right' = TRUE
  <2>1. {p[1] : p \in Ring!Pieces(size)} = {i \in DOMAIN array : array[i] # Null}
    BY <1>1, PiecesUsed, LiveIsUsed
  <2> QED BY <2>1 DEF Ring!Grow, RingIs
<1>5. UNCHANGED <<cur, length, want>>
  BY DEF Ring!Grow
<1>6. \A i \in 0..size - 1 : Back(cur, i, size) \in Nat /\ (Back(cur, i, size) < length => want[Back(cur, i, size) + 1] \in Value)
  BY <1>1 DEF RingIs, Back
<1>7. array' \in [0..size - 1 -> Value \cup {Null}]
  BY <1>2, <1>3, <1>6
<1>8. /\ length' \in 0..size /\ cur' \in -1..size - 1 /\ (length' > 0 => cur' >= 0)
      /\ want' \in Seq(Value) /\ Len(want') = length'
  BY <1>1, <1>5 DEF RingIs
<1> QED BY <1>3, <1>4, <1>5, <1>7, <1>8, RingKept

LEMMA RingSteps == ASSUME RingInv, Ring!Next PROVE RingInv'
<1>1. PICK n \in Nat : RingIs(n)
  BY DEF RingInv
<1>2. ASSUME NEW v \in Value, Ring!Push(v) PROVE RingInv'
  BY <1>1, <1>2, PushKeeps DEF RingInv
<1>3. CASE Ring!Pop
  BY <1>1, <1>3, PopKeeps DEF RingInv
<1>4. CASE Ring!PopBack
  BY <1>1, <1>4, PopBackKeeps DEF RingInv
<1>5. CASE Ring!Clear
  BY <1>1, <1>5, ClearKeeps DEF RingInv
<1>6. ASSUME NEW size \in 0..MaxCapacity, Ring!Shrink(size) \/ Ring!Grow(size) PROVE RingInv'
  <2>1. size \in Nat
    BY RingAssumption DEF Ring!Assumptions
  <2> QED BY <1>1, <1>6, <2>1, ShrinkKeeps, GrowKeeps DEF RingInv
<1> QED BY <1>2, <1>3, <1>4, <1>5, <1>6 DEF Ring!Next

\* What is wanted of a ring follows.
LEMMA RingWanted == ASSUME RingInv
                    PROVE  Ring!TypeOK /\ Ring!LiveWindow /\ Ring!Contents = want /\ right = TRUE
<1>1. PICK n \in Nat : RingIs(n)
  BY DEF RingInv
<1>2. Ring!Capacity = n /\ DOMAIN array = 0..n - 1
  BY <1>1, Cells
<1>3. MaxCapacity \in Nat
  BY RingAssumption DEF Ring!Assumptions
<1>4. Ring!TypeOK
  BY <1>1, <1>2, <1>3 DEF Ring!TypeOK, RingIs
<1>5. \A k \in 0..length - 1 : /\ Ring!ModIndex(k) \in 0..n - 1
                               /\ Back(cur, Ring!ModIndex(k), n) = k
  <2> TAKE k \in 0..length - 1
  <2>1. k \in 0..n - 1 /\ cur >= 0 /\ cur <= n - 1
    BY <1>1 DEF RingIs
  <2>2. Ring!ModIndex(k) = IF k <= cur THEN cur - k ELSE cur - k + n
    BY <1>1, <2>1, IndexIsMod
  <2> QED BY <1>1, <2>1, <2>2 DEF Back, RingIs
<1>6. Ring!Contents = want
  <2>1. \A k \in 1..length : k - 1 \in 0..length - 1 /\ array[Ring!ModIndex(k - 1)] = want[k]
    <3> TAKE k \in 1..length
    <3>1. k - 1 \in 0..length - 1 /\ k \in Nat
      BY <1>1 DEF RingIs
    <3> DEFINE i == Ring!ModIndex(k - 1)
    <3>2. i \in 0..n - 1 /\ Back(cur, i, n) = k - 1
      BY <1>5, <3>1
    <3>3. array[i] = IF Back(cur, i, n) < length THEN want[Back(cur, i, n) + 1] ELSE Null
      BY <1>1, <3>2 DEF RingIs
    <3> QED BY <1>1, <3>1, <3>2, <3>3 DEF RingIs
  <2>2. Ring!Contents = [k \in 1..length |-> want[k]]
    BY <2>1 DEF Ring!Contents
  <2> QED BY <1>1, <2>2 DEF RingIs
<1>7. Ring!LiveWindow
  <2>1. ASSUME NEW i \in 0..n - 1, array[i] # Null
        PROVE  \E k \in 0..length - 1 : i = Ring!ModIndex(k)
    <3> DEFINE k == Back(cur, i, n)
    <3>1. Used(i, n)
      BY <1>1, <2>1, LiveIsUsed
    <3>2. k \in 0..length - 1 /\ k \in 0..n - 1 /\ cur >= 0
      BY <1>1, <3>1 DEF Used, Back, RingIs
    <3>3. Ring!ModIndex(k) = IF k <= cur THEN cur - k ELSE cur - k + n
      BY <1>1, <3>2, IndexIsMod
    <3>4. Ring!ModIndex(k) = i
      BY <1>1, <3>3 DEF Back, RingIs
    <3> QED BY <3>2, <3>4
  <2>2. \A k \in 0..length - 1 : array[Ring!ModIndex(k)] # Null
    BY <1>1, <1>5, LiveIsUsed DEF Used, RingIs
  <2> QED BY <1>1, <1>2, <1>5, <2>1, <2>2 DEF Ring!LiveWindow, RingIs
<1> QED BY <1>1, <1>4, <1>6, <1>7 DEF RingIs
-----------------------------------------------------------------------------
(* Sequences with an entry more or less.                                   *)

LEMMA Inserted ==
  ASSUME NEW T, NEW s \in Seq(T), NEW k \in 1..Len(s) + 1, NEW e \in T,
         NEW z, z = List!Seqs!InsertAt(s, k, e)
  PROVE  /\ z \in Seq(T) /\ Len(z) = Len(s) + 1
         /\ \A i \in 1..Len(s) + 1 : z[i] = IF i < k THEN s[i] ELSE IF i = k THEN e ELSE s[i - 1]
<1>0. Len(s) \in Nat
  OBVIOUS
<1> DEFINE a == SubSeq(s, 1, k - 1)
           b == SubSeq(s, k, Len(s))
<1>1. a \in Seq(T) /\ Len(a) = k - 1 /\ \A i \in 1..k - 1 : a[i] = s[i]
  OBVIOUS
<1>2. b \in Seq(T) /\ Len(b) = Len(s) - k + 1 /\ \A i \in 1..Len(s) - k + 1 : b[i] = s[k + i - 1]
  OBVIOUS
<1>3. List!Seqs!InsertAt(s, k, e) = a \o <<e>> \o b
  BY DEF List!Seqs!InsertAt
<1> HIDE DEF a, b
<1>4. <<e>> \in Seq(T) /\ Len(<<e>>) = 1 /\ <<e>>[1] = e
  OBVIOUS
<1> DEFINE c == a \o <<e>>
<1>5. c \in Seq(T) /\ Len(c) = k /\ \A i \in 1..k : c[i] = IF i < k THEN s[i] ELSE e
  <2>1. /\ c \in Seq(T) /\ Len(c) = k
        /\ \A i \in 1..k : c[i] = IF i <= k - 1 THEN a[i] ELSE <<e>>[i - (k - 1)]
    BY <1>0, <1>1, <1>4, ConcatProperties
  <2> HIDE DEF c
  <2> QED BY <2>1, <1>0, <1>1, <1>4
<1> HIDE DEF c
<1>6. c \o b \in Seq(T) /\ Len(c \o b) = Len(s) + 1
      /\ \A i \in 1..Len(s) + 1 : (c \o b)[i] = IF i <= k THEN c[i] ELSE b[i - k]
  <2>1. Len(c) + Len(b) = Len(s) + 1
    BY <1>0, <1>2, <1>5
  <2> QED BY <2>1, <1>2, <1>5, ConcatProperties
<1>7. ASSUME NEW i \in 1..Len(s) + 1
      PROVE  (c \o b)[i] = IF i < k THEN s[i] ELSE IF i = k THEN e ELSE s[i - 1]
  <2>1. CASE i <= k
    BY <2>1, <1>0, <1>5, <1>6
  <2>2. CASE i > k
    <3>1. i - k \in 1..Len(s) - k + 1 /\ k + (i - k) - 1 = i - 1
      BY <1>0, <2>2
    <3>2. b[i - k] = s[i - 1]
      BY <3>1, <1>2
    <3>3. (c \o b)[i] = b[i - k]
      BY <2>2, <1>0, <1>6
    <3> QED BY <2>2, <3>2, <3>3, <1>0
  <2>3. i <= k \/ i > k
    BY <1>0
  <2> QED BY <2>1, <2>2, <2>3
<1> QED BY <1>3, <1>6, <1>7 DEF c

\* z is s without its k-th entry.
Less(s, k, z) == /\ Len(z) = Len(s) - 1
                 /\ \A i \in 1..Len(s) - 1 : z[i] = IF i < k THEN s[i] ELSE s[i + 1]

LEMMA Removed ==
  ASSUME NEW T, NEW s \in Seq(T), NEW k \in 1..Len(s)
  PROVE  List!Seqs!RemoveAt(s, k) \in Seq(T) /\ Less(s, k, List!Seqs!RemoveAt(s, k))
<1>0. Len(s) \in Nat
  OBVIOUS
<1> DEFINE a == SubSeq(s, 1, k - 1)
           b == SubSeq(s, k + 1, Len(s))
<1>1. a \in Seq(T) /\ Len(a) = k - 1 /\ \A i \in 1..k - 1 : a[i] = s[i]
  OBVIOUS
<1>2. b \in Seq(T) /\ Len(b) = Len(s) - k /\ \A i \in 1..Len(s) - k : b[i] = s[k + i]
  OBVIOUS
<1>3. List!Seqs!RemoveAt(s, k) = a \o b
  BY DEF List!Seqs!RemoveAt
<1> HIDE DEF a, b
<1>4. a \o b \in Seq(T) /\ Len(a \o b) = Len(s) - 1
      /\ \A i \in 1..Len(s) - 1 : (a \o b)[i] = IF i < k THEN a[i] ELSE b[i - (k - 1)]
  <2>1. Len(a) + Len(b) = Len(s) - 1
    BY <1>0, <1>1, <1>2
  <2>2. /\ a \o b \in Seq(T) /\ Len(a \o b) = Len(a) + Len(b)
        /\ \A i \in 1..Len(a) + Len(b) : (a \o b)[i] = IF i <= Len(a) THEN a[i] ELSE b[i - Len(a)]
    BY <1>1, <1>2, ConcatProperties
  <2>3. \A i \in 1..Len(s) - 1 : i <= k - 1 <=> i < k
    BY <1>0
  <2> QED BY <2>1, <2>2, <2>3, <1>1
<1>5. ASSUME NEW i \in 1..Len(s) - 1 PROVE (a \o b)[i] = IF i < k THEN s[i] ELSE s[i + 1]
  <2>1. CASE i < k
    BY <2>1, <1>0, <1>1, <1>4
  <2>2. CASE i >= k
    <3>1. i - (k - 1) \in 1..Len(s) - k /\ k + (i - (k - 1)) = i + 1
      BY <1>0, <2>2
    <3>2. b[i - (k - 1)] = s[i + 1]
      BY <3>1, <1>2
    <3>3. (a \o b)[i] = b[i - (k - 1)]
      <4>1. ~(i < k)
        BY <2>2, <1>0
      <4> QED BY <4>1, <1>4
    <3> QED BY <2>2, <3>2, <3>3, <1>0
  <2>3. i < k \/ i >= k
    BY <1>0
  <2> QED BY <2>1, <2>2, <2>3
<1> QED BY <1>3, <1>4, <1>5 DEF Less
-----------------------------------------------------------------------------
(* LinkedArray.  The invariant says where the entries of want are.         *)

Cell(m) == [val : Value \cup {Null}, next : -1..m - 1, prev : -1..m - 1]
Entry(m) == [at : 0..m - 1, val : Value]

\* The slot of the k-th entry; none before the first and after the last one.
Place(w, k) == IF k \in 1..Len(w) THEN w[k].at ELSE -1
Slots(w) == {w[k].at : k \in 1..Len(w)}
Apart(w) == \A j, k \in 1..Len(w) : w[j].at = w[k].at => j = k

\* The entries of w are linked in both directions.
Linked(r, w) == \A k \in 1..Len(w) : /\ r[w[k].at].val = w[k].val
                                     /\ r[w[k].at].next = Place(w, k + 1)
                                     /\ r[w[k].at].prev = Place(w, k - 1)

Nexts(r) == [i \in DOMAIN r |-> r[i].next]

\* The list of w in m slots; the other slots are in the free list.
Holds(m, r, w, first, last, free) ==
  /\ r \in [0..m - 1 -> Cell(m)] /\ w \in Seq(Entry(m)) /\ Apart(w) /\ Linked(r, w)
  /\ first = Place(w, 1) /\ last = Place(w, Len(w))
  /\ ListOf(0..m - 1, -1, Nexts(r), free, (0..m - 1) \ Slots(w))

ListIs(n) ==
  /\ n \in 1..MaxCapacity /\ Holds(n, ref, want, start, end, freelist)
  /\ length = Len(want) /\ right = TRUE

ListInv == \E n \in Nat : ListIs(n)

LEMMA SlotsCount == ASSUME NEW n \in Nat, ListIs(n)
                    PROVE  List!Capacity = n /\ DOMAIN ref = 0..n - 1 /\ List!Live = Slots(want)
<1>1. Cardinality(0..n - 1) = n
  BY FS_Interval
<1>2. DOMAIN ref = 0..n - 1
  BY DEF ListIs, Holds
<1>3. DOMAIN want = 1..Len(want)
  BY DEF ListIs, Holds
<1> QED BY <1>1, <1>2, <1>3, SameCounting DEF List!Capacity, List!Live, Slots

LEMMA PlaceIn == ASSUME NEW m \in Nat, NEW w \in Seq(Entry(m)), NEW k \in Int
                 PROVE  /\ Place(w, k) \in -1..m - 1
                        /\ k \in 1..Len(w) => Place(w, k) \in Slots(w) /\ Place(w, k) \in 0..m - 1
                        /\ Place(w, k) # -1 => Place(w, k) \in Slots(w)
<1>1. k \in 1..Len(w) => w[k] \in Entry(m)
  BY ElementOfSeq
<1>2. k \in 1..Len(w) => w[k].at \in 0..m - 1
  BY <1>1 DEF Entry
<1> QED BY <1>2 DEF Place, Slots

\* z is w with another entry before the k-th one.
Up(k, i) == IF i < k THEN i ELSE i + 1
OneMore(w, z, k) == Len(z) = Len(w) + 1 /\ \A i \in 1..Len(w) : z[Up(k, i)] = w[i]

UpMeets(n, k) == /\ \A i \in Int : Up(k, i) \in Int /\ Up(k, i) # k
                 /\ \A i \in 1..n : Up(k, i) \in 1..n + 1 /\ Up(k, i) # k
                 /\ \A i \in Int : Up(k, i) \in 1..n + 1 => i \in 1..n
                 /\ \A i, j \in Int : Up(k, i) = Up(k, j) => i = j
                 /\ \A j \in 1..n + 1 : j # k => \E i \in 1..n : j = Up(k, i)

LEMMA UpIs == ASSUME NEW n \in Nat, NEW k \in 1..n + 1 PROVE UpMeets(n, k)
<1>1. ASSUME NEW j \in 1..n + 1, j # k PROVE \E i \in 1..n : j = Up(k, i)
  <2>1. CASE j < k
    <3>1. j \in 1..n /\ Up(k, j) = j
      BY <2>1 DEF Up
    <3> QED BY <3>1
  <2>2. CASE j > k
    <3>1. j - 1 \in 1..n /\ Up(k, j - 1) = j
      BY <2>2 DEF Up
    <3> QED BY <3>1
  <2> QED BY <1>1, <2>1, <2>2
<1> QED BY <1>1 DEF Up, UpMeets

LEMMA MoreIs ==
  ASSUME NEW m \in Nat, NEW w \in Seq(Entry(m)), NEW z \in Seq(Entry(m)), NEW k \in 1..Len(z), OneMore(w, z, k)
  PROVE  /\ Apart(z) <=> Apart(w) /\ z[k].at \notin Slots(w)
         /\ Slots(z) = Slots(w) \cup {z[k].at}
         /\ \A j \in Int : Place(w, j) = Place(z, Up(k, j))
<1>1. PICK n \in Nat : Len(w) = n
  OBVIOUS
<1>2. Len(z) = n + 1
  BY <1>1 DEF OneMore
<1>3. k \in 1..n + 1
  BY <1>2
<1>4. /\ \A i \in Int : Up(k, i) \in Int /\ Up(k, i) # k
      /\ \A i \in 1..n : Up(k, i) \in 1..n + 1 /\ Up(k, i) # k
      /\ \A i \in Int : Up(k, i) \in 1..n + 1 => i \in 1..n
      /\ \A i, j \in Int : Up(k, i) = Up(k, j) => i = j
      /\ \A j \in 1..n + 1 : j # k => \E i \in 1..n : j = Up(k, i)
  <2>1. UpMeets(n, k)
    BY <1>3, UpIs
  <2> QED BY <2>1 DEF UpMeets
<1>5. \A i \in 1..n : z[Up(k, i)] = w[i]
  BY <1>1 DEF OneMore
<1>6. /\ Apart(w) <=> \A j, i \in 1..n : w[j].at = w[i].at => j = i
      /\ Apart(z) <=> \A j, i \in 1..n + 1 : z[j].at = z[i].at => j = i
  BY <1>1, <1>2, Zenon DEF Apart
<1>7. /\ \A s : s \in Slots(w) <=> \E j \in 1..n : s = w[j].at
      /\ \A s : s \in Slots(z) <=> \E j \in 1..n + 1 : s = z[j].at
  BY <1>1, <1>2, Zenon DEF Slots
<1>8. /\ \A j : Place(w, j) = IF j \in 1..n THEN w[j].at ELSE -1
      /\ \A j : Place(z, j) = IF j \in 1..n + 1 THEN z[j].at ELSE -1
  BY <1>1, <1>2, Zenon DEF Place
<1>9. \A j \in Int : Place(w, j) = Place(z, Up(k, j))
  BY <1>4, <1>5, <1>8
<1>10. \A j \in 1..n + 1 : j # k => \E i \in 1..n : z[j] = w[i]
  <2> TAKE j \in 1..n + 1
  <2> HAVE j # k
  <2>1. PICK i \in 1..n : j = Up(k, i)
    BY <1>4
  <2> QED BY <2>1, <1>5
<1>11. \A s : s \in Slots(z) <=> s \in Slots(w) \/ s = z[k].at
  <2>1. \A j \in 1..n : \E i \in 1..n + 1 : z[i] = w[j]
    BY <1>4, <1>5
  <2>2. \A j \in 1..n : \E i \in 1..n + 1 : z[i].at = w[j].at
    BY <2>1
  <2>3. \A j \in 1..n + 1 : j # k => \E i \in 1..n : z[j].at = w[i].at
    BY <1>10
  <2>4. ASSUME NEW s, s \in Slots(z), s # z[k].at PROVE s \in Slots(w)
    <3>1. PICK j \in 1..n + 1 : s = z[j].at
      BY <2>4, <1>7
    <3>2. j # k
      BY <3>1, <2>4
    <3> QED BY <3>1, <3>2, <2>3, <1>7
  <2>5. ASSUME NEW s, s \in Slots(w) PROVE s \in Slots(z)
    <3>1. PICK j \in 1..n : s = w[j].at
      BY <2>5, <1>7
    <3> QED BY <3>1, <2>2, <1>7
  <2>6. z[k].at \in Slots(z)
    BY <1>3, <1>7
  <2> QED BY <2>4, <2>5, <2>6
<1>12. ASSUME Apart(z), NEW i \in 1..n, NEW j \in 1..n, w[i].at = w[j].at PROVE i = j
  <2>1. z[Up(k, i)].at = z[Up(k, j)].at
    BY <1>5, <1>12
  <2>2. Up(k, i) = Up(k, j)
    BY <2>1, <1>4, <1>6, <1>12
  <2> QED BY <2>2, <1>4
<1>13. ASSUME Apart(z), NEW i \in 1..n, w[i].at = z[k].at PROVE FALSE
  <2>1. z[Up(k, i)].at = z[k].at /\ Up(k, i) \in 1..n + 1 /\ Up(k, i) # k
    BY <1>4, <1>5, <1>13, Zenon
  <2> QED BY <2>1, <1>3, <1>6, <1>13
<1>14. ASSUME Apart(w), z[k].at \notin Slots(w), NEW i \in 1..n + 1, NEW j \in 1..n + 1, z[i].at = z[j].at, i # j
       PROVE  FALSE
  <2>1. \A h \in 1..n : w[h].at # z[k].at
    BY <1>7, <1>14
  <2>2. \A h \in 1..n + 1 : h # k => z[h].at # z[k].at
    BY <2>1, <1>10
  <2>3. i # k /\ j # k
    BY <2>2, <1>14
  <2>4. PICK a \in 1..n : i = Up(k, a)
    BY <2>3, <1>4
  <2>5. PICK b \in 1..n : j = Up(k, b)
    BY <2>3, <1>4
  <2>6. w[a].at = w[b].at
    BY <2>4, <2>5, <1>5, <1>14
  <2> QED BY <2>4, <2>5, <2>6, <1>6, <1>14
<1>15. Apart(z) <=> Apart(w) /\ z[k].at \notin Slots(w)
  BY <1>6, <1>7, <1>12, <1>13, <1>14, Zenon
<1> QED BY <1>9, <1>15, <1>11

LEMMA InsertedMore ==
  ASSUME NEW m \in Nat, NEW w \in Seq(Entry(m)), NEW k \in 1..Len(w) + 1, NEW e \in Entry(m), NEW z,
         z = List!Seqs!InsertAt(w, k, e)
  PROVE  z \in Seq(Entry(m)) /\ k \in 1..Len(z) /\ z[k] = e /\ OneMore(w, z, k)
<1>1. /\ z \in Seq(Entry(m)) /\ Len(z) = Len(w) + 1
      /\ \A i \in 1..Len(w) + 1 : z[i] = IF i < k THEN w[i] ELSE IF i = k THEN e ELSE w[i - 1]
  <2>1. PICK T : T = Entry(m)
    OBVIOUS
  <2>2. w \in Seq(T) /\ e \in T
    BY <2>1
  <2>3. /\ z \in Seq(T) /\ Len(z) = Len(w) + 1
        /\ \A i \in 1..Len(w) + 1 : z[i] = IF i < k THEN w[i] ELSE IF i = k THEN e ELSE w[i - 1]
    BY <2>2, Inserted
  <2> QED BY <2>1, <2>3
<1>2. Len(w) \in Nat
  OBVIOUS
<1>3. ASSUME NEW i \in 1..Len(w) PROVE z[Up(k, i)] = w[i]
  <2>1. CASE i < k
    BY <2>1, <1>1, <1>2 DEF Up
  <2>2. CASE i >= k
    <3>1. i + 1 \in 1..Len(w) + 1 /\ ~(i + 1 < k) /\ i + 1 # k /\ i + 1 - 1 = i /\ Up(k, i) = i + 1
      BY <2>2, <1>2 DEF Up
    <3> QED BY <3>1, <1>1
  <2>3. i < k \/ i >= k
    BY <1>2
  <2> QED BY <2>1, <2>2, <2>3
<1>4. k \in 1..Len(z) /\ z[k] = e
  BY <1>1, <1>2
<1> QED BY <1>1, <1>3, <1>4 DEF OneMore

LEMMA RemovedMore ==
  ASSUME NEW m \in Nat, NEW w \in Seq(Entry(m)), NEW k \in 1..Len(w), NEW z, z = List!Seqs!RemoveAt(w, k)
  PROVE  z \in Seq(Entry(m)) /\ OneMore(z, w, k)
<1>1. /\ z \in Seq(Entry(m)) /\ Len(z) = Len(w) - 1
      /\ \A i \in 1..Len(w) - 1 : z[i] = IF i < k THEN w[i] ELSE w[i + 1]
  <2>1. PICK T : T = Entry(m)
    OBVIOUS
  <2>2. w \in Seq(T)
    BY <2>1
  <2>3. /\ z \in Seq(T) /\ Len(z) = Len(w) - 1
        /\ \A i \in 1..Len(w) - 1 : z[i] = IF i < k THEN w[i] ELSE w[i + 1]
    <3>1. List!Seqs!RemoveAt(w, k) \in Seq(T) /\ Less(w, k, List!Seqs!RemoveAt(w, k))
      BY <2>2, Removed
    <3> QED BY <3>1 DEF Less
  <2> QED BY <2>1, <2>3
<1>2. Len(w) \in Nat
  OBVIOUS
<1> QED BY <1>1, <1>2 DEF OneMore, Up

LEMMA PlaceOf ==
  ASSUME NEW m \in Nat, NEW w \in Seq(Entry(m)), Apart(w), NEW i \in 1..Len(w), NEW j \in Int
  PROVE  w[i].at \in 0..m - 1 /\ (w[i].at = Place(w, j) <=> i = j)
<1>1. w[i] \in Entry(m)
  BY ElementOfSeq
<1>2. w[i].at \in 0..m - 1
  BY <1>1 DEF Entry
<1>3. w[i].at # -1
  BY <1>2
<1> QED BY <1>2, <1>3 DEF Place, Apart

\* Changing one link.
LEMMA NextSet ==
  ASSUME NEW m \in Nat, NEW r \in [0..m - 1 -> Cell(m)], NEW i \in -1..m - 1, NEW x \in -1..m - 1,
         NEW q, q = List!SetNext(r, i, x)
  PROVE  /\ q \in [0..m - 1 -> Cell(m)]
         /\ \A h \in 0..m - 1 : /\ q[h].val = r[h].val /\ q[h].prev = r[h].prev
                                /\ q[h].next = IF h = i THEN x ELSE r[h].next
<1>1. CASE i = -1
  BY <1>1 DEF List!SetNext, List!None
<1>2. CASE i # -1
  <2>1. i \in 0..m - 1 /\ q = [r EXCEPT ![i].next = x]
    BY <1>2 DEF List!SetNext, List!None
  <2>2. \A h \in 0..m - 1 : r[h] \in Cell(m)
    OBVIOUS
  <2> QED BY <2>1, <2>2 DEF Cell
<1> QED BY <1>1, <1>2

LEMMA PrevSet ==
  ASSUME NEW m \in Nat, NEW r \in [0..m - 1 -> Cell(m)], NEW i \in -1..m - 1, NEW x \in -1..m - 1,
         NEW q, q = List!SetPrev(r, i, x)
  PROVE  /\ q \in [0..m - 1 -> Cell(m)]
         /\ \A h \in 0..m - 1 : /\ q[h].val = r[h].val /\ q[h].next = r[h].next
                                /\ q[h].prev = IF h = i THEN x ELSE r[h].prev
<1>1. CASE i = -1
  BY <1>1 DEF List!SetPrev, List!None
<1>2. CASE i # -1
  <2>1. i \in 0..m - 1 /\ q = [r EXCEPT ![i].prev = x]
    BY <1>2 DEF List!SetPrev, List!None
  <2>2. \A h \in 0..m - 1 : r[h] \in Cell(m)
    OBVIOUS
  <2> QED BY <2>1, <2>2 DEF Cell
<1> QED BY <1>1, <1>2

\* q is r with next of i and prev of j changed.
Relinked(m, q, r, i, x, j, y) ==
  /\ q \in [0..m - 1 -> Cell(m)]
  /\ \A h \in 0..m - 1 : /\ q[h].val = r[h].val
                         /\ q[h].next = IF h = i THEN x ELSE r[h].next
                         /\ q[h].prev = IF h = j THEN y ELSE r[h].prev

LEMMA BothSet ==
  ASSUME NEW m \in Nat, NEW r \in [0..m - 1 -> Cell(m)], NEW i \in -1..m - 1, NEW x \in -1..m - 1,
         NEW j \in -1..m - 1, NEW y \in -1..m - 1, NEW q,
         q = List!SetPrev(List!SetNext(r, i, x), j, y) \/ q = List!SetNext(List!SetPrev(r, j, y), i, x)
  PROVE  Relinked(m, q, r, i, x, j, y)
<1>1. CASE q = List!SetPrev(List!SetNext(r, i, x), j, y)
  <2>1. PICK q1 : q1 = List!SetNext(r, i, x)
    OBVIOUS
  <2>2. /\ q1 \in [0..m - 1 -> Cell(m)]
        /\ \A h \in 0..m - 1 : q1[h].val = r[h].val /\ q1[h].prev = r[h].prev /\ q1[h].next = IF h = i THEN x ELSE r[h].next
    BY <2>1, NextSet
  <2>3. q = List!SetPrev(q1, j, y)
    BY <1>1, <2>1
  <2>4. \A h \in 0..m - 1 : q[h].val = q1[h].val /\ q[h].next = q1[h].next /\ q[h].prev = IF h = j THEN y ELSE q1[h].prev
    BY <2>2, <2>3, PrevSet
  <2>5. q \in [0..m - 1 -> Cell(m)]
    BY <2>2, <2>3, PrevSet
  <2> QED BY <2>2, <2>4, <2>5 DEF Relinked
<1>2. CASE q = List!SetNext(List!SetPrev(r, j, y), i, x)
  <2>1. PICK q1 : q1 = List!SetPrev(r, j, y)
    OBVIOUS
  <2>2. /\ q1 \in [0..m - 1 -> Cell(m)]
        /\ \A h \in 0..m - 1 : q1[h].val = r[h].val /\ q1[h].next = r[h].next /\ q1[h].prev = IF h = j THEN y ELSE r[h].prev
    BY <2>1, PrevSet
  <2>3. q = List!SetNext(q1, i, x)
    BY <1>2, <2>1
  <2>4. \A h \in 0..m - 1 : q[h].val = q1[h].val /\ q[h].prev = q1[h].prev /\ q[h].next = IF h = i THEN x ELSE q1[h].next
    BY <2>2, <2>3, NextSet
  <2>5. q \in [0..m - 1 -> Cell(m)]
    BY <2>2, <2>3, NextSet
  <2> QED BY <2>2, <2>4, <2>5 DEF Relinked
<1> QED BY <1>1, <1>2

LEMMA CellSet ==
  ASSUME NEW m \in Nat, NEW r \in [0..m - 1 -> Cell(m)], NEW c \in 0..m - 1, NEW node \in Cell(m),
         NEW q, q = [r EXCEPT ![c] = node]
  PROVE  q \in [0..m - 1 -> Cell(m)] /\ \A h \in 0..m - 1 : q[h] = IF h = c THEN node ELSE r[h]
OBVIOUS

\* Cell c has been put between two others.
Spliced(m, q, r, c, v, prev, next) ==
  /\ q \in [0..m - 1 -> Cell(m)]
  /\ \A h \in 0..m - 1 : /\ q[h].val = IF h = c THEN v ELSE r[h].val
                         /\ q[h].next = IF h = c THEN next ELSE IF h = prev THEN c ELSE r[h].next
                         /\ q[h].prev = IF h = c THEN prev ELSE IF h = next THEN c ELSE r[h].prev

LEMMA LinkSplices ==
  ASSUME NEW m \in Nat, NEW r \in [0..m - 1 -> Cell(m)], NEW c \in 0..m - 1, NEW v \in Value,
         NEW prev \in -1..m - 1, NEW next \in -1..m - 1, prev # c, next # c, NEW node \in Cell(m),
         node.val = v, node.next = next, node.prev = prev, NEW q,
         q = List!SetPrev(List!SetNext([r EXCEPT ![c] = node], prev, c), next, c)
  PROVE  Spliced(m, q, r, c, v, prev, next)
<1>1. PICK q1 : q1 = [r EXCEPT ![c] = node]
  OBVIOUS
<1>2. q1 \in [0..m - 1 -> Cell(m)] /\ \A h \in 0..m - 1 : q1[h] = IF h = c THEN node ELSE r[h]
  BY <1>1, CellSet
<1>3. q1 \in [0..m - 1 -> Cell(m)] /\ c \in -1..m - 1 /\ q = List!SetPrev(List!SetNext(q1, prev, c), next, c)
  BY <1>1, <1>2
<1>4. Relinked(m, q, q1, prev, c, next, c)
  BY <1>3, BothSet
<1>5. /\ q \in [0..m - 1 -> Cell(m)]
      /\ \A h \in 0..m - 1 : /\ q[h].val = q1[h].val
                             /\ q[h].next = IF h = prev THEN c ELSE q1[h].next
                             /\ q[h].prev = IF h = next THEN c ELSE q1[h].prev
  BY <1>4 DEF Relinked
<1>6. ASSUME NEW h \in 0..m - 1
      PROVE  /\ q[h].val = IF h = c THEN v ELSE r[h].val
             /\ q[h].next = IF h = c THEN next ELSE IF h = prev THEN c ELSE r[h].next
             /\ q[h].prev = IF h = c THEN prev ELSE IF h = next THEN c ELSE r[h].prev
  <2>1. q1[h].val = IF h = c THEN v ELSE r[h].val
    BY <1>2
  <2>2. q1[h].next = IF h = c THEN next ELSE r[h].next
    BY <1>2
  <2>3. q1[h].prev = IF h = c THEN prev ELSE r[h].prev
    BY <1>2
  <2> QED BY <2>1, <2>2, <2>3, <1>5
<1> QED BY <1>5, <1>6 DEF Spliced

LEMMA EntryLinked ==
  ASSUME NEW m \in Nat, NEW r, NEW w, NEW first, NEW last, NEW c \in 0..m - 1, Holds(m, r, w, first, last, c),
         NEW k \in Int, NEW v \in Value, NEW prev, NEW next, prev = Place(w, k - 1), next = Place(w, k),
         NEW q, Spliced(m, q, r, c, v, prev, next),
         NEW z \in Seq(Entry(m)), k \in 1..Len(z), z[k].at = c, z[k].val = v, OneMore(w, z, k)
  PROVE  Holds(m, q, z, IF prev = -1 THEN c ELSE first, IF next = -1 THEN c ELSE last, r[c].next)
<1>1. /\ r \in [0..m - 1 -> Cell(m)] /\ w \in Seq(Entry(m)) /\ Apart(w) /\ Linked(r, w)
      /\ first = Place(w, 1) /\ last = Place(w, Len(w))
      /\ ListOf(0..m - 1, -1, Nexts(r), c, (0..m - 1) \ Slots(w))
  BY DEF Holds
<1>2. PICK n \in Nat : Len(w) = n
  BY <1>1
<1>3. Len(z) = n + 1 /\ k \in 1..n + 1 /\ \A i \in 1..n : z[Up(k, i)] = w[i]
  BY <1>2 DEF OneMore
<1>4. c \notin Slots(w) /\ ListOf(0..m - 1, -1, Nexts(r), r[c].next, ((0..m - 1) \ Slots(w)) \ {c})
  <2>1. Nexts(r)[c] = r[c].next
    BY <1>1 DEF Nexts
  <2>2. c # -1
    OBVIOUS
  <2> DEFINE slots == 0..m - 1
             free == slots \ Slots(w)
  <2>4. ListOf(slots, -1, Nexts(r), c, free)
    BY <1>1
  <2>5. c \in free /\ ListOf(slots, -1, Nexts(r), Nexts(r)[c], free \ {c})
    <3> HIDE DEF slots, free
    <3> QED BY <2>2, <2>4, Popped
  <2>3. c \in (0..m - 1) \ Slots(w)
        /\ ListOf(0..m - 1, -1, Nexts(r), Nexts(r)[c], ((0..m - 1) \ Slots(w)) \ {c})
    BY <2>5
  <2> QED BY <2>1, <2>3
<1>5. prev # c /\ next # c
  <2>1. k - 1 \in Int
    OBVIOUS
  <2>2. (prev # -1 => prev \in Slots(w)) /\ (next # -1 => next \in Slots(w))
    BY <2>1, <1>1, PlaceIn
  <2> QED BY <2>2, <1>4
<1>6. /\ q \in [0..m - 1 -> Cell(m)]
      /\ \A h \in 0..m - 1 : /\ q[h].val = IF h = c THEN v ELSE r[h].val
                             /\ q[h].next = IF h = c THEN next ELSE IF h = prev THEN c ELSE r[h].next
                             /\ q[h].prev = IF h = c THEN prev ELSE IF h = next THEN c ELSE r[h].prev
  BY DEF Spliced
<1>7. /\ Apart(z) /\ Slots(z) = Slots(w) \cup {c} /\ \A j \in Int : Place(w, j) = Place(z, Up(k, j))
  BY <1>1, <1>4, MoreIs
<1>8. \A i \in 1..n, j \in Int : w[i].at \in 0..m - 1 /\ (w[i].at = Place(w, j) <=> i = j)
  <2> TAKE i \in 1..n, j \in Int
  <2>1. i \in 1..Len(w)
    BY <1>2
  <2> QED BY <2>1, <1>1, PlaceOf
<1>9. \A i \in 1..n : r[w[i].at].val = w[i].val /\ r[w[i].at].next = Place(w, i + 1) /\ r[w[i].at].prev = Place(w, i - 1)
  BY <1>1, <1>2 DEF Linked
<1>10. Place(z, k) = c
  BY DEF Place
<1>11. ASSUME NEW j \in 1..n + 1
       PROVE  q[z[j].at].val = z[j].val /\ q[z[j].at].next = Place(z, j + 1) /\ q[z[j].at].prev = Place(z, j - 1)
  <2>1. CASE j = k
    <3>1. next = Place(z, k + 1) /\ prev = Place(z, k - 1)
      BY <1>3, <1>7 DEF Up
    <3>2. q[c].val = v /\ q[c].next = next /\ q[c].prev = prev
      BY <1>6
    <3> QED BY <2>1, <3>1, <3>2
  <2>2. CASE j # k
    <3>1. PICK i \in 1..n : j = Up(k, i)
      <4>1. k \in 1..n + 1
        BY <1>3
      <4>2. \A h \in 1..n + 1 : h # k => \E g \in 1..n : h = Up(k, g)
        <5>1. UpMeets(n, k)
          BY <4>1, UpIs
        <5> QED BY <5>1, Zenon DEF UpMeets
      <4> QED BY <2>2, <4>2
    <3>2. z[j] = w[i] /\ w[i].at # c /\ w[i].at \in 0..m - 1
      BY <3>1, <1>2, <1>3, <1>4, <1>8 DEF Slots
    <3> DEFINE x == w[i].at
    <3>3. (x = prev <=> i = k - 1) /\ (x = next <=> i = k)
      BY <1>3, <1>8
    <3>4. q[x].val = w[i].val /\ q[x].next = (IF x = prev THEN c ELSE Place(w, i + 1)) /\ q[x].prev = IF x = next THEN c ELSE Place(w, i - 1)
      BY <3>2, <1>6, <1>9
    <3>5. z[j].at = x /\ z[j].val = w[i].val
      BY <3>2
    <3> HIDE DEF x
    <3>6. q[x].next = Place(z, j + 1)
      <4>1. CASE i = k - 1
        <5>1. j + 1 = k
          BY <4>1, <3>1, <1>3 DEF Up
        <5> QED BY <5>1, <4>1, <3>3, <3>4, <1>10
      <4>2. CASE i # k - 1
        <5>1. Up(k, i + 1) = j + 1 /\ i + 1 \in Int
          BY <4>2, <3>1 DEF Up
        <5>2. Place(w, i + 1) = Place(z, j + 1)
          BY <5>1, <1>7
        <5> QED BY <5>2, <4>2, <3>3, <3>4
      <4> QED BY <4>1, <4>2
    <3>7. q[x].prev = Place(z, j - 1)
      <4>1. CASE i = k
        <5>1. j - 1 = k
          BY <4>1, <3>1, <1>3 DEF Up
        <5> QED BY <5>1, <4>1, <3>3, <3>4, <1>10
      <4>2. CASE i # k
        <5>1. Up(k, i - 1) = j - 1 /\ i - 1 \in Int
          BY <4>2, <3>1 DEF Up
        <5>2. Place(w, i - 1) = Place(z, j - 1)
          BY <5>1, <1>7
        <5> QED BY <5>2, <4>2, <3>3, <3>4
      <4> QED BY <4>1, <4>2
    <3> QED BY <3>4, <3>5, <3>6, <3>7
  <2> QED BY <2>1, <2>2
<1>12. Linked(q, z)
  BY <1>3, <1>11 DEF Linked
<1>13. (IF prev = -1 THEN c ELSE first) = Place(z, 1)
  <2>1. CASE k = 1
    <3>1. prev = -1
      BY <2>1, <1>2 DEF Place
    <3> QED BY <2>1, <3>1, <1>10
  <2>2. CASE k # 1
    <3>1. k - 1 \in 1..n /\ Up(k, 1) = 1
      BY <2>2, <1>3 DEF Up
    <3>2. prev # -1
      <4>1. w[k - 1].at \in 0..m - 1 /\ w[k - 1].at = prev
        BY <3>1, <1>8
      <4> QED BY <4>1
    <3> QED BY <3>1, <3>2, <1>1, <1>7
  <2> QED BY <2>1, <2>2
<1>14. (IF next = -1 THEN c ELSE last) = Place(z, Len(z))
  <2>1. CASE k = n + 1
    <3>1. next = -1
      BY <2>1, <1>2 DEF Place
    <3> QED BY <2>1, <3>1, <1>3, <1>10
  <2>2. CASE k # n + 1
    <3>1. k \in 1..n /\ Up(k, n) = n + 1
      BY <2>2, <1>3 DEF Up
    <3>2. next # -1
      BY <3>1, <1>8
    <3> QED BY <3>1, <3>2, <1>1, <1>2, <1>3, <1>7
  <2> QED BY <2>1, <2>2
<1>15. ListOf(0..m - 1, -1, Nexts(q), r[c].next, (0..m - 1) \ Slots(z))
  <2>1. ((0..m - 1) \ Slots(w)) \ {c} = (0..m - 1) \ Slots(z)
    BY <1>7
  <2>2. prev # -1 => prev \in Slots(w)
    <3>1. k - 1 \in Int
      OBVIOUS
    <3> QED BY <3>1, <1>1, PlaceIn
  <2>3. \A b \in (0..m - 1) \ Slots(z) : Nexts(q)[b] = Nexts(r)[b]
    <3> TAKE b \in (0..m - 1) \ Slots(z)
    <3>1. b # c /\ b # prev
      BY <2>2, <1>7
    <3>2. q[b].next = r[b].next
      BY <3>1, <1>6
    <3> QED BY <3>2, <1>1, <1>6 DEF Nexts
  <2>4. ListOf(0..m - 1, -1, Nexts(r), r[c].next, (0..m - 1) \ Slots(z))
    BY <2>1, <1>4
  <2> QED BY <2>3, <2>4, SameLinks, Zenon
<1> QED BY <1>6, <1>7, <1>12, <1>13, <1>14, <1>15 DEF Holds

\* Cell c has been taken out from between two others and freed.
Unspliced(m, q, r, c, prev, next, free) ==
  /\ q \in [0..m - 1 -> Cell(m)]
  /\ \A h \in 0..m - 1 : /\ q[h].val = r[h].val
                         /\ q[h].next = IF h = c THEN free ELSE IF h = prev THEN next ELSE r[h].next
                         /\ q[h].prev = IF h = next THEN prev ELSE r[h].prev

LEMMA NextSetToo ==
  ASSUME NEW m \in Nat, NEW r \in [0..m - 1 -> Cell(m)], NEW i \in 0..m - 1, NEW x \in -1..m - 1,
         NEW q, q = [r EXCEPT ![i].next = x]
  PROVE  Relinked(m, q, r, i, x, -1, -1)
<1>1. \A h \in 0..m - 1 : r[h] \in Cell(m)
  OBVIOUS
<1>2. q \in [0..m - 1 -> Cell(m)]
  BY <1>1 DEF Cell
<1>3. \A h \in 0..m - 1 : q[h] = IF h = i THEN [r[h] EXCEPT !.next = x] ELSE r[h]
  OBVIOUS
<1>4. ASSUME NEW h \in 0..m - 1
      PROVE  q[h].val = r[h].val /\ q[h].next = (IF h = i THEN x ELSE r[h].next) /\ q[h].prev = IF h = -1 THEN -1 ELSE r[h].prev
  <2>1. r[h] \in Cell(m) /\ h # -1
    BY <1>1
  <2>2. q[h] = IF h = i THEN [r[h] EXCEPT !.next = x] ELSE r[h]
    BY <1>3
  <2> QED BY <2>1, <2>2 DEF Cell
<1> QED BY <1>2, <1>4 DEF Relinked

LEMMA UnlinkUnsplices ==
  ASSUME NEW m \in Nat, NEW r \in [0..m - 1 -> Cell(m)], NEW c \in 0..m - 1,
         NEW prev \in -1..m - 1, NEW next \in -1..m - 1, NEW free \in -1..m - 1, prev # c, next # c, NEW q,
         q = [List!SetNext(List!SetPrev(r, next, prev), prev, next) EXCEPT ![c].next = free]
  PROVE  Unspliced(m, q, r, c, prev, next, free)
<1>1. PICK q1 : q1 = List!SetNext(List!SetPrev(r, next, prev), prev, next)
  OBVIOUS
<1>2. Relinked(m, q1, r, prev, next, next, prev)
  BY <1>1, BothSet
<1>3. q = [q1 EXCEPT ![c].next = free] /\ q1 \in [0..m - 1 -> Cell(m)]
  BY <1>1, <1>2 DEF Relinked
<1>4. Relinked(m, q, q1, c, free, -1, -1)
  BY <1>3, NextSetToo
<1> QED BY <1>2, <1>4 DEF Relinked, Unspliced

LEMMA FreeIsCell == ASSUME NEW m \in Nat, NEW links, NEW free, NEW F, ListOf(0..m - 1, -1, links, free, F)
                    PROVE  free \in -1..m - 1
<1>1. free # -1 => free \in 0..m - 1
  BY Popped
<1> QED BY <1>1

\* z and q are w and r without the k-th entry.
Without(m, r, w, k, c, prev, next, free, q, z) ==
  /\ k \in 1..Len(w) /\ c = w[k].at /\ prev = Place(w, k - 1) /\ next = Place(w, k + 1)
  /\ Unspliced(m, q, r, c, prev, next, free) /\ z \in Seq(Entry(m)) /\ OneMore(z, w, k)

LEMMA EntryUnlinked ==
  ASSUME NEW m \in Nat, NEW r, NEW w, NEW first, NEW last, NEW free, Holds(m, r, w, first, last, free),
         NEW k, NEW c, NEW prev, NEW next, NEW q, NEW z, Without(m, r, w, k, c, prev, next, free, q, z),
         NEW head, head = IF prev = -1 THEN next ELSE first,
         NEW tail, tail = IF next = -1 THEN prev ELSE last
  PROVE  Holds(m, q, z, head, tail, c)
<1>0. /\ k \in 1..Len(w) /\ c = w[k].at /\ prev = Place(w, k - 1) /\ next = Place(w, k + 1)
      /\ Unspliced(m, q, r, c, prev, next, free) /\ z \in Seq(Entry(m)) /\ OneMore(z, w, k)
  BY DEF Without
<1>1. /\ r \in [0..m - 1 -> Cell(m)] /\ w \in Seq(Entry(m)) /\ Apart(w) /\ Linked(r, w)
      /\ first = Place(w, 1) /\ last = Place(w, Len(w))
      /\ ListOf(0..m - 1, -1, Nexts(r), free, (0..m - 1) \ Slots(w))
  BY DEF Holds
<1>2. PICK n \in Nat : Len(z) = n
  BY <1>0
<1>3. Len(w) = n + 1 /\ k \in 1..n + 1 /\ k \in Int /\ \A i \in 1..n : w[Up(k, i)] = z[i]
  BY <1>0, <1>1, <1>2 DEF OneMore
<1>4. \A i \in 1..n + 1, j \in Int : w[i].at \in 0..m - 1 /\ (w[i].at = Place(w, j) <=> i = j)
  <2> TAKE i \in 1..n + 1, j \in Int
  <2>1. i \in 1..Len(w)
    BY <1>3
  <2> QED BY <2>1, <1>1, PlaceOf
<1>5. c \in 0..m - 1 /\ prev # c /\ next # c
  <2>1. k - 1 \in Int /\ k + 1 \in Int /\ k - 1 # k /\ k + 1 # k
    BY <1>3
  <2> QED BY <2>1, <1>0, <1>3, <1>4
<1>6. /\ q \in [0..m - 1 -> Cell(m)]
      /\ \A h \in 0..m - 1 : /\ q[h].val = r[h].val
                             /\ q[h].next = IF h = c THEN free ELSE IF h = prev THEN next ELSE r[h].next
                             /\ q[h].prev = IF h = next THEN prev ELSE r[h].prev
  BY <1>0 DEF Unspliced
<1>7. /\ Apart(z) /\ c \notin Slots(z) /\ Slots(w) = Slots(z) \cup {c}
      /\ \A j \in Int : Place(z, j) = Place(w, Up(k, j))
  BY <1>0, <1>1, MoreIs
<1>8. \A i \in 1..n + 1 : r[w[i].at].val = w[i].val /\ r[w[i].at].next = Place(w, i + 1) /\ r[w[i].at].prev = Place(w, i - 1)
  BY <1>1, <1>3 DEF Linked
<1>9. ASSUME NEW j \in 1..n
      PROVE  q[z[j].at].val = z[j].val /\ q[z[j].at].next = Place(z, j + 1) /\ q[z[j].at].prev = Place(z, j - 1)
  <2>0. k \in Int
    BY <1>3
  <2>1. PICK i \in 1..n + 1 : i = Up(k, j)
    BY <1>3 DEF Up
  <2>2. i # k /\ z[j] = w[i]
    BY <2>1, <1>3 DEF Up
  <2> DEFINE x == w[i].at
  <2>3. x # c /\ x \in 0..m - 1
    <3>1. w[k].at = Place(w, k)
      BY <1>3, <1>4
    <3> QED BY <3>1, <2>2, <1>0, <1>3, <1>4
  <2>4. (x = prev <=> i = k - 1) /\ (x = next <=> i = k + 1)
    BY <1>0, <1>3, <1>4
  <2>5. q[x].val = w[i].val /\ q[x].next = (IF x = prev THEN next ELSE Place(w, i + 1)) /\ q[x].prev = IF x = next THEN prev ELSE Place(w, i - 1)
    BY <2>3, <1>6, <1>8
  <2>6. z[j].at = x /\ z[j].val = w[i].val
    BY <2>2
  <2> HIDE DEF x
  <2>7. q[x].next = Place(z, j + 1)
    <3>1. Place(z, j + 1) = Place(w, Up(k, j + 1)) /\ j + 1 \in Int
      BY <1>7
    <3>2. CASE i = k - 1
      <4>1. Up(k, j + 1) = k + 1
        BY <3>2, <2>1, <2>0 DEF Up
      <4> QED BY <4>1, <3>1, <3>2, <2>4, <2>5, <1>0
    <3>3. CASE i # k - 1
      <4>1. Up(k, j + 1) = i + 1
        BY <3>3, <2>1, <2>0 DEF Up
      <4> QED BY <4>1, <3>1, <3>3, <2>4, <2>5
    <3> QED BY <3>2, <3>3
  <2>8. q[x].prev = Place(z, j - 1)
    <3>1. Place(z, j - 1) = Place(w, Up(k, j - 1)) /\ j - 1 \in Int
      BY <1>7
    <3>2. CASE i = k + 1
      <4>1. Up(k, j - 1) = k - 1
        BY <3>2, <2>1, <2>0 DEF Up
      <4> QED BY <4>1, <3>1, <3>2, <2>4, <2>5, <1>0
    <3>3. CASE i # k + 1
      <4>1. Up(k, j - 1) = i - 1
        BY <3>3, <2>1, <2>0 DEF Up
      <4> QED BY <4>1, <3>1, <3>3, <2>4, <2>5
    <3> QED BY <3>2, <3>3
  <2> QED BY <2>5, <2>6, <2>7, <2>8
<1>10. Linked(q, z)
  BY <1>2, <1>9 DEF Linked
<1>11. head = Place(z, 1)
  <2>1. Place(z, 1) = Place(w, Up(k, 1))
    BY <1>7
  <2>2. CASE k = 1
    <3>1. prev = -1 /\ Up(k, 1) = k + 1
      BY <2>2, <1>0, <1>3 DEF Place, Up
    <3> QED BY <3>1, <2>1, <1>0
  <2>3. CASE k # 1
    <3>1. k - 1 \in 1..n + 1 /\ Up(k, 1) = 1 /\ k - 1 \in Int
      BY <2>3, <1>3 DEF Up
    <3>2. w[k - 1].at \in 0..m - 1 /\ w[k - 1].at = prev
      BY <3>1, <1>0, <1>4
    <3> QED BY <3>1, <3>2, <2>1, <1>1
  <2> QED BY <2>2, <2>3
<1>12. tail = Place(z, Len(z))
  <2>1. Place(z, n) = Place(w, Up(k, n))
    BY <1>7
  <2>2. CASE k = n + 1
    <3>1. next = -1 /\ Up(k, n) = k - 1
      BY <2>2, <1>0, <1>3 DEF Place, Up
    <3> QED BY <3>1, <2>1, <1>0, <1>2
  <2>3. CASE k # n + 1
    <3>1. k + 1 \in 1..n + 1 /\ Up(k, n) = n + 1 /\ k + 1 \in Int
      BY <2>3, <1>3 DEF Up
    <3>2. w[k + 1].at \in 0..m - 1 /\ w[k + 1].at = next
      BY <3>1, <1>0, <1>4
    <3> QED BY <3>1, <3>2, <2>1, <1>1, <1>2, <1>3
  <2> QED BY <2>2, <2>3
<1>13. ListOf(0..m - 1, -1, Nexts(q), c, (0..m - 1) \ Slots(z))
  <2> DEFINE F == (0..m - 1) \ Slots(w)
  <2>1. F \cup {c} = (0..m - 1) \ Slots(z) /\ c \notin F
    BY <1>5, <1>7
  <2>2. prev # -1 => prev \in Slots(w)
    <3>1. k - 1 \in Int
      BY <1>3
    <3> QED BY <3>1, <1>0, <1>1, PlaceIn
  <2>3. \A b \in F : Nexts(q)[b] = Nexts(r)[b]
    <3> TAKE b \in F
    <3>1. b # c /\ b # prev
      BY <2>2, <1>7
    <3>2. q[b].next = r[b].next
      BY <3>1, <1>6
    <3> QED BY <3>2, <1>1, <1>6 DEF Nexts
  <2>4. ListOf(0..m - 1, -1, Nexts(q), free, F)
    BY <2>3, <1>1, SameLinks, Zenon
  <2>5. Nexts(q)[c] = free
    BY <1>5, <1>6 DEF Nexts
  <2> HIDE DEF F
  <2>6. ListOf(0..m - 1, -1, Nexts(q), c, F \cup {c})
    BY <2>1, <2>4, <2>5, <1>5, PushedOne, Zenon
  <2> QED BY <2>1, <2>6
<1> QED BY <1>0, <1>1, <1>6, <1>7, <1>10, <1>11, <1>12, <1>13 DEF Holds

-----------------------------------------------------------------------------
(* New slots, and slots all free again.                                    *)

\* Slots lo .. hi - 1 in front of a list.
LEMMA RangeFirst ==
  ASSUME NEW lo \in Nat, NEW hi \in Nat, lo < hi, NEW links, NEW free, NEW F,
         ListOf(0..hi - 1, -1, links, free, F), \A b \in F : b < lo,
         \A i \in lo..hi - 1 : links[i] = IF i = hi - 1 THEN free ELSE i + 1
  PROVE  ListOf(0..hi - 1, -1, links, lo, F \cup (lo..hi - 1))
<1>1. PICK n \in Nat : \E s \in [1..n -> 0..hi - 1] : IsList(-1, links, free, s, n) /\ F = {s[i] : i \in 1..n}
  BY TheList
<1>2. PICK s \in [1..n -> 0..hi - 1] : IsList(-1, links, free, s, n) /\ F = {s[i] : i \in 1..n}
  BY <1>1
<1> DEFINE d == hi - lo
           u == [i \in 1..d + n |-> IF i <= d THEN lo + i - 1 ELSE s[i - d]]
<1>3. d \in Nat /\ d > 0 /\ d + n \in Nat /\ lo + d = hi
  OBVIOUS
<1>4. \A i \in 1..n : s[i] \in 0..hi - 1 /\ s[i] \in F /\ s[i] < lo
  BY <1>2
<1>5. /\ \A i, j \in 1..n : s[i] = s[j] => i = j
      /\ free = IF n = 0 THEN -1 ELSE s[1]
      /\ \A i \in 1..n : links[s[i]] = IF i = n THEN -1 ELSE s[i + 1]
  BY <1>2 DEF IsList
<1>6. /\ \A i \in 1..d : u[i] = lo + i - 1 /\ u[i] \in lo..hi - 1
      /\ \A i \in 1..n : u[d + i] = s[i]
      /\ \A i \in 1..d + n : i <= d \/ \E j \in 1..n : i = d + j
  <2>1. \A i \in 1..d + n : i > d => i - d \in 1..n /\ i = d + (i - d)
    OBVIOUS
  <2>2. \A i \in 1..d : i \in 1..d + n /\ i <= d /\ lo + i - 1 \in lo..hi - 1
    BY <1>3
  <2>3. \A i \in 1..n : d + i \in 1..d + n /\ ~(d + i <= d) /\ (d + i) - d = i
    BY <1>3
  <2> QED BY <2>1, <2>2, <2>3, <1>3
<1>7. u \in [1..d + n -> 0..hi - 1]
  <2>1. ASSUME NEW i \in 1..d + n PROVE u[i] \in 0..hi - 1
    <3>1. CASE i <= d
      BY <3>1, <1>6
    <3>2. CASE \E j \in 1..n : i = d + j
      BY <3>2, <1>4, <1>6
    <3> QED BY <3>1, <3>2, <1>6
  <2> QED BY <2>1
<1> HIDE DEF u
<1>8. ASSUME NEW i \in 1..d + n, NEW j \in 1..d + n, u[i] = u[j] PROVE i = j
  <2>1. CASE i <= d /\ j <= d
    BY <2>1, <1>3, <1>6, <1>8
  <2>2. CASE i <= d /\ ~(j <= d)
    <3>1. PICK b \in 1..n : j = d + b
      BY <2>2, <1>6
    <3>2. u[j] < lo
      BY <3>1, <1>4, <1>6
    <3>3. u[i] \in lo..hi - 1
      BY <2>2, <1>3, <1>6
    <3> QED BY <3>2, <3>3, <1>8
  <2>3. CASE ~(i <= d) /\ j <= d
    <3>1. PICK a \in 1..n : i = d + a
      BY <2>3, <1>6
    <3>2. u[i] < lo
      BY <3>1, <1>4, <1>6
    <3>3. u[j] \in lo..hi - 1
      BY <2>3, <1>3, <1>6
    <3> QED BY <3>2, <3>3, <1>8
  <2>4. CASE ~(i <= d) /\ ~(j <= d)
    <3>1. PICK a \in 1..n : i = d + a
      BY <2>4, <1>6
    <3>2. PICK b \in 1..n : j = d + b
      BY <2>4, <1>6
    <3>3. s[a] = s[b]
      BY <3>1, <3>2, <1>6, <1>8
    <3> QED BY <3>1, <3>2, <3>3, <1>5
  <2> QED BY <2>1, <2>2, <2>3, <2>4
<1>9. ASSUME NEW i \in 1..d + n PROVE links[u[i]] = IF i = d + n THEN -1 ELSE u[i + 1]
  <2>1. CASE i < d
    <3>1. i + 1 \in 1..d /\ i \in 1..d /\ i # d + n
      BY <2>1, <1>3
    <3>2. u[i] = lo + i - 1 /\ u[i + 1] = lo + i /\ lo + i - 1 \in lo..hi - 1 /\ lo + i - 1 # hi - 1
      BY <3>1, <2>1, <1>3, <1>6
    <3> QED BY <3>1, <3>2
  <2>2. CASE i = d
    <3>1. u[i] = hi - 1 /\ hi - 1 \in lo..hi - 1
      BY <2>2, <1>3, <1>6
    <3>2. links[hi - 1] = free
      BY <3>1
    <3>3. CASE n = 0
      BY <2>2, <3>1, <3>2, <3>3, <1>5
    <3>4. CASE n # 0
      <4>1. u[d + 1] = s[1] /\ i # d + n
        BY <2>2, <3>4, <1>3, <1>6
      <4> QED BY <2>2, <3>1, <3>2, <3>4, <4>1, <1>5
    <3> QED BY <3>3, <3>4
  <2>3. CASE i > d
    <3>1. PICK j \in 1..n : i = d + j
      BY <2>3, <1>3, <1>6
    <3>2. u[i] = s[j] /\ links[s[j]] = IF j = n THEN -1 ELSE s[j + 1]
      BY <3>1, <1>5, <1>6
    <3>3. i = d + n <=> j = n
      BY <3>1, <1>3
    <3>4. j # n => u[i + 1] = s[j + 1]
      <4> SUFFICES ASSUME j # n PROVE u[i + 1] = s[j + 1]
        OBVIOUS
      <4>1. j + 1 \in 1..n /\ i + 1 = d + (j + 1)
        BY <3>1, <1>3
      <4>2. u[d + (j + 1)] = s[j + 1]
        BY <4>1, <1>6
      <4> QED BY <4>1, <4>2
    <3> QED BY <3>2, <3>3, <3>4
  <2>4. i < d \/ i = d \/ i > d
    BY <1>3
  <2> QED BY <2>1, <2>2, <2>3, <2>4
<1>10. lo = u[1] /\ d + n # 0
  BY <1>3, <1>6
<1>11. F \cup (lo..hi - 1) = {u[i] : i \in 1..d + n}
  <2>1. ASSUME NEW b \in F PROVE \E i \in 1..d + n : b = u[i]
    <3>1. PICK j \in 1..n : b = s[j]
      BY <1>2
    <3>2. d + j \in 1..d + n
      BY <1>3
    <3> QED BY <3>1, <3>2, <1>6
  <2>2. ASSUME NEW b \in lo..hi - 1 PROVE \E i \in 1..d + n : b = u[i]
    <3>1. b - lo + 1 \in 1..d /\ b - lo + 1 \in 1..d + n /\ lo + (b - lo + 1) - 1 = b
      BY <1>3
    <3> QED BY <3>1, <1>6
  <2>3. ASSUME NEW i \in 1..d + n PROVE u[i] \in F \cup (lo..hi - 1)
    <3>1. CASE i <= d
      BY <3>1, <1>3, <1>6
    <3>2. CASE \E j \in 1..n : i = d + j
      BY <3>2, <1>4, <1>6
    <3> QED BY <3>1, <3>2, <1>6
  <2> QED BY <2>1, <2>2, <2>3
<1>12. IsList(-1, links, lo, u, d + n)
  BY <1>8, <1>9, <1>10 DEF IsList
<1> QED BY <1>3, <1>7, <1>11, <1>12 DEF ListOf

LEMMA WiderList == ASSUME NEW B, NEW C, B \subseteq C, NEW links, NEW free, NEW F, ListOf(B, -1, links, free, F)
                   PROVE  ListOf(C, -1, links, free, F)
<1>1. PICK n \in Nat : \E s \in [1..n -> B] : IsList(-1, links, free, s, n) /\ F = {s[i] : i \in 1..n}
  BY TheList
<1>2. PICK s \in [1..n -> B] : IsList(-1, links, free, s, n) /\ F = {s[i] : i \in 1..n}
  BY <1>1
<1>3. s \in [1..n -> C]
  OBVIOUS
<1> QED BY <1>2, <1>3 DEF ListOf

LEMMA GrownHolds ==
  ASSUME NEW m \in Nat, NEW r, NEW w, NEW first, NEW last, NEW free, Holds(m, r, w, first, last, free),
         NEW size \in Nat, m < size, NEW g, g = List!Grown(r, free, size)
  PROVE  Holds(size, g, w, first, last, m)
<1>1. /\ r \in [0..m - 1 -> Cell(m)] /\ w \in Seq(Entry(m)) /\ Apart(w) /\ Linked(r, w)
      /\ first = Place(w, 1) /\ last = Place(w, Len(w))
      /\ ListOf(0..m - 1, -1, Nexts(r), free, (0..m - 1) \ Slots(w))
  BY DEF Holds
<1>2. DOMAIN r = 0..m - 1 /\ \A i \in 0..m - 1 : i \in 0..size - 1 /\ r[i] \in Cell(m)
  BY <1>1
<1>3. free \in -1..m - 1
  BY <1>1, FreeIsCell
<1>4. \A i \in 0..size - 1 :
        g[i] = IF i \in 0..m - 1 THEN r[i] ELSE [val |-> Null, prev |-> -1, next |-> IF i = size - 1 THEN free ELSE i + 1]
  BY <1>2 DEF List!Grown, List!None
<1>5. \A c \in Cell(m) : c \in Cell(size)
  BY DEF Cell
<1>6. g \in [0..size - 1 -> Cell(size)]
  <2>1. g = [i \in 0..size - 1 |-> g[i]]
    BY DEF List!Grown
  <2>2. ASSUME NEW i \in 0..size - 1 PROVE g[i] \in Cell(size)
    <3>1. CASE i \in 0..m - 1
      BY <3>1, <1>2, <1>4, <1>5
    <3>2. CASE i \notin 0..m - 1
      <4>1. (IF i = size - 1 THEN free ELSE i + 1) \in -1..size - 1
        BY <1>3
      <4>2. -1 \in -1..size - 1
        OBVIOUS
      <4>3. PICK x \in -1..size - 1 : x = IF i = size - 1 THEN free ELSE i + 1
        BY <4>1
      <4>4. g[i] = [val |-> Null, prev |-> -1, next |-> x]
        BY <3>2, <4>3, <1>4
      <4> QED BY <4>2, <4>4 DEF Cell
    <3> QED BY <3>1, <3>2
  <2> QED BY <2>1, <2>2
<1>7. w \in Seq(Entry(size))
  <2>1. \A e \in Entry(m) : e \in Entry(size)
    BY DEF Entry
  <2>2. Len(w) \in Nat /\ w = [i \in 1..Len(w) |-> w[i]] /\ \A i \in 1..Len(w) : w[i] \in Entry(m)
    BY <1>1
  <2> QED BY <2>1, <2>2
<1>8. Linked(g, w)
  <2> SUFFICES ASSUME NEW k \in 1..Len(w) PROVE g[w[k].at] = r[w[k].at]
    BY <1>1 DEF Linked
  <2>1. w[k].at \in 0..m - 1
    <3>1. w[k] \in Entry(m)
      BY <1>1, ElementOfSeq
    <3> QED BY <3>1 DEF Entry
  <2> QED BY <2>1, <1>2, <1>4
<1>9. \A s \in Slots(w) : s \in 0..m - 1
  <2> SUFFICES ASSUME NEW k \in 1..Len(w) PROVE w[k].at \in 0..m - 1
    BY DEF Slots
  <2>1. w[k] \in Entry(m)
    BY <1>1, ElementOfSeq
  <2> QED BY <2>1 DEF Entry
<1>10. ListOf(0..size - 1, -1, Nexts(g), m, (0..size - 1) \ Slots(w))
  <2> DEFINE F == (0..m - 1) \ Slots(w)
  <2>1. ListOf(0..m - 1, -1, Nexts(g), free, F)
    <3>1. \A b \in F : Nexts(g)[b] = Nexts(r)[b]
      <4> TAKE b \in F
      <4>1. b \in 0..m - 1 /\ b \in 0..size - 1
        BY <1>2
      <4> QED BY <4>1, <1>2, <1>4, <1>6 DEF Nexts
    <3> QED BY <3>1, <1>1, SameLinks, Zenon
  <2>2. ListOf(0..size - 1, -1, Nexts(g), free, F)
    <3>1. 0..m - 1 \subseteq 0..size - 1
      BY <1>2
    <3> QED BY <2>1, <3>1, WiderList, Zenon
  <2>3. \A b \in F : b < m
    OBVIOUS
  <2>4. \A i \in m..size - 1 : Nexts(g)[i] = IF i = size - 1 THEN free ELSE i + 1
    <3> TAKE i \in m..size - 1
    <3>1. i \in 0..size - 1 /\ i \notin 0..m - 1
      OBVIOUS
    <3>2. g[i] = [val |-> Null, prev |-> -1, next |-> IF i = size - 1 THEN free ELSE i + 1]
      BY <3>1, <1>4
    <3> QED BY <3>1, <3>2, <1>6 DEF Nexts
  <2>5. F \cup (m..size - 1) = (0..size - 1) \ Slots(w)
    <3>1. \A i \in Int : i \in 0..size - 1 <=> i \in 0..m - 1 \/ i \in m..size - 1
      OBVIOUS
    <3>2. \A i \in m..size - 1 : i \notin 0..m - 1
      OBVIOUS
    <3> QED BY <3>1, <3>2, <1>9
  <2> HIDE DEF F
  <2>6. ListOf(0..size - 1, -1, Nexts(g), m, F \cup (m..size - 1))
    BY <2>2, <2>3, <2>4, RangeFirst
  <2> QED BY <2>5, <2>6
<1> QED BY <1>1, <1>6, <1>7, <1>8, <1>10 DEF Holds

-----------------------------------------------------------------------------
(* The operations of LinkedArray.                                          *)

LEMMA ListStarts == ASSUME List!Init PROVE ListIs(1)
<1>1. /\ ref = List!Grown(<<>>, -1, 1) /\ freelist = 0 /\ start = -1 /\ end = -1
      /\ length = 0 /\ want = <<>> /\ right = TRUE
  BY DEF List!Init, List!None
<1> DEFINE r == [i \in 0..-1 |-> 0]
<1>2. Holds(0, r, <<>>, -1, -1, -1)
  <2>1. r \in [0..0 - 1 -> Cell(0)]
    OBVIOUS
  <2>2. <<>> \in Seq(Entry(0)) /\ Len(<<>>) = 0
    OBVIOUS
  <2>3. Slots(<<>>) = {} /\ Apart(<<>>) /\ Linked(r, <<>>) /\ Place(<<>>, 1) = -1 /\ Place(<<>>, Len(<<>>)) = -1
    BY <2>2 DEF Slots, Apart, Linked, Place
  <2>4. (0..0 - 1) \ Slots(<<>>) = {}
    BY <2>3
  <2>5. ListOf(0..0 - 1, -1, Nexts(r), -1, (0..0 - 1) \ Slots(<<>>))
    BY <2>4, EmptyList
  <2> QED BY <2>1, <2>2, <2>3, <2>5 DEF Holds
<1>3. List!Grown(<<>>, -1, 1) = List!Grown(r, -1, 1)
  <2>1. DOMAIN <<>> = {} /\ DOMAIN r = {}
    OBVIOUS
  <2> HIDE DEF r
  <2> QED BY <2>1 DEF List!Grown
<1> HIDE DEF r
<1>4. Holds(1, ref, <<>>, -1, -1, 0)
  BY <1>1, <1>2, <1>3, GrownHolds
<1>5. 1 \in 1..MaxCapacity
  BY ListAssumption DEF List!Assumptions
<1> QED BY <1>1, <1>4, <1>5 DEF ListIs

\* The slot that an insertion takes.
LEMMA PrepHolds ==
  ASSUME NEW n \in Nat, ListIs(n), List!Room, NEW p, p = List!InsertPrep
  PROVE  \E m \in 1..MaxCapacity : Holds(m, p.ref, want, start, end, p.cur) /\ p.cur \in (0..m - 1) \ Slots(want)
<1>1. n \in 1..MaxCapacity /\ Holds(n, ref, want, start, end, freelist) /\ List!Capacity = n
  BY SlotsCount DEF ListIs
<1>2. \A m \in Nat : \A c : c # -1 /\ ListOf(0..m - 1, -1, Nexts(p.ref), c, (0..m - 1) \ Slots(want))
                        => c \in (0..m - 1) \ Slots(want)
  <2> TAKE m \in Nat
  <2> TAKE c
  <2> HAVE c # -1 /\ ListOf(0..m - 1, -1, Nexts(p.ref), c, (0..m - 1) \ Slots(want))
  <2> DEFINE F == (0..m - 1) \ Slots(want)
  <2>1. c # -1 /\ ListOf(0..m - 1, -1, Nexts(p.ref), c, F)
    OBVIOUS
  <2> HIDE DEF F
  <2>2. c \in F
    BY <2>1, Popped
  <2> QED BY <2>2 DEF F
<1>3. CASE freelist # -1
  <2>1. p.ref = ref /\ p.cur = freelist
    BY <1>3 DEF List!InsertPrep, List!None
  <2>2. freelist \in (0..n - 1) \ Slots(want)
    BY <2>1, <1>1, <1>2, <1>3 DEF Holds
  <2> QED BY <2>1, <2>2, <1>1
<1>4. CASE freelist = -1
  <2> DEFINE size == List!fbnext(n)
  <2>1. size \in Nat /\ n < size /\ size \in 1..MaxCapacity
    BY <1>1, <1>4, ListAssumption DEF List!fbnext, List!Room, List!None, List!Assumptions
  <2>2. p.ref = List!Grown(ref, freelist, size) /\ p.cur = n
    BY <1>1, <1>4 DEF List!InsertPrep, List!None
  <2> HIDE DEF size
  <2>3. Holds(size, p.ref, want, start, end, n)
    BY <2>1, <2>2, <1>1, GrownHolds
  <2>4. n \in (0..size - 1) \ Slots(want)
    BY <2>1, <2>2, <2>3, <1>2 DEF Holds
  <2> QED BY <2>1, <2>2, <2>3, <2>4
<1> QED BY <1>3, <1>4

\* Where an index in use is.
LEMMA PositionOf == ASSUME NEW n \in Nat, ListIs(n), NEW i \in List!Live
                    PROVE  List!Position(i) \in 1..Len(want) /\ want[List!Position(i)].at = i
<1>1. DOMAIN want = 1..Len(want)
  BY DEF ListIs, Holds
<1>2. \E k \in DOMAIN want : want[k].at = i
  BY DEF List!Live
<1> QED BY <1>1, <1>2 DEF List!Position

\* What both kinds of insertion do.
LEMMA LinkKeeps ==
  ASSUME NEW n \in Nat, ListIs(n), NEW m \in 1..MaxCapacity, NEW p,
         Holds(m, p.ref, want, start, end, p.cur), p.cur \in (0..m - 1) \ Slots(want),
         NEW k \in 1..Len(want) + 1, NEW v \in Value, NEW prev, NEW next,
         prev = Place(want, k - 1), next = Place(want, k),
         List!Link(p, v, prev, next),
         want' = List!Seqs!InsertAt(want, k, [at |-> p.cur, val |-> v]),
         right' = (right /\ p.cur \notin List!Live)
  PROVE  ListIs(m)'
<1>1. m \in Nat /\ want \in Seq(Entry(m)) /\ p.ref \in [0..m - 1 -> Cell(m)] /\ Len(want) \in Nat
  BY DEF Holds
<1>2. PICK node : node = [val |-> v, next |-> next, prev |-> prev]
  OBVIOUS
<1>3. prev \in -1..m - 1 /\ next \in -1..m - 1 /\ (prev # -1 => prev \in Slots(want)) /\ (next # -1 => next \in Slots(want))
  <2>1. k - 1 \in Int /\ k \in Int
    BY <1>1
  <2> QED BY <2>1, <1>1, PlaceIn
<1>4. prev # p.cur /\ next # p.cur
  <2>1. p.cur \notin Slots(want) /\ p.cur \in 0..m - 1
    OBVIOUS
  <2>2. p.cur # -1
    BY <2>1, <1>1
  <2>3. (prev # -1 => prev \in Slots(want)) /\ (next # -1 => next \in Slots(want))
    BY <1>3
  <2>4. ASSUME NEW x, x # -1 => x \in Slots(want) PROVE x # p.cur
    BY <2>1, <2>2, <2>4
  <2> QED BY <2>3, <2>4
<1>5. node \in Cell(m) /\ node.val = v /\ node.next = next /\ node.prev = prev
  BY <1>2, <1>3 DEF Cell
<1>6. /\ freelist' = p.ref[p.cur].next
      /\ ref' = List!SetPrev(List!SetNext([p.ref EXCEPT ![p.cur] = node], prev, p.cur), next, p.cur)
      /\ start' = (IF prev = -1 THEN p.cur ELSE start) /\ end' = (IF next = -1 THEN p.cur ELSE end)
      /\ length' = length + 1
  BY <1>2 DEF List!Link, List!None
<1>7. Spliced(m, ref', p.ref, p.cur, v, prev, next)
  BY <1>1, <1>3, <1>4, <1>5, <1>6, LinkSplices
<1>8. PICK e : e = [at |-> p.cur, val |-> v]
  OBVIOUS
<1>9. e \in Entry(m) /\ e.at = p.cur /\ e.val = v
  BY <1>8 DEF Entry
<1>10. want' \in Seq(Entry(m)) /\ k \in 1..Len(want') /\ want'[k] = e /\ OneMore(want, want', k)
  <2>1. PICK z : z = want' /\ z = List!Seqs!InsertAt(want, k, e)
    BY <1>8
  <2>2. z \in Seq(Entry(m)) /\ k \in 1..Len(z) /\ z[k] = e /\ OneMore(want, z, k)
    BY <2>1, <1>1, <1>9, InsertedMore
  <2> QED BY <2>1, <2>2
<1>11. Holds(m, ref', want', start', end', freelist')
  <2>1. k \in Int /\ want'[k].at = p.cur /\ want'[k].val = v
    BY <1>1, <1>9, <1>10
  <2>2. PICK r, c : r = p.ref /\ c = p.cur
    OBVIOUS
  <2>3. PICK q, z : q = ref' /\ z = want'
    OBVIOUS
  <2>4. /\ Holds(m, r, want, start, end, c) /\ c \in 0..m - 1 /\ Spliced(m, q, r, c, v, prev, next)
        /\ z \in Seq(Entry(m)) /\ k \in 1..Len(z) /\ z[k].at = c /\ z[k].val = v /\ OneMore(want, z, k)
    BY <2>1, <2>2, <2>3, <1>7, <1>10
  <2>5. PICK first, last : /\ first = (IF prev = -1 THEN c ELSE start)
                           /\ last = (IF next = -1 THEN c ELSE end)
    OBVIOUS
  <2>6. Holds(m, q, z, first, last, r[c].next)
    BY <2>1, <2>4, <2>5, <1>1, EntryLinked
  <2> QED BY <2>2, <2>3, <2>5, <2>6, <1>6
<1>12. length' = Len(want')
  BY <1>1, <1>6, <1>10 DEF OneMore, ListIs
<1>13. right' = TRUE
  BY SlotsCount DEF ListIs
<1> QED BY <1>11, <1>12, <1>13 DEF ListIs

LEMMA InsertAfterKeeps == ASSUME NEW n \in Nat, ListIs(n), NEW v \in Value, NEW i, List!InsertAfter(v, i)
                          PROVE  ListInv'
<1>1. List!Room /\ i \in List!Live \cup {-1}
  BY DEF List!InsertAfter, List!None
<1>2. PICK p : p = List!InsertPrep
  OBVIOUS
<1>3. PICK prev : prev = IF i = -1 THEN end ELSE i
  OBVIOUS
<1>4. PICK next : next = IF prev = -1 THEN -1 ELSE p.ref[prev].next
  OBVIOUS
<1>5. PICK k : k = IF i = -1 THEN Len(want) + 1 ELSE List!Position(i) + 1
  OBVIOUS
<1>6. /\ List!Link(p, v, prev, next)
      /\ want' = List!Seqs!InsertAt(want, k, [at |-> p.cur, val |-> v])
      /\ right' = (right /\ p.cur \notin List!Live)
  BY <1>2, <1>3, <1>4, <1>5 DEF List!InsertAfter, List!None
<1>7. PICK m \in 1..MaxCapacity : Holds(m, p.ref, want, start, end, p.cur) /\ p.cur \in (0..m - 1) \ Slots(want)
  BY <1>1, <1>2, PrepHolds
<1>8. want \in Seq(Entry(m)) /\ Len(want) \in Nat /\ end = Place(want, Len(want)) /\ Linked(p.ref, want) /\ m \in Nat
  BY <1>7, ListAssumption DEF Holds, List!Assumptions
<1>9. k \in 1..Len(want) + 1 /\ prev = Place(want, k - 1)
  <2>1. CASE i = -1
    BY <2>1, <1>3, <1>5, <1>8
  <2>2. CASE i # -1
    <3>1. List!Position(i) \in 1..Len(want) /\ want[List!Position(i)].at = i
      BY <2>2, <1>1, PositionOf
    <3> QED BY <2>2, <3>1, <1>3, <1>5, <1>8 DEF Place
  <2> QED BY <2>1, <2>2
<1>10. next = Place(want, k)
  <2>1. CASE k - 1 \in 1..Len(want)
    <3>1. want[k - 1].at = prev /\ p.ref[prev].next = Place(want, k - 1 + 1)
      BY <2>1, <1>8, <1>9 DEF Linked, Place
    <3>2. prev # -1
      <4>1. Apart(want) /\ k - 1 \in Int
        BY <2>1, <1>7 DEF Holds
      <4>2. want[k - 1].at \in 0..m - 1
        BY <4>1, <2>1, <1>8, PlaceOf
      <4> QED BY <4>2, <3>1
    <3>3. k - 1 + 1 = k
      BY <1>8, <1>9
    <3> QED BY <3>1, <3>2, <3>3, <1>4
  <2>2. CASE k - 1 \notin 1..Len(want)
    <3>1. prev = -1
      BY <2>2, <1>9 DEF Place
    <3>2. k = 1
      BY <2>2, <1>8, <1>9
    <3>3. i = -1
      <4> SUFFICES ASSUME i # -1 PROVE FALSE
        OBVIOUS
      <4>1. List!Position(i) \in 1..Len(want)
        BY <1>1, PositionOf
      <4> QED BY <4>1, <3>2, <1>5, <1>8
    <3>4. Len(want) = 0
      BY <3>2, <3>3, <1>5, <1>8
    <3> QED BY <3>1, <3>2, <3>4, <1>4 DEF Place
  <2> QED BY <2>1, <2>2
<1>11. ListIs(m)'
  BY <1>6, <1>7, <1>9, <1>10, LinkKeeps
<1> QED BY <1>8, <1>11 DEF ListInv

LEMMA InsertBeforeKeeps == ASSUME NEW n \in Nat, ListIs(n), NEW v \in Value, NEW i, List!InsertBefore(v, i)
                           PROVE  ListInv'
<1>1. List!Room /\ i \in List!Live \cup {-1}
  BY DEF List!InsertBefore, List!None
<1>2. PICK p : p = List!InsertPrep
  OBVIOUS
<1>3. PICK prev : prev = IF i = -1 THEN end ELSE p.ref[i].prev
  OBVIOUS
<1>4. PICK k : k = IF i = -1 THEN Len(want) + 1 ELSE List!Position(i)
  OBVIOUS
<1>5. /\ List!Link(p, v, prev, i)
      /\ want' = List!Seqs!InsertAt(want, k, [at |-> p.cur, val |-> v])
      /\ right' = (right /\ p.cur \notin List!Live)
  BY <1>2, <1>3, <1>4 DEF List!InsertBefore, List!None
<1>6. PICK m \in 1..MaxCapacity : Holds(m, p.ref, want, start, end, p.cur) /\ p.cur \in (0..m - 1) \ Slots(want)
  BY <1>1, <1>2, PrepHolds
<1>7. want \in Seq(Entry(m)) /\ Len(want) \in Nat /\ end = Place(want, Len(want)) /\ Linked(p.ref, want) /\ m \in Nat
  BY <1>6, ListAssumption DEF Holds, List!Assumptions
<1>8. k \in 1..Len(want) + 1 /\ prev = Place(want, k - 1) /\ i = Place(want, k)
  <2>1. CASE i = -1
    <3>1. Len(want) + 1 \notin 1..Len(want) /\ Len(want) + 1 - 1 = Len(want)
      BY <1>7
    <3> QED BY <2>1, <3>1, <1>3, <1>4, <1>7 DEF Place
  <2>2. CASE i # -1
    <3>1. List!Position(i) \in 1..Len(want) /\ want[List!Position(i)].at = i
      BY <2>2, <1>1, PositionOf
    <3>2. p.ref[i].prev = Place(want, List!Position(i) - 1)
      BY <3>1, <1>7 DEF Linked
    <3> QED BY <2>2, <3>1, <3>2, <1>3, <1>4, <1>7 DEF Place
  <2> QED BY <2>1, <2>2
<1>9. ListIs(m)'
  BY <1>5, <1>6, <1>8, LinkKeeps
<1> QED BY <1>7, <1>9 DEF ListInv

LEMMA RemoveKeeps == ASSUME NEW n \in Nat, ListIs(n), NEW i, List!Remove(i)
                     PROVE  ListInv'
<1>1. Holds(n, ref, want, start, end, freelist) /\ length = Len(want) /\ right = TRUE /\ i \in List!Live
  BY DEF ListIs, List!Remove
<1>2. PICK k : k = List!Position(i)
  OBVIOUS
<1>3. PICK prev : prev = ref[i].prev
  OBVIOUS
<1>4. PICK next : next = ref[i].next
  OBVIOUS
<1>5. /\ end' = (IF next = -1 THEN prev ELSE end) /\ start' = (IF prev = -1 THEN next ELSE start)
      /\ ref' = [List!SetNext(List!SetPrev(ref, next, prev), prev, next) EXCEPT ![i].next = freelist]
      /\ freelist' = i /\ length' = length - 1
      /\ right' = (right /\ ref[i].val = want[k].val)
      /\ want' = List!Seqs!RemoveAt(want, k)
  BY <1>2, <1>3, <1>4 DEF List!Remove, List!None
<1>6. k \in 1..Len(want) /\ want[k].at = i
  BY <1>1, <1>2, PositionOf
<1>7. want \in Seq(Entry(n)) /\ Len(want) \in Nat /\ Apart(want) /\ ref \in [0..n - 1 -> Cell(n)] /\ k \in Int
  BY <1>1, <1>6 DEF Holds
<1>8. ref[i].val = want[k].val /\ next = Place(want, k + 1) /\ prev = Place(want, k - 1)
  BY <1>1, <1>3, <1>4, <1>6 DEF Holds, Linked
<1>9. i \in 0..n - 1 /\ prev # i /\ next # i
  <2>1. k - 1 \in Int /\ k + 1 \in Int /\ k - 1 # k /\ k + 1 # k
    BY <1>7
  <2> QED BY <2>1, <1>6, <1>7, <1>8, PlaceOf
<1>10. prev \in -1..n - 1 /\ next \in -1..n - 1 /\ freelist \in -1..n - 1
  <2>1. k - 1 \in Int /\ k + 1 \in Int
    BY <1>7
  <2> QED BY <2>1, <1>1, <1>7, <1>8, PlaceIn, FreeIsCell DEF Holds
<1>11. Unspliced(n, ref', ref, i, prev, next, freelist)
  BY <1>5, <1>7, <1>9, <1>10, UnlinkUnsplices
<1>12. want' \in Seq(Entry(n)) /\ OneMore(want', want, k)
  BY <1>5, <1>6, <1>7, RemovedMore
<1>13. Holds(n, ref', want', start', end', i)
  <2>1. Without(n, ref, want, k, i, prev, next, freelist, ref', want')
    BY <1>6, <1>8, <1>11, <1>12 DEF Without
  <2> QED BY <2>1, <1>1, <1>5, EntryUnlinked
<1>14. length' = Len(want')
  <2>1. Len(want') \in Nat /\ Len(want) = Len(want') + 1
    BY <1>12 DEF OneMore
  <2> QED BY <2>1, <1>1, <1>5
<1>15. n \in 1..MaxCapacity /\ right' = TRUE /\ freelist' = i
  BY <1>1, <1>5, <1>8 DEF ListIs
<1>16. ListIs(n)'
  BY <1>13, <1>14, <1>15 DEF ListIs
<1> QED BY <1>16 DEF ListInv

LEMMA SetCapacityKeeps == ASSUME NEW n \in Nat, ListIs(n), NEW size \in 1..MaxCapacity, List!SetCapacity(size)
                          PROVE  ListInv'
<1>1. List!Capacity = n
  BY SlotsCount
<1>2. /\ size \in Nat /\ n < size /\ ref' = List!Grown(ref, freelist, size) /\ freelist' = n
      /\ start' = start /\ end' = end /\ length' = length /\ want' = want /\ right' = right
  BY <1>1, ListAssumption DEF List!SetCapacity, List!Assumptions
<1>3. Holds(n, ref, want, start, end, freelist) /\ length = Len(want) /\ right = TRUE
  BY DEF ListIs
<1>4. Holds(size, ref', want, start, end, n)
  BY <1>2, <1>3, GrownHolds
<1>5. ListIs(size)'
  BY <1>2, <1>3, <1>4 DEF ListIs
<1> QED BY <1>2, <1>5 DEF ListInv

LEMMA ListClearKeeps == ASSUME NEW n \in Nat, ListIs(n), List!Clear
                        PROVE  ListInv'
<1>1. n \in 1..MaxCapacity /\ ref \in [0..n - 1 -> Cell(n)] /\ right = TRUE /\ List!Capacity = n
  BY SlotsCount DEF ListIs, Holds
<1>2. /\ ref' = [i \in 0..n - 1 |-> [ref[i] EXCEPT !.next = IF i + 1 = n THEN -1 ELSE i + 1]]
      /\ freelist' = 0 /\ start' = -1 /\ end' = -1 /\ length' = 0 /\ want' = <<>> /\ right' = right
  BY <1>1 DEF List!Clear, List!None
<1>3. \A i \in 0..n - 1 : ref'[i] \in Cell(n) /\ ref'[i].next = IF i + 1 = n THEN -1 ELSE i + 1
  <2> TAKE i \in 0..n - 1
  <2>1. PICK x \in -1..n - 1 : x = IF i + 1 = n THEN -1 ELSE i + 1
    OBVIOUS
  <2>2. ref'[i] = [ref[i] EXCEPT !.next = x] /\ ref[i] \in Cell(n)
    BY <2>1, <1>1, <1>2
  <2> QED BY <2>1, <2>2 DEF Cell
<1>4. ref' \in [0..n - 1 -> Cell(n)]
  <2>1. DOMAIN ref' = 0..n - 1 /\ ref' = [i \in 0..n - 1 |-> ref'[i]]
    BY <1>2
  <2> QED BY <2>1, <1>3
<1>5. Slots(<<>>) = {} /\ Apart(<<>>) /\ Linked(ref', <<>>) /\ Place(<<>>, 1) = -1 /\ Place(<<>>, Len(<<>>)) = -1
  <2>1. Len(<<>>) = 0
    OBVIOUS
  <2> QED BY <2>1 DEF Slots, Apart, Linked, Place
<1>6. ListOf(0..n - 1, -1, Nexts(ref'), 0, {} \cup (0..n - 1))
  <2>1. ListOf(0..n - 1, -1, Nexts(ref'), -1, {})
    BY EmptyList
  <2>2. \A i \in 0..n - 1 : Nexts(ref')[i] = IF i = n - 1 THEN -1 ELSE i + 1
    BY <1>3, <1>4 DEF Nexts
  <2>3. 0 \in Nat /\ n \in Nat /\ 0 < n /\ \A b \in {} : b < 0
    BY <1>1
  <2> QED BY <2>1, <2>2, <2>3, RangeFirst
<1>7. {} \cup (0..n - 1) = (0..n - 1) \ Slots(<<>>)
  BY <1>5
<1>8. <<>> \in Seq(Entry(n)) /\ Len(<<>>) = 0
  OBVIOUS
<1>9. Holds(n, ref', <<>>, -1, -1, 0)
  BY <1>4, <1>5, <1>6, <1>7, <1>8 DEF Holds
<1>10. ListIs(n)'
  BY <1>1, <1>2, <1>8, <1>9 DEF ListIs
<1> QED BY <1>10 DEF ListInv

LEMMA ListSteps == ASSUME ListInv, List!Next PROVE ListInv'
<1>1. PICK n \in Nat : ListIs(n)
  BY DEF ListInv
<1>2. ASSUME NEW v \in Value, NEW i, List!InsertAfter(v, i) PROVE ListInv'
  BY <1>1, <1>2, InsertAfterKeeps
<1>3. ASSUME NEW v \in Value, NEW i, List!InsertBefore(v, i) PROVE ListInv'
  BY <1>1, <1>3, InsertBeforeKeeps
<1>4. ASSUME NEW i, List!Remove(i) PROVE ListInv'
  BY <1>1, <1>4, RemoveKeeps
<1>5. ASSUME NEW size \in 1..MaxCapacity, List!SetCapacity(size) PROVE ListInv'
  BY <1>1, <1>5, SetCapacityKeeps
<1>6. ASSUME List!Clear PROVE ListInv'
  BY <1>1, <1>6, ListClearKeeps
<1> QED BY <1>2, <1>3, <1>4, <1>5, <1>6 DEF List!Next

-----------------------------------------------------------------------------
(* What following the links of a list finds.                               *)

\* The walk along a field.
Walk(f, links, first, n) == f = [k \in 0..n |-> IF k = 0 THEN first ELSE IF f[k - 1] = -1 THEN -1 ELSE links[f[k - 1]]]

Way(s, len, n) == [k \in 0..n |-> IF k < len THEN s[k + 1] ELSE -1]

LEMMA WayIsWalk ==
  ASSUME NEW n \in Nat, NEW links, NEW first, NEW len \in 0..n, NEW s \in [1..len -> 0..n - 1], IsList(-1, links, first, s, len)
  PROVE  Walk(Way(s, len, n), links, first, n)
<1> DEFINE w == Way(s, len, n)
<1>1. /\ first = IF len = 0 THEN -1 ELSE s[1]
      /\ \A i \in 1..len : links[s[i]] = IF i = len THEN -1 ELSE s[i + 1]
  BY DEF IsList
<1>2. \A k \in 0..n : w[k] = IF k < len THEN s[k + 1] ELSE -1
  BY DEF Way
<1>3. \A i \in 1..len : s[i] # -1 /\ s[i] \in 0..n - 1
  OBVIOUS
<1> HIDE DEF w
<1>4. ASSUME NEW k \in 0..n PROVE w[k] = IF k = 0 THEN first ELSE IF w[k - 1] = -1 THEN -1 ELSE links[w[k - 1]]
  <2>1. CASE k = 0
    BY <2>1, <1>1, <1>2
  <2>2. CASE k # 0 /\ k <= len
    <3>1. k - 1 \in 0..n /\ k - 1 < len /\ k - 1 + 1 = k /\ k \in 1..len
      BY <2>2
    <3>2. w[k - 1] = s[k] /\ s[k] # -1
      BY <3>1, <1>2, <1>3
    <3>3. links[s[k]] = IF k = len THEN -1 ELSE s[k + 1]
      BY <3>1, <1>1
    <3>4. w[k] = IF k = len THEN -1 ELSE s[k + 1]
      BY <2>2, <1>2
    <3> QED BY <2>2, <3>2, <3>3, <3>4
  <2>3. CASE k > len
    <3>1. k - 1 \in 0..n /\ ~(k - 1 < len) /\ ~(k < len) /\ k # 0
      BY <2>3
    <3> QED BY <3>1, <1>2
  <2> QED BY <2>1, <2>2, <2>3
<1>5. w = [k \in 0..n |-> IF k = 0 THEN first ELSE IF w[k - 1] = -1 THEN -1 ELSE links[w[k - 1]]]
  <2>1. w = [k \in 0..n |-> w[k]]
    BY DEF w, Way
  <2> QED BY <2>1, <1>4
<1> QED BY <1>5 DEF Walk, w

LEMMA CountTo == ASSUME NEW n \in Nat
                 PROVE  /\ IsFiniteSet(0..n - 1) /\ Cardinality(0..n - 1) = n
                        /\ IsFiniteSet(1..n) /\ Cardinality(1..n) = n
<1>1. IsFiniteSet(0..n - 1) /\ Cardinality(0..n - 1) = n
  BY FS_Interval
<1>2. IsFiniteSet(1..n) /\ Cardinality(1..n) = n
  BY FS_Interval
<1> QED BY <1>1, <1>2

LEMMA ListFits == ASSUME NEW n \in Nat, NEW len \in Nat, NEW s \in [1..len -> 0..n - 1],
                         \A i, j \in 1..len : s[i] = s[j] => i = j
                  PROVE  len <= n
<1>1. s \in Injection(1..len, 0..n - 1)
  BY DEF Injection, IsInjective
<1>2. IsFiniteSet(0..n - 1) /\ Cardinality(0..n - 1) = n /\ Cardinality(1..len) = len
  BY CountTo
<1> QED BY <1>1, <1>2, FS_Injection

LEMMA ChainIs ==
  ASSUME NEW n \in Nat, List!Capacity = n, DOMAIN ref = 0..n - 1, NEW field, NEW first, NEW links,
         links = [i \in 0..n - 1 |-> ref[i][field]], first \in -1..n - 1, \A i \in 0..n - 1 : links[i] \in -1..n - 1,
         NEW len \in Nat, NEW s \in [1..len -> 0..n - 1], IsList(-1, links, first, s, len)
  PROVE  List!Chain(first, field) = s
<1>1. len \in 0..n
  <2>1. \A i, j \in 1..len : s[i] = s[j] => i = j
    BY DEF IsList
  <2>2. len <= n
    BY <2>1, ListFits, Zenon
  <2> QED BY <2>2
<1> DEFINE w == Way(s, len, n)
<1>2. Walk(w, links, first, n)
  BY <1>1, WayIsWalk
<1>3. \A k \in 0..n : w[k] \in -1..n - 1
  BY DEF Way
<1> HIDE DEF w
<1>4. w = [k \in 0..n |-> IF k = 0 THEN first ELSE IF w[k - 1] = -1 THEN -1 ELSE ref[w[k - 1]][field]]
  <2>1. ASSUME NEW k \in 0..n, k # 0, w[k - 1] # -1 PROVE links[w[k - 1]] = ref[w[k - 1]][field]
    <3>1. w[k - 1] \in 0..n - 1
      BY <2>1, <1>3
    <3> QED BY <3>1
  <2>2. w = [k \in 0..n |-> IF k = 0 THEN first ELSE IF w[k - 1] = -1 THEN -1 ELSE links[w[k - 1]]]
    BY <1>2 DEF Walk
  <2> QED BY <2>1, <2>2
<1>5. PICK f : f = List!Follow(first, field)
  OBVIOUS
<1>6. f = [k \in 0..n |-> IF k = 0 THEN first ELSE IF f[k - 1] = -1 THEN -1 ELSE ref[f[k - 1]][field]]
  BY <1>4, <1>5, Zenon DEF List!Follow, List!None
<1>7. \A k \in 0..n : f[k] = w[k]
  <2> SUFFICES ASSUME NEW a \in 0..n, f[a] # w[a] PROVE FALSE
    OBVIOUS
  <2> DEFINE T == {k \in 0..n : f[k] # w[k]}
  <2>1. T \subseteq Nat /\ T # {}
    <3>1. a \in T /\ T \subseteq 0..n
      OBVIOUS
    <3>2. 0..n \subseteq Nat
      OBVIOUS
    <3> HIDE DEF T
    <3> QED BY <3>1, <3>2
  <2>2. PICK k \in T : \A m \in T : k <= m
    BY <2>1, Least
  <2>3. k # 0 => k - 1 \in 0..n /\ f[k - 1] = w[k - 1]
    <3> SUFFICES ASSUME k # 0 PROVE k - 1 \in 0..n /\ f[k - 1] = w[k - 1]
      OBVIOUS
    <3>1. k - 1 \in 0..n /\ ~(k <= k - 1)
      OBVIOUS
    <3>2. k - 1 \notin T
      BY <3>1, <2>2
    <3> QED BY <3>1, <3>2
  <2>4. /\ f[k] = IF k = 0 THEN first ELSE IF f[k - 1] = -1 THEN -1 ELSE ref[f[k - 1]][field]
        /\ w[k] = IF k = 0 THEN first ELSE IF w[k - 1] = -1 THEN -1 ELSE ref[w[k - 1]][field]
    BY <1>4, <1>6
  <2> QED BY <2>2, <2>3, <2>4
<1>8. \A k \in 0..n : f[k] = IF k < len THEN s[k + 1] ELSE -1
  BY <1>7 DEF w, Way
<1>9. {k \in 0..n : f[k] # -1} = 0..len - 1
  <2>1. \A k \in 0..n : f[k] # -1 <=> k < len
    <3> TAKE k \in 0..n
    <3>1. k < len => s[k + 1] \in 0..n - 1
      OBVIOUS
    <3> QED BY <3>1, <1>8
  <2> QED BY <2>1, <1>1
<1>10. Cardinality(0..len - 1) = len
  BY CountTo, Zenon
<1>11. List!Chain(first, field) = [k \in 1..len |-> f[k - 1]]
  BY <1>5, <1>9, <1>10, SameCounting DEF List!Chain, List!None
<1>12. \A k \in 1..len : f[k - 1] = s[k]
  <2> TAKE k \in 1..len
  <2>1. k - 1 \in 0..n /\ k - 1 < len /\ k - 1 + 1 = k
    BY <1>1
  <2> QED BY <2>1, <1>8
<1>13. s = [k \in 1..len |-> s[k]]
  OBVIOUS
<1> QED BY <1>11, <1>12, <1>13

\* The numbers of entries and of free slots.
Enumerates(s, len, U) == /\ s = [i \in 1..len |-> s[i]]
                         /\ \A i, j \in 1..len : s[i] = s[j] => i = j
                         /\ \A x : x \in U <=> \E i \in 1..len : x = s[i]

LEMMA InjectionCount == ASSUME NEW len \in Nat, NEW s, NEW U, Enumerates(s, len, U)
                        PROVE  IsFiniteSet(U) /\ Cardinality(U) = len
<1>0. /\ s = [i \in 1..len |-> s[i]]
      /\ \A i, j \in 1..len : s[i] = s[j] => i = j
      /\ \A x : x \in U <=> \E i \in 1..len : x = s[i]
  BY DEF Enumerates
<1>1. s \in Bijection(1..len, U)
  <2>1. s \in [1..len -> U]
    BY <1>0
  <2>2. \A t \in U : \E i \in 1..len : s[i] = t
    BY <1>0
  <2> QED BY <2>1, <2>2, <1>0 DEF Bijection, Injection, Surjection, IsInjective
<1>2. IsFiniteSet(1..len) /\ Cardinality(1..len) = len
  BY CountTo
<1>3. ExistsBijection(1..len, U)
  BY <1>1 DEF ExistsBijection
<1> QED BY <1>2, <1>3, FS_Bijection

LEMMA ListWanted ==
  ASSUME NEW n \in Nat, ListIs(n)
  PROVE  List!TypeOK /\ List!LinksAgree /\ List!Contents = want /\ right
<1>1. /\ n \in 1..MaxCapacity /\ ref \in [0..n - 1 -> Cell(n)] /\ want \in Seq(Entry(n)) /\ Apart(want)
      /\ Linked(ref, want) /\ start = Place(want, 1) /\ end = Place(want, Len(want))
      /\ ListOf(0..n - 1, -1, Nexts(ref), freelist, (0..n - 1) \ Slots(want))
      /\ length = Len(want) /\ right = TRUE
  BY DEF ListIs, Holds
<1>2. List!Capacity = n /\ DOMAIN ref = 0..n - 1
  BY SlotsCount
<1>3. PICK len \in Nat : len = Len(want) /\ length = len
  BY <1>1
<1>4. \A i \in 0..n - 1 : ref[i].next \in -1..n - 1 /\ ref[i].prev \in -1..n - 1 /\ ref[i].val \in Value \cup {Null} /\ ref[i] \in Cell(n)
  <2> TAKE i \in 0..n - 1
  <2>1. ref[i] \in Cell(n)
    BY <1>1
  <2> QED BY <2>1 DEF Cell
<1>5. \A k \in 1..len : want[k] \in Entry(n)
  BY <1>1, <1>3, ElementOfSeq
<1>6. \A k \in 1..len : want[k].at \in 0..n - 1 /\ want[k].val \in Value /\ want[k] = [at |-> want[k].at, val |-> want[k].val]
  BY <1>5 DEF Entry
<1>7. start \in -1..n - 1 /\ end \in -1..n - 1 /\ freelist \in -1..n - 1
  <2>1. Len(want) \in Int
    BY <1>1
  <2> QED BY <2>1, <1>1, PlaceIn, FreeIsCell
<1> DEFINE s == [k \in 1..len |-> want[k].at]
           back == [k \in 1..len |-> want[len - k + 1].at]
           nexts == [i \in 0..n - 1 |-> ref[i]["next"]]
           prevs == [i \in 0..n - 1 |-> ref[i]["prev"]]
<1>8. s \in [1..len -> 0..n - 1] /\ back \in [1..len -> 0..n - 1]
  <2>1. \A k \in 1..len : len - k + 1 \in 1..len
    OBVIOUS
  <2> QED BY <2>1, <1>6
<1>9. /\ \A i \in 0..n - 1 : nexts[i] = ref[i].next /\ nexts[i] \in -1..n - 1
      /\ \A i \in 0..n - 1 : prevs[i] = ref[i].prev /\ prevs[i] \in -1..n - 1
  BY <1>4
<1>10. \A j, k \in 1..len : s[j] = s[k] => j = k
  BY <1>1, <1>3 DEF Apart
<1>11. \A k \in 1..len : /\ s[k] = want[k].at /\ nexts[s[k]] = Place(want, k + 1) /\ prevs[s[k]] = Place(want, k - 1)
  BY <1>1, <1>3, <1>6, <1>9 DEF Linked
<1>12. \A k \in Int : Place(want, k) = IF k \in 1..len THEN s[k] ELSE -1
  BY <1>3 DEF Place
<1>13. \A k \in 1..len : back[k] = s[len - k + 1] /\ len - k + 1 \in 1..len
  OBVIOUS
<1> HIDE DEF s, back, nexts, prevs
<1>14. IsList(-1, nexts, start, s, len)
  <2>1. start = IF len = 0 THEN -1 ELSE s[1]
    BY <1>1, <1>12
  <2>2. \A k \in 1..len : nexts[s[k]] = IF k = len THEN -1 ELSE s[k + 1]
    <3> TAKE k \in 1..len
    <3>1. k + 1 \in Int /\ (k + 1 \in 1..len <=> k # len)
      OBVIOUS
    <3> QED BY <3>1, <1>11, <1>12
  <2> QED BY <2>1, <2>2, <1>10 DEF IsList
<1>15. IsList(-1, prevs, end, back, len)
  <2>1. end = IF len = 0 THEN -1 ELSE back[1]
    <3>1. end = Place(want, len) /\ len \in Int
      BY <1>1, <1>3
    <3>2. len # 0 => back[1] = s[len] /\ len \in 1..len
      BY <1>13
    <3> QED BY <3>1, <3>2, <1>12
  <2>2. \A k \in 1..len : prevs[back[k]] = IF k = len THEN -1 ELSE back[k + 1]
    <3> TAKE k \in 1..len
    <3>1. back[k] = s[len - k + 1] /\ len - k + 1 \in 1..len /\ len - k + 1 - 1 = len - k /\ len - k \in Int
      BY <1>13
    <3>2. prevs[back[k]] = Place(want, len - k)
      BY <3>1, <1>11
    <3>3. k # len => back[k + 1] = s[len - k] /\ len - k \in 1..len
      <4> SUFFICES ASSUME k # len PROVE back[k + 1] = s[len - k] /\ len - k \in 1..len
        OBVIOUS
      <4>1. k + 1 \in 1..len /\ len - (k + 1) + 1 = len - k
        OBVIOUS
      <4> QED BY <4>1, <1>13
    <3>4. k = len => len - k \notin 1..len
      OBVIOUS
    <3> QED BY <3>1, <3>2, <3>3, <3>4, <1>12
  <2>3. ASSUME NEW j \in 1..len, NEW k \in 1..len, back[j] = back[k] PROVE j = k
    <3>1. len - j + 1 = len - k + 1
      BY <2>3, <1>10, <1>13
    <3> QED BY <3>1
  <2> QED BY <2>1, <2>2, <2>3 DEF IsList
<1>16. List!Chain(start, "next") = s
  BY <1>2, <1>7, <1>8, <1>9, <1>14, ChainIs DEF nexts
<1>17. List!Chain(end, "prev") = back
  BY <1>2, <1>7, <1>8, <1>9, <1>15, ChainIs DEF prevs
<1>18. PICK lf \in Nat : \E t \in [1..lf -> 0..n - 1] : /\ IsList(-1, Nexts(ref), freelist, t, lf)
                                                        /\ (0..n - 1) \ Slots(want) = {t[i] : i \in 1..lf}
  <2>1. PICK F : F = (0..n - 1) \ Slots(want)
    OBVIOUS
  <2>2. ListOf(0..n - 1, -1, Nexts(ref), freelist, F)
    BY <2>1, <1>1
  <2>3. \E lf \in Nat : \E t \in [1..lf -> 0..n - 1] : IsList(-1, Nexts(ref), freelist, t, lf) /\ F = {t[i] : i \in 1..lf}
    BY <2>2, TheList
  <2> QED BY <2>1, <2>3
<1>19. PICK t \in [1..lf -> 0..n - 1] : /\ IsList(-1, Nexts(ref), freelist, t, lf)
                                        /\ (0..n - 1) \ Slots(want) = {t[i] : i \in 1..lf}
  BY <1>18
<1>20. Nexts(ref) = nexts
  BY <1>2 DEF Nexts, nexts
<1>21. List!Chain(freelist, "next") = t
  BY <1>2, <1>7, <1>9, <1>19, <1>20, ChainIs DEF nexts
<1>22. \A x : x \in Slots(want) <=> \E i \in 1..len : x = s[i]
  <2>1. \A k \in 1..len : s[k] = want[k].at
    BY <1>11
  <2>2. \A x : x \in Slots(want) <=> \E i \in 1..len : x = want[i].at
    BY <1>3 DEF Slots
  <2> QED BY <2>1, <2>2
<1>23. len + lf = n
  <2>1. PICK U : U = Slots(want)
    OBVIOUS
  <2>2. PICK V : V = (0..n - 1) \ Slots(want)
    OBVIOUS
  <2>3. IsFiniteSet(U) /\ Cardinality(U) = len
    <3>1. s = [i \in 1..len |-> s[i]] /\ \A x : x \in U <=> \E i \in 1..len : x = s[i]
      BY <2>1, <1>8, <1>22
    <3>2. Enumerates(s, len, U)
      BY <3>1, <1>10 DEF Enumerates
    <3> QED BY <3>2, InjectionCount
  <2>4. \A x : x \in V <=> \E i \in 1..lf : x = t[i]
    BY <2>2, <1>19
  <2>5. \A i, j \in 1..lf : t[i] = t[j] => i = j
    BY <1>19 DEF IsList
  <2>6. IsFiniteSet(V) /\ Cardinality(V) = lf
    <3>1. t = [i \in 1..lf |-> t[i]]
      OBVIOUS
    <3>2. Enumerates(t, lf, V)
      BY <2>4, <2>5, <3>1 DEF Enumerates
    <3> QED BY <3>2, InjectionCount
  <2>7. U \cup V = 0..n - 1 /\ U \cap V = {}
    BY <2>1, <2>2, <1>8, <1>22
  <2>8. Cardinality(U \cup V) = Cardinality(U) + Cardinality(V) - Cardinality(U \cap V)
    BY <2>3, <2>6, FS_Union
  <2>9. Cardinality(U \cup V) = n /\ Cardinality(U \cap V) = 0
    BY <2>7, CountTo, FS_EmptySet
  <2> QED BY <2>3, <2>6, <2>8, <2>9
<1>24. Len(s) = len /\ DOMAIN s = 1..len /\ Len(t) = lf /\ DOMAIN t = 1..lf
  BY <1>8
<1>25. List!LinksAgree
  <2>1. back = List!Seqs!Reverse(s)
    <3>1. \A k \in 1..len : len - k + 1 = (len - k) + 1
      OBVIOUS
    <3>2. List!Seqs!Reverse(s) = [k \in 1..len |-> s[(len - k) + 1]]
      BY <1>24 DEF List!Seqs!Reverse
    <3>3. back = [k \in 1..len |-> back[k]]
      BY <1>8
    <3> QED BY <3>2, <3>3, <1>13
  <2>2. List!Range(s) \cup List!Range(t) = DOMAIN ref
    <3>1. List!Range(s) = {s[i] : i \in 1..len} /\ List!Range(t) = {t[i] : i \in 1..lf}
      BY <1>24 DEF List!Range
    <3>2. \A x : x \in Slots(want) => x \in 0..n - 1
      BY <1>8, <1>22
    <3>3. \A x : x \in {s[i] : i \in 1..len} <=> x \in Slots(want)
      BY <1>22
    <3>4. {t[i] : i \in 1..lf} = (0..n - 1) \ Slots(want)
      BY <1>19
    <3> HIDE <1>19
    <3> QED BY <3>1, <3>2, <3>3, <3>4, <1>2
  <2> QED BY <2>1, <2>2, <1>2, <1>3, <1>16, <1>17, <1>21, <1>23, <1>24 DEF List!LinksAgree
<1>26. List!Contents = want
  <2>1. List!Contents = [k \in 1..len |-> [at |-> s[k], val |-> ref[s[k]].val]]
    BY <1>16, <1>24 DEF List!Contents
  <2>2. \A k \in 1..len : [at |-> s[k], val |-> ref[s[k]].val] = want[k]
    <3> TAKE k \in 1..len
    <3>1. s[k] = want[k].at /\ ref[s[k]].val = want[k].val
      BY <1>1, <1>3, <1>11 DEF Linked
    <3> QED BY <3>1, <1>6
  <2>3. want = [k \in 1..len |-> want[k]]
    BY <1>1, <1>3
  <2> QED BY <2>1, <2>2, <2>3
<1>27. List!TypeOK
  <2>1. len <= n /\ len \in 0..MaxCapacity
    BY <1>1, <1>23, ListAssumption DEF List!Assumptions
  <2>2. -1..n - 1 = (0..n - 1) \cup {-1}
    OBVIOUS
  <2>3. ref \in [0..n - 1 -> [val : Value \cup {Null}, next : (0..n - 1) \cup {-1}, prev : (0..n - 1) \cup {-1}]]
    BY <2>2, <1>1 DEF Cell
  <2>4. {start, end, freelist} \subseteq (0..n - 1) \cup {-1}
    BY <2>2, <1>7
  <2> QED BY <2>1, <2>3, <2>4, <1>2, <1>3 DEF List!TypeOK, List!None
<1> QED BY <1>1, <1>25, <1>26, <1>27
=============================================================================
