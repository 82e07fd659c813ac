----------------------------- MODULE QueueProofs -----------------------------
(***************************************************************************)
(* Proofs about LocklessQueue and MicroLockQueue, as MCQueues runs them,   *)
(* for any finite set of threads and any bounds: memory is safe, no node   *)
(* is lost, size() is exact up to the operations in progress, and both     *)
(* queues implement the first-in first-out queue.                          *)
(*                                                                         *)
(* The first two sections are about lists of links and about remainders    *)
(* alone; then each queue has an invariant that names its list.            *)
(***************************************************************************)
EXTENDS MCQueues, Integers, FiniteSetTheorems, SequenceTheorems, WellFoundedInduction, TLAPS

Nodes == 1..MaxNode

\* From s[0] the links lead through s[1], s[2] ... to s[n], all different.
IsList(links, s, n) == /\ \A i, j \in 0..n : s[i] = s[j] => i = j
                       /\ \A i \in 0..(n - 1) : links[s[i]] = s[i + 1]

On(s, n) == {s[i] : i \in 0..n}
-----------------------------------------------------------------------------
(* Lists.                                                                  *)

LEMMA Bounds == /\ MaxNode \in Nat \ {0} /\ MaxItem \in Nat /\ Width \in Nat \ {0}
                /\ Null \notin Nodes /\ Nobody \notin Thread
BY OneProducerAssumption, ManyProducersAssumption
   DEF Spsc!Assumptions, Mpmc!Assumptions, Spsc!Node, Nodes

LEMMA ListFits ==
  ASSUME NEW links, NEW n \in Nat, NEW s \in [0..n -> Nodes], IsList(links, s, n)
  PROVE  n < MaxNode
<1>1. s \in Injection(0..n, Nodes)
  BY DEF IsList, Injection, IsInjective
<1>2. IsFiniteSet(Nodes) /\ Cardinality(Nodes) = MaxNode /\ Cardinality(0..n) = n + 1
  BY Bounds, FS_Interval DEF Nodes
<1> QED BY <1>1, <1>2, Bounds, FS_Injection

LEMMA OnCount ==
  ASSUME NEW links, NEW n \in Nat, NEW s \in [0..n -> Nodes], IsList(links, s, n)
  PROVE  Cardinality(On(s, n)) = n + 1
<1>1. s \in Bijection(0..n, On(s, n))
  BY DEF IsList, On, Bijection, Injection, Surjection, IsInjective
<1>2. IsFiniteSet(0..n) /\ Cardinality(0..n) = n + 1
  BY FS_Interval
<1> QED BY <1>1, <1>2, FS_Bijection DEF ExistsBijection

LEMMA SameList ==
  ASSUME NEW links, NEW links2, NEW n \in Nat, NEW s, IsList(links, s, n),
         \A i \in 0..(n - 1) : links2[s[i]] = links[s[i]]
  PROVE  IsList(links2, s, n)
BY DEF IsList

\* The first node is taken off.
NotSingle(links, s, n) == n \in Nat /\ n > 0 /\ s \in [0..n -> Nodes] /\ IsList(links, s, n)

Shorter(links, s, n) ==
  \E u \in [0..(n - 1) -> Nodes] :
    /\ IsList(links, u, n - 1)
    /\ \A i \in 0..(n - 1) : u[i] = s[i + 1]
    /\ On(u, n - 1) = On(s, n) \ {s[0]}

LEMMA TailIsShorter ==
  ASSUME NEW links, NEW n, NEW s, NotSingle(links, s, n)
  PROVE  Shorter(links, s, n)
<1> SUFFICES ASSUME n \in Nat, n > 0, s \in [0..n -> Nodes], IsList(links, s, n)
             PROVE  Shorter(links, s, n)
  BY DEF NotSingle
<1> DEFINE u == [i \in 0..(n - 1) |-> s[i + 1]]
<1>1. u \in [0..(n - 1) -> Nodes] /\ \A i \in 0..(n - 1) : u[i] = s[i + 1]
  OBVIOUS
<1> HIDE DEF u
<1>2. IsList(links, u, n - 1)
  <2>1. ASSUME NEW i \in 0..(n - 1), NEW j \in 0..(n - 1), u[i] = u[j] PROVE i = j
    <3>1. i + 1 \in 0..n /\ j + 1 \in 0..n /\ s[i + 1] = s[j + 1]
      BY <1>1, <2>1
    <3>2. i + 1 = j + 1
      BY <3>1 DEF IsList
    <3> QED BY <3>2
  <2>2. ASSUME NEW i \in 0..(n - 1 - 1) PROVE links[u[i]] = u[i + 1]
    <3>1. i \in 0..(n - 1) /\ i + 1 \in 0..(n - 1)
      OBVIOUS
    <3>2. u[i] = s[i + 1] /\ u[i + 1] = s[i + 1 + 1]
      BY <1>1, <3>1
    <3> QED BY <3>1, <3>2 DEF IsList
  <2> QED BY <2>1, <2>2 DEF IsList
<1>3. On(u, n - 1) = On(s, n) \ {s[0]}
  <2>1. ASSUME NEW i \in 0..(n - 1) PROVE u[i] \in On(s, n) /\ u[i] # s[0]
    BY <1>1 DEF On, IsList
  <2>2. ASSUME NEW i \in 0..n, s[i] # s[0] PROVE s[i] \in On(u, n - 1)
    <3>1. i - 1 \in 0..(n - 1) /\ u[i - 1] = s[i]
      BY <1>1, <2>2
    <3> QED BY <3>1 DEF On
  <2> QED BY <2>1, <2>2 DEF On
<1> QED BY <1>1, <1>2, <1>3 DEF Shorter

\* The last node is linked to a new one.
Linked(links, s, n, b) == /\ n \in Nat /\ s \in [0..n -> Nodes] /\ IsList(links, s, n)
                          /\ b \in Nodes /\ b \notin On(s, n) /\ links[s[n]] = b

Longer(links, s, n, b) ==
  \E u \in [0..(n + 1) -> Nodes] :
    /\ IsList(links, u, n + 1)
    /\ u[n + 1] = b /\ \A i \in 0..n : u[i] = s[i]
    /\ On(u, n + 1) = On(s, n) \cup {b}

LEMMA LinkedIsLonger ==
  ASSUME NEW links, NEW n, NEW s, NEW b, Linked(links, s, n, b)
  PROVE  Longer(links, s, n, b)
<1> SUFFICES ASSUME n \in Nat, s \in [0..n -> Nodes], IsList(links, s, n),
                    b \in Nodes, b \notin On(s, n), links[s[n]] = b
             PROVE  Longer(links, s, n, b)
  BY DEF Linked
<1> DEFINE u == [i \in 0..(n + 1) |-> IF i = n + 1 THEN b ELSE s[i]]
<1>1. u \in [0..(n + 1) -> Nodes] /\ u[n + 1] = b /\ \A i \in 0..n : u[i] = s[i]
  OBVIOUS
<1>2. \A i \in 0..n : s[i] # b
  BY DEF On
<1> HIDE DEF u
<1>3. IsList(links, u, n + 1)
  <2>1. ASSUME NEW i \in 0..(n + 1), NEW j \in 0..(n + 1), u[i] = u[j] PROVE i = j
    <3>1. CASE i \in 0..n /\ j \in 0..n
      BY <1>1, <2>1, <3>1 DEF IsList
    <3>2. CASE i = n + 1 \/ j = n + 1
      BY <1>1, <1>2, <2>1, <3>2
    <3> QED BY <3>1, <3>2
  <2>2. ASSUME NEW i \in 0..n PROVE links[u[i]] = u[i + 1]
    <3>1. CASE i = n
      BY <1>1, <3>1
    <3>2. CASE i # n
      BY <1>1, <3>2 DEF IsList
    <3> QED BY <3>1, <3>2
  <2> QED BY <2>1, <2>2 DEF IsList
<1>4. On(u, n + 1) = On(s, n) \cup {b}
  BY <1>1 DEF On
<1> QED BY <1>1, <1>3, <1>4 DEF Longer
-----------------------------------------------------------------------------
(* Following the links.  Induction is the choice of a least counterexample.*)

LEMMA Minimal == ASSUME NEW T, T \subseteq Nat, T # {}, NEW R, IsWellFoundedOn(R, Nat)
                 PROVE  \E n \in T : \A m \in T : ~(<<m, n>> \in R)
BY WFMin, Zenon

LEMMA Least == ASSUME NEW T, T \subseteq Nat, T # {}
               PROVE  \E n \in T : \A m \in T : n <= m
<1>1. \A y \in Nat, x \in Nat : <<y, x>> \in OpToRel(<, Nat) <=> y < x
  BY DEF OpToRel
<1>2. \E R : IsWellFoundedOn(R, Nat) /\ \A y \in Nat, x \in Nat : <<y, x>> \in R <=> y < x
  BY <1>1, NatLessThanWellFounded, Zenon
<1>3. PICK R : IsWellFoundedOn(R, Nat) /\ \A y \in Nat, x \in Nat : <<y, x>> \in R <=> y < x
  BY <1>2
<1>4. \E n \in T : \A m \in T : ~(<<m, n>> \in R)
  BY <1>3, Minimal, Zenon
<1>5. \E n \in T : \A m \in T : ~(m < n)
  BY <1>3, <1>4, Zenon
<1> QED BY <1>5

\* What the walk w over the links from p meets at its k-th step.
Turn(w, links, p, k) == IF k = 0 THEN p ELSE IF w[k - 1] = Null THEN Null ELSE links[w[k - 1]]

Walk(w, links, p) == w = [k \in 0..MaxNode |-> Turn(w, links, p, k)]

LEMMA WalkExists == ASSUME NEW links, NEW p PROVE \E w : Walk(w, links, p)
<1> DEFINE Upto(m) == \E w : w = [k \in 0..m |-> Turn(w, links, p, k)]
<1>1. SUFFICES ASSUME ~Upto(MaxNode) PROVE FALSE
  BY DEF Walk
<1> DEFINE T == {m \in Nat : ~Upto(m)}
<1>2. PICK m \in T : \A k \in T : m <= k
  BY <1>1, Bounds, Least
<1>3. Upto(0)
  <2>1. [k \in 0..0 |-> p] = [k \in 0..0 |-> Turn([j \in 0..0 |-> p], links, p, k)]
    BY DEF Turn
  <2> QED BY <2>1
<1>4. m \in Nat /\ m # 0 /\ Upto(m - 1)
  <2> HIDE DEF Upto
  <2>1. m \in Nat /\ m # 0
    BY <1>2, <1>3
  <2>2. m - 1 \notin T
    BY <1>2, <2>1
  <2> QED BY <2>1, <2>2
<1>5. PICK w : w = [k \in 0..(m - 1) |-> Turn(w, links, p, k)]
  BY <1>4
<1> DEFINE v == [k \in 0..m |-> IF k = m THEN Turn(w, links, p, m) ELSE w[k]]
<1>6. \A k \in 0..m : v[k] = Turn(w, links, p, k)
  BY <1>4, <1>5
<1>7. \A k \in 0..m : Turn(v, links, p, k) = Turn(w, links, p, k)
  BY <1>4 DEF Turn
<1>8. v = [k \in 0..m |-> Turn(v, links, p, k)]
  <2> DEFINE r == [k \in 0..m |-> Turn(v, links, p, k)]
  <2> HIDE DEF v
  <2>1. \A k \in 0..m : v[k] = r[k]
    BY <1>6, <1>7
  <2> QED BY <2>1 DEF v
<1>9. Upto(m)
  BY <1>8
<1> QED BY <1>2, <1>9

\* The walk w gives the sequence s.
Along(w, s, n) == \A k \in 0..n : w[k] = s[k]

\* Over a list the walk meets its nodes one by one, and then null.
LEMMA WalkIsList ==
  ASSUME NEW links, NEW n \in Nat, NEW s \in [0..n -> Nodes], NEW w,
         IsList(links, s, n), Walk(w, links, s[0])
  PROVE  Along(w, s, n)
<1>1. n < MaxNode /\ MaxNode \in Nat
  BY ListFits, Bounds
<1>2. \A k \in 0..MaxNode : w[k] = Turn(w, links, s[0], k)
  BY DEF Walk
<1>3. \A k \in 0..n : w[k] = s[k]
  <2> SUFFICES ASSUME NEW a \in 0..n, w[a] # s[a] PROVE FALSE
    OBVIOUS
  <2> DEFINE T == {k \in 0..n : w[k] # s[k]}
  <2>0. T \subseteq Nat /\ T # {}
    OBVIOUS
  <2>1. PICK k \in T : \A m \in T : k <= m
    BY <2>0, Least
  <2>2. k # 0 /\ k - 1 \in 0..n
    BY <1>1, <1>2, <2>1 DEF Turn
  <2>3. w[k - 1] = s[k - 1] /\ s[k - 1] # Null
    BY <2>1, <2>2, Bounds
  <2>4. w[k] = links[s[k - 1]]
    BY <1>1, <1>2, <2>1, <2>2, <2>3 DEF Turn
  <2> QED BY <2>1, <2>2, <2>4 DEF IsList
<1> QED BY <1>3 DEF Along

LEMMA WalkEnds ==
  ASSUME NEW links, NEW n \in Nat, NEW s \in [0..n -> Nodes], NEW w,
         IsList(links, s, n), Walk(w, links, s[0]), links[s[n]] = Null
  PROVE  \A k \in (n + 1)..MaxNode : w[k] = Null
<1>1. n < MaxNode /\ MaxNode \in Nat
  BY ListFits, Bounds
<1>2. \A k \in 0..MaxNode : w[k] = Turn(w, links, s[0], k)
  BY DEF Walk
<1>3. \A k \in 0..n : w[k] = s[k]
  <2>1. Along(w, s, n)
    BY WalkIsList
  <2> QED BY <2>1 DEF Along
<1>4. ASSUME NEW a \in (n + 1)..MaxNode, w[a] # Null PROVE FALSE
  <2> DEFINE T == {k \in (n + 1)..MaxNode : w[k] # Null}
  <2>0. T \subseteq Nat /\ T # {}
    BY <1>4
  <2>1. PICK k \in T : \A m \in T : k <= m
    BY <2>0, Least
  <2>2. w[k] = IF w[k - 1] = Null THEN Null ELSE links[w[k - 1]]
    BY <1>1, <1>2, <2>1 DEF Turn
  <2>3. CASE k = n + 1
    BY <1>3, <1>4, <2>1, <2>2, <2>3
  <2>4. CASE k # n + 1
    BY <1>1, <2>1, <2>2, <2>4
  <2> QED BY <2>3, <2>4
<1> QED BY <1>4

LEMMA WalkNowhere ==
  ASSUME NEW links, NEW w, Walk(w, links, Null)
  PROVE  \A k \in 0..MaxNode : w[k] = Null
<1> SUFFICES ASSUME NEW a \in 0..MaxNode, w[a] # Null PROVE FALSE
  OBVIOUS
<1>1. \A k \in 0..MaxNode : w[k] = Turn(w, links, Null, k)
  BY DEF Walk
<1> DEFINE T == {k \in 0..MaxNode : w[k] # Null}
<1>2. T \subseteq Nat /\ T # {}
  OBVIOUS
<1>3. PICK k \in T : \A m \in T : k <= m
  BY <1>2, Least
<1>4. k # 0 /\ k - 1 \in 0..MaxNode
  BY <1>1, <1>3, Bounds DEF Turn
<1>5. w[k - 1] = Null
  BY <1>3, <1>4
<1> QED BY <1>1, <1>3, <1>4, <1>5 DEF Turn

LEMMA WalkMeets ==
  ASSUME NEW links, NEW n \in Nat, NEW s \in [0..n -> Nodes], NEW w,
         IsList(links, s, n), Walk(w, links, s[0]), links[s[n]] = Null
  PROVE  {w[k] : k \in 0..MaxNode} \ {Null} = On(s, n)
<1>1. n < MaxNode /\ MaxNode \in Nat /\ Null \notin Nodes
  BY ListFits, Bounds
<1>2. \A k \in 0..MaxNode : w[k] = IF k <= n THEN s[k] ELSE Null
  <2>1. \A k \in 0..n : w[k] = s[k]
    <3>1. Along(w, s, n)
      BY WalkIsList
    <3> QED BY <3>1 DEF Along
  <2>2. \A k \in (n + 1)..MaxNode : w[k] = Null
    BY WalkEnds
  <2> QED BY <1>1, <2>1, <2>2
<1> QED BY <1>1, <1>2 DEF On
-----------------------------------------------------------------------------
(* Remainders.                                                             *)

LEMMA Mul == ASSUME NEW W \in Nat \ {0}, NEW k \in Int PROVE /\ k >= 1 => k * W >= W
                                                          /\ k <= -1 => k * W <= -W
OBVIOUS

LEMMA Euclid == ASSUME NEW W \in Nat \ {0}, NEW x \in Int
                PROVE \E q \in Int, m \in 0..(W - 1) : x = q * W + m /\ x % W = m
<1>1. x \div W \in Int /\ x = (x \div W) * W + (x % W) /\ x % W \in 0..(W-1)
  OBVIOUS
<1> QED BY <1>1

LEMMA ModUnique == ASSUME NEW W \in Nat \ {0}, NEW r \in 0..(W-1), NEW q \in Int
                   PROVE (q * W + r) % W = r
<1> DEFINE T(k) == k * W
<1> DEFINE x == T(q) + r
<1>0. x \in Int
  OBVIOUS
<1> HIDE DEF x
<1>1. PICK q2 \in Int, m \in 0..(W - 1) : x = T(q2) + m /\ x % W = m
  BY <1>0, Euclid
<1>2. T(q - q2) = T(q) - T(q2) /\ T(q) \in Int /\ T(q2) \in Int
  OBVIOUS
<1>3. /\ q - q2 >= 1 => T(q - q2) >= W
      /\ q - q2 <= -1 => T(q - q2) <= -W
  BY Mul
<1> HIDE DEF T
<1>4. T(q - q2) = m - r
  <2>1. T(q) + r = T(q2) + m
    BY <1>1 DEF x
  <2> QED BY <1>2, <2>1
<1>5. q = q2
  BY <1>3, <1>4
<1>6. m = r
  <2>1. T(q) = T(q2)
    BY <1>5
  <2>2. T(q) + r = T(q2) + m
    BY <1>1 DEF x
  <2> QED BY <1>2, <2>1, <2>2
<1>7. x = q * W + r
  BY DEF T, x
<1> QED BY <1>1, <1>6, <1>7

LEMMA ModAdd == ASSUME NEW W \in Nat \ {0}, NEW x \in Int, NEW y \in Int
                   PROVE ((x % W) + y) % W = (x + y) % W
<1> DEFINE T(k) == k * W
<1>1. PICK q \in Int, m \in 0..(W - 1) : x = T(q) + m /\ x % W = m
  BY Euclid
<1>2. PICK p \in Int, l \in 0..(W - 1) : m + y = T(p) + l /\ (m + y) % W = l
  BY Euclid
<1>3. T(q + p) = T(q) + T(p) /\ T(q) \in Int /\ T(p) \in Int
  OBVIOUS
<1>4. (T(q + p) + l) % W = l
  BY ModUnique
<1> HIDE DEF T
<1>5. x + y = T(q + p) + l
  BY <1>1, <1>2, <1>3
<1> QED BY <1>1, <1>2, <1>4, <1>5

\* Counting one up or down before or after the remainder is the same.
LEMMA ModStep ==
  ASSUME NEW x \in Int
  PROVE  /\ ((x % Width) + 1) % Width = (x + 1) % Width
         /\ ((x % Width) + Width - 1) % Width = (x + Width - 1) % Width
         /\ (x + Width) % Width = x % Width
         /\ x % Width \in 0..(Width - 1)
<1>1. Width \in Nat \ {0}
  BY Bounds
<1>2. x % Width \in 0..(Width - 1)
  BY <1>1
<1>3. 1 \in Int /\ Width - 1 \in Int
  BY <1>1
<1>4. /\ ((x % Width) + 1) % Width = (x + 1) % Width
      /\ ((x % Width) + (Width - 1)) % Width = (x + (Width - 1)) % Width
  BY <1>1, <1>3, ModAdd, Zenon
<1>6. /\ (x % Width) + (Width - 1) = (x % Width) + Width - 1
      /\ x + (Width - 1) = x + Width - 1
  BY <1>1, <1>2
<1>5. (x + Width) % Width = x % Width
  <2>1. PICK q \in Int, m \in 0..(Width - 1) : x = q * Width + m /\ x % Width = m
    BY <1>1, Euclid
  <2>2. x + Width = (q + 1) * Width + m
    BY <1>1, <2>1
  <2> QED BY <1>1, <2>1, <2>2, ModUnique
<1> QED BY <1>2, <1>4, <1>5, <1>6
-----------------------------------------------------------------------------
(* The items of a list.                                                    *)

\* Those in the nodes after s[a], up to s[b].
Items(items, s, a, b) == [k \in 1..(b - a) |-> items[s[a + k]]]

LEMMA ItemsType ==
  ASSUME NEW items, NEW n \in Nat, NEW s, NEW a \in 0..n, \A k \in 1..n : items[s[k]] \in 1..MaxItem
  PROVE  Items(items, s, a, n) \in Seq(1..MaxItem) /\ Len(Items(items, s, a, n)) = n - a
<1>1. n - a \in Nat /\ \A k \in 1..(n - a) : items[s[a + k]] \in 1..MaxItem
  OBVIOUS
<1> QED BY <1>1 DEF Items

LEMMA ItemsSame ==
  ASSUME NEW items, NEW items2, NEW n \in Nat, NEW m \in Nat, NEW s, NEW u, NEW a \in 0..n, NEW b \in 0..m,
         n - a = m - b, \A k \in 1..(n - a) : items2[u[b + k]] = items[s[a + k]]
  PROVE  Items(items2, u, b, m) = Items(items, s, a, n)
BY DEF Items

\* The first n nodes of s hold items; u holds the same and one more.
Filled(items, s, n) == \A k \in 1..n : items[s[k]] \in 1..MaxItem
Grown(items, s, u, n) == /\ Filled(items, s, n) /\ items[u[n + 1]] \in 1..MaxItem
                         /\ \A k \in 1..n : items[u[k]] = items[s[k]]

LEMMA ItemsAppend ==
  ASSUME NEW items, NEW n \in Nat, NEW s, NEW u, NEW a \in 0..n, Grown(items, s, u, n)
  PROVE  Items(items, u, a, n + 1) = Append(Items(items, s, a, n), items[u[n + 1]])
<1> DEFINE old == Items(items, s, a, n)
           new == Items(items, u, a, n + 1)
<1> USE DEF Grown, Filled
<1>1. old \in Seq(1..MaxItem) /\ Len(old) = n - a
  BY ItemsType
<1>2. \A k \in 1..(n + 1) : items[u[k]] \in 1..MaxItem
  OBVIOUS
<1>3. new \in Seq(1..MaxItem) /\ Len(new) = n + 1 - a
  BY <1>2, ItemsType
<1>4. \A k \in 1..(n - a) : new[k] = old[k]
  BY DEF Items
<1>5. new[n + 1 - a] = items[u[n + 1]]
  BY DEF Items
<1> HIDE DEF old, new
<1> DEFINE e == items[u[n + 1]]
           longer == Append(old, e)
<1>6. /\ longer \in Seq(1..MaxItem) /\ Len(longer) = n + 1 - a /\ longer[n + 1 - a] = e
      /\ \A k \in 1..(n - a) : longer[k] = old[k]
  BY <1>1
<1> HIDE DEF longer
<1>7. \A k \in 1..Len(new) : new[k] = longer[k]
  BY <1>3, <1>4, <1>5, <1>6
<1>8. new = longer
  BY <1>3, <1>6, <1>7, SeqEqual
<1> QED BY <1>8 DEF old, new, longer

LEMMA ItemsTail ==
  ASSUME NEW items, NEW n \in Nat, NEW s, NEW a \in 0..n, a < n, Filled(items, s, n)
  PROVE  /\ Items(items, s, a, n) # <<>>
         /\ Head(Items(items, s, a, n)) = items[s[a + 1]]
         /\ Tail(Items(items, s, a, n)) = Items(items, s, a + 1, n)
<1> DEFINE old == Items(items, s, a, n)
           new == Items(items, s, a + 1, n)
<1> USE DEF Filled
<1>1. old \in Seq(1..MaxItem) /\ Len(old) = n - a
  BY ItemsType
<1>2. new \in Seq(1..MaxItem) /\ Len(new) = n - (a + 1)
  BY ItemsType
<1>3. old[1] = items[s[a + 1]]
  BY DEF Items
<1>4. \A k \in 1..(n - (a + 1)) : new[k] = old[k + 1]
  BY DEF Items
<1> HIDE DEF old, new
<1>5. old # <<>> /\ Head(old) = old[1]
  BY <1>1
<1>6. Tail(old) = new
  BY <1>1, <1>2, <1>4
<1> QED BY <1>3, <1>5, <1>6 DEF old, new

LEMMA NoItems == ASSUME NEW items, NEW s, NEW n \in Nat PROVE Items(items, s, n, n) = <<>>
BY DEF Items

\* The walk w gives what the sequence s has from place d on.
Shifted(w, s, n, d) == \A k \in 0..(n - d) : w[k] = s[d + k]

\* From the d-th node on.
LEMMA SuffixWalk ==
  ASSUME NEW links, NEW n \in Nat, NEW s \in [0..n -> Nodes], NEW d \in 0..n, NEW w,
         IsList(links, s, n), Walk(w, links, s[d])
  PROVE  Shifted(w, s, n, d)
<1>1. PICK m \in Nat : m = n - d
  OBVIOUS
<1>2. PICK u \in [0..m -> Nodes] : \A i \in 0..m : u[i] = s[d + i]
  <2>1. [i \in 0..m |-> s[d + i]] \in [0..m -> Nodes]
    BY <1>1
  <2> QED BY <2>1
<1>3. IsList(links, u, m)
  BY <1>1, <1>2 DEF IsList
<1>4. Walk(w, links, u[0])
  BY <1>1, <1>2
<1>5. \A k \in 0..m : w[k] = u[k]
  <2>1. m \in Nat /\ u \in [0..m -> Nodes]
    BY <1>1, <1>2
  <2>2. Along(w, u, m)
    BY ONLY <1>3, <1>4, <2>1, WalkIsList
  <2> QED BY <2>2 DEF Along
<1> QED BY <1>1, <1>2, <1>5 DEF Shifted

LEMMA LeastIs ==
  ASSUME NEW w, NEW z, NEW m \in Nat, m <= MaxNode, w[m] = z, \A j \in 0..(m - 1) : w[j] # z
  PROVE  (CHOOSE k \in 0..MaxNode : w[k] = z /\ \A j \in 0..(k - 1) : w[j] # z) = m
<1> DEFINE Is(k) == w[k] = z /\ \A j \in 0..(k - 1) : w[j] # z
<1>1. m \in 0..MaxNode /\ Is(m)
  BY Bounds
<1>2. \A k \in 0..MaxNode : Is(k) => k = m
  <2> SUFFICES ASSUME NEW k \in 0..MaxNode, Is(k), k # m PROVE FALSE
    OBVIOUS
  <2>1. CASE k < m
    BY <2>1, Bounds
  <2>2. CASE k > m
    BY <2>2, Bounds
  <2> QED BY <2>1, <2>2, Bounds
<1> HIDE DEF Is
<1>3. (CHOOSE k \in 0..MaxNode : Is(k)) = m
  BY <1>1, <1>2
<1> QED BY <1>3 DEF Is
-----------------------------------------------------------------------------
(* LocklessQueue: the list runs from _first over _div to _last.            *)

Linking == {"construct", "publish"}
Skip == IF cpc = "publish" THEN 1 ELSE 0

SpscAt(s, n, d) ==
  /\ IsList(next, s, n) /\ s[0] = first /\ s[d] = div /\ s[n] = last
  /\ \A k \in 1..n : item[s[k]] \in 1..MaxItem
  /\ free = Nodes \ (On(s, n) \cup Spsc!Pushing)
  /\ IF ppc \in Linking THEN next[last] \in Nodes \ On(s, n) ELSE next[last] = Null
  /\ ppc = "construct" => pushed < MaxItem
  /\ ppc = "publish" => next[next[last]] = Null /\ item[next[last]] \in 1..MaxItem
  /\ cpc \in {"take", "publish"} => d < n
  /\ length = (n - d + (IF cpc = "length" THEN 1 ELSE 0)
                 + Width - (IF ppc = "length" THEN 1 ELSE 0)) % Width

SpscInv ==
  /\ Spsc!TypeOK
  /\ seen = IF cpc \in {"test", "take", "publish"} THEN div ELSE Null
  /\ IF first = Null
     THEN div = Null /\ last = Null /\ ppc = "idle" /\ cpc = "idle" /\ free = Nodes
     ELSE \E n \in Nat : \E s \in [0..n -> Nodes] : \E d \in 0..n : SpscAt(s, n, d)

LEMMA SpscWalks ==
  /\ Walk(Spsc!Follow(first), next, first) /\ Walk(Spsc!Follow(div), next, div)
  /\ Walk(Spsc!Follow(first)', next', first') /\ Walk(Spsc!Follow(div)', next', div')
<1>1. /\ \E w : Walk(w, next, first)
      /\ \E w : Walk(w, next, div)
      /\ \E w : Walk(w, next', first')
      /\ \E w : Walk(w, next', div')
  BY WalkExists
<1>2. Walk(Spsc!Follow(first), next, first)
  BY <1>1, Zenon DEF Spsc!Follow, Walk, Turn
<1>3. Walk(Spsc!Follow(div), next, div)
  BY <1>1, Zenon DEF Spsc!Follow, Walk, Turn
<1>4. Walk(Spsc!Follow(first)', next', first')
  BY <1>1, Zenon DEF Spsc!Follow, Walk, Turn
<1>5. Walk(Spsc!Follow(div)', next', div')
  BY <1>1, Zenon DEF Spsc!Follow, Walk, Turn
<1> QED BY <1>2, <1>3, <1>4, <1>5

\* What the module's own operators make of that list.
LEMMA SpscSpan ==
  ASSUME NEW n \in Nat, NEW s \in [0..n -> Nodes], NEW d \in 0..n, SpscAt(s, n, d), Spsc!TypeOK
  PROVE  /\ first # Null /\ Spsc!UpToLast(first) = On(s, n)
         /\ last \in Spsc!NodesFrom(first) /\ last \in Spsc!NodesFrom(div)
         /\ Spsc!Inside = Items(item, s, d + Skip, n)
<1>1. /\ IsList(next, s, n) /\ first = s[0] /\ div = s[d] /\ last = s[n]
      /\ n < MaxNode /\ MaxNode \in Nat /\ Null \notin Nodes
  BY ListFits, Bounds DEF SpscAt
<1> DEFINE f == Spsc!Follow(first)
           g == Spsc!Follow(div)
<1> HIDE DEF f, g
<1>2. \A k \in 0..n : f[k] = s[k]
  <2>1. Walk(f, next, s[0])
    BY <1>1, SpscWalks DEF f, g
  <2>2. IsList(next, s, n)
    BY <1>1
  <2>3. Along(f, s, n)
    BY <2>1, <2>2, WalkIsList
  <2> QED BY <2>3 DEF Along
<1>3. \A k \in 0..(n - d) : g[k] = s[d + k]
  <2>1. Walk(g, next, s[d])
    BY <1>1, SpscWalks DEF f, g
  <2>2. Shifted(g, s, n, d)
    BY <1>1, <2>1, SuffixWalk
  <2> QED BY <2>2 DEF Shifted
<1>4. f[n] = last /\ \A j \in 0..(n - 1) : f[j] # last
  BY <1>1, <1>2 DEF IsList
<1>5. n - d \in Nat /\ g[n - d] = last /\ \A j \in 0..(n - d - 1) : g[j] # last
  BY <1>1, <1>3 DEF IsList
<1>6. first # Null /\ div # Null /\ last # Null
  BY <1>1
<1>7. Spsc!Length(first) = n
  BY <1>1, <1>4, <1>6, LeastIs DEF Spsc!Length, f
<1>8. Spsc!Length(div) = n - d
  BY <1>1, <1>5, <1>6, LeastIs DEF Spsc!Length, g
<1>9. Spsc!UpToLast(first) = On(s, n)
  BY <1>2, <1>7 DEF Spsc!UpToLast, f, On
<1>10. last \in Spsc!NodesFrom(first) /\ last \in Spsc!NodesFrom(div)
  BY <1>1, <1>4, <1>5, <1>6 DEF Spsc!NodesFrom, f, g
<1>11. Spsc!Inside = Items(item, s, d + Skip, n)
  <2>1. n - d - Skip = n - (d + Skip) /\ \A k \in 1..(n - d - Skip) : g[k + Skip] = s[d + Skip + k]
    BY <1>3 DEF Skip
  <2> QED BY <1>8, <2>1 DEF Spsc!Inside, Items, Skip, g
<1> QED BY <1>6, <1>9, <1>10, <1>11

LEMMA SpscInsideNext ==
  ASSUME NEW n \in Nat, NEW s \in [0..n -> Nodes], NEW d \in 0..n, SpscAt(s, n, d)', Spsc!TypeOK'
  PROVE  Spsc!Inside' = Items(item', s, d + Skip', n)
<1>1. /\ IsList(next', s, n) /\ div' = s[d] /\ last' = s[n]
      /\ n < MaxNode /\ MaxNode \in Nat /\ Null \notin Nodes
  BY ListFits, Bounds DEF SpscAt
<1> DEFINE g == Spsc!Follow(div)'
<1> HIDE DEF g
<1>3. \A k \in 0..(n - d) : g[k] = s[d + k]
  <2>1. Walk(g, next', s[d])
    BY <1>1, SpscWalks DEF g
  <2>2. IsList(next', s, n)
    BY <1>1
  <2>3. Shifted(g, s, n, d)
    BY <2>1, <2>2, SuffixWalk
  <2> QED BY <2>3 DEF Shifted
<1>5. n - d \in Nat /\ g[n - d] = last' /\ \A j \in 0..(n - d - 1) : g[j] # last'
  BY <1>1, <1>3 DEF IsList
<1>6. div' # Null /\ last' # Null
  BY <1>1
<1>8. Spsc!Length(div)' = n - d
  BY <1>1, <1>5, <1>6, LeastIs DEF Spsc!Length, g
<1>11. Spsc!Inside' = Items(item', s, d + Skip', n)
  <2>1. n - d - Skip' = n - (d + Skip') /\ \A k \in 1..(n - d - Skip') : g[k + Skip'] = s[d + Skip' + k]
    BY <1>3 DEF Skip
  <2> QED BY <1>8, <2>1 DEF Spsc!Inside, Items, Skip, g
<1> QED BY <1>11

\* The steps of the abstract queue.
Moves(old, new) ==
  \/ \E i \in 1..MaxItem : new = Append(old, i) /\ taken' = taken
  \/ old # <<>> /\ taken' = Append(taken, Head(old)) /\ new = Tail(old)
  \/ new = <<>> /\ taken' = taken
  \/ new = old /\ taken' = taken

\* What a step of either thread keeps and does, given the list before it.
SpscKept == SpscInv' /\ Moves(Spsc!Inside, Spsc!Inside')

\* A step that leaves the list alone.
LEMMA SpscFrame ==
  ASSUME NEW n \in Nat, NEW s \in [0..n -> Nodes], NEW d \in 0..n,
         SpscAt(s, n, d), SpscAt(s, n, d)', Spsc!TypeOK, Spsc!TypeOK', Skip' = Skip,
         \A k \in 1..n : item'[s[k]] = item[s[k]], taken' = taken
  PROVE  Moves(Spsc!Inside, Spsc!Inside')
<1>1. Spsc!Inside = Items(item, s, d + Skip, n)
  BY SpscSpan
<1>2. Spsc!Inside' = Items(item', s, d + Skip, n)
  BY SpscInsideNext
<1>3. d + Skip \in 0..n
  BY DEF SpscAt, Skip
<1>4. Items(item', s, d + Skip, n) = Items(item, s, d + Skip, n)
  BY <1>3 DEF Items
<1> QED BY <1>1, <1>2, <1>4 DEF Moves

\* The step keeps the list's nodes where it does not move an end of it.
LEMMA SpscTypes ==
  ASSUME SpscInv, NEW n \in Nat, NEW s \in [0..n -> Nodes], NEW d \in 0..n, SpscAt(s, n, d)
  PROVE  /\ Spsc!TypeOK /\ next \in [Nodes -> Nodes \cup {Null}] /\ item \in [Nodes -> 0..MaxItem]
         /\ first # Null /\ first \in Nodes /\ div \in Nodes /\ last \in Nodes
         /\ pushed \in 0..MaxItem /\ MaxItem \in Nat /\ free \subseteq Nodes
         /\ IsList(next, s, n) /\ s[0] = first /\ s[n] = last /\ s[d] = div
         /\ \A i \in 0..n : s[i] \in On(s, n)
<1>1. Spsc!TypeOK
  BY DEF SpscInv
<1>2. IsList(next, s, n) /\ s[0] = first /\ s[n] = last /\ s[d] = div
  BY DEF SpscAt
<1>3. first \in Nodes /\ last \in Nodes /\ div \in Nodes /\ \A i \in 0..n : s[i] \in On(s, n)
  BY <1>2 DEF On
<1>4. first # Null
  BY <1>3, Bounds
<1>5. /\ next \in [Nodes -> Nodes \cup {Null}] /\ item \in [Nodes -> 0..MaxItem]
      /\ pushed \in 0..MaxItem /\ MaxItem \in Nat /\ free \subseteq Nodes
  BY <1>1, Bounds DEF Spsc!TypeOK, Spsc!Node, Nodes
<1> QED BY <1>1, <1>2, <1>3, <1>4, <1>5

LEMMA PushLinkStep ==
  ASSUME SpscInv, NEW n \in Nat, NEW s \in [0..n -> Nodes], NEW d \in 0..n, SpscAt(s, n, d), Spsc!PushLink
  PROVE  SpscKept
<1> USE DEF Spsc!PushLink, Spsc!consumerVars
<1>0. /\ Spsc!TypeOK /\ next \in [Nodes -> Nodes \cup {Null}] /\ first # Null /\ last \in Nodes
      /\ IsList(next, s, n) /\ s[n] = last
  BY SpscTypes
<1>1. PICK b \in free : free' = free \ {b} /\ next' = [next EXCEPT ![last] = b]
  OBVIOUS
<1>2. b \in Nodes \ On(s, n) /\ next'[last] = b /\ \A x \in Nodes \ {last} : next'[x] = next[x]
  BY <1>0, <1>1 DEF SpscAt, Spsc!Pushing
<1>3. Spsc!TypeOK'
  BY <1>0, <1>1, <1>2 DEF Spsc!TypeOK, Spsc!Node, Nodes
<1>4. IsList(next', s, n)
  <2>1. \A i \in 0..(n - 1) : s[i] # last
    BY <1>0 DEF IsList
  <2>2. \A i \in 0..(n - 1) : next'[s[i]] = next[s[i]]
    BY <1>2, <2>1
  <2> QED BY <1>0, <2>2, SameList
<1>5. SpscAt(s, n, d)'
  <2>1. free' = Nodes \ (On(s, n) \cup Spsc!Pushing')
    BY <1>1, <1>2 DEF SpscAt, Spsc!Pushing
  <2> QED BY <1>2, <1>4, <2>1 DEF SpscAt, Linking
<1>6. Moves(Spsc!Inside, Spsc!Inside')
  BY <1>0, <1>3, <1>5, SpscFrame DEF Skip
<1> QED BY <1>0, <1>3, <1>5, <1>6 DEF SpscKept, SpscInv

LEMMA PushConstructStep ==
  ASSUME SpscInv, NEW n \in Nat, NEW s \in [0..n -> Nodes], NEW d \in 0..n, SpscAt(s, n, d), Spsc!PushConstruct
  PROVE  SpscKept
<1> USE DEF Spsc!PushConstruct, Spsc!consumerVars
<1>0. /\ Spsc!TypeOK /\ next \in [Nodes -> Nodes \cup {Null}] /\ item \in [Nodes -> 0..MaxItem]
      /\ first # Null /\ last \in Nodes /\ pushed \in 0..MaxItem /\ MaxItem \in Nat
      /\ IsList(next, s, n) /\ s[n] = last
  BY SpscTypes
<1>1. PICK b \in Nodes \ On(s, n) : next[last] = b
  BY DEF SpscAt, Linking
<1>2. /\ next' = [next EXCEPT ![b] = Null] /\ item' = [item EXCEPT ![b] = pushed'] /\ b # last
      /\ next'[last] = b /\ next'[b] = Null /\ item'[b] = pushed'
      /\ \A x \in On(s, n) : next'[x] = next[x] /\ item'[x] = item[x]
  <2>1. last \in On(s, n)
    BY <1>0 DEF On
  <2>2. next' = [next EXCEPT ![b] = Null] /\ item' = [item EXCEPT ![b] = pushed']
    BY <1>1
  <2>3. b # last /\ On(s, n) \subseteq Nodes
    BY <1>1, <2>1 DEF On
  <2> QED BY <1>0, <1>1, <2>2, <2>3 DEF Nodes
<1>3. pushed' \in 1..MaxItem
  BY <1>0 DEF SpscAt
<1>4. Spsc!TypeOK'
  BY <1>0, <1>1, <1>2, <1>3 DEF Spsc!TypeOK, Spsc!Node, Nodes
<1>5. \A i \in 0..n : s[i] \in On(s, n)
  BY DEF On
<1>6. IsList(next', s, n)
  <2>1. \A i \in 0..(n - 1) : next'[s[i]] = next[s[i]]
    BY <1>2, <1>5
  <2> QED BY <1>0, <2>1, SameList
<1>7. SpscAt(s, n, d)'
  BY <1>1, <1>2, <1>3, <1>5, <1>6 DEF SpscAt, Linking, Spsc!Pushing
<1>8. Moves(Spsc!Inside, Spsc!Inside')
  <2>1. (\A k \in 1..n : item'[s[k]] = item[s[k]]) /\ Skip' = Skip /\ taken' = taken
    BY <1>2, <1>5 DEF Skip
  <2> QED BY <1>0, <1>4, <1>7, <2>1, SpscFrame
<1> QED BY <1>0, <1>4, <1>7, <1>8 DEF SpscKept, SpscInv

LEMMA PushPublishStep ==
  ASSUME SpscInv, NEW n \in Nat, NEW s \in [0..n -> Nodes], NEW d \in 0..n, SpscAt(s, n, d), Spsc!PushPublish
  PROVE  SpscKept
<1> USE DEF Spsc!PushPublish, Spsc!consumerVars
<1>0. Spsc!TypeOK /\ first # Null /\ last \in Nodes
  BY SpscTypes
<1>1. PICK b \in Nodes \ On(s, n) : next[last] = b /\ next[b] = Null /\ item[b] \in 1..MaxItem
  BY DEF SpscAt, Linking
<1>2. /\ IsList(next, s, n) /\ next[s[n]] = b /\ s[n] = last /\ s[0] = first /\ s[d] = div
      /\ free = Nodes \ (On(s, n) \cup {b}) /\ \A k \in 1..n : item[s[k]] \in 1..MaxItem
  BY <1>1 DEF SpscAt, Spsc!Pushing
<1>3. PICK u \in [0..(n + 1) -> Nodes] :
        /\ IsList(next, u, n + 1) /\ u[n + 1] = b /\ \A i \in 0..n : u[i] = s[i]
        /\ On(u, n + 1) = On(s, n) \cup {b}
  <2>1. IsList(next, s, n) /\ next[s[n]] = b
    BY <1>2
  <2>2. n \in Nat /\ s \in [0..n -> Nodes] /\ b \in Nodes /\ b \notin On(s, n)
    BY <1>1
  <2>3. Longer(next, s, n, b)
    BY <2>1, <2>2, LinkedIsLonger DEF Linked
  <2> QED BY <2>3 DEF Longer
<1>4. Spsc!TypeOK'
  BY <1>0, <1>1 DEF Spsc!TypeOK, Spsc!Node, Nodes
<1>5. SpscAt(u, n + 1, d)'
  <2>1. /\ u[0] = first /\ u[d] = div /\ last' = u[n + 1] /\ next[last'] = Null
        /\ \A k \in 1..(n + 1) : item[u[k]] \in 1..MaxItem
    BY <1>1, <1>2, <1>3
  <2>2. free = Nodes \ (On(u, n + 1) \cup Spsc!Pushing')
    BY <1>2, <1>3 DEF Spsc!Pushing
  <2>3. length' = (n + 1 - d + (IF cpc' = "length" THEN 1 ELSE 0)
                     + Width - (IF ppc' = "length" THEN 1 ELSE 0)) % Width
    <3>1. n + 1 - d + (IF cpc' = "length" THEN 1 ELSE 0) + Width - (IF ppc' = "length" THEN 1 ELSE 0)
            = n - d + (IF cpc = "length" THEN 1 ELSE 0) + Width - (IF ppc = "length" THEN 1 ELSE 0)
      BY Bounds
    <3> QED BY <3>1 DEF SpscAt
  <2>4. cpc' \in {"take", "publish"} => d < n + 1
    OBVIOUS
  <2> QED BY <1>3, <2>1, <2>2, <2>3, <2>4 DEF SpscAt, Linking
<1>6. Spsc!Inside = Items(item, s, d + Skip, n)
  BY <1>0, SpscSpan
<1>6a. d + Skip \in 0..n
  BY DEF SpscAt, Skip
<1>7. Spsc!Inside' = Items(item, u, d + Skip, n + 1)
  <2>1. n + 1 \in Nat /\ d \in 0..(n + 1)
    OBVIOUS
  <2>2. Spsc!Inside' = Items(item', u, d + Skip', n + 1)
    BY <1>3, <1>4, <1>5, <2>1, SpscInsideNext
  <2> QED BY <2>2 DEF Skip
<1>8. Items(item, u, d + Skip, n + 1) = Append(Items(item, s, d + Skip, n), item[u[n + 1]])
  <2>1. Grown(item, s, u, n)
    BY <1>1, <1>2, <1>3 DEF Grown, Filled
  <2>2. n \in Nat /\ d + Skip \in 0..n
    BY <1>6a
  <2> QED BY ONLY <2>1, <2>2, ItemsAppend
<1>9. Moves(Spsc!Inside, Spsc!Inside')
  BY <1>1, <1>3, <1>6, <1>7, <1>8 DEF Moves
<1>10. SpscInv'
  <2>1. /\ first' # Null /\ n + 1 \in Nat /\ d \in 0..(n + 1)
        /\ seen' = IF cpc' \in {"test", "take", "publish"} THEN div' ELSE Null
    BY <1>0 DEF SpscInv
  <2>2. \E m \in Nat : \E v \in [0..m -> Nodes] : \E e \in 0..m : SpscAt(v, m, e)'
    BY <1>3, <1>5, <2>1
  <2> QED BY <1>4, <2>1, <2>2 DEF SpscInv
<1> QED BY <1>9, <1>10 DEF SpscKept

LEMMA SpscCountStep ==
  ASSUME SpscInv, NEW n \in Nat, NEW s \in [0..n -> Nodes], NEW d \in 0..n, SpscAt(s, n, d),
         Spsc!PushLength \/ Spsc!PopLength
  PROVE  SpscKept
<1> USE DEF Spsc!PushLength, Spsc!PopLength, Spsc!consumerVars, Spsc!producerVars
<1>0. Spsc!TypeOK /\ first # Null
  BY SpscTypes
<1> DEFINE c == IF cpc = "length" THEN 1 ELSE 0
           p == IF ppc = "length" THEN 1 ELSE 0
<1>1. length = (n - d + c + Width - p) % Width
  BY DEF SpscAt
<1>2. n - d \in Int /\ Width \in Int
  BY Bounds
<1>3. length' = (n - d + c' + Width - p') % Width /\ length' \in 0..(Width - 1)
  <2>1. CASE Spsc!PushLength
    <3>1. p = 1 /\ p' = 0 /\ c' = c
      BY <2>1
    <3>2. n - d + c + Width - 1 \in Int /\ n - d + c + Width - 1 + 1 = n - d + c + Width
      BY <1>2
    <3>3. (length + 1) % Width = (n - d + c + Width) % Width /\ (n - d + c + Width) % Width \in 0..(Width - 1)
      BY <1>1, <3>1, <3>2, ModStep
    <3> QED BY <1>2, <2>1, <3>1, <3>3
  <2>2. CASE Spsc!PopLength
    <3>1. c = 1 /\ c' = 0 /\ p' = p
      BY <2>2
    <3>2. /\ n - d + 1 + Width - p \in Int /\ n - d + Width - p \in Int
          /\ n - d + 1 + Width - p + Width - 1 = (n - d + Width - p) + Width
          /\ n - d + Width - p = n - d + 0 + Width - p
      BY <1>2
    <3>3. (length + Width - 1) % Width = ((n - d + 1 + Width - p) + Width - 1) % Width
      BY <1>1, <3>1, <3>2, ModStep
    <3>4. ((n - d + Width - p) + Width) % Width = (n - d + Width - p) % Width
          /\ (n - d + Width - p) % Width \in 0..(Width - 1)
      BY <3>2, ModStep
    <3> QED BY <2>2, <3>1, <3>2, <3>3, <3>4
  <2> QED BY <2>1, <2>2
<1>4. Spsc!TypeOK'
  BY <1>0, <1>3 DEF Spsc!TypeOK
<1>5. SpscAt(s, n, d)'
  BY <1>3 DEF SpscAt, Linking, Spsc!Pushing
<1>6. Moves(Spsc!Inside, Spsc!Inside')
  <2>1. (\A k \in 1..n : item'[s[k]] = item[s[k]]) /\ Skip' = Skip /\ taken' = taken
    BY DEF Skip
  <2> QED BY <1>0, <1>4, <1>5, <2>1, SpscFrame
<1>7. seen' = IF cpc' \in {"test", "take", "publish"} THEN div' ELSE Null
  BY DEF SpscInv
<1> QED BY <1>0, <1>4, <1>5, <1>6, <1>7 DEF SpscKept, SpscInv

LEMMA SpscLookStep ==
  ASSUME SpscInv, NEW n \in Nat, NEW s \in [0..n -> Nodes], NEW d \in 0..n, SpscAt(s, n, d),
         Spsc!Pop \/ Spsc!PopTest
  PROVE  SpscKept
<1> USE DEF Spsc!Pop, Spsc!PopTest, Spsc!producerVars
<1>0. Spsc!TypeOK /\ first # Null /\ s[n] = last /\ s[d] = div
  BY SpscTypes
<1>1. seen' = IF cpc' \in {"test", "take", "publish"} THEN div' ELSE Null
  BY DEF SpscInv
<1>2. cpc' \in {"take", "publish"} => d < n
  BY <1>0 DEF SpscInv
<1>3. Spsc!TypeOK'
  BY <1>0 DEF Spsc!TypeOK
<1>4. SpscAt(s, n, d)'
  BY <1>2 DEF SpscAt, Linking, Spsc!Pushing
<1>5. Moves(Spsc!Inside, Spsc!Inside')
  <2>1. (\A k \in 1..n : item'[s[k]] = item[s[k]]) /\ Skip' = Skip /\ taken' = taken
    BY DEF Skip
  <2> QED BY <1>0, <1>3, <1>4, <2>1, SpscFrame
<1> QED BY <1>0, <1>1, <1>3, <1>4, <1>5 DEF SpscKept, SpscInv

LEMMA PopTakeStep ==
  ASSUME SpscInv, NEW n \in Nat, NEW s \in [0..n -> Nodes], NEW d \in 0..n, SpscAt(s, n, d), Spsc!PopTake
  PROVE  SpscKept
<1> USE DEF Spsc!PopTake, Spsc!producerVars
<1>0. Spsc!TypeOK /\ first # Null /\ IsList(next, s, n) /\ s[d] = div
  BY SpscTypes
<1>1. d < n /\ seen = div /\ \A k \in 1..n : item[s[k]] \in 1..MaxItem
  BY DEF SpscAt, SpscInv
<1>2. next[seen] = s[d + 1]
  BY <1>0, <1>1 DEF IsList
<1>3. item[next[seen]] \in 1..MaxItem /\ taken \in Seq(1..MaxItem)
  BY <1>0, <1>1, <1>2 DEF Spsc!TypeOK, Spsc!Item
<1>4. taken' \in Seq(1..MaxItem)
  BY <1>3
<1>5. Spsc!TypeOK'
  BY <1>0, <1>4 DEF Spsc!TypeOK, Spsc!Item
<1>6. SpscAt(s, n, d)'
  BY <1>1 DEF SpscAt, Linking, Spsc!Pushing
<1>7. Spsc!Inside = Items(item, s, d, n)
  <2>1. Spsc!Inside = Items(item, s, d + Skip, n)
    BY <1>0, SpscSpan
  <2> QED BY <2>1 DEF Skip
<1>8. Spsc!Inside' = Items(item, s, d + 1, n)
  <2>1. Spsc!Inside' = Items(item', s, d + Skip', n)
    BY <1>5, <1>6, SpscInsideNext
  <2> QED BY <2>1 DEF Skip
<1>9. Moves(Spsc!Inside, Spsc!Inside')
  <2>1. /\ Items(item, s, d, n) # <<>> /\ Head(Items(item, s, d, n)) = item[s[d + 1]]
        /\ Tail(Items(item, s, d, n)) = Items(item, s, d + 1, n)
    <3>1. Filled(item, s, n) /\ d < n
      BY <1>1 DEF Filled
    <3> QED BY <3>1, ItemsTail
  <2> QED BY <1>2, <1>7, <1>8, <2>1 DEF Moves
<1>10. seen' = IF cpc' \in {"test", "take", "publish"} THEN div' ELSE Null
  BY <1>1
<1> QED BY <1>0, <1>5, <1>6, <1>9, <1>10 DEF SpscKept, SpscInv

LEMMA PopPublishStep ==
  ASSUME SpscInv, NEW n \in Nat, NEW s \in [0..n -> Nodes], NEW d \in 0..n, SpscAt(s, n, d), Spsc!PopPublish
  PROVE  SpscKept
<1> USE DEF Spsc!PopPublish, Spsc!producerVars
<1>0. Spsc!TypeOK /\ first # Null /\ IsList(next, s, n) /\ s[d] = div
  BY SpscTypes
<1>1. d < n /\ seen = div /\ d + 1 \in 0..n
  BY DEF SpscAt, SpscInv
<1>2. div' = s[d + 1] /\ div' \in Nodes
  BY <1>0, <1>1 DEF IsList
<1>3. Spsc!TypeOK'
  BY <1>0, <1>2 DEF Spsc!TypeOK, Spsc!Node, Nodes
<1>4. SpscAt(s, n, d + 1)'
  <2>1. length = (n - (d + 1) + (IF cpc' = "length" THEN 1 ELSE 0)
                    + Width - (IF ppc' = "length" THEN 1 ELSE 0)) % Width
    <3>1. n - (d + 1) + (IF cpc' = "length" THEN 1 ELSE 0) + Width - (IF ppc' = "length" THEN 1 ELSE 0)
            = n - d + (IF cpc = "length" THEN 1 ELSE 0) + Width - (IF ppc = "length" THEN 1 ELSE 0)
      BY Bounds
    <3> QED BY <3>1 DEF SpscAt
  <2> QED BY <1>1, <1>2, <2>1 DEF SpscAt, Linking, Spsc!Pushing
<1>5. Spsc!Inside = Items(item, s, d + 1, n)
  <2>1. Spsc!Inside = Items(item, s, d + Skip, n)
    BY <1>0, SpscSpan
  <2> QED BY <2>1 DEF Skip
<1>6. Spsc!Inside' = Items(item, s, d + 1, n)
  <2> DEFINE e == d + 1
  <2>1. e \in 0..n /\ SpscAt(s, n, e)'
    BY <1>1, <1>4
  <2> HIDE DEF e
  <2>2. Spsc!Inside' = Items(item', s, e + Skip', n)
    BY <1>3, <2>1, SpscInsideNext
  <2>3. e + Skip' = d + 1
    BY DEF Skip, e
  <2> QED BY <2>2, <2>3
<1>7. Moves(Spsc!Inside, Spsc!Inside')
  BY <1>5, <1>6 DEF Moves
<1> QED BY <1>0, <1>1, <1>3, <1>4, <1>7 DEF SpscKept, SpscInv

LEMMA CollectStep ==
  ASSUME SpscInv, NEW n \in Nat, NEW s \in [0..n -> Nodes], NEW d \in 0..n, SpscAt(s, n, d), Spsc!Collect
  PROVE  SpscKept
<1> USE DEF Spsc!Collect, Spsc!consumerVars
<1>0. /\ Spsc!TypeOK /\ first # Null /\ IsList(next, s, n) /\ s[0] = first /\ s[d] = div /\ s[n] = last
      /\ free \subseteq Nodes
  BY SpscTypes
<1>1. CASE first = div
  <2>1. Spsc!TypeOK'
    BY <1>0, <1>1 DEF Spsc!TypeOK
  <2>2. SpscAt(s, n, d)'
    BY <1>1 DEF SpscAt, Linking, Spsc!Pushing
  <2>3. (\A k \in 1..n : item'[s[k]] = item[s[k]]) /\ Skip' = Skip /\ taken' = taken
    BY DEF Skip
  <2>4. Moves(Spsc!Inside, Spsc!Inside')
    BY <1>0, <2>1, <2>2, <2>3, SpscFrame
  <2> QED BY <1>0, <1>1, <2>1, <2>2, <2>4 DEF SpscKept, SpscInv
<1>2. CASE first # div
  <2>1. d > 0 /\ n > 0 /\ n \in Nat \ {0} /\ n - 1 \in Nat /\ d - 1 \in 0..(n - 1)
    BY <1>0, <1>2
  <2>2. PICK u \in [0..(n - 1) -> Nodes] :
          /\ IsList(next, u, n - 1) /\ \A i \in 0..(n - 1) : u[i] = s[i + 1]
          /\ On(u, n - 1) = On(s, n) \ {s[0]}
    <3>1. n \in Nat /\ n > 0 /\ s \in [0..n -> Nodes]
      BY <2>1
    <3>2. IsList(next, s, n)
      BY <1>0
    <3>3. Shorter(next, s, n)
      BY <3>1, <3>2, TailIsShorter DEF NotSingle
    <3> QED BY <3>3 DEF Shorter
  <2>3. next[first] = s[1] /\ s[1] \in Nodes
    BY <1>0, <2>1 DEF IsList
  <2>4. Spsc!TypeOK'
    BY <1>0, <1>2, <2>3 DEF Spsc!TypeOK, Spsc!Node, Nodes
  <2>5. SpscAt(u, n - 1, d - 1)'
    <3>1. u[0] = first' /\ u[d - 1] = div /\ u[n - 1] = last /\ \A k \in 1..(n - 1) : item[u[k]] \in 1..MaxItem
      BY <1>0, <1>2, <2>1, <2>2, <2>3 DEF SpscAt
    <3>2. free' = Nodes \ (On(u, n - 1) \cup Spsc!Pushing')
      <4>1. free = Nodes \ On(s, n) /\ s[0] \in On(s, n) /\ s[0] \in Nodes
        BY DEF SpscAt, Spsc!Pushing, On
      <4> QED BY <1>0, <1>2, <2>2, <4>1 DEF Spsc!Pushing
    <3>3. length = (n - 1 - (d - 1) + (IF cpc' = "length" THEN 1 ELSE 0)
                      + Width - (IF ppc' = "length" THEN 1 ELSE 0)) % Width
      <4>1. n - 1 - (d - 1) = n - d
        OBVIOUS
      <4> QED BY <1>2, <4>1 DEF SpscAt
    <3>4. next[last] = Null /\ (cpc \in {"take", "publish"} => d - 1 < n - 1)
      BY DEF SpscAt, Linking
    <3> QED BY <1>2, <2>2, <3>1, <3>2, <3>3, <3>4 DEF SpscAt, Linking
  <2>6. Spsc!Inside = Items(item, s, d + Skip, n)
    BY <1>0, SpscSpan
  <2>7. Spsc!Inside' = Items(item, u, (d - 1) + Skip, n - 1)
    <3>1. Spsc!Inside' = Items(item', u, (d - 1) + Skip', n - 1)
      BY <2>1, <2>2, <2>4, <2>5, SpscInsideNext
    <3> QED BY <3>1 DEF Skip
  <2>8. Items(item, u, (d - 1) + Skip, n - 1) = Items(item, s, d + Skip, n)
    <3>1. /\ n - 1 - ((d - 1) + Skip) = n - (d + Skip)
          /\ \A k \in 1..(n - (d + Skip)) : u[(d - 1) + Skip + k] = s[d + Skip + k]
      BY <2>1, <2>2 DEF Skip
    <3> QED BY <3>1 DEF Items
  <2>9. Moves(Spsc!Inside, Spsc!Inside')
    BY <2>6, <2>7, <2>8 DEF Moves
  <2>10. first' # Null
    BY <1>2, <2>3, Bounds
  <2> QED BY <1>0, <1>2, <2>1, <2>2, <2>4, <2>5, <2>9, <2>10 DEF SpscKept, SpscInv
<1> QED BY <1>1, <1>2

LEMMA SpscDestroyStep ==
  ASSUME SpscInv, NEW n \in Nat, NEW s \in [0..n -> Nodes], NEW d \in 0..n, SpscAt(s, n, d), Spsc!Destroy
  PROVE  SpscKept
<1> USE DEF Spsc!Destroy
<1>0. /\ Spsc!TypeOK /\ IsList(next, s, n) /\ s[0] = first /\ s[n] = last /\ free \subseteq Nodes
  BY SpscTypes
<1>1. next[s[n]] = Null /\ free = Nodes \ On(s, n)
  BY <1>0 DEF SpscAt, Linking, Spsc!Pushing
<1>2. Spsc!NodesFrom(first) = On(s, n)
  <2>1. Walk(Spsc!Follow(first), next, s[0])
    BY <1>0, SpscWalks
  <2>2. {Spsc!Follow(first)[k] : k \in 0..MaxNode} \ {Null} = On(s, n)
    BY <1>0, <1>1, <2>1, WalkMeets
  <2> QED BY <2>2 DEF Spsc!NodesFrom
<1>3. On(s, n) \subseteq Nodes
  BY DEF On
<1>4. free' = Nodes /\ first' = Null /\ div' = Null /\ last' = Null
  BY <1>1, <1>2, <1>3
<1>5. Spsc!TypeOK'
  BY <1>0, <1>4 DEF Spsc!TypeOK, Spsc!Node, Nodes
<1>6. seen' = IF cpc' \in {"test", "take", "publish"} THEN div' ELSE Null
  BY DEF SpscInv
<1>7. Spsc!Inside' = <<>>
  <2>1. Spsc!Length(div)' = 0
    BY <1>4 DEF Spsc!Length
  <2> QED BY <2>1 DEF Spsc!Inside
<1>8. Moves(Spsc!Inside, Spsc!Inside')
  BY <1>7 DEF Moves
<1> QED BY <1>4, <1>5, <1>6, <1>8 DEF SpscKept, SpscInv

LEMMA SpscStep ==
  ASSUME SpscInv, Spsc!Next
  PROVE  SpscKept
<1>1. CASE first # Null
  <2>1. PICK n \in Nat : \E s \in [0..n -> Nodes] : \E d \in 0..n : SpscAt(s, n, d)
    BY <1>1 DEF SpscInv
  <2>2. PICK s \in [0..n -> Nodes] : \E d \in 0..n : SpscAt(s, n, d)
    BY <2>1
  <2>3. PICK d \in 0..n : SpscAt(s, n, d)
    BY <2>2
  <2>4. ~Spsc!Terminated
    BY <1>1 DEF Spsc!Terminated
  <2> QED BY <2>3, <2>4, PushLinkStep, PushConstructStep, PushPublishStep, SpscCountStep,
             SpscLookStep,
             PopTakeStep, PopPublishStep, CollectStep, SpscDestroyStep
          DEF Spsc!Next, Spsc!Produce, Spsc!Consume
<1>2. CASE first = Null
  <2>1. ppc = "idle" /\ cpc = "idle"
    BY <1>2 DEF SpscInv
  <2>2. UNCHANGED Spsc!vars
    BY <1>2, <2>1 DEF Spsc!Next, Spsc!Produce, Spsc!Consume, Spsc!Terminated, Spsc!PushLink,
       Spsc!PushConstruct,
          Spsc!PushPublish, Spsc!PushLength, Spsc!Collect, Spsc!Pop, Spsc!PopTest, Spsc!PopTake, Spsc!PopPublish,
          Spsc!PopLength, Spsc!Destroy
  <2>3. SpscInv'
    BY <1>2, <2>2 DEF SpscInv, Spsc!TypeOK, Spsc!vars
  <2>4. Spsc!Inside' = Spsc!Inside /\ taken' = taken
    BY <2>2 DEF Spsc!vars, Spsc!Inside, Spsc!Length, Spsc!Follow
  <2> QED BY <2>3, <2>4 DEF SpscKept, Moves
<1> QED BY <1>1, <1>2

LEMMA SpscInit ==
  ASSUME Spsc!Init
  PROVE  SpscInv /\ Spsc!Inside = <<>>
<1> USE Bounds DEF Spsc!Init
<1>1. Spsc!TypeOK
  BY DEF Spsc!TypeOK, Spsc!Node, Spsc!Item
<1> DEFINE s == [i \in 0..0 |-> 1]
<1>2. s \in [0..0 -> Nodes] /\ s[0] = 1 /\ 1 \in Nodes
  BY DEF Nodes
<1> HIDE DEF s
<1>3. On(s, 0) = {1}
  BY <1>2 DEF On
<1>4. length = (0 - 0 + 0 + Width - 0) % Width
  <2>1. (0 + Width) % Width = 0 % Width
    BY ModStep
  <2>2. 0 % Width = 0
    OBVIOUS
  <2> QED BY <2>1, <2>2
<1>5. IsList(next, s, 0)
  BY <1>2 DEF IsList
<1>6. /\ ppc = "idle" /\ cpc = "idle" /\ first = 1 /\ div = 1 /\ last = 1 /\ next[1] = Null /\ free = Nodes \ {1}
  BY <1>2 DEF Spsc!Node, Nodes
<1>7. SpscAt(s, 0, 0)
  BY <1>2, <1>3, <1>4, <1>5, <1>6 DEF SpscAt, Linking, Spsc!Pushing
<1>8. 1 # Null
  BY <1>2
<1>9. SpscInv
  <2>1. 0 \in Nat /\ 0 \in 0..0
    OBVIOUS
  <2>2. \E n \in Nat : \E u \in [0..n -> Nodes] : \E d \in 0..n : SpscAt(u, n, d)
    BY ONLY <1>2, <1>7, <2>1, Zenon
  <2>3. first # Null /\ seen = IF cpc \in {"test", "take", "publish"} THEN div ELSE Null
    BY <1>6, <1>8
  <2> QED BY ONLY <1>1, <2>2, <2>3 DEF SpscInv
<1>10. Spsc!Inside = Items(item, s, 0, 0)
  <2>1. PICK z : z = 0
    OBVIOUS
  <2>2. z \in Nat /\ s \in [0..z -> Nodes] /\ z \in 0..z /\ SpscAt(s, z, z)
    BY <1>2, <1>7, <2>1
  <2>3. Spsc!Inside = Items(item, s, z + Skip, z)
    BY ONLY <1>1, <2>2, SpscSpan
  <2> QED BY <1>6, <2>1, <2>3 DEF Skip
<1> QED BY <1>9, <1>10, NoItems

\* What the invariant says in the module's own terms.
LEMMA SpscMeans ==
  ASSUME SpscInv
  PROVE  Spsc!NoUseAfterFree /\ Spsc!NoLeak /\ Spsc!LengthTracks
<1>1. CASE first = Null
  BY <1>1 DEF SpscInv, Spsc!NoUseAfterFree, Spsc!NoLeak, Spsc!LengthTracks, Spsc!Node, Nodes
<1>2. CASE first # Null
  <2>1. PICK n \in Nat : \E s \in [0..n -> Nodes] : \E d \in 0..n : SpscAt(s, n, d)
    BY <1>2 DEF SpscInv
  <2>2. PICK s \in [0..n -> Nodes] : \E d \in 0..n : SpscAt(s, n, d)
    BY <2>1
  <2>3. PICK d \in 0..n : SpscAt(s, n, d)
    BY <2>2
  <2>4. /\ Spsc!UpToLast(first) = On(s, n)
        /\ last \in Spsc!NodesFrom(first) /\ last \in Spsc!NodesFrom(div)
        /\ Spsc!Inside = Items(item, s, d + Skip, n)
    BY <2>3, SpscSpan DEF SpscInv
  <2>5. div \in On(s, n) /\ On(s, n) \cup Spsc!Pushing \subseteq Nodes
    BY <2>3 DEF SpscAt, On, Linking, Spsc!Pushing
  <2>6. free = Nodes \ (On(s, n) \cup Spsc!Pushing)
    BY <2>3 DEF SpscAt
  <2>7. Spsc!NoUseAfterFree
    <3>1. first \in On(s, n) /\ last \in On(s, n)
      BY <2>3 DEF SpscAt, On
    <3>2. cpc \in {"take", "publish"} => seen \in On(s, n) /\ next[seen] \in On(s, n)
      <4>1. cpc \in {"take", "publish"} => seen = s[d] /\ d \in 0..(n - 1)
        BY <2>3 DEF SpscAt, SpscInv
      <4>2. d \in 0..(n - 1) => next[s[d]] = s[d + 1] /\ d + 1 \in 0..n
        BY <2>3 DEF SpscAt, IsList
      <4> QED BY <4>1, <4>2 DEF On
    <3>3. On(s, n) \cup Spsc!Pushing \subseteq Spsc!Node \ free
      BY <2>5, <2>6 DEF Spsc!Node, Nodes
    <3>4. Spsc!ProducerUses \cup Spsc!ConsumerUses \subseteq On(s, n) \cup Spsc!Pushing
      BY <3>1, <3>2 DEF Spsc!ProducerUses, Spsc!ConsumerUses
    <3> QED BY <2>4, <2>5, <2>6, <3>3, <3>4 DEF Spsc!NoUseAfterFree
  <2>8. Spsc!NoLeak
    BY <1>2, <2>4, <2>5, <2>6 DEF Spsc!NoLeak, Spsc!Node, Nodes
  <2>9. Len(Spsc!Inside) = n - (d + Skip)
    <3>1. d + Skip \in 0..n /\ \A k \in 1..n : item[s[k]] \in 1..MaxItem
      BY <2>3 DEF SpscAt, Skip
    <3> QED BY <2>4, <3>1, ItemsType
  <2>10. length = (n - d + (IF cpc = "length" THEN 1 ELSE 0) + Width - (IF ppc = "length" THEN 1 ELSE 0)) % Width
    BY <2>3 DEF SpscAt
  <2>11. Len(Spsc!Inside) + (IF cpc \in {"publish", "length"} THEN 1 ELSE 0)
           = n - d + (IF cpc = "length" THEN 1 ELSE 0)
    BY <2>9 DEF Skip
  <2>12. Spsc!LengthTracks
    BY <2>10, <2>11 DEF Spsc!LengthTracks
  <2> QED BY <2>7, <2>8, <2>12
<1> QED BY <1>1, <1>2
-----------------------------------------------------------------------------
(* MicroLockQueue: the list runs from _div to the node the last producer   *)
(* has linked, where _last points unless that producer has still to set it.*)

\* Has taken an item that is not counted yet; has linked one.
Counts(t) == pc[t] \in {"c_free", "c_length"} \/ (pc[t] = "c_clear" /\ node[t] # Null)
Leads(t) == pc[t] \in {"p_last", "p_clear", "p_length"}

Counting == {t \in Thread : Counts(t)}
Leading == {t \in Thread : Leads(t)}

Flags == \A t \in Thread : /\ pc[t] \in {"p_link", "p_last", "p_clear"} <=> pflag = t
                           /\ pc[t] \in {"c_next", "c_take", "c_clear"} <=> cflag = t

\* What a thread has in its hands.
Hand(t) ==
  /\ pc[t] \in {"p_flag", "p_link", "p_last", "c_look", "c_free"} => node[t] \in Nodes
  /\ pc[t] \in {"idle", "p_clear", "p_length", "c_flag", "c_next", "c_take", "c_length"} => node[t] = Null
  /\ pc[t] \in {"p_flag", "p_link"} => item[node[t]] \in 1..MaxItem /\ next[node[t]] = Null
  /\ pc[t] = "c_take" => next[div] # Null

\* Every node is free, in the list, or in one thread's hands.
Apart(s, n) ==
  /\ \A x \in Nodes : x \in free \/ x \in On(s, n) \/ \E t \in Thread : x \in Mpmc!Held(t)
  /\ free \cap On(s, n) = {}
  /\ \A t \in Thread : Mpmc!Held(t) \cap (free \cup On(s, n)) = {}
  /\ \A t, u \in Thread : t # u => Mpmc!Held(t) \cap Mpmc!Held(u) = {}

Links(s, n) ==
  /\ IsList(next, s, n) /\ s[0] = div /\ next[s[n]] = Null
  /\ \A k \in 1..n : item[s[k]] \in 1..MaxItem
  /\ \A t \in Thread : pc[t] = "p_last" => node[t] = s[n]
  /\ last = s[n] \/ \E t \in Thread : pc[t] = "p_last"

Counted(n) == length = (n + Cardinality(Counting) + Width - Cardinality(Leading)) % Width

MpmcAt(s, n) == Links(s, n) /\ Apart(s, n) /\ Counted(n)

MpmcInv ==
  /\ Mpmc!TypeOK
  /\ IF div = Null
     THEN (\A t \in Thread : pc[t] = "idle") /\ last = Null /\ free = Nodes
     ELSE /\ Flags /\ \A t \in Thread : Hand(t)
          /\ \E n \in Nat : \E s \in [0..n -> Nodes] : MpmcAt(s, n)

MpmcKept == MpmcInv' /\ Moves(Mpmc!Inside, Mpmc!Inside')

\* Only t moves: it goes to `to' and has x in its hands.
Alone(t, to, x) == /\ pc'[t] = to /\ node'[t] = x
                   /\ \A u \in Thread \ {t} : pc'[u] = pc[u] /\ node'[u] = node[u]

LEMMA SameCounting == \A S : /\ Mpmc!Cardinality(S) = Cardinality(S)
                             /\ Mpmc!IsFiniteSet(S) <=> IsFiniteSet(S)
BY DEF Mpmc!Cardinality, Cardinality, Mpmc!IsFiniteSet, IsFiniteSet

LEMMA CountOne ==
  ASSUME NEW S \in SUBSET Thread, NEW S2 \in SUBSET Thread, NEW t \in Thread,
         \A u \in Thread \ {t} : u \in S2 <=> u \in S
  PROVE  /\ Cardinality(S) \in Nat
         /\ Cardinality(S2) = Cardinality(S) + (IF t \in S2 THEN 1 ELSE 0) - (IF t \in S THEN 1 ELSE 0)
<1>1. IsFiniteSet(S) /\ Cardinality(S) \in Nat
  <2>1. IsFiniteSet(Thread)
    BY ManyProducersAssumption, SameCounting DEF Mpmc!Assumptions
  <2> QED BY <2>1, FS_Subset, FS_CardinalityType
<1>2. CASE t \in S2 /\ t \notin S
  <2>1. S2 = S \cup {t}
    BY <1>2
  <2> QED BY <1>1, <1>2, <2>1, FS_AddElement
<1>3. CASE t \notin S2 /\ t \in S
  <2>1. S2 = S \ {t}
    BY <1>3
  <2> QED BY <1>1, <1>3, <2>1, FS_RemoveElement
<1>4. CASE t \in S2 <=> t \in S
  <2>1. S2 = S
    BY <1>4
  <2> QED BY <1>1, <2>1
<1> QED BY <1>1, <1>2, <1>3, <1>4

LEMMA CountStep ==
  ASSUME NEW t \in Thread, NEW to, NEW x, Alone(t, to, x)
  PROVE  /\ Cardinality(Counting) \in Nat /\ Cardinality(Leading) \in Nat
         /\ Cardinality(Counting') = Cardinality(Counting)
              + (IF Counts(t)' THEN 1 ELSE 0) - (IF Counts(t) THEN 1 ELSE 0)
         /\ Cardinality(Leading') = Cardinality(Leading)
              + (IF Leads(t)' THEN 1 ELSE 0) - (IF Leads(t) THEN 1 ELSE 0)
<1>1. /\ \A u \in Thread \ {t} : u \in Counting' <=> u \in Counting
      /\ \A u \in Thread \ {t} : u \in Leading' <=> u \in Leading
  BY DEF Alone, Counting, Leading, Counts, Leads
<1>2. /\ t \in Counting <=> Counts(t)
      /\ t \in Counting' <=> Counts(t)'
      /\ t \in Leading <=> Leads(t)
      /\ t \in Leading' <=> Leads(t)'
  BY DEF Counting, Leading
<1>3. /\ Counting \in SUBSET Thread /\ Counting' \in SUBSET Thread
      /\ Leading \in SUBSET Thread /\ Leading' \in SUBSET Thread
  BY DEF Counting, Leading
<1>4. /\ Cardinality(Counting) \in Nat
      /\ Cardinality(Counting') = Cardinality(Counting)
           + (IF t \in Counting' THEN 1 ELSE 0) - (IF t \in Counting THEN 1 ELSE 0)
  BY <1>1, <1>3, CountOne
<1>5. /\ Cardinality(Leading) \in Nat
      /\ Cardinality(Leading') = Cardinality(Leading)
           + (IF t \in Leading' THEN 1 ELSE 0) - (IF t \in Leading THEN 1 ELSE 0)
  BY <1>1, <1>3, CountOne
<1> QED BY <1>2, <1>4, <1>5

\* The numbers of a step that neither counts nor moves an item.
LEMMA CountedStays ==
  ASSUME NEW n \in Nat, NEW m \in Nat, NEW t \in Thread, NEW to, NEW x, Alone(t, to, x), Counted(n), length' = length,
         m + (IF Counts(t)' THEN 1 ELSE 0) - (IF Leads(t)' THEN 1 ELSE 0)
           = n + (IF Counts(t) THEN 1 ELSE 0) - (IF Leads(t) THEN 1 ELSE 0)
  PROVE  Counted(m)'
<1> DEFINE c == Cardinality(Counting)
           l == Cardinality(Leading)
           c2 == Cardinality(Counting')
           l2 == Cardinality(Leading')
<1>1. /\ c \in Nat /\ l \in Nat
      /\ c2 = c + (IF Counts(t)' THEN 1 ELSE 0) - (IF Counts(t) THEN 1 ELSE 0)
      /\ l2 = l + (IF Leads(t)' THEN 1 ELSE 0) - (IF Leads(t) THEN 1 ELSE 0)
  BY CountStep
<1>2. length = (n + c + Width - l) % Width
  BY DEF Counted
<1> HIDE DEF c, l, c2, l2
<1>3. m + c2 + Width - l2 = n + c + Width - l
  BY <1>1, Bounds
<1>4. length' = (m + c2 + Width - l2) % Width
  BY <1>2, <1>3
<1> QED BY <1>4 DEF Counted, c2, l2

LEMMA MpmcWalks == /\ Walk(Mpmc!Follow(div), next, div)
                   /\ Walk(Mpmc!Follow(div)', next', div')
<1>1. /\ \E w : Walk(w, next, div)
      /\ \E w : Walk(w, next', div')
  BY WalkExists
<1>2. Walk(Mpmc!Follow(div), next, div)
  BY <1>1, Zenon DEF Mpmc!Follow, Walk, Turn
<1>3. Walk(Mpmc!Follow(div)', next', div')
  BY <1>1, Zenon DEF Mpmc!Follow, Walk, Turn
<1> QED BY <1>2, <1>3

LEMMA MpmcSpan ==
  ASSUME NEW n \in Nat, NEW s \in [0..n -> Nodes], Links(s, n)
  PROVE  /\ div # Null /\ Mpmc!NodesFrom(div) = On(s, n)
         /\ Mpmc!Inside = Items(item, s, 0, n) /\ Len(Mpmc!Inside) = n
<1>1. IsList(next, s, n) /\ div = s[0] /\ next[s[n]] = Null /\ \A k \in 1..n : item[s[k]] \in 1..MaxItem
  BY DEF Links
<1> DEFINE w == Mpmc!Follow(div)
<1>2. Walk(w, next, s[0])
  BY <1>1, MpmcWalks
<1> HIDE DEF w
<1>3. \A k \in 0..n : w[k] = s[k]
  <2>1. Along(w, s, n)
    BY <1>1, <1>2, WalkIsList
  <2> QED BY <2>1 DEF Along
<1>4. {w[k] : k \in 0..MaxNode} \ {Null} = On(s, n)
  BY <1>1, <1>2, WalkMeets
<1>5. div # Null /\ Mpmc!NodesFrom(div) = On(s, n)
  BY <1>1, <1>4, Bounds DEF Mpmc!NodesFrom, w
<1>6. Mpmc!Cardinality(Mpmc!NodesFrom(div)) - 1 = n
  <2>1. Cardinality(On(s, n)) = n + 1
    BY <1>1, OnCount
  <2> QED BY <1>5, <2>1, SameCounting
<1>7. Mpmc!Inside = Items(item, s, 0, n)
  <2>1. Mpmc!Inside = [k \in 1..n |-> item[w[k]]]
    BY <1>5, <1>6 DEF Mpmc!Inside, w
  <2> QED BY <1>3, <2>1 DEF Items
<1>8. Len(Items(item, s, 0, n)) = n
  <2>1. PICK z \in 0..n : z = 0
    OBVIOUS
  <2>2. Len(Items(item, s, z, n)) = n - z
    BY <1>1, ItemsType
  <2> QED BY <2>1, <2>2
<1> QED BY <1>5, <1>7, <1>8

LEMMA MpmcSpanNext ==
  ASSUME NEW n \in Nat, NEW s \in [0..n -> Nodes], Links(s, n)'
  PROVE  div' # Null /\ Mpmc!Inside' = Items(item', s, 0, n)
<1>1. IsList(next', s, n) /\ div' = s[0] /\ next'[s[n]] = Null
  BY DEF Links
<1> DEFINE w == Mpmc!Follow(div)'
<1>2. Walk(w, next', s[0])
  BY <1>1, MpmcWalks
<1> HIDE DEF w
<1>3. \A k \in 0..n : w[k] = s[k]
  <2>1. Along(w, s, n)
    BY <1>1, <1>2, WalkIsList
  <2> QED BY <2>1 DEF Along
<1>4. {w[k] : k \in 0..MaxNode} \ {Null} = On(s, n)
  BY <1>1, <1>2, WalkMeets
<1>5. div' # Null /\ Mpmc!NodesFrom(div)' = On(s, n)
  BY <1>1, <1>4, Bounds DEF Mpmc!NodesFrom, w
<1>6. Mpmc!Cardinality(Mpmc!NodesFrom(div)') - 1 = n
  <2>1. Cardinality(On(s, n)) = n + 1
    BY <1>1, OnCount
  <2> QED BY <1>5, <2>1, SameCounting
<1>7. Mpmc!Inside' = [k \in 1..n |-> item'[w[k]]]
  BY <1>5, <1>6 DEF Mpmc!Inside, w
<1> QED BY <1>3, <1>5, <1>7 DEF Items

\* The other threads' nodes stay apart when t exchanges one with the list or the allocator.
LEMMA ApartStep ==
  ASSUME NEW n, NEW s, NEW m, NEW u, NEW t \in Thread, NEW to, NEW x, Alone(t, to, x), Apart(s, n),
         free' \cup On(u, m) \cup Mpmc!Held(t)' = free \cup On(s, n) \cup Mpmc!Held(t),
         free' \cap On(u, m) = {}, Mpmc!Held(t)' \cap (free' \cup On(u, m)) = {}
  PROVE  Apart(u, m)'
<1>1. \A v \in Thread \ {t} : Mpmc!Held(v)' = Mpmc!Held(v)
  BY DEF Alone, Mpmc!Held
<1>2. \A v \in Thread \ {t} : Mpmc!Held(v) \cap (free \cup On(s, n) \cup Mpmc!Held(t)) = {}
  BY DEF Apart
<1>3. \A v \in Thread \ {t} : Mpmc!Held(v)' \cap (free' \cup On(u, m) \cup Mpmc!Held(t)') = {}
  BY <1>1, <1>2
<1>4. \A v, z \in Thread : v # z => Mpmc!Held(v)' \cap Mpmc!Held(z)' = {}
  <2> SUFFICES ASSUME NEW v \in Thread, NEW z \in Thread, v # z PROVE Mpmc!Held(v)' \cap Mpmc!Held(z)' = {}
    OBVIOUS
  <2>1. CASE v = t
    BY <1>3, <2>1
  <2>2. CASE z = t
    BY <1>3, <2>2
  <2>3. CASE v # t /\ z # t
    BY <1>1, <2>3 DEF Apart
  <2> QED BY <2>1, <2>2, <2>3
<1>5. \A y \in Nodes : y \in free' \/ y \in On(u, m) \/ \E v \in Thread : y \in Mpmc!Held(v)'
  <2> SUFFICES ASSUME NEW y \in Nodes, y \notin free', y \notin On(u, m), y \notin Mpmc!Held(t)'
               PROVE  \E v \in Thread : y \in Mpmc!Held(v)'
    OBVIOUS
  <2>1. \E v \in Thread : v # t /\ y \in Mpmc!Held(v)
    BY DEF Apart
  <2> QED BY <1>1, <2>1
<1>6. \A v \in Thread : Mpmc!Held(v)' \cap (free' \cup On(u, m)) = {}
  BY <1>3
<1> QED BY <1>4, <1>5, <1>6 DEF Apart

\* What the other threads have in their hands is not touched.
LEMMA OtherHands ==
  ASSUME NEW n, NEW s, NEW t \in Thread, NEW to, NEW x, MpmcInv, div # Null, Alone(t, to, x), Apart(s, n),
         \A y \in Nodes : y \notin free /\ y \notin On(s, n) /\ y \notin Mpmc!Held(t)
                            => next'[y] = next[y] /\ item'[y] = item[y],
         \/ pc[t] = "c_take"
         \/ div' = div /\ (next[div] # Null => next'[div] # Null)
  PROVE  \A u \in Thread \ {t} : Hand(u)'
<1> SUFFICES ASSUME NEW u \in Thread, u # t PROVE Hand(u)'
  OBVIOUS
<1>1. pc'[u] = pc[u] /\ node'[u] = node[u] /\ Hand(u)
  BY DEF Alone, MpmcInv
<1>2. pc[u] \in {"p_flag", "p_link"} => next'[node[u]] = next[node[u]] /\ item'[node[u]] = item[node[u]]
  <2> HAVE pc[u] \in {"p_flag", "p_link"}
  <2>1. node[u] \in Nodes /\ node[u] \in Mpmc!Held(u)
    BY <1>1, Bounds DEF Hand, Mpmc!Held, Mpmc!PushPc
  <2>2. node[u] \notin free /\ node[u] \notin On(s, n) /\ node[u] \notin Mpmc!Held(t)
    BY <2>1 DEF Apart
  <2> QED BY <2>1, <2>2
<1>3. pc[u] = "c_take" => next'[div'] # Null
  <2>1. pc[u] = "c_take" => pc[t] # "c_take"
    BY DEF MpmcInv, Flags
  <2> QED BY <1>1, <2>1 DEF Hand
<1> QED BY <1>1, <1>2, <1>3 DEF Hand

Labels == {"idle", "p_flag", "p_link", "p_last", "p_clear", "p_length",
           "c_look", "c_flag", "c_next", "c_take", "c_clear", "c_free", "c_length"}

LEMMA MpmcTypes ==
  ASSUME NEW n \in Nat, NEW s \in [0..n -> Nodes], NEW t \in Thread, MpmcInv, MpmcAt(s, n)
  PROVE  /\ Mpmc!TypeOK /\ Flags /\ Hand(t) /\ Links(s, n) /\ Apart(s, n) /\ Counted(n)
         /\ div # Null /\ div \in Nodes /\ Null \notin Nodes /\ Nobody \notin Thread
         /\ next \in [Nodes -> Nodes \cup {Null}] /\ item \in [Nodes -> 0..MaxItem]
         /\ free \subseteq Nodes /\ pushed \in 0..MaxItem /\ MaxItem \in Nat
         /\ pc \in [Thread -> Labels] /\ node \in [Thread -> Nodes \cup {Null}]
         /\ On(s, n) \subseteq Nodes /\ \A i \in 0..n : s[i] \in On(s, n)
<1>1. Links(s, n) /\ Apart(s, n) /\ Counted(n) /\ Null \notin Nodes /\ Nobody \notin Thread
  BY Bounds DEF MpmcAt
<1>2. div \in Nodes /\ On(s, n) \subseteq Nodes /\ \A i \in 0..n : s[i] \in On(s, n)
  BY <1>1 DEF Links, On
<1>3. Mpmc!TypeOK /\ Flags /\ Hand(t) /\ div # Null
  BY <1>1, <1>2 DEF MpmcInv
<1>4. /\ next \in [Nodes -> Nodes \cup {Null}] /\ item \in [Nodes -> 0..MaxItem]
      /\ free \subseteq Nodes /\ pushed \in 0..MaxItem /\ MaxItem \in Nat
      /\ pc \in [Thread -> Labels] /\ node \in [Thread -> Nodes \cup {Null}]
  BY <1>3, Bounds DEF Mpmc!TypeOK, Mpmc!Node, Nodes, Labels
<1> QED BY <1>1, <1>2, <1>3, <1>4

\* A step that leaves the list and its items alone.
LEMMA MpmcFrame ==
  ASSUME NEW n \in Nat, NEW s \in [0..n -> Nodes], Links(s, n), div' = div,
         \A y \in On(s, n) : next'[y] = next[y] /\ item'[y] = item[y],
         \A t \in Thread : pc'[t] = "p_last" => pc[t] = "p_last" /\ node'[t] = node[t],
         \/ last' = last /\ \A t \in Thread : pc[t] = "p_last" => pc'[t] = "p_last"
         \/ last' = s[n]
  PROVE  Links(s, n)' /\ (taken' = taken => Moves(Mpmc!Inside, Mpmc!Inside'))
<1>1. \A i \in 0..n : s[i] \in On(s, n)
  BY DEF On
<1>2. IsList(next', s, n)
  <2>1. IsList(next, s, n) /\ \A i \in 0..(n - 1) : next'[s[i]] = next[s[i]]
    BY <1>1 DEF Links
  <2> QED BY <2>1, SameList
<1>3. Links(s, n)'
  BY <1>1, <1>2 DEF Links
<1>4. Mpmc!Inside = Items(item, s, 0, n) /\ Mpmc!Inside' = Items(item', s, 0, n)
  BY <1>3, MpmcSpan, MpmcSpanNext
<1>5. Items(item', s, 0, n) = Items(item, s, 0, n)
  BY <1>1 DEF Items
<1> QED BY <1>3, <1>4, <1>5 DEF Moves

LEMMA MpmcAssemble ==
  ASSUME NEW m \in Nat, NEW u \in [0..m -> Nodes], NEW t \in Thread,
         Mpmc!TypeOK', Flags', Links(u, m)', Apart(u, m)', Counted(m)', Hand(t)', \A v \in Thread \ {t} : Hand(v)'
  PROVE  MpmcInv'
<1>1. div' # Null
  BY MpmcSpanNext
<1>2. \A v \in Thread : Hand(v)'
  OBVIOUS
<1> QED BY <1>1, <1>2 DEF MpmcInv, MpmcAt

\* A step of t alone: the memory of the queue stays as it is.
LEMMA MpmcQuiet ==
  ASSUME NEW n \in Nat, NEW s \in [0..n -> Nodes], NEW t \in Thread, NEW to, NEW x, MpmcInv, MpmcAt(s, n),
         Alone(t, to, x), UNCHANGED <<div, next, item, free, length, taken>>,
         Mpmc!TypeOK', Flags', Hand(t)', Mpmc!Held(t)' = Mpmc!Held(t),
         Counts(t)' <=> Counts(t), Leads(t)' <=> Leads(t), pc'[t] # "p_last",
         (last' = last /\ pc[t] # "p_last") \/ last' = s[n]
  PROVE  MpmcKept
<1>1. Links(s, n) /\ Apart(s, n) /\ Counted(n) /\ div # Null
  BY MpmcTypes
<1>2. Links(s, n)' /\ Moves(Mpmc!Inside, Mpmc!Inside')
  <2>1. \A u \in Thread : pc'[u] = "p_last" => pc[u] = "p_last" /\ node'[u] = node[u]
    BY DEF Alone
  <2>2. \/ last' = last /\ \A u \in Thread : pc[u] = "p_last" => pc'[u] = "p_last"
        \/ last' = s[n]
    BY DEF Alone
  <2> QED BY <1>1, <2>1, <2>2, MpmcFrame
<1>3. Apart(s, n)'
  <2>1. free' = free /\ free \cap On(s, n) = {} /\ Mpmc!Held(t) \cap (free \cup On(s, n)) = {}
    BY <1>1 DEF Apart
  <2> QED BY <1>1, <2>1, ApartStep
<1>4. Counted(n)'
  BY <1>1, CountedStays
<1>5. \A v \in Thread \ {t} : Hand(v)'
  BY <1>1, OtherHands
<1> QED BY <1>2, <1>3, <1>4, <1>5, MpmcAssemble DEF MpmcKept

LEMMA QuietStep ==
  ASSUME NEW n \in Nat, NEW s \in [0..n -> Nodes], NEW t \in Thread, MpmcInv, MpmcAt(s, n),
         \/ Mpmc!PushFlag(t) \/ Mpmc!PushLast(t) \/ Mpmc!PushClear(t) \/ Mpmc!Pop(t) \/ Mpmc!PopLook(t)
         \/ Mpmc!PopFlag(t) \/ Mpmc!PopNext(t) \/ Mpmc!PopClear(t)
  PROVE  MpmcKept
<1> USE DEF Mpmc!Go
<1> DEFINE to == pc'[t]
           x == node'[t]
<1>0. /\ Mpmc!TypeOK /\ Flags /\ Hand(t) /\ Links(s, n)
      /\ div \in Nodes /\ Null \notin Nodes /\ Nobody \notin Thread
      /\ pc \in [Thread -> Labels] /\ node \in [Thread -> Nodes \cup {Null}]
  BY MpmcTypes
<1>1. ASSUME Mpmc!PushFlag(t) PROVE MpmcKept
  <2>1. Alone(t, "p_link", node[t]) /\ pc[t] = "p_flag"
    BY <1>0, <1>1 DEF Alone, Mpmc!PushFlag
  <2>2. Mpmc!TypeOK' /\ Flags'
    <3>1. Mpmc!TypeOK'
      BY <1>0, <1>1 DEF Mpmc!TypeOK, Mpmc!PushFlag
    <3>2. Flags'
      BY <1>0, <1>1, <2>1 DEF Flags, Alone, Mpmc!PushFlag
    <3> QED BY <3>1, <3>2
  <2>3. Hand(t)' /\ Mpmc!Held(t)' = Mpmc!Held(t) /\ (Counts(t)' <=> Counts(t)) /\ (Leads(t)' <=> Leads(t))
    BY <1>0, <1>1, <2>1 DEF Hand, Alone, Mpmc!Held, Mpmc!PushPc, Counts, Leads, Mpmc!PushFlag
  <2> QED BY <1>1, <2>1, <2>2, <2>3, MpmcQuiet DEF Alone, Mpmc!PushFlag
<1>2. ASSUME Mpmc!PushLast(t) PROVE MpmcKept
  <2>1. Alone(t, "p_clear", Null) /\ pc[t] = "p_last"
    BY <1>0, <1>2 DEF Alone, Mpmc!PushLast
  <2>2. Mpmc!TypeOK' /\ Flags'
    <3>1. Mpmc!TypeOK'
      BY <1>0, <1>2 DEF Mpmc!TypeOK, Mpmc!PushLast
    <3>2. Flags'
      BY <1>0, <1>2, <2>1 DEF Flags, Alone, Mpmc!PushLast
    <3> QED BY <3>1, <3>2
  <2>3. Hand(t)' /\ Mpmc!Held(t)' = Mpmc!Held(t) /\ (Counts(t)' <=> Counts(t)) /\ (Leads(t)' <=> Leads(t))
    BY <1>0, <1>2, <2>1 DEF Hand, Alone, Mpmc!Held, Mpmc!PushPc, Counts, Leads, Mpmc!PushLast
  <2>4. last' = s[n]
    BY <1>0, <1>2, <2>1 DEF Links, Mpmc!PushLast
  <2> QED BY <1>2, <2>1, <2>2, <2>3, <2>4, MpmcQuiet DEF Alone, Mpmc!PushLast
<1>3. ASSUME Mpmc!PushClear(t) PROVE MpmcKept
  <2>1. Alone(t, "p_length", node[t]) /\ pc[t] = "p_clear"
    BY <1>0, <1>3 DEF Alone, Mpmc!PushClear
  <2>2. Mpmc!TypeOK' /\ Flags'
    <3>1. Mpmc!TypeOK'
      BY <1>0, <1>3 DEF Mpmc!TypeOK, Mpmc!PushClear
    <3>2. Flags'
      BY <1>0, <1>3, <2>1 DEF Flags, Alone, Mpmc!PushClear
    <3> QED BY <3>1, <3>2
  <2>3. Hand(t)' /\ Mpmc!Held(t)' = Mpmc!Held(t) /\ (Counts(t)' <=> Counts(t)) /\ (Leads(t)' <=> Leads(t))
    BY <1>0, <1>3, <2>1 DEF Hand, Alone, Mpmc!Held, Mpmc!PushPc, Counts, Leads, Mpmc!PushClear
  <2> QED BY <1>3, <2>1, <2>2, <2>3, MpmcQuiet DEF Alone, Mpmc!PushClear
<1>4. ASSUME Mpmc!Pop(t) PROVE MpmcKept
  <2>1. Alone(t, "c_look", div) /\ pc[t] = "idle"
    BY <1>0, <1>4 DEF Alone, Mpmc!Pop
  <2>2. Mpmc!TypeOK' /\ Flags'
    <3>1. Mpmc!TypeOK'
      BY <1>0, <1>4 DEF Mpmc!TypeOK, Mpmc!Pop, Mpmc!Node, Nodes
    <3>2. Flags'
      BY <1>0, <1>4, <2>1 DEF Flags, Alone, Mpmc!Pop
    <3> QED BY <3>1, <3>2
  <2>3. Hand(t)' /\ Mpmc!Held(t)' = Mpmc!Held(t) /\ (Counts(t)' <=> Counts(t)) /\ (Leads(t)' <=> Leads(t))
    BY <1>0, <1>4, <2>1 DEF Hand, Alone, Mpmc!Held, Mpmc!PushPc, Counts, Leads, Mpmc!Pop
  <2> QED BY <1>4, <2>1, <2>2, <2>3, MpmcQuiet DEF Alone, Mpmc!Pop
<1>5. ASSUME Mpmc!PopLook(t) PROVE MpmcKept
  <2>1. Alone(t, to, Null) /\ pc[t] = "c_look" /\ to \in {"idle", "c_flag"}
    BY <1>0, <1>5 DEF Alone, Mpmc!PopLook
  <2> HIDE DEF to
  <2>2. Mpmc!TypeOK' /\ Flags'
    <3>1. Mpmc!TypeOK'
      BY <1>0, <1>5 DEF Mpmc!TypeOK, Mpmc!PopLook
    <3>2. Flags'
      BY <1>0, <1>5, <2>1 DEF Flags, Alone, Mpmc!PopLook
    <3> QED BY <3>1, <3>2
  <2>3. Hand(t)' /\ Mpmc!Held(t)' = Mpmc!Held(t) /\ (Counts(t)' <=> Counts(t)) /\ (Leads(t)' <=> Leads(t))
    BY <1>0, <1>5, <2>1 DEF Hand, Alone, Mpmc!Held, Mpmc!PushPc, Counts, Leads, Mpmc!PopLook
  <2> QED BY <1>5, <2>1, <2>2, <2>3, MpmcQuiet DEF Alone, Mpmc!PopLook
<1>6. ASSUME Mpmc!PopFlag(t) PROVE MpmcKept
  <2>1. Alone(t, "c_next", node[t]) /\ pc[t] = "c_flag"
    BY <1>0, <1>6 DEF Alone, Mpmc!PopFlag
  <2>2. Mpmc!TypeOK' /\ Flags'
    <3>1. Mpmc!TypeOK'
      BY <1>0, <1>6 DEF Mpmc!TypeOK, Mpmc!PopFlag
    <3>2. Flags'
      BY <1>0, <1>6, <2>1 DEF Flags, Alone, Mpmc!PopFlag
    <3> QED BY <3>1, <3>2
  <2>3. Hand(t)' /\ Mpmc!Held(t)' = Mpmc!Held(t) /\ (Counts(t)' <=> Counts(t)) /\ (Leads(t)' <=> Leads(t))
    BY <1>0, <1>6, <2>1 DEF Hand, Alone, Mpmc!Held, Mpmc!PushPc, Counts, Leads, Mpmc!PopFlag
  <2> QED BY <1>6, <2>1, <2>2, <2>3, MpmcQuiet DEF Alone, Mpmc!PopFlag
<1>7. ASSUME Mpmc!PopNext(t) PROVE MpmcKept
  <2>1. Alone(t, to, Null) /\ pc[t] = "c_next" /\ to = IF next[div] = Null THEN "c_clear" ELSE "c_take"
    BY <1>0, <1>7 DEF Alone, Mpmc!PopNext, Hand
  <2> HIDE DEF to
  <2>2. Mpmc!TypeOK' /\ Flags'
    <3>1. Mpmc!TypeOK'
      BY <1>0, <1>7 DEF Mpmc!TypeOK, Mpmc!PopNext
    <3>2. Flags'
      BY <1>0, <1>7, <2>1 DEF Flags, Alone, Mpmc!PopNext
    <3> QED BY <3>1, <3>2
  <2>3. Hand(t)' /\ Mpmc!Held(t)' = Mpmc!Held(t) /\ (Counts(t)' <=> Counts(t)) /\ (Leads(t)' <=> Leads(t))
    BY <1>0, <1>7, <2>1 DEF Hand, Alone, Mpmc!Held, Mpmc!PushPc, Counts, Leads, Mpmc!PopNext
  <2> QED BY <1>7, <2>1, <2>2, <2>3, MpmcQuiet DEF Alone, Mpmc!PopNext
<1>8. ASSUME Mpmc!PopClear(t) PROVE MpmcKept
  <2>1. Alone(t, to, node[t]) /\ pc[t] = "c_clear" /\ to = IF node[t] = Null THEN "idle" ELSE "c_free"
    BY <1>0, <1>8 DEF Alone, Mpmc!PopClear
  <2> HIDE DEF to
  <2>2. Mpmc!TypeOK' /\ Flags'
    <3>1. Mpmc!TypeOK'
      BY <1>0, <1>8 DEF Mpmc!TypeOK, Mpmc!PopClear
    <3>2. Flags'
      BY <1>0, <1>8, <2>1 DEF Flags, Alone, Mpmc!PopClear
    <3> QED BY <3>1, <3>2
  <2>3. Hand(t)' /\ Mpmc!Held(t)' = Mpmc!Held(t) /\ (Counts(t)' <=> Counts(t)) /\ (Leads(t)' <=> Leads(t))
    BY <1>0, <1>8, <2>1 DEF Hand, Alone, Mpmc!Held, Mpmc!PushPc, Counts, Leads, Mpmc!PopClear
  <2> QED BY <1>8, <2>1, <2>2, <2>3, MpmcQuiet DEF Alone, Mpmc!PopClear
<1> QED BY <1>1, <1>2, <1>3, <1>4, <1>5, <1>6, <1>7, <1>8

LEMMA PushStep ==
  ASSUME NEW n \in Nat, NEW s \in [0..n -> Nodes], NEW t \in Thread, MpmcInv, MpmcAt(s, n), Mpmc!Push(t)
  PROVE  MpmcKept
<1> USE DEF Mpmc!Push, Mpmc!Go
<1>0. /\ Mpmc!TypeOK /\ Flags /\ Hand(t) /\ Links(s, n) /\ Apart(s, n) /\ Counted(n) /\ div # Null
      /\ div \in Nodes /\ Null \notin Nodes /\ Nobody \notin Thread
      /\ next \in [Nodes -> Nodes \cup {Null}] /\ item \in [Nodes -> 0..MaxItem]
      /\ free \subseteq Nodes /\ pushed \in 0..MaxItem /\ MaxItem \in Nat
      /\ pc \in [Thread -> Labels] /\ node \in [Thread -> Nodes \cup {Null}]
      /\ On(s, n) \subseteq Nodes /\ \A i \in 0..n : s[i] \in On(s, n)
  BY MpmcTypes
<1>1. PICK b \in free : /\ free' = free \ {b} /\ next' = [next EXCEPT ![b] = Null]
                       /\ item' = [item EXCEPT ![b] = pushed'] /\ node' = [node EXCEPT ![t] = b]
  OBVIOUS
<1>2. /\ b \in Nodes /\ b \notin On(s, n) /\ next'[b] = Null /\ item'[b] = pushed' /\ pushed' \in 1..MaxItem
      /\ \A y \in Nodes \ {b} : next'[y] = next[y] /\ item'[y] = item[y]
  BY <1>0, <1>1 DEF Apart
<1>3. Alone(t, "p_flag", b) /\ pc[t] = "idle" /\ node[t] = Null
  BY <1>0, <1>1 DEF Alone, Hand
<1>4. Mpmc!TypeOK'
  BY <1>0, <1>1, <1>2 DEF Mpmc!TypeOK, Mpmc!Node, Nodes
<1>5. Flags'
  BY <1>0, <1>3 DEF Flags, Alone
<1>6. Links(s, n)' /\ Moves(Mpmc!Inside, Mpmc!Inside')
  <2>1. \A y \in On(s, n) : next'[y] = next[y] /\ item'[y] = item[y]
    BY <1>0, <1>2
  <2>2. /\ \A u \in Thread : pc'[u] = "p_last" => pc[u] = "p_last" /\ node'[u] = node[u]
        /\ \A u \in Thread : pc[u] = "p_last" => pc'[u] = "p_last"
    BY <1>3 DEF Alone
  <2> QED BY <1>0, <2>1, <2>2, MpmcFrame
<1>7. Mpmc!Held(t) = {} /\ Mpmc!Held(t)' = {b}
  BY <1>0, <1>2, <1>3 DEF Alone, Mpmc!Held, Mpmc!PushPc
<1>8. Apart(s, n)'
  <2>1. free' \cup On(s, n) \cup Mpmc!Held(t)' = free \cup On(s, n) \cup Mpmc!Held(t)
    BY <1>1, <1>7
  <2>2. free' \cap On(s, n) = {} /\ Mpmc!Held(t)' \cap (free' \cup On(s, n)) = {}
    BY <1>0, <1>1, <1>2, <1>7 DEF Apart
  <2> QED BY <1>0, <1>3, <2>1, <2>2, ApartStep
<1>9. Counted(n)'
  <2>1. /\ Counts(t)' <=> Counts(t)
        /\ Leads(t)' <=> Leads(t)
    BY <1>3 DEF Alone, Counts, Leads
  <2> QED BY <1>0, <1>3, <2>1, CountedStays
<1>10. \A v \in Thread \ {t} : Hand(v)'
  <2>1. \A y \in Nodes : y \notin free => next'[y] = next[y] /\ item'[y] = item[y]
    BY <1>1, <1>2
  <2>2. div' = div /\ next'[div] = next[div]
    BY <1>0, <1>2 DEF Links
  <2> QED BY <1>0, <1>3, <2>1, <2>2, OtherHands
<1>11. Hand(t)'
  BY <1>2, <1>3 DEF Hand, Alone
<1> QED BY <1>4, <1>5, <1>6, <1>8, <1>9, <1>10, <1>11, MpmcAssemble DEF MpmcKept

LEMMA PushLinkManyStep ==
  ASSUME NEW n \in Nat, NEW s \in [0..n -> Nodes], NEW t \in Thread, MpmcInv, MpmcAt(s, n), Mpmc!PushLink(t)
  PROVE  MpmcKept
<1> USE DEF Mpmc!PushLink, Mpmc!Go
<1>0. /\ Mpmc!TypeOK /\ Flags /\ Hand(t) /\ Links(s, n) /\ Apart(s, n) /\ Counted(n) /\ div # Null
      /\ div \in Nodes /\ Null \notin Nodes /\ Nobody \notin Thread
      /\ next \in [Nodes -> Nodes \cup {Null}] /\ item \in [Nodes -> 0..MaxItem]
      /\ free \subseteq Nodes /\ pushed \in 0..MaxItem /\ MaxItem \in Nat
      /\ pc \in [Thread -> Labels] /\ node \in [Thread -> Nodes \cup {Null}]
      /\ On(s, n) \subseteq Nodes /\ \A i \in 0..n : s[i] \in On(s, n)
  BY MpmcTypes
<1>1. PICK b : b = node[t]
  OBVIOUS
<1>2. Alone(t, "p_last", b) /\ pc[t] = "p_link"
  BY <1>0, <1>1 DEF Alone
<1>3. b \in Nodes /\ next[b] = Null /\ item[b] \in 1..MaxItem /\ Mpmc!Held(t) = {b} /\ Mpmc!Held(t)' = {}
  BY <1>0, <1>1, <1>2 DEF Hand, Alone, Mpmc!Held, Mpmc!PushPc
<1>4. b \notin On(s, n) /\ b \notin free
  BY <1>0, <1>3 DEF Apart
<1>5. last = s[n] /\ \A u \in Thread : pc[u] # "p_last"
  BY <1>0, <1>2 DEF Flags, Links
<1>6. next'[s[n]] = b /\ \A y \in Nodes \ {s[n]} : next'[y] = next[y]
  BY <1>0, <1>1, <1>5
<1>7. IsList(next', s, n)
  <2>1. IsList(next, s, n) /\ \A i \in 0..(n - 1) : s[i] # s[n]
    BY <1>0 DEF Links, IsList
  <2>2. \A i \in 0..(n - 1) : next'[s[i]] = next[s[i]]
    BY <1>6, <2>1
  <2> QED BY <2>1, <2>2, SameList
<1>8. PICK u \in [0..(n + 1) -> Nodes] :
        /\ IsList(next', u, n + 1) /\ u[n + 1] = b /\ \A i \in 0..n : u[i] = s[i]
        /\ On(u, n + 1) = On(s, n) \cup {b}
  <2>1. n \in Nat /\ s \in [0..n -> Nodes] /\ b \in Nodes /\ b \notin On(s, n)
    BY <1>3, <1>4
  <2>2. IsList(next', s, n) /\ next'[s[n]] = b
    BY <1>6, <1>7
  <2>3. Longer(next', s, n, b)
    BY <2>1, <2>2, LinkedIsLonger DEF Linked
  <2> QED BY <2>3 DEF Longer
<1>9. PICK m \in Nat : m = n + 1
  OBVIOUS
<1>10. \A k \in 1..m : item[u[k]] \in 1..MaxItem
  BY <1>0, <1>3, <1>8, <1>9 DEF Links
<1>11. Links(u, m)'
  <2>1. u[0] = div /\ next'[u[m]] = Null
    <3>1. b # s[n]
      BY <1>0, <1>4
    <3> QED BY <1>0, <1>3, <1>6, <1>8, <1>9, <3>1 DEF Links
  <2>2. \A v \in Thread : pc'[v] = "p_last" => node'[v] = u[m]
    BY <1>2, <1>5, <1>8, <1>9 DEF Alone
  <2>3. pc'[t] = "p_last"
    BY <1>2 DEF Alone
  <2> QED BY <1>8, <1>9, <1>10, <2>1, <2>2, <2>3 DEF Links
<1>12. Moves(Mpmc!Inside, Mpmc!Inside')
  <2>1. Mpmc!Inside = Items(item, s, 0, n)
    BY <1>0, MpmcSpan
  <2>2. Mpmc!Inside' = Items(item, u, 0, m)
    <3>1. u \in [0..m -> Nodes]
      BY <1>8, <1>9
    <3> QED BY <1>11, <3>1, MpmcSpanNext
  <2>3. PICK z \in 0..n : z = 0
    OBVIOUS
  <2>4. Items(item, u, z, n + 1) = Append(Items(item, s, z, n), item[u[n + 1]])
    <3>1. Grown(item, s, u, n)
      BY <1>0, <1>3, <1>8 DEF Links, Grown, Filled
    <3>2. n \in Nat /\ z \in 0..n
      OBVIOUS
    <3> QED BY ONLY <3>1, <3>2, ItemsAppend
  <2> QED BY <1>3, <1>8, <1>9, <2>1, <2>2, <2>3, <2>4 DEF Moves
<1>13. Apart(u, m)'
  <2>1. free' \cup On(u, m) \cup Mpmc!Held(t)' = free \cup On(s, n) \cup Mpmc!Held(t)
    BY <1>3, <1>8, <1>9
  <2>2. free' \cap On(u, m) = {} /\ Mpmc!Held(t)' \cap (free' \cup On(u, m)) = {}
    BY <1>0, <1>3, <1>4, <1>8, <1>9 DEF Apart
  <2> QED BY <1>0, <1>2, <2>1, <2>2, ApartStep
<1>14. Counted(m)'
  <2>1. ~Counts(t) /\ ~Counts(t)' /\ ~Leads(t) /\ Leads(t)'
    BY <1>2 DEF Alone, Counts, Leads
  <2>2. m + (IF Counts(t)' THEN 1 ELSE 0) - (IF Leads(t)' THEN 1 ELSE 0)
          = n + (IF Counts(t) THEN 1 ELSE 0) - (IF Leads(t) THEN 1 ELSE 0)
    BY <1>9, <2>1
  <2> QED BY <1>0, <1>2, <2>2, CountedStays
<1>15. \A v \in Thread \ {t} : Hand(v)'
  <2>1. \A y \in Nodes : y \notin On(s, n) => next'[y] = next[y] /\ item'[y] = item[y]
    BY <1>0, <1>6
  <2>2. div' = div /\ (next[div] # Null => next'[div] # Null)
    BY <1>0, <1>3, <1>6
  <2> QED BY <1>0, <1>2, <2>1, <2>2, OtherHands
<1>16. Mpmc!TypeOK' /\ Flags' /\ Hand(t)'
  <2>1. Mpmc!TypeOK'
    BY <1>0, <1>1, <1>3 DEF Mpmc!TypeOK, Mpmc!Node, Nodes
  <2>2. Flags'
    BY <1>0, <1>2 DEF Flags, Alone
  <2>3. Hand(t)'
    BY <1>2, <1>3 DEF Hand, Alone
  <2> QED BY <2>1, <2>2, <2>3
<1>17. u \in [0..m -> Nodes]
  BY <1>8, <1>9
<1> QED BY <1>11, <1>12, <1>13, <1>14, <1>15, <1>16, <1>17, MpmcAssemble DEF MpmcKept

LEMMA PopTakeManyStep ==
  ASSUME NEW n \in Nat, NEW s \in [0..n -> Nodes], NEW t \in Thread, MpmcInv, MpmcAt(s, n), Mpmc!PopTake(t)
  PROVE  MpmcKept
<1> USE DEF Mpmc!PopTake, Mpmc!Go
<1>0. /\ Mpmc!TypeOK /\ Flags /\ Hand(t) /\ Links(s, n) /\ Apart(s, n) /\ Counted(n) /\ div # Null
      /\ div \in Nodes /\ Null \notin Nodes /\ Nobody \notin Thread
      /\ next \in [Nodes -> Nodes \cup {Null}] /\ item \in [Nodes -> 0..MaxItem]
      /\ free \subseteq Nodes /\ pushed \in 0..MaxItem /\ MaxItem \in Nat
      /\ pc \in [Thread -> Labels] /\ node \in [Thread -> Nodes \cup {Null}]
      /\ On(s, n) \subseteq Nodes /\ \A i \in 0..n : s[i] \in On(s, n)
  BY MpmcTypes
<1>1. Alone(t, "c_clear", div) /\ pc[t] = "c_take" /\ next[div] # Null
  BY <1>0 DEF Alone, Hand
<1>2. IsList(next, s, n) /\ s[0] = div /\ next[s[n]] = Null /\ \A k \in 1..n : item[s[k]] \in 1..MaxItem
  BY <1>0 DEF Links
<1>3. n > 0 /\ next[div] = s[1] /\ s[1] \in Nodes
  <2>1. n # 0
    BY <1>1, <1>2
  <2> QED BY <1>2, <2>1 DEF IsList
<1>4. PICK u \in [0..(n - 1) -> Nodes] :
        /\ IsList(next, u, n - 1) /\ \A i \in 0..(n - 1) : u[i] = s[i + 1]
        /\ On(u, n - 1) = On(s, n) \ {s[0]}
  <2>1. n \in Nat /\ n > 0 /\ s \in [0..n -> Nodes]
    BY <1>3
  <2>2. IsList(next, s, n)
    BY <1>2
  <2>3. Shorter(next, s, n)
    BY <2>1, <2>2, TailIsShorter DEF NotSingle
  <2> QED BY <2>3 DEF Shorter
<1>5. PICK m \in Nat : m = n - 1
  BY <1>3
<1>6. u \in [0..m -> Nodes] /\ u[0] = s[1] /\ u[m] = s[n] /\ \A k \in 1..m : u[k] = s[k + 1]
  BY <1>3, <1>4, <1>5
<1>7. Links(u, m)'
  <2>1. IsList(next', u, m) /\ u[0] = div' /\ next'[u[m]] = Null /\ \A k \in 1..m : item'[u[k]] \in 1..MaxItem
    <3>1. next' = next /\ item' = item /\ div' = next[div]
      OBVIOUS
    <3>2. IsList(next', u, m)
      BY <1>4, <1>5, <3>1
    <3>3. ASSUME NEW k \in 1..m PROVE item[u[k]] \in 1..MaxItem
      <4>1. k + 1 \in 1..n /\ u[k] = s[k + 1]
        BY <1>5, <1>6
      <4> QED BY <1>2, <4>1
    <3> QED BY <1>2, <1>3, <1>6, <3>1, <3>2, <3>3
  <2>2. /\ \A v \in Thread : pc'[v] = "p_last" => pc[v] = "p_last" /\ node'[v] = node[v]
        /\ \A v \in Thread : pc[v] = "p_last" => pc'[v] = "p_last"
    BY <1>1 DEF Alone
  <2> QED BY <1>0, <1>6, <2>1, <2>2 DEF Links
<1>8. Moves(Mpmc!Inside, Mpmc!Inside')
  <2>1. Mpmc!Inside = Items(item, s, 0, n)
    BY <1>0, MpmcSpan
  <2>2. Mpmc!Inside' = Items(item, u, 0, m)
    BY <1>6, <1>7, MpmcSpanNext
  <2>3. PICK z \in 0..n : z = 0
    OBVIOUS
  <2>4. /\ Items(item, s, z, n) # <<>> /\ Head(Items(item, s, z, n)) = item[s[z + 1]]
        /\ Tail(Items(item, s, z, n)) = Items(item, s, z + 1, n)
    <3>1. n \in Nat /\ z \in 0..n /\ z < n
      BY <1>3, <2>3
    <3>2. Filled(item, s, n)
      BY <1>2 DEF Filled
    <3> QED BY ONLY <3>1, <3>2, ItemsTail
  <2>5. Items(item, s, 1, n) = Items(item, u, 0, m)
    BY <1>5, <1>6 DEF Items
  <2>6. taken' = Append(taken, item[s[1]])
    BY <1>3
  <2> QED BY <2>1, <2>2, <2>3, <2>4, <2>5, <2>6 DEF Moves
<1>9. Mpmc!Held(t) = {} /\ Mpmc!Held(t)' = {div}
  BY <1>0, <1>1 DEF Alone, Mpmc!Held, Mpmc!PushPc
<1>10. Apart(u, m)'
  <2>1. free' \cup On(u, m) \cup Mpmc!Held(t)' = free \cup On(s, n) \cup Mpmc!Held(t)
    <3>1. div \in On(s, n)
      BY <1>0, <1>2
    <3> QED BY <1>2, <1>4, <1>5, <1>9, <3>1
  <2>2. free' \cap On(u, m) = {} /\ Mpmc!Held(t)' \cap (free' \cup On(u, m)) = {}
    <3>1. div \in On(s, n) /\ free \cap On(s, n) = {}
      BY <1>0, <1>2 DEF Apart
    <3> QED BY <1>2, <1>4, <1>5, <1>9, <3>1
  <2> QED BY <1>0, <1>1, <2>1, <2>2, ApartStep
<1>11. Counted(m)'
  <2>1. ~Counts(t) /\ Counts(t)' /\ ~Leads(t) /\ ~Leads(t)'
    BY <1>0, <1>1 DEF Alone, Counts, Leads
  <2>2. m + (IF Counts(t)' THEN 1 ELSE 0) - (IF Leads(t)' THEN 1 ELSE 0)
          = n + (IF Counts(t) THEN 1 ELSE 0) - (IF Leads(t) THEN 1 ELSE 0)
    BY <1>5, <2>1
  <2> QED BY <1>0, <1>1, <2>2, CountedStays
<1>12. \A v \in Thread \ {t} : Hand(v)'
  BY <1>0, <1>1, OtherHands
<1>13. Mpmc!TypeOK' /\ Flags' /\ Hand(t)'
  <2>1. taken' \in Seq(1..MaxItem)
    <3>1. item[next[div]] \in 1..MaxItem /\ taken \in Seq(1..MaxItem)
      BY <1>0, <1>2, <1>3 DEF Mpmc!TypeOK, Mpmc!Item
    <3> QED BY <3>1
  <2>2. Mpmc!TypeOK'
    BY <1>0, <1>3, <2>1 DEF Mpmc!TypeOK, Mpmc!Node, Mpmc!Item, Nodes
  <2>3. Flags'
    BY <1>0, <1>1 DEF Flags, Alone
  <2>4. Hand(t)'
    BY <1>1 DEF Hand, Alone
  <2> QED BY <2>2, <2>3, <2>4
<1> QED BY <1>6, <1>7, <1>8, <1>10, <1>11, <1>12, <1>13, MpmcAssemble DEF MpmcKept

LEMMA PopFreeStep ==
  ASSUME NEW n \in Nat, NEW s \in [0..n -> Nodes], NEW t \in Thread, MpmcInv, MpmcAt(s, n), Mpmc!PopFree(t)
  PROVE  MpmcKept
<1> USE DEF Mpmc!PopFree, Mpmc!Go
<1>0. /\ Mpmc!TypeOK /\ Flags /\ Hand(t) /\ Links(s, n) /\ Apart(s, n) /\ Counted(n) /\ div # Null
      /\ div \in Nodes /\ Null \notin Nodes /\ Nobody \notin Thread
      /\ next \in [Nodes -> Nodes \cup {Null}] /\ item \in [Nodes -> 0..MaxItem]
      /\ free \subseteq Nodes /\ pushed \in 0..MaxItem /\ MaxItem \in Nat
      /\ pc \in [Thread -> Labels] /\ node \in [Thread -> Nodes \cup {Null}]
      /\ On(s, n) \subseteq Nodes /\ \A i \in 0..n : s[i] \in On(s, n)
  BY MpmcTypes
<1>1. PICK b : b = node[t]
  OBVIOUS
<1>2. Alone(t, "c_length", Null) /\ pc[t] = "c_free"
  BY <1>0 DEF Alone
<1>3. b \in Nodes /\ Mpmc!Held(t) = {b} /\ Mpmc!Held(t)' = {}
  BY <1>0, <1>1, <1>2 DEF Hand, Alone, Mpmc!Held, Mpmc!PushPc
<1>4. b \notin On(s, n) /\ b \notin free
  BY <1>0, <1>3 DEF Apart
<1>5. PICK link \in free \cup {Null} : next' = [next EXCEPT ![b] = link]
  BY <1>1
<1>6. item' = item /\ free' = free \cup {b} /\ \A y \in Nodes \ {b} : next'[y] = next[y]
  BY <1>0, <1>1, <1>5
<1>7. Links(s, n)' /\ Moves(Mpmc!Inside, Mpmc!Inside')
  <2>1. \A y \in On(s, n) : next'[y] = next[y] /\ item'[y] = item[y]
    BY <1>0, <1>4, <1>6
  <2>2. /\ \A u \in Thread : pc'[u] = "p_last" => pc[u] = "p_last" /\ node'[u] = node[u]
        /\ \A u \in Thread : pc[u] = "p_last" => pc'[u] = "p_last"
    BY <1>2 DEF Alone
  <2> QED BY <1>0, <2>1, <2>2, MpmcFrame
<1>8. Apart(s, n)'
  <2>1. free' \cup On(s, n) \cup Mpmc!Held(t)' = free \cup On(s, n) \cup Mpmc!Held(t)
    BY <1>3, <1>6
  <2>2. free' \cap On(s, n) = {} /\ Mpmc!Held(t)' \cap (free' \cup On(s, n)) = {}
    BY <1>0, <1>3, <1>4, <1>6 DEF Apart
  <2> QED BY <1>0, <1>2, <2>1, <2>2, ApartStep
<1>9. Counted(n)'
  <2>1. Counts(t) /\ Counts(t)' /\ ~Leads(t) /\ ~Leads(t)'
    BY <1>2 DEF Alone, Counts, Leads
  <2> QED BY <1>0, <1>2, <2>1, CountedStays
<1>10. \A v \in Thread \ {t} : Hand(v)'
  <2>1. \A y \in Nodes : y \notin Mpmc!Held(t) => next'[y] = next[y] /\ item'[y] = item[y]
    BY <1>3, <1>6
  <2>2. div' = div /\ next'[div] = next[div]
    <3>1. div \in On(s, n)
      BY <1>0 DEF Links
    <3> QED BY <1>0, <1>4, <1>6, <3>1
  <2> QED BY <1>0, <1>2, <2>1, <2>2, OtherHands
<1>11. Mpmc!TypeOK' /\ Flags' /\ Hand(t)'
  <2>1. next' \in [Nodes -> Nodes \cup {Null}]
    BY <1>0, <1>5
  <2>2. Mpmc!TypeOK'
    BY <1>0, <1>3, <1>6, <2>1 DEF Mpmc!TypeOK, Mpmc!Node, Nodes
  <2>3. Flags'
    BY <1>0, <1>2 DEF Flags, Alone
  <2>4. Hand(t)'
    BY <1>2 DEF Hand, Alone
  <2> QED BY <2>2, <2>3, <2>4
<1> QED BY <1>7, <1>8, <1>9, <1>10, <1>11, MpmcAssemble DEF MpmcKept

LEMMA MpmcCountStep ==
  ASSUME NEW n \in Nat, NEW s \in [0..n -> Nodes], NEW t \in Thread, MpmcInv, MpmcAt(s, n),
         Mpmc!PushLength(t) \/ Mpmc!PopLength(t)
  PROVE  MpmcKept
<1> USE DEF Mpmc!PushLength, Mpmc!PopLength, Mpmc!Go
<1>0. /\ Mpmc!TypeOK /\ Flags /\ Hand(t) /\ Links(s, n) /\ Apart(s, n) /\ Counted(n) /\ div # Null
      /\ div \in Nodes /\ Null \notin Nodes /\ Nobody \notin Thread
      /\ next \in [Nodes -> Nodes \cup {Null}] /\ item \in [Nodes -> 0..MaxItem]
      /\ free \subseteq Nodes /\ pushed \in 0..MaxItem /\ MaxItem \in Nat
      /\ pc \in [Thread -> Labels] /\ node \in [Thread -> Nodes \cup {Null}]
      /\ On(s, n) \subseteq Nodes /\ \A i \in 0..n : s[i] \in On(s, n)
  BY MpmcTypes
<1>1. Alone(t, "idle", Null) /\ pc[t] \in {"p_length", "c_length"}
  BY <1>0 DEF Alone, Hand
<1> DEFINE c == Cardinality(Counting)
           l == Cardinality(Leading)
           c2 == Cardinality(Counting')
           l2 == Cardinality(Leading')
<1>2. /\ c \in Nat /\ l \in Nat
      /\ c2 = c + (IF Counts(t)' THEN 1 ELSE 0) - (IF Counts(t) THEN 1 ELSE 0)
      /\ l2 = l + (IF Leads(t)' THEN 1 ELSE 0) - (IF Leads(t) THEN 1 ELSE 0)
  BY <1>1, CountStep
<1>3. length = (n + c + Width - l) % Width
  BY <1>0 DEF Counted
<1>4. ~Counts(t)' /\ ~Leads(t)'
  BY <1>1 DEF Alone, Counts, Leads
<1> HIDE DEF c, l, c2, l2
<1>5. length' = (n + c2 + Width - l2) % Width /\ length' \in 0..(Width - 1)
  <2>1. CASE Mpmc!PushLength(t)
    <3>1. c2 = c /\ l2 = l - 1
      <4>1. ~Counts(t) /\ Leads(t)
        BY <1>0, <2>1 DEF Counts, Leads
      <4> QED BY <1>2, <1>4, <4>1
    <3>2. n + c + Width - l \in Int /\ n + c + Width - l + 1 = n + c2 + Width - l2
      BY <1>2, <3>1, Bounds
    <3>3. (((n + c + Width - l) % Width) + 1) % Width = (n + c + Width - l + 1) % Width
      BY <3>2, ModStep
    <3>4. n + c2 + Width - l2 \in Int
      BY <1>2, <3>1, Bounds
    <3>5. (n + c2 + Width - l2) % Width \in 0..(Width - 1)
      BY <3>4, ModStep
    <3> QED BY <1>3, <2>1, <3>2, <3>3, <3>5
  <2>2. CASE Mpmc!PopLength(t)
    <3>1. c2 = c - 1 /\ l2 = l
      <4>1. Counts(t) /\ ~Leads(t)
        BY <1>0, <2>2 DEF Counts, Leads
      <4> QED BY <1>2, <1>4, <4>1
    <3>2. /\ n + c + Width - l \in Int /\ n + c2 + Width - l2 \in Int
          /\ n + c + Width - l + Width - 1 = (n + c2 + Width - l2) + Width
      BY <1>2, <3>1, Bounds
    <3>3. (((n + c + Width - l) % Width) + Width - 1) % Width = (n + c + Width - l + Width - 1) % Width
      BY <3>2, ModStep
    <3>4. /\ ((n + c2 + Width - l2) + Width) % Width = (n + c2 + Width - l2) % Width
          /\ (n + c2 + Width - l2) % Width \in 0..(Width - 1)
      BY <3>2, ModStep
    <3> QED BY <1>3, <2>2, <3>2, <3>3, <3>4
  <2> QED BY <2>1, <2>2
<1>6. Counted(n)'
  BY <1>5 DEF Counted, c2, l2
<1>7. Links(s, n)' /\ Moves(Mpmc!Inside, Mpmc!Inside')
  <2>1. /\ \A u \in Thread : pc'[u] = "p_last" => pc[u] = "p_last" /\ node'[u] = node[u]
        /\ \A u \in Thread : pc[u] = "p_last" => pc'[u] = "p_last"
    BY <1>1 DEF Alone
  <2> QED BY <1>0, <2>1, MpmcFrame
<1>8. Apart(s, n)'
  <2>1. Mpmc!Held(t) = {} /\ Mpmc!Held(t)' = {}
    BY <1>0, <1>1 DEF Alone, Mpmc!Held, Mpmc!PushPc
  <2>2. free' = free /\ free \cap On(s, n) = {}
    BY <1>0 DEF Apart
  <2> QED BY <1>0, <1>1, <2>1, <2>2, ApartStep
<1>9. \A v \in Thread \ {t} : Hand(v)'
  BY <1>0, <1>1, OtherHands
<1>10. Mpmc!TypeOK' /\ Flags' /\ Hand(t)'
  <2>1. Mpmc!TypeOK'
    BY <1>0, <1>5 DEF Mpmc!TypeOK
  <2>2. Flags'
    BY <1>0, <1>1 DEF Flags, Alone
  <2>3. Hand(t)'
    BY <1>1 DEF Hand, Alone
  <2> QED BY <2>1, <2>2, <2>3
<1> QED BY <1>6, <1>7, <1>8, <1>9, <1>10, MpmcAssemble DEF MpmcKept

LEMMA MpmcDestroyStep ==
  ASSUME NEW n \in Nat, NEW s \in [0..n -> Nodes], MpmcInv, MpmcAt(s, n), Mpmc!Destroy
  PROVE  MpmcKept
<1> USE DEF Mpmc!Destroy
<1>1. Links(s, n) /\ Apart(s, n) /\ Mpmc!TypeOK
  BY DEF MpmcAt, MpmcInv
<1>2. \A t \in Thread : pc[t] = "idle" /\ Mpmc!Held(t) = {}
  BY DEF Mpmc!Held, Mpmc!PushPc
<1>3. Mpmc!NodesFrom(div) = On(s, n) /\ On(s, n) \subseteq Nodes
  BY <1>1, MpmcSpan DEF On
<1>4. free' = Nodes
  <2>1. free' = free \cup On(s, n)
    BY <1>3
  <2>2. free \subseteq Nodes
    BY <1>1 DEF Mpmc!TypeOK, Mpmc!Node, Nodes
  <2>3. Nodes \subseteq free \cup On(s, n)
    BY <1>1, <1>2 DEF Apart
  <2> QED BY <1>3, <2>1, <2>2, <2>3
<1>5. Mpmc!TypeOK'
  BY <1>1, <1>4 DEF Mpmc!TypeOK, Mpmc!Node, Nodes
<1>6. MpmcInv'
  BY <1>2, <1>4, <1>5 DEF MpmcInv
<1>7. Mpmc!Inside' = <<>> /\ taken' = taken
  BY DEF Mpmc!Inside
<1> QED BY <1>6, <1>7 DEF MpmcKept, Moves

LEMMA MpmcStep ==
  ASSUME MpmcInv, Mpmc!Next
  PROVE  MpmcKept
<1>1. CASE div # Null
  <2>1. PICK n \in Nat : \E s \in [0..n -> Nodes] : MpmcAt(s, n)
    BY <1>1 DEF MpmcInv
  <2>2. PICK s \in [0..n -> Nodes] : MpmcAt(s, n)
    BY <2>1
  <2>3. ASSUME NEW t \in Thread, Mpmc!Push(t) \/ Mpmc!Pop(t) \/ Mpmc!Step(t) PROVE MpmcKept
    BY <2>2, <2>3, QuietStep, PushStep, PushLinkManyStep, PopTakeManyStep, PopFreeStep,
       MpmcCountStep DEF Mpmc!Step
  <2>4. ASSUME Mpmc!Destroy PROVE MpmcKept
    BY <2>2, <2>4, MpmcDestroyStep
  <2>5. ~Mpmc!Terminated
    BY <1>1 DEF Mpmc!Terminated
  <2> QED BY <2>3, <2>4, <2>5 DEF Mpmc!Next
<1>2. CASE div = Null
  <2>1. \A t \in Thread : pc[t] = "idle"
    BY <1>2, Zenon DEF MpmcInv
  <2>2. \A t \in Thread : ~Mpmc!Push(t) /\ ~Mpmc!Pop(t) /\ ~Mpmc!Step(t)
    BY <1>2, <2>1 DEF Mpmc!Push, Mpmc!Pop, Mpmc!Step, Mpmc!Go, Mpmc!PushFlag, Mpmc!PushLink,
       Mpmc!PushLast,
          Mpmc!PushClear, Mpmc!PushLength, Mpmc!PopLook, Mpmc!PopFlag, Mpmc!PopNext, Mpmc!PopTake, Mpmc!PopClear,
          Mpmc!PopFree, Mpmc!PopLength
  <2>3. UNCHANGED Mpmc!vars
    BY <1>2, <2>2 DEF Mpmc!Next, Mpmc!Destroy, Mpmc!Terminated
  <2>4. MpmcInv'
    BY <1>2, <2>3 DEF MpmcInv, Mpmc!TypeOK, Mpmc!vars
  <2>5. Mpmc!Inside = <<>> /\ Mpmc!Inside' = <<>> /\ taken' = taken
    BY <1>2, <2>3 DEF Mpmc!vars, Mpmc!Inside
  <2> QED BY <2>4, <2>5 DEF MpmcKept, Moves
<1> QED BY <1>1, <1>2

LEMMA MpmcInit ==
  ASSUME Mpmc!Init
  PROVE  MpmcInv /\ Mpmc!Inside = <<>>
<1> USE Bounds DEF Mpmc!Init
<1>1. Mpmc!TypeOK
  BY DEF Mpmc!TypeOK, Mpmc!Node, Mpmc!Item
<1> DEFINE s == [i \in 0..0 |-> 1]
<1>2. s \in [0..0 -> Nodes] /\ s[0] = 1 /\ 1 \in Nodes
  BY DEF Nodes
<1> HIDE DEF s
<1>3. On(s, 0) = {1}
  BY <1>2 DEF On
<1>4. ASSUME NEW t \in Thread PROVE pc[t] = "idle" /\ node[t] = Null /\ Mpmc!Held(t) = {}
  <2>1. pc[t] = "idle" /\ node[t] = Null
    OBVIOUS
  <2> QED BY <2>1 DEF Mpmc!Held, Mpmc!PushPc
<1>5. div = 1 /\ last = 1 /\ next[1] = Null /\ free = Nodes \ {1}
  BY <1>2 DEF Mpmc!Node, Nodes
<1>6. Links(s, 0)
  BY <1>2, <1>4, <1>5 DEF Links, IsList
<1>7. Apart(s, 0)
  BY <1>3, <1>4, <1>5 DEF Apart
<1>8. Counted(0)
  <2>1. Counting = {} /\ Leading = {}
    BY <1>4 DEF Counting, Leading, Counts, Leads
  <2>2. Cardinality(Counting) = 0 /\ Cardinality(Leading) = 0
    BY <2>1, FS_EmptySet
  <2>3. (0 + Width) % Width = 0 % Width /\ 0 % Width = 0
    BY ModStep
  <2> QED BY <2>2, <2>3 DEF Counted
<1>9. Flags /\ \A t \in Thread : Hand(t)
  BY <1>4 DEF Flags, Hand
<1>10. MpmcInv
  <2>1. 0 \in Nat /\ MpmcAt(s, 0)
    BY <1>6, <1>7, <1>8 DEF MpmcAt
  <2>2. \E n \in Nat : \E u \in [0..n -> Nodes] : MpmcAt(u, n)
    BY ONLY <1>2, <2>1, Zenon
  <2>3. div # Null
    BY <1>2, <1>5
  <2> QED BY ONLY <1>1, <1>9, <2>2, <2>3 DEF MpmcInv
<1>11. Mpmc!Inside = Items(item, s, 0, 0)
  <2>1. PICK z : z = 0
    OBVIOUS
  <2>2. z \in Nat /\ s \in [0..z -> Nodes] /\ Links(s, z)
    BY <1>2, <1>6, <2>1
  <2>3. Mpmc!Inside = Items(item, s, 0, z)
    BY ONLY <2>2, MpmcSpan
  <2> QED BY <2>1, <2>3
<1> QED BY <1>10, <1>11, NoItems

LEMMA MpmcMeans ==
  ASSUME MpmcInv
  PROVE  Mpmc!NoUseAfterFree /\ Mpmc!NodesConserved /\ Mpmc!LengthTracks
<1>1. CASE div = Null
  <2>1. (\A t \in Thread : pc[t] = "idle") /\ free = Nodes
    BY <1>1, Zenon DEF MpmcInv
  <2>2. Mpmc!NodesFrom(div) = {}
    <3>1. \A k \in 0..MaxNode : Mpmc!Follow(div)[k] = Null
      BY <1>1, MpmcWalks, WalkNowhere
    <3> QED BY <3>1 DEF Mpmc!NodesFrom
  <2>3. ASSUME NEW t \in Thread PROVE Mpmc!Held(t) = {}
    <3>1. pc[t] = "idle"
      BY <2>1
    <3> QED BY <3>1 DEF Mpmc!Held, Mpmc!PushPc
  <2>4. ASSUME NEW t \in Thread PROVE Mpmc!Uses(t) = {}
    <3>1. pc[t] = "idle"
      BY <2>1
    <3> QED BY <3>1 DEF Mpmc!Uses
  <2> QED BY <1>1, <2>1, <2>2, <2>3, <2>4 DEF Mpmc!NoUseAfterFree, Mpmc!NodesConserved,
             Mpmc!LengthTracks, Mpmc!Node, Nodes
<1>2. CASE div # Null
  <2>1. PICK n \in Nat : \E s \in [0..n -> Nodes] : MpmcAt(s, n)
    BY <1>2 DEF MpmcInv
  <2>2. PICK s \in [0..n -> Nodes] : MpmcAt(s, n)
    BY <2>1
  <2>3. Links(s, n) /\ Apart(s, n) /\ Counted(n) /\ Mpmc!TypeOK
    BY <2>2 DEF MpmcAt, MpmcInv
  <2>4. Mpmc!NodesFrom(div) = On(s, n) /\ Len(Mpmc!Inside) = n
    BY <2>3, MpmcSpan
  <2>5. On(s, n) \subseteq Nodes /\ s[n] \in On(s, n)
    BY DEF On
  <2>6. Mpmc!NoUseAfterFree
    <3>0. \A t \in Thread : Mpmc!Uses(t) \subseteq Mpmc!Node \ free
      <4>0. Mpmc!Node = Nodes
        BY DEF Mpmc!Node, Nodes
      <4> SUFFICES ASSUME NEW t \in Thread PROVE Mpmc!Uses(t) \subseteq Nodes \ free
        BY <4>0, Zenon
      <4>1. Flags /\ Hand(t)
        BY <1>2 DEF MpmcInv
      <4>2. On(s, n) \subseteq Nodes \ free /\ (Mpmc!Held(t) \cap Nodes) \subseteq Nodes \ free
        BY <2>3, <2>5 DEF Apart
      <4>3. div \in On(s, n) /\ (next[div] # Null => next[div] \in On(s, n))
        <5>1. div = s[0] /\ 0 \in 0..n
          BY <2>3 DEF Links
        <5>2. next[s[0]] = IF n = 0 THEN Null ELSE s[1]
          BY <2>3, <5>1 DEF Links, IsList
        <5> QED BY <5>1, <5>2 DEF On
      <4>4. CASE pc[t] = "p_link"
        <5>1. \A u \in Thread : pc[u] # "p_last"
          BY <4>1, <4>4 DEF Flags
        <5>2. last \in On(s, n)
          BY <2>3, <2>5, <5>1 DEF Links
        <5>3. node[t] \in Mpmc!Held(t) \cap Nodes
          BY <4>1, <4>4, Bounds DEF Hand, Mpmc!Held, Mpmc!PushPc
        <5> QED BY <4>2, <4>4, <5>2, <5>3 DEF Mpmc!Uses
      <4>5. CASE pc[t] = "p_last"
        BY <2>3, <2>5, <4>2, <4>5 DEF Links, Mpmc!Uses
      <4>6. CASE pc[t] = "c_next"
        BY <4>2, <4>3, <4>6 DEF Mpmc!Uses
      <4>7. CASE pc[t] = "c_take"
        BY <4>1, <4>2, <4>3, <4>7 DEF Hand, Mpmc!Uses
      <4>8. CASE pc[t] = "c_free"
        <5>1. node[t] \in Mpmc!Held(t) \cap Nodes
          BY <4>1, <4>8, Bounds DEF Hand, Mpmc!Held, Mpmc!PushPc
        <5> QED BY <4>2, <4>8, <5>1 DEF Mpmc!Uses
      <4>9. CASE pc[t] \notin {"p_link", "p_last", "c_next", "c_take", "c_free"}
        BY <4>9 DEF Mpmc!Uses
      <4> QED BY <4>4, <4>5, <4>6, <4>7, <4>8, <4>9
    <3>1. CASE last = s[n]
      BY <2>3, <2>4, <2>5, <3>0, <3>1 DEF Mpmc!NoUseAfterFree, Links, Apart
    <3>2. CASE \E t \in Thread : pc[t] = "p_last"
      <4>1. PICK t \in Thread : pc[t] = "p_last"
        BY <3>2
      <4>2. node[t] \in Mpmc!NodesFrom(div) /\ next[node[t]] = Null
        BY <2>3, <2>4, <2>5, <4>1 DEF Links
      <4> QED BY <2>3, <2>4, <3>0, <4>1, <4>2 DEF Mpmc!NoUseAfterFree, Apart
    <3> QED BY <2>3, <3>1, <3>2 DEF Links
  <2>7. Mpmc!NodesConserved
    <3>1. Nodes = free \cup On(s, n) \cup UNION {Mpmc!Held(t) : t \in Thread}
      <4>1. free \subseteq Nodes /\ \A t \in Thread : Mpmc!Held(t) \subseteq Nodes
        BY <2>3 DEF Mpmc!TypeOK, Mpmc!Node, Nodes, Mpmc!Held
      <4> QED BY <2>3, <2>5, <4>1 DEF Apart
    <3> QED BY <2>3, <2>4, <3>1 DEF Mpmc!NodesConserved, Apart, Mpmc!Node, Nodes
  <2>8. Mpmc!LengthTracks
    <3>1. Mpmc!Uncounted({"c_clear", "c_free", "c_length"}) = Cardinality(Counting)
      <4>1. {t \in Thread : pc[t] \in {"c_clear", "c_free", "c_length"} /\ (pc[t] = "c_clear" => node[t] # Null)}
              = Counting
        BY DEF Counting, Counts
      <4> QED BY <4>1, SameCounting DEF Mpmc!Uncounted
    <3>2. Mpmc!Uncounted({"p_last", "p_clear", "p_length"}) = Cardinality(Leading)
      <4>1. {t \in Thread : pc[t] \in {"p_last", "p_clear", "p_length"} /\ (pc[t] = "c_clear" => node[t] # Null)}
              = Leading
        BY DEF Leading, Leads
      <4> QED BY <4>1, SameCounting DEF Mpmc!Uncounted
    <3> QED BY <2>3, <2>4, <3>1, <3>2 DEF Mpmc!LengthTracks, Counted
  <2> QED BY <2>6, <2>7, <2>8
<1> QED BY <1>1, <1>2
-----------------------------------------------------------------------------
(* Both queues together.                                                   *)

Inside == IF kind = "spsc" THEN Spsc!Inside ELSE Mpmc!Inside

QueueInv == \/ kind = "spsc" /\ SpscInv
            \/ kind = "mpmc" /\ MpmcInv

LEMMA QueueInit == Init => QueueInv /\ Inside = <<>> /\ taken = <<>>
<1>1. ASSUME kind = "spsc", Spsc!Init PROVE QueueInv /\ Inside = <<>> /\ taken = <<>>
  BY <1>1, SpscInit DEF QueueInv, Inside, Spsc!Init
<1>2. ASSUME kind = "mpmc", Mpmc!Init PROVE QueueInv /\ Inside = <<>> /\ taken = <<>>
  BY <1>2, MpmcInit DEF QueueInv, Inside, Mpmc!Init
<1> QED BY <1>1, <1>2 DEF Init

LEMMA QueueStep == QueueInv /\ [Next]_vars => QueueInv' /\ Moves(Inside, Inside')
<1> SUFFICES ASSUME QueueInv, [Next]_vars PROVE QueueInv' /\ Moves(Inside, Inside')
  OBVIOUS
<1>1. CASE kind = "spsc" /\ Spsc!Next /\ kind' = kind
  BY <1>1, SpscStep DEF QueueInv, Inside, SpscKept
<1>2. CASE kind = "mpmc" /\ Mpmc!Next /\ kind' = kind
  BY <1>2, MpmcStep DEF QueueInv, Inside, MpmcKept
<1>3. CASE UNCHANGED vars
  <2>1. kind' = kind
    BY <1>3 DEF vars
  <2>2. SpscInv => SpscInv'
    <3>1. \A n, s, d : SpscAt(s, n, d)' <=> SpscAt(s, n, d)
      BY <1>3 DEF vars, spscVars, SpscAt, Spsc!Pushing, Linking
    <3>2. Spsc!TypeOK' <=> Spsc!TypeOK
      BY <1>3 DEF vars, spscVars, Spsc!TypeOK
    <3> QED BY <1>3, <3>1, <3>2 DEF vars, spscVars, SpscInv
  <2>3. MpmcInv => MpmcInv'
    <3>1. \A n, s : MpmcAt(s, n)' <=> MpmcAt(s, n)
      BY <1>3 DEF vars, mpmcVars, MpmcAt, Links, Apart, Counted, Counting, Leading, Counts,
         Leads, Mpmc!Held
    <3>2. Mpmc!TypeOK' <=> Mpmc!TypeOK
      BY <1>3 DEF vars, mpmcVars, Mpmc!TypeOK
    <3>3. /\ Flags' <=> Flags
          /\ \A t : Hand(t)' <=> Hand(t)
      BY <1>3 DEF vars, mpmcVars, Flags, Hand
    <3> QED BY <1>3, <3>1, <3>2, <3>3 DEF vars, mpmcVars, MpmcInv
  <2>4. Spsc!Inside' = Spsc!Inside /\ Mpmc!Inside' = Mpmc!Inside /\ taken' = taken
    BY <1>3 DEF vars, spscVars, mpmcVars, Spsc!Inside, Spsc!Length, Spsc!Follow, Mpmc!Inside,
       Mpmc!NodesFrom, Mpmc!Follow
  <2> QED BY <2>1, <2>2, <2>3, <2>4 DEF QueueInv, Inside, Moves
<1>4. ASSUME Next PROVE \/ kind = "spsc" /\ Spsc!Next /\ kind' = kind
                        \/ kind = "mpmc" /\ Mpmc!Next /\ kind' = kind
  BY <1>4, Zenon DEF Next, OfSpsc, OfMpmc, Spsc!Next, Spsc!Produce, Spsc!Consume, Mpmc!Next,
     Mpmc!Step
<1> QED BY <1>1, <1>2, <1>3, <1>4

LEMMA QueueInvariant == Spec => []QueueInv
BY QueueInit, QueueStep, PTL DEF Spec

\* Every field of either queue keeps the values its type allows: the counts
\* wrap, and the links lead to nodes.
THEOREM QueueTypes == Spec => []TypeOK
<1>1. QueueInv => TypeOK
  BY DEF QueueInv, SpscInv, MpmcInv, TypeOK
<1> QED BY <1>1, QueueInvariant, PTL

\* No step of either queue reads, links or frees a node that has been freed, but
\* for the look without the flag at the start of MicroLockQueue's Pop, and every
\* node is free, in the list or in one thread's hands (LocklessQueue.h:76-130,
\* 169-226), for any number of producers and consumers.
THEOREM QueueMemoryIsSafe == Spec => []NodesSafe
<1>1. QueueInv => NodesSafe
  BY SpscMeans, MpmcMeans DEF QueueInv, NodesSafe
<1> QED BY <1>1, QueueInvariant, PTL

\* size() differs from the items inside by the operations in progress, modulo
\* the width of the counter (LocklessQueue.h:34-35).
THEOREM QueueLengthTracks == Spec => []LengthTracks
<1>1. QueueInv => LengthTracks
  BY SpscMeans, MpmcMeans DEF QueueInv, LengthTracks
<1> QED BY <1>1, QueueInvariant, PTL

\* Both queues implement the first-in first-out queue: a Push appends when it
\* links its node (196; 121 for one producer) and a Pop takes the oldest item.
THEOREM QueuesAreFifo == Spec => FifoSpec
<1>1. Init => Fifo!Init
  BY QueueInit DEF Fifo!Init, Inside
<1>2. QueueInv /\ [Next]_vars => [Fifo!Next]_(Fifo!vars)
  <2> SUFFICES ASSUME QueueInv, [Next]_vars PROVE [Fifo!Next]_(Fifo!vars)
    OBVIOUS
  <2>1. Moves(Inside, Inside')
    BY QueueStep
  <2> QED BY <2>1, Zenon DEF Moves, Inside, Fifo!Next, Fifo!Push, Fifo!Pop, Fifo!Drop, Fifo!vars
<1> QED BY <1>1, <1>2, QueueInvariant, PTL DEF Spec, FifoSpec, Fifo!Spec
=============================================================================
