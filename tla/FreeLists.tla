------------------------------ MODULE FreeLists ------------------------------
(***************************************************************************)
(* Lists of blocks linked through their first words, as the allocators     *)
(* keep them on their stacks of free memory: what pops, pushes and changes *)
(* of other links do to one, and that following the links meets its        *)
(* blocks.  B is the set of blocks, null the end of a list.                *)
(***************************************************************************)
EXTENDS Naturals, FiniteSets, FiniteSetTheorems, WellFoundedInduction, TLAPS

\* From p the links lead through s to null, and never through a block twice.
IsList(null, links, p, s, n) ==
  /\ \A i, j \in 1..n : s[i] = s[j] => i = j
  /\ p = IF n = 0 THEN null ELSE s[1]
  /\ \A i \in 1..n : links[s[i]] = IF i = n THEN null ELSE s[i + 1]

\* The blocks of a list.
ListOf(B, null, links, p, F) ==
  \E n \in Nat : \E s \in [1..n -> B] : /\ IsList(null, links, p, s, n)
                                        /\ F = {s[i] : i \in 1..n}

\* The blocks met from p on in so many steps.
Followed(at, B, links, p, steps) ==
  at = [k \in 0..steps |-> IF k = 0 THEN p ELSE IF at[k - 1] \in B THEN links[at[k - 1]] ELSE at[k - 1]]
-----------------------------------------------------------------------------
LEMMA TheList == ASSUME NEW B, NEW null, NEW links, NEW p, NEW F, ListOf(B, null, links, p, F)
                 PROVE  \E n \in Nat : \E s \in [1..n -> B] : IsList(null, links, p, s, n) /\ F = {s[i] : i \in 1..n}
BY DEF ListOf

LEMMA EmptyList == ASSUME NEW B, NEW null, NEW links PROVE ListOf(B, null, links, null, {})
<1> DEFINE s == [i \in 1..0 |-> 1]
<1>1. s \in [1..0 -> B] /\ {s[i] : i \in 1..0} = {}
  OBVIOUS
<1>2. IsList(null, links, null, s, 0)
  BY DEF IsList
<1> QED BY <1>1, <1>2 DEF ListOf

LEMMA NullEnds == ASSUME NEW B, NEW null, null \notin B, NEW links, NEW F, ListOf(B, null, links, null, F)
                  PROVE  F = {}
<1>1. PICK n \in Nat : \E s \in [1..n -> B] : IsList(null, links, null, s, n) /\ F = {s[i] : i \in 1..n}
  BY TheList
<1>2. PICK s \in [1..n -> B] : IsList(null, links, null, s, n) /\ F = {s[i] : i \in 1..n}
  BY <1>1
<1>3. n = 0
  BY <1>2 DEF IsList
<1> QED BY <1>2, <1>3

LEMMA ListBlocks == ASSUME NEW B, NEW null, NEW links, NEW p, NEW F, ListOf(B, null, links, p, F)
                    PROVE  F \subseteq B
BY DEF ListOf

LEMMA SameLinks == ASSUME NEW B, NEW null, NEW links, NEW links2, NEW p, NEW F, ListOf(B, null, links, p, F),
                          \A b \in F : links2[b] = links[b]
                   PROVE  ListOf(B, null, links2, p, F)
<1>1. PICK n \in Nat : \E s \in [1..n -> B] : IsList(null, links, p, s, n) /\ F = {s[i] : i \in 1..n}
  BY TheList
<1>2. PICK s \in [1..n -> B] : IsList(null, links, p, s, n) /\ F = {s[i] : i \in 1..n}
  BY <1>1
<1>3. IsList(null, links2, p, s, n)
  BY <1>2 DEF IsList
<1> QED BY <1>2, <1>3 DEF ListOf

LEMMA Popped == ASSUME NEW B, NEW null, NEW links, NEW p, NEW F, ListOf(B, null, links, p, F), p # null
                PROVE  p \in F /\ p \in B /\ links[p] \in B \cup {null} /\ ListOf(B, null, links, links[p], F \ {p})
<1>1. PICK n \in Nat : \E s \in [1..n -> B] : IsList(null, links, p, s, n) /\ F = {s[i] : i \in 1..n}
  BY TheList
<1>2. PICK s \in [1..n -> B] : IsList(null, links, p, s, n) /\ F = {s[i] : i \in 1..n}
  BY <1>1
<1>3. n > 0 /\ p = s[1] /\ links[p] = IF n = 1 THEN null ELSE s[2]
  BY <1>2 DEF IsList
<1> DEFINE u == [i \in 1..n - 1 |-> s[i + 1]]
<1>4. n - 1 \in Nat /\ u \in [1..n - 1 -> B]
  BY <1>3
<1>5. IsList(null, links, links[p], u, n - 1)
  BY <1>2, <1>3 DEF IsList
<1>6. F \ {p} = {u[i] : i \in 1..n - 1}
  <2>1. \A i \in 1..n - 1 : u[i] \in F \ {p}
    BY <1>2, <1>3 DEF IsList
  <2>2. ASSUME NEW b \in F \ {p} PROVE \E i \in 1..n - 1 : b = u[i]
    <3>1. PICK i \in 1..n : b = s[i]
      BY <1>2
    <3>2. i - 1 \in 1..n - 1 /\ u[i - 1] = b
      BY <3>1, <1>3
    <3> QED BY <3>2
  <2> QED BY <2>1, <2>2
<1>7. ListOf(B, null, links, links[p], F \ {p})
  BY <1>4, <1>5, <1>6 DEF ListOf
<1>8. p \in F /\ p \in B /\ links[p] \in B \cup {null}
  BY <1>2, <1>3
<1> QED BY <1>7, <1>8

LEMMA PushedOne == ASSUME NEW B, NEW null, NEW links, NEW p, NEW F, NEW b \in B, ListOf(B, null, links, p, F),
                          b \notin F, links[b] = p
                   PROVE  ListOf(B, null, links, b, F \cup {b})
<1>1. PICK n \in Nat : \E s \in [1..n -> B] : IsList(null, links, p, s, n) /\ F = {s[i] : i \in 1..n}
  BY TheList
<1>2. PICK s \in [1..n -> B] : IsList(null, links, p, s, n) /\ F = {s[i] : i \in 1..n}
  BY <1>1
<1> DEFINE u == [i \in 1..n + 1 |-> IF i = 1 THEN b ELSE s[i - 1]]
<1>3. u \in [1..n + 1 -> B] /\ n + 1 \in Nat
  BY <1>2
<1>4. \A i \in 1..n + 1 : i # 1 => u[i] = s[i - 1] /\ u[i] \in F
  BY <1>2
<1>5. \A i \in 1..n : u[i + 1] = s[i]
  OBVIOUS
<1>6. u[1] = b
  OBVIOUS
<1>7. IsList(null, links, b, u, n + 1)
  <2>1. ASSUME NEW i \in 1..n + 1, NEW j \in 1..n + 1, u[i] = u[j] PROVE i = j
    <3>1. CASE i = 1 \/ j = 1
      BY <2>1, <3>1, <1>4, <1>6
    <3>2. CASE i # 1 /\ j # 1
      BY <2>1, <3>2, <1>2, <1>4 DEF IsList
    <3> QED BY <3>1, <3>2
  <2>2. ASSUME NEW i \in 1..n + 1 PROVE links[u[i]] = IF i = n + 1 THEN null ELSE u[i + 1]
    <3>1. CASE i = 1
      <4>1. p = IF n = 0 THEN null ELSE s[1]
        BY <1>2 DEF IsList
      <4> QED BY <3>1, <4>1, <1>5, <1>6
    <3>2. CASE i # 1
      <4>1. i - 1 \in 1..n
        BY <3>2
      <4>2. links[s[i - 1]] = IF i - 1 = n THEN null ELSE s[i - 1 + 1]
        BY <4>1, <1>2 DEF IsList
      <4> QED BY <3>2, <4>2, <1>4, <1>5
    <3> QED BY <3>1, <3>2
  <2> QED BY <2>1, <2>2, <1>6 DEF IsList
<1>8. F \cup {b} = {u[i] : i \in 1..n + 1}
  <2>1. ASSUME NEW c \in F PROVE \E i \in 1..n + 1 : c = u[i]
    <3>1. PICK i \in 1..n : c = s[i]
      BY <1>2
    <3> QED BY <3>1, <1>5
  <2>2. \E i \in 1..n + 1 : b = u[i]
    BY <1>6
  <2>3. \A i \in 1..n + 1 : u[i] \in F \cup {b}
    BY <1>4, <1>6
  <2> HIDE DEF u
  <2> QED BY <2>1, <2>2, <2>3
<1> HIDE DEF u
<1> QED BY <1>3, <1>7, <1>8 DEF ListOf
-----------------------------------------------------------------------------
(* What follows the links.  Induction is the choice of a least             *)
(* counterexample.                                                         *)

LEMMA Minimal == ASSUME NEW T, T \subseteq Nat, T # {}, NEW R, IsWellFoundedOn(R, Nat)
                 PROVE  \E n \in T : \A m \in T : ~(<<m, n>> \in R)
BY WFMin, Zenon

LEMMA Least == ASSUME NEW T, T \subseteq Nat, T # {}
               PROVE  \E n \in T : \A m \in T : n <= m
<1>1. \A y \in Nat, x \in Nat : <<y, x>> \in OpToRel(<, Nat) <=> y < x
  BY DEF OpToRel
<1>2. \E R : IsWellFoundedOn(R, Nat) /\ \A y \in Nat, x \in Nat : <<y, x>> \in R <=> y < x
  BY <1>1, NatLessThanWellFounded, Zenon
<1>3. PICK R : IsWellFoundedOn(R, Nat) /\ \A y \in Nat, x \in Nat : <<y, x>> \in R <=> y < x
  BY <1>2
<1>4. \E n \in T : \A m \in T : ~(<<m, n>> \in R)
  BY <1>3, Minimal, Zenon
<1>5. \E n \in T : \A m \in T : ~(m < n)
  BY <1>3, <1>4, Zenon
<1> QED BY <1>5

\* Two walks along the same links are one.
LEMMA FollowedOnce ==
  ASSUME NEW B, NEW links, NEW p, NEW steps \in Nat, NEW f, NEW w,
         Followed(f, B, links, p, steps), Followed(w, B, links, p, steps)
  PROVE  \A k \in 0..steps : f[k] = w[k]
<1> SUFFICES ASSUME NEW a \in 0..steps, f[a] # w[a] PROVE FALSE
  OBVIOUS
<1> DEFINE T == {k \in 0..steps : f[k] # w[k]}
<1>1. T \subseteq Nat /\ T # {}
  OBVIOUS
<1>2. PICK k \in T : \A m \in T : k <= m
  BY <1>1, Least
<1>3. k # 0 => k - 1 \in 0..steps /\ f[k - 1] = w[k - 1]
  BY <1>2
<1>4. /\ f[k] = IF k = 0 THEN p ELSE IF f[k - 1] \in B THEN links[f[k - 1]] ELSE f[k - 1]
      /\ w[k] = IF k = 0 THEN p ELSE IF w[k - 1] \in B THEN links[w[k - 1]] ELSE w[k - 1]
  BY DEF Followed
<1> QED BY <1>2, <1>3, <1>4

\* Following the links of a list long enough meets its blocks and nothing else.
Meets(at, B, null, F, steps) == {at[k] : k \in 0..steps} \cap B = F /\ at[steps] = null

LEMMA ListIsWalked ==
  ASSUME NEW B, NEW null, null \notin B, NEW links, NEW p, NEW F, ListOf(B, null, links, p, F),
         IsFiniteSet(B), NEW steps \in Nat, Cardinality(B) <= steps
  PROVE  \E at : Followed(at, B, links, p, steps) /\ Meets(at, B, null, F, steps)
<1>1. PICK n \in Nat : \E s \in [1..n -> B] : IsList(null, links, p, s, n) /\ F = {s[i] : i \in 1..n}
  BY TheList
<1>2. PICK s \in [1..n -> B] : IsList(null, links, p, s, n) /\ F = {s[i] : i \in 1..n}
  BY <1>1
<1>3. n <= steps
  <2>1. s \in Injection(1..n, B)
    BY <1>2 DEF IsList, Injection, IsInjective
  <2>2. Cardinality(1..n) = n /\ Cardinality(B) \in Nat
    BY FS_Interval, FS_CardinalityType
  <2>3. Cardinality(1..n) <= Cardinality(B)
    BY <2>1, FS_Injection
  <2> QED BY <2>2, <2>3
<1> DEFINE w == [k \in 0..steps |-> IF k < n THEN s[k + 1] ELSE null]
<1>4. Followed(w, B, links, p, steps)
  <2>1. ASSUME NEW k \in 0..steps
        PROVE  w[k] = IF k = 0 THEN p ELSE IF w[k - 1] \in B THEN links[w[k - 1]] ELSE w[k - 1]
    <3>1. CASE k = 0
      BY <3>1, <1>2 DEF IsList
    <3>2. CASE k # 0 /\ k <= n
      <4>1. w[k - 1] = s[k] /\ s[k] \in B
        BY <3>2
      <4>2. links[s[k]] = IF k = n THEN null ELSE s[k + 1]
        BY <3>2, <1>2 DEF IsList
      <4> QED BY <4>1, <4>2, <3>2
    <3>3. CASE k # 0 /\ k > n
      BY <3>3
    <3> QED BY <3>1, <3>2, <3>3
  <2> QED BY <2>1 DEF Followed
<1>5. w[steps] = null
  BY <1>3
<1>6. {w[k] : k \in 0..steps} \cap B = F
  <2>1. \A k \in 0..steps : w[k] \in B => w[k] \in F
    <3> SUFFICES ASSUME NEW k \in 0..steps, w[k] \in B PROVE w[k] \in F
      OBVIOUS
    <3>1. k < n /\ w[k] = s[k + 1]
      OBVIOUS
    <3> QED BY <3>1, <1>2
  <2>2. ASSUME NEW b \in F PROVE b \in B /\ \E k \in 0..steps : w[k] = b
    <3>1. PICK i \in 1..n : b = s[i]
      BY <1>2
    <3>2. i - 1 \in 0..steps /\ w[i - 1] = b
      BY <3>1, <1>3
    <3> QED BY <3>1, <3>2
  <2> HIDE DEF w
  <2> QED BY <2>1, <2>2
<1> HIDE DEF w
<1> QED BY <1>4, <1>5, <1>6 DEF Meets

LEMMA ListIsChain ==
  ASSUME NEW B, NEW null, null \notin B, NEW links, NEW p, NEW F, ListOf(B, null, links, p, F),
         IsFiniteSet(B), NEW steps \in Nat, Cardinality(B) <= steps,
         NEW f, Followed(f, B, links, p, steps)
  PROVE  Meets(f, B, null, F, steps)
<1>1. PICK w : Followed(w, B, links, p, steps) /\ Meets(w, B, null, F, steps)
  BY ListIsWalked
<1>2. \A k \in 0..steps : f[k] = w[k]
  BY <1>1, FollowedOnce
<1>3. {f[k] : k \in 0..steps} = {w[k] : k \in 0..steps}
  BY <1>2
<1> QED BY <1>1, <1>2, <1>3 DEF Meets
=============================================================================
