--------------------------- MODULE ContainerProofs ---------------------------
(***************************************************************************)
(* Proofs about RefCounter and DisjointSet, and the theorems about all     *)
(* four classes of MCContainers, for any objects, references, elements and *)
(* bounds.  RefsInv counts the pointers to every object that is alive: a   *)
(* drop that destroys an object falls on through the pointers it held, and *)
(* frees nothing that the caller still holds.  SetsInv has a rank for each *)
(* element, which grows on every way up; a set has one root, and 2 to the  *)
(* rank of the root does not exceed its size, which bounds the way to it.  *)
(***************************************************************************)
EXTENDS RingListProofs

LEMMA Constants == /\ IsFiniteSet(Object) /\ IsFiniteSet(Local) /\ Local \cap Object = {} /\ Null \notin Object
                   /\ MaxElement \in Nat
BY RefsAssumption, SetsAssumption, SameCounting DEF Refs!Assumptions, Sets!Assumptions

(* A function applied again and again.                                     *)
Iterated(w, f, x, n) == w[0] = x /\ \A k \in 1..n : w[k] = f[w[k - 1]]

LEMMA Iterates == ASSUME NEW T, NEW f \in [T -> T], NEW x \in T, NEW n \in Nat
                  PROVE  \E w \in [0..n -> T] : Iterated(w, f, x, n)
<1> DEFINE P(k) == \E w \in [0..k -> T] : Iterated(w, f, x, k)
           Bad == {k \in Nat : ~P(k)}
<1>1. P(0)
  <2>1. [k \in 0..0 |-> x] \in [0..0 -> T] /\ Iterated([k \in 0..0 |-> x], f, x, 0)
    BY DEF Iterated
  <2> QED BY <2>1
<1>2. ASSUME NEW k \in Nat, P(k) PROVE P(k + 1)
  <2>1. PICK w \in [0..k -> T] : Iterated(w, f, x, k)
    BY <1>2
  <2>2. w[k] \in T /\ f[w[k]] \in T
    OBVIOUS
  <2> DEFINE u == [i \in 0..k + 1 |-> IF i <= k THEN w[i] ELSE f[w[k]]]
  <2>3. u \in [0..k + 1 -> T]
    BY <2>2
  <2>4. ASSUME NEW i \in 1..k + 1 PROVE u[i] = f[u[i - 1]]
    <3>1. CASE i <= k
      BY <3>1, <2>1 DEF Iterated
    <3>2. CASE i > k
      BY <3>2
    <3> QED BY <3>1, <3>2
  <2>5. u[0] = x
    BY <2>1 DEF Iterated
  <2> QED BY <2>3, <2>4, <2>5 DEF Iterated
<1> HIDE DEF P
<1>3. ASSUME Bad # {} PROVE FALSE
  <2>1. PICK k \in Bad : \A m \in Bad : k <= m
    BY <1>3, Least
  <2>2. k # 0
    BY <1>1
  <2>3. k - 1 \in Nat /\ k - 1 \notin Bad
    BY <2>1, <2>2
  <2>4. P(k - 1)
    BY <2>3
  <2>5. P(k - 1 + 1)
    BY <1>2, <2>3, <2>4
  <2> QED BY <2>5
<1>4. P(n)
  BY <1>3
<1> QED BY <1>4 DEF P
-----------------------------------------------------------------------------
(* RefCounter.                                                             *)

\* The pointers to x among those that exist when the objects in a do.
Pointing(a, p, x) == {k \in Local \cup a : p[k] = x}

\* Counts r of the objects in a, without those of the pointers in out.
Counted(r, a, p, out) ==
  /\ r \in [Object -> Int] /\ a \subseteq Object /\ p \in [Refs!Holder -> Object \cup {Null}]
  /\ \A x \in Object : r[x] = Cardinality(Pointing(a, p, x) \ out)
  /\ \A x \in Object : x \in a <=> r[x] > 0
  /\ \A x \in Object \ a : p[x] = Null

RefsInv ==
  /\ Refs!TypeOK /\ undefined \in BOOLEAN /\ (undefined => careless)
  /\ ~undefined => Counted(refs, alive, ptr, {})

LEMMA PointingFinite == ASSUME NEW a, a \subseteq Object, NEW p, NEW x, NEW out
                        PROVE  IsFiniteSet(Pointing(a, p, x) \ out) /\ Cardinality(Pointing(a, p, x) \ out) \in Nat
<1>1. IsFiniteSet(Local \cup Object)
  BY Constants, FS_Union
<1>2. Pointing(a, p, x) \ out \in SUBSET (Local \cup Object)
  BY DEF Pointing
<1>3. IsFiniteSet(Pointing(a, p, x) \ out)
  BY <1>1, <1>2, FS_Subset
<1> QED BY <1>3, FS_CardinalityType

\* What a drop falls through: the first n objects have no other pointer.
Falls(w, n, h) ==
  /\ w[0] = ptr[h] /\ \A i \in 1..n : w[i] = ptr[w[i - 1]]
  /\ \A i \in 0..n - 1 : w[i] \in alive /\ refs[w[i]] = 1
  /\ \A i, j \in 0..n - 1 : w[i] = w[j] => i = j
  /\ w[n] \in Object \cup {Null}
  /\ w[n] = Null \/ w[n] \notin alive \ {w[i] : i \in 0..n - 1} \/ refs[w[n]] # 1

LEMMA MembersAre ==
  ASSUME NEW h \in Refs!Holder, Refs!TypeOK, NEW w, w = Refs!Members(Refs!State, ptr[h]), NEW N, N = Cardinality(Object)
  PROVE  /\ w \in [0..N -> Object \cup {Null}] /\ w[0] = ptr[h] /\ N \in Nat
         /\ \A k \in 1..N : w[k] = IF w[k - 1] = Null THEN Null ELSE ptr[w[k - 1]]
<1>1. N \in Nat /\ ptr[h] \in Object \cup {Null} /\ \A o \in Object : ptr[o] \in Object \cup {Null}
  BY Constants, FS_CardinalityType DEF Refs!TypeOK, Refs!Holder
<1> DEFINE T == Object \cup {Null}
           f == [o \in T |-> IF o = Null THEN Null ELSE ptr[o]]
<1>2. f \in [T -> T]
  BY <1>1
<1>3. PICK u \in [0..N -> T] : Iterated(u, f, ptr[h], N)
  BY <1>1, <1>2, Iterates
<1>4. \A o \in T : f[o] = IF o = Null THEN Null ELSE ptr[o]
  OBVIOUS
<1> HIDE DEF T, f
<1>5. u[0] = ptr[h] /\ \A k \in 1..N : u[k] = IF u[k - 1] = Null THEN Null ELSE ptr[u[k - 1]]
  <2>1. \A k \in 1..N : u[k - 1] \in T /\ u[k] = f[u[k - 1]]
    <3>1. \A k \in 1..N : k - 1 \in 0..N
      BY <1>1
    <3> QED BY <3>1, <1>3 DEF Iterated
  <2>2. u[0] = ptr[h]
    BY <1>3 DEF Iterated
  <2> QED BY <2>1, <2>2, <1>4
<1>6. u = [k \in 0..N |-> IF k = 0 THEN ptr[h] ELSE IF u[k - 1] = Null THEN Null ELSE ptr[u[k - 1]]]
  <2>1. \A k \in 0..N : k # 0 => k \in 1..N
    BY <1>1
  <2>2. u = [k \in 0..N |-> u[k]]
    OBVIOUS
  <2> QED BY <2>1, <2>2, <1>5
<1>7. Refs!State.ptr = ptr /\ Refs!Cardinality(Object) = N
  BY SameCounting DEF Refs!State
<1>8. w = [k \in 0..N |-> IF k = 0 THEN ptr[h] ELSE IF w[k - 1] = Null THEN Null ELSE ptr[w[k - 1]]]
  <2>1. u = [k \in 0..Refs!Cardinality(Object) |->
               IF k = 0 THEN ptr[h] ELSE IF u[k - 1] = Null THEN Null ELSE Refs!State.ptr[u[k - 1]]]
    BY <1>6, <1>7
  <2>2. w = [k \in 0..Refs!Cardinality(Object) |->
               IF k = 0 THEN ptr[h] ELSE IF w[k - 1] = Null THEN Null ELSE Refs!State.ptr[w[k - 1]]]
    BY <2>1, Zenon DEF Refs!Members
  <2> QED BY <2>2, <1>7
<1>9. w[0] = ptr[h] /\ \A k \in 1..N : w[k] = IF w[k - 1] = Null THEN Null ELSE ptr[w[k - 1]]
  BY <1>1, <1>8
<1>10. \A k \in 0..N : w[k] \in T
  <2> DEFINE B == {k \in 0..N : w[k] \notin T}
  <2> SUFFICES ASSUME B # {} PROVE FALSE
    OBVIOUS
  <2>1. B \subseteq Nat
    BY <1>1
  <2>2. PICK k \in B : \A m \in B : k <= m
    BY <2>1, Least
  <2>3. k # 0 /\ k \in 1..N
    BY <1>1, <1>9 DEF T
  <2>4. k - 1 \in 0..N /\ ~(k <= k - 1)
    BY <2>3, <1>1
  <2>5. w[k - 1] \in T
    BY <2>2, <2>4
  <2> QED BY <2>3, <2>5, <1>1, <1>9 DEF T
<1>11. w \in [0..N -> T]
  <2>1. w = [k \in 0..N |-> w[k]]
    BY <1>8
  <2> QED BY <2>1, <1>10
<1> QED BY <1>1, <1>9, <1>11 DEF T

\* What a drop leaves.
Gone(w, n) == {w[i] : i \in 0..n - 1}
IsBad(w, n) == w[n] # Null /\ (w[n] \notin alive \ Gone(w, n) \/ refs[w[n]] <= 0)

Dropped(s, w, n) ==
  /\ s.refs = [x \in Object |-> IF x \in Gone(w, n) THEN 0
                                ELSE IF x = w[n] /\ ~IsBad(w, n) THEN refs[x] - 1 ELSE refs[x]]
  /\ s.alive = alive \ Gone(w, n)
  /\ s.ptr = [k \in Refs!Holder |-> IF k \in Gone(w, n) THEN Null ELSE ptr[k]]
  /\ s.bad = IsBad(w, n)

LEMMA DropFalls ==
  ASSUME NEW h \in Refs!Holder, Refs!TypeOK, NEW s, s = Refs!Drop(Refs!State, ptr[h])
  PROVE  \E n \in Nat : \E w : Falls(w, n, h) /\ Dropped(s, w, n)
<1>1. PICK w : w = Refs!Members(Refs!State, ptr[h])
  OBVIOUS
<1>2. PICK N : N = Cardinality(Object)
  OBVIOUS
<1>3. /\ w \in [0..N -> Object \cup {Null}] /\ w[0] = ptr[h] /\ N \in Nat
      /\ \A k \in 1..N : w[k] = IF w[k - 1] = Null THEN Null ELSE ptr[w[k - 1]]
  BY <1>1, <1>2, MembersAre
<1> DEFINE Out(k) == w[k] = Null \/ w[k] \notin alive \ Gone(w, k) \/ refs[w[k]] # 1
           B == {k \in 0..N : Out(k)}
<1>4. Refs!State.alive = alive /\ Refs!State.refs = refs /\ Refs!State.ptr = ptr /\ Refs!Cardinality(Object) = N
  BY <1>2, SameCounting DEF Refs!State
<1>5. \A k : Refs!Destroyed(w, k) = Gone(w, k) /\ (Refs!Outlives(Refs!State, w, k) <=> Out(k))
  BY <1>4 DEF Refs!Destroyed, Refs!Outlives, Gone
<1>6. B # {}
  <2> SUFFICES ASSUME B = {} PROVE FALSE
    OBVIOUS
  <2>1. \A k \in 0..N : w[k] # Null /\ w[k] \in Object /\ w[k] \notin Gone(w, k)
    BY <1>3
  <2>2. ASSUME NEW i \in 0..N, NEW j \in 0..N, w[i] = w[j], i < j PROVE FALSE
    <3>1. i \in 0..j - 1
      BY <2>2
    <3>2. w[j] \in Gone(w, j)
      BY <2>2, <3>1 DEF Gone
    <3> QED BY <2>1, <3>2
  <2>3. ASSUME NEW i \in 0..N, NEW j \in 0..N, w[i] = w[j] PROVE i = j
    <3>1. ~(i < j) /\ ~(j < i)
      BY <2>2, <2>3
    <3> QED BY <3>1, <1>3
  <2>4. w \in Injection(0..N, Object)
    <3>1. w \in [0..N -> Object]
      BY <1>3, <2>1
    <3> QED BY <3>1, <2>3 DEF Injection, IsInjective
  <2>5. Cardinality(0..N) <= N
    BY <2>4, <1>2, Constants, FS_Injection
  <2>6. Cardinality(0..N) = N + 1
    BY <1>3, FS_Interval
  <2> QED BY <2>5, <2>6, <1>3
<1>7. PICK k \in B : \A m \in B : k <= m
  <2>1. B \subseteq Nat
    BY <1>3
  <2> QED BY <2>1, <1>6, Least
<1>8. k \in 0..N /\ Out(k) /\ \A i \in 0..k - 1 : ~Out(i)
  <2>1. \A i \in 0..k - 1 : i \in 0..N /\ ~(k <= i)
    BY <1>3
  <2> QED BY <2>1, <1>7
<1> HIDE DEF Out, B
<1>9. PICK n : n = CHOOSE i \in 0..N : Out(i) /\ \A j \in 0..i - 1 : ~Out(j)
  OBVIOUS
<1>10. n \in 0..N /\ Out(n) /\ \A i \in 0..n - 1 : ~Out(i)
  BY <1>8, <1>9
<1>11. n \in Nat /\ \A i \in 0..n - 1 : i \in 0..N /\ i + 1 \in 1..N
  BY <1>3, <1>10
<1>12. Falls(w, n, h)
  <2>1. \A i \in 0..n - 1 : w[i] # Null /\ w[i] \in alive /\ w[i] \notin Gone(w, i) /\ refs[w[i]] = 1
    BY <1>10 DEF Out
  <2>2. \A i \in 1..n : w[i] = ptr[w[i - 1]]
    <3> TAKE i \in 1..n
    <3>1. i - 1 \in 0..n - 1 /\ i \in 1..N
      BY <1>3, <1>10
    <3> QED BY <3>1, <2>1, <1>3
  <2>3. ASSUME NEW i \in 0..n - 1, NEW j \in 0..n - 1, w[i] = w[j], i < j PROVE FALSE
    <3>1. i \in 0..j - 1
      BY <2>3
    <3>2. w[j] \in Gone(w, j)
      BY <2>3, <3>1 DEF Gone
    <3> QED BY <2>1, <3>2
  <2>4. \A i, j \in 0..n - 1 : w[i] = w[j] => i = j
    <3> TAKE i, j \in 0..n - 1
    <3> HAVE w[i] = w[j]
    <3>1. ~(i < j) /\ ~(j < i)
      BY <2>3
    <3> QED BY <3>1, <1>11
  <2>5. w[n] \in Object \cup {Null}
    BY <1>3, <1>10
  <2>6. w[n] = Null \/ w[n] \notin alive \ {w[i] : i \in 0..n - 1} \/ refs[w[n]] # 1
    BY <1>10 DEF Out, Gone
  <2> QED BY <2>1, <2>2, <2>4, <2>5, <2>6, <1>3 DEF Falls
<1>13. Dropped(s, w, n)
  <2>1. n = CHOOSE i \in 0..Refs!Cardinality(Object) :
              Refs!Outlives(Refs!State, w, i) /\ \A j \in 0..i - 1 : ~Refs!Outlives(Refs!State, w, j)
    BY <1>4, <1>5, <1>9
  <2>2. PICK gone : gone = Gone(w, n)
    OBVIOUS
  <2>3. PICK bad : bad = IsBad(w, n)
    OBVIOUS
  <2>4. s = [refs |-> [x \in Object |-> IF x \in gone THEN 0 ELSE IF x = w[n] /\ ~bad THEN refs[x] - 1 ELSE refs[x]],
             alive |-> alive \ gone,
             ptr |-> [k_1 \in Refs!Holder |-> IF k_1 \in gone THEN Null ELSE ptr[k_1]],
             bad |-> bad]
    BY <2>1, <2>2, <2>3, <1>1, <1>4, <1>5, Zenon DEF Refs!Drop, IsBad
  <2> QED BY <2>2, <2>3, <2>4 DEF Dropped
<1> QED BY <1>11, <1>12, <1>13

LEMMA OnlyPointer == ASSUME Counted(refs, alive, ptr, {}), NEW x \in Object, refs[x] = 1,
                            NEW j \in Local \cup alive, NEW k \in Local \cup alive, ptr[j] = x, ptr[k] = x
                     PROVE  j = k
<1>1. PICK S : S = Pointing(alive, ptr, x) \ {}
  OBVIOUS
<1>2. IsFiniteSet(S) /\ Cardinality(S) = 1
  BY <1>1, PointingFinite DEF Counted
<1>3. \E y : S = {y}
  BY <1>2, FS_Singleton
<1>4. j \in S /\ k \in S
  BY <1>1 DEF Pointing
<1> QED BY <1>3, <1>4

LEMMA PointedLives == ASSUME Counted(refs, alive, ptr, {}), NEW k \in Local \cup alive, ptr[k] \in Object
                      PROVE  refs[ptr[k]] >= 1 /\ ptr[k] \in alive
<1>1. PICK x \in Object : x = ptr[k]
  OBVIOUS
<1>2. PICK S : S = Pointing(alive, ptr, x) \ {}
  OBVIOUS
<1>3. IsFiniteSet(S) /\ Cardinality(S) \in Nat /\ refs[x] = Cardinality(S)
  BY <1>2, PointingFinite DEF Counted
<1>4. k \in S
  BY <1>1, <1>2 DEF Pointing
<1>5. Cardinality(S) # 0
  BY <1>3, <1>4, FS_EmptySet
<1>6. refs[x] > 0 /\ refs[x] >= 1
  BY <1>3, <1>5
<1> QED BY <1>1, <1>6 DEF Counted

\* The pointer that a drop comes from at the n-th object.
From(w, n, h) == IF n = 0 THEN h ELSE w[n - 1]

LEMMA DropSpares ==
  ASSUME Counted(refs, alive, ptr, {}), NEW h \in Local \cup alive, NEW n \in Nat, NEW w, Falls(w, n, h),
         NEW gone, gone = Gone(w, n)
  PROVE  /\ gone \subseteq alive /\ gone \subseteq Object
         /\ \A k \in Local \cup alive : ptr[k] \in gone => k = h \/ k \in gone
         /\ IsBad(w, n) <=> h \in gone
         /\ From(w, n, h) \in Local \cup alive /\ ptr[From(w, n, h)] = w[n]
         /\ \A i \in 0..n - 1 : ptr[w[i]] = w[i + 1]
         /\ w[n] # Null => w[n] \in Object /\ refs[w[n]] >= 1 /\ w[n] \in alive
<1>1. /\ w[0] = ptr[h] /\ \A i \in 1..n : w[i] = ptr[w[i - 1]]
      /\ \A i \in 0..n - 1 : w[i] \in alive /\ refs[w[i]] = 1
      /\ \A i, j \in 0..n - 1 : w[i] = w[j] => i = j
      /\ w[n] \in Object \cup {Null}
  BY DEF Falls
<1>2. alive \subseteq Object /\ Null \notin Object
  BY Constants DEF Counted
<1>3. \A x : x \in gone <=> \E i \in 0..n - 1 : x = w[i]
  BY DEF Gone
<1>4. gone \subseteq alive /\ gone \subseteq Object
  BY <1>1, <1>2, <1>3
<1>5. \A i \in 0..n : From(w, i, h) \in Local \cup alive /\ ptr[From(w, i, h)] = w[i]
  <2> TAKE i \in 0..n
  <2>1. CASE i = 0
    BY <2>1, <1>1 DEF From
  <2>2. CASE i # 0
    <3>1. i \in 1..n /\ i - 1 \in 0..n - 1
      BY <2>2
    <3> QED BY <2>2, <3>1, <1>1 DEF From
  <2> QED BY <2>1, <2>2
<1>6. \A i \in 0..n - 1, k \in Local \cup alive : ptr[k] = w[i] => k = From(w, i, h)
  <2> TAKE i \in 0..n - 1, k \in Local \cup alive
  <2> HAVE ptr[k] = w[i]
  <2>1. w[i] \in Object /\ refs[w[i]] = 1
    BY <1>1, <1>2
  <2>2. From(w, i, h) \in Local \cup alive /\ ptr[From(w, i, h)] = w[i]
    BY <1>5
  <2> QED BY <2>1, <2>2, OnlyPointer
<1>7. \A i \in 0..n : From(w, i, h) = h \/ From(w, i, h) \in gone
  <2> TAKE i \in 0..n
  <2>1. i # 0 => i - 1 \in 0..n - 1
    OBVIOUS
  <2> QED BY <2>1, <1>3 DEF From
<1>8. \A k \in Local \cup alive : ptr[k] \in gone => k = h \/ k \in gone
  <2> TAKE k \in Local \cup alive
  <2> HAVE ptr[k] \in gone
  <2>1. PICK i \in 0..n - 1 : ptr[k] = w[i]
    BY <1>3
  <2>2. k = From(w, i, h)
    BY <2>1, <1>6
  <2> QED BY <2>2, <1>7
<1>9. w[n] # Null => w[n] \in Object /\ refs[w[n]] >= 1 /\ w[n] \in alive
  <2> SUFFICES ASSUME w[n] # Null PROVE w[n] \in Object /\ refs[w[n]] >= 1 /\ w[n] \in alive
    OBVIOUS
  <2>1. w[n] \in Object
    BY <1>1
  <2>2. From(w, n, h) \in Local \cup alive /\ ptr[From(w, n, h)] = w[n]
    BY <1>5
  <2> QED BY <2>1, <2>2, PointedLives
<1>10. \A i \in 0..n - 1 : ptr[w[i]] = w[i + 1]
  <2> TAKE i \in 0..n - 1
  <2>1. i + 1 \in 1..n /\ i + 1 - 1 = i
    OBVIOUS
  <2>2. w[i + 1] = ptr[w[i + 1 - 1]]
    BY <2>1, <1>1
  <2> QED BY <2>1, <2>2
<1>11. ASSUME w[n] \in gone PROVE h \in gone
  <2>1. PICK i \in 0..n - 1 : w[n] = w[i]
    BY <1>3, <1>11
  <2>2. From(w, n, h) \in Local \cup alive /\ ptr[From(w, n, h)] = w[i]
    BY <2>1, <1>5
  <2>3. From(w, n, h) = From(w, i, h)
    BY <2>2, <1>6
  <2>4. n # 0 /\ n - 1 \in 0..n - 1
    OBVIOUS
  <2>5. CASE i = 0
    <3>1. w[n - 1] = h
      BY <2>3, <2>4, <2>5 DEF From
    <3> QED BY <3>1, <2>4, <1>3
  <2>6. CASE i # 0
    <3>1. w[n - 1] = w[i - 1] /\ i - 1 \in 0..n - 1
      BY <2>3, <2>4, <2>6 DEF From
    <3>2. n - 1 = i - 1
      BY <3>1, <2>4, <1>1
    <3> QED BY <3>2
  <2> QED BY <2>5, <2>6
<1>12. ASSUME h \in gone PROVE w[n] \in gone
  <2>1. PICK j \in 0..n - 1 : h = w[j]
    BY <1>3, <1>12
  <2>2. w[j + 1] = w[0] /\ 0 \in 0..n - 1
    BY <2>1, <1>1, <1>10
  <2>3. CASE j + 1 \in 0..n - 1
    <3>1. j + 1 = 0
      BY <2>2, <2>3, <1>1
    <3> QED BY <3>1
  <2>4. CASE j + 1 = n
    BY <2>2, <2>4, <1>3
  <2> QED BY <2>3, <2>4
<1>13. IsBad(w, n) <=> w[n] \in gone
  <2>1. IsBad(w, n) <=> w[n] # Null /\ (w[n] \notin alive \ gone \/ refs[w[n]] <= 0)
    BY DEF IsBad
  <2>2. w[n] \in gone => w[n] # Null
    BY <1>2, <1>4
  <2>3. w[n] # Null => ~(refs[w[n]] <= 0)
    <3> SUFFICES ASSUME w[n] # Null PROVE ~(refs[w[n]] <= 0)
      OBVIOUS
    <3>1. refs[w[n]] \in Int
      BY <1>9 DEF Counted
    <3> QED BY <3>1, <1>9
  <2> QED BY <2>1, <2>2, <2>3, <1>9
<1>14. n \in 0..n
  OBVIOUS
<1> QED BY <1>4, <1>5, <1>8, <1>9, <1>10, <1>11, <1>12, <1>13, <1>14

LEMMA DropKeeps ==
  ASSUME Counted(refs, alive, ptr, {}), NEW h \in Local \cup alive, NEW n \in Nat, NEW w, Falls(w, n, h),
         h \notin Gone(w, n), NEW s, Dropped(s, w, n)
  PROVE  Counted(s.refs, s.alive, s.ptr, {h})
<1>1. PICK gone : gone = Gone(w, n)
  OBVIOUS
<1>2. /\ gone \subseteq alive /\ gone \subseteq Object
      /\ \A k \in Local \cup alive : ptr[k] \in gone => k = h \/ k \in gone
      /\ IsBad(w, n) <=> h \in gone
      /\ From(w, n, h) \in Local \cup alive /\ ptr[From(w, n, h)] = w[n]
      /\ \A i \in 0..n - 1 : ptr[w[i]] = w[i + 1]
      /\ w[n] # Null => w[n] \in Object /\ refs[w[n]] >= 1 /\ w[n] \in alive
  BY <1>1, DropSpares
<1>3. h \notin gone /\ ~IsBad(w, n)
  BY <1>1, <1>2
<1>4. /\ s.refs = [x \in Object |-> IF x \in gone THEN 0 ELSE IF x = w[n] THEN refs[x] - 1 ELSE refs[x]]
      /\ s.alive = alive \ gone
      /\ s.ptr = [k \in Refs!Holder |-> IF k \in gone THEN Null ELSE ptr[k]]
  BY <1>1, <1>3 DEF Dropped
<1>5. /\ refs \in [Object -> Int] /\ alive \subseteq Object /\ ptr \in [Refs!Holder -> Object \cup {Null}]
      /\ \A x \in Object : refs[x] = Cardinality(Pointing(alive, ptr, x))
      /\ \A x \in Object : x \in alive <=> refs[x] > 0
      /\ \A x \in Object \ alive : ptr[x] = Null
  <2>1. \A x : Pointing(alive, ptr, x) \ {} = Pointing(alive, ptr, x)
    OBVIOUS
  <2> QED BY <2>1 DEF Counted
<1>6. /\ \A x : x \in gone <=> \E i \in 0..n - 1 : x = w[i]
      /\ w[0] = ptr[h]
      /\ (w[n] = Null \/ w[n] \notin alive \ gone \/ refs[w[n]] # 1)
  BY <1>1 DEF Gone, Falls
<1>7. Local \cap Object = {} /\ Null \notin Object /\ Refs!Holder = Local \cup Object
  BY Constants DEF Refs!Holder
<1>8. s.refs \in [Object -> Int] /\ s.alive \subseteq Object /\ s.ptr \in [Refs!Holder -> Object \cup {Null}]
  BY <1>4, <1>5
<1>9. \A x \in Object \ s.alive : s.ptr[x] = Null
  BY <1>4, <1>5, <1>7
<1>10. ASSUME NEW x, NEW k
       PROVE  k \in Pointing(s.alive, s.ptr, x) \ {h} <=> k \in Local \cup alive /\ k # h /\ k \notin gone /\ ptr[k] = x
  BY <1>2, <1>4, <1>5, <1>7 DEF Pointing
<1>11. \A k \in gone : ptr[k] \in gone \/ (k = From(w, n, h) /\ ptr[k] = w[n])
  <2> TAKE k \in gone
  <2>1. PICK i \in 0..n - 1 : k = w[i]
    BY <1>6
  <2>2. ptr[k] = w[i + 1]
    BY <2>1, <1>2
  <2>3. CASE i + 1 \in 0..n - 1
    <3>1. w[i + 1] \in gone
      BY <2>3, <1>1 DEF Gone
    <3> QED BY <3>1, <2>2
  <2>4. CASE i + 1 = n
    <3>1. n # 0 /\ n - 1 = i
      BY <2>4
    <3> QED BY <3>1, <2>1, <2>2, <2>4 DEF From
  <2> QED BY <2>3, <2>4
<1>12. ptr[h] \in gone \/ (h = From(w, n, h) /\ ptr[h] = w[n])
  <2>1. CASE n = 0
    BY <2>1, <1>6 DEF From
  <2>2. CASE n # 0
    <3>1. 0 \in 0..n - 1
      BY <2>2
    <3>2. w[0] \in gone
      BY <3>1, <1>1 DEF Gone
    <3> QED BY <3>2, <1>6
  <2> QED BY <2>1, <2>2
<1>13. From(w, n, h) = h \/ From(w, n, h) \in gone
  <2>1. n # 0 => n - 1 \in 0..n - 1
    OBVIOUS
  <2> QED BY <2>1, <1>6 DEF From
<1>14. \A x \in Object : s.refs[x] = Cardinality(Pointing(s.alive, s.ptr, x) \ {h})
  <2> TAKE x \in Object
  <2>1. PICK S : S = Pointing(s.alive, s.ptr, x) \ {h}
    OBVIOUS
  <2>2. PICK U : U = Pointing(alive, ptr, x)
    OBVIOUS
  <2>3. \A k : k \in S <=> k \in Local \cup alive /\ k # h /\ k \notin gone /\ ptr[k] = x
    BY <2>1, <1>10
  <2>4. (\A k : k \in U <=> k \in Local \cup alive /\ ptr[k] = x) /\ refs[x] = Cardinality(U)
    BY <2>2, <1>5 DEF Pointing
  <2>5. IsFiniteSet(U) /\ Cardinality(U) \in Nat
    <3>1. U = Pointing(alive, ptr, x) \ {}
      BY <2>2
    <3> QED BY <3>1, <1>5, PointingFinite
  <2>6. CASE x \in gone
    <3>1. S = {}
      BY <2>3, <2>6, <1>2
    <3>2. s.refs[x] = 0
      BY <2>6, <1>4
    <3> QED BY <3>1, <3>2, <2>1, FS_EmptySet
  <2>7. CASE x \notin gone /\ x = w[n]
    <3>1. S = U \ {From(w, n, h)} /\ From(w, n, h) \in U
      BY <2>3, <2>4, <2>7, <1>2, <1>11, <1>12, <1>13
    <3>2. Cardinality(S) = Cardinality(U) - 1
      BY <3>1, <2>5, FS_RemoveElement
    <3>3. s.refs[x] = refs[x] - 1
      BY <2>7, <1>4
    <3> QED BY <3>2, <3>3, <2>1, <2>4
  <2>8. CASE x \notin gone /\ x # w[n]
    <3>1. S = U
      BY <2>3, <2>4, <2>8, <1>11, <1>12
    <3>2. s.refs[x] = refs[x]
      BY <2>8, <1>4
    <3> QED BY <3>1, <3>2, <2>1, <2>4
  <2> QED BY <2>6, <2>7, <2>8
<1>15. \A x \in Object : x \in s.alive <=> s.refs[x] > 0
  <2> TAKE x \in Object
  <2>1. refs[x] \in Int /\ (x \in alive <=> refs[x] > 0)
    BY <1>5
  <2>2. CASE x \in gone
    BY <2>2, <1>4
  <2>3. CASE x \notin gone /\ x = w[n]
    <3>1. x \in alive /\ refs[x] >= 1 /\ refs[x] # 1 /\ s.refs[x] = refs[x] - 1
      BY <2>3, <1>2, <1>4, <1>6, <1>7
    <3> QED BY <3>1, <2>1, <2>3, <1>4
  <2>4. CASE x \notin gone /\ x # w[n]
    BY <2>1, <2>4, <1>4
  <2> QED BY <2>2, <2>3, <2>4
<1> QED BY <1>8, <1>9, <1>14, <1>15 DEF Counted

\* Nothing else keeps what a drop destroys.
LEMMA DropCareless ==
  ASSUME Counted(refs, alive, ptr, {}), NEW h \in Local \cup alive, NEW n \in Nat, NEW w, Falls(w, n, h),
         NEW x, x \in Gone(w, n)
  PROVE  x \in Object /\ x \notin Refs!Kept(h)
<1>1. PICK gone : gone = Gone(w, n)
  OBVIOUS
<1>2. /\ gone \subseteq alive /\ gone \subseteq Object
      /\ \A k \in Local \cup alive : ptr[k] \in gone => k = h \/ k \in gone
  BY <1>1, DropSpares
<1>3. /\ alive \subseteq Object /\ ptr \in [Refs!Holder -> Object \cup {Null}]
      /\ \A k \in Local \cup alive : ptr[k] \in Object => ptr[k] \in alive
  BY PointedLives DEF Counted
<1>4. Local \cap Object = {} /\ Null \notin Object /\ Refs!Holder = Local \cup Object
  BY Constants DEF Refs!Holder
<1>5. PICK p : p = [ptr EXCEPT ![h] = Null]
  OBVIOUS
<1>6. PICK T \in SUBSET Object : T = alive \ gone
  BY <1>3
<1>7. \A k \in Local \cup alive : k \notin gone => p[k] = Null \/ p[k] \in T
  <2> TAKE k \in Local \cup alive
  <2> HAVE k \notin gone
  <2>1. k \in Refs!Holder /\ ptr[k] \in Object \cup {Null}
    BY <1>3, <1>4
  <2>2. CASE k = h
    BY <2>1, <2>2, <1>3, <1>5
  <2>3. CASE k # h
    <3>1. p[k] = ptr[k]
      BY <2>1, <2>3, <1>3, <1>5
    <3> QED BY <2>1, <2>3, <3>1, <1>2, <1>3, <1>6
  <2> QED BY <2>2, <2>3
<1>8. {p[l] : l \in Local} \ {Null} \subseteq T
  BY <1>2, <1>4, <1>7
<1>9. {p[o] : o \in T} \subseteq T \cup {Null}
  BY <1>6, <1>7
<1>10. x \notin T /\ x \in Object
  BY <1>1, <1>2, <1>6
<1>11. x \notin Refs!Reached(p, {p[l] : l \in Local} \ {Null})
  BY <1>8, <1>9, <1>10 DEF Refs!Reached
<1> QED BY <1>5, <1>10, <1>11 DEF Refs!Kept

LEMMA StoreCounts ==
  ASSUME NEW r, NEW a, NEW p, NEW h \in Local \cup a, Counted(r, a, p, {h}), NEW o \in a \cup {Null},
         NEW q, q = [p EXCEPT ![h] = o], NEW c, c = IF o = Null THEN r ELSE [r EXCEPT ![o] = @ + 1]
  PROVE  Counted(c, a, q, {})
<1>1. /\ r \in [Object -> Int] /\ a \subseteq Object /\ p \in [Refs!Holder -> Object \cup {Null}]
      /\ \A x \in Object : r[x] = Cardinality(Pointing(a, p, x) \ {h})
      /\ \A x \in Object : x \in a <=> r[x] > 0
      /\ \A x \in Object \ a : p[x] = Null
  BY DEF Counted
<1>2. Local \cap Object = {} /\ Null \notin Object /\ Refs!Holder = Local \cup Object
  BY Constants DEF Refs!Holder
<1>3. h \in Refs!Holder /\ o \in Object \cup {Null} /\ q \in [Refs!Holder -> Object \cup {Null}]
  BY <1>1, <1>2
<1>4. c \in [Object -> Int] /\ \A x \in Object : c[x] = IF x = o THEN r[x] + 1 ELSE r[x]
  BY <1>1, <1>2
<1>5. \A k \in Local \cup a : q[k] = IF k = h THEN o ELSE p[k]
  BY <1>1, <1>2
<1>6. \A x \in Object : c[x] = Cardinality(Pointing(a, q, x) \ {})
  <2> TAKE x \in Object
  <2>1. PICK S : S = Pointing(a, p, x) \ {h}
    OBVIOUS
  <2>2. PICK U : U = Pointing(a, q, x) \ {}
    OBVIOUS
  <2>3. IsFiniteSet(S) /\ Cardinality(S) \in Nat /\ r[x] = Cardinality(S) /\ h \notin S
    BY <2>1, <1>1, PointingFinite
  <2>4. U = IF x = o THEN S \cup {h} ELSE S
    BY <2>1, <2>2, <1>5 DEF Pointing
  <2>5. Cardinality(S \cup {h}) = Cardinality(S) + 1
    BY <2>3, FS_AddElement
  <2> QED BY <2>2, <2>3, <2>4, <2>5, <1>4
<1>7. \A x \in Object : x \in a <=> c[x] > 0
  <2> TAKE x \in Object
  <2>1. r[x] \in Int /\ (x \in a <=> r[x] > 0)
    BY <1>1
  <2> QED BY <2>1, <1>4
<1>8. \A x \in Object \ a : q[x] = Null
  BY <1>1, <1>2, <1>3
<1> QED BY <1>1, <1>3, <1>4, <1>6, <1>7, <1>8 DEF Counted

LEMMA MoveCounts ==
  ASSUME NEW r, NEW a, NEW p, NEW h \in Local \cup a, NEW g \in Local \cup a, Counted(r, a, p, {h}),
         NEW q, q = [p EXCEPT ![h] = p[g]]
  PROVE  Counted(r, a, q, {g})
<1>1. /\ r \in [Object -> Int] /\ a \subseteq Object /\ p \in [Refs!Holder -> Object \cup {Null}]
      /\ \A x \in Object : r[x] = Cardinality(Pointing(a, p, x) \ {h})
      /\ \A x \in Object : x \in a <=> r[x] > 0
      /\ \A x \in Object \ a : p[x] = Null
  BY DEF Counted
<1>2. Local \cap Object = {} /\ Null \notin Object /\ Refs!Holder = Local \cup Object
  BY Constants DEF Refs!Holder
<1>3. h \in Refs!Holder /\ g \in Refs!Holder /\ q \in [Refs!Holder -> Object \cup {Null}]
  BY <1>1, <1>2
<1>4. \A k \in Local \cup a : q[k] = IF k = h THEN p[g] ELSE p[k]
  BY <1>1, <1>2
<1>5. \A x \in Object : r[x] = Cardinality(Pointing(a, q, x) \ {g})
  <2> TAKE x \in Object
  <2>1. PICK S : S = Pointing(a, p, x) \ {h}
    OBVIOUS
  <2>2. PICK U : U = Pointing(a, q, x) \ {g}
    OBVIOUS
  <2>3. IsFiniteSet(S) /\ Cardinality(S) \in Nat /\ r[x] = Cardinality(S) /\ h \notin S
    BY <2>1, <1>1, PointingFinite
  <2>4. CASE p[g] = x /\ g # h
    <3>1. U = (S \ {g}) \cup {h} /\ g \in S /\ h \notin S \ {g}
      BY <2>1, <2>2, <2>4, <1>4 DEF Pointing
    <3>2. IsFiniteSet(S \ {g}) /\ Cardinality(S \ {g}) = Cardinality(S) - 1
      BY <2>3, <3>1, FS_RemoveElement
    <3>3. Cardinality((S \ {g}) \cup {h}) = Cardinality(S \ {g}) + 1
      BY <3>1, <3>2, FS_AddElement
    <3>4. Cardinality(U) = Cardinality(S) - 1 + 1
      BY <3>1, <3>2, <3>3
    <3>5. Cardinality(U) = Cardinality(S)
      BY <2>3, <3>4
    <3> QED BY <2>2, <2>3, <3>5
  <2>5. CASE p[g] # x \/ g = h
    <3>1. U = S
      BY <2>1, <2>2, <2>5, <1>4 DEF Pointing
    <3> QED BY <2>2, <2>3, <3>1
  <2> QED BY <2>4, <2>5
<1>6. \A x \in Object \ a : q[x] = Null
  BY <1>1, <1>2, <1>3
<1> QED BY <1>1, <1>3, <1>5, <1>6 DEF Counted

LEMMA NewCounts ==
  ASSUME Counted(refs, alive, ptr, {}), NEW h \in Local, ptr[h] = Null, NEW o \in Object, o \notin alive
  PROVE  Counted([refs EXCEPT ![o] = @ + 1], alive \cup {o}, [ptr EXCEPT ![h] = o], {})
<1>1. /\ refs \in [Object -> Int] /\ alive \subseteq Object /\ ptr \in [Refs!Holder -> Object \cup {Null}]
      /\ \A x \in Object : refs[x] = Cardinality(Pointing(alive, ptr, x) \ {})
      /\ \A x \in Object : x \in alive <=> refs[x] > 0
      /\ \A x \in Object \ alive : ptr[x] = Null
  BY DEF Counted
<1>2. Local \cap Object = {} /\ Null \notin Object /\ Refs!Holder = Local \cup Object
  BY Constants DEF Refs!Holder
<1>3. PICK a : a = alive \cup {o}
  OBVIOUS
<1>4. PICK q : q = [ptr EXCEPT ![h] = o]
  OBVIOUS
<1>5. PICK c : c = [refs EXCEPT ![o] = @ + 1]
  OBVIOUS
<1>6. q \in [Refs!Holder -> Object \cup {Null}] /\ \A k \in Refs!Holder : q[k] = IF k = h THEN o ELSE ptr[k]
  BY <1>1, <1>2, <1>4
<1>7. c \in [Object -> Int] /\ \A x \in Object : c[x] = IF x = o THEN refs[x] + 1 ELSE refs[x]
  BY <1>1, <1>5
<1>8. \A x \in Object : c[x] = Cardinality(Pointing(a, q, x) \ {})
  <2> TAKE x \in Object
  <2>1. PICK S : S = Pointing(alive, ptr, x) \ {}
    OBVIOUS
  <2>2. PICK U : U = Pointing(a, q, x) \ {}
    OBVIOUS
  <2>3. IsFiniteSet(S) /\ Cardinality(S) \in Nat /\ refs[x] = Cardinality(S)
    BY <2>1, <1>1, PointingFinite
  <2>4. h \notin S
    BY <2>1, <1>2 DEF Pointing
  <2>5. U = IF x = o THEN S \cup {h} ELSE S
    BY <2>1, <2>2, <1>1, <1>2, <1>3, <1>6 DEF Pointing
  <2>6. Cardinality(S \cup {h}) = Cardinality(S) + 1
    BY <2>3, <2>4, FS_AddElement
  <2> QED BY <2>2, <2>3, <2>5, <2>6, <1>7
<1>9. refs[o] = 0
  <2>1. Cardinality(Pointing(alive, ptr, o) \ {}) \in Nat
    BY <1>1, PointingFinite
  <2> QED BY <2>1, <1>1
<1>10. \A x \in Object : x \in a <=> c[x] > 0
  <2> TAKE x \in Object
  <2>1. refs[x] \in Int /\ (x \in alive <=> refs[x] > 0)
    BY <1>1
  <2> QED BY <2>1, <1>3, <1>7, <1>9
<1>11. \A x \in Object \ a : q[x] = Null
  BY <1>1, <1>2, <1>3, <1>6
<1> QED BY <1>1, <1>3, <1>4, <1>5, <1>6, <1>7, <1>8, <1>10, <1>11 DEF Counted

\* States of a call.
Typed(s) == s \in [refs : [Object -> Int], alive : SUBSET Object,
                   ptr : [Refs!Holder -> Object \cup {Null}], bad : BOOLEAN]

LEMMA StateTyped == ASSUME Refs!TypeOK PROVE Typed(Refs!State)
BY DEF Typed, Refs!TypeOK, Refs!State

LEMMA DropTyped == ASSUME Refs!TypeOK, NEW h \in Refs!Holder, NEW s, s = Refs!Drop(Refs!State, ptr[h])
                   PROVE  Typed(s)
<1>1. PICK w : w = Refs!Members(Refs!State, ptr[h])
  OBVIOUS
<1>2. PICK n : n = CHOOSE k \in 0..Refs!Cardinality(Object) :
                     /\ Refs!Outlives(Refs!State, w, k)
                     /\ \A i \in 0..k - 1 : ~Refs!Outlives(Refs!State, w, i)
  OBVIOUS
<1>3. PICK gone : gone = Refs!Destroyed(w, n)
  OBVIOUS
<1>4. PICK bad \in BOOLEAN : bad <=> w[n] # Null /\ (w[n] \notin alive \ gone \/ refs[w[n]] <= 0)
  OBVIOUS
<1>5. Refs!State.alive = alive /\ Refs!State.refs = refs /\ Refs!State.ptr = ptr
  BY DEF Refs!State
<1>6. s = [refs |-> [x \in Object |-> IF x \in gone THEN 0 ELSE IF x = w[n] /\ ~bad THEN refs[x] - 1 ELSE refs[x]],
           alive |-> alive \ gone,
           ptr |-> [k \in Refs!Holder |-> IF k \in gone THEN Null ELSE ptr[k]],
           bad |-> w[n] # Null /\ (w[n] \notin alive \ gone \/ refs[w[n]] <= 0)]
  BY <1>1, <1>2, <1>3, <1>4, <1>5, Zenon DEF Refs!Drop
<1> HIDE DEF Refs!Drop
<1>7. [x \in Object |-> IF x \in gone THEN 0 ELSE IF x = w[n] /\ ~bad THEN refs[x] - 1 ELSE refs[x]]
        \in [Object -> Int]
  BY DEF Refs!TypeOK
<1>8. [k \in Refs!Holder |-> IF k \in gone THEN Null ELSE ptr[k]] \in [Refs!Holder -> Object \cup {Null}]
  BY DEF Refs!TypeOK
<1>9. alive \ gone \in SUBSET Object
  BY DEF Refs!TypeOK
<1> QED BY <1>6, <1>7, <1>8, <1>9 DEF Typed

LEMMA GrabTyped == ASSUME NEW s, Typed(s), NEW o \in Object \cup {Null}, NEW t, t = Refs!Grab(s, o)
                   PROVE  /\ Typed(t) /\ t.alive = s.alive /\ t.ptr = s.ptr
                          /\ (s.bad => t.bad) /\ (o \notin s.alive \cup {Null} => t.bad)
                          /\ o \in s.alive \cup {Null} =>
                               /\ t.bad = s.bad
                               /\ t.refs = IF o = Null THEN s.refs ELSE [s.refs EXCEPT ![o] = @ + 1]
<1>1. s \in [refs : [Object -> Int], alive : SUBSET Object,
              ptr : [Refs!Holder -> Object \cup {Null}], bad : BOOLEAN]
  BY DEF Typed
<1>2. Null \notin Object
  BY Constants
<1>3. CASE o = Null
  BY <1>1, <1>3 DEF Typed, Refs!Grab
<1>4. CASE o # Null /\ o \notin s.alive
  <2>1. t = [s EXCEPT !.bad = TRUE]
    BY <1>4 DEF Refs!Grab
  <2> QED BY <1>1, <1>4, <2>1 DEF Typed
<1>5. CASE o # Null /\ o \in s.alive
  <2>1. t = [s EXCEPT !.refs[o] = @ + 1]
    BY <1>5 DEF Refs!Grab
  <2>2. o \in Object /\ s.refs \in [Object -> Int]
    BY <1>1, <1>5
  <2>3. [s.refs EXCEPT ![o] = @ + 1] \in [Object -> Int]
    BY <2>2
  <2>4. t = [s EXCEPT !.refs = [s.refs EXCEPT ![o] = @ + 1]]
    BY <2>1
  <2> QED BY <1>1, <1>5, <2>3, <2>4 DEF Typed
<1> QED BY <1>3, <1>4, <1>5

LEMMA StoreTyped == ASSUME NEW s, Typed(s), NEW h \in Refs!Holder, NEW o \in Object \cup {Null},
                           NEW t, t = Refs!Store(s, h, o)
                    PROVE  /\ Typed(t) /\ t.alive = s.alive /\ t.refs = s.refs
                           /\ (s.bad => t.bad) /\ (h \in Object \ s.alive => t.bad)
                           /\ h \notin Object \ s.alive => t.bad = s.bad /\ t.ptr = [s.ptr EXCEPT ![h] = o]
BY DEF Typed, Refs!Store

LEMMA BecomesTyped == ASSUME NEW s, Typed(s), Refs!Becomes(s)
                      PROVE  Refs!TypeOK' /\ undefined' \in BOOLEAN /\ undefined' = s.bad
BY DEF Typed, Refs!Becomes, Refs!TypeOK, Refs!Holder

\* What a call comes to.
Comes(s) == /\ Typed(s) /\ Refs!Becomes(s)
            /\ s.bad => careless'
            /\ ~s.bad => Counted(s.refs, s.alive, s.ptr, {})

LEMMA ComesTo == ASSUME NEW s, Comes(s) PROVE RefsInv'
<1>1. Refs!TypeOK' /\ undefined' \in BOOLEAN /\ undefined' = s.bad
  BY BecomesTyped DEF Comes
<1>2. (undefined' => careless') /\ (~undefined' => Counted(s.refs, s.alive, s.ptr, {}))
  BY <1>1 DEF Comes
<1>3. refs' = s.refs /\ alive' = s.alive /\ ptr' = s.ptr
  BY DEF Comes, Refs!Becomes
<1>4. ~undefined' => Counted(refs, alive, ptr, {})'
  BY <1>2, <1>3 DEF Counted, Pointing, Refs!Holder
<1> QED BY <1>1, <1>2, <1>4 DEF RefsInv

\* A drop that a caller may make.
LEMMA DropOf ==
  ASSUME RefsInv, ~undefined, NEW h \in Local \cup alive, NEW s, s = Refs!Drop(Refs!State, ptr[h])
  PROVE  /\ Typed(s) /\ h \in Refs!Holder /\ s.alive \subseteq alive
         /\ s.bad <=> h \in alive \ s.alive
         /\ \A x \in alive \ s.alive : x \in Object /\ x \notin Refs!Kept(h)
         /\ ~s.bad => Counted(s.refs, s.alive, s.ptr, {h}) /\ h \in Local \cup s.alive
<1>1. Refs!TypeOK /\ Counted(refs, alive, ptr, {}) /\ alive \subseteq Object
  BY DEF RefsInv, Refs!TypeOK
<1>2. h \in Refs!Holder /\ Local \cap Object = {}
  BY <1>1, Constants DEF Refs!Holder
<1>3. Typed(s)
  BY <1>1, <1>2, DropTyped
<1>4. PICK n \in Nat : \E w : Falls(w, n, h) /\ Dropped(s, w, n)
  BY <1>1, <1>2, DropFalls
<1>5. PICK w : Falls(w, n, h) /\ Dropped(s, w, n)
  BY <1>4
<1>6. PICK gone : gone = Gone(w, n)
  OBVIOUS
<1>7. gone \subseteq alive /\ (IsBad(w, n) <=> h \in gone)
  BY <1>1, <1>5, <1>6, DropSpares
<1>8. s.alive = alive \ gone /\ s.bad = IsBad(w, n)
  BY <1>5, <1>6 DEF Dropped
<1>9. s.bad <=> h \in alive \ s.alive
  BY <1>7, <1>8
<1>10. \A x \in alive \ s.alive : x \in Object /\ x \notin Refs!Kept(h)
  <2> TAKE x \in alive \ s.alive
  <2>1. x \in Gone(w, n)
    BY <1>6, <1>8
  <2> QED BY <2>1, <1>1, <1>5, DropCareless
<1>11. ~s.bad => Counted(s.refs, s.alive, s.ptr, {h}) /\ h \in Local \cup s.alive
  <2> SUFFICES ASSUME ~s.bad PROVE Counted(s.refs, s.alive, s.ptr, {h}) /\ h \in Local \cup s.alive
    OBVIOUS
  <2>1. h \notin Gone(w, n)
    BY <1>6, <1>7, <1>8
  <2>2. Counted(s.refs, s.alive, s.ptr, {h})
    BY <2>1, <1>1, <1>5, DropKeeps
  <2> QED BY <2>1, <2>2, <1>6, <1>8
<1> QED BY <1>2, <1>3, <1>8, <1>9, <1>10, <1>11

LEMMA Caught == ASSUME NEW h, NEW x, NEW y \in {h, x}, y \in Object, y \notin Refs!Kept(h)
                PROVE  ~Refs!Careful(h, x)
BY Constants DEF Refs!Careful

LEMMA AssignStep == ASSUME RefsInv, NEW h \in Refs!Holder, NEW o \in Object \cup {Null}, Refs!Assign(h, o)
                    PROVE  RefsInv'
<1>1. ~undefined /\ h \in Local \cup alive /\ o \in alive \cup {Null} /\ (careless' <=> ~Refs!Careful(h, o))
  BY DEF Refs!Assign, Refs!Exists
<1>2. PICK s : s = Refs!Drop(Refs!State, ptr[h])
  OBVIOUS
<1>3. PICK t : t = Refs!Store(s, h, o)
  OBVIOUS
<1>4. PICK u : u = Refs!Grab(t, o)
  OBVIOUS
<1>5. Refs!Becomes(u)
  BY <1>2, <1>3, <1>4 DEF Refs!Assign
<1>6. /\ Typed(s) /\ s.alive \subseteq alive /\ (s.bad <=> h \in alive \ s.alive)
      /\ \A x \in alive \ s.alive : x \in Object /\ x \notin Refs!Kept(h)
      /\ ~s.bad => Counted(s.refs, s.alive, s.ptr, {h}) /\ h \in Local \cup s.alive
  BY <1>1, <1>2, DropOf
<1>7. /\ Typed(t) /\ t.alive = s.alive /\ t.refs = s.refs
      /\ (s.bad => t.bad) /\ (h \in Object \ s.alive => t.bad)
      /\ h \notin Object \ s.alive => t.bad = s.bad /\ t.ptr = [s.ptr EXCEPT ![h] = o]
  BY <1>3, <1>6, StoreTyped
<1>8. /\ Typed(u) /\ u.alive = t.alive /\ u.ptr = t.ptr
      /\ (t.bad => u.bad) /\ (o \notin t.alive \cup {Null} => u.bad)
      /\ o \in t.alive \cup {Null} =>
           /\ u.bad = t.bad
           /\ u.refs = IF o = Null THEN t.refs ELSE [t.refs EXCEPT ![o] = @ + 1]
  BY <1>4, <1>7, GrabTyped
<1>9. Local \cap Object = {} /\ Null \notin Object /\ alive \subseteq Object
  BY Constants DEF RefsInv, Refs!TypeOK
<1>10. CASE h \in alive \ s.alive \/ o \in alive \ s.alive
  <2>1. careless'
    BY <1>1, <1>6, <1>10, Caught
  <2>2. u.bad
    BY <1>6, <1>7, <1>8, <1>9, <1>10
  <2> QED BY <2>1, <2>2, <1>5, <1>8, ComesTo DEF Comes
<1>11. CASE h \notin alive \ s.alive /\ o \notin alive \ s.alive
  <2>1. ~s.bad /\ h \in Local \cup s.alive /\ o \in s.alive \cup {Null}
    BY <1>1, <1>6, <1>11
  <2>2. h \notin Object \ s.alive
    BY <2>1, <1>9
  <2>3. ~u.bad /\ u.alive = s.alive /\ u.ptr = [s.ptr EXCEPT ![h] = o]
    BY <2>1, <2>2, <1>7, <1>8
  <2>4. u.refs = IF o = Null THEN s.refs ELSE [s.refs EXCEPT ![o] = @ + 1]
    BY <2>1, <1>7, <1>8
  <2>5. Counted(u.refs, s.alive, u.ptr, {})
    BY <2>1, <2>3, <2>4, <1>6, StoreCounts
  <2> QED BY <2>3, <2>5, <1>5, <1>8, ComesTo DEF Comes
<1> QED BY <1>10, <1>11

LEMMA MoveStep == ASSUME RefsInv, NEW h \in Refs!Holder, NEW g \in Refs!Holder, Refs!Move(h, g)
                  PROVE  RefsInv'
<1>1. ~undefined /\ h \in Local \cup alive /\ g \in Local \cup alive /\ (careless' <=> ~Refs!Careful(h, g))
  BY DEF Refs!Move, Refs!Exists
<1>2. PICK s : s = Refs!Drop(Refs!State, ptr[h])
  OBVIOUS
<1>3. IF s.bad \/ g \in Object \ s.alive THEN Refs!Becomes([s EXCEPT !.bad = TRUE])
      ELSE Refs!Becomes(Refs!Store(Refs!Store(s, h, s.ptr[g]), g, Null))
  BY <1>2 DEF Refs!Move
<1>4. /\ Typed(s) /\ s.alive \subseteq alive /\ (s.bad <=> h \in alive \ s.alive)
      /\ \A x \in alive \ s.alive : x \in Object /\ x \notin Refs!Kept(h)
      /\ ~s.bad => Counted(s.refs, s.alive, s.ptr, {h}) /\ h \in Local \cup s.alive
  BY <1>1, <1>2, DropOf
<1>5. Local \cap Object = {} /\ Null \notin Object /\ alive \subseteq Object
  BY Constants DEF RefsInv, Refs!TypeOK
<1>6. CASE s.bad \/ g \in Object \ s.alive
  <2>1. h \in alive \ s.alive \/ g \in alive \ s.alive
    BY <1>1, <1>4, <1>5, <1>6
  <2>2. careless'
    BY <2>1, <1>1, <1>4, Caught
  <2>3. PICK t : t = [s EXCEPT !.bad = TRUE]
    OBVIOUS
  <2>4. Typed(t) /\ t.bad /\ Refs!Becomes(t)
    BY <2>3, <1>3, <1>4, <1>6 DEF Typed
  <2> QED BY <2>2, <2>4, ComesTo DEF Comes
<1>7. CASE ~s.bad /\ g \notin Object \ s.alive
  <2>1. PICK x : x = s.ptr[g]
    OBVIOUS
  <2>2. PICK t : t = Refs!Store(s, h, x)
    OBVIOUS
  <2>3. PICK u : u = Refs!Store(t, g, Null)
    OBVIOUS
  <2>4. Refs!Becomes(u)
    BY <2>1, <2>2, <2>3, <1>3, <1>7
  <2>5. h \in Local \cup s.alive /\ g \in Local \cup s.alive /\ h \notin Object \ s.alive /\ g \notin Object \ s.alive
    BY <1>1, <1>4, <1>5, <1>7
  <2>6. x \in Object \cup {Null}
    BY <2>1, <1>4 DEF Typed
  <2>7. Typed(t) /\ t.alive = s.alive /\ t.refs = s.refs /\ t.bad = s.bad /\ t.ptr = [s.ptr EXCEPT ![h] = s.ptr[g]]
    BY <2>1, <2>2, <2>5, <2>6, <1>4, StoreTyped
  <2>8. Typed(u) /\ u.alive = s.alive /\ u.refs = s.refs /\ u.bad = s.bad /\ u.ptr = [t.ptr EXCEPT ![g] = Null]
    BY <2>3, <2>5, <2>7, StoreTyped
  <2>9. Counted(s.refs, s.alive, t.ptr, {g})
    BY <2>5, <2>7, <1>4, <1>7, MoveCounts
  <2>10. Counted(s.refs, s.alive, u.ptr, {})
    BY <2>5, <2>8, <2>9, StoreCounts
  <2> QED BY <2>4, <2>8, <2>10, <1>7, ComesTo DEF Comes
<1> QED BY <1>6, <1>7

LEMMA DestroyStep == ASSUME RefsInv, NEW h \in Local, Refs!Destroy(h)
                     PROVE  RefsInv'
<1>1. PICK s : s = Refs!Drop(Refs!State, ptr[h])
  OBVIOUS
<1>2. PICK t : t = [s EXCEPT !.ptr[h] = Null]
  OBVIOUS
<1>3. ~undefined /\ Refs!Becomes(t)
  BY <1>1, <1>2 DEF Refs!Destroy
<1>4. /\ Typed(s) /\ h \in Refs!Holder /\ (s.bad <=> h \in alive \ s.alive)
      /\ ~s.bad => Counted(s.refs, s.alive, s.ptr, {h}) /\ h \in Local \cup s.alive
  BY <1>1, <1>3, DropOf
<1>5. ~s.bad
  BY <1>4, Constants DEF RefsInv, Refs!TypeOK
<1>6. s.ptr \in [Refs!Holder -> Object \cup {Null}] /\ [s.ptr EXCEPT ![h] = Null] \in [Refs!Holder -> Object \cup {Null}]
  BY <1>4 DEF Typed
<1>7. t = [s EXCEPT !.ptr = [s.ptr EXCEPT ![h] = Null]]
  BY <1>2
<1>8. Typed(t) /\ t.refs = s.refs /\ t.alive = s.alive /\ t.bad = s.bad /\ t.ptr = [s.ptr EXCEPT ![h] = Null]
  BY <1>4, <1>6, <1>7 DEF Typed
<1>9. Counted(s.refs, s.alive, t.ptr, {})
  BY <1>4, <1>5, <1>8, StoreCounts
<1> QED BY <1>3, <1>5, <1>8, <1>9, ComesTo DEF Comes

LEMMA NewStep == ASSUME RefsInv, NEW h \in Local, NEW o \in Object, Refs!New(h, o)
                 PROVE  RefsInv'
<1>1. ~undefined /\ ptr[h] = Null /\ o \notin alive
  BY DEF Refs!New
<1>2. PICK s : s = [Refs!State EXCEPT !.alive = @ \cup {o}]
  OBVIOUS
<1>3. PICK t : t = Refs!Grab(s, o)
  OBVIOUS
<1>4. PICK u : u = Refs!Store(t, h, o)
  OBVIOUS
<1>5. Refs!Becomes(u)
  BY <1>2, <1>3, <1>4 DEF Refs!New
<1>6. Refs!TypeOK /\ Counted(refs, alive, ptr, {})
  BY <1>1 DEF RefsInv
<1>7. Typed(s) /\ s.alive = alive \cup {o} /\ s.refs = refs /\ s.ptr = ptr /\ ~s.bad
  BY <1>2, <1>6 DEF Typed, Refs!State, Refs!TypeOK
<1>8. Typed(t) /\ t.alive = s.alive /\ t.ptr = ptr /\ ~t.bad /\ t.refs = [refs EXCEPT ![o] = @ + 1]
  BY <1>3, <1>7, GrabTyped, Constants
<1>9. h \in Refs!Holder /\ h \notin Object
  BY Constants DEF Refs!Holder
<1>10. Typed(u) /\ u.alive = s.alive /\ u.refs = t.refs /\ ~u.bad /\ u.ptr = [ptr EXCEPT ![h] = o]
  BY <1>4, <1>8, <1>9, StoreTyped
<1>11. Counted(u.refs, u.alive, u.ptr, {})
  BY <1>1, <1>6, <1>7, <1>8, <1>10, NewCounts
<1> QED BY <1>5, <1>10, <1>11, ComesTo DEF Comes

LEMMA RefsSteps == ASSUME RefsInv, Refs!Next PROVE RefsInv'
<1>1. ASSUME Refs!Terminated PROVE RefsInv'
  <2>1. UNCHANGED <<refs, alive, ptr, undefined, careless>>
    BY <1>1 DEF Refs!Terminated, Refs!vars
  <2> QED BY <2>1 DEF RefsInv, Refs!TypeOK, Counted, Pointing, Refs!Holder
<1> QED BY <1>1, NewStep, AssignStep, MoveStep, DestroyStep DEF Refs!Next

LEMMA RefsStarts == ASSUME Refs!Init PROVE RefsInv
<1>1. refs = [o \in Object |-> 0] /\ alive = {} /\ ptr = [h \in Refs!Holder |-> Null] /\ ~undefined /\ undefined = FALSE
  BY DEF Refs!Init
<1>2. \A x \in Object : Pointing(alive, ptr, x) \ {} = {}
  BY <1>1, Constants DEF Pointing, Refs!Holder
<1>3. Cardinality({}) = 0
  BY FS_EmptySet
<1>4. \A x \in Object : refs[x] = Cardinality(Pointing(alive, ptr, x) \ {})
  BY <1>1, <1>2, <1>3
<1>5. \A x \in Object \ alive : ptr[x] = Null
  BY <1>1 DEF Refs!Holder
<1>6. /\ refs \in [Object -> Int] /\ alive \subseteq Object /\ ptr \in [Refs!Holder -> Object \cup {Null}]
      /\ \A x \in Object : x \in alive <=> refs[x] > 0
  BY <1>1
<1>7. Counted(refs, alive, ptr, {})
  BY <1>4, <1>5, <1>6 DEF Counted
<1> QED BY <1>1, <1>6, <1>7 DEF RefsInv, Refs!TypeOK

LEMMA RefsWanted == ASSUME RefsInv PROVE Refs!TypeOK /\ Refs!CountsExact /\ Refs!SafeIfCareful
<1>1. Refs!TypeOK /\ Refs!SafeIfCareful
  BY DEF RefsInv, Refs!SafeIfCareful
<1>2. ASSUME ~undefined PROVE Refs!CountsExact
  <2>1. Counted(refs, alive, ptr, {}) /\ alive \subseteq Object
    BY <1>2 DEF RefsInv, Refs!TypeOK
  <2>2. \A o \in Object : {h \in Refs!Holder : Refs!Exists(h) /\ ptr[h] = o} = Pointing(alive, ptr, o) \ {}
    BY <2>1 DEF Refs!Holder, Refs!Exists, Pointing
  <2>3. \A o \in Object : refs[o] = Refs!Cardinality({h \in Refs!Holder : Refs!Exists(h) /\ ptr[h] = o})
    BY <2>1, <2>2, SameCounting DEF Counted
  <2>4. alive = {o \in Object : refs[o] > 0}
    BY <2>1 DEF Counted
  <2> QED BY <2>3, <2>4 DEF Refs!CountsExact
<1> QED BY <1>1, <1>2 DEF Refs!CountsExact
-----------------------------------------------------------------------------
(* DisjointSet.                                                            *)

LEMMA PowerIs == /\ Sets!Power(0) = 1
                 /\ \A k \in 1..MaxElement : Sets!Power(k) = 2 * Sets!Power(k - 1)
                 /\ \A k \in 0..MaxElement : Sets!Power(k) \in Nat /\ Sets!Power(k) >= k + 1
<1> DEFINE N == MaxElement
           f == [i \in Nat |-> 2 * i]
<1>1. N \in Nat
  BY Constants
<1>2. f \in [Nat -> Nat] /\ \A i \in Nat : f[i] = 2 * i
  OBVIOUS
<1>3. PICK w \in [0..N -> Nat] : Iterated(w, f, 1, N)
  <2> HIDE DEF f
  <2> QED BY <1>1, <1>2, Iterates
<1>4. w[0] = 1 /\ \A k \in 1..N : w[k] = 2 * w[k - 1]
  <2>1. \A k \in 1..N : w[k - 1] \in Nat
    BY <1>1
  <2> HIDE DEF f
  <2> QED BY <2>1, <1>2, <1>3 DEF Iterated
<1>5. w = [k \in 0..N |-> IF k = 0 THEN 1 ELSE 2 * w[k - 1]]
  <2>1. \A k \in 0..N : k # 0 => k \in 1..N
    BY <1>1
  <2>2. w = [k \in 0..N |-> w[k]]
    OBVIOUS
  <2> QED BY <2>1, <2>2, <1>4
<1>6. \E t : t = [k \in 0..N |-> IF k = 0 THEN 1 ELSE 2 * t[k - 1]] /\ \A k : Sets!Power(k) = t[k]
  BY <1>5, Zenon DEF Sets!Power
<1>7. PICK t : t = [k \in 0..N |-> IF k = 0 THEN 1 ELSE 2 * t[k - 1]] /\ \A k : Sets!Power(k) = t[k]
  BY <1>6
<1>8. t[0] = 1 /\ \A k \in 1..N : t[k] = 2 * t[k - 1]
  BY <1>1, <1>7
<1>9. \A k \in 0..N : t[k] \in Nat /\ t[k] >= k + 1
  <2> DEFINE B == {k \in 0..N : ~(t[k] \in Nat /\ t[k] >= k + 1)}
  <2> SUFFICES ASSUME B # {} PROVE FALSE
    OBVIOUS
  <2>1. B \subseteq Nat
    BY <1>1
  <2>2. PICK k \in B : \A m \in B : k <= m
    BY <2>1, Least
  <2>3. k # 0 /\ k \in 1..N
    BY <1>1, <1>8
  <2>4. k - 1 \in 0..N /\ ~(k <= k - 1)
    BY <2>3, <1>1
  <2>5. t[k - 1] \in Nat /\ t[k - 1] >= k - 1 + 1
    BY <2>2, <2>4
  <2>6. t[k] = 2 * t[k - 1] /\ k \in Int /\ k >= 1
    BY <2>3, <1>8
  <2>7. t[k] \in Nat /\ t[k] >= k + 1
    BY <2>5, <2>6
  <2> QED BY <2>7
<1> QED BY <1>1, <1>7, <1>8, <1>9

LEMMA PowerGrows == ASSUME NEW i \in Nat, NEW j \in Nat, i <= j, j <= MaxElement
                    PROVE  Sets!Power(i) <= Sets!Power(j)
<1> DEFINE B == {k \in Nat : i <= k /\ k <= MaxElement /\ ~(Sets!Power(i) <= Sets!Power(k))}
<1> SUFFICES ASSUME B # {} PROVE FALSE
  OBVIOUS
<1>1. MaxElement \in Nat
  BY Constants
<1>2. PICK k \in B : \A m \in B : k <= m
  BY Least
<1>3. \A m \in 0..MaxElement : Sets!Power(m) \in Nat
  BY PowerIs
<1>4. k # i /\ k \in 1..MaxElement /\ k - 1 \in 0..MaxElement /\ i <= k - 1 /\ i \in 0..MaxElement /\ k \in 0..MaxElement
  BY <1>1, <1>2, <1>3
<1>5. k - 1 \notin B
  BY <1>2, <1>4
<1>6. Sets!Power(i) <= Sets!Power(k - 1)
  BY <1>4, <1>5
<1>7. Sets!Power(k) = 2 * Sets!Power(k - 1)
  BY <1>4, PowerIs
<1> QED BY <1>2, <1>3, <1>4, <1>6, <1>7

\* An array of parents in which ranks h grow upwards.
Rooted(a, E) == \A y \in E : a[y] >= 0 => a[y] \in E
Ranked(a, E, h) ==
  /\ E \in SUBSET Nat /\ IsFiniteSet(E) /\ a \in [E -> Int] /\ h \in [E -> 0..MaxElement]
  /\ \A y \in E : a[y] >= 0 => a[y] \in E /\ h[y] < h[a[y]]

Climbs(u, a, E, x, n) ==
  /\ u \in [0..n -> E] /\ u[0] = x
  /\ \A k \in 1..n : u[k] = IF a[u[k - 1]] < 0 THEN u[k - 1] ELSE a[u[k - 1]]

LEMMA ClimbIs ==
  ASSUME NEW E, E \in SUBSET Nat, IsFiniteSet(E), NEW a \in [E -> Int], NEW x \in E, Rooted(a, E),
         NEW n, n = Cardinality(E)
  PROVE  \E u : n \in Nat /\ Climbs(u, a, E, x, n) /\ Sets!Path(a, x) = {u[k] : k \in 0..n}
<1>1. n \in Nat
  BY FS_CardinalityType
<1>2. DOMAIN a = E /\ Sets!Cardinality(DOMAIN a) = n
  BY SameCounting
<1>3. PICK f : f = [y \in E |-> Sets!Parent(a, y)]
  OBVIOUS
<1>4. f \in [E -> E] /\ \A y \in E : f[y] = Sets!Parent(a, y)
  BY <1>3 DEF Rooted, Sets!Parent
<1>5. PICK w \in [0..n -> E] : Iterated(w, f, x, n)
  BY <1>1, <1>4, Iterates
<1>6. w = [k \in 0..n |-> IF k = 0 THEN x ELSE Sets!Parent(a, w[k - 1])]
  <2>1. \A k \in 0..n : k # 0 => k \in 1..n /\ w[k - 1] \in E
    BY <1>1
  <2>2. w = [k \in 0..n |-> w[k]]
    OBVIOUS
  <2> QED BY <2>1, <2>2, <1>4, <1>5 DEF Iterated
<1>7. PICK u : u = Sets!Climb(a, x)
  OBVIOUS
<1>8. u = [k \in 0..n |-> IF k = 0 THEN x ELSE Sets!Parent(a, u[k - 1])]
  BY <1>2, <1>6, <1>7, Zenon DEF Sets!Climb
<1>9. u[0] = x
  BY <1>1, <1>8
<1>10. \A k \in 1..n : u[k] = Sets!Parent(a, u[k - 1])
  BY <1>1, <1>8
<1>11. \A k \in 0..n : u[k] \in E
  <2> DEFINE B == {k \in 0..n : u[k] \notin E}
  <2> SUFFICES ASSUME B # {} PROVE FALSE
    OBVIOUS
  <2>1. B \subseteq Nat
    OBVIOUS
  <2>2. PICK k \in B : \A m \in B : k <= m
    BY <2>1, Least
  <2>3. k # 0 /\ k \in 1..n
    BY <1>1, <1>9
  <2>4. k - 1 \in 0..n /\ ~(k <= k - 1)
    BY <2>3, <1>1
  <2>5. u[k - 1] \in E
    BY <2>2, <2>4
  <2>6. a[u[k - 1]] \in Int /\ u[k] = IF a[u[k - 1]] < 0 THEN u[k - 1] ELSE a[u[k - 1]]
    BY <2>3, <2>5, <1>10 DEF Sets!Parent
  <2>7. a[u[k - 1]] >= 0 \/ a[u[k - 1]] < 0
    BY <2>6
  <2>8. a[u[k - 1]] >= 0 => a[u[k - 1]] \in E
    BY <2>5 DEF Rooted
  <2>9. u[k] \in E
    BY <2>5, <2>6, <2>7, <2>8
  <2> QED BY <2>2, <2>9
<1>12. u \in [0..n -> E]
  <2>1. u = [k \in 0..n |-> u[k]]
    BY <1>8
  <2> QED BY <2>1, <1>11
<1>13. \A k \in 1..n : u[k] = IF a[u[k - 1]] < 0 THEN u[k - 1] ELSE a[u[k - 1]]
  BY <1>10 DEF Sets!Parent
<1>14. Sets!Path(a, x) = {u[k] : k \in 0..n}
  BY <1>7, <1>12 DEF Sets!Path, Sets!Range
<1> QED BY <1>1, <1>9, <1>12, <1>13, <1>14 DEF Climbs

Closed(a, E, S) == \A y \in E : y \in S /\ a[y] >= 0 => a[y] \in S

LEMMA NaturalsUpTo == ASSUME NEW n \in Nat PROVE Cardinality(0..n) = n + 1
BY FS_Interval

LEMMA PathIs ==
  ASSUME NEW a, NEW E, NEW h, Ranked(a, E, h), NEW x \in E, NEW P, P = Sets!Path(a, x)
  PROVE  /\ x \in P /\ P \subseteq E /\ Closed(a, E, P)
         /\ \E r \in P : a[r] < 0
         /\ \A S : x \in S /\ Closed(a, E, S) => P \subseteq S
<1>1. PICK n : n = Cardinality(E)
  OBVIOUS
<1>2. /\ E \in SUBSET Nat /\ IsFiniteSet(E) /\ a \in [E -> Int] /\ h \in [E -> 0..MaxElement]
      /\ MaxElement \in Nat /\ Rooted(a, E)
  BY Constants DEF Ranked, Rooted
<1>3. \E u : n \in Nat /\ Climbs(u, a, E, x, n) /\ P = {u[k] : k \in 0..n}
  BY <1>1, <1>2, ClimbIs
<1>4. PICK u : n \in Nat /\ Climbs(u, a, E, x, n) /\ P = {u[k] : k \in 0..n}
  BY <1>3
<1>5. u \in [0..n -> E] /\ u[0] = x
  BY <1>4 DEF Climbs
<1>6. ASSUME NEW k \in 1..n PROVE u[k] = IF a[u[k - 1]] < 0 THEN u[k - 1] ELSE a[u[k - 1]]
  BY <1>4 DEF Climbs
<1>7. \A k \in 0..n : u[k] \in E /\ a[u[k]] \in Int /\ h[u[k]] \in Nat
  <2> TAKE k \in 0..n
  <2>1. u[k] \in E
    BY <1>5
  <2>2. a[u[k]] \in Int /\ h[u[k]] \in 0..MaxElement
    BY <2>1, <1>2
  <2> QED BY <2>1, <2>2, Constants
<1>8. x \in P /\ P \subseteq E
  BY <1>4, <1>5
<1>9. \A S : x \in S /\ Closed(a, E, S) => P \subseteq S
  <2> TAKE S
  <2> HAVE x \in S /\ Closed(a, E, S)
  <2> DEFINE B == {k \in 0..n : u[k] \notin S}
  <2>1. B = {}
    <3> SUFFICES ASSUME B # {} PROVE FALSE
      OBVIOUS
    <3>1. B \subseteq Nat
      BY <1>4
    <3>2. PICK k \in B : \A m \in B : k <= m
      BY <3>1, Least
    <3>3. k # 0 /\ k \in 1..n
      BY <1>4, <1>5
    <3>4. k - 1 \in 0..n /\ ~(k <= k - 1)
      BY <3>3, <1>4
    <3>5. u[k - 1] \in S /\ u[k - 1] \in E /\ a[u[k - 1]] \in Int
      BY <3>2, <3>4, <1>7
    <3>6. u[k] = IF a[u[k - 1]] < 0 THEN u[k - 1] ELSE a[u[k - 1]]
      BY <3>3, <1>6
    <3>7. u[k] \in S
      BY <3>5, <3>6 DEF Closed
    <3> QED BY <3>2, <3>7
  <2> QED BY <2>1, <1>4
\* Were the last one no root, all of them would differ.
<1>10. a[u[n]] < 0
  <2> SUFFICES ASSUME ~(a[u[n]] < 0) PROVE FALSE
    OBVIOUS
  <2>1. ASSUME NEW i \in 0..n, a[u[i]] < 0 PROVE FALSE
    <3> DEFINE B == {k \in Nat : i <= k /\ k <= n /\ ~(a[u[k]] < 0)}
    <3>1. n \in B
      BY <1>4
    <3>2. PICK k \in B : \A m \in B : k <= m
      BY <3>1, Least
    <3>3. k # i
      BY <2>1, <3>2
    <3>4. k \in 1..n /\ k - 1 \in Nat /\ i <= k - 1 /\ k - 1 <= n /\ ~(k <= k - 1)
      BY <3>2, <3>3, <1>4
    <3>5. a[u[k - 1]] < 0
      BY <3>2, <3>4
    <3>6. u[k] = u[k - 1]
      BY <3>4, <3>5, <1>6
    <3> QED BY <3>2, <3>5, <3>6
  <2>2. \A k \in 1..n : h[u[k - 1]] < h[u[k]]
    <3> TAKE k \in 1..n
    <3>1. k - 1 \in 0..n
      BY <1>4
    <3>2. ~(a[u[k - 1]] < 0) /\ u[k - 1] \in E /\ a[u[k - 1]] \in Int
      BY <3>1, <2>1, <1>7
    <3>3. u[k] = a[u[k - 1]] /\ a[u[k - 1]] >= 0
      BY <3>2, <1>6
    <3> QED BY <3>2, <3>3 DEF Ranked
  <2>3. ASSUME NEW i \in 0..n, NEW j \in 0..n, i < j PROVE h[u[i]] < h[u[j]]
    <3> DEFINE B == {k \in Nat : i < k /\ k <= n /\ ~(h[u[i]] < h[u[k]])}
    <3>1. CASE B # {}
      <4>1. PICK k \in B : \A m \in B : k <= m
        BY <3>1, Least
      <4>2. k \in 1..n /\ k - 1 \in Nat /\ i \in Int /\ k - 1 \in 0..n /\ k \in 0..n /\ ~(k <= k - 1)
        BY <4>1, <1>4
      <4>3. h[u[k - 1]] < h[u[k]]
        BY <4>2, <2>2
      <4>4. h[u[i]] \in Nat /\ h[u[k]] \in Nat /\ h[u[k - 1]] \in Nat
        BY <4>2, <1>7
      <4>5. i # k - 1
        BY <4>1, <4>3
      <4>6. i < k - 1 /\ k - 1 <= n
        BY <4>1, <4>2, <4>5
      <4>7. h[u[i]] < h[u[k - 1]]
        BY <4>1, <4>2, <4>6
      <4> QED BY <4>1, <4>3, <4>4, <4>7
    <3>2. CASE B = {}
      <4>1. j \in Nat /\ i < j /\ j <= n
        BY <2>3, <1>4
      <4> QED BY <3>2, <4>1
    <3> QED BY <3>1, <3>2
  <2>4. ASSUME NEW i \in 0..n, NEW j \in 0..n, u[i] = u[j] PROVE i = j
    <3>1. ~(i < j)
      BY <2>3, <2>4, <1>7
    <3>2. ~(j < i)
      BY <2>3, <2>4, <1>7
    <3> QED BY <3>1, <3>2, <1>4
  <2>5. u \in Injection(0..n, E)
    BY <2>4, <1>5 DEF Injection, IsInjective
  <2>6. Cardinality(0..n) <= n
    BY <2>5, <1>1, <1>2, FS_Injection
  <2>7. Cardinality(0..n) = n + 1
    <3>1. n \in Nat
      BY <1>4
    <3> QED BY <3>1, NaturalsUpTo
  <2> QED BY <2>6, <2>7, <1>4
<1>11. Closed(a, E, P)
  <2> SUFFICES ASSUME NEW y \in P, a[y] >= 0 PROVE a[y] \in P
    BY DEF Closed
  <2>1. PICK k \in 0..n : y = u[k]
    BY <1>4
  <2>2. k # n
    BY <2>1, <1>4, <1>7, <1>10
  <2>3. k + 1 \in 1..n /\ k + 1 \in 0..n /\ k + 1 - 1 = k
    BY <2>2, <1>4
  <2>4. a[y] \in Int /\ ~(a[u[k]] < 0)
    BY <2>1, <1>7
  <2>5. u[k + 1] = a[y]
    BY <2>1, <2>3, <2>4, <1>6
  <2> QED BY <2>3, <2>5, <1>4
<1>12. u[n] \in P
  BY <1>4
<1> QED BY <1>8, <1>9, <1>10, <1>11, <1>12

\* W are the sets, and r is the root of the set s.
Parted(W, E) == /\ \A s \in W : s \in SUBSET E
                /\ \A x \in E : \E s \in W : x \in s
                /\ \A s, t \in W : \A x \in E : x \in s /\ x \in t => s = t

Led(a, h, s, r) == /\ r \in s /\ a[r] = -Cardinality(s) /\ Sets!Power(h[r]) <= Cardinality(s)
                   /\ \A x \in s : a[x] < 0 => x = r

Forest(a, E, h, W) == /\ Ranked(a, E, h) /\ Parted(W, E)
                      /\ \A s \in W : Closed(a, E, s) /\ \E r \in E : Led(a, h, s, r)

LEMMA SetIs == ASSUME NEW E, IsFiniteSet(E), NEW s \in SUBSET E, NEW x \in s
               PROVE  IsFiniteSet(s) /\ Cardinality(s) \in Nat /\ Cardinality(s) >= 1 /\ Cardinality(s) <= Cardinality(E)
<1>1. IsFiniteSet(s) /\ Cardinality(s) <= Cardinality(E)
  BY FS_Subset
<1>2. Cardinality(s) \in Nat /\ Cardinality(s) # 0
  BY <1>1, FS_CardinalityType, FS_EmptySet
<1> QED BY <1>1, <1>2

LEMMA RootsAre ==
  ASSUME NEW a, NEW E, NEW h, NEW W, Forest(a, E, h, W), NEW x \in E, NEW s \in W, x \in s,
         NEW r, r = Sets!RootOf(a, x)
  PROVE  /\ Sets!Path(a, x) \subseteq s /\ r \in Sets!Path(a, x)
         /\ Led(a, h, s, r) /\ r \in s /\ r \in E /\ a[r] < 0
         /\ \A y \in s : y # r => a[y] >= 0 /\ h[y] < h[r]
<1>1. /\ E \in SUBSET Nat /\ IsFiniteSet(E) /\ a \in [E -> Int] /\ h \in [E -> 0..MaxElement] /\ Ranked(a, E, h)
  BY DEF Forest, Ranked
<1>2. s \in SUBSET E /\ Closed(a, E, s)
  BY DEF Forest, Parted
<1>3. PICK q \in E : Led(a, h, s, q)
  BY DEF Forest
<1>4. q \in s /\ a[q] = -Cardinality(s) /\ \A y \in s : a[y] < 0 => y = q
  BY <1>3 DEF Led
<1>5. Cardinality(s) \in Nat /\ Cardinality(s) >= 1
  BY <1>1, <1>2, <1>4, SetIs
<1>6. a[q] < 0
  BY <1>4, <1>5
<1>7. ASSUME NEW y \in s, NEW P, P = Sets!Path(a, y)
      PROVE  y \in P /\ P \subseteq s /\ Closed(a, E, P) /\ q \in P /\ \A S : y \in S /\ Closed(a, E, S) => P \subseteq S
  <2>1. y \in E
    BY <1>2
  <2>2. /\ y \in P /\ Closed(a, E, P)
        /\ \E z \in P : a[z] < 0
        /\ \A S : y \in S /\ Closed(a, E, S) => P \subseteq S
    BY <2>1, <1>1, <1>7, PathIs
  <2>3. P \subseteq s
    BY <2>2, <1>2
  <2> QED BY <2>2, <2>3, <1>4
<1>8. r = CHOOSE z \in Sets!Path(a, x) : a[z] < 0
  BY DEF Sets!RootOf
<1>9. r \in Sets!Path(a, x) /\ a[r] < 0
  BY <1>6, <1>7, <1>8
<1>10. r = q
  BY <1>4, <1>7, <1>9
<1>11. \A y \in s : y # q => a[y] >= 0 /\ h[y] < h[q]
  <2> TAKE y \in s
  <2> HAVE y # q
  <2>1. y \in E /\ a[y] \in Int
    BY <1>1, <1>2
  <2>2. a[y] >= 0
    BY <2>1, <1>4
  <2> DEFINE S == {z \in E : z = y \/ h[y] < h[z]}
  <2>3. Closed(a, E, S)
    <3> SUFFICES ASSUME NEW z \in E, z \in S, a[z] >= 0 PROVE a[z] \in S
      BY DEF Closed
    <3>1. a[z] \in E /\ h[z] < h[a[z]]
      BY <1>1 DEF Ranked
    <3>2. PICK b \in E : b = a[z]
      BY <3>1
    <3>3. h[y] \in Int /\ h[z] \in Int /\ h[b] \in Int
      BY <1>1, <2>1, Constants
    <3> QED BY <3>1, <3>2, <3>3
  <2>4. PICK P : P = Sets!Path(a, y)
    OBVIOUS
  <2>5. q \in P /\ (y \in S /\ Closed(a, E, S) => P \subseteq S)
    BY <2>4, <1>7
  <2>6. q \in S
    BY <2>1, <2>3, <2>5
  <2> QED BY <2>2, <2>6
<1>12. q \in E
  OBVIOUS
<1> QED BY <1>3, <1>4, <1>7, <1>9, <1>10, <1>11, <1>12

LEMMA LeaderUnique == ASSUME NEW a, NEW h, NEW s, NEW r, NEW q, Led(a, h, s, r), Led(a, h, s, q), a[q] < 0
                      PROVE  q = r
BY DEF Led

\* What is left of a forest when some elements go to their roots.
Flatter(b, a, E) == /\ b \in [E -> Int]
                    /\ \A x \in E : b[x] = a[x] \/ (a[x] >= 0 /\ b[x] = Sets!RootOf(a, x))

LEMMA FlatterForest ==
  ASSUME NEW a, NEW b, NEW E, NEW h, NEW W, Forest(a, E, h, W), Flatter(b, a, E)
  PROVE  Forest(b, E, h, W) /\ \A x \in E : b[x] < 0 <=> a[x] < 0
<1>1. /\ E \in SUBSET Nat /\ IsFiniteSet(E) /\ a \in [E -> Int] /\ h \in [E -> 0..MaxElement] /\ Parted(W, E)
  BY DEF Forest, Ranked
<1>2. b \in [E -> Int]
  BY DEF Flatter
<1>3. ASSUME NEW x \in E, NEW s \in W, x \in s
      PROVE  /\ b[x] < 0 <=> a[x] < 0
             /\ a[x] < 0 => b[x] = a[x]
             /\ b[x] >= 0 => b[x] \in E /\ h[x] < h[b[x]] /\ b[x] \in s
  <2>1. PICK r : r = Sets!RootOf(a, x)
    OBVIOUS
  <2>2. r \in s /\ r \in E /\ a[r] < 0 /\ \A y \in s : y # r => a[y] >= 0 /\ h[y] < h[r]
    BY <2>1, <1>3, RootsAre
  <2>3. a[x] \in Int /\ r \in Nat
    BY <2>2, <1>1
  <2>4. CASE b[x] = a[x]
    <3>1. a[x] >= 0 => a[x] \in E /\ h[x] < h[a[x]]
      BY DEF Forest, Ranked
    <3>2. a[x] >= 0 => a[x] \in s
      BY <1>3 DEF Forest, Closed
    <3> QED BY <2>3, <2>4, <3>1, <3>2
  <2>5. CASE b[x] # a[x]
    <3>1. a[x] >= 0 /\ b[x] = r
      BY <2>1, <2>5 DEF Flatter
    <3>2. x # r
      BY <2>2, <2>3, <3>1
    <3>3. h[x] < h[r]
      BY <3>2, <2>2, <1>3
    <3> QED BY <3>1, <3>3, <2>2, <2>3
  <2> QED BY <2>4, <2>5
<1>4. \A x \in E : \E s \in W : x \in s
  BY <1>1 DEF Parted
<1>5. \A x \in E : b[x] < 0 <=> a[x] < 0
  BY <1>3, <1>4
<1>6. \A x \in E : b[x] >= 0 => b[x] \in E /\ h[x] < h[b[x]]
  BY <1>3, <1>4
<1>7. Ranked(b, E, h)
  BY <1>1, <1>2, <1>6 DEF Ranked
<1>8. ASSUME NEW s \in W PROVE Closed(b, E, s) /\ \E r \in E : Led(b, h, s, r)
  <2>1. s \in SUBSET E
    BY <1>1 DEF Parted
  <2>2. Closed(b, E, s)
    BY <1>3 DEF Closed
  <2>3. PICK r \in E : Led(a, h, s, r)
    BY DEF Forest
  <2>4. r \in s /\ a[r] = -Cardinality(s) /\ Sets!Power(h[r]) <= Cardinality(s) /\ \A y \in s : a[y] < 0 => y = r
    BY <2>3 DEF Led
  <2>5. Cardinality(s) \in Nat /\ Cardinality(s) >= 1
    BY <2>1, <2>4, <1>1, SetIs
  <2>6. a[r] < 0
    BY <2>4, <2>5
  <2>7. b[r] = a[r]
    BY <2>4, <2>6, <1>3
  <2>8. \A y \in s : b[y] < 0 => y = r
    BY <2>1, <2>4, <1>5
  <2> QED BY <2>2, <2>4, <2>7, <2>8 DEF Led
<1> QED BY <1>1, <1>5, <1>7, <1>8 DEF Forest

\* The sets that s and t become one of.
Joined(W, s, t) == (W \ {s, t}) \cup {s \cup t}

LEMMA JoinedParted == ASSUME NEW W, NEW E, Parted(W, E), NEW s \in W, NEW t \in W, NEW V, V = Joined(W, s, t)
                      PROVE  Parted(V, E)
<1>1. \A u \in V : u = s \cup t \/ (u \in W /\ u # s /\ u # t)
  BY DEF Joined
<1>2. s \cup t \in V /\ \A u \in W : u # s /\ u # t => u \in V
  BY DEF Joined
<1>3. \A u \in V : u \in SUBSET E
  BY <1>1 DEF Parted
<1>4. \A x \in E : \E u \in V : x \in u
  BY <1>2 DEF Parted
<1>5. \A u, v \in V : \A x \in E : x \in u /\ x \in v => u = v
  <2> TAKE u, v \in V
  <2> TAKE x \in E
  <2> HAVE x \in u /\ x \in v
  <2>1. CASE u = s \cup t /\ v = s \cup t
    BY <2>1
  <2>2. CASE u = s \cup t /\ v \in W /\ v # s /\ v # t
    BY <2>2 DEF Parted
  <2>3. CASE v = s \cup t /\ u \in W /\ u # s /\ u # t
    BY <2>3 DEF Parted
  <2>4. CASE u \in W /\ v \in W
    BY <2>4 DEF Parted
  <2> QED BY <2>1, <2>2, <2>3, <2>4, <1>1
<1> QED BY <1>3, <1>4, <1>5 DEF Parted

\* The root c goes under the root p.
Hung(b, a, c, p) == b = [a EXCEPT ![p] = @ + a[c], ![c] = p]

LEMMA JoinedForest ==
  ASSUME NEW a, NEW E, NEW h, NEW W, Forest(a, E, h, W), NEW s \in W, NEW t \in W, s # t,
         NEW c \in s, NEW p \in t, a[c] < 0, a[p] < 0, Cardinality(s) <= Cardinality(t),
         Cardinality(E) <= MaxElement, NEW b, Hung(b, a, c, p)
  PROVE  (\E k : Forest(b, E, k, Joined(W, s, t))) /\ \A x \in E : b[x] < 0 <=> a[x] < 0 /\ x # c
<1>1. /\ E \in SUBSET Nat /\ IsFiniteSet(E) /\ a \in [E -> Int] /\ h \in [E -> 0..MaxElement] /\ Parted(W, E)
      /\ MaxElement \in Nat
  BY Constants DEF Forest, Ranked
<1>2. s \in SUBSET E /\ t \in SUBSET E /\ c \in E /\ p \in E
  BY <1>1 DEF Parted
<1>3. \A x \in E : ~(x \in s /\ x \in t)
  BY <1>1 DEF Parted
<1>4. c # p
  BY <1>2, <1>3
<1>5. PICK S : S = Cardinality(s)
  OBVIOUS
<1>6. PICK T : T = Cardinality(t)
  OBVIOUS
<1>7. PICK N : N = Cardinality(E)
  OBVIOUS
<1>8. /\ IsFiniteSet(s) /\ S \in Nat /\ S >= 1 /\ S <= N
      /\ IsFiniteSet(t) /\ T \in Nat /\ T >= 1 /\ T <= N /\ S <= T
  BY <1>1, <1>2, <1>5, <1>6, <1>7, SetIs
<1>9. N <= MaxElement /\ N \in Nat
  BY <1>1, <1>7, FS_CardinalityType
<1>10. Led(a, h, s, c) /\ Led(a, h, t, p)
  <2>1. \A u \in W : \E r \in E : Led(a, h, u, r)
    BY DEF Forest
  <2>2. PICK r \in E : Led(a, h, s, r)
    BY <2>1
  <2>3. PICK q \in E : Led(a, h, t, q)
    BY <2>1
  <2>4. r = c /\ q = p
    BY <2>2, <2>3 DEF Led
  <2> QED BY <2>2, <2>3, <2>4
<1>11. /\ a[c] = -S /\ a[p] = -T
       /\ Sets!Power(h[c]) <= S /\ Sets!Power(h[p]) <= T
       /\ \A x \in s : a[x] < 0 => x = c
       /\ \A x \in t : a[x] < 0 => x = p
  BY <1>5, <1>6, <1>10 DEF Led
<1>12. \A x \in E : b[x] = IF x = c THEN p ELSE IF x = p THEN -S - T ELSE a[x]
  <2>1. a[p] + a[c] = -S - T
    BY <1>8, <1>11
  <2> QED BY <2>1, <1>1, <1>2, <1>4 DEF Hung
<1>13. b \in [E -> Int]
  <2>1. p \in Int /\ a[p] + a[c] \in Int
    BY <1>1, <1>2
  <2> QED BY <2>1, <1>1 DEF Hung
<1>14. b[c] = p /\ ~(b[c] < 0) /\ b[p] < 0 /\ ~(b[p] >= 0)
  <2>1. p \in Nat /\ -S - T < 0 /\ ~(-S - T >= 0)
    BY <1>1, <1>2, <1>8
  <2>2. b[c] = p /\ b[p] = -S - T
    BY <1>2, <1>4, <1>12
  <2> QED BY <2>1, <2>2
<1>15. \A x \in E : b[x] < 0 <=> a[x] < 0 /\ x # c
  <2> TAKE x \in E
  <2>1. CASE x = c
    BY <2>1, <1>14
  <2>2. CASE x = p
    BY <2>2, <1>4, <1>11, <1>14, a[p] < 0
  <2>3. CASE x # c /\ x # p
    BY <2>3, <1>12
  <2> QED BY <2>1, <2>2, <2>3
<1>16. PICK H : H = h[c]
  OBVIOUS
<1>17. PICK G : G = h[p]
  OBVIOUS
<1>18. PICK K : K = IF G < H + 1 THEN H + 1 ELSE G
  OBVIOUS
<1>19. H \in 0..MaxElement /\ G \in 0..MaxElement
  BY <1>1, <1>2, <1>16, <1>17
<1>20. Sets!Power(H) \in Nat /\ Sets!Power(H) >= H + 1 /\ Sets!Power(G) \in Nat
  BY <1>19, PowerIs
<1>21. H + 1 \in 1..MaxElement
  BY <1>1, <1>8, <1>9, <1>11, <1>16, <1>19, <1>20
<1>22. Sets!Power(H + 1) = 2 * Sets!Power(H)
  <2>1. PICK j \in 1..MaxElement : j = H + 1
    BY <1>21
  <2>2. Sets!Power(j) = 2 * Sets!Power(j - 1)
    BY PowerIs
  <2>3. j - 1 = H
    BY <2>1, <1>19
  <2> QED BY <2>1, <2>2, <2>3
<1>23. K \in 0..MaxElement /\ H < K /\ G <= K
  BY <1>18, <1>19, <1>21
<1>24. Sets!Power(K) <= S + T
  <2>1. CASE G < H + 1
    BY <2>1, <1>8, <1>11, <1>16, <1>18, <1>20, <1>22
  <2>2. CASE ~(G < H + 1)
    BY <2>2, <1>8, <1>11, <1>17, <1>18, <1>20
  <2> QED BY <2>1, <2>2
<1>25. PICK k : k = [h EXCEPT ![p] = K]
  OBVIOUS
<1>26. k \in [E -> 0..MaxElement] /\ \A x \in E : k[x] = IF x = p THEN K ELSE h[x]
  BY <1>1, <1>2, <1>23, <1>25
<1>27. \A x \in E : h[x] \in Int /\ k[x] \in Int /\ h[x] <= k[x]
  <2> TAKE x \in E
  <2>1. h[x] \in 0..MaxElement
    BY <1>1
  <2> QED BY <2>1, <1>17, <1>23, <1>26
<1>28. \A x \in E : b[x] >= 0 => b[x] \in E /\ k[x] < k[b[x]]
  <2> TAKE x \in E
  <2> HAVE b[x] >= 0
  <2>1. CASE x = c
    <3>1. b[x] = p /\ k[x] = H /\ k[p] = K
      BY <2>1, <1>2, <1>4, <1>12, <1>16, <1>26
    <3> QED BY <3>1, <1>2, <1>23
  <2>2. CASE x # c
    <3>1. x # p
      BY <1>14
    <3>2. b[x] = a[x] /\ k[x] = h[x]
      BY <2>2, <3>1, <1>12, <1>26
    <3>3. a[x] \in E /\ h[x] < h[a[x]]
      BY <3>2 DEF Forest, Ranked
    <3>4. PICK y \in E : y = a[x]
      BY <3>3
    <3>5. h[x] < h[y] /\ h[y] <= k[y] /\ h[x] \in Int /\ h[y] \in Int /\ k[y] \in Int
      BY <3>3, <3>4, <1>27
    <3>6. k[x] < k[y]
      BY <3>2, <3>5
    <3> QED BY <3>2, <3>4, <3>6
  <2> QED BY <2>1, <2>2
<1>29. Ranked(b, E, k)
  BY <1>1, <1>13, <1>26, <1>28 DEF Ranked
<1>30. PICK V : V = Joined(W, s, t)
  OBVIOUS
<1>31. Parted(V, E) /\ \A u \in V : u = s \cup t \/ (u \in W /\ u # s /\ u # t)
  BY <1>1, <1>30, JoinedParted DEF Joined
<1>32. ASSUME NEW u \in V, u = s \cup t PROVE Closed(b, E, u) /\ \E r \in E : Led(b, k, u, r)
  <2>1. Cardinality(u) = S + T
    <3>1. s \cap t = {}
      BY <1>2, <1>3
    <3>2. Cardinality(s \cap t) = 0
      BY <3>1, FS_EmptySet
    <3>3. Cardinality(s \cup t) = Cardinality(s) + Cardinality(t) - Cardinality(s \cap t)
      BY <1>8, FS_Union
    <3> QED BY <3>2, <3>3, <1>5, <1>6, <1>8, <1>32
  <2>2. Closed(b, E, u)
    <3> SUFFICES ASSUME NEW y \in E, y \in u, b[y] >= 0 PROVE b[y] \in u
      BY DEF Closed
    <3>1. CASE y = c
      BY <3>1, <1>14, <1>32
    <3>2. CASE y # c
      <4>1. y # p
        BY <1>14
      <4>2. b[y] = a[y] /\ a[y] >= 0
        BY <3>2, <4>1, <1>12
      <4>3. Closed(a, E, s) /\ Closed(a, E, t)
        BY DEF Forest
      <4>4. a[y] \in s \cup t
        BY <4>2, <4>3, <1>32 DEF Closed
      <4> QED BY <4>2, <4>4, <1>32
    <3> QED BY <3>1, <3>2
  <2>3. b[p] = -Cardinality(u)
    <3>1. b[p] = -S - T
      BY <1>2, <1>4, <1>12
    <3> QED BY <2>1, <3>1, <1>8
  <2>4. k[p] = K /\ Sets!Power(k[p]) <= Cardinality(u)
    BY <2>1, <1>2, <1>24, <1>26
  <2>5. \A x \in u : b[x] < 0 => x = p
    <3> TAKE x \in u
    <3> HAVE b[x] < 0
    <3>1. x \in E /\ a[x] < 0 /\ x # c
      BY <1>2, <1>15, <1>32
    <3> QED BY <3>1, <1>11, <1>32
  <2>6. Led(b, k, u, p)
    BY <2>3, <2>4, <2>5, <1>32 DEF Led
  <2> QED BY <2>2, <2>6, <1>2
<1>33. ASSUME NEW u \in V, u \in W, u # s, u # t PROVE Closed(b, E, u) /\ \E r \in E : Led(b, k, u, r)
  <2>1. u \in SUBSET E /\ Closed(a, E, u)
    BY <1>33 DEF Forest, Parted
  <2>2. c \notin u /\ p \notin u
    BY <1>1, <1>2, <1>33 DEF Parted
  <2>3. \A x \in u : x \in E /\ b[x] = a[x] /\ k[x] = h[x]
    BY <2>1, <2>2, <1>12, <1>26
  <2>4. PICK r \in E : Led(a, h, u, r)
    BY <1>33 DEF Forest
  <2>5. Closed(b, E, u)
    BY <2>1, <2>3 DEF Closed
  <2>6. Led(b, k, u, r)
    BY <2>3, <2>4 DEF Led
  <2> QED BY <2>5, <2>6
<1>34. \A u \in V : Closed(b, E, u) /\ \E r \in E : Led(b, k, u, r)
  BY <1>31, <1>32, <1>33
<1>35. Forest(b, E, k, V)
  BY <1>29, <1>31, <1>34 DEF Forest
<1> QED BY <1>15, <1>30, <1>35

LEMMA PathLength ==
  ASSUME NEW a, NEW E, NEW h, NEW W, Forest(a, E, h, W), NEW s \in W, NEW r, Led(a, h, s, r), a[r] < 0,
         NEW x \in s
  PROVE  Cardinality(Sets!Path(a, x)) <= h[r] - h[x] + 1
<1>1. /\ E \in SUBSET Nat /\ IsFiniteSet(E) /\ a \in [E -> Int] /\ h \in [E -> 0..MaxElement] /\ Ranked(a, E, h)
      /\ s \in SUBSET E /\ Closed(a, E, s)
  BY DEF Forest, Ranked, Parted
<1>2. r \in s /\ r \in E
  BY <1>1 DEF Led
<1>3. \A y \in s : y # r => a[y] >= 0 /\ h[y] < h[r]
  <2>1. PICK q : q = Sets!RootOf(a, r)
    OBVIOUS
  <2>2. Led(a, h, s, q) /\ a[q] < 0 /\ \A y \in s : y # q => a[y] >= 0 /\ h[y] < h[q]
    BY <2>1, <1>2, RootsAre
  <2>3. q = r
    BY <2>2, LeaderUnique
  <2> QED BY <2>2, <2>3
<1>4. \A y \in s : h[y] \in Int /\ h[r] - h[y] \in Nat
  <2> TAKE y \in s
  <2>1. h[y] \in Int /\ h[r] \in Int
    BY <1>1, <1>2, Constants
  <2> QED BY <2>1, <1>3
<1>5. ASSUME NEW y \in s, NEW P, P = Sets!Path(a, y)
      PROVE  /\ IsFiniteSet(P) /\ Cardinality(P) \in Nat
             /\ y \in P /\ Closed(a, E, P) /\ \A S : y \in S /\ Closed(a, E, S) => P \subseteq S
  <2>1. y \in E
    BY <1>1
  <2>2. y \in P /\ P \subseteq E /\ Closed(a, E, P) /\ \A S : y \in S /\ Closed(a, E, S) => P \subseteq S
    BY <2>1, <1>1, <1>5, PathIs
  <2>3. IsFiniteSet(P)
    BY <2>2, <1>1, FS_Subset
  <2> QED BY <2>2, <2>3, FS_CardinalityType
<1> DEFINE Long(y) == ~(Cardinality(Sets!Path(a, y)) <= h[r] - h[y] + 1)
           B == {d \in Nat : \E y \in s : h[r] - h[y] = d /\ Long(y)}
<1>6. ASSUME B # {} PROVE FALSE
  <2>1. PICK d \in B : \A m \in B : d <= m
    BY <1>6, Least
  <2>2. PICK y \in s : h[r] - h[y] = d /\ Long(y)
    BY <2>1
  <2>3. PICK P : P = Sets!Path(a, y)
    OBVIOUS
  <2>4. /\ IsFiniteSet(P) /\ Cardinality(P) \in Nat
        /\ \A S : y \in S /\ Closed(a, E, S) => P \subseteq S
    BY <2>3, <1>5
  <2>5. CASE y = r
    <3>1. Closed(a, E, {y})
      <4>1. ~(a[y] >= 0)
        BY <2>5, <1>1, <1>2, a[r] < 0
      <4> QED BY <4>1 DEF Closed
    <3>2. P \subseteq {y}
      BY <3>1, <2>4
    <3>3. Cardinality({y}) = 1 /\ IsFiniteSet({y})
      BY FS_Singleton
    <3>4. Cardinality(P) <= 1
      BY <3>2, <3>3, FS_Subset
    <3>5. d + 1 >= 1
      BY <2>1
    <3> QED BY <2>1, <2>2, <2>3, <2>4, <3>4, <3>5
  <2>6. CASE y # r
    <3>1. y \in E /\ a[y] >= 0
      BY <2>6, <1>1, <1>3
    <3>2. PICK z \in s : z = a[y]
      BY <3>1, <1>1 DEF Closed
    <3>3. h[y] < h[z]
      BY <3>1, <3>2, <1>1 DEF Ranked
    <3>4. PICK e \in Nat : e = h[r] - h[z]
      BY <1>4
    <3>5. e < d /\ ~(d <= e) /\ d \in Nat
      <4>1. h[y] \in Int /\ h[z] \in Int /\ h[r] \in Int /\ d \in Nat
        BY <1>2, <1>4, <2>1
      <4>2. h[r] - h[y] = d
        BY <2>2
      <4> QED BY <4>1, <4>2, <3>3, <3>4
    <3>6. e \notin B
      BY <2>1, <3>5
    <3>7. PICK Q : Q = Sets!Path(a, z)
      OBVIOUS
    <3>8. Cardinality(Q) <= e + 1
      BY <3>4, <3>6, <3>7
    <3>9. IsFiniteSet(Q) /\ Cardinality(Q) \in Nat /\ z \in Q /\ Closed(a, E, Q)
      BY <3>7, <1>5
    <3>10. Closed(a, E, Q \cup {y})
      BY <3>2, <3>9 DEF Closed
    <3>11. P \subseteq Q \cup {y}
      BY <3>10, <2>4
    <3>12. IsFiniteSet(Q \cup {y}) /\ Cardinality(Q \cup {y}) <= Cardinality(Q) + 1
      <4>1. IsFiniteSet(Q \cup {y}) /\ Cardinality(Q \cup {y}) = IF y \in Q THEN Cardinality(Q) ELSE Cardinality(Q) + 1
        BY <3>9, FS_AddElement
      <4> QED BY <4>1, <3>9
    <3>13. Cardinality(P) <= Cardinality(Q \cup {y}) /\ Cardinality(Q \cup {y}) \in Nat
      BY <3>11, <3>12, FS_Subset, FS_CardinalityType
    <3> QED BY <2>2, <2>3, <2>4, <3>5, <3>8, <3>9, <3>12, <3>13
  <2> QED BY <2>5, <2>6
<1>7. h[r] - h[x] \in Nat
  BY <1>4
<1> QED BY <1>6, <1>7

\* What comes together at the root of s.
LEMMA Followers ==
  ASSUME NEW a, NEW E, NEW h, NEW W, Forest(a, E, h, W), NEW s \in W, NEW r, Led(a, h, s, r), a[r] < 0
  PROVE  {x \in E : r \in Sets!Path(a, x)} = s
<1>1. s \in SUBSET E /\ r \in s /\ Parted(W, E)
  BY DEF Forest, Parted, Led
<1>2. ASSUME NEW x \in E, x \in s PROVE r \in Sets!Path(a, x)
  <2>1. PICK q : q = Sets!RootOf(a, x)
    OBVIOUS
  <2>2. q \in Sets!Path(a, x) /\ Led(a, h, s, q) /\ a[q] < 0
    BY <2>1, <1>2, RootsAre
  <2>3. q = r
    BY <2>2, LeaderUnique
  <2> QED BY <2>2, <2>3
<1>3. ASSUME NEW x \in E, r \in Sets!Path(a, x) PROVE x \in s
  <2>1. PICK t \in W : x \in t
    BY <1>1 DEF Parted
  <2>2. Sets!Path(a, x) \subseteq t
    BY <2>1, RootsAre
  <2>3. r \in t /\ r \in E
    BY <2>2, <1>1, <1>3
  <2>4. s = t
    BY <2>3, <1>1 DEF Parted
  <2> QED BY <2>1, <2>4
<1> QED BY <1>1, <1>2, <1>3

SetsIs(n, h) == /\ n \in 1..MaxElement /\ Forest(array, 0..n - 1, h, want)
                /\ numsets = Cardinality({x \in 0..n - 1 : array[x] < 0}) /\ right
SetsInv == \E n \in Nat : \E h : SetsIs(n, h)

LEMMA SetsShape ==
  ASSUME NEW n \in Nat, NEW h, SetsIs(n, h), NEW E, E = 0..n - 1
  PROVE  /\ n \in 1..MaxElement /\ MaxElement \in Nat /\ Forest(array, E, h, want) /\ DOMAIN array = E
         /\ IsFiniteSet(E) /\ Cardinality(E) = n /\ array \in [E -> Int] /\ h \in [E -> 0..MaxElement]
         /\ numsets = Cardinality({x \in E : array[x] < 0}) /\ right /\ Parted(want, E)
         /\ Sets!Element = E
BY Constants, CountTo DEF SetsIs, Forest, Ranked, Sets!Element

LEMMA SetOfIs == ASSUME NEW E, Parted(want, E), NEW x \in E, NEW s \in want, x \in s
                 PROVE  Sets!SetOf(x) = s
BY DEF Parted, Sets!SetOf

LEMMA SetsWanted == ASSUME NEW n \in Nat, NEW h, SetsIs(n, h)
                    PROVE  Sets!TypeOK /\ Sets!Weighted /\ Sets!Contents = want /\ right
<1>1. PICK E : E = 0..n - 1
  OBVIOUS
<1>2. /\ n \in 1..MaxElement /\ MaxElement \in Nat /\ Forest(array, E, h, want) /\ DOMAIN array = E
      /\ IsFiniteSet(E) /\ Cardinality(E) = n /\ array \in [E -> Int] /\ h \in [E -> 0..MaxElement]
      /\ numsets = Cardinality({x \in E : array[x] < 0}) /\ right /\ Parted(want, E)
      /\ Sets!Element = E
  BY <1>1, SetsShape
<1>3. ASSUME NEW s \in want
      PROVE  /\ s \in SUBSET E /\ IsFiniteSet(s) /\ Cardinality(s) \in Nat /\ Cardinality(s) >= 1 /\ Cardinality(s) <= n
             /\ \E r \in E : Led(array, h, s, r) /\ array[r] < 0
  <2>1. PICK r \in E : Led(array, h, s, r)
    BY <1>2 DEF Forest
  <2>2. s \in SUBSET E /\ r \in s /\ array[r] = -Cardinality(s)
    BY <1>2, <2>1 DEF Led, Parted
  <2>3. IsFiniteSet(s) /\ Cardinality(s) \in Nat /\ Cardinality(s) >= 1 /\ Cardinality(s) <= n
    BY <2>2, <1>2, SetIs
  <2>4. array[r] < 0
    BY <2>2, <2>3
  <2> QED BY <2>1, <2>2, <2>3, <2>4
<1>4. ASSUME NEW x \in E
      PROVE  \E s \in want, r \in E : x \in s /\ r = Sets!RootOf(array, x) /\ Led(array, h, s, r) /\ array[r] < 0
                                   /\ (array[x] < 0 => x = r)
  <2>1. PICK s \in want : x \in s
    BY <1>2 DEF Parted
  <2>2. PICK r : r = Sets!RootOf(array, x)
    OBVIOUS
  <2>3. Led(array, h, s, r) /\ array[r] < 0 /\ r \in E
    BY <2>1, <2>2, <1>2, RootsAre
  <2> QED BY <2>1, <2>2, <2>3 DEF Led
<1>5. Sets!TypeOK
  <2>1. ASSUME NEW x \in E PROVE array[x] \in -MaxElement..MaxElement
    <3>1. PICK s \in want, r \in E : x \in s /\ Led(array, h, s, r) /\ (array[x] < 0 => x = r)
      BY <1>4
    <3>2. Cardinality(s) \in Nat /\ Cardinality(s) <= n /\ array[r] = -Cardinality(s)
      BY <3>1, <1>3 DEF Led
    <3>3. array[x] < 0 => array[x] = -Cardinality(s)
      BY <3>1, <3>2
    <3>4. array[x] >= 0 => array[x] \in E
      BY <1>2 DEF Forest, Ranked
    <3>5. array[x] \in Int /\ n \in Nat /\ n <= MaxElement
      BY <1>2
    <3>6. array[x] >= 0 => array[x] < n
      BY <3>4, <1>1
    <3> QED BY <3>2, <3>3, <3>5, <3>6, <1>2
  <2>2. array \in [E -> -MaxElement..MaxElement]
    BY <2>1, <1>2
  <2>3. PICK R : R = {x \in E : array[x] < 0}
    OBVIOUS
  <2>4. R \subseteq E
    BY <2>3
  <2>5. IsFiniteSet(R) /\ Cardinality(R) <= Cardinality(E)
    BY <2>4, <1>2, FS_Subset
  <2>6. Cardinality(R) \in Nat
    BY <2>5, FS_CardinalityType
  <2>7. numsets \in 0..MaxElement
    BY <2>3, <2>5, <2>6, <1>2
  <2> QED BY <2>2, <2>7, <1>2 DEF Sets!TypeOK
<1>6. Sets!Contents = want
  <2>1. Sets!Roots = {r \in E : array[r] < 0}
    BY <1>2 DEF Sets!Roots
  <2>2. ASSUME NEW s \in want PROVE s \in Sets!Contents
    <3>1. PICK r \in E : Led(array, h, s, r) /\ array[r] < 0
      BY <1>3
    <3>2. {x \in E : r \in Sets!Path(array, x)} = s
      BY <3>1, <1>2, Followers
    <3> QED BY <2>1, <3>1, <3>2, <1>2 DEF Sets!Contents
  <2>3. ASSUME NEW r \in Sets!Roots PROVE {x \in Sets!Element : r \in Sets!Path(array, x)} \in want
    <3>1. r \in E /\ array[r] < 0
      BY <2>1
    <3>2. PICK s \in want, q \in E : Led(array, h, s, q) /\ (array[r] < 0 => r = q)
      BY <3>1, <1>4
    <3>3. {x \in E : r \in Sets!Path(array, x)} = s
      BY <3>1, <3>2, <1>2, Followers
    <3> QED BY <3>3, <1>2
  <2>4. \A t \in Sets!Contents : t \in want
    BY <2>3 DEF Sets!Contents
  <2> QED BY <2>2, <2>4
<1>7. Sets!Weighted
  <2>1. numsets = Sets!Cardinality(Sets!Roots)
    BY <1>2, SameCounting DEF Sets!Roots
  <2>2. ASSUME NEW x \in E, NEW r, r = Sets!RootOf(array, x), NEW size,
               size = Cardinality({y \in E : r \in Sets!Path(array, y)})
        PROVE  array[r] = -size /\ Sets!Power(Cardinality(Sets!Path(array, x)) - 1) <= size
    <3>1. PICK s \in want : x \in s /\ Led(array, h, s, r) /\ array[r] < 0 /\ r \in E
      BY <2>2, <1>4
    <3>2. {y \in E : r \in Sets!Path(array, y)} = s
      BY <3>1, <1>2, Followers
    <3>3. array[r] = -size /\ Sets!Power(h[r]) <= size /\ size = Cardinality(s) /\ size \in Nat
      BY <2>2, <3>1, <3>2, <1>3 DEF Led
    <3>4. PICK c : c = Cardinality(Sets!Path(array, x))
      OBVIOUS
    <3>5. c <= h[r] - h[x] + 1
      BY <3>1, <3>4, <1>2, PathLength
    <3>6. x \in Sets!Path(array, x) /\ Sets!Path(array, x) \subseteq E
      BY <1>2, PathIs DEF Forest
    <3>7. c \in Nat /\ c >= 1
      BY <3>4, <3>6, <1>2, SetIs
    <3>8. h[r] \in 0..MaxElement /\ h[x] \in 0..MaxElement
      BY <3>1, <1>2
    <3>9. c - 1 \in Nat /\ h[r] \in Nat /\ c - 1 <= h[r] /\ h[r] <= MaxElement
      BY <3>5, <3>7, <3>8, <1>2
    <3>10. Sets!Power(c - 1) <= Sets!Power(h[r])
      BY <3>9, PowerGrows
    <3>11. Sets!Power(c - 1) \in Nat /\ Sets!Power(h[r]) \in Nat
      BY <3>9, PowerIs, Constants
    <3> QED BY <3>3, <3>4, <3>10, <3>11
  <2>3. \A S : Sets!Cardinality(S) = Cardinality(S)
    BY SameCounting
  <2> QED BY <2>1, <2>2, <2>3, <1>2 DEF Sets!Weighted
<1> QED BY <1>2, <1>5, <1>6, <1>7

LEMMA SetsInvIs == ASSUME NEW n \in 1..MaxElement, NEW E, E = 0..n - 1, NEW h, Forest(array, E, h, want),
                          numsets = Cardinality({x \in E : array[x] < 0}), right
                   PROVE  SetsInv
<1>1. n \in Nat
  BY Constants
<1>2. SetsIs(n, h)
  BY DEF SetsIs
<1> QED BY <1>1, <1>2 DEF SetsInv

\* Elements on their own.
LEMMA SinglesForest ==
  ASSUME NEW E, E \in SUBSET Nat, IsFiniteSet(E), NEW a, a = [x \in E |-> -1], NEW W, W = Sets!Singletons(E)
  PROVE  (\E h : Forest(a, E, h, W)) /\ {x \in E : a[x] < 0} = E
<1>1. PICK h : h = [x \in E |-> 0]
  OBVIOUS
<1>2. a \in [E -> Int] /\ h \in [E -> 0..MaxElement] /\ \A x \in E : a[x] = -1 /\ h[x] = 0
  BY <1>1, Constants
<1>3. \A x \in E : ~(a[x] >= 0) /\ a[x] < 0
  BY <1>2
<1>4. Ranked(a, E, h)
  BY <1>2, <1>3 DEF Ranked
<1>5. Parted(W, E)
  <2>1. \A x \in E : {x} \in W
    BY DEF Sets!Singletons
  <2>2. \A s \in W : \E y \in E : s = {y}
    BY DEF Sets!Singletons
  <2>3. \A s \in W : s \in SUBSET E
    BY <2>2
  <2>4. \A s, t \in W : \A x \in E : x \in s /\ x \in t => s = t
    <3> SUFFICES ASSUME NEW s \in W, NEW t \in W, NEW x \in E, x \in s, x \in t PROVE s = t
      OBVIOUS
    <3>1. s = {x} /\ t = {x}
      BY <2>2
    <3> QED BY <3>1
  <2>5. \A x \in E : \E s \in W : x \in s
    BY <2>1
  <2> QED BY <2>3, <2>4, <2>5 DEF Parted
<1>6. ASSUME NEW s \in W PROVE Closed(a, E, s) /\ \E r \in E : Led(a, h, s, r)
  <2>1. PICK r \in E : s = {r}
    BY DEF Sets!Singletons
  <2>2. Cardinality(s) = 1
    BY <2>1, FS_Singleton
  <2>3. Sets!Power(h[r]) = 1
    BY <1>2, PowerIs
  <2>4. Closed(a, E, s)
    BY <1>3 DEF Closed
  <2>5. Led(a, h, s, r)
    BY <2>1, <2>2, <2>3, <1>2 DEF Led
  <2> QED BY <2>4, <2>5
<1>7. Forest(a, E, h, W)
  BY <1>4, <1>5, <1>6 DEF Forest
<1> QED BY <1>3, <1>7

LEMMA SetsStarts == ASSUME Sets!Init PROVE SetsInv
<1>1. PICK n \in 1..MaxElement : array = [i \in 0..n - 1 |-> -1]
  BY DEF Sets!Init
<1>2. n \in Nat
  BY Constants
<1>3. PICK E : E = 0..n - 1
  OBVIOUS
<1>4. E \in SUBSET Nat /\ IsFiniteSet(E) /\ array = [x \in E |-> -1] /\ Sets!Element = E
  BY <1>1, <1>2, <1>3, CountTo DEF Sets!Element
<1>5. numsets = Cardinality(E) /\ want = Sets!Singletons(E) /\ right
  BY <1>4, SameCounting DEF Sets!Init
<1>6. (\E h : Forest(array, E, h, want)) /\ {x \in E : array[x] < 0} = E
  BY <1>4, <1>5, SinglesForest
<1> QED BY <1>3, <1>5, <1>6, SetsInvIs

\* A step that leaves a forest.
LEMMA SetsNext == ASSUME NEW n \in 1..MaxElement, NEW E, E = 0..n - 1, NEW h, NEW a, NEW W, a = array', W = want',
                         Forest(a, E, h, W), numsets' = Cardinality({x \in E : a[x] < 0}), right'
                  PROVE  SetsInv'
<1>1. n \in Nat
  BY Constants
<1>2. Forest(array, 0..n - 1, h, want)'
  <2>1. Ranked(a, E, h) /\ Parted(W, E) /\ \A s \in W : Closed(a, E, s) /\ \E r \in E : Led(a, h, s, r)
    BY DEF Forest
  <2>2. Ranked(array, 0..n - 1, h)'
    BY <2>1 DEF Ranked
  <2>3. Parted(want, 0..n - 1)'
    BY <2>1 DEF Parted
  <2>4. \A s \in want' : Closed(array, 0..n - 1, s)' /\ \E r \in 0..n - 1 : Led(array, h, s, r)'
    BY <2>1 DEF Closed, Led
  <2> QED BY <2>2, <2>3, <2>4 DEF Forest
<1> QED BY <1>1, <1>2 DEF SetsInv, SetsIs

LEMMA ResetStep == ASSUME SetsInv, Sets!Reset PROVE SetsInv'
<1>1. PICK n \in Nat : \E h : SetsIs(n, h)
  BY DEF SetsInv
<1>2. PICK E : E = 0..n - 1
  OBVIOUS
<1>3. n \in 1..MaxElement /\ IsFiniteSet(E) /\ right /\ Sets!Element = E /\ E \in SUBSET Nat
  <2>1. PICK h : SetsIs(n, h)
    BY <1>1
  <2>2. n \in 1..MaxElement /\ IsFiniteSet(E) /\ right /\ Sets!Element = E
    BY <1>2, <2>1, SetsShape
  <2> QED BY <1>2, <2>2
<1>4. PICK a : a = array'
  OBVIOUS
<1>5. PICK W : W = want'
  OBVIOUS
<1>6. a = [x \in E |-> -1] /\ W = Sets!Singletons(E) /\ numsets' = Cardinality(E) /\ right'
  BY <1>3, <1>4, <1>5, SameCounting DEF Sets!Reset
<1>7. (\E h : Forest(a, E, h, W)) /\ {x \in E : a[x] < 0} = E
  BY <1>3, <1>6, SinglesForest
<1>8. PICK h : Forest(a, E, h, W)
  BY <1>7
<1> QED BY <1>2, <1>3, <1>4, <1>5, <1>6, <1>7, <1>8, SetsNext

LEMMA SameRoot ==
  ASSUME NEW a, NEW E, NEW h, NEW W, Forest(a, E, h, W), NEW s \in W, NEW x \in s, NEW y \in s
  PROVE  Sets!RootOf(a, x) = Sets!RootOf(a, y)
<1>1. x \in E /\ y \in E
  BY DEF Forest, Parted
<1>2. PICK r : r = Sets!RootOf(a, x)
  OBVIOUS
<1>3. PICK q : q = Sets!RootOf(a, y)
  OBVIOUS
<1>4. Led(a, h, s, r)
  BY <1>1, <1>2, RootsAre
<1>5. Led(a, h, s, q) /\ a[q] < 0
  BY <1>1, <1>3, RootsAre
<1> QED BY <1>2, <1>3, <1>4, <1>5, LeaderUnique

LEMMA CompressedFlatter ==
  ASSUME NEW a, NEW E, NEW h, NEW W, Forest(a, E, h, W), DOMAIN a = E, NEW x \in E, NEW b, b = Sets!Compressed(a, x)
  PROVE  Flatter(b, a, E)
<1>1. a \in [E -> Int] /\ E \in SUBSET Nat
  BY DEF Forest, Ranked
<1>2. PICK s \in W : x \in s
  BY DEF Forest, Parted
<1>3. PICK r : r = Sets!RootOf(a, x)
  OBVIOUS
<1>4. PICK P : P = Sets!Path(a, x)
  OBVIOUS
<1>5. P \subseteq s /\ r \in E /\ \A y \in s : y # r => a[y] >= 0
  BY <1>2, <1>3, <1>4, RootsAre
<1>6. b = [y \in E |-> IF y \in P \ {r} THEN r ELSE a[y]]
  BY <1>3, <1>4 DEF Sets!Compressed
<1>7. b \in [E -> Int]
  BY <1>1, <1>5, <1>6
<1>8. ASSUME NEW y \in E, y \in P \ {r} PROVE a[y] >= 0 /\ b[y] = Sets!RootOf(a, y)
  <2>1. y \in s
    BY <1>5, <1>8
  <2>2. r = Sets!RootOf(a, y)
    BY <2>1, <1>2, <1>3, SameRoot
  <2> QED BY <2>1, <2>2, <1>5, <1>6, <1>8
<1>9. \A y \in E : b[y] = a[y] \/ (a[y] >= 0 /\ b[y] = Sets!RootOf(a, y))
  BY <1>6, <1>8
<1> QED BY <1>7, <1>9 DEF Flatter

LEMMA FindStep == ASSUME SetsInv, NEW x, Sets!Find(x) PROVE SetsInv'
<1>1. PICK n \in Nat : \E h : SetsIs(n, h)
  BY DEF SetsInv
<1>2. PICK h : SetsIs(n, h)
  BY <1>1
<1>3. PICK E : E = 0..n - 1
  OBVIOUS
<1>4. /\ n \in 1..MaxElement /\ MaxElement \in Nat /\ Forest(array, E, h, want) /\ DOMAIN array = E
      /\ IsFiniteSet(E) /\ Cardinality(E) = n /\ array \in [E -> Int] /\ h \in [E -> 0..MaxElement]
      /\ numsets = Cardinality({z \in E : array[z] < 0}) /\ right /\ Parted(want, E)
      /\ Sets!Element = E
  BY <1>2, <1>3, SetsShape
<1>5. PICK a : a = array'
  OBVIOUS
<1>6. x \in E /\ a = Sets!Compressed(array, x) /\ numsets' = numsets /\ want' = want
  BY <1>4, <1>5 DEF Sets!Find
<1>7. Flatter(a, array, E)
  BY <1>4, <1>6, CompressedFlatter
<1>8. Forest(a, E, h, want) /\ \A y \in E : a[y] < 0 <=> array[y] < 0
  BY <1>4, <1>7, FlatterForest
<1>9. {y \in E : a[y] < 0} = {y \in E : array[y] < 0}
  BY <1>8
<1>10. PICK s \in want : x \in s
  BY <1>4, <1>6 DEF Parted
<1>11. PICK r : r = Sets!RootOf(array, x)
  OBVIOUS
<1>12. Led(array, h, s, r) /\ r \in s
  BY <1>4, <1>6, <1>10, <1>11, RootsAre
<1>13. Sets!SetOf(x) = s
  BY <1>4, <1>6, <1>10, SetOfIs
<1>14. -array[r] = Cardinality(s)
  <2>1. s \in SUBSET E
    BY <1>4 DEF Parted
  <2>2. Cardinality(s) \in Nat
    BY <2>1, <1>4, <1>12, SetIs
  <2> QED BY <2>2, <1>12 DEF Led
<1>15. right'
  BY <1>4, <1>11, <1>12, <1>13, <1>14, SameCounting DEF Sets!Find
<1> QED BY <1>3, <1>4, <1>5, <1>6, <1>8, <1>9, <1>15, SetsNext

LEMMA GetElementsStep == ASSUME SetsInv, NEW set, Sets!GetElements(set) PROVE SetsInv'
<1>1. PICK n \in Nat : \E h : SetsIs(n, h)
  BY DEF SetsInv
<1>2. PICK h : SetsIs(n, h)
  BY <1>1
<1>3. PICK E : E = 0..n - 1
  OBVIOUS
<1>4. /\ n \in 1..MaxElement /\ MaxElement \in Nat /\ Forest(array, E, h, want) /\ DOMAIN array = E
      /\ IsFiniteSet(E) /\ Cardinality(E) = n /\ array \in [E -> Int] /\ h \in [E -> 0..MaxElement]
      /\ numsets = Cardinality({z \in E : array[z] < 0}) /\ right /\ Parted(want, E)
      /\ Sets!Element = E
  BY <1>2, <1>3, SetsShape
<1>5. PICK a : a = array'
  OBVIOUS
<1>6. PICK seen : a = [y \in E |-> IF y \in seen /\ array[y] >= 0 THEN Sets!RootOf(array, y) ELSE array[y]]
  BY <1>4, <1>5 DEF Sets!GetElements
<1>7. set \in E /\ numsets' = numsets /\ want' = want
  BY <1>4 DEF Sets!GetElements
<1>8. ASSUME NEW y \in E PROVE Sets!RootOf(array, y) \in E
  <2>1. PICK s \in want : y \in s
    BY <1>4 DEF Parted
  <2> QED BY <2>1, <1>4, RootsAre
<1>9. E \in SUBSET Nat
  BY <1>4 DEF Forest, Ranked
<1>10. a \in [E -> Int] /\ \A y \in E : a[y] = array[y] \/ (array[y] >= 0 /\ a[y] = Sets!RootOf(array, y))
  <2>1. \A y \in E : a[y] = IF y \in seen /\ array[y] >= 0 THEN Sets!RootOf(array, y) ELSE array[y]
    BY <1>6
  <2>2. \A y \in E : array[y] \in Int /\ Sets!RootOf(array, y) \in Int
    <3> TAKE y \in E
    <3>1. Sets!RootOf(array, y) \in Nat
      BY <1>8, <1>9
    <3>2. array[y] \in Int
      BY <1>4
    <3> QED BY <3>1, <3>2
  <2>3. \A y \in E : a[y] \in Int
    BY <2>1, <2>2
  <2>4. a = [y \in E |-> a[y]]
    BY <1>6
  <2> QED BY <2>1, <2>3, <2>4
<1>11. Flatter(a, array, E)
  BY <1>10 DEF Flatter
<1>12. Forest(a, E, h, want) /\ \A y \in E : a[y] < 0 <=> array[y] < 0
  BY <1>4, <1>11, FlatterForest
<1>13. {y \in E : a[y] < 0} = {y \in E : array[y] < 0}
  BY <1>12
<1>14. PICK s \in want : set \in s
  BY <1>4, <1>7 DEF Parted
<1>15. Sets!SetOf(set) = s
  BY <1>4, <1>7, <1>14, SetOfIs
<1>16. s \in SUBSET E
  BY <1>4 DEF Parted
<1>17. ASSUME NEW y \in E PROVE Sets!RootOf(array, y) = Sets!RootOf(array, set) <=> y \in s
  <2>1. y \in s => Sets!RootOf(array, y) = Sets!RootOf(array, set)
    BY <1>4, <1>14, SameRoot
  <2>2. ASSUME Sets!RootOf(array, y) = Sets!RootOf(array, set) PROVE y \in s
    <3>1. PICK t \in want : y \in t
      BY <1>4 DEF Parted
    <3>2. PICK r : r = Sets!RootOf(array, y)
      OBVIOUS
    <3>3. r \in t /\ r \in E
      BY <3>1, <3>2, <1>4, RootsAre
    <3>4. r \in s
      BY <2>2, <3>2, <1>4, <1>7, <1>14, RootsAre
    <3>5. s = t
      BY <3>3, <3>4, <1>4 DEF Parted
    <3> QED BY <3>1, <3>5
  <2> QED BY <2>1, <2>2
<1>18. {y \in Sets!Element : Sets!RootOf(array, y) = Sets!RootOf(array, set)} = s
  BY <1>4, <1>16, <1>17
<1>19. right'
  BY <1>4, <1>15, <1>18 DEF Sets!GetElements
<1> QED BY <1>3, <1>4, <1>5, <1>7, <1>12, <1>13, <1>19, SetsNext

LEMMA UnitedForest ==
  ASSUME NEW a, NEW E, NEW h, NEW W, Forest(a, E, h, W), NEW s \in W, NEW t \in W, s # t,
         NEW x \in s, NEW y \in t, a[x] < 0, a[y] < 0, Cardinality(E) <= MaxElement,
         NEW b, b = Sets!United(a, x, y)
  PROVE  /\ \E k : Forest(b, E, k, Joined(W, s, t))
         /\ Cardinality({z \in E : b[z] < 0}) = Cardinality({z \in E : a[z] < 0}) - 1
<1>1. IsFiniteSet(E) /\ s \in SUBSET E /\ t \in SUBSET E /\ x \in E /\ y \in E
  BY DEF Forest, Ranked, Parted
<1>2. \A u \in W : \E r \in E : Led(a, h, u, r)
  BY DEF Forest
<1>3. a[x] = -Cardinality(s) /\ a[y] = -Cardinality(t)
  BY <1>2 DEF Led
<1>4. Cardinality(s) \in Nat /\ Cardinality(t) \in Nat
  BY <1>1, SetIs
<1>5. PICK R : R = {z \in E : a[z] < 0}
  OBVIOUS
<1>6. R \subseteq E /\ x \in R /\ y \in R
  BY <1>1, <1>5
<1>7. IsFiniteSet(R)
  BY <1>1, <1>6, FS_Subset
<1>8. ASSUME NEW c \in R, \A z \in E : b[z] < 0 <=> a[z] < 0 /\ z # c
      PROVE  Cardinality({z \in E : b[z] < 0}) = Cardinality(R) - 1
  <2>1. {z \in E : b[z] < 0} = R \ {c}
    BY <1>5, <1>8
  <2> QED BY <2>1, <1>7, FS_RemoveElement
<1>9. CASE a[x] > a[y]
  <2>1. Hung(b, a, x, y)
    BY <1>9 DEF Sets!United, Hung
  <2>2. Cardinality(s) <= Cardinality(t)
    BY <1>3, <1>4, <1>9
  <2>3. (\E k : Forest(b, E, k, Joined(W, s, t))) /\ \A z \in E : b[z] < 0 <=> a[z] < 0 /\ z # x
    BY <2>1, <2>2, JoinedForest
  <2> QED BY <2>3, <1>5, <1>6, <1>8
<1>10. CASE ~(a[x] > a[y])
  <2>1. Hung(b, a, y, x)
    BY <1>10 DEF Sets!United, Hung
  <2>2. Cardinality(t) <= Cardinality(s)
    BY <1>3, <1>4, <1>10
  <2>3. (\E k : Forest(b, E, k, Joined(W, t, s))) /\ \A z \in E : b[z] < 0 <=> a[z] < 0 /\ z # y
    BY <2>1, <2>2, JoinedForest
  <2>4. Joined(W, t, s) = Joined(W, s, t)
    BY DEF Joined
  <2> QED BY <2>3, <2>4, <1>5, <1>6, <1>8
<1> QED BY <1>9, <1>10

LEMMA UnionStep == ASSUME SetsInv, NEW x, NEW y, Sets!Union(x, y) PROVE SetsInv'
<1>1. PICK n \in Nat : \E h : SetsIs(n, h)
  BY DEF SetsInv
<1>2. PICK h : SetsIs(n, h)
  BY <1>1
<1>3. PICK E : E = 0..n - 1
  OBVIOUS
<1>4. /\ n \in 1..MaxElement /\ MaxElement \in Nat /\ Forest(array, E, h, want) /\ DOMAIN array = E
      /\ IsFiniteSet(E) /\ Cardinality(E) = n /\ array \in [E -> Int] /\ h \in [E -> 0..MaxElement]
      /\ numsets = Cardinality({z \in E : array[z] < 0}) /\ right /\ Parted(want, E)
      /\ Sets!Element = E
  BY <1>2, <1>3, SetsShape
<1>5. PICK a : a = array'
  OBVIOUS
<1>6. PICK W : W = want'
  OBVIOUS
<1>7. /\ x \in E /\ y \in E /\ array[x] < 0 /\ array[y] < 0 /\ x # y
      /\ a = Sets!United(array, x, y) /\ numsets' = numsets - 1 /\ W = Sets!Merged(x, y)
      /\ right' = (right /\ Sets!SetOf(x) # Sets!SetOf(y))
  BY <1>4, <1>5, <1>6 DEF Sets!Union, Sets!Roots
<1>8. PICK s \in want : x \in s
  BY <1>4, <1>7 DEF Parted
<1>9. PICK t \in want : y \in t
  BY <1>4, <1>7 DEF Parted
<1>10. s # t
  <2>1. PICK r \in E : Led(array, h, s, r)
    BY <1>4 DEF Forest
  <2> QED BY <2>1, <1>7, <1>8, <1>9 DEF Led
<1>11. Sets!SetOf(x) = s /\ Sets!SetOf(y) = t
  BY <1>4, <1>7, <1>8, <1>9, SetOfIs
<1>12. W = Joined(want, s, t) /\ right'
  BY <1>4, <1>7, <1>10, <1>11 DEF Sets!Merged, Joined
<1>13. Cardinality(E) <= MaxElement
  BY <1>4
<1>14. /\ \E k : Forest(a, E, k, W)
       /\ Cardinality({z \in E : a[z] < 0}) = Cardinality({z \in E : array[z] < 0}) - 1
  BY <1>4, <1>7, <1>8, <1>9, <1>10, <1>12, <1>13, UnitedForest
<1>15. PICK k : Forest(a, E, k, W)
  BY <1>14
<1> QED BY <1>3, <1>4, <1>5, <1>6, <1>7, <1>12, <1>14, <1>15, SetsNext

LEMMA EdgeStep == ASSUME SetsInv, NEW x, NEW y, Sets!Edge(x, y) PROVE SetsInv'
<1>1. PICK n \in Nat : \E h : SetsIs(n, h)
  BY DEF SetsInv
<1>2. PICK h : SetsIs(n, h)
  BY <1>1
<1>3. PICK E : E = 0..n - 1
  OBVIOUS
<1>4. /\ n \in 1..MaxElement /\ MaxElement \in Nat /\ Forest(array, E, h, want) /\ DOMAIN array = E
      /\ IsFiniteSet(E) /\ Cardinality(E) = n /\ array \in [E -> Int] /\ h \in [E -> 0..MaxElement]
      /\ numsets = Cardinality({z \in E : array[z] < 0}) /\ right /\ Parted(want, E)
      /\ Sets!Element = E
  BY <1>2, <1>3, SetsShape
<1>5. PICK a : a = Sets!Compressed(array, x)
  OBVIOUS
<1>6. PICK b : b = Sets!Compressed(a, y)
  OBVIOUS
<1>7. PICK r : r = Sets!RootOf(b, x)
  OBVIOUS
<1>8. PICK q : q = Sets!RootOf(b, y)
  OBVIOUS
<1>9. PICK c : c = array'
  OBVIOUS
<1>10. PICK W : W = want'
  OBVIOUS
<1>11. /\ x \in E /\ y \in E
       /\ c = (IF r = q THEN b ELSE Sets!United(b, r, q))
       /\ numsets' = (IF r = q THEN numsets ELSE numsets - 1)
       /\ W = Sets!Merged(x, y) /\ right' = (right /\ (r = q <=> Sets!SetOf(x) = Sets!SetOf(y)))
  BY <1>4, <1>5, <1>6, <1>7, <1>8, <1>9, <1>10 DEF Sets!Edge
<1>12. Flatter(a, array, E)
  BY <1>4, <1>5, <1>11, CompressedFlatter
<1>13. Forest(a, E, h, want) /\ (\A z \in E : a[z] < 0 <=> array[z] < 0) /\ DOMAIN a = E
  BY <1>4, <1>12, FlatterForest DEF Flatter
<1>14. Flatter(b, a, E)
  BY <1>6, <1>11, <1>13, CompressedFlatter
<1>15. Forest(b, E, h, want) /\ (\A z \in E : b[z] < 0 <=> a[z] < 0)
  BY <1>13, <1>14, FlatterForest
<1>16. {z \in E : b[z] < 0} = {z \in E : array[z] < 0}
  BY <1>13, <1>15
<1>17. PICK s \in want : x \in s
  BY <1>4, <1>11 DEF Parted
<1>18. PICK t \in want : y \in t
  BY <1>4, <1>11 DEF Parted
<1>19. Sets!SetOf(x) = s /\ Sets!SetOf(y) = t
  BY <1>4, <1>11, <1>17, <1>18, SetOfIs
<1>20. r \in s /\ r \in E /\ b[r] < 0
  BY <1>7, <1>11, <1>15, <1>17, RootsAre
<1>21. q \in t /\ q \in E /\ b[q] < 0
  BY <1>8, <1>11, <1>15, <1>18, RootsAre
<1>22. r = q <=> s = t
  <2>1. s = t => r = q
    BY <1>7, <1>8, <1>15, <1>17, <1>18, SameRoot
  <2>2. r = q => s = t
    BY <1>4, <1>20, <1>21 DEF Parted
  <2> QED BY <2>1, <2>2
<1>23. right'
  BY <1>4, <1>11, <1>19, <1>22
<1>24. CASE r = q
  <2>1. W = want
    BY <1>11, <1>19, <1>22, <1>24 DEF Sets!Merged
  <2>2. c = b /\ numsets' = numsets
    BY <1>11, <1>24
  <2>3. Forest(c, E, h, W) /\ numsets' = Cardinality({z \in E : c[z] < 0})
    BY <2>1, <2>2, <1>4, <1>15, <1>16
  <2> QED BY <2>3, <1>3, <1>4, <1>9, <1>10, <1>23, SetsNext
<1>25. CASE r # q
  <2>1. c = Sets!United(b, r, q) /\ numsets' = numsets - 1 /\ s # t
    BY <1>11, <1>22, <1>25
  <2>2. W = Joined(want, s, t)
    BY <1>11, <1>19 DEF Sets!Merged, Joined
  <2>3. Cardinality(E) <= MaxElement
    BY <1>4
  <2>4. /\ \E k : Forest(c, E, k, W)
        /\ Cardinality({z \in E : c[z] < 0}) = Cardinality({z \in E : b[z] < 0}) - 1
    BY <2>1, <2>2, <2>3, <1>15, <1>20, <1>21, UnitedForest
  <2>5. PICK k : Forest(c, E, k, W)
    BY <2>4
  <2>6. numsets' = Cardinality({z \in E : c[z] < 0})
    BY <2>1, <2>4, <1>4, <1>16
  <2> QED BY <2>5, <2>6, <1>3, <1>4, <1>9, <1>10, <1>23, SetsNext
<1> QED BY <1>24, <1>25

\* New elements, each on its own.
Grown(b, a, E, D, F) == /\ D \in SUBSET Nat /\ IsFiniteSet(D) /\ D \cap E = {} /\ F = E \cup D
                        /\ b = [x \in F |-> IF x \in E THEN a[x] ELSE -1]
Added(V, W, D) == V = W \cup Sets!Singletons(D)

LEMMA GrownForest ==
  ASSUME NEW a, NEW E, NEW h, NEW W, Forest(a, E, h, W), NEW b, NEW D, NEW F, Grown(b, a, E, D, F),
         NEW V, Added(V, W, D)
  PROVE  (\E k : Forest(b, F, k, V)) /\ \A x \in F : b[x] < 0 <=> x \in D \/ a[x] < 0
<1>1. /\ E \in SUBSET Nat /\ IsFiniteSet(E) /\ a \in [E -> Int] /\ h \in [E -> 0..MaxElement] /\ Parted(W, E)
      /\ MaxElement \in Nat
  BY Constants DEF Forest, Ranked
<1>2. D \in SUBSET Nat /\ IsFiniteSet(D) /\ D \cap E = {} /\ F = E \cup D
  BY DEF Grown
<1>3. F \in SUBSET Nat /\ IsFiniteSet(F)
  <2>1. IsFiniteSet(E) /\ IsFiniteSet(D)
    BY <1>1, <1>2
  <2>2. IsFiniteSet(E \cup D)
    BY <2>1, FS_Union
  <2> QED BY <2>2, <1>1, <1>2
<1>4. PICK k : k = [x \in F |-> IF x \in E THEN h[x] ELSE 0]
  OBVIOUS
<1>5. b \in [F -> Int] /\ k \in [F -> 0..MaxElement]
  BY <1>1, <1>2, <1>4 DEF Grown
<1>6. \A x \in E : x \in F /\ b[x] = a[x] /\ k[x] = h[x]
  BY <1>2, <1>4 DEF Grown
<1>7. \A x \in D : x \in F /\ b[x] = -1 /\ k[x] = 0 /\ b[x] < 0 /\ ~(b[x] >= 0)
  <2> TAKE x \in D
  <2>1. x \in F /\ x \notin E
    BY <1>2
  <2> QED BY <2>1, <1>2, <1>4 DEF Grown
<1>8. \A x \in F : x \in E \/ x \in D
  BY <1>2
<1>9. \A x \in F : b[x] >= 0 => b[x] \in F /\ k[x] < k[b[x]]
  <2> TAKE x \in F
  <2> HAVE b[x] >= 0
  <2>1. x \in E /\ b[x] = a[x] /\ k[x] = h[x]
    BY <1>6, <1>7, <1>8
  <2>2. a[x] \in E /\ h[x] < h[a[x]]
    BY <2>1 DEF Forest, Ranked
  <2> QED BY <2>1, <2>2, <1>6
<1>10. Ranked(b, F, k)
  BY <1>3, <1>5, <1>9 DEF Ranked
<1>11. \A s \in V : s \in W \/ \E x \in D : s = {x}
  BY DEF Added, Sets!Singletons
<1>12. (\A s \in W : s \in V) /\ \A x \in D : {x} \in V
  BY DEF Added, Sets!Singletons
<1>13. \A s \in W : s \in SUBSET E
  BY <1>1 DEF Parted
<1>14. Parted(V, F)
  <2>1. \A s \in V : s \in SUBSET F
    BY <1>2, <1>11, <1>13
  <2>2. \A x \in F : \E s \in V : x \in s
    <3> TAKE x \in F
    <3>1. CASE x \in E
      <4>1. PICK s \in W : x \in s
        BY <3>1, <1>1 DEF Parted
      <4> QED BY <4>1, <1>12
    <3>2. CASE x \in D
      BY <3>2, <1>12
    <3> QED BY <3>1, <3>2, <1>8
  <2>3. ASSUME NEW s \in V, NEW t \in V, NEW x \in F, x \in s, x \in t PROVE s = t
    <3>1. CASE x \in E
      <4>1. x \notin D
        BY <3>1, <1>2
      <4>2. s \in W /\ t \in W
        BY <4>1, <2>3, <1>11
      <4> QED BY <3>1, <4>2, <2>3, <1>1 DEF Parted
    <3>2. CASE x \in D
      <4>1. x \notin E
        BY <3>2, <1>2
      <4>2. s \notin W /\ t \notin W
        BY <4>1, <2>3, <1>13
      <4>3. s = {x} /\ t = {x}
        BY <4>2, <2>3, <1>11
      <4> QED BY <4>3
    <3> QED BY <3>1, <3>2, <1>8
  <2> QED BY <2>1, <2>2, <2>3 DEF Parted
<1>15. ASSUME NEW s \in W PROVE Closed(b, F, s) /\ \E r \in F : Led(b, k, s, r)
  <2>1. \A x \in s : x \in E /\ b[x] = a[x] /\ k[x] = h[x]
    BY <1>6, <1>13
  <2>2. Closed(b, F, s)
    BY <2>1 DEF Forest, Closed
  <2>3. PICK r \in E : Led(a, h, s, r)
    BY DEF Forest
  <2>4. Led(b, k, s, r)
    BY <2>1, <2>3 DEF Led
  <2> QED BY <2>2, <2>4, <1>6
<1>16. ASSUME NEW s, NEW x \in D, s = {x} PROVE Closed(b, F, s) /\ \E r \in F : Led(b, k, s, r)
  <2>1. Cardinality(s) = 1
    BY <1>16, FS_Singleton
  <2>2. Sets!Power(k[x]) = 1
    BY <1>7, PowerIs
  <2>3. Closed(b, F, s)
    BY <1>7, <1>16 DEF Closed
  <2>4. Led(b, k, s, x)
    BY <2>1, <2>2, <1>7, <1>16 DEF Led
  <2> QED BY <2>3, <2>4, <1>7
<1>17. Forest(b, F, k, V)
  BY <1>10, <1>11, <1>14, <1>15, <1>16 DEF Forest
<1>18. \A x \in F : b[x] < 0 <=> x \in D \/ a[x] < 0
  BY <1>6, <1>7, <1>8
<1> QED BY <1>2, <1>17, <1>18

LEMMA AddSetsStep == ASSUME SetsInv, NEW m \in 1..MaxElement, Sets!AddSets(m) PROVE SetsInv'
<1>1. PICK n \in Nat : \E h : SetsIs(n, h)
  BY DEF SetsInv
<1>2. PICK h : SetsIs(n, h)
  BY <1>1
<1>3. PICK E : E = 0..n - 1
  OBVIOUS
<1>4. /\ n \in 1..MaxElement /\ MaxElement \in Nat /\ Forest(array, E, h, want) /\ DOMAIN array = E
      /\ IsFiniteSet(E) /\ Cardinality(E) = n /\ array \in [E -> Int] /\ h \in [E -> 0..MaxElement]
      /\ numsets = Cardinality({z \in E : array[z] < 0}) /\ right /\ Parted(want, E)
      /\ Sets!Element = E
  BY <1>2, <1>3, SetsShape
<1>5. PICK a : a = array'
  OBVIOUS
<1>6. PICK W : W = want'
  OBVIOUS
<1>7. m \in Nat /\ n \in Nat /\ Sets!Cardinality(Sets!Element) = n
  BY <1>4, SameCounting
<1>8. /\ n + m <= MaxElement
      /\ a = [i \in 0..n + m - 1 |-> IF i < n THEN array[i] ELSE -1]
      /\ numsets' = numsets + m /\ W = want \cup Sets!Singletons(n..n + m - 1) /\ right'
  BY <1>4, <1>5, <1>6, <1>7 DEF Sets!AddSets
<1>9. PICK D : D = n..n + m - 1
  OBVIOUS
<1>10. D \in SUBSET Nat /\ D \cap E = {} /\ 0..n + m - 1 = E \cup D
  BY <1>3, <1>7, <1>9
<1>11. IsFiniteSet(D) /\ Cardinality(D) = m
  BY <1>7, <1>9, FS_Interval
<1>12. PICK F : F = E \cup D
  OBVIOUS
<1>13. Grown(a, array, E, D, F)
  <2>1. \A x \in F : x \in E <=> x < n
    BY <1>3, <1>7, <1>9, <1>12
  <2> QED BY <2>1, <1>8, <1>10, <1>11, <1>12 DEF Grown
<1>14. Added(W, want, D)
  BY <1>8, <1>9 DEF Added
<1>15. Forest(array, E, h, want) /\ IsFiniteSet(E)
  BY <1>4
<1>16. (\E k : Forest(a, F, k, W)) /\ \A x \in F : a[x] < 0 <=> x \in D \/ array[x] < 0
  BY <1>13, <1>14, <1>15, GrownForest
<1>17. PICK k : Forest(a, F, k, W)
  BY <1>16
<1>18. PICK R : R = {x \in E : array[x] < 0}
  OBVIOUS
<1>19. {x \in F : a[x] < 0} = R \cup D
  BY <1>12, <1>16, <1>18
<1>20. IsFiniteSet(R) /\ R \cap D = {}
  <2>1. R \subseteq E
    BY <1>18
  <2> QED BY <2>1, <1>10, <1>15, FS_Subset
<1>21. Cardinality(R \cup D) = Cardinality(R) + m
  <2>1. Cardinality(R \cap D) = 0
    BY <1>20, FS_EmptySet
  <2>2. Cardinality(R \cup D) = Cardinality(R) + Cardinality(D) - Cardinality(R \cap D)
    BY <1>11, <1>20, FS_Union
  <2>3. Cardinality(R) \in Nat
    BY <1>20, FS_CardinalityType
  <2> QED BY <2>1, <2>2, <2>3, <1>7, <1>11
<1>22. numsets' = Cardinality({x \in F : a[x] < 0})
  BY <1>4, <1>8, <1>18, <1>19, <1>21
<1>23. PICK N \in 1..MaxElement : N = n + m
  BY <1>7, <1>8, <1>4
<1>24. F = 0..N - 1
  BY <1>10, <1>12, <1>23
<1> QED BY <1>5, <1>6, <1>8, <1>17, <1>22, <1>24, SetsNext

LEMMA SetsSteps == ASSUME SetsInv, Sets!Next PROVE SetsInv'
BY UnionStep, EdgeStep, FindStep, GetElementsStep, AddSetsStep, ResetStep DEF Sets!Next
-----------------------------------------------------------------------------
(* A container of any of the classes.                                      *)
ContainerInv == /\ kind \in {"list", "ring", "sets", "refs"}
                /\ kind = "list" => ListInv
                /\ kind = "ring" => RingInv
                /\ kind = "sets" => SetsInv
                /\ kind = "refs" => RefsInv

LEMMA ContainerStarts == Init => ContainerInv
<1> SUFFICES ASSUME Init PROVE ContainerInv
  OBVIOUS
<1>1. CASE kind = "list" /\ List!Init
  <2>1. ListInv
    BY <1>1, ListStarts DEF ListInv
  <2> QED BY <1>1, <2>1 DEF ContainerInv
<1>2. CASE kind = "ring" /\ Ring!Init
  <2>1. RingInv
    BY <1>2, RingStarts DEF RingInv
  <2> QED BY <1>2, <2>1 DEF ContainerInv
<1>3. CASE kind = "sets" /\ Sets!Init
  BY <1>3, SetsStarts DEF ContainerInv
<1>4. CASE kind = "refs" /\ Refs!Init
  BY <1>4, RefsStarts DEF ContainerInv
<1> QED BY <1>1, <1>2, <1>3, <1>4 DEF Init

LEMMA ContainerSteps == ContainerInv /\ [Next]_vars => ContainerInv'
<1> SUFFICES ASSUME ContainerInv, [Next]_vars PROVE ContainerInv'
  OBVIOUS
<1>1. CASE OfList(List!Next)
  <2>1. kind = "list" /\ kind' = kind /\ List!Next
    BY <1>1 DEF OfList
  <2>2. ListInv'
    BY <2>1, ListSteps DEF ContainerInv
  <2> QED BY <2>1, <2>2 DEF ContainerInv
<1>2. CASE OfRing(Ring!Next)
  <2>1. kind = "ring" /\ kind' = kind /\ Ring!Next
    BY <1>2 DEF OfRing
  <2>2. RingInv'
    BY <2>1, RingSteps DEF ContainerInv
  <2> QED BY <2>1, <2>2 DEF ContainerInv
<1>3. CASE OfSets(Sets!Next)
  <2>1. kind = "sets" /\ kind' = kind /\ Sets!Next
    BY <1>3 DEF OfSets
  <2>2. SetsInv'
    BY <2>1, SetsSteps DEF ContainerInv
  <2> QED BY <2>1, <2>2 DEF ContainerInv
<1>4. CASE OfRefs(Refs!Next)
  <2>1. kind = "refs" /\ kind' = kind /\ Refs!Next
    BY <1>4 DEF OfRefs
  <2>2. RefsInv'
    BY <2>1, RefsSteps DEF ContainerInv
  <2> QED BY <2>1, <2>2 DEF ContainerInv
<1>5. CASE UNCHANGED vars
  <2>1. UNCHANGED <<kind, want, right, length, array, ref, start, end, freelist, cur, numsets,
                    refs, alive, ptr, undefined, careless>>
    BY <1>5 DEF vars, listVars, refVars
  <2>2. ListInv => ListInv'
    BY <2>1 DEF ListInv, ListIs, Holds
  <2>3. RingInv => RingInv'
    BY <2>1 DEF RingInv, RingIs
  <2>4. SetsInv => SetsInv'
    <3> SUFFICES ASSUME SetsInv PROVE SetsInv'
      OBVIOUS
    <3>1. PICK n \in Nat : \E h : SetsIs(n, h)
      BY DEF SetsInv
    <3>2. PICK h : SetsIs(n, h)
      BY <3>1
    <3>3. PICK E : E = 0..n - 1
      OBVIOUS
    <3>4. /\ n \in 1..MaxElement /\ Forest(array, E, h, want) /\ right
          /\ numsets = Cardinality({x \in E : array[x] < 0})
      BY <3>2, <3>3, SetsShape
    <3>5. PICK a : a = array'
      OBVIOUS
    <3>6. PICK W : W = want'
      OBVIOUS
    <3>7. Forest(a, E, h, W) /\ numsets' = Cardinality({x \in E : a[x] < 0}) /\ right'
      BY <2>1, <3>4, <3>5, <3>6
    <3> QED BY <3>3, <3>4, <3>5, <3>6, <3>7, SetsNext
  <2>5. RefsInv => RefsInv'
    BY <2>1 DEF RefsInv, Refs!TypeOK, Counted, Pointing, Refs!Holder
  <2> QED BY <2>1, <2>2, <2>3, <2>4, <2>5 DEF ContainerInv
<1> QED BY <1>1, <1>2, <1>3, <1>4, <1>5 DEF Next

LEMMA ContainerWanted == ContainerInv => TypeOK /\ WellFormed /\ HoldsWhatItShould /\ SafeIfCareful
<1> SUFFICES ASSUME ContainerInv PROVE TypeOK /\ WellFormed /\ HoldsWhatItShould /\ SafeIfCareful
  OBVIOUS
<1>1. CASE kind = "list"
  <2>1. List!TypeOK /\ List!LinksAgree /\ List!Contents = want /\ right
    BY <1>1, ListWanted DEF ContainerInv, ListInv
  <2> QED BY <1>1, <2>1 DEF TypeOK, WellFormed, HoldsWhatItShould, SafeIfCareful
<1>2. CASE kind = "ring"
  <2>1. Ring!TypeOK /\ Ring!LiveWindow /\ Ring!Contents = want /\ right = TRUE
    BY <1>2, RingWanted DEF ContainerInv
  <2> QED BY <1>2, <2>1 DEF TypeOK, WellFormed, HoldsWhatItShould, SafeIfCareful
<1>3. CASE kind = "sets"
  <2>1. Sets!TypeOK /\ Sets!Weighted /\ Sets!Contents = want /\ right
    BY <1>3, SetsWanted DEF ContainerInv, SetsInv
  <2> QED BY <1>3, <2>1 DEF TypeOK, WellFormed, HoldsWhatItShould, SafeIfCareful
<1>4. CASE kind = "refs"
  <2>1. Refs!TypeOK /\ Refs!CountsExact /\ Refs!SafeIfCareful
    BY <1>4, RefsWanted DEF ContainerInv
  <2> QED BY <1>4, <2>1 DEF TypeOK, WellFormed, HoldsWhatItShould, SafeIfCareful
<1> QED BY <1>1, <1>2, <1>3, <1>4 DEF ContainerInv

LEMMA ContainersKeep == Spec => []ContainerInv
BY ContainerStarts, ContainerSteps, PTL DEF Spec

(* The state of all four classes keeps its types, for elements, objects,   *)
(* values and capacities of any number.                                    *)
THEOREM ContainersTyped == Spec => []TypeOK
BY ContainersKeep, ContainerWanted, PTL

(* The redundant parts of each class agree in every state: the list's two  *)
(* directions and its free slots (LinkedArray.h:52-85, 184-256), the ring's*)
(* window and its live cells (ArrayCircular.h:47-126), the sizes and the   *)
(* logarithmic heights of the disjoint sets (DisjointSet.h:43-87), and the *)
(* counts and the pointers they count (RefCounter.h:15-99).                *)
THEOREM ContainersWellFormed == Spec => []WellFormed
BY ContainersKeep, ContainerWanted, PTL

(* The list, the ring and the disjoint sets hold what the calls so far     *)
(* should have left in them, and every call returned what it should have.  *)
THEOREM ContainersHold == Spec => []HoldsWhatItShould
BY ContainersKeep, ContainerWanted, PTL

(* Freed memory is used only in a call whose caller kept hold of neither   *)
(* the pointer nor the object it passed (RefCounter.h:79-99), however many *)
(* objects a drop falls through.                                           *)
THEOREM CountedSafe == Spec => []SafeIfCareful
BY ContainersKeep, ContainerWanted, PTL
=============================================================================
