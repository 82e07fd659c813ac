-------------------------------- MODULE Hash --------------------------------
(***************************************************************************)
(* The open-addressing hash table of include/buntils/Hash.h, a port of     *)
(* khash: triangular probing, deletion by a mark, and a rehash in place    *)
(* that kicks out what it meets.  A cell stands for keys[i], vals[i] and   *)
(* flags[i]: Empty, Deleted, or a pair.  Allocation does not fail.         *)
(***************************************************************************)
EXTENDS Integers, FiniteSets, FiniteSetsExt, TLC

CONSTANTS Key, Data, MaxBuckets, Empty, Deleted, HashFunc(_)

Seqs == INSTANCE SequencesExt

VARIABLES table,
          want,    \* history: the function from keys to data there should be
          right    \* history: every result so far was the right one

vars == <<table, want, right>>

Pair(k, d) == [key |-> k, val |-> d]
Full(c) == c \notin {Empty, Deleted}

\* An unallocated table, and what kroundup32 and the load factor give.
NoTable == [n |-> 0, cells |-> <<>>, sz |-> 0, occupied |-> 0, upper |-> 0]
RoundUp(n) == Min({m \in {2^e : e \in 0..10} : m >= n})
Buckets(n) == IF RoundUp(n) < 4 THEN 32 ELSE RoundUp(n)
Upper(n) == (77 * n + 50) \div 100

\* The cells a search for k visits, from its hash by growing steps until it is
\* back where it began.
Probe(n, k) == [s \in 0..n - 1 |-> (HashFunc(k) + (s * (s + 1)) \div 2) % n]

\* The kick-out loop of _resize: new and old share their arrays.
RECURSIVE Place(_, _)
Place(s, p) ==
  LET n == Cardinality(DOMAIN s.new)
      at == Probe(n, p.key)[Min({j \in 0..n - 1 : s.new[Probe(n, p.key)[j]] = Empty})]
      put == [s EXCEPT !.new[at] = p]
  IN  IF at \in DOMAIN s.old /\ Full(s.old[at])
      THEN Place([put EXCEPT !.old[at] = Deleted], s.old[at])
      ELSE put

Rehash(old, n) ==
  Seqs!FoldLeft(LAMBDA s, j : IF j \in DOMAIN s.old /\ Full(s.old[j])
                         THEN Place([s EXCEPT !.old[j] = Deleted], s.old[j]) ELSE s,
           [old |-> old, new |-> [i \in 0..n - 1 |-> Empty]],
           [j \in 1..Cardinality(DOMAIN old) |-> j - 1]).new

\* _resize.
Resize(t, size) ==
  LET n == Buckets(size)
  IN  IF t.sz >= Upper(n) THEN t
      ELSE [t EXCEPT !.n = n, !.cells = Rehash(@, n), !.occupied = t.sz, !.upper = Upper(n)]

\* _get: t.n stands for a key that is not there.
Find(t, k) ==
  IF t.n = 0 THEN 0
  ELSE LET probe == Probe(t.n, k)
           stop == {s \in 0..t.n - 1 : \/ t.cells[probe[s]] = Empty
                                       \/ Full(t.cells[probe[s]]) /\ t.cells[probe[s]].key = k}
           at == probe[Min(stop)]
       IN  IF stop = {} \/ ~Full(t.cells[at]) THEN t.n ELSE at

Exists(t, i) == i < t.n /\ Full(t.cells[i])

\* Mutation: _put takes the deleted cell without looking further for the key.
BugSlot(t, k) ==
  LET probe == Probe(t.n, k)
  IN  probe[Min({s \in 0..t.n - 1 : \/ ~Full(t.cells[probe[s]])
                                    \/ t.cells[probe[s]].key = k})]

\* The search of _put: where k is, else the last deleted cell on the way to an
\* empty one, else that empty one.
Slot(t, k) ==
  LET probe == Probe(t.n, k)
      stop == Min({s \in 0..t.n - 1 : \/ t.cells[probe[s]] = Empty
                                      \/ Full(t.cells[probe[s]]) /\ t.cells[probe[s]].key = k})
      marks == {s \in 0..stop : t.cells[probe[s]] = Deleted}
  IN  IF t.cells[probe[stop]] = Empty /\ marks # {} THEN probe[Max(marks)] ELSE probe[stop]

\* _put and _insert: a full table is rehashed first, in the same size when more
\* than half of it is marks.
Put(t, k, d) ==
  LET u == IF t.occupied < t.upper THEN t
           ELSE Resize(t, IF t.n > 2 * t.sz THEN t.n - 1 ELSE t.n + 1)
      x == Slot(u, k)
      v == [u EXCEPT !.cells[x] = Pair(k, d)]
  IN  CASE u.cells[x] = Empty -> [v EXCEPT !.sz = @ + 1, !.occupied = @ + 1]
        [] u.cells[x] = Deleted -> [v EXCEPT !.sz = @ + 1]
        [] OTHER -> v

\* _delete.
Erase(t, i) == [t EXCEPT !.cells[i] = Deleted, !.sz = @ - 1]

\* Clear keeps the arrays.
Cleared(t) == [t EXCEPT !.cells = [i \in DOMAIN @ |-> Empty], !.sz = 0, !.occupied = 0]

\* _docopy into a table that is empty.
DoCopy(t, copy) ==
  LET u == Resize(t, copy.n)
  IN  [u EXCEPT !.cells = copy.cells,
                !.sz = copy.sz, !.occupied = copy.occupied, !.upper = copy.upper]
Assigned(t, copy) == IF copy.n = 0 THEN NoTable ELSE DoCopy(Cleared(t), copy)

\* HashIterator: _next from a cell on, and operator--.
Forward(t, i) == Min({j \in i..t.n : j = t.n \/ Full(t.cells[j])})
Backward(t, i) == LET before == {j \in 0..i - 1 : Full(t.cells[j])}
                  IN  IF before = {} THEN t.n ELSE Max(before)
-----------------------------------------------------------------------------
Without(f, k) == [x \in DOMAIN f \ {k} |-> f[x]]

Init == /\ \E size \in {0, 4} : table = IF size = 0 THEN NoTable ELSE Resize(NoTable, size)
        /\ want = <<>> /\ right = TRUE

Insert(k, d) ==
  /\ table.occupied < table.upper \/ 2 * table.n <= MaxBuckets \/ table.n > 2 * table.sz
  /\ table' = Put(table, k, d)
  /\ want' = (k :> d) @@ want
  /\ right' = (right /\ Find(table', k) < table'.n)

\* Remove by key, and by an iterator.
Remove(k) ==
  LET i == Find(table, k)
  IN  /\ table' = IF i = table.n THEN table ELSE Erase(table, i)
      /\ want' = Without(want, k)
      /\ right' = (right /\ (i < table.n <=> k \in DOMAIN want))

RemoveIter(i) ==
  /\ table' = IF Exists(table, i) THEN Erase(table, i) ELSE table
  /\ want' = IF Exists(table, i) THEN Without(want, table.cells[i].key) ELSE want
  /\ UNCHANGED right

\* Set changes the data of a key that is there, and nothing else.
Set(k, d) ==
  LET i == Find(table, k)
  IN  /\ table' = IF Exists(table, i) THEN [table EXCEPT !.cells[i].val = d] ELSE table
      /\ want' = [x \in DOMAIN want |-> IF x = k THEN d ELSE want[x]]
      /\ right' = (right /\ (Exists(table, i) <=> k \in DOMAIN want))

SetCapacity(size) ==
  /\ table' = IF table.n < size THEN Resize(table, size) ELSE table
  /\ UNCHANGED <<want, right>>

Clear == table' = Cleared(table) /\ want' = <<>> /\ UNCHANGED right

\* The table becomes a copy of itself in another one that had size buckets.
Assign(size) ==
  /\ table' = Assigned(IF size = 0 THEN NoTable ELSE Resize(NoTable, size), table)
  /\ UNCHANGED <<want, right>>

Next == \/ \E k \in Key, d \in Data : Insert(k, d) \/ Set(k, d)
        \/ \E k \in Key : Remove(k)
        \/ \E i \in 0..table.n : RemoveIter(i)
        \/ \E size \in {0, 4, 8} : SetCapacity(size) \/ Assign(size)
        \/ Clear

Spec == Init /\ [][Next]_vars
-----------------------------------------------------------------------------
\* What Get answers for every key, and what an iteration meets, either way.
Contents == [k \in {j \in Key : Exists(table, Find(table, j))} |->
               table.cells[Find(table, k)].val]

RECURSIVE Walk(_)
Walk(i) == IF i = table.n THEN {} ELSE {i} \cup Walk(Forward(table, i + 1))
RECURSIVE WalkBack(_)
WalkBack(i) == LET j == Backward(table, i) IN IF j = table.n THEN {} ELSE {j} \cup WalkBack(j)

Iterates == LET met == {table.cells[i] : i \in Walk(Forward(table, 0))}
            IN  /\ met = {Pair(k, want[k]) : k \in DOMAIN want}
                /\ Walk(Forward(table, 0)) = WalkBack(table.n)

\* A key is in at most one cell, the counts are those of the cells, and there is
\* always an empty cell for a search to end at.
WellFormed ==
  LET full == {i \in DOMAIN table.cells : Full(table.cells[i])}
  IN  /\ \A i, j \in full : table.cells[i].key = table.cells[j].key => i = j
      /\ table.sz = Cardinality(full)
      /\ table.occupied = Cardinality({i \in DOMAIN table.cells : table.cells[i] # Empty})
      /\ table.n > 0 => table.occupied <= table.upper /\ table.upper < table.n
=============================================================================
