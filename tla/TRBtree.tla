------------------------------ MODULE TRBtree -------------------------------
(***************************************************************************)
(* The threaded red-black tree of TRBtree.h: nodes in a tree and in a      *)
(* list, nodes with a value that is there already in the list only.  Nodes *)
(* are numbered by their values, so the place where one is allocated is    *)
(* not a choice.  child[n][0] is left, child[n][1] is right.               *)
(***************************************************************************)
EXTENDS Integers, Sequences, FiniteSets, FiniteSetsExt

CONSTANTS Value, Copies

Seqs == INSTANCE SequencesExt

VARIABLES tree,
          want   \* history: how often each value should be there

vars == <<tree, want>>

Node == {Copies * v + c : v \in Value, c \in 0..Copies - 1}
value(n) == n \div Copies
NIL == -1
Null == 0
Lists == INSTANCE LinkedList WITH list <- tree, right <- TRUE, Item <- Value
Black == 0
Red == 1
Duplicate == -1

NewTree == [l |-> Lists!EmptyList(Node), root |-> NIL, used |-> {},
            parent |-> [n \in Node \cup {NIL} |-> Null],
            child |-> [n \in Node \cup {NIL} |-> [d \in 0..1 |-> NIL]],
            color |-> [n \in Node \cup {NIL} |-> Black]]

\* parent->children[parent->right == old] = new, or the root.
Hang(t, up, old, new) ==
  IF up = Null THEN [t EXCEPT !.root = new]
  ELSE [t EXCEPT !.child[up][IF t.child[up][1] = old THEN 1 ELSE 0] = new]

\* _leftRotate (d = 0) and _rightRotate (d = 1).
Rotate(t, n, d) ==
  LET r == t.child[n][1 - d]
      inner == t.child[r][d]
      a == [t EXCEPT !.child[n][1 - d] = inner, !.child[r][d] = n, !.parent[n] = r, !.parent[r] = t.parent[n]]
  IN  Hang(IF inner = NIL THEN a ELSE [a EXCEPT !.parent[inner] = n], t.parent[n], n, r)

\* The memory of a node that was freed.
Freed(t, n) ==
  [t EXCEPT !.used = @ \ {n}, !.color[n] = Black, !.parent[n] = Null, !.child[n] = [d \in 0..1 |-> NIL],
            !.l.next[n] = Null, !.l.prev[n] = Null]

RECURSIVE FixInsert(_, _)
FixInsert(t, n) ==
  LET p == t.parent[n]
      g == t.parent[p]
      d == IF p = t.child[g][0] THEN 0 ELSE 1
      uncle == t.child[g][1 - d]
      inner == n = t.child[p][1 - d]
      u == IF inner THEN Rotate(t, p, d) ELSE t
      m == IF inner THEN p ELSE n
      q == u.parent[m]
  IN  IF n = t.root \/ t.color[p] # Red THEN [t EXCEPT !.color[t.root] = Black]
      ELSE IF t.color[uncle] = Red
      THEN FixInsert([t EXCEPT !.color[p] = Black, !.color[uncle] = Black, !.color[g] = Red], g)
      ELSE FixInsert(Rotate([u EXCEPT !.color[q] = Black, !.color[u.parent[q]] = Red], u.parent[q], 1 - d), m)

RECURSIVE FixDelete(_, _)
FixDelete(t, n) ==
  LET p == t.parent[n]
      d == IF n = t.child[p][0] THEN 0 ELSE 1
      s == t.child[p][1 - d]
      t1 == IF t.color[s] = Red THEN Rotate([t EXCEPT !.color[s] = Black, !.color[p] = Red], p, d) ELSE t
      w == t1.child[p][1 - d]
      t2 == IF t1.color[t1.child[w][1 - d]] = Black
            THEN Rotate([t1 EXCEPT !.color[t1.child[w][d]] = Black, !.color[w] = Red], w, 1 - d) ELSE t1
      v == t2.child[p][1 - d]
      t3 == Rotate([t2 EXCEPT !.color[v] = t2.color[p], !.color[p] = Black,
                              !.color[t2.child[v][1 - d]] = Black], p, d)
  IN  IF n = t.root \/ t.color[n] # Black THEN [t EXCEPT !.color[n] = Black]
      ELSE IF t1.color[t1.child[w][0]] = Black /\ t1.color[t1.child[w][1]] = Black
      THEN FixDelete([t1 EXCEPT !.color[w] = Red], p)
      ELSE FixDelete(t3, t3.root)

\* _replaceNode: y takes the place of node in the tree.
ReplaceNode(t, node, y) ==
  LET a == [t EXCEPT !.color[y] = t.color[node], !.child[y] = t.child[node], !.parent[y] = t.parent[node]]
  IN  [Hang(a, a.parent[y], node, y) EXCEPT !.parent[t.child[node][0]] = y, !.parent[t.child[node][1]] = y]

RECURSIVE FindMin(_, _), TreeNextSub(_, _)
FindMin(t, n) == IF t.child[n][0] = NIL THEN n ELSE FindMin(t, t.child[n][0])
TreeNextSub(t, n) ==
  IF t.parent[n] # Null /\ n # t.child[t.parent[n]][0] THEN TreeNextSub(t, t.parent[n]) ELSE t.parent[n]

\* RemoveNode, and the end of the node.
RemoveNode(t, node) ==
  LET next == t.l.next[node]
      u == [t EXCEPT !.l = Lists!LLRemove(@, node)]
      y == IF t.child[node][0] # NIL /\ t.child[node][1] # NIL THEN FindMin(t, t.child[node][1]) ELSE node
      z == t.child[y][IF t.child[y][0] = NIL THEN 1 ELSE 0]
      cut == Hang([u EXCEPT !.parent[z] = t.parent[y]], t.parent[y], y, z)
      a == IF y = node THEN cut ELSE ReplaceNode(cut, node, y)
      done == IF t.color[node] = Duplicate THEN u
              ELSE IF next # Null /\ t.color[next] = Duplicate
              THEN [ReplaceNode(u, node, next) EXCEPT !.parent[NIL] = Null]
              ELSE [IF t.color[y] = Black THEN FixDelete(a, z) ELSE a EXCEPT !.parent[NIL] = Null]
  IN  Freed(done, node)

\* The way down to a value: the node where the search ends, and whether it is the value's.
RECURSIVE Down(_, _, _)
Down(t, v, cur) ==
  LET nxt == t.child[cur][IF v < value(cur) THEN 0 ELSE 1]
  IN  IF v = value(cur) \/ nxt = NIL THEN cur ELSE Down(t, v, nxt)

InsertNode(t, node) ==
  LET u == [t EXCEPT !.color[node] = Red, !.child[node] = [d \in 0..1 |-> NIL], !.used = @ \cup {node},
                     !.parent[node] = Null,
                     !.l.next[node] = Null, !.l.prev[node] = Null]
      p == Down(t, value(node), t.root)
      side == IF value(node) < value(p) THEN 0 ELSE 1
      behind == t.l.next[p] # Null /\ t.color[t.l.next[p]] = Duplicate
      after == TreeNextSub([u EXCEPT !.child[p][1] = node], p)
      linked == CASE side = 0 -> Lists!LLInsert(u.l, node, p)
                  [] side = 1 /\ ~behind -> Lists!LLInsertAfter(u.l, node, p)
                  [] side = 1 /\ behind /\ after = Null -> Lists!LLAddAfter(u.l, node)
                  [] side = 1 /\ behind /\ after # Null -> Lists!LLInsert(u.l, node, after)
  IN  IF t.root = NIL
      THEN [u EXCEPT !.root = node, !.color[node] = Black, !.parent[node] = Null, !.l.root = node, !.l.last = node]
      ELSE IF value(p) = value(node)
      THEN [u EXCEPT !.l = Lists!LLInsertAfter(@, node, p), !.color[node] = Duplicate]
      ELSE FixInsert([u EXCEPT !.parent[node] = p, !.child[p][side] = node, !.l = linked], node)

GetNode(t, v) == IF t.root = NIL THEN Null
                 ELSE LET n == Down(t, v, t.root) IN IF value(n) = v THEN n ELSE Null

\* GetNodeNear of an empty tree is NIL itself.
GetNodeNear(t, v, before) ==
  LET n == Down(t, v, t.root)
      beside == IF before THEN t.l.prev[n] ELSE t.l.next[n]
  IN  CASE t.root = NIL -> NIL
        [] t.root # NIL /\ (IF before THEN v < value(n) ELSE v > value(n)) /\ beside # Null -> beside
        [] OTHER -> n

\* DEBUGVERIFY: the black height, or -1.
RECURSIVE DEBUGVERIFY(_, _)
DEBUGVERIFY(t, n) ==
  LET kids == {t.child[n][0], t.child[n][1]}
      l == DEBUGVERIFY(t, t.child[n][0])
      r == DEBUGVERIFY(t, t.child[n][1])
  IN  IF n = NIL THEN IF t.color[NIL] = Black THEN 1 ELSE -1
      ELSE IF \/ t.color[n] = Red /\ \E k \in kids : t.color[k] # Black
              \/ \E k \in kids \ {NIL} : t.parent[k] # n
              \/ t.l.next[n] # Null /\ t.l.prev[t.l.next[n]] # n
              \/ t.l.prev[n] # Null /\ t.l.next[t.l.prev[n]] # n
              \/ l < 0 \/ r < 0 \/ l # r
      THEN -1 ELSE l + (IF t.color[n] = Black THEN 1 ELSE 0)
-----------------------------------------------------------------------------
Init == tree = NewTree /\ want = [v \in Value |-> 0]

Insert(v) ==
  LET free == {n \in Node \ tree.used : value(n) = v}
  IN  /\ free # {} /\ tree' = InsertNode(tree, Min(free)) /\ want' = [want EXCEPT ![v] = @ + 1]

RemoveValue(v) ==
  LET n == GetNode(tree, v)
  IN  /\ tree' = IF n = Null THEN tree ELSE RemoveNode(tree, n)
      /\ want' = IF want[v] = 0 THEN want ELSE [want EXCEPT ![v] = @ - 1]

Remove(n) == tree' = RemoveNode(tree, n) /\ want' = [want EXCEPT ![value(n)] = @ - 1]

\* Clear walks the list and frees what it meets.
Clear == /\ LET walk == Lists!Forth(tree.l, tree.l.root)
            IN  tree' = [Seqs!FoldLeft(Freed, tree, walk) EXCEPT !.root = NIL, !.l.root = Null, !.l.last = Null]
         /\ want' = [v \in Value |-> 0]

Next == \/ \E v \in Value : Insert(v) \/ RemoveValue(v)
        \/ \E n \in tree.used : Remove(n)
        \/ Clear

Spec == Init /\ [][Next]_vars
-----------------------------------------------------------------------------
Listed == Lists!Forth(tree.l, tree.l.root)
Contents == [v \in Value |-> Cardinality({i \in DOMAIN Listed : value(Listed[i]) = v})]

\* The tree is red-black and NIL is as it was made; the list is in order, from the
\* first node of the tree to the last, each node of the tree before its duplicates.
WellFormed ==
  /\ DEBUGVERIFY(tree, tree.root) > 0 /\ tree.color[tree.root] = Black
  /\ tree.parent[NIL] = Null /\ tree.child[NIL] = [d \in 0..1 |-> NIL]
  /\ Lists!Back(tree.l, tree.l.last) = Listed
  /\ tree.used = {Listed[i] : i \in DOMAIN Listed} /\ Len(Listed) = Cardinality(tree.used)
  /\ \A i \in 1..Len(Listed) - 1 :
       IF tree.color[Listed[i + 1]] = Duplicate THEN value(Listed[i]) = value(Listed[i + 1])
       ELSE value(Listed[i]) < value(Listed[i + 1])

\* Every value that is there is found; without duplicates the nearest one on the side
\* that was asked for is found, if there is one on that side.
Finds ==
  \A v \in Value :
    /\ LET n == GetNode(tree, v) IN IF want[v] = 0 THEN n = Null ELSE value(n) = v
    /\ LET below == {x \in Value : want[x] > 0 /\ x <= v}
           above == {x \in Value : want[x] > 0 /\ x >= v}
       IN  /\ below # {} => value(GetNodeNear(tree, v, TRUE)) = Max(below)
           /\ above # {} /\ (\A x \in Value : want[x] <= 1) => value(GetNodeNear(tree, v, FALSE)) = Min(above)
=============================================================================
