------------------------------ MODULE AVLTree -------------------------------
(***************************************************************************)
(* The balanced tree of include/buntils/AVLTree.h.  A tree is Nil or a     *)
(* node [key, data, left, right, balance]; keys greater than a node's are  *)
(* on its left.  The recursive functions of the code return here what they *)
(* return there, what they store through their pointers included.          *)
(***************************************************************************)
EXTENDS Integers, FiniteSets, FiniteSetsExt, TLC

CONSTANTS Key, Data, NoData, Nil

VARIABLES root,
          want,    \* history: the function from keys to data there should be
          right    \* history: every result so far was the right one

vars == <<root, want, right>>

Node(k, d) == [key |-> k, data |-> d, left |-> Nil, right |-> Nil, balance |-> 0]

\* _leftRotate and _rightRotate.
LeftRotate(n) ==
  LET r == n.right
      b == n.balance - (1 + Max({r.balance, 0}))
  IN  [r EXCEPT !.left = [n EXCEPT !.right = r.left, !.balance = b],
                !.balance = @ - (1 - Min({b, 0}))]
RightRotate(n) ==
  LET r == n.left
      b == n.balance + (1 - Min({r.balance, 0}))
  IN  [r EXCEPT !.right = [n EXCEPT !.left = r.right, !.balance = b],
                !.balance = @ + (1 + Max({b, 0}))]

\* _rebalance: the tree and whether it has become lower.
Rebalance(n) ==
  CASE n.balance < -1 ->
         IF n.left.balance = 1
         THEN [tree |-> RightRotate([n EXCEPT !.left = LeftRotate(@)]), lower |-> 1]
         ELSE [tree |-> RightRotate(n), lower |-> IF n.left.balance = 0 THEN 0 ELSE 1]
    [] n.balance > 1 ->
         IF n.right.balance = -1
         THEN [tree |-> LeftRotate([n EXCEPT !.right = RightRotate(@)]), lower |-> 1]
         ELSE [tree |-> LeftRotate(n), lower |-> IF n.right.balance = 0 THEN 0 ELSE 1]
    [] OTHER -> [tree |-> n, lower |-> 0]

\* The way back up of _insert: the child has grown by shift.
Grew(n, shift) ==
  LET m == [n EXCEPT !.balance = @ + shift]
      r == Rebalance(m)
  IN  IF shift # 0 /\ m.balance # 0 THEN [tree |-> r.tree, change |-> 1 - r.lower]
      ELSE [tree |-> m, change |-> 0]

RECURSIVE InsertIn(_, _, _)
\* _insert: done is whether it returns a node.
InsertIn(n, k, d) ==
  IF n = Nil THEN [tree |-> Node(k, d), change |-> 1, done |-> TRUE]
  ELSE IF n.key = k THEN [tree |-> n, change |-> 0, done |-> FALSE]
  ELSE LET side == IF n.key < k THEN "left" ELSE "right"
           sub == InsertIn(n[side], k, d)
           up == Grew([n EXCEPT ![side] = sub.tree],
                      IF side = "left" THEN -sub.change ELSE sub.change)
       IN  [tree |-> up.tree, change |-> up.change, done |-> sub.done]

\* The way back up of _remove: the child has shrunk by shift.
Shrank(n, shift) ==
  LET m == [n EXCEPT !.balance = @ - shift]
      r == Rebalance(m)
  IN  IF shift = 0 THEN [tree |-> m, change |-> 0]
      ELSE IF m.balance = 0 THEN [tree |-> m, change |-> 1]
      ELSE [tree |-> r.tree, change |-> r.lower]

RECURSIVE Successor(_)
Successor(n) == IF n.left = Nil THEN n ELSE Successor(n.left)

RECURSIVE RemoveFrom(_, _)
\* _remove: out is the node that it unlinks, or Nil.
RemoveFrom(n, k) ==
  IF n = Nil THEN [tree |-> Nil, change |-> 0, out |-> Nil]
  ELSE IF n.key # k THEN
    LET side == IF n.key < k THEN "left" ELSE "right"
        sub == RemoveFrom(n[side], k)
        up == Shrank([n EXCEPT ![side] = sub.tree],
                     IF side = "left" THEN -sub.change ELSE sub.change)
    IN  [tree |-> up.tree, change |-> up.change, out |-> sub.out]
  ELSE IF Nil \in {n.left, n.right} THEN
    [tree |-> IF n.left = Nil THEN n.right ELSE n.left, change |-> 1, out |-> n]
  ELSE  \* The successor's node goes; its key and data stay here, ours leave with it.
    LET s == Successor(n.right)
        sub == RemoveFrom(n.right, s.key)
        up == Shrank([n EXCEPT !.key = s.key, !.data = sub.out.data, !.right = sub.tree],
                     sub.change)
    IN  [tree |-> up.tree, change |-> up.change, out |-> [sub.out EXCEPT !.data = n.data]]

RECURSIVE SetData(_, _, _)
SetData(n, k, d) ==
  IF n.key = k THEN [n EXCEPT !.data = d]
  ELSE LET side == IF n.key < k THEN "left" ELSE "right"
       IN  [n EXCEPT ![side] = SetData(@, k, d)]
-----------------------------------------------------------------------------
Without(f, k) == [x \in DOMAIN f \ {k} |-> f[x]]

Init == root = Nil /\ want = <<>> /\ right = TRUE

\* A key that is there keeps its data, and 0 is returned.
Insert(k, d) ==
  LET r == InsertIn(root, k, d)
  IN  /\ root' = r.tree
      /\ want' = want @@ (k :> d)
      /\ right' = (right /\ (r.done <=> k \notin DOMAIN want))

Remove(k) ==
  LET r == RemoveFrom(root, k)
  IN  /\ root' = r.tree
      /\ want' = Without(want, k)
      /\ right' = (right /\ (IF k \in DOMAIN want THEN r.out.data = want[k] ELSE r.out = Nil))

\* A new key that is there already stays as it is; the data of the old one is
\* lost.  Without the old one the new one is inserted with default data.
ReplaceKey(old, new) ==
  LET o == RemoveFrom(root, old)
      n == InsertIn(o.tree, new, NoData)
      rest == Without(want, old)
  IN  /\ root' = IF o.out # Nil /\ n.done THEN SetData(n.tree, new, o.out.data) ELSE n.tree
      /\ want' = rest @@ (new :> IF old \in DOMAIN want THEN want[old] ELSE NoData)
      /\ right' = (right /\ (n.done <=> new \notin DOMAIN rest))

Clear == root' = Nil /\ want' = <<>> /\ UNCHANGED right

Next == \/ \E k \in Key, d \in Data : Insert(k, d)
        \/ \E k \in Key : Remove(k)
        \/ \E old, new \in Key : ReplaceKey(old, new)
        \/ Clear

Spec == Init /\ [][Next]_vars
-----------------------------------------------------------------------------
RECURSIVE Nodes(_), Height(_)
\* The sub-trees, root included.
Nodes(n) == IF n = Nil THEN {} ELSE {n} \cup Nodes(n.left) \cup Nodes(n.right)
Height(n) == IF n = Nil THEN 0 ELSE 1 + Max({Height(n.left), Height(n.right)})

RECURSIVE Find(_, _)
\* _find, what Get and GetRef answer with.
Find(n, k) == IF n = Nil \/ n.key = k THEN n
              ELSE Find(IF n.key < k THEN n.left ELSE n.right, k)

Contents == [k \in {j \in Key : Find(root, j) # Nil} |-> Find(root, k).data]

TypeOK == \A n \in Nodes(root) : /\ n.key \in Key /\ n.data \in Data \cup {NoData}
                                 /\ n.balance \in -1..1

\* Keys are in order and every balance is the difference of the heights.
Balanced ==
  \A n \in Nodes(root) :
    /\ \A m \in Nodes(n.left) : m.key > n.key
    /\ \A m \in Nodes(n.right) : m.key < n.key
    /\ n.balance = Height(n.right) - Height(n.left)
=============================================================================
