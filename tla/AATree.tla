------------------------------- MODULE AATree -------------------------------
(***************************************************************************)
(* The tree of include/buntils/AATree.h, node by node: it may hold a key   *)
(* several times, its leaves share one sentinel, and _remove keeps a       *)
(* pointer in the object that one call leaves for the next.                *)
(***************************************************************************)
EXTENDS Integers, Sequences, FiniteSets, FiniteSetsExt, TLC

CONSTANTS Key, MaxNode, Unset

VARIABLES nodes,     \* the allocated nodes; node 0 is the sentinel
          root, deleted,
          wild,      \* history: a pointer nobody set was followed
          want,      \* history: how often each key should be there
          right      \* history: every result so far was the right one

vars == <<nodes, root, deleted, wild, want, right>>

Seqs == INSTANCE SequencesExt

Sentinel == 0
Freed == -1   \* where a pointer to a node that is gone leads
Leaf(k) == [level |-> 1, left |-> Sentinel, right |-> Sentinel, data |-> k]

(* The functions of the code take a reference to a pointer: the root or a  *)
(* field of a node.  They work on s, a record of the tree's own fields.    *)
Root == [node |-> Unset, side |-> "root"]
Field(n, side) == [node |-> n, side |-> side]
At(s, p) == IF p = Root THEN s.root ELSE s.nodes[p.node][p.side]
Put(s, p, n) == IF p = Root THEN [s EXCEPT !.root = n]
                            ELSE [s EXCEPT !.nodes[p.node][p.side] = n]
Level(s, n) == s.nodes[n].level

Skew(s, p) ==
  LET n == At(s, p)
      l == s.nodes[n].left
  IN  IF Level(s, n) # Level(s, l) THEN s
      ELSE Put([s EXCEPT !.nodes[n].left = s.nodes[l].right, !.nodes[l].right = n], p, l)

Split(s, p) ==
  LET n == At(s, p)
      r == s.nodes[n].right
  IN  IF Level(s, s.nodes[r].right) # Level(s, n) THEN s
      ELSE Put([s EXCEPT !.nodes[n].right = s.nodes[r].left, !.nodes[r].left = n,
                         !.nodes[r].level = @ + 1], p, r)

SkewRight(s, p) == Skew(s, Field(At(s, p), "right"))
SkewRightRight(s, p) == SkewRight(s, Field(At(s, p), "right"))
SplitRight(s, p) == Split(s, Field(At(s, p), "right"))

RECURSIVE InsertInto(_, _, _)
\* _insert
InsertInto(s, p, k) ==
  LET n == At(s, p)
      new == Min((1..MaxNode) \ DOMAIN s.nodes)
      side == IF k < s.nodes[n].data THEN "left" ELSE "right"
  IN  IF n = Sentinel THEN Put([s EXCEPT !.nodes = @ @@ (new :> Leaf(k))], p, new)
      ELSE Split(Skew(InsertInto(s, Field(n, side), k), p), p)

\* _remove's way back up through a node whose child has become too low.
Lower(s, p) ==
  LET n == At(s, p)
      r == s.nodes[n].right
      to == Level(s, n) - 1
      s1 == [s EXCEPT !.nodes[n].level = to, !.nodes[r].level = Min({@, to})]
      s2 == SkewRightRight(SkewRight(Skew(s1, p), p), p)
  IN  SplitRight(Split(s2, p), p)

RECURSIVE RemoveFrom(_, _, _)
\* _remove: s.found is its result, s.wild whether it follows an unset _deleted.
RemoveFrom(s, p, k) ==
  LET n == At(s, p)
      less == k < s.nodes[n].data
      sub == RemoveFrom([s EXCEPT !.last = n, !.deleted = IF less THEN @ ELSE n],
                      Field(n, IF less THEN "left" ELSE "right"), k)
      node == sub.nodes[n]
  IN  IF n = Sentinel THEN s
      ELSE IF n = sub.last /\ sub.deleted = Unset THEN [sub EXCEPT !.wild = TRUE]
      ELSE IF n = sub.last /\ sub.deleted # Sentinel /\ sub.nodes[sub.deleted].data = k THEN
        LET moved == Put([sub EXCEPT !.nodes[sub.deleted].data = node.data], p, node.right)
        IN  [moved EXCEPT !.nodes = [m \in DOMAIN @ \ {n} |-> @[m]],
                          !.deleted = Sentinel, !.last = Sentinel, !.found = TRUE]
      ELSE IF \E c \in {node.left, node.right} : Level(sub, c) < node.level - 1
           THEN Lower(sub, p)
      ELSE sub

\* _last is always set before it is read, so it need not be kept between calls.
Tree == [nodes |-> nodes, root |-> root, deleted |-> deleted, last |-> Unset,
         wild |-> FALSE, found |-> FALSE]
-----------------------------------------------------------------------------
Usable == ~wild /\ root \in DOMAIN nodes

RECURSIVE InOrder(_, _)
InOrder(s, n) == IF n = Sentinel THEN <<>>
                 ELSE InOrder(s, s.nodes[n].left) \o <<n>> \o InOrder(s, s.nodes[n].right)

\* The addresses of nodes mean nothing, so that each operation may number them
\* anew, in order, a lost one last.
Becomes(s) ==
  LET tree == InOrder(s, s.root)
      lost == DOMAIN s.nodes \ ({Sentinel} \cup Seqs!ToSet(tree))
      order == tree \o Seqs!SetToSeq(lost)
      name(n) == CASE n \in {Sentinel, Unset} -> n
                   [] n \in DOMAIN s.nodes -> CHOOSE i \in DOMAIN order : order[i] = n
                   [] OTHER -> Freed
      renamed(i) == LET node == s.nodes[IF i = Sentinel THEN i ELSE order[i]]
                    IN  [node EXCEPT !.left = name(@), !.right = name(@)]
  IN  /\ nodes' = [i \in 0..Len(order) |-> renamed(i)]
      /\ root' = name(s.root) /\ deleted' = name(s.deleted)

Init == /\ nodes = (Sentinel :> [Leaf(Unset) EXCEPT !.level = 0])
        /\ root = Sentinel /\ deleted = Unset
        /\ wild = FALSE /\ want = [k \in Key |-> 0] /\ right = TRUE

Insert(k) ==
  /\ Usable /\ Cardinality(DOMAIN nodes) <= MaxNode
  /\ Becomes(InsertInto(Tree, Root, k))
  /\ want' = [want EXCEPT ![k] = @ + 1]
  /\ UNCHANGED <<wild, right>>

Remove(k) ==
  /\ Usable
  /\ LET s == RemoveFrom(Tree, Root, k)
     IN  \/ /\ ~s.wild
            /\ Becomes(s)
            /\ right' = (right /\ (s.found <=> want[k] > 0))
            /\ want' = [want EXCEPT ![k] = Max({@ - 1, 0})]
            /\ UNCHANGED wild
         \/ /\ s.wild
            /\ wild' = TRUE
            /\ UNCHANGED <<nodes, root, deleted, want, right>>

\* Clear frees the nodes and leaves _root as it is: only the destructor can follow.
Clear == /\ Usable
         /\ nodes' = [n \in {Sentinel} |-> nodes[n]]
         /\ want' = [k \in Key |-> 0]
         /\ UNCHANGED <<root, deleted, wild, right>>

Terminated == ~Usable /\ UNCHANGED vars

Next == \/ \E k \in Key : Insert(k) \/ Remove(k)
        \/ Clear \/ Terminated

Spec == Init /\ [][Next]_vars
-----------------------------------------------------------------------------
RECURSIVE Below(_)
\* The nodes of the tree that hangs from n.
Below(n) == IF n \notin DOMAIN nodes \/ n = Sentinel THEN {}
            ELSE {n} \cup Below(nodes[n].left) \cup Below(nodes[n].right)

Contents == [k \in Key |-> Cardinality({n \in Below(root) : nodes[n].data = k})]

TypeOK == /\ \A n \in DOMAIN nodes \ {Sentinel} :
               /\ n \in 1..MaxNode /\ nodes[n].data \in Key
               /\ {nodes[n].left, nodes[n].right} \subseteq DOMAIN nodes
          /\ {root, deleted} \subseteq 0..MaxNode \cup {Unset, Freed}

\* Ordered, no node lost, the sentinel intact, the levels those of an AA tree, and what
\* one _remove leaves in _deleted for the next not a node that is gone.
Levelled ==
  /\ {root, deleted} \subseteq DOMAIN nodes \cup {Unset}
  /\ Below(root) = DOMAIN nodes \ {Sentinel}
  /\ nodes[Sentinel] = [Leaf(Unset) EXCEPT !.level = 0]
  /\ \A n \in Below(root) :
       LET node == nodes[n]
           level(m) == nodes[m].level
       IN  /\ \A m \in Below(node.left) : nodes[m].data <= node.data
           /\ \A m \in Below(node.right) : nodes[m].data >= node.data
           /\ level(node.left) = node.level - 1
           /\ level(node.right) \in {node.level - 1, node.level}
           /\ level(nodes[node.right].right) < node.level
=============================================================================
