----------------------------- MODULE LinkedList -----------------------------
(***************************************************************************)
(* The doubly linked lists of LLBase.h, where a list is its two ends and   *)
(* its links, and LinkedList.h over them: a list that keeps its first node *)
(* only, one that keeps both ends, and an intrusive list whose owner calls *)
(* the functions of LLBase.h itself.  A list that keeps no last node       *)
(* leaves last alone.  An overload without an end is the same operation    *)
(* away from that end.                                                     *)
(***************************************************************************)
EXTENDS Integers, Sequences, FiniteSets, FiniteSetsExt

CONSTANTS Node, Item

Seqs == INSTANCE SequencesExt

VARIABLES list,
          want,   \* history: the items in order
          right   \* history: every result so far was the right one

vars == <<list, want, right>>

Null == 0
EmptyList(nodes) == [root |-> Null, last |-> Null,
                     next |-> [n \in nodes |-> Null], prev |-> [n \in nodes |-> Null]]
\* p->link = v where p may be null.
Link(f, p, v) == IF p = Null THEN f ELSE [f EXCEPT ![p] = v]

LLInsert(l, node, target) ==
  LET p == l.prev[target]
  IN  [l EXCEPT !.prev = [@ EXCEPT ![node] = p, ![target] = node],
                !.next = Link([@ EXCEPT ![node] = target], p, node),
                !.root = IF p = Null THEN node ELSE @]

LLAdd(l, node) ==
  [l EXCEPT !.prev = Link([@ EXCEPT ![node] = Null], l.root, node), !.next[node] = l.root,
            !.root = node]
LLAddBoth(l, node) == [LLAdd(l, node) EXCEPT !.last = IF l.root = Null THEN node ELSE @]

LLInsertAfter(l, node, target) ==
  LET n == l.next[target]
  IN  [l EXCEPT !.next = [@ EXCEPT ![node] = n, ![target] = node],
                !.prev = Link([@ EXCEPT ![node] = target], n, node),
                !.last = IF n = Null THEN node ELSE @]

\* Both forms: the one that is given only the last node needs a list that has one.
LLAddAfter(l, node) ==
  [l EXCEPT !.next = Link([@ EXCEPT ![node] = Null], l.last, node), !.prev[node] = l.last,
            !.root = IF l.last = Null THEN node ELSE @, !.last = node]

LLRemove(l, node) ==
  LET p == l.prev[node]
      n == l.next[node]
  IN  [l EXCEPT !.next = Link(@, p, n), !.prev = Link(@, n, p),
                !.root = IF p = Null /\ @ = node THEN n ELSE @,
                !.last = IF n = Null /\ @ = node THEN p ELSE @]

\* LLIterator, from a node on and back.
RECURSIVE Forth(_, _), Back(_, _)
Forth(l, n) == IF n = Null THEN <<>> ELSE <<n>> \o Forth(l, l.next[n])
Back(l, n) == IF n = Null THEN <<>> ELSE Append(Back(l, l.prev[n]), n)

\* The links of both directions agree from root to last.
Chained(l) ==
  LET walk == Forth(l, l.root)
  IN  /\ l.root # Null => l.prev[l.root] = Null
      /\ \A i \in 1..Len(walk) - 1 : l.prev[walk[i + 1]] = walk[i]
-----------------------------------------------------------------------------

New(useLast, own) == [l |-> EmptyList(Node), item |-> [n \in Node |-> Null], used |-> {}, size |-> 0,
                      useLast |-> useLast, own |-> own]
Free(s) == Node \ s.used
Fresh(s) == Min(Free(s))
\* A new node: its links are set by what follows.
Created(s, x) == [s EXCEPT !.item[Fresh(s)] = x, !.used = @ \cup {Fresh(s)}, !.size = @ + 1]

\* _add goes to the end of a list that knows its end, and to the front of one that does not.
Added(s, x) ==
  [Created(s, x) EXCEPT !.l = IF s.useLast THEN LLAddAfter(@, Fresh(s)) ELSE LLAdd(@, Fresh(s))]
Inserted(s, x, target) ==
  IF target = Null THEN Added(s, x)
  ELSE [Created(s, x) EXCEPT !.l = LLInsert(@, Fresh(s), target)]
Removed(s, node) == \* the links and the item of a freed node are gone
  [s EXCEPT !.l = [LLRemove(@, node) EXCEPT !.next[node] = Null, !.prev[node] = Null],
            !.item[node] = Null, !.used = @ \ {node}, !.size = @ - 1]
Cleared(s) == New(s.useLast, s.own)
\* operator+= of a list with these items in its order.
Plus(s, items) == Seqs!FoldLeft(Added, s, items)

\* LList_LAST::Item goes round from a node until it is back there.
RECURSIVE Round(_, _, _, _)
Round(x, cur, from, backwards) ==
  LET on == IF backwards THEN list.l.prev[cur] ELSE list.l.next[cur]
      nxt == IF on # Null THEN on ELSE IF backwards THEN list.l.last ELSE list.l.root
  IN  CASE list.item[cur] = x -> cur
        [] list.item[cur] # x /\ nxt = from -> Null
        [] OTHER -> Round(x, nxt, from, backwards)
Find(x, from, backwards) ==
  LET start == IF from = Null THEN list.l.root ELSE from IN Round(x, start, start, backwards)

Nodes == Forth(list.l, list.l.root)
Place(node) == CHOOSE i \in DOMAIN Nodes : Nodes[i] = node
-----------------------------------------------------------------------------
Init == /\ \E useLast, own \in BOOLEAN : (own => useLast) /\ list = New(useLast, own)
        /\ want = <<>> /\ right = TRUE

Add(x) ==
  /\ ~list.own /\ Free(list) # {} /\ list' = Added(list, x)
  /\ want' = IF list.useLast THEN Append(want, x) ELSE <<x>> \o want
  /\ UNCHANGED right

Insert(x, target) ==
  /\ ~list.own /\ Free(list) # {} /\ target # Null /\ list' = Inserted(list, x, target)
  /\ want' = Seqs!InsertAt(want, Place(target), x)
  /\ UNCHANGED right

\* Insert(item): before the root.
InsertFront(x) ==
  /\ ~list.own /\ Free(list) # {} /\ list' = Inserted(list, x, list.l.root)
  /\ want' = <<x>> \o want /\ UNCHANGED right

\* Remove returns the neighbour an iteration goes on with.
Remove(node, backwards) ==
  LET i == Place(node)
      ret == IF backwards THEN list.l.prev[node] ELSE list.l.next[node]
      next == IF backwards THEN i - 1 ELSE i + 1
  IN  /\ ~list.own /\ list' = Removed(list, node)
      /\ want' = Seqs!RemoveAt(want, i)
      /\ right' = (right /\ ret = IF next \in DOMAIN Nodes THEN Nodes[next] ELSE Null)

Clear == ~list.own /\ list' = Cleared(list) /\ want' = <<>> /\ UNCHANGED right

\* The list becomes a copy of itself: one without a last node is turned round.
Assign ==
  /\ ~list.own /\ list' = Plus(Cleared(list), want)
  /\ want' = IF list.useLast THEN want ELSE Seqs!Reverse(want)
  /\ UNCHANGED right

\* The owner of an intrusive list.
OwnAdd(x) ==
  /\ list.own /\ Free(list) # {}
  /\ \/ list' = [Created(list, x) EXCEPT !.l = LLAddBoth(@, Fresh(list))] /\ want' = <<x>> \o want
     \/ list' = [Created(list, x) EXCEPT !.l = LLAddAfter(@, Fresh(list))] /\ want' = Append(want, x)
  /\ UNCHANGED right
OwnInsert(x, node) ==
  /\ list.own /\ Free(list) # {}
  /\ \/ /\ list' = [Created(list, x) EXCEPT !.l = LLInsert(@, Fresh(list), node)]
        /\ want' = Seqs!InsertAt(want, Place(node), x)
     \/ /\ list' = [Created(list, x) EXCEPT !.l = LLInsertAfter(@, Fresh(list), node)]
        /\ want' = Seqs!InsertAt(want, Place(node) + 1, x)
  /\ UNCHANGED right
OwnRemove(node) == /\ list.own /\ list' = Removed(list, node)
                   /\ want' = Seqs!RemoveAt(want, Place(node)) /\ UNCHANGED right

Next == \/ \E x \in Item : Add(x) \/ InsertFront(x) \/ OwnAdd(x)
        \/ \E x \in Item, n \in list.used : Insert(x, n) \/ OwnInsert(x, n)
        \/ \E n \in list.used : OwnRemove(n) \/ \E backwards \in BOOLEAN : Remove(n, backwards)
        \/ Clear \/ Assign

Spec == Init /\ [][Next]_vars
-----------------------------------------------------------------------------
Contents == [i \in DOMAIN Nodes |-> list.item[Nodes[i]]]

\* The links agree in both directions, the ends and the length are the list's, and a
\* search from any node, either way, finds an item exactly when it is there.
WellFormed ==
  /\ Chained(list.l) /\ list.size = Len(Nodes) /\ list.used = {Nodes[i] : i \in DOMAIN Nodes}
  /\ list.useLast => Back(list.l, list.l.last) = Nodes
  /\ \A x \in Item, from \in list.used, backwards \in {FALSE, list.useLast} :
       LET n == Find(x, from, backwards)
       IN  IF \E i \in DOMAIN want : want[i] = x THEN n # Null /\ list.item[n] = x ELSE n = Null
=============================================================================
