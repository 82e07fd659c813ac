---------------------------- MODULE LocklessQueue ---------------------------
(***************************************************************************)
(* LocklessQueue of include/buntils/LocklessQueue.h: one producer, one     *)
(* consumer, a linked list with a dummy node.  The producer owns _first    *)
(* and _last, the consumer _div; nodes from _first up to _div are garbage  *)
(* that the producer frees after a push, so that the allocator is only     *)
(* ever called by one thread.  One action per access to a shared variable. *)
(***************************************************************************)
EXTENDS Integers, Sequences, FiniteSets

CONSTANTS MaxNode,   \* bound: nodes the allocator can hand out
          MaxItem,   \* bound: items pushed, numbered in order
          Width,     \* LENGTH counts modulo this (2^w of the length type)
          Null

Node == 1..MaxNode
Item == 1..MaxItem

Assumptions == /\ MaxNode \in Nat \ {0} /\ MaxItem \in Nat /\ Width \in Nat \ {0}
               /\ Null \notin Node

VARIABLES first, div, last, \* _first, _div, _last
          next, item,       \* the fields of each node
          free,             \* the nodes the allocator owns
          length,           \* _length
          pushed,           \* the items given to Push so far
          ppc, cpc,         \* where producer and consumer are
          seen,             \* Pop's local div
          taken             \* history: the results of Pop

vars == <<first, div, last, next, item, free, length, pushed, ppc, cpc, seen, taken>>

Init == /\ first = 1 /\ div = 1 /\ last = 1
        /\ next = [n \in Node |-> Null]
        /\ item = [n \in Node |-> 0]
        /\ free = Node \ {1}
        /\ length = 0
        /\ pushed = 0
        /\ ppc = "idle" /\ cpc = "idle"
        /\ seen = Null
        /\ taken = <<>>

consumerVars == <<div, cpc, seen, taken>>
producerVars == <<first, last, next, item, free, pushed, ppc>>
-----------------------------------------------------------------------------
(* _produce                                                                *)

\* last->next points at the new node before the node is constructed.
PushLink == /\ ppc = "idle" /\ first # Null /\ pushed < MaxItem
            /\ \E n \in free : /\ free' = free \ {n}
                               /\ next' = [next EXCEPT ![last] = n]
            /\ ppc' = "construct"
            /\ UNCHANGED <<first, last, item, pushed, length, consumerVars>>

PushConstruct == /\ ppc = "construct"
                 /\ pushed' = pushed + 1
                 /\ next' = [next EXCEPT ![next[last]] = Null]
                 /\ item' = [item EXCEPT ![next[last]] = pushed']
                 /\ ppc' = "publish"
                 /\ UNCHANGED <<first, last, free, length, consumerVars>>

PushPublish == /\ ppc = "publish"
               /\ last' = next[last]
               /\ ppc' = "length"
               /\ UNCHANGED <<first, next, item, free, pushed, length, consumerVars>>

PushLength == /\ ppc = "length"
              /\ length' = (length + 1) % Width
              /\ ppc' = "collect"
              /\ UNCHANGED <<first, last, next, item, free, pushed, consumerVars>>

\* Mutation: the loop also frees the node _div points at.
BugCollect == /\ ppc = "collect"
              /\ IF first # next[div]
                 THEN /\ free' = free \cup {first}
                      /\ first' = next[first]
                      /\ UNCHANGED ppc
                 ELSE ppc' = "idle" /\ UNCHANGED <<first, free>>
              /\ UNCHANGED <<last, next, item, pushed, length, consumerVars>>

\* One turn of the loop that frees what the consumer has left behind.
Collect == /\ ppc = "collect"
           /\ IF first # div
              THEN /\ free' = free \cup {first}
                   /\ first' = next[first]
                   /\ UNCHANGED ppc
              ELSE ppc' = "idle" /\ UNCHANGED <<first, free>>
           /\ UNCHANGED <<last, next, item, pushed, length, consumerVars>>
-----------------------------------------------------------------------------
(* Pop                                                                     *)

Pop == /\ cpc = "idle" /\ first # Null
       /\ seen' = div
       /\ cpc' = "test"
       /\ UNCHANGED <<div, taken, length, producerVars>>

\* Mutation: asks whether the node has a successor, as MicroLockQueue does.
BugPopTest == /\ cpc = "test"
              /\ IF next[seen] # Null THEN cpc' = "take" /\ UNCHANGED seen
                                      ELSE cpc' = "idle" /\ seen' = Null
              /\ UNCHANGED <<div, taken, length, producerVars>>

PopTest == /\ cpc = "test"
           /\ IF seen # last THEN cpc' = "take" /\ UNCHANGED seen
                             ELSE cpc' = "idle" /\ seen' = Null
           /\ UNCHANGED <<div, taken, length, producerVars>>

\* The item is moved out, then the node it was in becomes the dummy.
PopTake == /\ cpc = "take"
           /\ taken' = Append(taken, item[next[seen]])
           /\ cpc' = "publish"
           /\ UNCHANGED <<div, seen, length, producerVars>>

PopPublish == /\ cpc = "publish"
              /\ div' = next[seen]
              /\ seen' = Null
              /\ cpc' = "length"
              /\ UNCHANGED <<taken, length, producerVars>>

PopLength == /\ cpc = "length"
             /\ length' = (length + Width - 1) % Width
             /\ cpc' = "idle"
             /\ UNCHANGED <<div, seen, taken, producerVars>>
-----------------------------------------------------------------------------
\* The nodes from p on, by links.
Follow(p) ==
  LET at[k \in 0..MaxNode] == IF k = 0 THEN p
                              ELSE IF at[k - 1] = Null THEN Null ELSE next[at[k - 1]]
  IN  at
NodesFrom(p) == {Follow(p)[k] : k \in 0..MaxNode} \ {Null}

\* The destructor, when neither thread uses the queue any more.
Destroy == /\ ppc = "idle" /\ cpc = "idle" /\ first # Null
           /\ free' = free \cup NodesFrom(first)
           /\ first' = Null /\ div' = Null /\ last' = Null
           /\ UNCHANGED <<next, item, length, pushed, ppc, cpc, seen, taken>>

Produce == PushLink \/ PushConstruct \/ PushPublish \/ PushLength \/ Collect
Consume == Pop \/ PopTest \/ PopTake \/ PopPublish \/ PopLength

Terminated == first = Null /\ UNCHANGED vars

Next == Produce \/ Consume \/ Destroy \/ Terminated

Spec == Init /\ [][Next]_vars
-----------------------------------------------------------------------------
TypeOK == /\ {first, div, last, seen} \subseteq Node \cup {Null}
          /\ next \in [Node -> Node \cup {Null}]
          /\ item \in [Node -> 0..MaxItem]
          /\ free \subseteq Node
          /\ length \in 0..(Width - 1)
          /\ pushed \in 0..MaxItem
          /\ ppc \in {"idle", "construct", "publish", "length", "collect"}
          /\ cpc \in {"idle", "test", "take", "publish", "length"}
          /\ taken \in Seq(Item)

\* How many links lead from p to last, and the nodes up to there.
Length(p) == IF p = Null THEN 0
             ELSE CHOOSE k \in 0..MaxNode : /\ Follow(p)[k] = last
                                            /\ \A j \in 0..(k - 1) : Follow(p)[j] # last
UpToLast(p) == {Follow(p)[k] : k \in 0..Length(p)}
Pushing == IF ppc \in {"construct", "publish"} THEN {next[last]} ELSE {}

\* The nodes that the next steps of producer and consumer read, link, move to or free.
ProducerUses == Pushing \cup (IF ppc \in {"idle", "construct", "publish"} THEN {last} ELSE {})
                        \cup (IF ppc = "collect" /\ first # div THEN {first} ELSE {})
ConsumerUses == IF cpc \in {"take", "publish"} THEN {seen, next[seen]} ELSE {}

\* Neither thread uses a freed node: what _div and _last lead to is live.
NoUseAfterFree ==
  first # Null => /\ ProducerUses \cup ConsumerUses \subseteq Node \ free
                  /\ last \in NodesFrom(first) /\ last \in NodesFrom(div)
                  /\ div \in UpToLast(first)
                  /\ (UpToLast(first) \cup Pushing) \cap free = {}

\* No node leaks: each is free, in the list, or on its way into it.
NoLeak == Node \ free = IF first = Null THEN {} ELSE UpToLast(first) \cup Pushing

\* The items behind _div; PopTake has already recorded the first one.
Inside ==
  LET skip == IF cpc = "publish" THEN 1 ELSE 0
  IN  [k \in 1..(Length(div) - skip) |-> item[Follow(div)[k + skip]]]

\* size() is off by the operations that have moved an item but not counted it.
LengthTracks ==
  first # Null =>
    length = (Len(Inside) + (IF cpc \in {"publish", "length"} THEN 1 ELSE 0)
              + Width - (IF ppc = "length" THEN 1 ELSE 0)) % Width
=============================================================================
