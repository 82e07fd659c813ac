--------------------------- MODULE MicroLockQueue ---------------------------
(***************************************************************************)
(* MicroLockQueue of include/buntils/LocklessQueue.h: any number of        *)
(* producers and consumers on a linked list with a dummy node.  Producers  *)
(* take turns by the spin flag _pflag and consumers by _cflag; the two     *)
(* sides are kept apart only by the dummy node.  A consumer first looks at *)
(* the queue without the flag, at a node another consumer may have freed.  *)
(* One action per access to shared memory.                                 *)
(***************************************************************************)
EXTENDS Integers, Sequences, FiniteSets

CONSTANTS Thread,
          MaxNode,   \* bound: nodes the allocator can hand out
          MaxItem,   \* bound: items pushed, numbered as they are
          Width,     \* LENGTH counts modulo this (2^w of the length type)
          Null,
          Nobody     \* a spin flag that is clear

Node == 1..MaxNode
Item == 1..MaxItem

Assumptions == /\ MaxNode \in Nat \ {0} /\ MaxItem \in Nat /\ Width \in Nat \ {0}
               /\ Null \notin Node /\ Nobody \notin Thread /\ IsFiniteSet(Thread)

VARIABLES div, last,      \* _div, _last
          next, item,     \* the fields of each node
          free,           \* the nodes the allocator owns
          pflag, cflag,   \* _pflag, _cflag: the thread that set it, or Nobody
          length,         \* _length
          pushed,         \* the items given to Push so far
          pc,
          node,           \* _produce's nval; Pop's unlocked _div, later ref
          taken           \* history: the results of Pop in the order of _div

vars == <<div, last, next, item, free, pflag, cflag, length, pushed, pc, node, taken>>

Init == /\ div = 1 /\ last = 1
        /\ next = [n \in Node |-> Null]
        /\ item = [n \in Node |-> 0]
        /\ free = Node \ {1}
        /\ pflag = Nobody /\ cflag = Nobody
        /\ length = 0
        /\ pushed = 0
        /\ pc = [t \in Thread |-> "idle"]
        /\ node = [t \in Thread |-> Null]
        /\ taken = <<>>

Go(t, from, to) == pc[t] = from /\ pc' = [pc EXCEPT ![t] = to]
-----------------------------------------------------------------------------
(* _produce                                                                *)

\* Allocate and construct the node: nobody else knows it yet.
Push(t) == /\ Go(t, "idle", "p_flag")
           /\ div # Null /\ pushed < MaxItem
           /\ pushed' = pushed + 1
           /\ \E n \in free : /\ free' = free \ {n}
                              /\ next' = [next EXCEPT ![n] = Null]
                              /\ item' = [item EXCEPT ![n] = pushed']
                              /\ node' = [node EXCEPT ![t] = n]
           /\ UNCHANGED <<div, last, pflag, cflag, length, taken>>

PushFlag(t) == /\ Go(t, "p_flag", "p_link")
               /\ pflag = Nobody
               /\ pflag' = t
               /\ UNCHANGED <<div, last, next, item, free, cflag, length, pushed, node, taken>>

PushLink(t) == /\ Go(t, "p_link", "p_last")
               /\ next' = [next EXCEPT ![last] = node[t]]
               /\ UNCHANGED <<div, last, item, free, pflag, cflag, length, pushed, node, taken>>

PushLast(t) == /\ Go(t, "p_last", "p_clear")
               /\ last' = node[t]
               /\ node' = [node EXCEPT ![t] = Null]
               /\ UNCHANGED <<div, next, item, free, pflag, cflag, length, pushed, taken>>

PushClear(t) == /\ Go(t, "p_clear", "p_length")
                /\ pflag' = Nobody
                /\ UNCHANGED <<div, last, next, item, free, cflag, length, pushed, node, taken>>

\* Mutation: a push does not count.
BugPushLength(t) ==
  /\ Go(t, "p_length", "idle")
  /\ UNCHANGED <<div, last, next, item, free, pflag, cflag, length, pushed, node, taken>>

PushLength(t) == /\ Go(t, "p_length", "idle")
                 /\ length' = (length + 1) % Width
                 /\ UNCHANGED <<div, last, next, item, free, pflag, cflag, pushed, node, taken>>
-----------------------------------------------------------------------------
(* Pop                                                                     *)

\* The unlocked look: first at _div ...
Pop(t) == /\ Go(t, "idle", "c_look")
          /\ div # Null
          /\ node' = [node EXCEPT ![t] = div]
          /\ UNCHANGED <<div, last, next, item, free, pflag, cflag, length, pushed, taken>>

\* ... then at the next field of that node, which may be free or reused by now.
PopLook(t) ==
  /\ Go(t, "c_look", IF next[node[t]] = Null THEN "idle" ELSE "c_flag")
  /\ node' = [node EXCEPT ![t] = Null]
  /\ UNCHANGED <<div, last, next, item, free, pflag, cflag, length, pushed, taken>>

PopFlag(t) == /\ Go(t, "c_flag", "c_next")
              /\ cflag = Nobody
              /\ cflag' = t
              /\ UNCHANGED <<div, last, next, item, free, pflag, length, pushed, node, taken>>

\* With the flag nobody else moves _div: another consumer may have emptied it.
PopNext(t) ==
  /\ Go(t, "c_next", IF next[div] = Null THEN "c_clear" ELSE "c_take")
  /\ UNCHANGED <<div, last, next, item, free, pflag, cflag, length, pushed, node, taken>>

\* The item is moved out and its node becomes the dummy.
PopTake(t) == /\ Go(t, "c_take", "c_clear")
              /\ taken' = Append(taken, item[next[div]])
              /\ div' = next[div]
              /\ node' = [node EXCEPT ![t] = div]
              /\ UNCHANGED <<last, next, item, free, pflag, cflag, length, pushed>>

\* Mutation: the flag is only cleared on the way out with an item.
BugPopClear(t) == /\ Go(t, "c_clear", IF node[t] = Null THEN "idle" ELSE "c_free")
                  /\ cflag' = IF node[t] = Null THEN cflag ELSE Nobody
                  /\ UNCHANGED <<div, last, next, item, free, pflag, length, pushed, node, taken>>

PopClear(t) == /\ Go(t, "c_clear", IF node[t] = Null THEN "idle" ELSE "c_free")
               /\ cflag' = Nobody
               /\ UNCHANGED <<div, last, next, item, free, pflag, length, pushed, node, taken>>

\* The freed node's first word, its next field, is now a link of the allocator.
PopFree(t) == /\ Go(t, "c_free", "c_length")
              /\ free' = free \cup {node[t]}
              /\ \E n \in free \cup {Null} : next' = [next EXCEPT ![node[t]] = n]
              /\ node' = [node EXCEPT ![t] = Null]
              /\ UNCHANGED <<div, last, item, pflag, cflag, length, pushed, taken>>

\* Mutation: a Pop that finds nothing counted yet takes one off a signed count.
BugPopLength(t) ==
  /\ Go(t, "c_length", "idle")
  /\ length' = length - 1
  /\ UNCHANGED <<div, last, next, item, free, pflag, cflag, pushed, node, taken>>

PopLength(t) == /\ Go(t, "c_length", "idle")
                /\ length' = (length + Width - 1) % Width
                /\ UNCHANGED <<div, last, next, item, free, pflag, cflag, pushed, node, taken>>
-----------------------------------------------------------------------------
\* The nodes from p on, by links.
Follow(p) ==
  LET at[k \in 0..MaxNode] == IF k = 0 THEN p
                              ELSE IF at[k - 1] = Null THEN Null ELSE next[at[k - 1]]
  IN  at
NodesFrom(p) == {Follow(p)[k] : k \in 0..MaxNode} \ {Null}

\* The destructor, when no thread uses the queue any more.
Destroy == /\ \A t \in Thread : pc[t] = "idle"
           /\ div # Null
           /\ free' = free \cup NodesFrom(div)
           /\ div' = Null /\ last' = Null
           /\ UNCHANGED <<next, item, pflag, cflag, length, pushed, pc, node, taken>>

Step(t) == \/ PushFlag(t) \/ PushLink(t) \/ PushLast(t) \/ PushClear(t) \/ PushLength(t)
           \/ PopLook(t) \/ PopFlag(t) \/ PopNext(t) \/ PopTake(t) \/ PopClear(t)
           \/ PopFree(t) \/ PopLength(t)

Terminated == div = Null /\ UNCHANGED vars

Next == (\E t \in Thread : Push(t) \/ Pop(t) \/ Step(t)) \/ Destroy \/ Terminated

Spec == Init /\ [][Next]_vars
-----------------------------------------------------------------------------
PushPc == {"p_flag", "p_link"}

TypeOK == /\ {div, last} \subseteq Node \cup {Null}
          /\ next \in [Node -> Node \cup {Null}]
          /\ item \in [Node -> 0..MaxItem]
          /\ free \subseteq Node
          /\ {pflag, cflag} \subseteq Thread \cup {Nobody}
          /\ length \in 0..(Width - 1)
          /\ pushed \in 0..MaxItem
          /\ pc \in [Thread -> {"idle", "p_flag", "p_link", "p_last", "p_clear",
                                "p_length", "c_look", "c_flag", "c_next", "c_take",
                                "c_clear", "c_free", "c_length"}]
          /\ node \in [Thread -> Node \cup {Null}]
          /\ taken \in Seq(Item)

\* The nodes that threads hold: made but not linked, or taken out but not freed.
Held(t) == IF pc[t] \in PushPc \cup {"c_clear", "c_free"} THEN {node[t]} \ {Null} ELSE {}

\* The nodes that the next step of t reads, links, moves to or frees, but for the
\* unlocked look, whose node may be free: who goes on from it looks again at c_next.
Uses(t) == CASE pc[t] = "p_link" -> {last, node[t]}
             [] pc[t] = "p_last" -> {node[t]}
             [] pc[t] = "c_next" -> {div}
             [] pc[t] = "c_take" -> {div, next[div]}
             [] pc[t] = "c_free" -> {node[t]}
             [] OTHER            -> {}

\* Nobody uses a freed node, only live nodes are linked, and _last is the end of the
\* list unless one producer is between its two stores.
NoUseAfterFree ==
  /\ \A t \in Thread : Uses(t) \subseteq Node \ free
  /\ NodesFrom(div) \cap free = {}
  /\ div # Null =>
       \/ last \in NodesFrom(div) /\ next[last] = Null
       \/ \E t \in Thread : pc[t] = "p_last" /\ node[t] \in NodesFrom(div) /\ next[node[t]] = Null

\* Every node is in one place: free, in the list, or in one thread's hands.
NodesConserved ==
  /\ Node = free \cup NodesFrom(div) \cup UNION {Held(t) : t \in Thread}
  /\ \A t \in Thread : Held(t) \cap (free \cup NodesFrom(div)) = {}
  /\ \A t, u \in Thread : t # u => Held(t) \cap Held(u) = {}

\* The items behind the dummy node.
Inside ==
  IF div = Null THEN <<>>
  ELSE [k \in 1..(Cardinality(NodesFrom(div)) - 1) |-> item[Follow(div)[k]]]

Uncounted(labels) == Cardinality({t \in Thread : pc[t] \in labels /\ (pc[t] = "c_clear" => node[t] # Null)})

\* size() is off by the operations that have moved an item but not counted it.
LengthTracks ==
  div # Null =>
    length = (Len(Inside) + Uncounted({"c_clear", "c_free", "c_length"}) + Width
              - Uncounted({"p_last", "p_clear", "p_length"})) % Width
=============================================================================
