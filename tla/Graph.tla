------------------------------- MODULE Graph --------------------------------
(***************************************************************************)
(* Graph.h: vertices in a LinkedArray, edges in two intrusive lists, one   *)
(* from their vertex of origin and one from the vertex they lead to.  A    *)
(* list is the sequence of its edges, LLAdd puts an edge in front.  At the *)
(* end, what the flow algorithms of the same file compute.                 *)
(***************************************************************************)
EXTENDS Integers, Sequences, FiniteSets, FiniteSetsExt, TLC

CONSTANTS Vertex, MaxEdges

Seqs == INSTANCE SequencesExt

VARIABLES graph,
          want   \* history: how often there should be an edge from one vertex to another

vars == <<graph, want>>

EdgeId == 1..MaxEdges
Arrow(from, to) == [from |-> from, to |-> to]
NewGraph == [order |-> <<>>, edge |-> <<>>, out |-> [v \in Vertex |-> <<>>],
             in |-> [v \in Vertex |-> <<>>], nedges |-> 0]
Used(g) == {g.order[i] : i \in DOMAIN g.order}
Minus(s, x) == SelectSeq(s, LAMBDA y : y # x)

NodeAdded(g) == [g EXCEPT !.order = Append(@, Min(Vertex \ Used(g)))]

EdgeAdded(g, from, to) ==
  LET e == Min(EdgeId \ DOMAIN g.edge)
  IN  [g EXCEPT !.edge = [x \in DOMAIN @ \cup {e} |-> IF x = e THEN Arrow(from, to) ELSE @[x]],
                !.out[from] = <<e>> \o @, !.in[to] = <<e>> \o @, !.nedges = @ + 1]

EdgeRemoved(g, e) ==
  [g EXCEPT !.edge = [x \in DOMAIN @ \ {e} |-> @[x]], !.nedges = @ - 1,
            !.out[g.edge[e].from] = Minus(@, e), !.in[g.edge[e].to] = Minus(@, e)]

\* RemoveNode: while(n.to) RemoveEdge(n.to), then the same with n.from.
NodeRemoved(g, n) ==
  LET RECURSIVE OutGone(_), InGone(_)
      OutGone(h) == IF h.out[n] = <<>> THEN h ELSE OutGone(EdgeRemoved(h, Head(h.out[n])))
      InGone(h) == IF h.in[n] = <<>> THEN h ELSE InGone(EdgeRemoved(h, Head(h.in[n])))
  IN  [InGone(OutGone(g)) EXCEPT !.order = Minus(@, n)]

\* ToMatrix, over the places of the vertices in their order.
ToMatrix(g) ==
  LET Place(v) == CHOOSE i \in DOMAIN g.order : g.order[i] = v
  IN  [i \in DOMAIN g.order |-> {Place(g.edge[g.out[g.order[i]][k]].to) : k \in DOMAIN g.out[g.order[i]]}]

\* _construct from a matrix adds to what is there.
Constructed(g, n, M) ==
  LET RECURSIVE Nodes(_, _)
      Nodes(h, k) == IF k = 0 THEN h ELSE Nodes(NodeAdded(h), k - 1)
      h1 == Nodes(g, n)
      K(i) == h1.order[Len(g.order) + i]
      cells == [c \in 1..n * n |-> <<((c - 1) \div n) + 1, ((c - 1) % n) + 1>>]
  IN  Seqs!FoldLeft(LAMBDA h, c : IF c \in M THEN EdgeAdded(h, K(c[1]), K(c[2])) ELSE h, h1, cells)

\* BreadthFirstGraph: a vertex is marked when it leaves the queue, so that it may enter
\* it more than once; the set that holds root stands for the disjoint sets.
Tails(g, v) == [k \in DOMAIN g.out[v] |-> g.edge[g.out[v][k]].to]
BreadthFirst(g, root) ==
  LET RECURSIVE From(_, _, _)
      From(queue, i, set) ==
        IF i > Len(queue) THEN queue
        ELSE LET now == set \cup {queue[i]}
             IN  From(queue \o SelectSeq(Tails(g, queue[i]), LAMBDA v : v \notin now), i + 1, now)
  IN  From(SelectSeq(Tails(g, root), LAMBDA v : v # root), 1, {root})
-----------------------------------------------------------------------------
None == [p \in Vertex \X Vertex |-> 0]
Init == graph = NewGraph /\ want = None

AddNode == Vertex # Used(graph) /\ graph' = NodeAdded(graph) /\ UNCHANGED want

AddEdge(from, to) ==
  /\ Cardinality(DOMAIN graph.edge) < MaxEdges /\ graph' = EdgeAdded(graph, from, to)
  /\ want' = [want EXCEPT ![from, to] = @ + 1]

RemoveEdge(e) ==
  /\ graph' = EdgeRemoved(graph, e)
  /\ want' = [want EXCEPT ![graph.edge[e].from, graph.edge[e].to] = @ - 1]

RemoveNode(n) ==
  /\ graph' = NodeRemoved(graph, n)
  /\ want' = [p \in DOMAIN want |-> IF n \in {p[1], p[2]} THEN 0 ELSE want[p]]

\* From a matrix of two vertices.
FromMatrix(M) ==
  /\ Cardinality(Vertex \ Used(graph)) >= 2 /\ Cardinality(DOMAIN graph.edge) + Cardinality(M) <= MaxEdges
  /\ graph' = Constructed(graph, 2, M)
  /\ LET Id(i) == graph'.order[Len(graph.order) + i]
     IN  want' = [p \in DOMAIN want |-> IF \E c \in M : p = <<Id(c[1]), Id(c[2])>> THEN 1 ELSE want[p]]

Next == \/ AddNode
        \/ \E from, to \in Used(graph) : AddEdge(from, to)
        \/ \E e \in DOMAIN graph.edge : RemoveEdge(e)
        \/ \E n \in Used(graph) : RemoveNode(n)
        \/ \E M \in SUBSET ((1..2) \X (1..2)) : FromMatrix(M)

Spec == Init /\ [][Next]_vars
-----------------------------------------------------------------------------
Contents == [p \in Vertex \X Vertex |->
               Cardinality({e \in DOMAIN graph.edge : graph.edge[e] = Arrow(p[1], p[2])})]

\* Every edge is once in the list of each of its ends and in no other one.
WellFormed ==
  /\ graph.nedges = Cardinality(DOMAIN graph.edge)
  /\ \A v \in Vertex :
       /\ {graph.out[v][k] : k \in DOMAIN graph.out[v]} = {e \in DOMAIN graph.edge : graph.edge[e].from = v}
       /\ {graph.in[v][k] : k \in DOMAIN graph.in[v]} = {e \in DOMAIN graph.edge : graph.edge[e].to = v}
       /\ Seqs!IsInjective(graph.out[v]) /\ Seqs!IsInjective(graph.in[v])
  /\ \A e \in DOMAIN graph.edge : {graph.edge[e].from, graph.edge[e].to} \subseteq Used(graph)

\* The matrix is that of the edges; a search visits what can be reached, what is nearer
\* first, and where no vertex has two ways in its queue is long enough.
RECURSIVE Within(_, _, _)
Within(g, root, d) ==
  IF d = 0 THEN {root}
  ELSE LET near == Within(g, root, d - 1)
       IN  near \cup {g.edge[e].to : e \in {x \in DOMAIN g.edge : g.edge[x].from \in near}}
Searches ==
  /\ \A i, j \in DOMAIN graph.order : j \in ToMatrix(graph)[i] <=> want[graph.order[i], graph.order[j]] > 0
  /\ \A root \in Used(graph) :
       LET queue == BreadthFirst(graph, root)
           Distance(v) == Min({d \in 0..Cardinality(Vertex) : v \in Within(graph, root, d)})
       IN  /\ {queue[i] : i \in DOMAIN queue} = Within(graph, root, Cardinality(Vertex)) \ {root}
           /\ \A i \in 1..Len(queue) - 1 : Distance(queue[i]) <= Distance(queue[i + 1])
           /\ (\A v \in Vertex : Len(graph.in[v]) <= 1) => Len(queue) < Len(graph.order)
-----------------------------------------------------------------------------
\* The flow algorithms: push-relabel, and the reductions of a circulation with demands and
\* lower bounds to it.  A network is a record whose edges are numbered as they were added;
\* a list of them begins with the one added last.
Sum(f, S) == FoldSet(LAMBDA e, x : x + f[e], 0, S)
Out(g, v) == {e \in DOMAIN g.edge : g.edge[e].from = v}
In(g, v) == {e \in DOMAIN g.edge : g.edge[e].to = v}
First(edges) == IF edges = {} THEN 0 ELSE Max(edges)
NextEdge(g, e) == First({f \in Out(g, g.edge[e].from) : f < e})
AltNext(g, e) == First({f \in In(g, g.edge[e].to) : f < e})
Cap(g) == [e \in DOMAIN g.edge |-> g.edge[e].capacity]

\* Relabelling a vertex all of whose neighbours were tried: forward if an edge has room,
\* and only if none has, back.
Relabelled(g, r, k) ==
  LET forward == {e \in Out(g, k) : g.edge[e].capacity > r.flow[e]}
      back == {e \in In(g, k) : r.flow[e] > 0}
      near == IF forward # {} THEN {r.height[g.edge[e].to] : e \in forward}
                              ELSE {r.height[g.edge[e].from] : e \in back}
  IN  [r EXCEPT !.height[k] = IF near = {} THEN @ ELSE Min(near) + 1,
                !.seen[k] = First(IF forward # {} THEN Out(g, k) ELSE In(g, k))]

\* A push along the edge seen last, if it goes downhill and has room.
Pushed(g, r, k) ==
  LET e == r.seen[k]
      ahead == g.edge[e].from = k
      target == IF ahead THEN g.edge[e].to ELSE g.edge[e].from
      room == IF ahead THEN g.edge[e].capacity - r.flow[e] ELSE r.flow[e]
      send == IF r.height[k] > r.height[target] THEN Min({room, r.excess[k]}) ELSE 0
  IN  [r EXCEPT !.flow[e] = IF ahead THEN @ + send ELSE @ - send,
                !.excess = [[@ EXCEPT ![target] = @ + send] EXCEPT ![k] = @ - send],
                !.seen[k] = IF ahead THEN NextEdge(g, e) ELSE AltNext(g, e)]

\* Where a vertex is higher than any should get, the run is given up.
GivenUp(g, r) == \E v \in DOMAIN r.height : v # g.s /\ r.height[v] >= 3 * Len(g.order)
RECURSIVE Discharged(_, _, _)
Discharged(g, r, k) ==
  IF r.excess[k] <= 0 \/ GivenUp(g, r) THEN r
  ELSE Discharged(g, IF r.seen[k] = 0 THEN Relabelled(g, r, k) ELSE Pushed(g, r, k), k)

\* The list of vertices: one whose height changed goes to the front, where it starts again.
RECURSIVE Traversed(_, _, _, _)
Traversed(g, r, list, c) ==
  IF c > Len(list) \/ GivenUp(g, r) THEN r
  ELSE LET k == list[c]
           u == Discharged(g, r, k)
       IN  IF u.height[k] # r.height[k]
           THEN Traversed(g, u, <<k>> \o SelectSeq(list, LAMBDA v : v # k), 1)
           ELSE Traversed(g, u, list, c + 1)

\* seen is filled by the place in the list of the other vertices, and read by vertex.
PushRelabel(g) ==
  LET n == Len(g.order)
      list == SelectSeq(g.order, LAMBDA v : v \notin {g.s, g.t})
      before == [i \in 1..n |-> Cardinality({j \in 1..i - 1 : g.order[j] \notin {g.s, g.t}})]
      fills == [v \in 0..n - 1 |-> {i \in 1..n : before[i] = v}]
      r == [flow |-> [e \in DOMAIN g.edge |-> IF g.edge[e].from = g.s THEN g.edge[e].capacity ELSE 0],
            height |-> [v \in 0..n - 1 |-> IF v = g.s THEN n ELSE 0],
            excess |-> [v \in 0..n - 1 |-> LET e == {f \in Out(g, g.s) : g.edge[f].to = v}
                                           IN  IF e # {} THEN g.edge[Min(e)].capacity
                                               ELSE IF v = g.s THEN 1000 ELSE 0],
            seen |-> [v \in 0..n - 1 |-> IF fills[v] = {} THEN 0 ELSE First(Out(g, g.order[Max(fills[v])]))]]
  IN  Traversed(g, r, list, 1)

\* Circulation_MaxFlow: a source before the vertices that supply, a sink behind those that demand.
Circulation(g) ==
  LET n == Len(g.order)
      Edge(v) == IF g.demand[v] < 0 THEN [from |-> n, to |-> v, capacity |-> -g.demand[v]]
                                    ELSE [from |-> v, to |-> n + 1, capacity |-> g.demand[v]]
      needs == SelectSeq(g.order, LAMBDA v : g.demand[v] # 0)
  IN  [order |-> g.order \o <<n, n + 1>>, s |-> n, t |-> n + 1,
       edge |-> g.edge \o [i \in DOMAIN needs |-> Edge(needs[i])],
       total |-> Sum(g.demand, DOMAIN g.demand)]

\* LowerBound_Circulation sends the lower bounds and asks for the rest.
LowerBound(g) ==
  LET low == [e \in DOMAIN g.edge |-> g.edge[e].lowerbound]
  IN  [g EXCEPT !.edge = [e \in DOMAIN @ |-> [@[e] EXCEPT !.capacity = @ - low[e], !.lowerbound = 0]],
                !.demand = [v \in DOMAIN @ |-> @[v] + Sum(low, Out(g, v)) - Sum(low, In(g, v))]]
-----------------------------------------------------------------------------
\* What the flow algorithms should give.
Cut(g, S) == Sum(Cap(g), {e \in DOMAIN g.edge : g.edge[e].from \in S /\ g.edge[e].to \notin S})
Vertices(g) == {g.order[i] : i \in DOMAIN g.order}
MinCut(g) == Min({Cut(g, S \cup {g.s}) : S \in SUBSET (Vertices(g) \ {g.s, g.t})})
Balance(g, f, v) == Sum(f, In(g, v)) - Sum(f, Out(g, v))

\* The flow respects the capacities, nothing is lost on the way, and it is as much as a
\* cut lets through; no height goes beyond twice the number of vertices.
IsMaximal(g) ==
  LET r == PushRelabel(g)
  IN  /\ ~GivenUp(g, r) /\ \A v \in Vertices(g) : r.height[v] < 2 * Len(g.order)
      /\ \A e \in DOMAIN g.edge : r.flow[e] \in 0..g.edge[e].capacity
      /\ \A v \in Vertices(g) \ {g.s, g.t} : Balance(g, r.flow, v) = 0
      /\ Balance(g, r.flow, g.t) = MinCut(g)

\* A circulation within the bounds that meets every demand.
Feasible(g) ==
  \E f \in [DOMAIN g.edge -> 0..2] :
    /\ \A e \in DOMAIN g.edge : f[e] \in g.edge[e].lowerbound..g.edge[e].capacity
    /\ \A v \in Vertices(g) : Balance(g, f, v) = g.demand[v]

\* Networks of four vertices: the source first, the sink last, any edges onward, in
\* several orders of the vertices.
Position == 1..4
Pairs == <<<<1, 2>>, <<1, 3>>, <<1, 4>>, <<2, 3>>, <<2, 4>>, <<3, 4>>>>
Network(order, c) ==
  LET used == SelectSeq(Pairs, LAMBDA p : c[p] > 0)
  IN  [kind |-> "flow", order |-> [i \in Position |-> i - 1], s |-> order[1], t |-> order[4],
       edge |-> [k \in DOMAIN used |-> [from |-> order[used[k][1]], to |-> order[used[k][2]], capacity |-> c[used[k]]]]]
Networks(orders) ==
  {Network(o, c) : o \in orders, c \in [{Pairs[k] : k \in DOMAIN Pairs} -> 0..2]}
\* Every inner vertex can send on all that can reach it.
Ample(g) == \A v \in Vertices(g) \ {g.s, g.t} : Sum(Cap(g), In(g, v)) <= Sum(Cap(g), Out(g, v))

Circulations ==
  {[kind |-> "circulation", order |-> <<0, 1, 2>>,
    edge |-> <<[from |-> 0, to |-> 1, capacity |-> c, lowerbound |-> l],
               [from |-> 1, to |-> 2, capacity |-> 2, lowerbound |-> m],
               [from |-> 0, to |-> 2, capacity |-> 1, lowerbound |-> 0],
               [from |-> 2, to |-> 0, capacity |-> 1, lowerbound |-> 0]>>,
    demand |-> 0 :> a @@ 1 :> b @@ 2 :> -(a + b)] : c \in 1..2, l \in 0..1, m \in 0..2, a, b \in -2..2}

Inputs == {g \in Networks({<<0, 1, 2, 3>>, <<2, 0, 3, 1>>, <<3, 2, 1, 0>>}) : Ample(g)} \cup Circulations

Right(g) ==
  IF g.kind = "flow" THEN IsMaximal(g)
  ELSE LET h == Circulation(LowerBound(g))
       IN  h.total = 0 /\ (Feasible(g) <=> MinCut(h) = Sum(Cap(h), Out(h, h.s)))
=============================================================================
