---------------------------- MODULE MCStructures ----------------------------
(***************************************************************************)
(* The data structures, and the functions that only compute, for TLC: a    *)
(* behaviour is one of a single object `obj', whose class `kind' names.    *)
(* A class without operations of its own, and a module of functions, has   *)
(* the one step that chooses its object or its arguments.  Two classes     *)
(* have more variables than `obj', which are 0 for all others.             *)
(***************************************************************************)
EXTENDS Integers, Sequences

CONSTANTS Unchosen,                \* nothing is chosen yet
          EmptyCell, DeletedCell,  \* cells of Hash
          Raw,                     \* memory without an object
          ClosedFile,              \* an INI file without an open text
          Nothing

VARIABLES kind, obj, want, right,
          excused,           \* history: nothing is said any more; what of, the classes say
          nodes, deleted,    \* AATree
          now, pc, running   \* Scheduler

aaVars == <<nodes, deleted>>
schedVars == <<now, pc, running>>
vars == <<kind, obj, want, right, excused, aaVars, schedVars>>

\* Keys that are 4 apart collide in a table of 4, and some in one of 8.
Scattered(k) == (k % 2) * 3 + 4 * (k \div 4)
Strings(C, n) == UNION {[1..i -> C] : i \in 0..n}

Avl == INSTANCE AVLTree WITH root <- obj, Key <- 1..7, Data <- {1}, NoData <- Nothing, Nil <- Nothing
AA == INSTANCE AATree WITH root <- obj, wild <- excused, Key <- 1..3, MaxNode <- 10, Unset <- Nothing
Heap == INSTANCE BinaryHeap WITH heap <- obj, misplaced <- excused, Prio <- 1..3, MaxItem <- 6, MaxSort <- 5
Sched == INSTANCE Scheduler WITH heap <- obj, astray <- excused, MaxEvent <- 3, MaxNow <- 3, Delay <- 0..2, Result <- 0..2, Nobody <- Nothing
H == INSTANCE Hash WITH table <- obj, Key <- 1..5, Data <- {1, 2}, MaxBuckets <- 8, HashFunc <- Scattered, Empty <- EmptyCell, Deleted <- DeletedCell
A == INSTANCE SortedArray WITH array <- obj, Key <- 1..3, Data <- {1, 2}, MaxSize <- 4
S == INSTANCE Words WITH table <- obj, Word <- {<<>>, <<1>>, <<1, 2>>}, Dump <- Strings({0, 1}, 4) \ {<<>>}, MaxLength <- 8,
                         TrieWord <- Strings({-1, 1, 2}, 2) \cup {<<1, 1, 1>>, <<2, 1, 2>>}, MaxWords <- 3, IGNORECASE <- TRUE
L == INSTANCE LinkedList WITH list <- obj, Node <- 1..4, Item <- {1, 2}
R == INSTANCE TRBtree WITH tree <- obj, Value <- 1..5, Copies <- 2
D == INSTANCE DynArray WITH array <- obj, Item <- {1, 2}, MaxSize <- 4, I <- 2, Junk <- 8, Default <- 9, W <- 2, MaxBits <- 6, BitJunk <- 3
G == INSTANCE Graph WITH graph <- obj, Vertex <- 0..2, MaxEdges <- 3

\* A file with nothing, and one with an entry before the first section.
Entry(key) == [kind |-> "entry", name |-> key, val |-> 1, comment |-> TRUE]
IniFiles == {<<[kind |-> "blank"]>>,
             <<Entry(<<1>>), [kind |-> "comment"], [kind |-> "section", name |-> <<2>>], Entry(<<2>>)>>}
N == INSTANCE INI WITH ini <- obj, Section <- {<<1>>}, Key <- {<<1>>}, Value <- {1, 2}, File <- IniFiles, MaxLines <- 5, Closed <- ClosedFile
M == INSTANCE BlockAlloc WITH alloc <- obj, Size <- 3, Align <- 2, Count <- 2, MaxBytes <- 24
P == INSTANCE Animation WITH ani <- obj, Time <- 0..2, Value <- {0, 3}, Interval <- {0, 1, 3}, MaxFrames <- 2, MaxElapsed <- 5, Delta <- 0..3
W == INSTANCE BitStream WITH io <- obj, W <- 3, MaxBits <- 9

Vec == INSTANCE Vectors
Num == INSTANCE Numbers
Ser == INSTANCE Serialization

Choosing == {"trie", "bits", "flow", "lanes", "vectors", "matrices", "numbers", "text", "geometry", "algo", "serial"}

NoExcuse == excused = FALSE
NoAA == nodes = 0 /\ deleted = 0
NoSched == now = 0 /\ pc = 0 /\ running = 0

InitPlain ==
  \/ /\ right = TRUE
     /\ \/ kind = "tree" /\ R!Init
        \/ kind = "graph" /\ G!Init
        \/ kind \in Choosing /\ obj = Unchosen /\ want = 0
  \/ kind = "avl" /\ Avl!Init
  \/ kind = "hash" /\ H!Init
  \/ kind = "sorted" /\ A!Init
  \/ kind = "strings" /\ S!Init
  \/ kind = "list" /\ L!Init
  \/ kind = "array" /\ D!Init
  \/ kind = "ini" /\ N!Init
  \/ kind = "bitstream" /\ W!Init
  \/ kind = "blocks" /\ M!Init
  \/ kind = "animation" /\ P!Init

Init == \/ InitPlain /\ NoExcuse /\ NoAA /\ NoSched
        \/ kind = "aa" /\ AA!Init /\ NoSched
        \/ kind = "heap" /\ Heap!Init /\ NoAA /\ NoSched
        \/ kind = "sched" /\ Sched!Init /\ NoAA

Choose(name, Inputs) ==
  /\ kind = name /\ obj = Unchosen
  /\ \E q \in Inputs : obj' = q
  /\ UNCHANGED <<kind, want, right>>

TrieBuilt ==
  /\ kind = "trie" /\ obj = Unchosen
  /\ \E list \in S!Distinct : obj' = S!Built(list) /\ want' = list
  /\ UNCHANGED <<kind, right>>

NextPlain ==
  \/ kind = "avl" /\ Avl!Next /\ UNCHANGED kind
  \/ kind = "hash" /\ H!Next /\ UNCHANGED kind
  \/ kind = "sorted" /\ A!Next /\ UNCHANGED kind
  \/ kind = "strings" /\ S!Next /\ UNCHANGED kind
  \/ kind = "list" /\ L!Next /\ UNCHANGED kind
  \/ kind = "array" /\ D!Next /\ UNCHANGED kind
  \/ kind = "ini" /\ N!Next /\ UNCHANGED kind
  \/ kind = "bitstream" /\ W!Next /\ UNCHANGED kind
  \/ kind = "blocks" /\ M!Next /\ UNCHANGED kind
  \/ kind = "animation" /\ P!Next /\ UNCHANGED kind
  \/ kind = "tree" /\ R!Next /\ UNCHANGED <<kind, right>>
  \/ kind = "graph" /\ G!Next /\ UNCHANGED <<kind, right>>
  \/ TrieBuilt
  \/ Choose("bits", Num!BitInputs)
  \/ Choose("flow", G!Inputs)
  \/ Choose("lanes", Vec!LaneInputs)
  \/ Choose("vectors", Vec!Inputs)
  \/ Choose("matrices", Vec!MatrixInputs)
  \/ Choose("numbers", Num!Inputs)
  \/ Choose("text", S!Inputs)
  \/ Choose("geometry", Vec!ShapeInputs)
  \/ Choose("algo", Num!AlgoInputs)
  \/ Choose("serial", Ser!Inputs)

Next == \/ NextPlain /\ UNCHANGED <<excused, aaVars, schedVars>>
        \/ kind = "aa" /\ AA!Next /\ UNCHANGED <<kind, schedVars>>
        \/ kind = "heap" /\ Heap!Next /\ UNCHANGED <<kind, aaVars, schedVars>>
        \/ kind = "sched" /\ Sched!Next /\ UNCHANGED <<kind, aaVars>>

Spec == Init /\ [][Next]_vars
-----------------------------------------------------------------------------
\* The links, counts, balances, levels, colours, orders and live cells of a structure are
\* what its operations and its searches rely on: every Insert, Remove, resize and copy of
\* AVLTree.h, AATree.h, BinaryHeap.h, Hash.h, ArraySort.h, StringTable.h, LinkedList.h,
\* TRBtree.h, Array.h, DynArray.h, CompactArray.h and Graph.h keeps them, except that a heap
\* may lose its order by a Remove that needed to percolate up.  The scheduler of Scheduler.h
\* has every event in its heap once.
WellFormed ==
  CASE kind = "avl" -> Avl!TypeOK /\ Avl!Balanced
    [] kind = "aa" -> AA!TypeOK /\ (AA!Usable => AA!Levelled)
    [] kind = "heap" -> Heap!TypeOK /\ Heap!Ordered
    [] kind = "sched" -> Sched!TypeOK /\ Sched!Queued
    [] kind = "hash" -> H!WellFormed
    [] kind = "sorted" -> A!Sorted
    [] kind = "strings" -> S!Packed
    [] kind = "list" -> L!WellFormed
    [] kind = "tree" -> R!WellFormed
    [] kind = "array" -> D!WellFormed
    [] kind = "graph" -> G!WellFormed
    [] kind = "ini" -> N!WellFormed
    [] OTHER -> TRUE

\* A structure holds exactly what was put in and not taken out, every result was the one
\* its operation promises, and the searches and walks find what there is and nothing else;
\* a list that keeps its last node appends what Add is given, as the comment says (LinkedList.h:197);
\* of a list without one the comment does not hold, and the property says what the code does
\* (LinkedList.h:159): what was added last is in front;
\* a heap gives a greatest item first, and the scheduler runs every due event in order and
\* keeps those that returned more than 0, as the comment says (Scheduler.h:11-12), until one
\* has put another in front of itself, or has returned less than 0: Update keeps that one,
\* against the comment (Scheduler.h:44), and the property says nothing from there on;
\* the allocators of BlockAlloc.h and GreedyBlockAlloc.h hand out memory nobody else has,
\* and the animations of Animation.h fire each frame, and start and end each interval, once.
HoldsWhatItShould ==
  /\ right \/ (kind \in {"aa", "sched"} /\ excused)
  /\ CASE kind = "avl" -> Avl!Contents = want
       [] kind = "aa" -> ~excused => AA!Contents = want
       [] kind = "heap" -> Heap!Contents(obj) = want
       [] kind = "sched" -> ~excused => Sched!Contents = want
       [] kind = "hash" -> H!Contents = want /\ H!Iterates
       [] kind = "sorted" -> A!Contents = want
       [] kind = "strings" -> S!Contents = want
       [] kind = "list" -> L!Contents = want
       [] kind = "tree" -> R!Contents = want /\ R!Finds
       [] kind = "array" -> D!Contents = want
       [] kind = "graph" -> G!Contents = want /\ G!Searches
       [] kind = "ini" -> N!Contents(obj.secs) = want /\ (N!Careful => N!Saved)
       [] kind = "bitstream" -> W!Agrees
       [] kind = "blocks" -> M!Sound
       [] kind = "animation" -> P!Sound
       [] kind = "trie" -> obj = Unchosen \/ S!Finds
       [] OTHER -> TRUE

\* A function gives what its mathematical definition does for every argument that is
\* enumerated: the bit functions of buntils.h, both builds of sseVec.h, the vectors and
\* matrices of vector.h with their special cases for floats, the flow of Graph.h, the
\* numbers of Rational.h, FixedPt.h and Dual.h, the text of ConvertUTF.c, the shapes of
\* Collision.h and Geometry.h, and the algorithms of algo.h and AliasTable.h.  What the
\* serializer writes with JSON.h, TOML.h or UBJSON.h, it reads back.  Arguments for which the
\* code is known to differ are left out by the predicates below, each where it says so.
ComputesRight ==
  obj # Unchosen =>
    CASE kind = "bits" -> Num!BitRight(obj)
      [] kind = "flow" -> G!Right(obj)
      [] kind = "lanes" -> Vec!LanesRight(obj)
      [] kind = "vectors" -> Vec!Right(obj)
      [] kind = "matrices" -> Vec!MatrixRight(obj)
      [] kind = "numbers" -> Num!Right(obj)
      [] kind = "text" -> S!Right(obj)
      [] kind = "geometry" -> Vec!ShapeRight(obj)
      [] kind = "algo" -> Num!AlgoRight(obj)
      [] kind = "serial" -> Ser!Right(obj)
      [] OTHER -> TRUE

\* The assertion in Peek, BinaryHeap.h:72, as Update uses it.
NeverPeeksEmpty == kind = "sched" => Sched!NeverPeeksEmpty

\* The comment in ConvexPolygonContainsPoint (Collision.h:596): "This is written so that
\* being on the line counts as an intersection."
OnTheLineCounts ==
  kind = "geometry" /\ obj # Unchosen => (obj.f = "triangle" => Vec!OnTheLineCounts(obj.v))
=============================================================================
