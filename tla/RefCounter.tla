----------------------------- MODULE RefCounter -----------------------------
(***************************************************************************)
(* The counted objects and pointers of include/buntils/RefCounter.h.  Each *)
(* object has one ref_ptr as a member, as a list node has its successor;   *)
(* destroying the object destroys the member.  One thread.                 *)
(***************************************************************************)
EXTENDS Integers, FiniteSets

CONSTANTS Object, Local,  \* the objects, and the ref_ptrs that live on the stack
          Null

VARIABLES refs,       \* _refs
          alive,      \* the objects that exist
          ptr,        \* _p of every ref_ptr; a member is named by its object
          undefined,  \* history: freed memory was used
          careless    \* history: the last call did not keep hold of what it used

vars == <<refs, alive, ptr, undefined, careless>>

Assumptions == /\ IsFiniteSet(Object) /\ IsFiniteSet(Local)
               /\ Local \cap Object = {} /\ Null \notin Object

Holder == Local \cup Object
Exists(h) == h \in Local \cup alive

\* The functions below work on s, a record of the first four variables.
State == [refs |-> refs, alive |-> alive, ptr |-> ptr, bad |-> FALSE]

\* From o down, each object the member of the one before.
Members(s, o) ==
  LET at[n \in 0..Cardinality(Object)] ==
        IF n = 0 THEN o ELSE IF at[n - 1] = Null THEN Null ELSE s.ptr[at[n - 1]]
  IN  at

\* Destroyed in the first n of these calls of Drop.
Destroyed(at, n) == {at[i] : i \in 0..n - 1}

\* Mutation: the object goes while one reference is left.
BugOutlives(s, at, n) ==
  at[n] = Null \/ at[n] \notin s.alive \ Destroyed(at, n) \/ s.refs[at[n]] \notin 1..2

\* The n-th call does not destroy its object: it has another reference, or is
\* no object any more.
Outlives(s, at, n) ==
  at[n] = Null \/ at[n] \notin s.alive \ Destroyed(at, n) \/ s.refs[at[n]] # 1

\* Drop: the last reference destroys the object, whose member drops its own, and
\* so on down to the first object that outlives the call.
Drop(s, o) ==
  LET at == Members(s, o)
      n == CHOOSE k \in 0..Cardinality(Object) :
             Outlives(s, at, k) /\ \A i \in 0..k - 1 : ~Outlives(s, at, i)
      gone == Destroyed(at, n)
      bad == at[n] # Null /\ (at[n] \notin s.alive \ gone \/ s.refs[at[n]] <= 0)
  IN  [refs |-> [x \in Object |-> IF x \in gone THEN 0
                                 ELSE IF x = at[n] /\ ~bad THEN s.refs[x] - 1 ELSE s.refs[x]],
       alive |-> s.alive \ gone,
       ptr |-> [h \in Holder |-> IF h \in gone THEN Null ELSE s.ptr[h]],
       bad |-> bad]

Grab(s, o) == IF o = Null THEN s
              ELSE IF o \notin s.alive THEN [s EXCEPT !.bad = TRUE]
              ELSE [s EXCEPT !.refs[o] = @ + 1]

\* A store into the ref_ptr h, whose object may be gone by now.
Store(s, h, o) == IF h \in Object \ s.alive THEN [s EXCEPT !.bad = TRUE]
                  ELSE [s EXCEPT !.ptr[h] = o]

Becomes(s) == /\ refs' = s.refs /\ alive' = s.alive /\ ptr' = s.ptr
              /\ undefined' = s.bad

\* What can be reached from the set S of objects through members.
Reached(p, S) ==
  {x \in Object : \A T \in SUBSET Object :
                    S \subseteq T /\ {p[o] : o \in T} \subseteq T \cup {Null} => x \in T}

\* What the local pointers keep alive without the pointer h.
Kept(h) == LET p == [ptr EXCEPT ![h] = Null]
           IN  Reached(p, {p[l] : l \in Local} \ {Null})

\* The caller holds on to the owner of h and to the object x it uses.
Careful(h, x) == {h, x} \ (Local \cup {Null}) \subseteq Kept(h)
-----------------------------------------------------------------------------
Init == /\ refs = [o \in Object |-> 0] /\ alive = {}
        /\ ptr = [h \in Holder |-> Null]
        /\ undefined = FALSE /\ careless = FALSE

\* A local ref_ptr is constructed from a new object.
New(h, o) == /\ ~undefined /\ h \in Local /\ ptr[h] = Null /\ o \notin alive
             /\ Becomes(Store(Grab([State EXCEPT !.alive = @ \cup {o}], o), h, o))
             /\ careless' = FALSE

\* operator=(T*), which operator=(const ref_ptr&) calls with another's _p:
\* drop, store, grab.
Assign(h, o) ==
  /\ ~undefined /\ Exists(h) /\ o \in alive \cup {Null}
  /\ Becomes(Grab(Store(Drop(State, ptr[h]), h, o), o))
  /\ careless' = ~Careful(h, o)

\* operator=(ref_ptr&&): drop, then read the other pointer and empty it.
Move(h, g) ==
  /\ ~undefined /\ Exists(h) /\ Exists(g)
  /\ LET s == Drop(State, ptr[h])
     IN  IF s.bad \/ g \in Object \ s.alive THEN Becomes([s EXCEPT !.bad = TRUE])
         ELSE Becomes(Store(Store(s, h, s.ptr[g]), g, Null))
  /\ careless' = ~Careful(h, g)

\* ~ref_ptr of a local pointer; it may be constructed again afterwards.
Destroy(h) ==
  /\ ~undefined /\ h \in Local /\ ptr[h] # Null
  /\ Becomes([Drop(State, ptr[h]) EXCEPT !.ptr[h] = Null])
  /\ careless' = FALSE

Terminated == undefined /\ UNCHANGED vars

Next == \/ \E h \in Local, o \in Object : New(h, o)
        \/ \E h \in Holder, o \in Object \cup {Null} : Assign(h, o)
        \/ \E h, g \in Holder : Move(h, g)
        \/ \E h \in Local : Destroy(h)
        \/ Terminated

Spec == Init /\ [][Next]_vars
-----------------------------------------------------------------------------
TypeOK == /\ refs \in [Object -> Int] /\ alive \subseteq Object
          /\ ptr \in [Holder -> Object \cup {Null}]

\* Every count is the number of pointers, and nothing points to a freed object.
CountsExact ==
  undefined \/ /\ \A o \in Object :
                    refs[o] = Cardinality({h \in Holder : Exists(h) /\ ptr[h] = o})
               /\ alive = {o \in Object : refs[o] > 0}

\* Only calls that use what nothing but the dropped pointer kept alive go wrong.
SafeIfCareful == undefined => careless
=============================================================================
