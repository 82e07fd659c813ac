---------------------------- MODULE MCContainers ----------------------------
(***************************************************************************)
(* The containers without trees and heaps, for TLC and for the proofs: a   *)
(* behaviour is one of a single object, whose class `kind' names.  A       *)
(* variable that several modules declare is one variable here; the ones a  *)
(* class has not are 0.                                                    *)
(***************************************************************************)
EXTENDS Integers

CONSTANTS Value, MaxCapacity,  \* LinkedArray, ArrayCircular
          MaxElement,          \* DisjointSet
          Object, Local,       \* RefCounter
          Null

VARIABLES kind,
          want, right,                          \* of all but RefCounter
          length, array,                        \* of two classes each
          ref, start, end, freelist,            \* LinkedArray
          cur,                                  \* ArrayCircular
          numsets,                              \* DisjointSet
          refs, alive, ptr, undefined, careless \* RefCounter

listVars == <<ref, start, end, freelist>>
refVars == <<refs, alive, ptr, undefined, careless>>
vars == <<kind, want, right, length, array, listVars, cur, numsets, refVars>>

List == INSTANCE LinkedArray WITH Junk <- Null
Ring == INSTANCE ArrayCircular WITH Dead <- Null
Sets == INSTANCE DisjointSet
Refs == INSTANCE RefCounter

ASSUME ListAssumption == List!Assumptions
ASSUME RingAssumption == Ring!Assumptions
ASSUME SetsAssumption == Sets!Assumptions
ASSUME RefsAssumption == Refs!Assumptions

NoLength == length = 0
NoArray == array = 0
NoHistory == want = 0 /\ right = TRUE
NoList == ref = 0 /\ start = 0 /\ end = 0 /\ freelist = 0
NoCur == cur = 0
NoSets == numsets = 0
NoRefs == refs = 0 /\ alive = 0 /\ ptr = 0 /\ undefined = FALSE /\ careless = FALSE

Init ==
  \/ /\ kind = "list" /\ List!Init
     /\ NoArray /\ NoCur /\ NoSets /\ NoRefs
  \/ /\ kind = "ring" /\ Ring!Init
     /\ NoList /\ NoSets /\ NoRefs
  \/ /\ kind = "sets" /\ Sets!Init
     /\ NoLength /\ NoList /\ NoCur /\ NoRefs
  \/ /\ kind = "refs" /\ Refs!Init
     /\ NoHistory /\ NoLength /\ NoArray /\ NoList /\ NoCur /\ NoSets

OfList(A) == kind = "list" /\ A /\ UNCHANGED <<kind, array, cur, numsets, refVars>>
OfRing(A) == kind = "ring" /\ A /\ UNCHANGED <<kind, listVars, numsets, refVars>>
OfSets(A) == kind = "sets" /\ A /\ UNCHANGED <<kind, length, listVars, cur, refVars>>
OfRefs(A) == kind = "refs" /\ A /\ UNCHANGED <<kind, want, right, length, array, listVars, cur, numsets>>

Next == \/ OfList(List!Next)
        \/ OfRing(Ring!Next)
        \/ OfSets(Sets!Next)
        \/ OfRefs(Refs!Next)

Spec == Init /\ [][Next]_vars
-----------------------------------------------------------------------------
TypeOK == CASE kind = "list" -> List!TypeOK
            [] kind = "ring" -> Ring!TypeOK
            [] kind = "sets" -> Sets!TypeOK
            [] kind = "refs" -> Refs!TypeOK

(* The redundant parts of each structure agree after any sequence of       *)
(* calls.  List: both link directions, the length and the free list        *)
(* (LinkedArray.h:52-85, 184-256).  Ring: an object is alive in exactly    *)
(* the cells of the window, wrapped or not (ArrayCircular.h:47-126).       *)
(* Disjoint sets: sizes, their number, and trees no higher than the        *)
(* logarithm of their size (DisjointSet.h:43-87).  References: counts      *)
(* equal to the pointers there are (RefCounter.h:15-99).                   *)
WellFormed == CASE kind = "list" -> List!LinksAgree
                [] kind = "ring" -> Ring!LiveWindow
                [] kind = "sets" -> Sets!Weighted
                [] kind = "refs" -> Refs!CountsExact

(* Each container holds what the calls so far should have left in it, and  *)
(* every call returned what it should have: a sequence for the list (whose *)
(* indices stay valid) and the ring, and a partition for the disjoint      *)
(* sets.                                                                   *)
HoldsWhatItShould ==
  CASE kind = "list" -> List!Contents = want /\ right
    [] kind = "ring" -> Ring!Contents = want /\ right
    [] kind = "sets" -> Sets!Contents = want /\ right
    [] kind = "refs" -> TRUE

(* Freed memory is used only by an assignment whose new object, or whose   *)
(* own pointer, nothing but the reference being dropped kept alive: with   *)
(* a second reference in hand every call is safe, also between members of  *)
(* objects that refer to each other (RefCounter.h:79-99).                  *)
SafeIfCareful == kind = "refs" => Refs!SafeIfCareful
=============================================================================
