------------------------------ MODULE MCQueues ------------------------------
(***************************************************************************)
(* Both queues of include/buntils/LocklessQueue.h for TLC: a behaviour is  *)
(* one of the single-producer queue or one of the multi-producer queue, as *)
(* `kind' says.  Variables of the same name are the same field of either.  *)
(***************************************************************************)
EXTENDS Naturals

CONSTANTS Thread, MaxNode, MaxItem, Width, Null, Nobody

VARIABLES kind,
          div, last, next, item, free, length, pushed, taken,  \* of both
          first, ppc, cpc, seen,                               \* LocklessQueue
          pflag, cflag, pc, node                               \* MicroLockQueue

spscVars == <<first, ppc, cpc, seen>>
mpmcVars == <<pflag, cflag, pc, node>>
vars == <<kind, div, last, next, item, free, length, pushed, taken, spscVars, mpmcVars>>

Spsc == INSTANCE LocklessQueue
Mpmc == INSTANCE MicroLockQueue

ASSUME OneProducerAssumption == Spsc!Assumptions
ASSUME ManyProducersAssumption == Mpmc!Assumptions

Init == \/ /\ kind = "spsc" /\ Spsc!Init
           /\ pflag = Nobody /\ cflag = Nobody
           /\ pc = [t \in Thread |-> "idle"] /\ node = [t \in Thread |-> Null]
        \/ /\ kind = "mpmc" /\ Mpmc!Init
           /\ first = Null /\ ppc = "none" /\ cpc = "none" /\ seen = Null

OfSpsc(A) == kind = "spsc" /\ A /\ UNCHANGED <<kind, mpmcVars>>
OfMpmc(A) == kind = "mpmc" /\ A /\ UNCHANGED <<kind, spscVars>>

Next == \/ OfSpsc(Spsc!PushLink) \/ OfSpsc(Spsc!PushConstruct) \/ OfSpsc(Spsc!PushPublish)
        \/ OfSpsc(Spsc!PushLength) \/ OfSpsc(Spsc!Collect)
        \/ OfSpsc(Spsc!Pop) \/ OfSpsc(Spsc!PopTest) \/ OfSpsc(Spsc!PopTake)
        \/ OfSpsc(Spsc!PopPublish) \/ OfSpsc(Spsc!PopLength)
        \/ OfSpsc(Spsc!Destroy) \/ OfSpsc(Spsc!Terminated)
        \/ \E t \in Thread :
             \/ OfMpmc(Mpmc!Push(t)) \/ OfMpmc(Mpmc!PushFlag(t)) \/ OfMpmc(Mpmc!PushLink(t))
             \/ OfMpmc(Mpmc!PushLast(t)) \/ OfMpmc(Mpmc!PushClear(t)) \/ OfMpmc(Mpmc!PushLength(t))
             \/ OfMpmc(Mpmc!Pop(t)) \/ OfMpmc(Mpmc!PopLook(t)) \/ OfMpmc(Mpmc!PopFlag(t))
             \/ OfMpmc(Mpmc!PopNext(t)) \/ OfMpmc(Mpmc!PopTake(t)) \/ OfMpmc(Mpmc!PopClear(t))
             \/ OfMpmc(Mpmc!PopFree(t)) \/ OfMpmc(Mpmc!PopLength(t))
        \/ OfMpmc(Mpmc!Destroy) \/ OfMpmc(Mpmc!Terminated)

Spec == Init /\ [][Next]_vars

\* A thread inside an operation is not suspended for ever.  Nothing makes the
\* spins fair: who waits for a flag gets it when the others stop taking it.
FairSpec == Spec /\ \A t \in Thread : WF_vars(OfMpmc(Mpmc!Step(t)))
-----------------------------------------------------------------------------
TypeOK == /\ kind \in {"spsc", "mpmc"}
          /\ IF kind = "spsc" THEN Spsc!TypeOK ELSE Mpmc!TypeOK

(* No step but one uses a freed node.  Single producer: the consumer never *)
(* reads, and the producer never links, a node that the producer has freed behind _div    *)
(* (LocklessQueue.h:93-94, 118, 124-130).  Many producers: although they   *)
(* take different flags, a consumer never frees the node a producer is     *)
(* about to link to, not even between the producer's two stores (196,      *)
(* 224-225).  The step excepted is its look without the flag (182), which  *)
(* may read a node that is free or reused; whoever goes on from there     *)
(* looks again with the flag (187-190).  In both every node is free, in the list or in one thread's   *)
(* hands, and the destructors leave none behind (76-84, 169-177).          *)
NodesSafe == IF kind = "spsc" THEN Spsc!NoUseAfterFree /\ Spsc!NoLeak
                              ELSE Mpmc!NoUseAfterFree /\ Mpmc!NodesConserved

(* size() is off exactly by the operations that have moved an item but not *)
(* yet counted it (LocklessQueue.h:34-35); it wraps below zero when a Pop  *)
(* counts before the Push it took from.                                    *)
LengthTracks == IF kind = "spsc" THEN Spsc!LengthTracks ELSE Mpmc!LengthTracks

(* First in, first out, nothing lost or twice, for all interleavings: each *)
(* queue implements the abstract one.                                      *)
Fifo == INSTANCE FifoQueue
          WITH queue <- IF kind = "spsc" THEN Spsc!Inside ELSE Mpmc!Inside,
               Item <- 1..MaxItem
FifoSpec == Fifo!Spec

(* Once nothing more is pushed every Push and Pop returns: neither flag is *)
(* left set on a path out (LocklessQueue.h:185-202, 222-226), and whoever  *)
(* looks at an empty queue keeps away from _cflag (182-183).               *)
OperationEnds ==
  \A t \in Thread : pc[t] # "idle" ~> pc[t] = "idle"
=============================================================================
