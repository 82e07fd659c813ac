----------------------------- MODULE FifoQueue ------------------------------
(***************************************************************************)
(* What both queues of include/buntils/LocklessQueue.h promise: items come *)
(* out once each, in the order in which they went in.  A Pop that returns  *)
(* false changes nothing; MicroLockQueue may return false although the     *)
(* queue is not empty, so nothing is said about when it does.              *)
(***************************************************************************)
EXTENDS Sequences

CONSTANT Item

VARIABLES queue,  \* the items inside, oldest first
          taken   \* the items popped so far, in order

vars == <<queue, taken>>

Init == queue = <<>> /\ taken = <<>>

Push(i) == queue' = Append(queue, i) /\ UNCHANGED taken

Pop == /\ queue # <<>>
       /\ taken' = Append(taken, Head(queue))
       /\ queue' = Tail(queue)

\* The destructor drops what is left.
Drop == queue' = <<>> /\ UNCHANGED taken

Next == (\E i \in Item : Push(i)) \/ Pop \/ Drop

Spec == Init /\ [][Next]_vars
=============================================================================
