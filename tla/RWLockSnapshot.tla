--------------------------- MODULE RWLockSnapshot ---------------------------
(***************************************************************************)
(* RWLock with a history of what its callers rely on: what a thread learns *)
(* while it reads stays true until it lets go.  A thread is `overtaken'    *)
(* when another one has entered the write lock since it last began to read *)
(* (RLock, AttemptRLock, or its own Downgrade).                            *)
(***************************************************************************)
EXTENDS RWLock

VARIABLE overtaken

snapshotVars == <<flag, count, pc, overtaken>>

BeginsToRead(t) == pc[t] # "reading" /\ pc'[t] = "reading"
BeginsToWrite(t) == held[t] # "write" /\ held'[t] = "write"

SnapshotInit == Init /\ overtaken = {}

Observed(Action) ==
  /\ Action
  /\ overtaken' = {t \in Thread : \/ t \in overtaken /\ ~BeginsToRead(t)
                                  \/ \E u \in Thread \ {t} : BeginsToWrite(u)}

SnapshotNext == \E t \in Thread : \/ Observed(Step(t))
                                  \/ Observed(Release(t))
                                  \/ Observed(Call(t))

SnapshotSpec == SnapshotInit /\ [][SnapshotNext]_snapshotVars

FairSnapshotSpec == SnapshotSpec /\ Fairness

(* What a reader has seen is not stale: no writer has run since it began,  *)
(* and none runs before AttemptUpgrade turns it into the writer            *)
(* (RWLock.h:77-102, 129-139); GreedyAlloc::Alloc rests on it.             *)
SnapshotStable ==
  [][\A t \in Thread :
       /\ held[t] = "read" => t \notin overtaken
       /\ pc[t] = "aup_flush" /\ pc'[t] = "upgraded" => t \notin overtaken']_snapshotVars

(* The comment above Upgrade (RWLock.h:110): it "Upgrades a read lock to a *)
(* write lock without releasing the read lock", so what the upgrader read  *)
(* would still hold when it becomes the writer.                            *)
UpgradeKeepsSnapshot ==
  \A t \in Thread : pc[t] = "upgraded" => t \notin overtaken
=============================================================================
