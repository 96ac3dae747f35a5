-------------------------- MODULE WorkerRefinement --------------------------
(***************************************************************************)
(* One server, with its threads, its database and its crashes, implements  *)
(* the promise of JobLifecycle.                                            *)
(***************************************************************************)
EXTENDS Worker

(* The queue is not stored: it is the PENDING rows by rowid.  Place is the *)
(* place of row j among the rows S ordered by r.                           *)
Place(r, S, j) == Cardinality({k \in S : r[k] <= r[j]})
InOrder(r, S) == [i \in 1..Cardinality(S) |-> CHOOSE j \in S : Place(r, S, j) = i]
WaitingInOrder == InOrder(rowid, Pending)
RunningJob == IF Running = {} THEN NoJob ELSE CHOOSE j \in Running : TRUE

Life == INSTANCE JobLifecycle WITH
  queue <- WaitingInOrder,
  running <- RunningJob,
  outcome <- [j \in Jobs |-> IF status[j] \in Terminal THEN status[j] ELSE "none"]

(* First come, first served, one at a time, one outcome each: every step   *)
(* of the store, the threads and the restarts is a step of the abstract    *)
(* queue or leaves it alone.                                               *)
ImplementsLifecycle == Life!Spec
=============================================================================
