------------------------------ MODULE JobStore ------------------------------
(***************************************************************************)
(* The SQLite job table of server/store.py.  Every operator below is one   *)
(* transaction of JobStore: BEGIN IMMEDIATE serialises the read-modify-    *)
(* write methods, and _connect commits or rolls back the whole block, so a *)
(* transaction is one atomic action whatever thread or process issues it.  *)
(* The module has no behaviour of its own: Worker and Submission compose   *)
(* these transactions with the threads that call them.                     *)
(* A definition named Faulty... is a deliberately wrong variant of the one  *)
(* that follows it; no behaviour uses it (README, "Mutants").              *)
(***************************************************************************)
EXTENDS Naturals, FiniteSets

CONSTANTS
  Jobs,            \* the job ids (uuid4) that may ever be drawn
  MaxQueueLength   \* config.jobs.max_queue_length

ASSUME QueueAssumption == MaxQueueLength \in Nat \ {0} /\ IsFiniteSet(Jobs)

VARIABLES
  status,     \* jobs.status, "ABSENT" when the row does not exist
  rowid,      \* jobs.rowid_order, 0 when the row does not exist
  lastRowid,  \* the AUTOINCREMENT counter
  cancelReq,  \* jobs.cancel_requested
  graded,     \* TRUE when jobs.qc_status holds a verdict
  reason,     \* jobs.error_reason, "none" for NULL
  strayEvent  \* jobs.progress_json holds a stage event added to a row not RUNNING

rowVars == <<status, rowid, lastRowid, cancelReq, graded, reason, strayEvent>>

Terminal == {"COMPLETED", "FAILED", "CANCELLED"}
Status == {"ABSENT", "PENDING", "RUNNING"} \cup Terminal
FailureReasons == {"interrupted_by_restart", "timeout", "invalid_preset",
                   "invalid_input", "pipeline_error", "internal_error"}

StoreType ==
  /\ status \in [Jobs -> Status]
  /\ rowid \in [Jobs -> Nat]
  /\ lastRowid \in Nat
  /\ cancelReq \in [Jobs -> BOOLEAN]
  /\ graded \in [Jobs -> BOOLEAN]
  /\ reason \in [Jobs -> FailureReasons \cup {"none"}]
  /\ strayEvent \in [Jobs -> BOOLEAN]

StoreInit ==
  /\ status = [j \in Jobs |-> "ABSENT"]
  /\ rowid = [j \in Jobs |-> 0]
  /\ lastRowid = 0
  /\ cancelReq = [j \in Jobs |-> FALSE]
  /\ graded = [j \in Jobs |-> FALSE]
  /\ reason = [j \in Jobs |-> "none"]
  /\ strayEvent = [j \in Jobs |-> FALSE]

Pending == {j \in Jobs : status[j] = "PENDING"}
Running == {j \in Jobs : status[j] = "RUNNING"}

(* The capacity test of E6: only PENDING rows count, the RUNNING one never. *)
QueueHasRoom == Cardinality(Pending) < MaxQueueLength

(* enqueue: capacity test and INSERT in one transaction. A full queue      *)
(* raises QueueFullError and changes nothing, which is a stuttering step.  *)
Enqueue(j) ==
  /\ status[j] = "ABSENT"
  /\ QueueHasRoom
  /\ status' = [status EXCEPT ![j] = "PENDING"]
  /\ lastRowid' = lastRowid + 1
  /\ rowid' = [rowid EXCEPT ![j] = lastRowid + 1]
  /\ UNCHANGED <<cancelReq, graded, reason, strayEvent>>

FaultyOldest(j) == j \in Pending
FaultyClaimable(j) == j \in Pending \cup Running
(* SELECT ... WHERE status = PENDING ORDER BY rowid_order LIMIT 1. *)
OldestPending(j) == j \in Pending /\ \A k \in Pending : rowid[j] <= rowid[k]

(* claim_next *)
ClaimNext(j) ==
  /\ OldestPending(j)
  /\ status' = [status EXCEPT ![j] = "RUNNING"]
  /\ UNCHANGED <<rowid, lastRowid, cancelReq, graded, reason, strayEvent>>

(* record_progress: the event, a stage of the run or a note of the routing  *)
(* step, is appended whatever the status of the row.  Of the list, the     *)
(* model keeps whether a stage event came outside RUNNING.                 *)
RecordProgress(j, kind) ==
  /\ strayEvent' = [strayEvent EXCEPT ![j] = @ \/ (kind = "stage" /\ status[j] # "RUNNING")]
  /\ UNCHANGED <<status, rowid, lastRowid, cancelReq, graded, reason>>

(* _finish, the body of mark_completed, mark_failed and mark_cancelled:    *)
(* one UPDATE that overwrites status, verdict and reason of the row with   *)
(* no test of the status it had, and leaves cancel_requested alone.        *)
Finish(j, st, g, r) ==
  /\ status' = [status EXCEPT ![j] = st]
  /\ graded' = [graded EXCEPT ![j] = g]
  /\ reason' = [reason EXCEPT ![j] = r]
  /\ UNCHANGED <<rowid, lastRowid, cancelReq, strayEvent>>

MarkCompleted(j) == Finish(j, "COMPLETED", TRUE, "none")
MarkFailed(j, r) == Finish(j, "FAILED", FALSE, r)
MarkCancelled(j) == Finish(j, "CANCELLED", FALSE, "none")

FaultyRecoverOrphans ==
  /\ status' = [j \in Jobs |-> IF j \in Running THEN "FAILED" ELSE status[j]]
  /\ UNCHANGED <<rowid, lastRowid, cancelReq, graded, reason, strayEvent>>
(* recover_orphans: every RUNNING row becomes FAILED, whoever runs it. *)
RecoverOrphans ==
  /\ status' = [j \in Jobs |-> IF j \in Running THEN "FAILED" ELSE status[j]]
  /\ reason' = [j \in Jobs |->
                  IF j \in Running THEN "interrupted_by_restart" ELSE reason[j]]
  /\ UNCHANGED <<rowid, lastRowid, cancelReq, graded, strayEvent>>

FaultyRequestCancel(j) ==
  /\ status[j] \in {"PENDING", "RUNNING"}
  /\ status' = [status EXCEPT ![j] = "CANCELLED"]
  /\ UNCHANGED <<rowid, lastRowid, cancelReq, graded, reason, strayEvent>>
(* request_cancel answers "cancelled" for a PENDING row, "requested" for a *)
(* RUNNING one, and "already_finished" (no change) for the others.         *)
RequestCancel(j) ==
  \/ /\ status[j] = "PENDING"
     /\ status' = [status EXCEPT ![j] = "CANCELLED"]
     /\ UNCHANGED <<rowid, lastRowid, cancelReq, graded, reason, strayEvent>>
  \/ /\ status[j] = "RUNNING"
     /\ cancelReq' = [cancelReq EXCEPT ![j] = TRUE]
     /\ UNCHANGED <<status, rowid, lastRowid, graded, reason, strayEvent>>
=============================================================================
