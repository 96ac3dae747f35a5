---------------------------- MODULE WorkerProofs ----------------------------
(***************************************************************************)
(* First, what holds of the worker for every number of servers, jobs,      *)
(* detectors and tools and under every fault: its types, what the position *)
(* of a thread says of its data, who owns a claimed job, and why a job may *)
(* be called timed out or cancelled.  Then what the single service process *)
(* the code is written for guarantees of the jobs: the inductive invariant *)
(* of WorkerInv is proved part by part, each part resting on the ones      *)
(* before it.  Last, that this process, whatever it runs, crashes on or is *)
(* asked to stop, implements the first-come first-served queue of          *)
(* JobLifecycle.                                                           *)
(***************************************************************************)
EXTENDS WorkerInv, WorkerRefinement, FiniteSetTheorems, SequenceTheorems, TLAPS

(* The types and the thread invariant are inductive together: the thread   *)
(* invariant bounds the stage and the job a step uses as an index.         *)
LEMMA TypeThreadStep ==
  ASSUME TypeOK, ThreadInv, [Next]_vars
  PROVE  TypeOK' /\ ThreadInv'
<1> USE WorkerAssumption
<1> USE DEF TypeOK, ThreadInv, StoreType, Status, Terminal, FailureReasons, Causes,
        WorkerPcs, Busy, InRunner, RulesStage, EvidenceStage, HashingStage,
        RenderStage, RunsTools, IsDetector, DeepdubErrors,
        rowVars, threadVars, jobVars, histVars, vars, GoTo, End, EnterStage
<1>1. ASSUME NEW s \in Servers, Start(s) PROVE TypeOK' /\ ThreadInv'
  BY <1>1 DEF Start, RecoverOrphans, Running
<1>2. ASSUME NEW s \in Servers, Crash(s) PROVE TypeOK' /\ ThreadInv'
  BY <1>2 DEF Crash
<1>3. ASSUME NEW s \in Servers, NEW j \in Jobs, Claim(s, j) PROVE TypeOK' /\ ThreadInv'
  BY <1>3 DEF Claim, ClaimNext, OldestPending, Pending
<1>4. ASSUME NEW s \in Servers, Begin(s) PROVE TypeOK' /\ ThreadInv'
  BY <1>4 DEF Begin
<1>5. ASSUME NEW s \in Servers, Callback(s) PROVE TypeOK' /\ ThreadInv'
  BY <1>5 DEF Callback, RecordProgress
<1>6. ASSUME NEW s \in Servers, CheckCancel(s) PROVE TypeOK' /\ ThreadInv'
  BY <1>6 DEF CheckCancel
<1>7. ASSUME NEW s \in Servers, SpawnTool(s) PROVE TypeOK' /\ ThreadInv'
  BY <1>7 DEF SpawnTool
<1>8. ASSUME NEW s \in Servers, RegisterTool(s) \/ ToolSucceeds(s) PROVE TypeOK' /\ ThreadInv'
  BY <1>8 DEF RegisterTool, ToolSucceeds
<1>9. ASSUME NEW s \in Servers, ToolFails(s) PROVE TypeOK' /\ ThreadInv'
  BY <1>9 DEF ToolFails
<1>10. ASSUME NEW s \in Servers, StageDone(s) PROVE TypeOK' /\ ThreadInv'
  <2>1. CASE IsDetector(stage[s])
    BY <1>10, <2>1 DEF StageDone
  <2>2. CASE stage[s] = RulesStage
    BY <1>10, <2>2 DEF StageDone
  <2>3. CASE stage[s] \in {EvidenceStage, HashingStage}
    BY <1>10, <2>3 DEF StageDone
  <2>4. CASE stage[s] = RenderStage
    <3>1. /\ wpc' = [wpc EXCEPT ![s] = "pdf"]
          /\ report' = [report EXCEPT ![job[s]] = TRUE]
          /\ UNCHANGED <<rowVars, job, stage, spawned, cause, tool, owner, mon,
                         timedOut, posted, histVars>>
      BY <1>10, <2>4 DEF StageDone
    <3>2. TypeOK'
      BY <1>10, <3>1 DEF StageDone
    <3>3. ThreadInv'
      BY <1>10, <3>1 DEF StageDone
    <3>4. QED
      BY <3>2, <3>3
  <2>5. QED
    BY <1>10, <2>1, <2>2, <2>3, <2>4 DEF StageDone
<1>11. ASSUME NEW s \in Servers, StageRaises(s) PROVE TypeOK' /\ ThreadInv'
  BY <1>11 DEF StageRaises
<1>12. ASSUME NEW s \in Servers, Classify(s) PROVE TypeOK' /\ ThreadInv'
  BY <1>12 DEF Classify
<1>13. ASSUME NEW s \in Servers, RenderPdf(s) \/ PdfEscapes(s) PROVE TypeOK' /\ ThreadInv'
  BY <1>13 DEF RenderPdf, PdfEscapes
<1>14. ASSUME NEW s \in Servers, Write(s) PROVE TypeOK' /\ ThreadInv'
  <2>1. cause[s] \notin {"completed", "cancelled"} => cause[s] \in FailureReasons
    BY <1>14 DEF Write
  <2>2. PICK st \in Terminal, g \in BOOLEAN, r \in FailureReasons \cup {"none"} :
          Finish(job[s], st, g, r)
    BY <1>14, <2>1 DEF Write, MarkCompleted, MarkFailed, MarkCancelled
  <2>3. TypeOK'
    BY <1>14, <2>2 DEF Write, Finish
  <2>4. ThreadInv'
    BY <1>14, <2>2 DEF Write, Finish
  <2>5. QED
    BY <2>3, <2>4
<1>15. ASSUME NEW s \in Servers, JoinMonitor(s) \/ Post(s) PROVE TypeOK' /\ ThreadInv'
  <2>1. CASE JoinMonitor(s)
    BY <2>1 DEF JoinMonitor
  <2>2. CASE Post(s)
    <3>1. job[s] \in Jobs /\ tool[s] = "none"
      BY <2>2 DEF Post
    <3>2. /\ posted' \in [Jobs -> BOOLEAN] /\ strayEvent' \in [Jobs -> BOOLEAN]
          /\ UNCHANGED <<status, rowid, lastRowid, cancelReq, graded, reason>>
      <4>1. CASE RecordProgress(job[s], "note") /\ posted' = [posted EXCEPT ![job[s]] = TRUE]
        BY <3>1, <4>1 DEF RecordProgress
      <4>2. CASE UNCHANGED <<posted, rowVars>>
        BY <4>2
      <4>3. QED
        BY <2>2, <4>1, <4>2 DEF Post
    <3>3. TypeOK'
      BY <2>2, <3>1, <3>2 DEF Post
    <3>4. ThreadInv'
      BY <2>2, <3>1, <3>2 DEF Post
    <3>5. QED
      BY <3>3, <3>4
  <2>3. QED
    BY <1>15, <2>1, <2>2
<1>16. ASSUME NEW s \in Servers, StoreFails(s) PROVE TypeOK' /\ ThreadInv'
  BY <1>16 DEF StoreFails
<1>17. ASSUME NEW j \in Jobs, Submit(j) PROVE TypeOK' /\ ThreadInv'
  BY <1>17 DEF Submit, Enqueue
<1>18. ASSUME NEW j \in Jobs, Cancel(j) PROVE TypeOK' /\ ThreadInv'
  <2>1. TypeOK'
    <3> DEFINE late == \/ lateCancel[j]
                       \/ /\ status[j] = "RUNNING" /\ ~cancelReq[j]
                          /\ \A s \in Servers : Executes(s, j) => PastLastCheck(s)
    <3>1. lateCancel' = [lateCancel EXCEPT ![j] = late]
      BY <1>18 DEF Cancel
    <3>2. late \in BOOLEAN
      OBVIOUS
    <3> HIDE DEF late
    <3>5. lateCancel' \in [Jobs -> BOOLEAN]
      BY <3>1, <3>2
    <3>3. RequestCancel(j) /\ UNCHANGED <<threadVars, jobVars, tainted, lateDeadline, crashes>>
      BY <1>18 DEF Cancel
    <3>4. StoreType'
      <4>1. CASE status[j] = "PENDING"
        BY <3>3, <4>1 DEF RequestCancel
      <4>2. CASE status[j] = "RUNNING"
        <5>1. /\ cancelReq' = [cancelReq EXCEPT ![j] = TRUE]
              /\ UNCHANGED <<status, rowid, lastRowid, graded, reason, strayEvent>>
          BY <3>3, <4>2 DEF RequestCancel
        <5>2. QED
          BY <5>1
      <4>3. QED
        BY <3>3, <4>1, <4>2 DEF RequestCancel
    <3>6. QED
      BY <3>3, <3>4, <3>5
  <2>2. ThreadInv'
    BY <1>18 DEF Cancel, RequestCancel
  <2>3. QED
    BY <2>1, <2>2
<1>19. ASSUME NEW j \in Jobs, MonitorDeadline(j) \/ MonitorCancel(j) \/ MonitorExit(j)
              \/ MonitorDies(j) PROVE TypeOK' /\ ThreadInv'
  <2>1. CASE MonitorDeadline(j)
    <3> DEFINE late == \A s \in Servers : Executes(s, j) => PastLastTest(s)
    <3>1. /\ timedOut' = [timedOut EXCEPT ![j] = TRUE]
          /\ lateDeadline' = [lateDeadline EXCEPT ![j] = late]
          /\ mon' = [mon EXCEPT ![j] = "kill"]
          /\ UNCHANGED <<MonitorFrame, tool, tainted>>
      BY <2>1 DEF MonitorDeadline
    <3>2. late \in BOOLEAN
      OBVIOUS
    <3> HIDE DEF late
    <3>3. lateDeadline' \in [Jobs -> BOOLEAN]
      BY <3>1, <3>2
    <3>4. TypeOK'
      BY <3>1, <3>3 DEF MonitorFrame
    <3>5. mon[j] = "waiting"
      BY <2>1 DEF MonitorDeadline
    <3>6. QED
      BY <3>1, <3>4, <3>5 DEF MonitorFrame
  <2>2. CASE MonitorCancel(j) \/ MonitorExit(j) \/ MonitorDies(j)
    BY <2>2 DEF MonitorCancel, MonitorExit, MonitorDies, MonitorFrame
  <2>3. QED
    BY <1>19, <2>1, <2>2
<1>20. ASSUME NEW j \in Jobs, MonitorKill(j) PROVE TypeOK' /\ ThreadInv'
  <2> DEFINE s == owner[j]
  <2>1. s \in Servers
    BY <1>20 DEF MonitorKill
  <2>2. CASE tool[s] = "active"
    <3>1. /\ mon' = [mon EXCEPT ![j] = "done"]
          /\ tool' = [tool EXCEPT ![s] = "killed"]
          /\ tainted' = [tainted EXCEPT ![job[s]] = TRUE]
          /\ UNCHANGED <<MonitorFrame, timedOut, lateDeadline>>
      BY <1>20, <2>2 DEF MonitorKill
    <3>2. TypeOK'
      BY <2>1, <3>1 DEF MonitorFrame
    <3>3. ThreadInv'
      BY <2>1, <2>2, <3>1 DEF MonitorFrame
    <3>4. QED
      BY <3>2, <3>3
  <2>3. CASE tool[s] # "active"
    BY <1>20, <2>1, <2>3 DEF MonitorKill, MonitorFrame
  <2>4. QED
    BY <2>2, <2>3
<1>21. CASE UNCHANGED vars
  BY <1>21
<1>22. QED
  BY <1>1, <1>2, <1>3, <1>4, <1>5, <1>6, <1>7, <1>8, <1>9, <1>10, <1>11, <1>12, <1>13,
     <1>14, <1>15, <1>16, <1>17, <1>18, <1>19, <1>20, <1>21 DEF Next, WorkerStep, MonitorStep

(* The same facts hold before the service is started. *)
LEMMA TypeThreadInit == Init => TypeOK /\ ThreadInv
  BY WorkerAssumption
     DEF Init, StoreInit, TypeOK, ThreadInv, StoreType, Status, Terminal,
         FailureReasons, Causes, WorkerPcs, Busy, InRunner, RenderStage, RunsTools

(* Every state of the service is well-typed and every thread consistent    *)
(* with its position, whatever crashes, cancels and kills happen.          *)
THEOREM TypeCorrect == Spec => [](TypeOK /\ ThreadInv)
<1>1. TypeOK /\ ThreadInv /\ [Next]_vars => (TypeOK /\ ThreadInv)'
  BY TypeThreadStep
<1>2. QED
  BY TypeThreadInit, <1>1, PTL DEF Spec

-----------------------------------------------------------------------------
(* The steps that leave the outcome columns, the flag and the owner of     *)
(* every row alone.                                                        *)
QuietWorker(s) ==
  \/ Crash(s) \/ Begin(s) \/ Callback(s) \/ CheckCancel(s) \/ SpawnTool(s)
  \/ RegisterTool(s) \/ ToolSucceeds(s) \/ ToolFails(s) \/ StageDone(s)
  \/ StageRaises(s) \/ Classify(s) \/ RenderPdf(s) \/ PdfEscapes(s)
  \/ JoinMonitor(s) \/ Post(s) \/ StoreFails(s)

QuietMonitor(j) ==
  MonitorDeadline(j) \/ MonitorCancel(j) \/ MonitorKill(j) \/ MonitorExit(j) \/ MonitorDies(j)

(* A step of _execute other than the claim and the terminal write touches  *)
(* no outcome column and no deadline.                                      *)
LEMMA QuietWorkerStep ==
  ASSUME NEW s \in Servers, QuietWorker(s)
  PROVE  UNCHANGED <<status, rowid, lastRowid, cancelReq, graded, reason, owner, timedOut>>
  BY DEF QuietWorker, Crash, Begin, Callback, RecordProgress, CheckCancel, SpawnTool,
         RegisterTool, ToolSucceeds, ToolFails, StageDone, StageRaises, Classify,
         RenderPdf, PdfEscapes, JoinMonitor, Post, StoreFails, rowVars, jobVars

(* A monitor thread writes no row; it only ever sets its own deadline flag. *)
LEMMA QuietMonitorStep ==
  ASSUME TypeOK, NEW j \in Jobs, QuietMonitor(j)
  PROVE  /\ UNCHANGED <<status, rowid, lastRowid, cancelReq, graded, reason, strayEvent, owner>>
         /\ \A k \in Jobs : timedOut[k] => timedOut'[k]
<1>1. CASE MonitorDeadline(j)
  BY <1>1 DEF MonitorDeadline, MonitorFrame, rowVars, TypeOK
<1>2. CASE MonitorCancel(j) \/ MonitorKill(j) \/ MonitorExit(j) \/ MonitorDies(j)
  BY <1>2 DEF MonitorCancel, MonitorKill, MonitorExit, MonitorDies, MonitorFrame, rowVars
<1>3. QED
  BY <1>1, <1>2 DEF QuietMonitor

(* Every step is quiet or one of the five that write a row or an owner. *)
LEMMA StepKinds ==
  ASSUME [Next]_vars
  PROVE  \/ \E s \in Servers : \/ Start(s) \/ Write(s) \/ QuietWorker(s)
                                \/ \E j \in Jobs : Claim(s, j)
         \/ \E j \in Jobs : Submit(j) \/ Cancel(j) \/ QuietMonitor(j)
         \/ UNCHANGED vars
  BY DEF Next, WorkerStep, MonitorStep, QuietWorker, QuietMonitor

(* Only the terminal write and the cancel of a queued job can give a row   *)
(* the outcome timed out or cancelled, and both act on the job's own       *)
(* deadline and flag.                                                      *)
LEMMA OwnReasonStep ==
  ASSUME TypeOK, ThreadInv, StoppedForItsOwnReason, [Next]_vars
  PROVE  StoppedForItsOwnReason'
<1> USE DEF StoppedForItsOwnReason
<1> USE DEF TypeOK, StoreType, rowVars, jobVars, histVars
<1>1. ASSUME NEW s \in Servers, Start(s) PROVE StoppedForItsOwnReason'
  BY <1>1 DEF Start, RecoverOrphans, Running
<1>2. ASSUME NEW s \in Servers, Write(s) PROVE StoppedForItsOwnReason'
  <2>1. job[s] \in Jobs
    BY <1>2 DEF Write, ThreadInv, Busy
  <2>2. CASE cause[s] = "completed"
    BY <1>2, <2>1, <2>2 DEF Write, MarkCompleted, Finish
  <2>3. CASE cause[s] = "cancelled"
    BY <1>2, <2>1, <2>3 DEF Write, MarkCancelled, Finish, ThreadInv
  <2>4. CASE cause[s] \notin {"completed", "cancelled"}
    BY <1>2, <2>1, <2>4 DEF Write, MarkFailed, Finish, ThreadInv
  <2>5. QED
    BY <2>2, <2>3, <2>4
<1>3. ASSUME NEW s \in Servers, QuietWorker(s) PROVE StoppedForItsOwnReason'
  BY <1>3, QuietWorkerStep
<1>4. ASSUME NEW s \in Servers, NEW j \in Jobs, Claim(s, j) PROVE StoppedForItsOwnReason'
  BY <1>4 DEF Claim, ClaimNext
<1>5. ASSUME NEW j \in Jobs, Submit(j) PROVE StoppedForItsOwnReason'
  BY <1>5 DEF Submit, Enqueue
<1>6. ASSUME NEW j \in Jobs, Cancel(j) PROVE StoppedForItsOwnReason'
  <2>1. RequestCancel(j) /\ UNCHANGED <<owner, timedOut>>
    BY <1>6 DEF Cancel
  <2>2. CASE status[j] = "PENDING"
    BY <2>1, <2>2 DEF RequestCancel, ThreadInv
  <2>3. CASE status[j] = "RUNNING"
    BY <2>1, <2>3 DEF RequestCancel
  <2>4. QED
    BY <2>1, <2>2, <2>3 DEF RequestCancel
<1>7. ASSUME NEW j \in Jobs, QuietMonitor(j) PROVE StoppedForItsOwnReason'
  BY <1>7, QuietMonitorStep
<1>8. CASE UNCHANGED vars
  BY <1>8 DEF vars
<1>9. QED
  BY <1>1, <1>2, <1>3, <1>4, <1>5, <1>6, <1>7, <1>8, StepKinds

(* A job is reported timed out only after its own deadline and cancelled   *)
(* only on a request for it: with any number of servers, and although a    *)
(* monitor that outlives its join may kill the tool of the job after it.   *)
THEOREM OwnReasonCorrect == Spec => []StoppedForItsOwnReason
<1>1. Init => StoppedForItsOwnReason
  BY DEF Init, StoreInit, StoppedForItsOwnReason
<1>2. TypeOK /\ ThreadInv /\ StoppedForItsOwnReason /\ [Next]_vars => StoppedForItsOwnReason'
  BY OwnReasonStep
<1>3. QED
  BY <1>1, <1>2, TypeCorrect, PTL DEF Spec
(* Only the claim of a PENDING row sets an owner, and a row is PENDING     *)
(* only before its first claim: so nobody takes a job from the thread that *)
(* holds it, although a second server may fail or finish its row.          *)
LEMMA OwnerStep ==
  ASSUME TypeOK, ThreadInv, OwnerInv, [Next]_vars
  PROVE  OwnerInv'
<1> USE DEF OwnerInv, Holding, Busy, InRunner, TypeOK, rowVars, threadVars, jobVars, histVars,
            GoTo, End, EnterStage
<1>1. ASSUME NEW s \in Servers, Start(s) PROVE OwnerInv'
  BY <1>1 DEF Start
<1>2. ASSUME NEW s \in Servers, Write(s) PROVE OwnerInv'
  BY <1>2 DEF Write
<1>3. ASSUME NEW s \in Servers, QuietWorker(s) PROVE OwnerInv'
  <2>1. owner' = owner
    BY <1>3, QuietWorkerStep
  <2>2. \A t \in Servers : wpc'[t] \in Holding => wpc[t] \in Holding /\ job'[t] = job[t]
    BY <1>3 DEF QuietWorker, Crash, Begin, Callback, CheckCancel, SpawnTool, RegisterTool,
         ToolSucceeds, ToolFails, StageDone, StageRaises, Classify, RenderPdf, PdfEscapes,
         JoinMonitor, Post, StoreFails, ThreadInv
  <2>3. QED
    BY <2>1, <2>2
<1>4. ASSUME NEW s \in Servers, NEW j \in Jobs, Claim(s, j) PROVE OwnerInv'
  <2>1. \A t \in Servers : wpc[t] \in Holding => job[t] # j
    BY <1>4, WorkerAssumption DEF Claim, ClaimNext, OldestPending, Pending, ThreadInv
  <2>2. QED
    BY <1>4, <2>1 DEF Claim, ThreadInv
<1>5. ASSUME NEW j \in Jobs, Submit(j) \/ Cancel(j) PROVE OwnerInv'
  BY <1>5 DEF Submit, Cancel
<1>6. ASSUME NEW j \in Jobs, QuietMonitor(j) PROVE OwnerInv'
  <2>1. UNCHANGED <<wpc, job, owner>>
    BY <1>6 DEF QuietMonitor, MonitorDeadline, MonitorCancel, MonitorKill, MonitorExit,
         MonitorDies, MonitorFrame
  <2>2. QED
    BY <2>1
<1>7. CASE UNCHANGED vars
  BY <1>7 DEF vars
<1>8. QED
  BY <1>1, <1>2, <1>3, <1>4, <1>5, <1>6, <1>7, StepKinds

(* However many processes share the database, crash, recover each other's  *)
(* orphans or meet faults, no two of them ever execute the same job.       *)
THEOREM ClaimCorrect == Spec => []NoDoubleClaim
<1>1. Init => OwnerInv
  BY DEF Init, OwnerInv, Holding, Busy, InRunner
<1>2. TypeOK /\ ThreadInv /\ OwnerInv /\ [Next]_vars => OwnerInv'
  BY OwnerStep
<1>3. OwnerInv => NoDoubleClaim
  BY DEF OwnerInv, NoDoubleClaim, Holding
<1>4. QED
  BY <1>1, <1>2, <1>3, TypeCorrect, PTL DEF Spec

-----------------------------------------------------------------------------

(* Exactly one thread works on a running job, every row's outcome columns  *)
(* agree and nothing is posted early: preserved by every step of one       *)
(* server, under every fault.                                              *)
LEMMA OneServerStep ==
  ASSUME OneServer, TypeOK, ThreadInv, OneServerInv, [Next]_vars
  PROVE  OneServerInv'
<1> USE DEF TypeOK, StoreType, OneServerInv, OutcomeConsistent, PostedOnlySettled,
            StageEventsOnlyWhileRunning, Executes, Busy, InRunner, Terminal, Running,
            rowVars, threadVars, jobVars, histVars, GoTo, End, EnterStage
<1>0. \A s, t \in Servers : s = t
  BY DEF OneServer
<1>1. ASSUME NEW s \in Servers, Start(s) PROVE OneServerInv'
  BY <1>0, <1>1 DEF Start, RecoverOrphans
<1>2. ASSUME NEW s \in Servers, Crash(s) PROVE OneServerInv'
  BY <1>0, <1>2 DEF Crash
<1>3. ASSUME NEW s \in Servers, NEW j \in Jobs, Claim(s, j) PROVE OneServerInv'
  BY <1>0, <1>3 DEF Claim, ClaimNext, OldestPending, Pending
<1>4. ASSUME NEW s \in Servers, Begin(s) PROVE OneServerInv'
  BY <1>0, <1>4 DEF Begin
<1>5. ASSUME NEW s \in Servers, Callback(s) PROVE OneServerInv'
  BY <1>0, <1>5 DEF Callback, RecordProgress, ThreadInv
<1>6. ASSUME NEW s \in Servers, CheckCancel(s) PROVE OneServerInv'
  BY <1>0, <1>6 DEF CheckCancel
<1>7. ASSUME NEW s \in Servers, SpawnTool(s) \/ RegisterTool(s) \/ ToolSucceeds(s) PROVE OneServerInv'
  BY <1>0, <1>7 DEF SpawnTool, RegisterTool, ToolSucceeds
<1>8. ASSUME NEW s \in Servers, ToolFails(s) PROVE OneServerInv'
  BY <1>0, <1>8 DEF ToolFails, ThreadInv
<1>9. ASSUME NEW s \in Servers, StageDone(s) PROVE OneServerInv'
  BY <1>0, <1>9 DEF StageDone
<1>10. ASSUME NEW s \in Servers, StageRaises(s) \/ Classify(s) \/ RenderPdf(s) \/ PdfEscapes(s)
       PROVE OneServerInv'
  BY <1>0, <1>10 DEF StageRaises, Classify, RenderPdf, PdfEscapes
<1>11. ASSUME NEW s \in Servers, Write(s) PROVE OneServerInv'
  BY <1>0, <1>11 DEF Write, MarkCompleted, MarkFailed, MarkCancelled, Finish, ThreadInv, Causes, FailureReasons
<1>12. ASSUME NEW s \in Servers, JoinMonitor(s) PROVE OneServerInv'
  BY <1>0, <1>12 DEF JoinMonitor
<1>13. ASSUME NEW s \in Servers, Post(s) PROVE OneServerInv'
  BY <1>0, <1>13 DEF Post, RecordProgress, ThreadInv
<1>14. ASSUME NEW s \in Servers, StoreFails(s) PROVE OneServerInv'
  BY <1>0, <1>14 DEF StoreFails
<1>15. ASSUME NEW j \in Jobs, Submit(j) PROVE OneServerInv'
  BY <1>0, <1>15 DEF Submit, Enqueue
<1>16. ASSUME NEW j \in Jobs, Cancel(j) PROVE OneServerInv'
  <2>1. RequestCancel(j) /\ UNCHANGED <<threadVars, jobVars>>
    BY <1>16 DEF Cancel
  <2>2. CASE status[j] = "PENDING"
    <3>1. /\ status' = [status EXCEPT ![j] = "CANCELLED"]
          /\ UNCHANGED <<graded, reason, strayEvent>>
      BY <2>1, <2>2 DEF RequestCancel
    <3>2. OutcomeConsistent' /\ PostedOnlySettled' /\ StageEventsOnlyWhileRunning'
      BY <2>1, <2>2, <3>1
    <3>3. Running' = Running
      BY <2>2, <3>1
    <3>4. QED
      BY <2>1, <2>2, <3>1, <3>2, <3>3
  <2>3. CASE status[j] = "RUNNING"
    BY <1>0, <2>1, <2>3 DEF RequestCancel
  <2>4. QED
    BY <2>1, <2>2, <2>3 DEF RequestCancel
<1>17. ASSUME NEW j \in Jobs, QuietMonitor(j) PROVE OneServerInv'
  <2>1. UNCHANGED <<rowVars, wpc, job, owner, posted>>
    BY <1>17 DEF QuietMonitor, MonitorDeadline, MonitorCancel, MonitorKill, MonitorExit,
                 MonitorDies, MonitorFrame
  <2>2. QED
    BY <2>1
<1>18. CASE UNCHANGED vars
  BY <1>18 DEF vars
<1> HIDE DEF OneServerInv
<1>19. ASSUME NEW s \in Servers, QuietWorker(s) PROVE OneServerInv'
  BY <1>19, <1>2, <1>4, <1>5, <1>6, <1>7, <1>8, <1>9, <1>10, <1>12, <1>13, <1>14
     DEF QuietWorker
<1>20. QED
  BY <1>1, <1>3, <1>11, <1>15, <1>16, <1>17, <1>18, <1>19, StepKinds

(* A report is written behind the last check of the run, so no later step  *)
(* of its job but a crash or a dead thread keeps it from completing.       *)
LEMMA ReportStep ==
  ASSUME OneServer, TypeOK, ThreadInv, OneServerInv, ReportInv, [Next]_vars
  PROVE  ReportInv'
<1> USE DEF ReportInv, TypeOK, StoreType, ThreadInv, OneServerInv, Executes, Busy, InRunner, Terminal,
            RulesStage, EvidenceStage, HashingStage, RenderStage, RunsTools, IsDetector,
            rowVars, threadVars, jobVars, histVars, GoTo, End, EnterStage
<1>0. \A s, t \in Servers : s = t
  BY DEF OneServer
<1>1. ASSUME NEW s \in Servers, Start(s) PROVE ReportInv'
  BY <1>0, <1>1 DEF Start, RecoverOrphans, Running
<1>2. ASSUME NEW s \in Servers, Crash(s) PROVE ReportInv'
  BY <1>0, <1>2 DEF Crash
<1>3. ASSUME NEW s \in Servers, NEW j \in Jobs, Claim(s, j) PROVE ReportInv'
  BY <1>0, <1>3 DEF Claim, ClaimNext, OldestPending, Pending
<1>4. ASSUME NEW s \in Servers, Begin(s) PROVE ReportInv'
  BY <1>0, <1>4 DEF Begin
<1>5. ASSUME NEW s \in Servers, Callback(s) PROVE ReportInv'
  BY <1>0, <1>5 DEF Callback, RecordProgress
<1>6. ASSUME NEW s \in Servers, CheckCancel(s) PROVE ReportInv'
  BY <1>0, <1>6 DEF CheckCancel
<1>7. ASSUME NEW s \in Servers, SpawnTool(s) \/ RegisterTool(s) \/ ToolSucceeds(s) PROVE ReportInv'
  BY <1>0, <1>7 DEF SpawnTool, RegisterTool, ToolSucceeds
<1>8. ASSUME NEW s \in Servers, ToolFails(s) PROVE ReportInv'
  BY <1>0, <1>8 DEF ToolFails
<1>9. ASSUME NEW s \in Servers, StageDone(s) PROVE ReportInv'
  BY <1>0, <1>9 DEF StageDone
<1>10. ASSUME NEW s \in Servers, StageRaises(s) PROVE ReportInv'
  BY <1>0, <1>10 DEF StageRaises
<1>11. ASSUME NEW s \in Servers, Classify(s) PROVE ReportInv'
  BY <1>0, <1>11 DEF Classify
<1>12. ASSUME NEW s \in Servers, RenderPdf(s) \/ PdfEscapes(s) PROVE ReportInv'
  BY <1>0, <1>12 DEF RenderPdf, PdfEscapes
<1>13. ASSUME NEW s \in Servers, Write(s) PROVE ReportInv'
  BY <1>0, <1>13 DEF Write, MarkCompleted, MarkFailed, MarkCancelled, Finish
<1>14. ASSUME NEW s \in Servers, JoinMonitor(s) \/ Post(s) PROVE ReportInv'
  BY <1>0, <1>14 DEF JoinMonitor, Post, RecordProgress
<1>15. ASSUME NEW s \in Servers, StoreFails(s) PROVE ReportInv'
  BY <1>0, <1>15 DEF StoreFails
<1>16. ASSUME NEW j \in Jobs, Submit(j) PROVE ReportInv'
  BY <1>0, <1>16 DEF Submit, Enqueue
<1>17. ASSUME NEW j \in Jobs, Cancel(j) PROVE ReportInv'
  BY <1>0, <1>17 DEF Cancel, RequestCancel, PastLastCheck, Executes
<1>18. ASSUME NEW j \in Jobs, QuietMonitor(j) PROVE ReportInv'
  BY <1>0, <1>18 DEF QuietMonitor, MonitorDeadline, MonitorCancel, MonitorKill, MonitorExit, MonitorDies, MonitorFrame, JobDone, Executes
<1>19. CASE UNCHANGED vars
  BY <1>19 DEF vars
<1> HIDE DEF ReportInv
<1>20. ASSUME NEW s \in Servers, QuietWorker(s) PROVE ReportInv'
  BY <1>20, <1>2, <1>4, <1>5, <1>6, <1>7, <1>8, <1>9, <1>10, <1>11, <1>12, <1>14, <1>15
     DEF QuietWorker
<1>21. QED
  BY <1>1, <1>3, <1>13, <1>16, <1>17, <1>18, <1>19, <1>20, StepKinds

(* A cancel request that found a check ahead of it still has one, or the    *)
(* outcome about to be written already honours it.                         *)
LEMMA CancelStep ==
  ASSUME OneServer, TypeOK, ThreadInv, OneServerInv, CancelInv, [Next]_vars
  PROVE  CancelInv'
<1> USE DEF CancelInv, DeadlineOfRunning, StopAhead, StopRequestHonoured, StopInTime, StopMissed, PastLastCheck, PastLastTest, DeepdubErrors, TypeOK, StoreType, ThreadInv, OneServerInv, Executes, Busy, InRunner, Terminal,
            RulesStage, EvidenceStage, HashingStage, RenderStage, RunsTools, IsDetector,
            rowVars, threadVars, jobVars, histVars, GoTo, End, EnterStage
<1>0. \A s, t \in Servers : s = t
  BY DEF OneServer
<1>1. ASSUME NEW s \in Servers, Start(s) PROVE CancelInv'
  BY <1>0, <1>1 DEF Start, RecoverOrphans, Running
<1>2. ASSUME NEW s \in Servers, Crash(s) PROVE CancelInv'
  BY <1>0, <1>2 DEF Crash
<1>3. ASSUME NEW s \in Servers, NEW j \in Jobs, Claim(s, j) PROVE CancelInv'
  BY <1>0, <1>3 DEF Claim, ClaimNext, OldestPending, Pending
<1>4. ASSUME NEW s \in Servers, Begin(s) PROVE CancelInv'
  BY <1>0, <1>4 DEF Begin
<1>5. ASSUME NEW s \in Servers, Callback(s) PROVE CancelInv'
  BY <1>0, <1>5 DEF Callback, RecordProgress
<1>6. ASSUME NEW s \in Servers, CheckCancel(s) PROVE CancelInv'
  BY <1>0, <1>6 DEF CheckCancel
<1>7. ASSUME NEW s \in Servers, SpawnTool(s) \/ RegisterTool(s) \/ ToolSucceeds(s) PROVE CancelInv'
  BY <1>0, <1>7 DEF SpawnTool, RegisterTool, ToolSucceeds
<1>8. ASSUME NEW s \in Servers, ToolFails(s) PROVE CancelInv'
  BY <1>0, <1>8 DEF ToolFails
<1>9. ASSUME NEW s \in Servers, StageDone(s) PROVE CancelInv'
  BY <1>0, <1>9 DEF StageDone
<1>10. ASSUME NEW s \in Servers, StageRaises(s) PROVE CancelInv'
  BY <1>0, <1>10 DEF StageRaises
<1>11. ASSUME NEW s \in Servers, Classify(s) PROVE CancelInv'
  BY <1>0, <1>11 DEF Classify
<1>12. ASSUME NEW s \in Servers, RenderPdf(s) \/ PdfEscapes(s) PROVE CancelInv'
  BY <1>0, <1>12 DEF RenderPdf, PdfEscapes
<1>13. ASSUME NEW s \in Servers, Write(s) PROVE CancelInv'
  BY <1>0, <1>13 DEF Write, MarkCompleted, MarkFailed, MarkCancelled, Finish
<1>14. ASSUME NEW s \in Servers, JoinMonitor(s) \/ Post(s) PROVE CancelInv'
  BY <1>0, <1>14 DEF JoinMonitor, Post, RecordProgress
<1>15. ASSUME NEW s \in Servers, StoreFails(s) PROVE CancelInv'
  BY <1>0, <1>15 DEF StoreFails
<1>16. ASSUME NEW j \in Jobs, Submit(j) PROVE CancelInv'
  BY <1>0, <1>16 DEF Submit, Enqueue
<1>17. ASSUME NEW j \in Jobs, Cancel(j) PROVE CancelInv'
  <2>1. RequestCancel(j) /\ UNCHANGED <<threadVars, jobVars, lateDeadline>>
    BY <1>17 DEF Cancel
  <2>2. CASE status[j] = "PENDING"
    <3>1. /\ status' = [status EXCEPT ![j] = "CANCELLED"]
          /\ UNCHANGED <<cancelReq, reason>>
      BY <2>1, <2>2 DEF RequestCancel
    <3>2. \A k \in Jobs : lateCancel[k] => lateCancel'[k]
      BY <1>17 DEF Cancel
    <3>3. QED
      BY <2>1, <2>2, <3>1, <3>2
  <2>3. CASE status[j] = "RUNNING"
    <3>1. /\ cancelReq' = [cancelReq EXCEPT ![j] = TRUE]
          /\ UNCHANGED <<status, reason>>
      BY <2>1, <2>3 DEF RequestCancel
    <3>2. \A k \in Jobs : lateCancel[k] => lateCancel'[k]
      BY <1>17 DEF Cancel
    <3>3. ASSUME NEW s \in Servers, job[s] = j, wpc[s] \in Busy, ~lateCancel'[j]
          PROVE  cancelReq[j] \/ ~PastLastCheck(s)
      <4> DEFINE late == \/ lateCancel[j]
                         \/ /\ status[j] = "RUNNING" /\ ~cancelReq[j]
                            /\ \A t \in Servers : Executes(t, j) => PastLastCheck(t)
      <4>1. lateCancel' = [lateCancel EXCEPT ![j] = late]
        BY <1>17 DEF Cancel
      <4>2. lateCancel'[j] = late
        <5> HIDE DEF late
        <5>1. QED
          BY <4>1
      <4>3. ~late
        BY <3>3, <4>2
      <4>4. QED
        BY <1>0, <2>3, <4>3
    <3>4. QED
      BY <1>0, <2>1, <2>3, <3>1, <3>2, <3>3
  <2>4. QED
    BY <2>1, <2>2, <2>3 DEF RequestCancel
<1>18. ASSUME NEW j \in Jobs, QuietMonitor(j) PROVE CancelInv'
  <2>1. CASE MonitorDeadline(j)
    <3> DEFINE late == \A s \in Servers : Executes(s, j) => PastLastTest(s)
    <3>1. /\ timedOut' = [timedOut EXCEPT ![j] = TRUE]
          /\ lateDeadline' = [lateDeadline EXCEPT ![j] = late]
          /\ UNCHANGED MonitorFrame
      BY <2>1 DEF MonitorDeadline
    <3>2. \E s \in Servers : Executes(s, j)
      BY <2>1 DEF MonitorDeadline, JobDone
    <3>3. status[j] = "RUNNING"
      BY <3>2
    <3>4. ASSUME NEW s \in Servers, job[s] = j, wpc[s] \in Busy, ~lateDeadline'[j]
          PROVE  ~PastLastTest(s)
      <4>1. lateDeadline'[j] = late
        <5> HIDE DEF late
        <5>1. QED
          BY <3>1
      <4>2. QED
        BY <1>0, <3>4, <4>1
    <3> HIDE DEF late
    <3>5. \A k \in Jobs : k # j => lateDeadline'[k] = lateDeadline[k] /\ timedOut'[k] = timedOut[k]
      BY <3>1
    <3>6. timedOut'[j]
      BY <3>1
    <3>7. UNCHANGED <<status, reason, cancelReq, lateCancel, wpc, job, stage, cause>>
      BY <3>1 DEF MonitorFrame
    <3>8. StopRequestHonoured'
      BY <3>3, <3>5, <3>7
    <3>9. DeadlineOfRunning'
      BY <3>3, <3>5, <3>6, <3>7
    <3>10. ASSUME NEW s \in Servers PROVE StopAhead(s)'
      <4>1. CASE job[s] = j
        BY <3>4, <3>7, <4>1
      <4>2. CASE job[s] # j
        BY <3>5, <3>7, <4>2
      <4>3. QED
        BY <4>1, <4>2
    <3> HIDE DEF StopRequestHonoured, DeadlineOfRunning, StopAhead
    <3>11. QED
      BY <3>8, <3>9, <3>10
  <2>2. CASE MonitorCancel(j) \/ MonitorKill(j) \/ MonitorExit(j) \/ MonitorDies(j)
    BY <1>0, <2>2 DEF MonitorCancel, MonitorKill, MonitorExit, MonitorDies, MonitorFrame
  <2>3. QED
    BY <1>18, <2>1, <2>2 DEF QuietMonitor
<1>19. CASE UNCHANGED vars
  BY <1>19 DEF vars
<1> HIDE DEF CancelInv
<1>20. ASSUME NEW s \in Servers, QuietWorker(s) PROVE CancelInv'
  BY <1>20, <1>2, <1>4, <1>5, <1>6, <1>7, <1>8, <1>9, <1>10, <1>11, <1>12, <1>14, <1>15
     DEF QuietWorker
<1>21. QED
  BY <1>1, <1>3, <1>13, <1>16, <1>17, <1>18, <1>19, <1>20, StepKinds

(* A monitor that is always joined kills tools of its own job only, and a  *)
(* killed job has a check ahead of it that stops it.                       *)
LEMMA MonitorInvStep ==
  ASSUME OneServer, "slow_monitor" \notin Faults,
         TypeOK, ThreadInv, OneServerInv, MonitorInv, [Next]_vars
  PROVE  MonitorInv'
<1> USE DEF MonitorInv, DeepdubErrors, TypeOK, StoreType, ThreadInv, OneServerInv, Executes, Busy, InRunner, Terminal,
            RulesStage, EvidenceStage, HashingStage, RenderStage, RunsTools, IsDetector,
            rowVars, threadVars, jobVars, histVars, GoTo, End, EnterStage
<1>0. \A s, t \in Servers : s = t
  BY DEF OneServer
<1>1. ASSUME NEW s \in Servers, Start(s) PROVE MonitorInv'
  BY <1>0, <1>1 DEF Start, RecoverOrphans, Running
<1>2. ASSUME NEW s \in Servers, Crash(s) PROVE MonitorInv'
  BY <1>0, <1>2 DEF Crash
<1>3. ASSUME NEW s \in Servers, NEW j \in Jobs, Claim(s, j) PROVE MonitorInv'
  BY <1>0, <1>3 DEF Claim, ClaimNext, OldestPending, Pending
<1>4. ASSUME NEW s \in Servers, Begin(s) PROVE MonitorInv'
  BY <1>0, <1>4 DEF Begin
<1>5. ASSUME NEW s \in Servers, Callback(s) PROVE MonitorInv'
  BY <1>0, <1>5 DEF Callback, RecordProgress
<1>6. ASSUME NEW s \in Servers, CheckCancel(s) PROVE MonitorInv'
  BY <1>0, <1>6 DEF CheckCancel
<1>7. ASSUME NEW s \in Servers, SpawnTool(s) \/ RegisterTool(s) \/ ToolSucceeds(s) PROVE MonitorInv'
  BY <1>0, <1>7 DEF SpawnTool, RegisterTool, ToolSucceeds
<1>8. ASSUME NEW s \in Servers, ToolFails(s) PROVE MonitorInv'
  BY <1>0, <1>8 DEF ToolFails
<1>9. ASSUME NEW s \in Servers, StageDone(s) PROVE MonitorInv'
  BY <1>0, <1>9 DEF StageDone
<1>10. ASSUME NEW s \in Servers, StageRaises(s) PROVE MonitorInv'
  BY <1>0, <1>10 DEF StageRaises
<1>11. ASSUME NEW s \in Servers, Classify(s) PROVE MonitorInv'
  BY <1>0, <1>11 DEF Classify
<1>12. ASSUME NEW s \in Servers, RenderPdf(s) \/ PdfEscapes(s) PROVE MonitorInv'
  BY <1>0, <1>12 DEF RenderPdf, PdfEscapes
<1>13. ASSUME NEW s \in Servers, Write(s) PROVE MonitorInv'
  BY <1>0, <1>13 DEF Write, MarkCompleted, MarkFailed, MarkCancelled, Finish
<1>14. ASSUME NEW s \in Servers, JoinMonitor(s) \/ Post(s) PROVE MonitorInv'
  BY <1>0, <1>14 DEF JoinMonitor, Post, RecordProgress
<1>15. ASSUME NEW s \in Servers, StoreFails(s) PROVE MonitorInv'
  BY <1>0, <1>15 DEF StoreFails
<1>16. ASSUME NEW j \in Jobs, Submit(j) PROVE MonitorInv'
  BY <1>0, <1>16 DEF Submit, Enqueue
<1>17. ASSUME NEW j \in Jobs, Cancel(j) PROVE MonitorInv'
  BY <1>0, <1>17 DEF Cancel, RequestCancel, PastLastCheck, Executes
<1>18. ASSUME NEW j \in Jobs, QuietMonitor(j) PROVE MonitorInv'
  <2>1. CASE MonitorDeadline(j)
    BY <1>0, <2>1 DEF MonitorDeadline, MonitorFrame
  <2>2. CASE MonitorCancel(j)
    BY <1>0, <2>2 DEF MonitorCancel, MonitorFrame
  <2>3. CASE MonitorKill(j)
    <3> DEFINE s == owner[j]
    <3>1. s \in Servers /\ job[s] = j /\ (timedOut[j] \/ cancelReq[j])
      BY <2>3 DEF MonitorKill
    <3>2. CASE tool[s] = "active"
      <4>1. /\ mon' = [mon EXCEPT ![j] = "done"]
            /\ tainted' = [tainted EXCEPT ![j] = TRUE]
            /\ UNCHANGED <<MonitorFrame, timedOut, lateDeadline>>
        BY <2>3, <3>1, <3>2 DEF MonitorKill
      <4>2. wpc[s] = "work" /\ stage[s] # RenderStage /\ status[j] = "RUNNING"
        BY <3>1, <3>2, WorkerAssumption
      <4>3. QED
        BY <1>0, <3>1, <4>1, <4>2, WorkerAssumption DEF MonitorFrame
    <3>3. CASE tool[s] # "active"
      BY <2>3, <3>1, <3>3 DEF MonitorKill, MonitorFrame
    <3>4. QED
      BY <3>2, <3>3
  <2>4. CASE MonitorExit(j) \/ MonitorDies(j)
    BY <1>0, <2>4 DEF MonitorExit, MonitorDies, MonitorFrame
  <2>5. QED
    BY <1>18, <2>1, <2>2, <2>3, <2>4 DEF QuietMonitor
<1>19. CASE UNCHANGED vars
  BY <1>19 DEF vars
<1> HIDE DEF MonitorInv
<1>20. ASSUME NEW s \in Servers, QuietWorker(s) PROVE MonitorInv'
  BY <1>20, <1>2, <1>4, <1>5, <1>6, <1>7, <1>8, <1>9, <1>10, <1>11, <1>12, <1>14, <1>15
     DEF QuietWorker
<1>21. QED
  BY <1>1, <1>3, <1>13, <1>16, <1>17, <1>18, <1>19, <1>20, StepKinds

-----------------------------------------------------------------------------
(* Everything but the monitor's part holds under every fault.              *)
LEMMA ServerInvariant ==
  ASSUME OneServer
  PROVE  Spec => [](OneServerInv /\ ReportInv /\ CancelInv)
<1>1. Init => OneServerInv /\ ReportInv /\ CancelInv
  BY DEF Init, StoreInit, OneServerInv, ReportInv, CancelInv, DeadlineOfRunning, StopAhead,
         StopRequestHonoured, StopInTime,
         OutcomeConsistent, PostedOnlySettled, StageEventsOnlyWhileRunning, Running,
         Busy, InRunner, Terminal
<1>2. TypeOK /\ ThreadInv /\ OneServerInv /\ ReportInv /\ CancelInv /\ [Next]_vars
        => (OneServerInv /\ ReportInv /\ CancelInv)'
  BY OneServerStep, ReportStep, CancelStep
<1>3. QED
  BY <1>1, <1>2, TypeCorrect, PTL DEF Spec

(* One server runs one job at a time and no running row is without a       *)
(* thread that works on it or died over it, whatever crashes and faults.   *)
THEOREM OneRunnerCorrect ==
  ASSUME OneServer
  PROVE  Spec => []OneRunnerPerServer
<1>1. TypeOK /\ OneServerInv => OneRunnerPerServer
  BY WorkerAssumption DEF OneServerInv, OneRunnerPerServer
<1>2. QED
  BY <1>1, ServerInvariant, TypeCorrect, PTL

(* Status, verdict and reason of every row agree, the post-completion step *)
(* only sees settled jobs, and no event reaches a row that is not running. *)
THEOREM OutcomeCorrect ==
  ASSUME OneServer
  PROVE  Spec => [](OutcomeConsistent /\ PostedOnlySettled /\ StageEventsOnlyWhileRunning)
<1>1. OneServerInv => OutcomeConsistent /\ PostedOnlySettled /\ StageEventsOnlyWhileRunning
  BY DEF OneServerInv
<1>2. QED
  BY <1>1, ServerInvariant, PTL

(* The folder of a cancelled job holds no report.                          *)
THEOREM CancelledReportCorrect ==
  ASSUME OneServer
  PROVE  Spec => []CancelledHasNoReport
<1>1. ReportInv => CancelledHasNoReport
  BY DEF ReportInv, CancelledHasNoReport
<1>2. QED
  BY <1>1, ServerInvariant, PTL

(* A cancel request or a deadline that found a test for it ahead ends in a *)
(* stop the job was given, in the crash that overtook it or in an internal *)
(* error: never in a verdict, nor in the failure of a killed tool.         *)
THEOREM StopRequestCorrect ==
  ASSUME OneServer
  PROVE  Spec => []StopRequestHonoured
<1>1. CancelInv => StopRequestHonoured
  BY DEF CancelInv
<1>2. QED
  BY <1>1, ServerInvariant, PTL

(* A settled row is never written again: every writer finds it RUNNING or  *)
(* PENDING, although none of them but the cancel tests the status.         *)
THEOREM OutcomeFinalCorrect ==
  ASSUME OneServer
  PROVE  Spec => OutcomeIsFinal
<1>1. ASSUME TypeOK, ThreadInv, OneServerInv, [Next]_vars,
             NEW j \in Jobs, status[j] \in Terminal
      PROVE  status'[j] = status[j] /\ reason'[j] = reason[j] /\ graded'[j] = graded[j]
  <2> DEFINE Same == status'[j] = status[j] /\ reason'[j] = reason[j] /\ graded'[j] = graded[j]
  <2> USE <1>1 DEF TypeOK, StoreType, Terminal
  <2>1. ASSUME NEW s \in Servers, Start(s) PROVE Same
    BY <2>1 DEF Start, RecoverOrphans, Running
  <2>2. ASSUME NEW s \in Servers, Write(s) PROVE Same
    <3>1. job[s] \in Jobs /\ job[s] # j
      BY <2>2 DEF Write, OneServerInv, ThreadInv, Busy
    <3>2. QED
      BY <2>2, <3>1 DEF Write, MarkCompleted, MarkFailed, MarkCancelled, Finish
  <2>3. ASSUME NEW s \in Servers, QuietWorker(s) PROVE Same
    BY <2>3, QuietWorkerStep
  <2>4. ASSUME NEW s \in Servers, NEW k \in Jobs, Claim(s, k) PROVE Same
    BY <2>4 DEF Claim, ClaimNext, OldestPending, Pending
  <2>5. ASSUME NEW k \in Jobs, Submit(k) PROVE Same
    BY <2>5 DEF Submit, Enqueue
  <2>6. ASSUME NEW k \in Jobs, Cancel(k) PROVE Same
    <3>1. RequestCancel(k)
      BY <2>6 DEF Cancel
    <3>2. QED
      BY <3>1 DEF RequestCancel
  <2>7. ASSUME NEW k \in Jobs, QuietMonitor(k) PROVE Same
    BY <2>7, QuietMonitorStep
  <2>8. ASSUME UNCHANGED vars PROVE Same
    BY <2>8 DEF vars, rowVars
  <2> HIDE DEF Same, TypeOK, StoreType, Terminal
  <2>9. Same
    BY <2>1, <2>2, <2>3, <2>4, <2>5, <2>6, <2>7, <2>8, StepKinds
  <2>10. QED
    BY <2>9 DEF Same
<1>2. TypeOK /\ ThreadInv /\ OneServerInv /\ [Next]_vars =>
        [\A j \in Jobs : status[j] \in Terminal =>
           status'[j] = status[j] /\ reason'[j] = reason[j] /\ graded'[j] = graded[j]]_vars
  BY <1>1
<1>3. QED
  BY <1>2, ServerInvariant, TypeCorrect, PTL DEF Spec, OutcomeIsFinal

(* When every monitor is joined before the next job is claimed, the whole  *)
(* of IndInv is an invariant, the one the run "worker" checks.             *)
THEOREM InductiveCorrect ==
  ASSUME OneServer, "slow_monitor" \notin Faults
  PROVE  Spec => []IndInv
<1>1. Init => MonitorInv
  BY DEF Init, StoreInit, MonitorInv, Busy, InRunner
<1>2. TypeOK /\ ThreadInv /\ OneServerInv /\ MonitorInv /\ [Next]_vars => MonitorInv'
  BY MonitorInvStep
<1>3. TypeOK /\ ThreadInv /\ OneServerInv /\ ReportInv /\ CancelInv /\ MonitorInv => IndInv
  BY DEF IndInv
<1>4. QED
  BY <1>1, <1>2, <1>3, ServerInvariant, TypeCorrect, PTL DEF Spec

(* A job whose tool a monitor killed is then never given a verdict.        *)
THEOREM KilledCorrect ==
  ASSUME OneServer, "slow_monitor" \notin Faults
  PROVE  Spec => []KilledNeverGraded
<1>1. IndInv => KilledNeverGraded
  BY DEF IndInv, MonitorInv, KilledNeverGraded
<1>2. QED
  BY <1>1, InductiveCorrect, PTL

-----------------------------------------------------------------------------
(*                     The abstract queue is implemented                   *)
-----------------------------------------------------------------------------
(* Rows S with numbers r that tell them apart. *)
Numbered(r, S) ==
  /\ IsFiniteSet(S)
  /\ \A k \in S : r[k] \in Nat
  /\ \A j, k \in S : r[j] = r[k] => j = k

(* An earlier number is an earlier place. *)
LEMMA PlaceMonotone ==
  ASSUME NEW r, NEW S, Numbered(r, S), NEW j \in S, NEW k \in S, r[j] < r[k]
  PROVE  Place(r, S, j) < Place(r, S, k)
<1> DEFINE A == {i \in S : r[i] <= r[j]}
           B == {i \in S : r[i] <= r[k]}
<1>1. A \in SUBSET B /\ k \in B /\ k \notin A
  BY DEF Numbered
<1>2. IsFiniteSet(B)
  BY FS_Subset DEF Numbered
<1>3. /\ IsFiniteSet(A) /\ Cardinality(A) <= Cardinality(B)
      /\ Cardinality(A) # Cardinality(B)
  BY <1>1, <1>2, FS_Subset
<1>4. Cardinality(A) \in Nat /\ Cardinality(B) \in Nat
  BY <1>2, <1>3, FS_CardinalityType
<1>5. Cardinality(A) < Cardinality(B)
  BY <1>3, <1>4
<1>6. QED
  BY <1>5 DEF Place

(* The places of the rows are the numbers from 1 to their count, each of   *)
(* them taken once.                                                        *)
LEMMA PlacesAreTaken ==
  ASSUME NEW r, NEW S, Numbered(r, S)
  PROVE  /\ Cardinality(S) \in Nat
         /\ \A j \in S : Place(r, S, j) \in 1..Cardinality(S)
         /\ \A j, k \in S : Place(r, S, j) = Place(r, S, k) => j = k
         /\ \A i \in 1..Cardinality(S) : \E j \in S : Place(r, S, j) = i
<1> DEFINE n == Cardinality(S)
           f == [j \in S |-> Place(r, S, j)]
<1>1. n \in Nat
  BY FS_CardinalityType DEF Numbered
<1>2. ASSUME NEW j \in S PROVE Place(r, S, j) \in 1..n
  <2> DEFINE A == {i \in S : r[i] <= r[j]}
  <2>1. A \in SUBSET S /\ j \in A
    BY DEF Numbered
  <2>2. IsFiniteSet(A) /\ Cardinality(A) <= n
    BY <2>1, FS_Subset DEF Numbered
  <2>3. Cardinality(A) \in Nat
    BY <2>2, FS_CardinalityType
  <2>4. Cardinality(A) # 0
    BY <2>1, <2>2, FS_EmptySet
  <2>5. Cardinality(A) \in 1..n
    BY <1>1, <2>2, <2>3, <2>4
  <2>6. QED
    BY <2>5 DEF Place
<1>3. ASSUME NEW j \in S, NEW k \in S, Place(r, S, j) = Place(r, S, k) PROVE j = k
  <2>1. r[j] \in Nat /\ r[k] \in Nat
    BY DEF Numbered
  <2>2. Place(r, S, j) \in Nat /\ Place(r, S, k) \in Nat
    BY <1>2
  <2>3. ~(r[j] < r[k]) /\ ~(r[k] < r[j])
    BY <1>3, <2>2, PlaceMonotone
  <2>4. r[j] = r[k]
    BY <2>1, <2>3
  <2>5. QED
    BY <2>4 DEF Numbered
<1>4. f \in Injection(S, 1..n)
  BY <1>2, <1>3 DEF Injection, IsInjective
<1>5. IsFiniteSet(1..n) /\ Cardinality(1..n) = n
  BY <1>1, FS_Interval
<1>6. f \in Surjection(S, 1..n)
  BY <1>4, <1>5, FS_Injection
<1>7. \A i \in 1..n : \E j \in S : Place(r, S, j) = i
  BY <1>6 DEF Surjection
<1>8. QED
  BY <1>1, <1>2, <1>3, <1>7

(* The queue holds each row at its place, *)
LEMMA RowAtItsPlace ==
  ASSUME NEW r, NEW S, Numbered(r, S)
  PROVE  /\ InOrder(r, S) \in Seq(S)
         /\ Len(InOrder(r, S)) = Cardinality(S)
         /\ \A i \in 1..Cardinality(S) :
              InOrder(r, S)[i] \in S /\ Place(r, S, InOrder(r, S)[i]) = i
         /\ \A j \in S : InOrder(r, S)[Place(r, S, j)] = j
<1> DEFINE n == Cardinality(S)
           q == InOrder(r, S)
<1>1. /\ n \in Nat
      /\ \A i \in 1..n : \E j \in S : Place(r, S, j) = i
      /\ \A j \in S : Place(r, S, j) \in 1..n
      /\ \A j, k \in S : Place(r, S, j) = Place(r, S, k) => j = k
  BY PlacesAreTaken
<1>2. q = [i \in 1..n |-> CHOOSE j \in S : Place(r, S, j) = i]
  BY DEF InOrder
<1>3. ASSUME NEW i \in 1..n PROVE q[i] \in S /\ Place(r, S, q[i]) = i
  <2>1. q[i] = CHOOSE j \in S : Place(r, S, j) = i
    BY <1>2
  <2>2. \E j \in S : Place(r, S, j) = i
    BY <1>1
  <2> HIDE DEF q
  <2>3. QED
    BY <2>1, <2>2
<1> HIDE DEF q
<1>4. q \in [1..n -> S]
  BY <1>2, <1>3
<1>5. q \in Seq(S) /\ Len(q) = n
  BY <1>1, <1>4
<1>6. \A j \in S : q[Place(r, S, j)] = j
  BY <1>1, <1>3
<1>7. QED
  BY <1>3, <1>5, <1>6 DEF q

(* and is the only sequence that does. *)
LEMMA OrderIsUnique ==
  ASSUME NEW r, NEW S, Numbered(r, S), NEW q \in Seq(S), Len(q) = Cardinality(S),
         \A i \in 1..Len(q) : Place(r, S, q[i]) = i
  PROVE  q = InOrder(r, S)
<1> DEFINE o == InOrder(r, S)
<1>1. /\ o \in Seq(S) /\ Len(o) = Cardinality(S)
      /\ \A i \in 1..Cardinality(S) : o[i] \in S /\ Place(r, S, o[i]) = i
  BY RowAtItsPlace
<1> HIDE DEF o
<1>2. \A j, k \in S : Place(r, S, j) = Place(r, S, k) => j = k
  BY PlacesAreTaken
<1>3. \A i \in 1..Len(q) : q[i] = o[i]
  BY <1>1, <1>2
<1>4. q = o
  BY <1>1, <1>3, SeqEqual
<1>5. QED
  BY <1>4 DEF o

(* A row inserted with a number above all others goes to the end. *)
LEMMA InsertAppends ==
  ASSUME NEW r, NEW S, Numbered(r, S), NEW x, x \notin S, NEW rr,
         rr[x] \in Nat, \A k \in S : rr[k] = r[k] /\ r[k] < rr[x]
  PROVE  /\ Numbered(rr, S \cup {x})
         /\ InOrder(rr, S \cup {x}) = Append(InOrder(r, S), x)
<1> DEFINE n == Cardinality(S)
           T == S \cup {x}
           o == InOrder(r, S)
           q == Append(o, x)
<1>1. IsFiniteSet(T) /\ Cardinality(T) = n + 1 /\ n \in Nat
  BY FS_AddElement, FS_CardinalityType DEF Numbered
<1>2. Numbered(rr, T)
  BY <1>1 DEF Numbered
<1>3. /\ o \in Seq(S) /\ Len(o) = n
      /\ \A i \in 1..n : o[i] \in S /\ Place(r, S, o[i]) = i
  BY RowAtItsPlace
<1>4. \A k \in S : Place(rr, T, k) = Place(r, S, k)
  <2> TAKE k \in S
  <2>1. {i \in T : rr[i] <= rr[k]} = {i \in S : r[i] <= r[k]}
    BY DEF Numbered
  <2>2. QED
    BY <2>1 DEF Place
<1>5. Place(rr, T, x) = n + 1
  <2>1. {i \in T : rr[i] <= rr[x]} = T
    BY DEF Numbered
  <2>2. QED
    BY <2>1, <1>1 DEF Place
<1> HIDE DEF o, n, T
<1>6. q \in Seq(T) /\ Len(q) = n + 1
  BY <1>1, <1>3 DEF T
<1>7. \A i \in 1..Len(q) : Place(rr, T, q[i]) = i
  BY <1>1, <1>3, <1>4, <1>5, <1>6
<1>8. q = InOrder(rr, T)
  BY <1>1, <1>2, <1>6, <1>7, OrderIsUnique
<1>9. QED
  BY <1>2, <1>8 DEF T, o

(* A row removed leaves the others in their order. *)
LEMMA RemoveKeepsOrder ==
  ASSUME NEW r, NEW S, Numbered(r, S), NEW x \in S
  PROVE  /\ Numbered(r, S \ {x})
         /\ InOrder(r, S \ {x}) = Life!RemoveAt(InOrder(r, S), Place(r, S, x))
<1> DEFINE n == Cardinality(S)
           T == S \ {x}
           o == InOrder(r, S)
           p == Place(r, S, x)
           q == Life!RemoveAt(o, p)
<1>1. IsFiniteSet(T) /\ Cardinality(T) = n - 1 /\ n \in Nat
  BY FS_RemoveElement, FS_CardinalityType DEF Numbered
<1>2. Numbered(r, T)
  BY <1>1 DEF Numbered
<1>3. /\ o \in Seq(S) /\ Len(o) = n
      /\ \A i \in 1..n : o[i] \in S /\ Place(r, S, o[i]) = i
      /\ p \in 1..n /\ o[p] = x
      /\ \A j, k \in S : Place(r, S, j) = Place(r, S, k) => j = k
  BY RowAtItsPlace, PlacesAreTaken
<1>4. ASSUME NEW k \in T
      PROVE  Place(r, T, k) = IF Place(r, S, k) < p THEN Place(r, S, k) ELSE Place(r, S, k) - 1
  <2> DEFINE A == {i \in S : r[i] <= r[k]}
  <2>1. A \in SUBSET S /\ {i \in T : r[i] <= r[k]} = A \ {x}
    OBVIOUS
  <2>2. IsFiniteSet(A) /\ Cardinality(A) = Place(r, S, k)
    BY <2>1, FS_Subset DEF Numbered, Place
  <2>3. Cardinality(A \ {x}) = IF x \in A THEN Cardinality(A) - 1 ELSE Cardinality(A)
    BY <2>2, FS_RemoveElement
  <2>4. x \in A <=> ~(Place(r, S, k) < p)
    <3>1. r[x] # r[k] /\ r[x] \in Nat /\ r[k] \in Nat
      BY DEF Numbered
    <3>2. Place(r, S, k) \in Nat /\ p \in Nat
      BY <1>3, PlacesAreTaken
    <3>3. r[x] < r[k] => p < Place(r, S, k)
      BY PlaceMonotone
    <3>4. r[k] < r[x] => Place(r, S, k) < p
      BY PlaceMonotone
    <3>5. QED
      BY <3>1, <3>2, <3>3, <3>4
  <2>5. QED
    BY <2>1, <2>2, <2>3, <2>4 DEF Place
<1> HIDE DEF n, o, p
<1>5. /\ SubSeq(o, 1, p - 1) \in Seq(S) /\ Len(SubSeq(o, 1, p - 1)) = p - 1
      /\ \A i \in 1..(p - 1) : SubSeq(o, 1, p - 1)[i] = o[i]
  BY <1>1, <1>3, SubSeqProperties
<1>6. /\ SubSeq(o, p + 1, n) \in Seq(S) /\ Len(SubSeq(o, p + 1, n)) = n - p
      /\ \A i \in 1..(n - p) : SubSeq(o, p + 1, n)[i] = o[p + i]
  BY <1>1, <1>3, SubSeqProperties
<1>7. q = SubSeq(o, 1, p - 1) \o SubSeq(o, p + 1, n)
  BY <1>3 DEF Life!RemoveAt
<1> HIDE DEF q
<1>8. /\ Len(q) = n - 1
      /\ q \in Seq(S)
      /\ \A i \in 1..(n - 1) : q[i] = IF i < p THEN o[i] ELSE o[i + 1]
  <2> DEFINE a == SubSeq(o, 1, p - 1)
             b == SubSeq(o, p + 1, n)
  <2>1. /\ a \in Seq(S) /\ Len(a) = p - 1 /\ \A i \in 1..(p - 1) : a[i] = o[i]
        /\ b \in Seq(S) /\ Len(b) = n - p /\ \A i \in 1..(n - p) : b[i] = o[p + i]
        /\ q = a \o b
    BY <1>5, <1>6, <1>7
  <2> HIDE DEF a, b
  <2>2. /\ q \in Seq(S) /\ Len(q) = Len(a) + Len(b)
        /\ \A i \in 1..(Len(a) + Len(b)) :
             q[i] = IF i <= Len(a) THEN a[i] ELSE b[i - Len(a)]
    BY <2>1, ConcatProperties
  <2>3. p \in Nat /\ n \in Nat /\ 1 <= p /\ p <= n
    BY <1>1, <1>3
  <2>4. Len(a) + Len(b) = n - 1
    BY <2>1, <2>3
  <2>5. ASSUME NEW i \in 1..(n - 1) PROVE q[i] = IF i < p THEN o[i] ELSE o[i + 1]
    <3>1. CASE i < p
      BY <2>1, <2>2, <2>3, <2>4, <3>1
    <3>2. CASE ~(i < p)
      <4>1. i - Len(a) = i - p + 1 /\ i - p + 1 \in 1..(n - p) /\ ~(i <= Len(a))
        BY <2>1, <2>3, <3>2
      <4>2. q[i] = b[i - p + 1]
        BY <2>2, <2>4, <4>1
      <4>3. b[i - p + 1] = o[p + (i - p + 1)]
        BY <2>1, <4>1
      <4>4. p + (i - p + 1) = i + 1
        BY <2>3
      <4>5. QED
        BY <3>2, <4>2, <4>3, <4>4
    <3>3. QED
      BY <3>1, <3>2
  <2>6. QED
    BY <2>2, <2>4, <2>5
<1>9. \A i \in 1..(n - 1) : q[i] \in T /\ Place(r, T, q[i]) = i
  <2> TAKE i \in 1..(n - 1)
  <2>1. CASE i < p
    <3>1. q[i] = o[i] /\ i \in 1..n
      BY <1>1, <1>8, <2>1
    <3>2. q[i] \in T /\ Place(r, S, q[i]) = i
      BY <1>3, <2>1, <3>1
    <3>3. QED
      BY <1>4, <2>1, <3>2
  <2>2. CASE ~(i < p)
    <3>1. q[i] = o[i + 1] /\ i + 1 \in 1..n
      BY <1>1, <1>8, <2>2
    <3>2. q[i] \in T /\ Place(r, S, q[i]) = i + 1
      BY <1>1, <1>3, <2>2, <3>1
    <3>3. ~(i + 1 < p) /\ (i + 1) - 1 = i
      BY <1>1, <1>3, <2>2
    <3>4. Place(r, T, q[i]) = Place(r, S, q[i]) - 1
      BY <1>4, <3>2, <3>3
    <3>5. QED
      BY <3>2, <3>3, <3>4
  <2>3. QED
    BY <2>1, <2>2
<1>10. q \in Seq(T)
  <2>1. q \in [1..(n - 1) -> T]
    BY <1>1, <1>8, <1>9, LenProperties
  <2>2. n - 1 \in Nat
    BY <1>1, <1>3
  <2>3. QED
    BY <2>1, <2>2
<1>11. q = InOrder(r, T)
  <2> HIDE DEF T
  <2>1. QED
    BY <1>1, <1>2, <1>8, <1>9, <1>10, OrderIsUnique DEF n
<1>12. QED
  BY <1>2, <1>11 DEF q, o, p

-----------------------------------------------------------------------------
(* The PENDING rows are finitely many and numbered by the AUTOINCREMENT    *)
(* counter.                                                                *)
QueueInv ==
  /\ Numbered(rowid, Pending)
  /\ \A j \in Pending : rowid[j] <= lastRowid

(* Fewer rows are still numbered. *)
LEMMA FewerRows ==
  ASSUME NEW r, NEW S, Numbered(r, S), NEW T \in SUBSET S
  PROVE  Numbered(r, T)
  BY FS_Subset DEF Numbered

(* What each writer of a row does to the queue and to the running row. *)
LEMMA RowEffects ==
  ASSUME TypeOK, ThreadInv, OneServer, OneServerInv, [Next]_vars
  PROVE  \/ status' = status /\ rowid' = rowid /\ lastRowid' = lastRowid
         \/ \E j \in Jobs : Enqueue(j)
         \/ \E j \in Jobs : ClaimNext(j) /\ Running = {}
         \/ \E j \in Pending : /\ status' = [status EXCEPT ![j] = "CANCELLED"]
                               /\ UNCHANGED <<rowid, lastRowid>>
         \/ \E j \in Running, st \in Terminal :
              /\ status' = [status EXCEPT ![j] = st]
              /\ UNCHANGED <<rowid, lastRowid>>
<1> DEFINE Effect ==
         \/ status' = status /\ rowid' = rowid /\ lastRowid' = lastRowid
         \/ \E j \in Jobs : Enqueue(j)
         \/ \E j \in Jobs : ClaimNext(j) /\ Running = {}
         \/ \E j \in Pending : /\ status' = [status EXCEPT ![j] = "CANCELLED"]
                               /\ UNCHANGED <<rowid, lastRowid>>
         \/ \E j \in Running, st \in Terminal :
              /\ status' = [status EXCEPT ![j] = st]
              /\ UNCHANGED <<rowid, lastRowid>>
<1>1. ASSUME NEW s \in Servers, Start(s) PROVE Effect
  <2>1. /\ status' = [j \in Jobs |-> IF j \in Running THEN "FAILED" ELSE status[j]]
        /\ UNCHANGED <<rowid, lastRowid>>
    BY <1>1 DEF Start, RecoverOrphans
  <2>2. CASE Running = {}
    <3>1. status' = status
      BY <2>1, <2>2 DEF TypeOK, StoreType
    <3>2. QED
      BY <2>1, <3>1
  <2>3. CASE Running # {}
    <3>1. PICK j \in Running : TRUE
      BY <2>3
    <3>2. Running = {j}
      BY <3>1 DEF OneServerInv
    <3>3. status' = [status EXCEPT ![j] = "FAILED"]
      BY <2>1, <3>2 DEF TypeOK, StoreType
    <3>4. QED
      BY <2>1, <3>1, <3>3 DEF Terminal
  <2>4. QED
    BY <2>2, <2>3
<1>2. ASSUME NEW s \in Servers, Write(s) PROVE Effect
  <2>1. job[s] \in Running
    BY <1>2 DEF Write, ThreadInv, OneServerInv, Busy, Running
  <2>2. \E st \in Terminal : /\ status' = [status EXCEPT ![job[s]] = st]
                             /\ UNCHANGED <<rowid, lastRowid>>
    BY <1>2 DEF Write, MarkCompleted, MarkFailed, MarkCancelled, Finish, Terminal
  <2>3. QED
    BY <2>1, <2>2
<1>3. ASSUME NEW s \in Servers, QuietWorker(s) PROVE Effect
  BY <1>3, QuietWorkerStep
<1>4. ASSUME NEW s \in Servers, NEW j \in Jobs, Claim(s, j) PROVE Effect
  <2>1. ClaimNext(j) /\ wpc[s] = "idle"
    BY <1>4 DEF Claim
  <2>2. Running = {}
    BY <2>1 DEF OneServer, OneServerInv, Executes, Busy, InRunner
  <2>3. QED
    BY <2>1, <2>2
<1>5. ASSUME NEW j \in Jobs, Submit(j) PROVE Effect
  BY <1>5 DEF Submit
<1>6. ASSUME NEW j \in Jobs, Cancel(j) PROVE Effect
  BY <1>6 DEF Cancel, RequestCancel, Pending
<1>7. ASSUME NEW j \in Jobs, QuietMonitor(j) PROVE Effect
  BY <1>7, QuietMonitorStep
<1>8. ASSUME UNCHANGED vars PROVE Effect
  BY <1>8 DEF vars, rowVars
<1> HIDE DEF Effect
<1>9. Effect
  BY <1>1, <1>2, <1>3, <1>4, <1>5, <1>6, <1>7, <1>8, StepKinds
<1>10. QED
  BY <1>9 DEF Effect

(* The numbering survives every step: a new row gets the next number. *)
LEMMA QueueStep ==
  ASSUME TypeOK, ThreadInv, OneServer, OneServerInv, QueueInv, [Next]_vars
  PROVE  QueueInv'
<1> USE DEF TypeOK, StoreType
<1>1. ASSUME Pending' \in SUBSET Pending, rowid' = rowid, lastRowid' = lastRowid
      PROVE  QueueInv'
  <2>1. Numbered(rowid, Pending')
    BY <1>1, FewerRows DEF QueueInv
  <2>2. QED
    BY <1>1, <2>1 DEF QueueInv, Numbered
<1>2. ASSUME NEW j \in Jobs, Enqueue(j) PROVE QueueInv'
  <2>1. j \notin Pending /\ Pending' = Pending \cup {j}
    BY <1>2 DEF Enqueue, Pending
  <2>2. rowid'[j] = lastRowid + 1 /\ \A k \in Pending : rowid'[k] = rowid[k]
    BY <1>2, <2>1 DEF Enqueue, Pending
  <2>3. rowid'[j] \in Nat /\ \A k \in Pending : rowid'[k] = rowid[k] /\ rowid[k] < rowid'[j]
    BY <2>2 DEF QueueInv, Pending
  <2>4. Numbered(rowid', Pending')
    BY <2>1, <2>3, InsertAppends DEF QueueInv
  <2>5. lastRowid' = lastRowid + 1
    BY <1>2 DEF Enqueue
  <2>6. \A k \in Pending' : rowid'[k] <= lastRowid'
    BY <2>1, <2>2, <2>5 DEF QueueInv, Pending
  <2>7. QED
    BY <2>4, <2>6 DEF QueueInv, Numbered
<1>3. ASSUME NEW j \in Jobs, NEW st, st # "PENDING",
             status' = [status EXCEPT ![j] = st], UNCHANGED <<rowid, lastRowid>>
      PROVE  QueueInv'
  <2>1. Pending' \in SUBSET Pending
    BY <1>3 DEF Pending
  <2>2. QED
    BY <1>1, <1>3, <2>1
<1>4. ASSUME status' = status, rowid' = rowid, lastRowid' = lastRowid PROVE QueueInv'
  BY <1>1, <1>4 DEF Pending
<1>5. \A j \in Jobs : ClaimNext(j) => QueueInv'
  BY <1>3 DEF ClaimNext
<1>6. \A j \in Pending \cup Running : j \in Jobs
  BY DEF Pending, Running
<1>7. \A st \in Terminal : st # "PENDING"
  BY DEF Terminal
<1>8. QED
  BY <1>2, <1>3, <1>4, <1>5, <1>6, <1>7, RowEffects

(* Nothing but the rows is visible through the mapping. *)
LEMMA Unseen ==
  ASSUME status' = status, rowid' = rowid
  PROVE  UNCHANGED Life!lifeVars
  BY DEF Life!lifeVars, WaitingInOrder, RunningJob, Pending, Running, Terminal, InOrder, Place

(* The mapped queue in the next state is the order of the next rows. *)
LEMMA MappedQueue ==
  /\ WaitingInOrder = InOrder(rowid, Pending)
  /\ WaitingInOrder' = InOrder(rowid', Pending')
  BY DEF WaitingInOrder, InOrder, Place

(* A job waits exactly when its row is PENDING. *)
LEMMA WaitingIsPending ==
  ASSUME QueueInv, NEW j
  PROVE  Life!Contains(WaitingInOrder, j) <=> j \in Pending
<1> DEFINE n == Cardinality(Pending)
           o == InOrder(rowid, Pending)
<1>1. /\ Len(o) = n
      /\ \A i \in 1..n : o[i] \in Pending
      /\ \A k \in Pending : o[Place(rowid, Pending, k)] = k
      /\ \A k \in Pending : Place(rowid, Pending, k) \in 1..n
  BY RowAtItsPlace, PlacesAreTaken DEF QueueInv
<1>2. Life!Contains(o, j) <=> \E i \in 1..Len(o) : o[i] = j
  BY DEF Life!Contains
<1> HIDE DEF o, n
<1>3. Life!Contains(o, j) <=> j \in Pending
  BY <1>1, <1>2
<1>4. QED
  BY <1>3 DEF o, WaitingInOrder

(* At most one row is RUNNING, and it is the mapped running job. *)
LEMMA MappedRunning ==
  ASSUME \A j, k \in Running : j = k
  PROVE  /\ Running = {} => RunningJob = NoJob
         /\ \A j \in Running : RunningJob = j
  BY DEF RunningJob

(* enqueue is the abstract submission. *)
LEMMA EnqueueSubmits ==
  ASSUME TypeOK, OneServerInv, QueueInv, NEW j \in Jobs, Enqueue(j)
  PROVE  Life!Submit(j)
<1> USE DEF TypeOK, StoreType
<1>1. j \notin Pending /\ j \notin Running /\ status[j] = "ABSENT"
  BY DEF Enqueue, Pending, Running
<1>2. Life!Fresh(j)
  <2>1. ~Life!Contains(WaitingInOrder, j)
    BY <1>1, WaitingIsPending
  <2>2. j # RunningJob
    BY <1>1, WorkerAssumption DEF RunningJob
  <2>3. QED
    BY <1>1, <2>1, <2>2 DEF Life!Fresh, Terminal
<1>3. Len(WaitingInOrder) < MaxQueueLength
  BY MappedQueue, RowAtItsPlace DEF Enqueue, QueueHasRoom, QueueInv
<1>4. WaitingInOrder' = Append(WaitingInOrder, j)
  <2>1. Pending' = Pending \cup {j}
    BY DEF Enqueue, Pending
  <2>2. \A k \in Pending : rowid'[k] = rowid[k]
    BY <1>1 DEF Enqueue, Pending
  <2>3. rowid'[j] \in Nat /\ \A k \in Pending : rowid'[k] = rowid[k] /\ rowid[k] < rowid'[j]
    BY <2>2 DEF Enqueue, QueueInv, Pending
  <2>4. InOrder(rowid', Pending \cup {j}) = Append(InOrder(rowid, Pending), j)
    <3> HIDE DEF TypeOK, StoreType
    <3>1. Numbered(rowid, Pending)
      BY DEF QueueInv
    <3>2. QED
      BY <1>1, <2>3, <3>1, InsertAppends
  <2>5. QED
    BY <2>1, <2>4, MappedQueue
<1>5. Running' = Running
  BY <1>1 DEF Enqueue, Running
<1>6. RunningJob' = RunningJob
  BY <1>5 DEF RunningJob
<1>7. \A k \in Jobs : (IF status'[k] \in Terminal THEN status'[k] ELSE "none")
                        = (IF status[k] \in Terminal THEN status[k] ELSE "none")
  BY <1>1 DEF Enqueue, Terminal
<1>8. QED
  BY <1>2, <1>3, <1>4, <1>6, <1>7 DEF Life!Submit

(* A row that leaves the queue leaves its place to the ones behind it. *)
LEMMA LeavesTheQueue ==
  ASSUME TypeOK, QueueInv, NEW j \in Pending, NEW st, st # "PENDING",
         status' = [status EXCEPT ![j] = st], rowid' = rowid
  PROVE  WaitingInOrder' = Life!RemoveAt(WaitingInOrder, Place(rowid, Pending, j))
<1>1. Pending' = Pending \ {j}
  BY DEF Pending, TypeOK, StoreType
<1>2. QED
  BY <1>1, RemoveKeepsOrder, MappedQueue DEF QueueInv

(* The cancel of a queued job is the abstract withdrawal of its place. *)
LEMMA CancelWithdraws ==
  ASSUME TypeOK, QueueInv, NEW j \in Pending,
         status' = [status EXCEPT ![j] = "CANCELLED"], UNCHANGED <<rowid, lastRowid>>
  PROVE  \E i \in 1..Len(WaitingInOrder) : Life!Withdraw(i)
<1> DEFINE p == Place(rowid, Pending, j)
<1>1. p \in 1..Len(WaitingInOrder) /\ WaitingInOrder[p] = j
  BY MappedQueue, RowAtItsPlace, PlacesAreTaken DEF QueueInv
<1>2. WaitingInOrder' = Life!RemoveAt(WaitingInOrder, p)
  BY LeavesTheQueue
<1> HIDE DEF p
<1>3. Running' = Running
  BY DEF Running, Pending, TypeOK, StoreType
<1>4. RunningJob' = RunningJob
  BY <1>3 DEF RunningJob
<1> DEFINE out == [k \in Jobs |-> IF status[k] \in Terminal THEN status[k] ELSE "none"]
<1>5. out' = [out EXCEPT ![j] = "CANCELLED"]
  BY DEF Pending, TypeOK, StoreType, Terminal
<1>6. QED
  BY <1>1, <1>2, <1>4, <1>5 DEF Life!Withdraw

(* claim_next is the abstract start of the head of the queue. *)
LEMMA ClaimStarts ==
  ASSUME TypeOK, QueueInv, NEW j \in Jobs, ClaimNext(j), Running = {}
  PROVE  Life!Start
<1> USE DEF TypeOK, StoreType
<1> DEFINE o == WaitingInOrder
           out == [k \in Jobs |-> IF status[k] \in Terminal THEN status[k] ELSE "none"]
<1>1. j \in Pending /\ \A k \in Pending : rowid[j] <= rowid[k]
  BY DEF ClaimNext, OldestPending
<1>2. Place(rowid, Pending, j) = 1
  <2>1. {k \in Pending : rowid[k] <= rowid[j]} = {j}
    <3>1. \A k \in Pending : rowid[k] <= rowid[j] => k = j
      BY <1>1 DEF QueueInv, Numbered
    <3>2. rowid[j] <= rowid[j]
      BY <1>1 DEF QueueInv, Numbered
    <3>3. QED
      BY <1>1, <3>1, <3>2
  <2>2. QED
    BY <2>1, FS_Singleton DEF Place
<1>3. o \in Seq(Pending) /\ 1 \in 1..Len(o) /\ o[1] = j
  BY <1>1, <1>2, MappedQueue, RowAtItsPlace, PlacesAreTaken DEF QueueInv
<1>4. status' = [status EXCEPT ![j] = "RUNNING"] /\ rowid' = rowid
  BY DEF ClaimNext
<1>5. o' = Life!RemoveAt(o, 1)
  BY <1>1, <1>2, <1>4, LeavesTheQueue
<1> HIDE DEF o
<1>6. o # <<>> /\ Head(o) = j
  BY <1>3
<1>7. Life!RemoveAt(o, 1) = Tail(o)
  <2>1. SubSeq(o, 1, 0) = <<>>
    BY <1>3
  <2>2. SubSeq(o, 2, Len(o)) = Tail(o)
    BY <1>3
  <2>3. Life!RemoveAt(o, 1) = <<>> \o Tail(o)
    BY <2>1, <2>2 DEF Life!RemoveAt
  <2>4. QED
    BY <1>3, <1>6, <2>3
<1>8. Running' = {j}
  BY <1>4 DEF Running
<1>9. RunningJob = NoJob /\ RunningJob' = j
  BY <1>8 DEF RunningJob
<1>10. out' = out
  BY <1>1, <1>4 DEF Pending, Terminal
<1>11. QED
  BY <1>5, <1>6, <1>7, <1>9, <1>10 DEF Life!Start, o

(* The terminal write and the recovery of an orphan settle the running job. *)
LEMMA FinishSettles ==
  ASSUME TypeOK, OneServerInv, QueueInv, NEW j \in Running, NEW st \in Terminal,
         status' = [status EXCEPT ![j] = st], UNCHANGED <<rowid, lastRowid>>
  PROVE  Life!Settle(st)
<1> USE DEF TypeOK, StoreType
<1>1. Pending' = Pending
  BY DEF Pending, Running, Terminal
<1>2. WaitingInOrder' = WaitingInOrder
  BY <1>1, MappedQueue
<1>3. Running = {j} /\ Running' = {}
  BY DEF OneServerInv, Running, Terminal
<1>4. RunningJob = j /\ RunningJob' = NoJob /\ j # NoJob
  BY <1>3, WorkerAssumption DEF RunningJob, Running
<1> DEFINE out == [k \in Jobs |-> IF status[k] \in Terminal THEN status[k] ELSE "none"]
<1>5. out' = [out EXCEPT ![j] = st]
  BY DEF Running, Terminal
<1>6. QED
  BY <1>2, <1>4, <1>5 DEF Life!Settle

(* Every step of one service process is a step of the abstract queue or    *)
(* leaves it alone.                                                        *)
LEMMA StepRefines ==
  ASSUME OneServer, TypeOK, ThreadInv, OneServerInv, QueueInv, [Next]_vars
  PROVE  [Life!Next]_Life!lifeVars
<1>1. ASSUME NEW j \in Jobs, Enqueue(j) PROVE Life!Next
  BY <1>1, EnqueueSubmits DEF Life!Next
<1>2. ASSUME NEW j \in Jobs, ClaimNext(j), Running = {} PROVE Life!Next
  BY <1>2, ClaimStarts DEF Life!Next
<1>3. ASSUME NEW j \in Pending, status' = [status EXCEPT ![j] = "CANCELLED"],
             UNCHANGED <<rowid, lastRowid>>
      PROVE  Life!Next
  BY <1>3, CancelWithdraws DEF Life!Next
<1>4. ASSUME NEW j \in Running, NEW st \in Terminal,
             status' = [status EXCEPT ![j] = st], UNCHANGED <<rowid, lastRowid>>
      PROVE  Life!Next
  BY <1>4, FinishSettles DEF Life!Next, Life!Outcomes, Terminal
<1>5. QED
  BY <1>1, <1>2, <1>3, <1>4, RowEffects, Unseen

(* The service with its database, threads, monitors, tools and crashes     *)
(* implements JobLifecycle: first come first served, one job at a time,    *)
(* one outcome each, for every number of jobs, stages, tools and crashes   *)
(* and under every fault.                                                  *)
THEOREM RefinementCorrect ==
  ASSUME OneServer
  PROVE  Spec => ImplementsLifecycle
<1>1. Init => Life!Init
  <2>1. Init => Pending = {} /\ Running = {}
    BY DEF Init, StoreInit, Pending, Running
  <2>2. InOrder(rowid, {}) = <<>>
    BY FS_EmptySet DEF InOrder
  <2>3. QED
    BY <2>1, <2>2 DEF Init, StoreInit, Life!Init, WaitingInOrder, RunningJob, Terminal
<1>2. Init => QueueInv
  BY FS_EmptySet DEF Init, StoreInit, QueueInv, Numbered, Pending
<1>3. TypeOK /\ ThreadInv /\ OneServerInv /\ QueueInv /\ [Next]_vars => QueueInv'
  BY QueueStep
<1>4. TypeOK /\ ThreadInv /\ OneServerInv /\ QueueInv /\ [Next]_vars
        => [Life!Next]_Life!lifeVars
  BY StepRefines
<1>5. QED
  BY <1>1, <1>2, <1>3, <1>4, TypeCorrect, ServerInvariant, PTL
     DEF Spec, ImplementsLifecycle, Life!Spec
=============================================================================
