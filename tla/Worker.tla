------------------------------- MODULE Worker -------------------------------
(***************************************************************************)
(* The background worker (server/worker.py) over the job table: the worker *)
(* thread with the stages of the pipeline it runs (orchestration/pipeline),*)
(* the external tool on that thread (utils/subprocess.py), the per-job     *)
(* cancel/timeout monitor thread, the request handlers that submit and     *)
(* cancel, and the service process, which may die at any step and be       *)
(* started again.  One step is one transaction, one registry access or one *)
(* stage of the pipeline.                                                  *)
(***************************************************************************)
EXTENDS JobStore

CONSTANTS
  Servers,        \* `deepdub-qc serve` processes sharing one database
  NumDetectors,   \* detectors applicable to the media file
  MaxTools,       \* bound: tools one stage runs one after the other
  MaxCrashes,     \* bound: process deaths in a behaviour
  Faults,         \* which faults happen, a subset of FaultKinds
  NoJob, NoServer

(* "slow_monitor": join(5 s) gives up on a stalled monitor; "pdf": the     *)
(* renderer raises something else than PdfRenderError; "store": SQLite     *)
(* raises (locked for 30 s, disk full).                                    *)
FaultKinds == {"slow_monitor", "pdf", "store"}

ASSUME WorkerAssumption ==
  /\ NumDetectors \in Nat /\ MaxTools \in Nat /\ MaxCrashes \in Nat
  /\ Faults \subseteq FaultKinds
  /\ NoJob \notin Jobs /\ NoServer \notin Servers

VARIABLES
  \* the worker thread of each server
  wpc,        \* where it is
  job,        \* the job it executes
  stage,      \* the pipeline stage
  cause,      \* how the run ended
  tool,       \* the external tool: its process and its _ACTIVE entry
  spawned,    \* tools spawned in this stage (bound only)
  \* per job
  owner,      \* the server that claimed it
  mon,        \* its monitor thread
  timedOut,   \* the timed_out event
  report,     \* report.json and report.html are in the job folder
  posted,     \* handed to the post-completion step
  \* history
  tainted,    \* a monitor killed a tool this job was running
  lateCancel, \* the first cancel request found no check left ahead of it
  lateDeadline, \* the deadline found no timeout test left ahead of it
  crashes

threadVars == <<wpc, job, stage, cause, tool, spawned>>
jobVars == <<owner, mon, timedOut, report, posted>>
histVars == <<tainted, lateCancel, lateDeadline, crashes>>
vars == <<rowVars, threadVars, jobVars, histVars>>

(* Stages 1..NumDetectors are the detectors, then the fixed ones. *)
RulesStage == NumDetectors + 1
EvidenceStage == NumDetectors + 2
HashingStage == NumDetectors + 3
RenderStage == NumDetectors + 4
IsDetector(n) == n \in 1..NumDetectors
RunsTools(n) == IsDetector(n) \/ n \in {EvidenceStage, HashingStage}

InRunner == {"begin", "announce", "announced", "work", "report", "reported"}
Busy == InRunner \cup {"classify", "write", "pdf"}
WorkerPcs == Busy \cup {"down", "idle", "join", "post", "dead"}
Causes == (FailureReasons \ {"interrupted_by_restart"})
            \cup {"none", "completed", "cancelled"}

TypeOK ==
  /\ StoreType
  /\ wpc \in [Servers -> WorkerPcs]
  /\ job \in [Servers -> Jobs \cup {NoJob}]
  /\ stage \in [Servers -> 0..RenderStage]
  /\ cause \in [Servers -> Causes]
  /\ tool \in [Servers -> {"none", "spawned", "active", "killed"}]
  /\ spawned \in [Servers -> 0..MaxTools]
  /\ owner \in [Jobs -> Servers \cup {NoServer}]
  /\ mon \in [Jobs -> {"off", "waiting", "kill", "done"}]
  /\ timedOut \in [Jobs -> BOOLEAN]
  /\ report \in [Jobs -> BOOLEAN]
  /\ posted \in [Jobs -> BOOLEAN]
  /\ tainted \in [Jobs -> BOOLEAN]
  /\ lateCancel \in [Jobs -> BOOLEAN]
  /\ lateDeadline \in [Jobs -> BOOLEAN]
  /\ crashes \in 0..MaxCrashes

Init ==
  /\ StoreInit
  /\ wpc = [s \in Servers |-> "down"]
  /\ job = [s \in Servers |-> NoJob]
  /\ stage = [s \in Servers |-> 0]
  /\ cause = [s \in Servers |-> "none"]
  /\ tool = [s \in Servers |-> "none"]
  /\ spawned = [s \in Servers |-> 0]
  /\ owner = [j \in Jobs |-> NoServer]
  /\ mon = [j \in Jobs |-> "off"]
  /\ timedOut = [j \in Jobs |-> FALSE]
  /\ report = [j \in Jobs |-> FALSE]
  /\ posted = [j \in Jobs |-> FALSE]
  /\ tainted = [j \in Jobs |-> FALSE]
  /\ lateCancel = [j \in Jobs |-> FALSE]
  /\ lateDeadline = [j \in Jobs |-> FALSE]
  /\ crashes = 0

Executes(s, j) == job[s] = j /\ wpc[s] \in Busy
JobDone(j) == \A s \in Servers : ~Executes(s, j)

GoTo(s, pc) == wpc' = [wpc EXCEPT ![s] = pc]
End(s, pc, c) == GoTo(s, pc) /\ cause' = [cause EXCEPT ![s] = c]
EnterStage(s, n) ==
  /\ GoTo(s, "announce")
  /\ stage' = [stage EXCEPT ![s] = n]
  /\ spawned' = [spawned EXCEPT ![s] = 0]

-----------------------------------------------------------------------------
(* The process and the handlers of the API *)

FaultyStart(s) ==
  /\ wpc[s] = "down"
  /\ GoTo(s, "idle")
  /\ UNCHANGED <<rowVars, job, stage, cause, tool, spawned, jobVars, histVars>>
(* Worker.start: the orphans are failed, then the thread runs. *)
Start(s) ==
  /\ wpc[s] = "down"
  /\ RecoverOrphans
  /\ GoTo(s, "idle")
  /\ UNCHANGED <<job, stage, cause, tool, spawned, jobVars, histVars>>

(* The process ends: killed, or by stop(), whose join gives up after 10 s  *)
(* and abandons the daemon threads.  Only the database survives.           *)
Crash(s) ==
  /\ wpc[s] # "down"
  /\ crashes < MaxCrashes
  /\ crashes' = crashes + 1
  /\ GoTo(s, "down")
  /\ job' = [job EXCEPT ![s] = NoJob]
  /\ stage' = [stage EXCEPT ![s] = 0]
  /\ cause' = [cause EXCEPT ![s] = "none"]
  /\ tool' = [tool EXCEPT ![s] = "none"]
  /\ spawned' = [spawned EXCEPT ![s] = 0]
  /\ mon' = [j \in Jobs |-> IF owner[j] = s THEN "off" ELSE mon[j]]
  /\ UNCHANGED <<rowVars, owner, timedOut, report, posted, tainted,
                 lateCancel, lateDeadline>>

Submit(j) ==
  /\ \E s \in Servers : wpc[s] # "down"
  /\ Enqueue(j)
  /\ UNCHANGED <<threadVars, jobVars, histVars>>

(* Past the cancel check of the last progress callback (or of the error    *)
(* classification) no code looks at the flag again.                        *)
PastLastCheck(s) == \/ wpc[s] \in {"pdf", "write"}
                    \/ wpc[s] = "work" /\ stage[s] = RenderStage

Cancel(j) ==
  /\ \E s \in Servers : wpc[s] # "down"
  /\ RequestCancel(j)
  /\ lateCancel' = [lateCancel EXCEPT
       ![j] = @ \/ /\ status[j] = "RUNNING" /\ ~cancelReq[j]
                   /\ \A s \in Servers : Executes(s, j) => PastLastCheck(s)]
  /\ UNCHANGED <<threadVars, jobVars, tainted, lateDeadline, crashes>>

-----------------------------------------------------------------------------
(* The worker thread: _loop, _execute and the pipeline it calls *)

(* _loop: claim the oldest pending job; _execute starts its monitor. *)
Claim(s, j) ==
  /\ wpc[s] = "idle"
  /\ ClaimNext(j)
  /\ GoTo(s, "begin")
  /\ job' = [job EXCEPT ![s] = j]
  /\ owner' = [owner EXCEPT ![j] = s]
  /\ mon' = [mon EXCEPT ![j] = "waiting"]
  /\ UNCHANGED <<stage, cause, tool, spawned, timedOut, report, posted, histVars>>

(* run_analysis before the first callback: a missing input or an invalid   *)
(* preset ends the run, otherwise the first stage is announced.            *)
Begin(s) ==
  /\ wpc[s] = "begin"
  /\ \/ EnterStage(s, 1) /\ UNCHANGED cause
     \/ \E c \in {"invalid_input", "invalid_preset"} : End(s, "classify", c)
        /\ UNCHANGED <<stage, spawned>>
  /\ UNCHANGED <<rowVars, job, tool, jobVars, histVars>>

FaultyCallback(s) ==
  /\ wpc[s] \in {"announce", "report"}
  /\ RecordProgress(job[s], "stage")
  /\ IF \E j \in Jobs : timedOut[j]
       THEN End(s, "write", "timeout")
       ELSE /\ GoTo(s, IF wpc[s] = "announce" THEN "announced" ELSE "reported")
            /\ UNCHANGED cause
  /\ UNCHANGED <<job, stage, tool, spawned, jobVars, histVars>>
(* on_progress, first half: the event is stored whatever the status, then  *)
(* the timeout is tested before the cancel flag is read.                   *)
Callback(s) ==
  /\ wpc[s] \in {"announce", "report"}
  /\ RecordProgress(job[s], "stage")
  /\ IF timedOut[job[s]]
       THEN End(s, "write", "timeout")
       ELSE /\ GoTo(s, IF wpc[s] = "announce" THEN "announced" ELSE "reported")
            /\ UNCHANGED cause
  /\ UNCHANGED <<job, stage, tool, spawned, jobVars, histVars>>

FaultyCheckCancel(s) ==
  /\ wpc[s] \in {"announced", "reported"}
  /\ \/ wpc[s] = "announced" /\ GoTo(s, "work") /\ UNCHANGED <<cause, stage, spawned>>
     \/ wpc[s] = "reported" /\ EnterStage(s, stage[s] + 1) /\ UNCHANGED cause
  /\ UNCHANGED <<rowVars, job, tool, jobVars, histVars>>
(* on_progress, second half: read the cancel flag. *)
CheckCancel(s) ==
  /\ wpc[s] \in {"announced", "reported"}
  /\ \/ /\ cancelReq[job[s]]
        /\ End(s, "write", "cancelled")
        /\ UNCHANGED <<stage, spawned>>
     \/ /\ ~cancelReq[job[s]] /\ wpc[s] = "announced"
        /\ GoTo(s, "work")
        /\ UNCHANGED <<cause, stage, spawned>>
     \/ /\ ~cancelReq[job[s]] /\ wpc[s] = "reported"
        /\ EnterStage(s, stage[s] + 1)
        /\ UNCHANGED cause
  /\ UNCHANGED <<rowVars, job, tool, jobVars, histVars>>

(* run_tool: Popen, then the registration, then communicate; a kill that   *)
(* looks the thread up between the first two finds nothing.                *)
SpawnTool(s) ==
  /\ wpc[s] = "work" /\ RunsTools(stage[s])
  /\ tool[s] = "none" /\ spawned[s] < MaxTools
  /\ tool' = [tool EXCEPT ![s] = "spawned"]
  /\ spawned' = [spawned EXCEPT ![s] = @ + 1]
  /\ UNCHANGED <<rowVars, wpc, job, stage, cause, jobVars, histVars>>

RegisterTool(s) ==
  /\ tool[s] = "spawned"
  /\ tool' = [tool EXCEPT ![s] = "active"]
  /\ UNCHANGED <<rowVars, wpc, job, stage, cause, spawned, jobVars, histVars>>

ToolSucceeds(s) ==
  /\ tool[s] = "active"
  /\ tool' = [tool EXCEPT ![s] = "none"]
  /\ UNCHANGED <<rowVars, wpc, job, stage, cause, spawned, jobVars, histVars>>

(* A non-zero exit (a killed tool always), or the tool's own timeout. A    *)
(* detector turns it into DetectorRunError and its stage ends as failed;   *)
(* the evidence grabs and the version probes swallow it.                   *)
ToolFails(s) ==
  /\ tool[s] \in {"active", "killed"}
  /\ tool' = [tool EXCEPT ![s] = "none"]
  /\ IF IsDetector(stage[s]) THEN GoTo(s, "report") ELSE UNCHANGED wpc
  /\ UNCHANGED <<rowVars, job, stage, cause, spawned, jobVars, histVars>>

FaultyStageDone(s) ==
  /\ wpc[s] = "work" /\ tool[s] = "none"
  /\ \/ /\ IsDetector(stage[s])
        /\ GoTo(s, "report")
        /\ UNCHANGED <<stage, spawned, report>>
     \/ /\ stage[s] = RulesStage
        /\ \E n \in {EvidenceStage, HashingStage} : EnterStage(s, n)
        /\ UNCHANGED report
     \/ /\ stage[s] \in {EvidenceStage, HashingStage}
        /\ EnterStage(s, stage[s] + 1)
        /\ UNCHANGED report
     \/ /\ stage[s] = RenderStage
        /\ report' = [report EXCEPT ![job[s]] = TRUE]
        /\ GoTo(s, "announced")
        /\ UNCHANGED <<stage, spawned>>
  /\ UNCHANGED <<rowVars, job, cause, tool, owner, mon, timedOut, posted, histVars>>
(* A stage ends: a detector reports, done or failed; the rule stage goes   *)
(* on to the evidence unless the preset wants none; the last one has       *)
(* written report.json and report.html.                                    *)
StageDone(s) ==
  /\ wpc[s] = "work" /\ tool[s] = "none"
  /\ \/ /\ IsDetector(stage[s])
        /\ GoTo(s, "report")
        /\ UNCHANGED <<stage, spawned, report>>
     \/ /\ stage[s] = RulesStage
        /\ \E n \in {EvidenceStage, HashingStage} : EnterStage(s, n)
        /\ UNCHANGED report
     \/ /\ stage[s] \in {EvidenceStage, HashingStage}
        /\ EnterStage(s, stage[s] + 1)
        /\ UNCHANGED report
     \/ /\ stage[s] = RenderStage
        /\ report' = [report EXCEPT ![job[s]] = TRUE]
        /\ GoTo(s, "pdf")
        /\ UNCHANGED <<stage, spawned>>
  /\ UNCHANGED <<rowVars, job, cause, tool, owner, mon, timedOut, posted, histVars>>

(* A stage raises: a DeepdubQCError goes to the classification, any other  *)
(* exception is an internal error at once. The renderers raise only the    *)
(* second kind.                                                            *)
StageRaises(s) ==
  /\ wpc[s] = "work" /\ tool[s] = "none"
  /\ \/ stage[s] # RenderStage /\ End(s, "classify", "pipeline_error")
     \/ End(s, "write", "internal_error")
  /\ UNCHANGED <<rowVars, job, stage, tool, spawned, jobVars, histVars>>

FaultyClassify(s) ==
  /\ wpc[s] = "classify"
  /\ GoTo(s, "write")
  /\ UNCHANGED <<rowVars, job, stage, cause, tool, spawned, jobVars, histVars>>
(* _classify_pipeline_error: timeout first, then cancel, then the error. *)
Classify(s) ==
  /\ wpc[s] = "classify"
  /\ End(s, "write", IF timedOut[job[s]] THEN "timeout"
                     ELSE IF cancelReq[job[s]] THEN "cancelled" ELSE cause[s])
  /\ UNCHANGED <<rowVars, job, stage, tool, spawned, jobVars, histVars>>

(* _render_pdf returns, degraded or not. *)
RenderPdf(s) ==
  /\ wpc[s] = "pdf"
  /\ End(s, "write", "completed")
  /\ UNCHANGED <<rowVars, job, stage, tool, spawned, jobVars, histVars>>

(* An exception other than PdfRenderError leaves the else clause, and with *)
(* it _execute and _loop: the thread is gone, the row stays RUNNING.       *)
PdfEscapes(s) ==
  /\ "pdf" \in Faults
  /\ wpc[s] = "pdf"
  /\ GoTo(s, "dead")
  /\ UNCHANGED <<rowVars, job, stage, cause, tool, spawned, jobVars, histVars>>

(* The terminal write: no test of the status or of the flag. *)
Write(s) ==
  /\ wpc[s] = "write"
  /\ CASE cause[s] = "completed" -> MarkCompleted(job[s])
       [] cause[s] = "cancelled" -> MarkCancelled(job[s])
       [] OTHER -> MarkFailed(job[s], cause[s])
  /\ GoTo(s, "join")
  /\ UNCHANGED <<job, stage, cause, tool, spawned, jobVars, histVars>>

(* finally: job_done is set and the monitor joined for at most 5 s. *)
JoinMonitor(s) ==
  /\ wpc[s] = "join"
  /\ mon[job[s]] = "done" \/ "slow_monitor" \in Faults
  /\ GoTo(s, "post")
  /\ UNCHANGED <<rowVars, job, stage, cause, tool, spawned, jobVars, histVars>>

(* _run_post_completion reads the row back and hands COMPLETED and FAILED  *)
(* jobs to the routing step, which adds notes to the row and whose         *)
(* exceptions are swallowed; PostCompletion models that step.              *)
Post(s) ==
  /\ wpc[s] = "post"
  /\ \/ /\ status[job[s]] \in {"COMPLETED", "FAILED"}
        /\ posted' = [posted EXCEPT ![job[s]] = TRUE]
        /\ RecordProgress(job[s], "note")
     \/ /\ status[job[s]] \notin {"COMPLETED", "FAILED"}
        /\ UNCHANGED <<posted, rowVars>>
  /\ GoTo(s, "idle")
  /\ job' = [job EXCEPT ![s] = NoJob]
  /\ stage' = [stage EXCEPT ![s] = 0]
  /\ cause' = [cause EXCEPT ![s] = "none"]
  /\ spawned' = [spawned EXCEPT ![s] = 0]
  /\ UNCHANGED <<tool, owner, mon, timedOut, report, histVars>>

(* A store call raises.  Inside the runner that is an internal error;      *)
(* claim_next, the classification, the terminal write and the read-back    *)
(* are not protected, and the thread ends.                                 *)
StoreFails(s) ==
  /\ "store" \in Faults
  /\ \/ /\ wpc[s] \in {"announce", "announced", "report", "reported"}
        /\ End(s, "write", "internal_error")
     \/ /\ wpc[s] \in {"idle", "classify", "write", "post"}
        /\ GoTo(s, "dead")
        /\ UNCHANGED cause
  /\ UNCHANGED <<rowVars, job, stage, tool, spawned, jobVars, histVars>>

-----------------------------------------------------------------------------
(* The monitor thread of job j *)

MonitorFrame == <<rowVars, wpc, job, stage, cause, spawned,
                  owner, report, posted, lateCancel, crashes>>

(* Past the timeout test of the last progress callback (or of the error    *)
(* classification) no code looks at timed_out again.                       *)
PastLastTest(s) == \/ PastLastCheck(s)
                   \/ wpc[s] = "announced" /\ stage[s] = RenderStage

(* The deadline has passed: timed_out is set, the kill is still to come. *)
MonitorDeadline(j) ==
  /\ mon[j] = "waiting" /\ ~JobDone(j)
  /\ timedOut' = [timedOut EXCEPT ![j] = TRUE]
  /\ lateDeadline' = [lateDeadline EXCEPT
       ![j] = \A s \in Servers : Executes(s, j) => PastLastTest(s)]
  /\ mon' = [mon EXCEPT ![j] = "kill"]
  /\ UNCHANGED <<MonitorFrame, tool, tainted>>

MonitorCancel(j) ==
  /\ mon[j] = "waiting" /\ ~JobDone(j)
  /\ cancelReq[j]
  /\ mon' = [mon EXCEPT ![j] = "kill"]
  /\ UNCHANGED <<MonitorFrame, timedOut, lateDeadline, tool, tainted>>

(* terminate_active_tool(worker_ident), once: whatever is registered for   *)
(* the thread is killed, and the monitor returns whether or not it was.    *)
MonitorKill(j) ==
  /\ mon[j] = "kill"
  /\ mon' = [mon EXCEPT ![j] = "done"]
  /\ LET s == owner[j] IN
       IF tool[s] = "active"
         THEN /\ tool' = [tool EXCEPT ![s] = "killed"]
              /\ tainted' = [tainted EXCEPT ![job[s]] = TRUE]
         ELSE UNCHANGED <<tool, tainted>>
  /\ UNCHANGED <<MonitorFrame, timedOut, lateDeadline>>

FaultyMonitorExit(j) ==
  /\ mon[j] = "waiting" /\ JobDone(j) /\ cancelReq[j]
  /\ mon' = [mon EXCEPT ![j] = "done"]
  /\ UNCHANGED <<MonitorFrame, timedOut, lateDeadline, tool, tainted>>
(* job_done.wait returns TRUE. *)
MonitorExit(j) ==
  /\ mon[j] = "waiting" /\ JobDone(j)
  /\ mon' = [mon EXCEPT ![j] = "done"]
  /\ UNCHANGED <<MonitorFrame, timedOut, lateDeadline, tool, tainted>>

(* Its read of the flag raises: nobody watches the job any more. *)
MonitorDies(j) ==
  /\ "store" \in Faults
  /\ mon[j] = "waiting"
  /\ mon' = [mon EXCEPT ![j] = "done"]
  /\ UNCHANGED <<MonitorFrame, timedOut, lateDeadline, tool, tainted>>

-----------------------------------------------------------------------------
WorkerStep(s) ==
  \/ \E j \in Jobs : Claim(s, j)
  \/ Begin(s) \/ Callback(s) \/ CheckCancel(s)
  \/ SpawnTool(s) \/ RegisterTool(s) \/ ToolSucceeds(s) \/ ToolFails(s)
  \/ StageDone(s) \/ StageRaises(s) \/ Classify(s)
  \/ RenderPdf(s) \/ Write(s) \/ JoinMonitor(s) \/ Post(s)

MonitorStep(j) == MonitorCancel(j) \/ MonitorKill(j) \/ MonitorExit(j)

Next ==
  \/ \E s \in Servers : \/ Start(s) \/ Crash(s) \/ WorkerStep(s)
                        \/ PdfEscapes(s) \/ StoreFails(s)
  \/ \E j \in Jobs : \/ Submit(j) \/ Cancel(j) \/ MonitorStep(j)
                     \/ MonitorDeadline(j) \/ MonitorDies(j)

Spec == Init /\ [][Next]_vars

(* The operating system schedules both threads, every tool ends (run_tool  *)
(* gives each one a timeout), and nobody promises submissions, cancels,    *)
(* deadlines, faults or restarts.                                          *)
Fairness ==
  /\ \A s \in Servers : WF_vars(WorkerStep(s))
  /\ \A j \in Jobs : WF_vars(MonitorStep(j))

FairSpec == Spec /\ Fairness

-----------------------------------------------------------------------------
(* Properties *)

(* A RUNNING row always has a thread at work on it, a thread that died     *)
(* over it, or a process that is down; no second job runs beside it. The   *)
(* claim, the recovery and the terminal write must agree on this.          *)
OneRunnerPerServer ==
  \A j \in Running :
    /\ owner[j] # NoServer
    /\ wpc[owner[j]] \in {"down", "dead"} \/ Executes(owner[j], j)
    /\ \A k \in Running : wpc[owner[k]] # "down" /\ owner[k] = owner[j] => k = j

(* The outcome columns agree with the status: a verdict exactly on         *)
(* COMPLETED and a reason exactly on FAILED, whichever of the five writers *)
(* of the row came last.                                                   *)
OutcomeConsistent ==
  \A j \in Jobs :
    /\ graded[j] <=> status[j] = "COMPLETED"
    /\ reason[j] # "none" <=> status[j] = "FAILED"

(* A job is reported timed out or cancelled for its own deadline or its    *)
(* own flag only, even when another job's stale monitor killed its tool.   *)
StoppedForItsOwnReason ==
  \A j \in Jobs :
    /\ reason[j] = "timeout" => timedOut[j]
    /\ status[j] = "CANCELLED" /\ owner[j] # NoServer => cancelReq[j]

(* A job whose tool the monitor killed is never given a verdict: detectors *)
(* turn the kill into a failed stage and probes swallow it, so only the    *)
(* next callback keeps the truncated measurements out of a QC result.      *)
KilledNeverGraded == \A j \in Jobs : tainted[j] => status[j] # "COMPLETED"

(* A deadline or a cancel request that found a test for it ahead decides  *)
(* how the job ends: cancelled on a request or failed by its deadline, and *)
(* never with a verdict or the error of a tool the stop has killed.  Two   *)
(* other ends remain: the crash that overtakes it, and an exception that   *)
(* is no DeepdubQCError (of a stage or of the store), which worker.py      *)
(* records as internal_error without asking for a stop.                    *)
StopInTime(j) == \/ cancelReq[j] /\ ~lateCancel[j]
                 \/ timedOut[j] /\ ~lateDeadline[j]
StopRequestHonoured ==
  \A j \in Jobs : status[j] \in Terminal /\ StopInTime(j) =>
    \/ status[j] = "CANCELLED" /\ cancelReq[j]
    \/ reason[j] = "timeout" /\ timedOut[j]
    \/ reason[j] \in {"interrupted_by_restart", "internal_error"}

(* F3: the folder of a cancelled job contains no report.                   *)
CancelledHasNoReport == \A j \in Jobs : status[j] = "CANCELLED" => ~report[j]

(* Routing and webhooks see a job only after its terminal write, and never *)
(* a cancelled one.                                                        *)
PostedOnlySettled == \A j \in Jobs : posted[j] => status[j] \in {"COMPLETED", "FAILED"}

(* The stages of a run are logged on its row only while it is RUNNING,     *)
(* though record_progress does not look at the status.                     *)
StageEventsOnlyWhileRunning == \A j \in Jobs : ~strayEvent[j]

(* No settled job is reopened or given another outcome: not by a late      *)
(* terminal write, a cancel, a restart or a second claim.                  *)
OutcomeIsFinal ==
  [][\A j \in Jobs : status[j] \in Terminal =>
       status'[j] = status[j] /\ reason'[j] = reason[j] /\ graded'[j] = graded[j]]_vars

(* While any server is up, every running job settles, and a waiting job    *)
(* leaves the queue.                                                       *)
AllDown == \A s \in Servers : wpc[s] = "down"
RunningSettles == \A j \in Jobs : status[j] = "RUNNING" ~> status[j] \in Terminal \/ AllDown
QueueDrains == \A j \in Jobs : status[j] = "PENDING" ~> status[j] # "PENDING" \/ AllDown

(* Two servers on one database never work on the same job.                 *)
NoDoubleClaim ==
  \A s, t \in Servers :
    wpc[s] \in Busy /\ wpc[t] \in Busy /\ job[s] = job[t] => s = t

(* The worker thread outlives every job.                                   *)
WorkerNeverDies == \A s \in Servers : wpc[s] # "dead"
=============================================================================
