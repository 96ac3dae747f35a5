------------------------------ MODULE WorkerInv ------------------------------
(***************************************************************************)
(* The strengthening of the safety properties of Worker that every step    *)
(* preserves.  ThreadInv and OwnerInv hold for any number of servers and   *)
(* any faults; OneServerInv needs one server, MonitorInv also a monitor    *)
(* that is always joined.                                                  *)
(***************************************************************************)
EXTENDS Worker

DeepdubErrors == {"invalid_input", "invalid_preset", "pipeline_error"}

(* What the position of a thread says of its job, stage, cause and tool. *)
ThreadInv ==
  /\ \A s \in Servers :
       /\ wpc[s] \in Busy \cup {"join", "post"} => job[s] \in Jobs
       /\ wpc[s] \in {"announce", "announced", "work"} => stage[s] \in 1..RenderStage
       /\ wpc[s] \in {"report", "reported"} => IsDetector(stage[s])
       /\ tool[s] # "none" => wpc[s] = "work" /\ RunsTools(stage[s])
       /\ wpc[s] = "classify" => cause[s] \in DeepdubErrors
       /\ wpc[s] = "write" => cause[s] # "none"
       /\ wpc[s] = "write" /\ cause[s] = "timeout" => timedOut[job[s]]
       /\ wpc[s] = "write" /\ cause[s] = "cancelled" => cancelReq[job[s]]
  /\ \A j \in Jobs :
       /\ mon[j] \in {"waiting", "kill"} => owner[j] \in Servers
       /\ status[j] \in {"ABSENT", "PENDING"} => owner[j] = NoServer

(* A thread that holds a job is the one that claimed it. *)
Holding == Busy \cup {"join", "post"}
OwnerInv == \A s \in Servers : wpc[s] \in Holding => owner[job[s]] = s

OneServer == \A s, t \in Servers : s = t

(* Who holds a running row, and what a thread that holds a job knows of it. *)
OneServerInv ==
  /\ \A j, k \in Running : j = k
  /\ \A j \in Running :
       owner[j] \in Servers
         /\ (wpc[owner[j]] \in {"down", "dead"} \/ Executes(owner[j], j))
  /\ \A s \in Servers : wpc[s] \in Busy => status[job[s]] = "RUNNING" /\ owner[job[s]] = s
  /\ \A s \in Servers : wpc[s] \in {"join", "post"} => status[job[s]] \in Terminal
  /\ OutcomeConsistent
  /\ PostedOnlySettled
  /\ StageEventsOnlyWhileRunning

(* A written report is behind every check: only completion, a crash or a   *)
(* dead thread can follow.                                                 *)
ReportInv ==
  /\ \A j \in Jobs : report[j] => status[j] \in {"RUNNING", "COMPLETED", "FAILED"}
  /\ \A s \in Servers :
       /\ wpc[s] \in InRunner \cup {"classify"} => ~report[job[s]]
       /\ wpc[s] = "write" /\ report[job[s]] => cause[s] = "completed"

(* Past the checks with something else to write than a stop. *)
StopMissed(s, past) ==
  past /\ ~(wpc[s] = "write" /\ cause[s] \in {"cancelled", "timeout", "internal_error"})

(* A stop that found a check ahead of it is never behind the last one     *)
(* with the job still on its way to a verdict.                             *)
StopAhead(s) ==
  wpc[s] \in Busy =>
    /\ cancelReq[job[s]] /\ ~lateCancel[job[s]] => ~StopMissed(s, PastLastCheck(s))
    /\ timedOut[job[s]] /\ ~lateDeadline[job[s]] => ~StopMissed(s, PastLastTest(s))

DeadlineOfRunning ==
  \A j \in Jobs : /\ lateDeadline[j] => timedOut[j]
                  /\ timedOut[j] => status[j] \notin {"ABSENT", "PENDING"}

CancelInv ==
  StopRequestHonoured /\ DeadlineOfRunning /\ \A s \in Servers : StopAhead(s)

(* A monitor outlives the run of its job by the join only, so it kills no  *)
(* other job's tool; a killed job still has a check ahead of it.           *)
MonitorInv ==
  /\ \A j \in Jobs :
       /\ mon[j] \in {"waiting", "kill"} =>
            job[owner[j]] = j /\ wpc[owner[j]] \in Busy \cup {"join", "dead"}
       /\ mon[j] = "kill" => timedOut[j] \/ cancelReq[j]
       /\ tainted[j] => timedOut[j] \/ cancelReq[j]
       /\ tainted[j] => owner[j] # NoServer
       /\ tainted[j] => status[j] # "COMPLETED"
  /\ \A s \in Servers :
       wpc[s] \in Busy /\ tainted[job[s]] =>
         /\ wpc[s] # "pdf"
         /\ ~(wpc[s] = "work" /\ stage[s] = RenderStage)
         /\ wpc[s] \in {"announced", "reported"} => cancelReq[job[s]]
         /\ wpc[s] = "write" => cause[s] # "completed"

IndInv == TypeOK /\ ThreadInv /\ OneServerInv /\ ReportInv /\ CancelInv /\ MonitorInv
=============================================================================
