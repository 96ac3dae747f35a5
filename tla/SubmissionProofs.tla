-------------------------- MODULE SubmissionProofs --------------------------
(***************************************************************************)
(* For any number of handlers, files, names, watch folders and rows: what  *)
(* the ladder lets through, and that the gap between the duplicate check   *)
(* and the enqueue is the only way past the check.                         *)
(***************************************************************************)
EXTENDS Submission, FiniteSetTheorems, TLAPS

Safe == SubmissionInv /\ DuplicatesOnlyByRace

USE SubmissionAssumption

(* A step of a handler that leaves the table alone keeps everything true if *)
(* the handler's new state has its type, passed the ladder and, past the   *)
(* check, has no duplicate among the rows it looked at.                    *)
LEMMA HandlerStep ==
  ASSUME Safe, NEW h \in Handlers, NEW r,
         UNCHANGED <<rowVars, sub, disk, page, deeds>>,
         req' = [req EXCEPT ![h] = r],
         \/ r = Idle
         \/ /\ r \in [at : {"resolve", "stat"}, form : Requests]
            /\ r.at = "stat" => Target[r.form.name] \in InRoots
         \/ /\ r \in [at : {"check", "enqueue"}, job : Submissions]
            /\ Admissible(r.job) /\ r.job.checked <= lastRowid
            /\ r.at = "enqueue" /\ NeedsCheck(r.job) =>
                 \A j \in InFlight : rowid[j] <= r.job.checked => Key(sub[j]) # Key(r.job)
  PROVE  Safe'
<1> USE DEF Safe, SubmissionInv
<1>a. /\ UNCHANGED <<status, rowid, lastRowid, cancelReq, graded, reason, strayEvent>>
      /\ UNCHANGED <<sub, disk, page, deeds>>
  BY DEF rowVars
<1>b. \A g \in Handlers : req'[g] = req[g] \/ req'[g] = r
  BY DEF SubmissionType
<1>1. SubmissionType'
  BY <1>a, <1>b DEF SubmissionType, StoreType
<1>2. RowInv'
  BY <1>a DEF RowInv
<1>3. LadderInv'
  <2>1. \A g \in Handlers :
          /\ req'[g].at = "stat" => Target[req'[g].form.name] \in InRoots
          /\ req'[g].at \in {"check", "enqueue"} =>
               Admissible(req'[g].job) /\ req'[g].job.checked <= lastRowid
    BY <1>b DEF LadderInv, Idle
  <2>2. QED
    BY <2>1, <1>a DEF LadderInv, Admissible
<1>4. PastCheckInv'
  <2>1. InFlight' = InFlight
    BY <1>a DEF InFlight, Pending, Running
  <2>2. QED
    BY <2>1, <1>a, <1>b DEF PastCheckInv, Idle, Key, NeedsCheck
<1>5. DuplicatesOnlyByRace'
  <2>1. InFlight' = InFlight
    BY <1>a DEF InFlight, Pending, Running
  <2>2. QED
    BY <2>1, <1>a DEF DuplicatesOnlyByRace, SameWork
<1>6. QED
  BY <1>1, <1>2, <1>3, <1>4, <1>5

(* A step that settles or claims rows, whatever becomes of the handlers.   *)
LEMMA StatusStep ==
  ASSUME Safe, StoreType', page'.todo \subseteq Jobs, page'.pending \subseteq Jobs, deeds' \in Nat,
         disk' \in [Files -> Sizes \cup {Absent}],
         UNCHANGED <<rowid, lastRowid, sub>>,
         \A j \in Jobs : status'[j] = "ABSENT" <=> status[j] = "ABSENT",
         InFlight' \subseteq InFlight,
         req' = req \/ req' = [h \in Handlers |-> Idle]
  PROVE  Safe'
<1> USE DEF Safe, SubmissionInv
<1>1. SubmissionType'
  <2>1. CASE req' = req
    BY <2>1 DEF SubmissionType
  <2>2. CASE req' = [h \in Handlers |-> Idle]
    BY <2>2 DEF SubmissionType
  <2>3. QED
    BY <2>1, <2>2
<1>2. RowInv'
  BY DEF RowInv
<1>3. LadderInv'
  <2>1. CASE req' = req
    BY <2>1 DEF LadderInv, Admissible
  <2>2. CASE req' = [h \in Handlers |-> Idle]
    BY <2>2 DEF LadderInv, Admissible, Idle
  <2>3. QED
    BY <2>1, <2>2
<1>4. PastCheckInv'
  <2>1. CASE req' = req
    BY <2>1 DEF PastCheckInv, Key, NeedsCheck
  <2>2. CASE req' = [h \in Handlers |-> Idle]
    BY <2>2 DEF PastCheckInv, Idle
  <2>3. QED
    BY <2>1, <2>2
<1>5. DuplicatesOnlyByRace'
  BY DEF DuplicatesOnlyByRace, SameWork
<1>6. QED
  BY <1>1, <1>2, <1>3, <1>4, <1>5

(* A row that comes in: numbered behind every other one, so it is earlier  *)
(* than nothing and newer than what every open check has looked at.        *)
LEMMA RowComesIn ==
  ASSUME Safe, NEW j \in Jobs, NEW s \in Submissions, Enqueue(j),
         sub' = [sub EXCEPT ![j] = s], UNCHANGED <<disk, page, deeds>>,
         s.origin = "form" => Admissible(s),
         s.origin = "form" /\ ~ s.override /\ Policy # "allow" =>
           \A k \in InFlight : rowid[k] <= s.checked => Key(sub[k]) # Key(s),
         req' = req \/ \E h \in Handlers : req' = [req EXCEPT ![h] = Idle]
  PROVE  Safe'
<1> USE DEF Safe, SubmissionInv
<1>a. /\ status[j] = "ABSENT" /\ status' = [status EXCEPT ![j] = "PENDING"]
      /\ lastRowid' = lastRowid + 1 /\ rowid' = [rowid EXCEPT ![j] = lastRowid + 1]
      /\ UNCHANGED <<cancelReq, graded, reason, strayEvent>>
  BY DEF Enqueue
<1>b. \A g \in Handlers : req'[g] = req[g] \/ req'[g] = Idle
  BY DEF SubmissionType
<1>c. /\ status \in [Jobs -> Status] /\ rowid \in [Jobs -> Nat] /\ lastRowid \in Nat
  BY DEF SubmissionType, StoreType
<1>d. InFlight' = InFlight \cup {j} /\ j \notin InFlight
  BY <1>a, <1>c DEF InFlight, Pending, Running, SubmissionType, StoreType
<1>e. \A k \in InFlight : k # j /\ sub'[k] = sub[k] /\ rowid'[k] = rowid[k] /\ rowid[k] <= lastRowid
  BY <1>a, <1>c, <1>d DEF SubmissionType, RowInv, InFlight, Pending, Running, Status
<1>f. sub'[j] = s /\ rowid'[j] = lastRowid + 1
  BY <1>a, <1>c DEF SubmissionType
<1>1. SubmissionType'
  <2>1. StoreType'
    BY <1>a DEF SubmissionType, StoreType, Status
  <2>2. sub' \in [Jobs -> Submissions \cup {Absent}]
    BY DEF SubmissionType
  <2>3. \A k \in Jobs : status'[k] # "ABSENT" => sub'[k] \in Submissions
    BY <1>a, <1>c DEF SubmissionType
  <2>4. req' \in [Handlers -> {Idle} \cup [at : {"resolve", "stat"}, form : Requests]
                        \cup [at : {"check", "enqueue"}, job : Submissions]]
    BY DEF SubmissionType
  <2>5. QED
    BY <2>1, <2>2, <2>3, <2>4 DEF SubmissionType
<1>2. RowInv'
  BY <1>a, <1>c DEF RowInv
<1>3. LadderInv'
  <2>1. \A k \in Jobs : status'[k] # "ABSENT" /\ sub'[k].origin = "form" => Admissible(sub'[k])
    BY <1>a, <1>c, <1>f DEF LadderInv, SubmissionType
  <2>2. \A g \in Handlers : req'[g].at \in {"check", "enqueue"} =>
          Admissible(req'[g].job) /\ req'[g].job.checked <= lastRowid'
    <3>1. SUFFICES ASSUME NEW g \in Handlers, req'[g].at \in {"check", "enqueue"}
                   PROVE  Admissible(req[g].job) /\ req[g].job.checked <= lastRowid + 1 /\ req'[g] = req[g]
      BY <1>a
    <3>2. req'[g] = req[g]
      BY <3>1, <1>b DEF Idle
    <3>3. req[g].job \in Submissions
      BY <3>1, <3>2 DEF SubmissionType, Idle
    <3>4. QED
      BY <3>1, <3>2, <3>3, <1>c DEF LadderInv, Submissions
  <2>3. \A g \in Handlers : req'[g].at = "stat" => Target[req'[g].form.name] \in InRoots
    BY <1>b DEF LadderInv, Idle
  <2>4. QED
    BY <2>1, <2>2, <2>3 DEF LadderInv, Admissible
<1>4. PastCheckInv'
  <2>1. SUFFICES ASSUME NEW g \in Handlers, req'[g].at = "enqueue", NeedsCheck(req'[g].job),
                        NEW k \in InFlight', rowid'[k] <= req'[g].job.checked
                 PROVE  Key(sub'[k]) # Key(req'[g].job)
    BY DEF PastCheckInv, Key, NeedsCheck
  <2>2. req'[g] = req[g]
    BY <2>1, <1>b DEF Idle
  <2>3. req[g].job \in Submissions /\ req[g].job.checked <= lastRowid
    BY <2>1, <2>2 DEF SubmissionType, LadderInv, Idle
  <2>4. k # j
    BY <2>1, <2>2, <2>3, <1>c, <1>f DEF Submissions
  <2>5. QED
    BY <2>1, <2>2, <2>4, <1>d, <1>e DEF PastCheckInv, Key, NeedsCheck
<1>5. DuplicatesOnlyByRace'
  <2>1. SUFFICES ASSUME NEW i \in InFlight', NEW k \in InFlight',
                        rowid'[i] < rowid'[k], SameWork(i, k)',
                        sub'[k].origin = "form", ~ sub'[k].override, Policy # "allow"
                 PROVE  rowid'[i] > sub'[k].checked
    BY DEF DuplicatesOnlyByRace
  <2>2. i # j
    <3>1. SUFFICES ASSUME i = j PROVE FALSE
      OBVIOUS
    <3>2. CASE k = j
      BY <2>1, <3>1, <3>2, <1>f, <1>c
    <3>3. CASE k # j
      <4>1. rowid'[k] \in Nat /\ rowid'[k] <= lastRowid
        BY <3>3, <1>d, <1>e, <1>c DEF InFlight, Pending, Running
      <4>2. QED
        BY <2>1, <3>1, <4>1, <1>f, <1>c
    <3>4. QED
      BY <3>2, <3>3
  <2>3. CASE k # j
    <3>1. i \in InFlight /\ k \in InFlight
      BY <2>2, <2>3, <1>d
    <3>2. sub'[i] = sub[i] /\ sub'[k] = sub[k] /\ rowid'[i] = rowid[i] /\ rowid'[k] = rowid[k]
      BY <3>1, <1>e
    <3>3. QED
      BY <2>1, <3>1, <3>2 DEF DuplicatesOnlyByRace, SameWork
  <2>4. CASE k = j
    <3>1. i \in InFlight /\ sub'[i] = sub[i] /\ rowid'[i] = rowid[i] /\ i \in Jobs /\ status[i] # "ABSENT"
      BY <2>2, <1>d, <1>e DEF InFlight, Pending, Running
    <3>2. sub[i] \in Submissions /\ rowid[i] \in Nat /\ s.checked \in Nat
      BY <3>1, <1>c DEF SubmissionType, Submissions
    <3>3. sub[i].path = sub[i].file /\ s.path = s.file
      BY <2>1, <2>4, <3>1, <3>2, <1>f DEF SameWork, LadderInv, Admissible, Submissions
    <3>4. Key(sub[i]) = Key(s)
      BY <2>1, <2>4, <3>1, <3>3, <1>f DEF SameWork, Key
    <3>5. ~ (rowid[i] <= s.checked)
      BY <2>1, <2>4, <3>1, <3>4, <1>f
    <3>6. QED
      BY <2>4, <3>1, <3>2, <3>5, <1>f
  <2>5. QED
    BY <2>3, <2>4
<1>6. QED
  BY <1>1, <1>2, <1>3, <1>4, <1>5

(* Each step of a request handler keeps the invariant. *)
LEMMA HandleStep ==
  ASSUME Safe, NEW h \in Handlers, Handle(h)
  PROVE  Safe'
<1> USE DEF Safe, SubmissionInv
<1>0. lastRowid \in Nat /\ disk \in [Files -> Sizes \cup {Absent}]
  BY DEF SubmissionType, StoreType
<1>1. ASSUME NEW r \in Forms, Receive(h, r) PROVE Safe'
  BY <1>1, HandlerStep DEF Receive, Step
<1>2. ASSUME \/ RefusePath(h) \/ StatFails(h) \/ RefuseForm(h)
             \/ RefuseDuplicate(h) \/ QueueIsFull(h) \/ StoreRaises(h)
      PROVE  Safe'
  <2>1. Leave(h)
    BY <1>2 DEF RefusePath, StatFails, RefuseForm, RefuseDuplicate, QueueIsFull, StoreRaises
  <2>2. QED
    BY <2>1, HandlerStep DEF Leave, Step
<1>3. CASE FindFile(h)
  <2>1. req[h] \in [at : {"resolve", "stat"}, form : Requests]
    BY <1>3 DEF FindFile, SubmissionType, Idle
  <2>2. [req[h] EXCEPT !.at = "stat"] \in [at : {"resolve", "stat"}, form : Requests]
    BY <2>1
  <2>3. QED
    BY <1>3, <2>2, HandlerStep DEF FindFile, Step
<1>4. CASE TakeSize(h)
  <2> DEFINE r == req[h].form
             f == Target[r.name]
             n == [at |-> IF NeedsCheck(r) THEN "check" ELSE "enqueue",
                   job |-> [path |-> Resolved(r.name), size |-> disk[f], preset |-> r.preset,
                            override |-> r.override, origin |-> "form", file |-> f,
                            checked |-> Nowhere]]
  <2>1. /\ disk[f] # Absent /\ Acceptable(r, disk[f]) /\ Step(h, n) /\ UNCHANGED <<rowVars, sub>>
    BY <1>4 DEF TakeSize
  <2>2. r \in Requests
    BY <1>4 DEF TakeSize, SubmissionType, Idle
  <2>3. f \in Files /\ r.name \in Names /\ r.preset \in Presets /\ r.override \in BOOLEAN
    BY <2>2 DEF Requests
  <2>4. disk[f] \in Sizes /\ disk[f] \in Nat
    BY <2>1, <2>3, <1>0
  <2>5. n.job \in Submissions
    BY <2>3, <2>4 DEF Submissions, Resolved, Nowhere
  <2>6. Admissible(n.job) /\ n.job.checked <= lastRowid
    <3>1. f \in InRoots
      BY <1>4 DEF TakeSize, LadderInv
    <3>2. QED
      BY <2>1, <3>1, <1>0 DEF Admissible, Acceptable, Resolved, Nowhere
  <2>7. n.at = "check" \/ ~ NeedsCheck(n.job)
    BY DEF NeedsCheck
  <2>8. n \in [at : {"check", "enqueue"}, job : Submissions]
    BY <2>5
  <2>9. QED
    BY <2>1, <2>6, <2>7, <2>8, HandlerStep DEF Step
<1>5. CASE NoDuplicate(h)
  <2> DEFINE n == [req[h] EXCEPT !.at = "enqueue", !.job.checked = lastRowid]
  <2>1. req[h] \in [at : {"check", "enqueue"}, job : Submissions] /\ Admissible(req[h].job)
    BY <1>5 DEF NoDuplicate, SubmissionType, LadderInv, Idle
  <2>2. n \in [at : {"check", "enqueue"}, job : Submissions] /\ n.job.checked = lastRowid
    BY <2>1, <1>0 DEF Submissions
  <2>3. Admissible(n.job) /\ Key(n.job) = Key(req[h].job)
    BY <2>1 DEF Admissible, Key, Submissions
  <2>4. \A j \in InFlight : Key(sub[j]) # Key(n.job)
    BY <1>5, <2>3 DEF NoDuplicate, Duplicates
  <2>5. Step(h, n) /\ UNCHANGED <<rowVars, sub>>
    BY <1>5 DEF NoDuplicate
  <2>6. n.job.checked <= lastRowid
    BY <2>2, <1>0
  <2> HIDE DEF n
  <2>7. QED
    BY <2>2, <2>3, <2>4, <2>5, <2>6, HandlerStep DEF Step
<1>6. ASSUME NEW j \in Jobs, EnqueueForm(h, j) PROVE Safe'
  <2>1. /\ Enqueue(j) /\ sub' = [sub EXCEPT ![j] = req[h].job]
        /\ req' = [req EXCEPT ![h] = Idle] /\ UNCHANGED <<disk, page, deeds>>
        /\ req[h].at = "enqueue"
    BY <1>6 DEF EnqueueForm, Step
  <2>2. req[h].job \in Submissions /\ Admissible(req[h].job)
    BY <2>1 DEF SubmissionType, LadderInv, Idle
  <2>3. req[h].job.origin = "form" /\ ~ req[h].job.override /\ Policy # "allow" =>
          \A k \in InFlight : rowid[k] <= req[h].job.checked => Key(sub[k]) # Key(req[h].job)
    BY <2>1 DEF PastCheckInv, NeedsCheck
  <2>4. QED
    BY <2>1, <2>2, <2>3, RowComesIn
<1>7. QED
  BY <1>1, <1>2, <1>3, <1>4, <1>5, <1>6 DEF Handle

(* So does a row of the watcher. *)
LEMMA WatcherStep ==
  ASSUME Safe, NEW j \in Jobs, NEW n \in WatchNames, NEW p \in Listed, WatcherEnqueues(j, n, p)
  PROVE  Safe'
<1> DEFINE s == [path |-> n, size |-> disk[Target[n]], preset |-> p,
                 override |-> \E k \in Jobs : status[k] # "ABSENT" /\ sub[k].origin = "watch" /\ sub[k].path = n,
                 origin |-> "watch", file |-> Target[n], checked |-> Nowhere]
<1>1. Enqueue(j) /\ sub' = [sub EXCEPT ![j] = s] /\ UNCHANGED <<disk, req, page, deeds>> /\ disk[Target[n]] # Absent
  BY DEF WatcherEnqueues
<1>2. s \in Submissions
  BY <1>1 DEF Submissions, Nowhere, Safe, SubmissionInv, SubmissionType
<1>3. s.origin = "watch"
  OBVIOUS
<1>4. QED
  BY <1>1, <1>2, <1>3, RowComesIn

(* Every step keeps the invariant. *)
LEMMA SafeStep ==
  ASSUME Safe, [Next]_vars
  PROVE  Safe'
<1>t. /\ SubmissionType /\ status \in [Jobs -> Status] /\ cancelReq \in [Jobs -> BOOLEAN]
      /\ rowid \in [Jobs -> Nat] /\ StoreType
      /\ page.todo \subseteq Jobs /\ page.pending \subseteq Jobs /\ deeds \in Nat
      /\ disk \in [Files -> Sizes \cup {Absent}]
  BY DEF Safe, SubmissionInv, SubmissionType, StoreType
<1>1. ASSUME NEW h \in Handlers, Handle(h) PROVE Safe'
  BY <1>1, HandleStep
<1>2. ASSUME NEW j \in Jobs, NEW n \in WatchNames, NEW p \in Listed, WatcherEnqueues(j, n, p) PROVE Safe'
  BY <1>2, WatcherStep
<1>3. CASE ListJobs
  BY <1>3, <1>t, StatusStep DEF ListJobs, Deed, rowVars, Pending, InFlight, Running, StoreType
<1>4. ASSUME NEW j \in Jobs, RenderRow(j) PROVE Safe'
  <2>1. page'.todo \subseteq Jobs /\ page'.pending \subseteq Jobs
    BY <1>4, <1>t DEF RenderRow
  <2>2. QED
    BY <1>4, <1>t, <2>1, StatusStep DEF RenderRow, rowVars, Pending, InFlight, Running, StoreType
<1>5. ASSUME NEW j \in Jobs, WorkerClaims(j) \/ WorkerSettles(j) PROVE Safe'
  <2>1. CASE WorkerClaims(j)
    BY <2>1, <1>t, StatusStep
       DEF WorkerClaims, ClaimNext, OldestPending, subVars, Pending, InFlight, Running, StoreType,
           Status
  <2>2. CASE WorkerSettles(j)
    BY <2>2, <1>t, StatusStep
       DEF WorkerSettles, MarkCompleted, Finish, subVars, Pending, InFlight, Running, StoreType,
           Status, Terminal
  <2>3. QED
    BY <1>5, <2>1, <2>2
<1>6. ASSUME NEW j \in Jobs, Cancel(j) PROVE Safe'
  <2>1. /\ status' \in [Jobs -> Status] /\ cancelReq' \in [Jobs -> BOOLEAN]
        /\ UNCHANGED <<rowid, lastRowid, graded, reason, strayEvent>>
        /\ status' = status \/ (status[j] = "PENDING" /\ status' = [status EXCEPT ![j] = "CANCELLED"])
    BY <1>6, <1>t DEF Cancel, RequestCancel, Status, Terminal
  <2>2. StoreType'
    BY <2>1, <1>t DEF StoreType
  <2>3. /\ \A k \in Jobs : status'[k] = "ABSENT" <=> status[k] = "ABSENT"
        /\ InFlight' \subseteq InFlight
    BY <2>1, <1>t DEF InFlight, Pending, Running
  <2>4. UNCHANGED <<disk, req, sub, page>> /\ deeds' \in Nat
    BY <1>6, <1>t DEF Cancel, Deed
  <2>5. QED
    BY <2>1, <2>2, <2>3, <2>4, <1>t, StatusStep
<1>7. ASSUME NEW f \in InRoots, NEW size \in Sizes \cup {Absent}, FileChanges(f, size) PROVE Safe'
  BY <1>7, <1>t, StatusStep DEF FileChanges, Deed, rowVars, Pending, InFlight, Running, StoreType
<1>8. CASE Restart
  BY <1>8, <1>t, StatusStep
     DEF Restart, Deed, RecoverOrphans, Nowhere, Pending, InFlight, Running, StoreType, Status,
         Terminal, FailureReasons
<1>9. CASE UNCHANGED vars
  BY <1>9, <1>t, StatusStep DEF vars, subVars, rowVars, Pending, InFlight, Running, StoreType
<1>10. QED
  BY <1>1, <1>2, <1>3, <1>4, <1>5, <1>6, <1>7, <1>8, <1>9 DEF Next

(* The initial states. *)
LEMMA SafeInit ==
  ASSUME Init
  PROVE  Safe
<1>1. SubmissionType
  BY DEF Init, StoreInit, SubmissionType, StoreType, Status, Nowhere
<1>2. RowInv /\ LadderInv /\ PastCheckInv /\ DuplicatesOnlyByRace
  BY DEF Init, StoreInit, RowInv, LadderInv, PastCheckInv, DuplicatesOnlyByRace, InFlight, Pending,
         Running, Idle
<1>3. QED
  BY <1>1, <1>2 DEF Safe, SubmissionInv

-----------------------------------------------------------------------------
(* The jobs page                                                           *)

(* Rows stay, keep their number and never wait again; a new one is alone   *)
(* and numbered last.                                                      *)
LEMMA RowsMove ==
  ASSUME Safe, [Next]_vars
  PROVE  /\ \A j \in Jobs : status[j] # "ABSENT" =>
              /\ status'[j] # "ABSENT" /\ rowid'[j] = rowid[j]
              /\ status'[j] = "PENDING" => status[j] = "PENDING"
         /\ \A j \in Jobs : status[j] = "ABSENT" /\ status'[j] # "ABSENT" =>
              rowid'[j] = lastRowid + 1
         /\ \A j, k \in Jobs :
              /\ status[j] = "ABSENT" /\ status'[j] # "ABSENT"
              /\ status[k] = "ABSENT" /\ status'[k] # "ABSENT"
              => j = k
<1>t. status \in [Jobs -> Status] /\ rowid \in [Jobs -> Nat]
  BY DEF Safe, SubmissionInv, SubmissionType, StoreType
<1> DEFINE Goal == /\ \A j \in Jobs : status[j] # "ABSENT" =>
                        /\ status'[j] # "ABSENT" /\ rowid'[j] = rowid[j]
                        /\ status'[j] = "PENDING" => status[j] = "PENDING"
                   /\ \A j \in Jobs : status[j] = "ABSENT" /\ status'[j] # "ABSENT" =>
                        rowid'[j] = lastRowid + 1
                   /\ \A j, k \in Jobs :
                        /\ status[j] = "ABSENT" /\ status'[j] # "ABSENT"
                        /\ status[k] = "ABSENT" /\ status'[k] # "ABSENT"
                        => j = k
<1>1. ASSUME UNCHANGED <<status, rowid>> PROVE Goal
  BY <1>1
<1>2. ASSUME NEW j \in Jobs, Enqueue(j) PROVE Goal
  BY <1>2, <1>t DEF Enqueue
<1>3. ASSUME NEW h \in Handlers, Handle(h) PROVE Goal
  BY <1>1, <1>2, <1>3 DEF Handle, Receive, RefusePath, FindFile, StatFails, RefuseForm, TakeSize,
       RefuseDuplicate, NoDuplicate, EnqueueForm, QueueIsFull, StoreRaises, Leave, rowVars
<1>4. CASE \E j \in Jobs, n \in WatchNames, p \in Listed : WatcherEnqueues(j, n, p)
  BY <1>2, <1>4 DEF WatcherEnqueues
<1>5. CASE ListJobs \/ \E j \in Jobs : RenderRow(j)
  BY <1>1, <1>5 DEF ListJobs, RenderRow, rowVars
<1>6. ASSUME NEW j \in Jobs, WorkerClaims(j) \/ WorkerSettles(j) \/ Cancel(j) PROVE Goal
  BY <1>6, <1>t DEF WorkerClaims, ClaimNext, OldestPending, Pending, WorkerSettles, MarkCompleted,
       Finish, Cancel, RequestCancel
<1>7. CASE \E f \in InRoots, size \in Sizes \cup {Absent} : FileChanges(f, size)
  BY <1>1, <1>7 DEF FileChanges, rowVars
<1>8. CASE Restart
  BY <1>8, <1>t DEF Restart, RecoverOrphans, Running
<1>9. CASE UNCHANGED vars
  BY <1>1, <1>9 DEF vars, rowVars
<1>10. QED
  BY <1>3, <1>4, <1>5, <1>6, <1>7, <1>8, <1>9 DEF Next

(* The rows that wait up to j, of which its place is the number. *)
UpTo(j) == {k \in Pending : rowid[k] <= rowid[j]}

(* A place is the number of rows that wait up to this one. *)
LEMMA PlaceIsNumber ==
  ASSUME NEW j \in Jobs
  PROVE  /\ QueuePosition(j) = IF status[j] = "PENDING" THEN Cardinality(UpTo(j)) ELSE Nowhere
         /\ QueuePosition(j) \in Nat
         /\ IsFiniteSet(UpTo(j)) /\ Cardinality(UpTo(j)) \in Nat
<1>1. UpTo(j) \in SUBSET Jobs
  BY DEF UpTo, Pending
<1>2. IsFiniteSet(UpTo(j)) /\ Cardinality(UpTo(j)) \in Nat
  BY <1>1, QueueAssumption, FS_Subset, FS_CardinalityType
<1>3. QED
  BY <1>2 DEF QueuePosition, UpTo, Nowhere

(* A row below another one has a smaller place. *)
LEMMA LowerPlace ==
  ASSUME Safe, PageInv, NEW j \in Jobs, NEW k \in Jobs,
         status[j] # "ABSENT", j # k, rowid[j] <= rowid[k], QueuePosition(k) # Nowhere
  PROVE  QueuePosition(j) < QueuePosition(k)
<1>t. rowid \in [Jobs -> Nat]
  BY DEF Safe, SubmissionInv, SubmissionType, StoreType
<1>1. status[k] = "PENDING" /\ QueuePosition(k) = Cardinality(UpTo(k))
  BY PlaceIsNumber
<1>2. rowid[j] < rowid[k]
  BY <1>1, <1>t DEF PageInv
<1>3. k \in UpTo(k) /\ k \notin UpTo(j) /\ UpTo(j) \subseteq UpTo(k)
  BY <1>1, <1>2, <1>t DEF UpTo, Pending
<1>4. IsFiniteSet(UpTo(k) \ {k}) /\ Cardinality(UpTo(k) \ {k}) = Cardinality(UpTo(k)) - 1
  BY <1>3, PlaceIsNumber, FS_RemoveElement
<1>5. Cardinality(UpTo(j)) <= Cardinality(UpTo(k) \ {k})
  <2>1. UpTo(j) \in SUBSET (UpTo(k) \ {k})
    BY <1>3
  <2>2. QED
    BY <2>1, <1>4, FS_Subset
<1>6. Cardinality(UpTo(j)) < Cardinality(UpTo(k)) /\ 0 < Cardinality(UpTo(k))
  BY <1>4, <1>5, PlaceIsNumber
<1>7. QED
  BY <1>1, <1>6, PlaceIsNumber DEF Nowhere

(* No step raises the place of a row that is there. *)
LEMMA PlaceFalls ==
  ASSUME Safe, [Next]_vars, NEW j \in Jobs, status[j] # "ABSENT"
  PROVE  QueuePosition(j)' \in Nat /\ QueuePosition(j)' <= QueuePosition(j)
<1>t. rowid \in [Jobs -> Nat] /\ lastRowid \in Nat
  BY DEF Safe, SubmissionInv, SubmissionType, StoreType
<1>1. rowid'[j] = rowid[j] /\ rowid[j] <= lastRowid /\ (status'[j] = "PENDING" => status[j] = "PENDING")
  BY RowsMove, <1>t DEF Safe, SubmissionInv, RowInv
<1>2. UpTo(j)' \subseteq UpTo(j)
  <2>1. SUFFICES ASSUME NEW k \in Jobs, status'[k] = "PENDING", rowid'[k] <= rowid'[j]
                 PROVE  status[k] = "PENDING" /\ rowid[k] <= rowid[j]
    BY DEF UpTo, Pending
  <2>2. status[k] # "ABSENT"
    BY <2>1, <1>1, <1>t, RowsMove
  <2>3. QED
    BY <2>1, <2>2, <1>1, RowsMove
<1>3. Cardinality(UpTo(j)') <= Cardinality(UpTo(j)) /\ Cardinality(UpTo(j)') \in Nat
  BY <1>2, PlaceIsNumber, FS_Subset, FS_CardinalityType
<1>4. QueuePosition(j)' = IF status'[j] = "PENDING" THEN Cardinality(UpTo(j)') ELSE Nowhere
  BY DEF QueuePosition, UpTo
<1>5. QED
  BY <1>1, <1>3, <1>4, PlaceIsNumber DEF Nowhere

(* Every step keeps what the page still has to render in order. *)
LEMMA PageStep ==
  ASSUME Safe, PageInv, [Next]_vars
  PROVE  PageInv'
<1>t. /\ status \in [Jobs -> Status] /\ rowid \in [Jobs -> Nat] /\ lastRowid \in Nat
      /\ page.todo \subseteq Jobs
  BY DEF Safe, SubmissionInv, SubmissionType, StoreType
<1>1. \A j, k \in Jobs :
        status'[j] # "ABSENT" /\ status'[k] # "ABSENT" /\ rowid'[j] = rowid'[k] => j = k
  <2>1. \A j \in Jobs : status[j] # "ABSENT" => rowid[j] <= lastRowid
    BY <1>t DEF Safe, SubmissionInv, RowInv
  <2>2. QED
    BY <2>1, <1>t, RowsMove DEF PageInv
<1>2. CASE UNCHANGED page
  <2>1. \A j \in page.todo :
          status'[j] # "ABSENT" /\ (status'[j] = "PENDING" => j \in page.pending)
    BY <1>t, RowsMove DEF PageInv
  <2>2. \A j \in page.todo : page.above # Nowhere => QueuePosition(j)' < page.above
    <3>1. SUFFICES ASSUME NEW j \in page.todo, page.above # Nowhere
                   PROVE  QueuePosition(j)' < page.above
      OBVIOUS
    <3>2. /\ QueuePosition(j)' \in Nat /\ QueuePosition(j) \in Nat
          /\ QueuePosition(j)' <= QueuePosition(j)
      BY <1>t, PlaceFalls, PlaceIsNumber DEF PageInv
    <3>3. QueuePosition(j) < page.above /\ page.above \in Nat
      BY <3>1 DEF PageInv
    <3>4. QED
      BY <3>2, <3>3
  <2>3. QED
    BY <1>1, <1>2, <2>1, <2>2 DEF PageInv
<1>3. CASE ListJobs \/ Restart
  <2>1. /\ page'.above = Nowhere
        /\ \A j \in page'.todo :
             j \in Jobs /\ status'[j] # "ABSENT" /\ (status'[j] = "PENDING" => j \in page'.pending)
    BY <1>3 DEF ListJobs, Restart, rowVars, Pending
  <2>2. QED
    BY <1>1, <2>1 DEF PageInv, Nowhere
<1>4. ASSUME NEW x \in Jobs, RenderRow(x) PROVE PageInv'
  <2>1. /\ page' = [todo |-> page.todo \ {x}, pending |-> page.pending \ {x},
                    above |-> IF QueuePosition(x) = Nowhere THEN page.above ELSE QueuePosition(x)]
        /\ UNCHANGED <<status, rowid>>
        /\ \A k \in page.todo : rowid[k] <= rowid[x]
    BY <1>4 DEF RenderRow, NextRow, rowVars
  <2>2. \A j : QueuePosition(j)' = QueuePosition(j)
    BY <2>1 DEF QueuePosition, Pending
  <2>3. CASE QueuePosition(x) = Nowhere
    BY <1>1, <2>1, <2>2, <2>3 DEF PageInv
  <2>4. CASE QueuePosition(x) # Nowhere
    <3>1. page'.above = QueuePosition(x) /\ page'.above \in Nat
      BY <2>1, <2>4, PlaceIsNumber
    <3>2. \A j \in page'.todo : QueuePosition(j) < QueuePosition(x)
      BY <1>t, <2>1, <2>4, LowerPlace DEF PageInv
    <3>3. \A j \in page'.todo :
            status'[j] # "ABSENT" /\ (status'[j] = "PENDING" => j \in page'.pending)
      BY <2>1 DEF PageInv
    <3>4. QED
      BY <1>1, <2>2, <3>1, <3>2, <3>3 DEF PageInv
  <2>5. QED
    BY <2>3, <2>4
<1>5. UNCHANGED page \/ ListJobs \/ Restart \/ \E x \in Jobs : RenderRow(x)
  BY DEF Next, Handle, Receive, RefusePath, FindFile, StatFails, RefuseForm, TakeSize,
     RefuseDuplicate, NoDuplicate, EnqueueForm, QueueIsFull, StoreRaises, Leave, Step,
     WatcherEnqueues, WorkerClaims, WorkerSettles, Cancel, FileChanges, vars, subVars
<1>6. QED
  BY <1>2, <1>3, <1>4, <1>5

(* At first no page is rendered. *)
LEMMA PageInit ==
  ASSUME Init
  PROVE  PageInv
BY DEF Init, StoreInit, PageInv, Nowhere

-----------------------------------------------------------------------------
(* The theorems                                                            *)

(* Requests past the ladder name a file under a media root by its resolved *)
(* path, within the limits, and have met no duplicate among the rows their *)
(* check could see.                                                        *)
THEOREM LadderHolds == Spec => []SubmissionInv
<1>1. Safe => SubmissionInv
  BY DEF Safe
<1>2. QED
  BY SafeInit, SafeStep, <1>1, PTL DEF Spec

(* Two submissions of the same work run side by side only if one insisted  *)
(* or the other came in between check and enqueue.                         *)
THEOREM OnlyByRace == Spec => []DuplicatesOnlyByRace
<1>1. Safe => DuplicatesOnlyByRace
  BY DEF Safe
<1>2. QED
  BY SafeInit, SafeStep, <1>1, PTL DEF Spec

(* While rows come in, are claimed, cancelled and settled between the      *)
(* transactions that read the places of one page, what the page shows is   *)
(* one queue: no place twice, and none for a row listed as anything but    *)
(* pending (app.py:87-95, 478).                                            *)
THEOREM PlacesInOrder == Spec => PlacesFall
<1> DEFINE Falls == \A j \in Jobs : RenderRow(j) /\ QueuePosition(j) # Nowhere =>
                      j \in page.pending /\ (page.above # Nowhere => QueuePosition(j) < page.above)
<1>1. Init => Safe /\ PageInv
  BY SafeInit, PageInit
<1>2. Safe /\ PageInv /\ [Next]_vars => Safe' /\ PageInv'
  BY SafeStep, PageStep
<1>3. Safe /\ PageInv => Falls
  <2>1. SUFFICES ASSUME Safe, PageInv, NEW j \in Jobs, RenderRow(j), QueuePosition(j) # Nowhere
                 PROVE  j \in page.pending /\ (page.above # Nowhere => QueuePosition(j) < page.above)
    OBVIOUS
  <2>2. j \in page.todo /\ status[j] = "PENDING"
    BY <2>1 DEF RenderRow, NextRow, QueuePosition
  <2>3. QED
    BY <2>1, <2>2 DEF PageInv
<1> HIDE DEF Falls
<1>4. Spec => [][Falls]_vars
  BY <1>1, <1>2, <1>3, PTL DEF Spec
<1>5. QED
  BY <1>4 DEF PlacesFall, Falls
=============================================================================
