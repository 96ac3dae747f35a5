--------------------------- MODULE DeliveryProps ---------------------------
(***************************************************************************)
(* What the unattended path promises suppliers, operators and receivers.   *)
(***************************************************************************)
EXTENDS Delivery

WatchJobs(p) == {j \in Jobs : origin[j] = "watch" /\ input[j] = p}
(* j repeats the watch job that came last before it on the same path. *)
Repeats(j) ==
  \E k \in WatchJobs(input[j]) :
    /\ rowid[k] < rowid[j] /\ content[k] = content[j]
    /\ \A i \in WatchJobs(input[j]) : ~(rowid[k] < rowid[i] /\ rowid[i] < rowid[j])

(* A delivery becomes one job: the watcher enqueues a content again only   *)
(* when its watch_seen entry was lost, to a crash or an error between the  *)
(* enqueue and the record, or to the pruning (watch.py:255-288).           *)
OneJobPerDelivery ==
  Cardinality({j \in Jobs : origin[j] = "watch" /\ Repeats(j)}) <= lapses

(* A file still being copied into the folder never becomes a job, whether  *)
(* the copy shows its progress in the mtime or only in the size, and       *)
(* although a restart forgets the last listing (watch.py:128-139).         *)
NeverWhileCopying ==
  \A j \in Jobs : origin[j] = "watch" => content[j] \in whole

(* Routing costs no file but in one window: what a supplier finished and   *)
(* nobody took away is on disk, wherever a move, a collision, a failure or *)
(* the end of the process left it (routing.py:85-103).  The window is the  *)
(* one of a move across volumes: what is delivered at the path between the *)
(* end of the copy and the unlink (routing.py:100) may be deleted unseen.  *)
NothingLost == owed \ crossed \subseteq {disk[p] : p \in Paths}

(* "webhook: delivered" on the job page is true: the receiver has been     *)
(* told of this job, and what it was told is the outcome the row still     *)
(* has (routing.py:140-169, 224-244).                                      *)
DeliveredNoteTrue ==
  \A j \in Jobs : hookNote[j] = "delivered" => told[j] = status[j]

(* docs/watch-folders-spec.md section 4: new bytes at a path become a new  *)
(* job.  So a content that routing puts into a verdict folder has had a    *)
(* job of its own.  The code moves whatever is at the path by then.        *)
RedeliveryGetsItsJob ==
  \A j \in Jobs : routed[j] # Absent =>
    \E k \in WatchJobs(input[j]) : content[k] = routed[j]

-----------------------------------------------------------------------------
(* The inductive invariant behind the safety properties.  It needs that no *)
(* folder routes into a watched one.                                       *)

NoChaining ==
  \A d \in Watched : \A v \in DOMAIN Routes[d] : Routes[d][v].dir \notin Watched

Supplied == {"touch", "keep", "listed"}
Known == {Absent, Torn} \cup 1..written

FreshInv ==
  /\ \A p \in Paths : disk[p] \in Known /\ previous[p] \in Known
  /\ settled \subseteq 1..written \cup {Torn}
  /\ whole \subseteq 1..written

(* A content in the making is nowhere else, and either it is not settled   *)
(* or it has grown since the last listing or no listing may come.          *)
CopyInv ==
  \A p \in Paths :
    /\ writer[p] \in Supplied =>
         /\ Dir(p) \in Watched
         /\ disk[p] \in Contents \ whole
         /\ \A q \in Paths \ {p} : disk[q] # disk[p]
    /\ writer[p] = "touch" => disk[p] \notin settled
    /\ writer[p] = "keep" => previous[p] # disk[p]
    /\ Dir(p) \in Watched => writer[p] # "copy"
    /\ Dir(p) \in Watched /\ writer[p] = "none" => disk[p] \in whole \cup {Absent}

JobInv ==
  /\ \A p \in todo : Dir(p) \in Watched /\ previous[p] \in whole
  /\ \A j \in Jobs : origin[j] = "watch" =>
       input[j] \in Paths /\ Dir(input[j]) \in Watched /\ content[j] \in whole

(* What a move is about to unlink is elsewhere too, or nobody's, or came   *)
(* after the copy; so did what a supplier is writing there.                *)
UnlinkSafe ==
  /\ disk[Source] \in owed \ crossed => \E q \in Paths \ {Source} : disk[q] = disk[Source]
  /\ writer[Source] # "none" => disk[Source] \in crossed

(* What the worker holds, and that the place it found stays its own.       *)
TargetInv ==
  /\ at \notin {"down", "idle"} => work \in Jobs
  /\ at = "run" => status[work] = "RUNNING"
  /\ at \in InRouting \cup InNotify => status[work] \in {"COMPLETED", "FAILED"}
  /\ at \in {"place", "copying", "unlink"} =>
       IsRouted(work) /\ target \in Paths /\ Dir(target) = Action(work).dir
  /\ at = "copying" => writer[Source] = "none"
  /\ at = "place" => Free(target)
  /\ at = "copying" => disk[target] = Torn
  /\ at = "unlink" => UnlinkSafe

ToldInv ==
  /\ \A j \in Jobs : told[j] # "none" =>
       told[j] = status[j] /\ status[j] \in {"COMPLETED", "FAILED"}
  /\ \A j \in Jobs : hookNote[j] = "delivered" => told[j] # "none"
  /\ at = "noteDelivered" => told[work] # "none"

TriesInv == at \notin {"noteDelivered", "noteFailed"} => tries < MaxTries

(* Rows are numbered in the order they came in. *)
RowsInv ==
  /\ \A j \in Jobs : origin[j] # "none" => status[j] # "ABSENT" /\ rowid[j] \in 1..lastRowid
  /\ \A j, k \in Jobs :
       origin[j] # "none" /\ origin[k] # "none" /\ rowid[j] = rowid[k] => j = k
  /\ \A j \in Jobs : origin[j] = "watch" => input[j] \in Paths

(* No other job of the watcher came after j on the same path. *)
Latest(j) == origin[j] = "watch" /\ \A i \in WatchJobs(input[j]) : rowid[i] <= rowid[j]
Repeated == {j \in Jobs : origin[j] = "watch" /\ Repeats(j)}
(* The latest jobs that watch_seen does not speak of, although the watcher *)
(* is not about to record them: the next scan may repeat them.             *)
Unrecorded == {j \in Jobs : Latest(j) /\ input[j] # recording /\ seen[input[j]] # content[j]}

(* Every record that was lost is spent at most once: on a job that was     *)
(* repeated, or on one that still may be.                                  *)
LapseInv ==
  /\ RowsInv
  /\ \A j \in Jobs : Latest(j) /\ input[j] = recording => content[j] = previous[recording]
  /\ Cardinality(Repeated) + Cardinality(Unrecorded) <= lapses

DeliveryInv ==
  /\ FreshInv /\ CopyInv /\ JobInv /\ TargetInv /\ ToldInv /\ TriesInv /\ NothingLost
  /\ LapseInv

-----------------------------------------------------------------------------
(* Liveness *)

(* The watcher scans every folder in every pass, the worker polls, and the *)
(* service manager starts a stopped process again.  Nothing is assumed of  *)
(* suppliers, operators, the share or the presets.                         *)
LiveSpec ==
  /\ Spec
  /\ WF_vars(Serve)
  /\ WF_vars(WorkerStep) /\ WF_vars(RoutingStep)
  /\ WF_vars(ConsiderStep) /\ WF_vars(RecordStep)
  /\ \A d \in Watched : SF_vars((List(d) \/ ListFails(d)) /\ UNCHANGED <<routeVars, resultVars, mishaps, crossed>>)

(* c lies at p, finished and settled, in a folder that can be read, with a *)
(* preset that loads, and the watcher runs (with a job id left to draw).   *)
LiesStill(p, c) ==
  /\ disk[p] = c /\ c \in settled /\ writer[p] = "none"
  /\ shareUp[Dir(p)] /\ preset[Dir(p)] = "ok"
  /\ watcher = "up"
  /\ \E j \in Jobs : status[j] = "ABSENT"

(* A delivery that is left alone is answered: it becomes a job or shows up *)
(* as parked in the panel, also after outages, a full queue and restarts.  *)
DeliveryAnswered ==
  \A p \in Inbox, c \in Contents :
    <>[]LiesStill(p, c) => []<>(seen[p] = c \/ <<p, c>> \in parked)

(* A folder that can be read again loses its error by itself.              *)
OutageHeals ==
  \A d \in Watched :
    <>[](shareUp[d] /\ watcher = "up" /\ \E j \in Jobs : status[j] = "ABSENT")
      => []<>(error[d] # "unreachable")
=============================================================================
