------------------------------ MODULE Routing ------------------------------
(***************************************************************************)
(* The post-completion step (server/routing.py): on the worker thread,     *)
(* after the terminal write of a job, move or copy the input by verdict    *)
(* and post the outcome to the webhook of the folder.  The step is not     *)
(* one transaction: the process may end and suppliers may act anywhere     *)
(* between looking for a free name, placing the file, the note and the     *)
(* posts.                                                                  *)
(***************************************************************************)
EXTENDS WatchFolder

CONSTANTS
  Routes,      \* on_pass, on_warning, on_reject of each folder
  MoveModes,   \* "rename" on one volume, "copy" across volumes
  MaxTries,    \* len(WEBHOOK_RETRY_WAITS_SECONDS) + 1
  NoJob

(* A verdict that Routes leaves out stays in place; ERROR is no key at all. *)
Verdicts == {"PASS", "WARNING", "FAIL", "ERROR"}
Actions == [verb : {"move", "copy"}, dir : Dirs]

ASSUME RoutingAssumption ==
  /\ DOMAIN Routes = Watched
  /\ \A d \in Watched :
       /\ DOMAIN Routes[d] \subseteq Verdicts \ {"ERROR"}
       /\ \A v \in DOMAIN Routes[d] : Routes[d][v] \in Actions /\ Routes[d][v].dir # d
  /\ MoveModes \subseteq {"rename", "copy"}
  /\ MaxTries \in Nat \ {0}
  /\ NoJob \notin Jobs

VARIABLES
  at,        \* where the worker thread is
  work,      \* the job it holds
  target,    \* the destination unique_destination found
  tries,     \* posts already made for this job
  verdict,   \* jobs.qc_status
  told,      \* the event the receiver got for a job, "none" before
  hookNote,  \* the webhook note in jobs.progress_json
  routed     \* history: the content that was routed for a job

routeVars == <<at, work, target, tries>>
resultVars == <<verdict, told, hookNote, routed>>

InRouting == {"route", "place", "copying", "unlink", "note"}
InNotify == {"notify", "noteDelivered", "noteFailed"}
Points == {"down", "idle", "run"} \cup InRouting \cup InNotify

RoutingType ==
  /\ at \in Points
  /\ work \in Jobs \cup {NoJob}
  /\ target \in Paths \cup {NoPath}
  /\ tries \in 0..MaxTries
  /\ verdict \in [Jobs -> Verdicts \cup {"none"}]
  /\ told \in [Jobs -> {"none", "COMPLETED", "FAILED", "CANCELLED"}]
  /\ hookNote \in [Jobs -> {"none", "delivered", "failed"}]
  /\ routed \in [Jobs -> {Absent, Torn} \cup Contents]

RoutingInit ==
  /\ at = "down" /\ work = NoJob /\ target = NoPath /\ tries = 0
  /\ verdict = [j \in Jobs |-> "none"]
  /\ told = [j \in Jobs |-> "none"]
  /\ hookNote = [j \in Jobs |-> "none"]
  /\ routed = [j \in Jobs |-> Absent]

Source == input[work]
(* folder_for_job: only a watch job has a folder, and so a policy. *)
HasFolder(j) == origin[j] = "watch"
(* _route, action_for_verdict: what is routed is COMPLETED with a verdict  *)
(* that has an action.                                                     *)
IsRouted(j) ==
  /\ HasFolder(j)
  /\ status[j] = "COMPLETED"
  /\ verdict[j] \in DOMAIN Routes[Dir(input[j])]
Action(j) == Routes[Dir(input[j])][verdict[j]]

(* The worker takes the next job. *)
Idle ==
  /\ at' = "idle" /\ work' = NoJob /\ target' = NoPath /\ tries' = 0
Proceed(pc) == at' = pc /\ UNCHANGED <<work, target, tries>>

-----------------------------------------------------------------------------
(* Routing *)

SkipRouting ==
  /\ at = "route"
  /\ ~IsRouted(work)
  /\ Proceed("notify")
  /\ UNCHANGED <<rowVars, fileVars, watchVars, resultVars>>

(* unique_destination: looks, and reserves nothing. *)
PickDestination(q) ==
  /\ at = "route"
  /\ IsRouted(work)
  /\ UniqueDestination(q, <<Action(work).dir, Name(Source)>>)
  /\ target' = q
  /\ at' = "place"
  /\ UNCHANGED <<work, tries>>
  /\ UNCHANGED <<rowVars, fileVars, watchVars, resultVars>>

(* A file that its supplier still has open for writing is locked. *)
SourceReady == ~Free(Source) /\ writer[Source] = "none"
Routed == routed' = [routed EXCEPT ![work] = disk[Source]]

(* shutil.move on one volume: os.rename, which replaces what it finds. *)
Rename ==
  /\ at = "place"
  /\ Action(work).verb = "move" /\ "rename" \in MoveModes
  /\ SourceReady
  /\ disk' = [disk EXCEPT ![target] = disk[Source], ![Source] = Absent]
  /\ Routed
  /\ Proceed("note")
  /\ UNCHANGED <<rowVars, writer, settled, whole, written, owed, watchVars, verdict, told, hookNote>>

(* copy2, and shutil.move across volumes: the bytes come one by one under  *)
(* the final name, their mtime is set last.                                *)
StartCopy ==
  /\ at = "place"
  /\ Action(work).verb = "copy" \/ "copy" \in MoveModes
  /\ SourceReady
  /\ Put(target, Torn)
  /\ SetWriter(target, "copy")
  /\ Proceed("copying")
  /\ UNCHANGED <<rowVars, settled, whole, written, owed, watchVars, resultVars>>

EndCopy ==
  /\ at = "copying"
  /\ Put(target, disk[Source])
  /\ SetWriter(target, "none")
  /\ Routed
  /\ Proceed(IF Action(work).verb = "move" THEN "unlink" ELSE "note")
  /\ UNCHANGED <<rowVars, settled, whole, written, owed, watchVars, verdict, told, hookNote>>

(* os.unlink after the copy: of whatever lies at the path by then, the     *)
(* move holds nothing open any more.                                       *)
Unlink ==
  /\ at = "unlink"
  /\ SourceReady
  /\ Put(Source, Absent)
  /\ Proceed("note")
  /\ UNCHANGED <<rowVars, writer, settled, whole, written, owed, watchVars, resultVars>>

(* OSError, noted as "file left in place": the source has vanished or the  *)
(* destination refuses; a copy breaks off and leaves what it has written;  *)
(* the unlink is refused and leaves the file in both folders.              *)
RoutingFails ==
  /\ at \in {"place", "copying", "unlink"}
  /\ writer' = [writer EXCEPT ![target] = IF at = "copying" THEN "none" ELSE @]
  /\ target' = NoPath
  /\ at' = "note"
  /\ UNCHANGED <<work, tries>>
  /\ UNCHANGED <<rowVars, disk, settled, whole, written, owed, watchVars, resultVars>>

(* _note after routing, through record_progress on the settled row *)
NoteRouting ==
  /\ at = "note"
  /\ RecordProgress(work, "note")
  /\ Proceed("notify")
  /\ UNCHANGED <<fileVars, watchVars, resultVars>>

-----------------------------------------------------------------------------
(* The webhook *)

(* _notify *)
Notifies(j) == HasFolder(j) /\ status[j] \in {"COMPLETED", "FAILED"}

SkipNotify ==
  /\ at = "notify"
  /\ ~Notifies(work)
  /\ Idle
  /\ UNCHANGED <<rowVars, fileVars, watchVars, resultVars>>

Tell == told' = [told EXCEPT ![work] = status[work]]
Posting == at = "notify" /\ Notifies(work)
(* One post; the next point is another post or the note on the result. *)
Post(pc) ==
  /\ Posting
  /\ tries' = tries + 1
  /\ at' = pc
  /\ UNCHANGED <<work, target, rowVars, fileVars, watchVars, verdict, hookNote, routed>>

(* deliver_webhook: a 2xx answer *)
PostAccepted == Post("noteDelivered") /\ Tell

FaultyPostUnanswered ==
  /\ Post(IF tries + 1 < MaxTries THEN "notify" ELSE "noteDelivered")
  /\ Tell \/ UNCHANGED told
(* A connection error, a timeout or a 5xx: the receiver may have got the   *)
(* post or not, and it is repeated until the tries are used up.            *)
PostUnanswered ==
  /\ Post(IF tries + 1 < MaxTries THEN "notify" ELSE "noteFailed")
  /\ Tell \/ UNCHANGED told

(* Any other status: given up at once. *)
PostRefused == Post("noteFailed") /\ UNCHANGED told

(* The note on the webhook; the hook returns and the worker is idle. *)
NoteHook ==
  /\ at \in {"noteDelivered", "noteFailed"}
  /\ RecordProgress(work, "note")
  /\ hookNote' = [hookNote EXCEPT ![work] =
                     IF at = "noteDelivered" THEN "delivered" ELSE "failed"]
  /\ Idle
  /\ UNCHANGED <<fileVars, watchVars, verdict, told, routed>>

(* A note that SQLite refuses: the exception leaves handle, the worker     *)
(* swallows it, and after a routing note the webhook is skipped.           *)
NoteFails ==
  /\ at \in {"note", "noteDelivered", "noteFailed"}
  /\ Idle
  /\ UNCHANGED <<rowVars, fileVars, watchVars, resultVars>>
=============================================================================
