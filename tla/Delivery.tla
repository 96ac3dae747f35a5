------------------------------ MODULE Delivery ------------------------------
(***************************************************************************)
(* The unattended path from drop to notification: suppliers, the watcher,  *)
(* the queue, the worker and the post-completion step in one service       *)
(* process that may end at any step and be started again.  The run of a    *)
(* job is reduced to what this path depends on: the input is read once,    *)
(* and the job settles; Worker.tla models the run itself.                  *)
(***************************************************************************)
EXTENDS Routing

CONSTANTS
  MaxMishaps,   \* bound: mishaps in a behaviour
  WriteKinds,   \* how files are copied in, a subset of {"touch", "keep"}
  Given,        \* bound: the verdicts that come out, a subset of Verdicts
  Mishaps       \* the mishaps that happen, a subset of MishapKinds

(* What may happen beside the path: the process ends; the folder cannot be *)
(* listed; the preset breaks; SQLite fails in the watcher, or refuses a    *)
(* note; a watch_seen entry is pruned; somebody else's job takes its place *)
(* in the queue; an operator cancels; a file is taken away; a content      *)
(* comes back.  Repairs are free.                                          *)
MishapKinds == {"crash", "share", "preset", "store", "note", "prune",
                "manual", "cancel", "vanish", "redrop"}

ASSUME DeliveryAssumption ==
  MaxMishaps \in Nat /\ Given \subseteq Verdicts /\ Mishaps \subseteq MishapKinds

VARIABLES
  mishaps,
  crossed   \* history: contents delivered at a path before a move unlinks it

vars == <<rowVars, fileVars, watchVars, routeVars, resultVars, mishaps, crossed>>

DeliveryTypeOK ==
  /\ StoreType /\ MediaType /\ WatchType /\ RoutingType
  /\ mishaps \in 0..MaxMishaps
  /\ crossed \subseteq Contents \cup {Torn}

Init ==
  /\ StoreInit /\ MediaInit /\ WatchInit /\ RoutingInit
  /\ mishaps = 0 /\ crossed = {}

Same == UNCHANGED <<mishaps, crossed>>
Counted(kind) ==
  /\ kind \in Mishaps
  /\ mishaps < MaxMishaps
  /\ mishaps' = mishaps + 1
Mishap(kind) == Counted(kind) /\ UNCHANGED crossed
(* The move ends without the unlink: what lies at its source stays. *)
NotUnlinked == crossed' = IF at = "unlink" THEN crossed \ {disk[Source]} ELSE crossed

-----------------------------------------------------------------------------
(* The process *)

(* cli.serve starts the worker, then the watcher. *)
Serve ==
  /\ at = "down"
  /\ RecoverOrphans
  /\ WatcherStarts
  /\ Idle
  /\ UNCHANGED <<fileVars, resultVars>> /\ Same

(* What the routing step was copying stays as it is, with nobody writing. *)
Crash ==
  /\ at # "down"
  /\ Counted("crash") /\ NotUnlinked
  /\ at' = "down" /\ work' = NoJob /\ target' = NoPath /\ tries' = 0
  /\ WatcherStops
  /\ writer' = [p \in Paths |-> IF writer[p] = "copy" THEN "none" ELSE writer[p]]
  /\ UNCHANGED <<rowVars, disk, settled, whole, written, owed, resultVars>>

-----------------------------------------------------------------------------
(* The worker *)

Claim(j) ==
  /\ at = "idle"
  /\ ClaimNext(j)
  /\ work' = j /\ at' = "run"
  /\ UNCHANGED <<target, tries>>
  /\ UNCHANGED <<fileVars, watchVars, resultVars>> /\ Same

(* The detectors read the input as it is by then, which is not what the    *)
(* watcher saw when a supplier has replaced it meanwhile.                  *)
Judge(v) ==
  /\ at = "run"
  /\ ~Free(Source)
  /\ MarkCompleted(work)
  /\ verdict' = [verdict EXCEPT ![work] = v]
  /\ Proceed("route")
  /\ UNCHANGED <<fileVars, watchVars, told, hookNote, routed>> /\ Same

(* No input, a tool, a timeout, ...: a failed job goes to the same step. *)
Fail(r) ==
  /\ at = "run"
  /\ MarkFailed(work, r)
  /\ Proceed("route")
  /\ UNCHANGED <<fileVars, watchVars, resultVars>> /\ Same

(* _run_post_completion returns at once for a cancelled job. *)
Stop ==
  /\ at = "run"
  /\ cancelReq[work]
  /\ MarkCancelled(work)
  /\ Idle
  /\ UNCHANGED <<fileVars, watchVars, resultVars>> /\ Same

WorkerStep ==
  \/ \E j \in Jobs : Claim(j)
  \/ \E v \in Given : Judge(v)
  \/ Fail("pipeline_error")
  \/ Stop

RoutingStep ==
  \/ /\ \/ SkipRouting
        \/ \E q \in Paths : PickDestination(q)
        \/ Rename \/ StartCopy \/ EndCopy \/ Unlink \/ NoteRouting
        \/ SkipNotify
        \/ PostAccepted \/ PostUnanswered \/ PostRefused \/ NoteHook
     /\ Same
  \/ RoutingFails /\ NotUnlinked /\ UNCHANGED mishaps

NoteRefused == Mishap("note") /\ NoteFails

-----------------------------------------------------------------------------
(* The watcher and the other threads *)

ConsiderStep ==
  /\ \E p \in Paths :
       \/ AlreadySeen(p) \/ PresetRejected(p) \/ PresetUnreadable(p) \/ QueueIsFull(p)
       \/ \E j \in Jobs : EnqueueFile(p, j)
  /\ UNCHANGED <<routeVars, resultVars>> /\ Same

ListStep ==
  /\ \E d \in Watched : List(d) \/ ListFails(d)
  /\ UNCHANGED <<routeVars, resultVars>> /\ Same

RecordStep == RecordSeen /\ UNCHANGED <<routeVars, resultVars>> /\ Same

PruneStep ==
  /\ Mishap("prune")
  /\ \E p \in Paths : Prune(p)
  /\ UNCHANGED <<routeVars, resultVars>>

WatcherFails ==
  /\ Mishap("store")
  /\ WatcherDies
  /\ UNCHANGED <<routeVars, resultVars>>

(* A console submission, and a cancel from the job page. *)
Submit(j, p) ==
  /\ at # "down"
  /\ Mishap("manual")
  /\ ~Free(p)
  /\ NewRow(j, p, disk[p], "manual")
  /\ UNCHANGED <<fileVars, seen, watcher, memVars, envVars, lapses>>
  /\ UNCHANGED <<routeVars, resultVars>>

Cancel(j) ==
  /\ at # "down"
  /\ Mishap("cancel")
  /\ RequestCancel(j)
  /\ UNCHANGED <<fileVars, watchVars, routeVars, resultVars>>

-----------------------------------------------------------------------------
(* Suppliers, the next system and the share *)

Inbox == Watched \X {<<>>}
(* Nobody replaces or removes a file while the service has it open, which  *)
(* is during the copy only: between its end and the unlink of the source   *)
(* suppliers may deliver there again.                                      *)
InUse(p) == at = "copying" /\ p \in {Source, target}
Crossing ==
  crossed' = crossed \cup (IF at = "unlink" THEN {disk'[Source]} \ {disk[Source], Absent} ELSE {})

Supply ==
  /\ \/ \E p \in Inbox :
          /\ ~InUse(p)
          /\ \/ \E w \in WriteKinds : BeginWrite(p, w)
             \/ WriteMore(p) \/ EndWrite(p)
             \/ \E c \in Contents \ whole : MoveIn(p, c)
     \/ \E c \in Contents \cup {Torn} : Age(c)
  /\ Crossing
  /\ UNCHANGED <<rowVars, watchVars, routeVars, resultVars, mishaps>>

Redrop ==
  /\ Counted("redrop")
  /\ \E p \in Inbox, c \in whole : ~InUse(p) /\ MoveIn(p, c)
  /\ Crossing
  /\ UNCHANGED <<rowVars, watchVars, routeVars, resultVars>>

Vanish ==
  /\ Mishap("vanish")
  /\ \E p \in Paths :
       /\ ~InUse(p)
       /\ \/ TakeAway(p) /\ UNCHANGED <<rowVars, watchVars>>
          \/ \E d \in Watched : VanishesWhileListed(d, p)
  /\ UNCHANGED <<routeVars, resultVars>>

ShareStep ==
  /\ \E d \in Watched :
       /\ ShareChanges(d)
       /\ IF shareUp[d] THEN Mishap("share") ELSE Same
  /\ UNCHANGED <<routeVars, resultVars>>

PresetStep ==
  /\ \E d \in Watched, s \in {"ok", "invalid", "unreadable"} :
       /\ PresetChanges(d, s)
       /\ IF s = "ok" THEN Same ELSE Mishap("preset")
  /\ UNCHANGED <<routeVars, resultVars>>

Next ==
  \/ Serve \/ Crash
  \/ WorkerStep \/ RoutingStep \/ NoteRefused
  \/ ListStep \/ ConsiderStep \/ RecordStep \/ PruneStep \/ WatcherFails
  \/ \E j \in Jobs : Cancel(j) \/ \E p \in Inbox : Submit(j, p)
  \/ Supply \/ Redrop \/ Vanish \/ ShareStep \/ PresetStep

Spec == Init /\ [][Next]_vars
=============================================================================
