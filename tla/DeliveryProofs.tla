--------------------------- MODULE DeliveryProofs ---------------------------
(***************************************************************************)
(* What holds of the path from drop to notification for every number of    *)
(* folders, files, contents and jobs and after any mishaps.                *)
(***************************************************************************)
EXTENDS DeliveryProps, FiniteSetTheorems, TLAPS

-----------------------------------------------------------------------------
(* Types, component by component: a step that leaves the variables of a    *)
(* component alone keeps its types.                                        *)

(* The types of the table stay where nothing changes. *)
LEMMA QuietStore == ASSUME StoreType, UNCHANGED rowVars PROVE StoreType'
BY DEF StoreType, rowVars

(* So do those of the files. *)
LEMMA QuietMedia == ASSUME MediaType, UNCHANGED fileVars PROVE MediaType'
BY DEF MediaType, fileVars

(* So do those of the watcher. *)
LEMMA QuietWatch == ASSUME WatchType, UNCHANGED watchVars PROVE WatchType'
BY DEF WatchType, watchVars, dbVars, memVars, envVars

(* So do those of the routing. *)
LEMMA QuietRouting ==
  ASSUME RoutingType, UNCHANGED <<routeVars, resultVars>>
  PROVE  RoutingType'
BY DEF RoutingType, routeVars, resultVars

(* Every transaction of the job table keeps the types of its columns. *)
LEMMA StoreTypes ==
  ASSUME StoreType,
         \/ RecoverOrphans
         \/ \E j \in Jobs : \/ ClaimNext(j) \/ Enqueue(j) \/ RequestCancel(j)
                            \/ \E kind \in {"stage", "note"} : RecordProgress(j, kind)
                            \/ MarkCompleted(j) \/ MarkCancelled(j)
                            \/ \E r \in FailureReasons : MarkFailed(j, r)
  PROVE  StoreType'
<1> USE DEF StoreType, Status, Terminal, FailureReasons
<1>1. CASE RecoverOrphans
  BY <1>1 DEF RecoverOrphans
<1>2. ASSUME NEW j \in Jobs, ClaimNext(j) PROVE StoreType'
  BY <1>2 DEF ClaimNext
<1>3. ASSUME NEW j \in Jobs, Enqueue(j) PROVE StoreType'
  BY <1>3 DEF Enqueue
<1>4. ASSUME NEW j \in Jobs, RequestCancel(j) PROVE StoreType'
  BY <1>4 DEF RequestCancel
<1>5. ASSUME NEW j \in Jobs, NEW kind \in {"stage", "note"}, RecordProgress(j, kind)
      PROVE StoreType'
  <2> DEFINE stray == strayEvent[j] \/ (kind = "stage" /\ status[j] # "RUNNING")
  <2>1. stray \in BOOLEAN
    OBVIOUS
  <2>2. strayEvent' = [strayEvent EXCEPT ![j] = stray]
    BY <1>5 DEF RecordProgress
  <2> HIDE DEF stray
  <2>3. QED
    BY <1>5, <2>1, <2>2 DEF RecordProgress
<1>6. ASSUME NEW j \in Jobs, MarkCompleted(j) \/ MarkCancelled(j) PROVE StoreType'
  BY <1>6 DEF MarkCompleted, MarkCancelled, Finish
<1>7. ASSUME NEW j \in Jobs, NEW r \in FailureReasons, MarkFailed(j, r) PROVE StoreType'
  BY <1>7 DEF MarkFailed, Finish
<1>8. QED
  BY <1>1, <1>2, <1>3, <1>4, <1>5, <1>6, <1>7

(* A step of suppliers or of time keeps the types of the files.            *)
LEMMA SupplierTypes ==
  ASSUME MediaType, CopyInv,
         \/ \E p \in Paths :
              \/ \E w \in {"touch", "keep"} : BeginWrite(p, w)
              \/ WriteMore(p) \/ EndWrite(p) \/ TakeAway(p)
              \/ \E c \in Contents : MoveIn(p, c)
         \/ \E c \in Contents \cup {Torn} : Age(c)
  PROVE  MediaType'
<1>1. ASSUME NEW p \in Paths, NEW w \in {"touch", "keep"}, Grow(p, w) PROVE MediaType'
  <2>1. written + 1 \in Contents
    BY <1>1, MediaAssumption DEF Grow, MediaType, Contents
  <2>2. disk' \in [Paths -> {Absent, Torn} \cup Contents] /\ writer' \in [Paths -> Writers]
    BY <1>1, <2>1 DEF Grow, MediaType, Put, SetWriter, Writers
  <2>3. settled' \subseteq Contents \cup {Torn} /\ owed' \subseteq Contents
    BY <1>1, <2>1 DEF Grow, MediaType
  <2>4. QED
    BY <1>1, <2>1, <2>2, <2>3, MediaAssumption DEF Grow, MediaType, Contents
<1>2. ASSUME NEW p \in Paths, EndWrite(p) PROVE MediaType'
  <2>1. disk[p] \in Contents
    BY <1>2 DEF EndWrite, CopyInv, Supplied
  <2>2. QED
    BY <1>2, <2>1 DEF EndWrite, MediaType, SetWriter, Writers
<1>3. ASSUME NEW p \in Paths, TakeAway(p) PROVE MediaType'
  BY <1>3 DEF TakeAway, MediaType, Put
<1>4. ASSUME NEW p \in Paths, NEW c \in Contents, MoveIn(p, c) PROVE MediaType'
  <2>1. written' \in 0..MaxContents
    BY <1>4, MediaAssumption DEF MoveIn, MediaType, Contents
  <2>2. QED
    BY <1>4, <2>1 DEF MoveIn, MediaType, Put
<1>5. ASSUME NEW c \in Contents \cup {Torn}, Age(c) PROVE MediaType'
  BY <1>5 DEF Age, MediaType
<1>6. QED
  BY <1>1, <1>2, <1>3, <1>4, <1>5 DEF BeginWrite, WriteMore
(* Watched folders hold paths of the model. *)
LEMMA InboxPaths == Inbox \subseteq Paths
<1>1. <<>> \in Names
  <2>1. <<>> \in [1..0 -> 1..MaxCollisions] /\ 0 \in 0..MaxNesting
    BY MediaAssumption
  <2>2. QED
    BY <2>1 DEF Names
<1>2. QED
  BY <1>1, WatchAssumption DEF Inbox, Paths

-----------------------------------------------------------------------------
(* What a step does to the files, and to what the watcher last saw there.  *)

Outside == <<rowVars, dbVars, previous, todo, routeVars, resultVars>>

Supplies ==
  /\ \E p \in Inbox :
       /\ ~InUse(p)
       /\ \/ \E w \in {"touch", "keep"} : BeginWrite(p, w)
          \/ WriteMore(p) \/ EndWrite(p)
          \/ \E c \in Contents : MoveIn(p, c)
  /\ Crossing
  /\ UNCHANGED Outside
Takes == (\E p \in Paths : ~InUse(p) /\ TakeAway(p)) /\ UNCHANGED <<Outside, crossed>>
Ages == (\E c \in Contents \cup {Torn} : Age(c)) /\ Crossing /\ UNCHANGED Outside
RoutesFile ==
  \/ (Rename \/ StartCopy \/ EndCopy \/ Unlink) /\ Same
  \/ RoutingFails /\ NotUnlinked /\ UNCHANGED mishaps

(* The only steps that files can tell apart. *)
LEMMA FileSteps ==
  ASSUME MediaType, Next
  PROVE  \/ UNCHANGED <<fileVars, previous, crossed>>
         \/ Supplies \/ Takes \/ Ages
         \/ \E d \in Watched : List(d) /\ UNCHANGED <<routeVars, resultVars, crossed>>
         \/ Crash
         \/ RoutesFile
<1> USE DEF Same, Mishap
<1> DEFINE Quiet == UNCHANGED <<fileVars, previous, crossed>>
<1>1. CASE Serve
  BY <1>1 DEF Serve, WatcherStarts, memVars
<1>2. CASE WorkerStep
  BY <1>2 DEF WorkerStep, Claim, Judge, Fail, Stop, watchVars, memVars
<1>3. CASE RoutingStep
  BY <1>3 DEF RoutingStep, RoutesFile, SkipRouting, PickDestination, NoteRouting, SkipNotify,
       PostAccepted, PostUnanswered, PostRefused, Post, NoteHook, watchVars, memVars
<1>4. CASE NoteRefused
  BY <1>4 DEF NoteRefused, NoteFails, watchVars, memVars
<1>5. CASE ListStep
  BY <1>5 DEF ListStep, ListFails, Unreachable
<1>6. CASE ConsiderStep
  <2>1. ASSUME NEW p \in Paths, AlreadySeen(p) \/ PresetRejected(p) PROVE UNCHANGED <<fileVars, previous>>
    BY <2>1 DEF AlreadySeen, PresetRejected
  <2>2. ASSUME NEW p \in Paths, Defer(p) PROVE UNCHANGED <<fileVars, previous>>
    BY <2>2 DEF Defer
  <2>3. ASSUME NEW p \in Paths, NEW j \in Jobs, EnqueueFile(p, j) PROVE UNCHANGED <<fileVars, previous>>
    BY <2>3 DEF EnqueueFile
  <2>4. QED
    BY <1>6, <2>1, <2>2, <2>3 DEF ConsiderStep, PresetUnreadable, QueueIsFull
<1>7. CASE RecordStep
  BY <1>7 DEF RecordStep, RecordSeen
<1>8. CASE PruneStep
  BY <1>8 DEF PruneStep, Prune, memVars
<1>9. CASE WatcherFails
  BY <1>9 DEF WatcherFails, WatcherDies
<1>10. CASE \E j \in Jobs : Cancel(j) \/ \E p \in Inbox : Submit(j, p)
  BY <1>10 DEF Cancel, Submit, watchVars, memVars
<1>11. CASE Supply
  BY <1>11 DEF Supply, Supplies, Ages, Outside, watchVars, memVars, BeginWrite
<1>12. CASE Redrop
  BY <1>12 DEF Redrop, Supplies, Outside, watchVars, memVars, MediaType
<1>13. CASE Vanish
  BY <1>13 DEF Vanish, Takes, Outside, VanishesWhileListed, Unreachable, watchVars, memVars
<1>14. CASE ShareStep
  BY <1>14 DEF ShareStep, ShareChanges, memVars
<1>15. CASE PresetStep
  BY <1>15 DEF PresetStep, PresetChanges, memVars
<1>16. QED
  BY <1>1, <1>2, <1>3, <1>4, <1>5, <1>6, <1>7, <1>8, <1>9, <1>10, <1>11, <1>12, <1>13,
     <1>14, <1>15 DEF Next
-----------------------------------------------------------------------------
(* What the worker holds while it routes                                   *)

IInv == DeliveryTypeOK /\ DeliveryInv

(* A job that is being routed has a source below a watched folder and a target elsewhere. *)
LEMMA Held ==
  ASSUME NoChaining, JobInv, TargetInv,
         at \in {"place", "copying", "unlink"}
  PROVE  /\ work \in Jobs /\ Source \in Paths /\ Dir(Source) \in Watched
         /\ target \in Paths /\ Dir(target) \notin Watched
         /\ target # Source
<1>1. work \in Jobs /\ IsRouted(work) /\ target \in Paths /\ Dir(target) = Action(work).dir
  BY DEF TargetInv
<1>2. Source \in Paths /\ Dir(Source) \in Watched
  BY <1>1 DEF JobInv, IsRouted, HasFolder, Source
<1>3. Action(work).dir \notin Watched
  BY <1>1, <1>2 DEF NoChaining, Action, IsRouted, Source
<1>4. QED
  BY <1>1, <1>2, <1>3

(* Routing keeps the types of the files. *)
LEMMA RoutingTypes ==
  ASSUME NoChaining, IInv, RoutesFile
  PROVE  MediaType'
<1> USE DEF IInv, DeliveryTypeOK, DeliveryInv
<1>1. CASE Rename
  <2>1. Source \in Paths /\ target \in Paths
    BY <1>1, Held DEF Rename
  <2>2. QED
    BY <1>1, <2>1 DEF Rename, MediaType
<1>2. CASE StartCopy
  BY <1>2, Held DEF StartCopy, MediaType, Put, SetWriter, Writers
<1>3. CASE EndCopy
  BY <1>3, Held DEF EndCopy, MediaType, Put, SetWriter, Writers
<1>4. CASE Unlink
  BY <1>4, Held DEF Unlink, MediaType, Put
<1>5. CASE RoutingFails
  BY <1>5, Held DEF RoutingFails, MediaType, Writers
<1>6. QED
  BY <1>1, <1>2, <1>3, <1>4, <1>5 DEF RoutesFile

(* Every step keeps the types of the files. *)
LEMMA MediaStep ==
  ASSUME NoChaining, IInv, Next
  PROVE  MediaType'
<1> USE DEF IInv, DeliveryTypeOK, DeliveryInv
<1>1. CASE UNCHANGED <<fileVars, previous>>
  BY <1>1, QuietMedia
<1>2. CASE Supplies \/ Takes \/ Ages
  <2>1. \A p \in Inbox : p \in Paths
    BY InboxPaths
  <2>2. QED
    BY <1>2, <2>1, SupplierTypes DEF Supplies, Takes, Ages
<1>3. ASSUME NEW d \in Watched, List(d) PROVE MediaType'
  BY <1>3 DEF List, MediaType, Writers
<1>4. CASE Crash
  BY <1>4 DEF Crash, MediaType, Writers
<1>5. CASE RoutesFile
  BY <1>5, RoutingTypes
<1>6. QED
  BY <1>1, <1>2, <1>3, <1>4, <1>5, FileSteps
-----------------------------------------------------------------------------
(* Contents are only ever copied, except for the new one that a supplier   *)
(* writes.                                                                 *)
LEMMA FreshStep ==
  ASSUME NoChaining, IInv, Next
  PROVE  FreshInv'
<1> USE DEF IInv, DeliveryTypeOK, DeliveryInv
<1>1. CASE UNCHANGED <<fileVars, previous>>
  BY <1>1 DEF FreshInv, Known, fileVars
<1>2. CASE Supplies
  <2>1. ASSUME NEW p \in Paths, NEW w \in {"touch", "keep"}, Grow(p, w), UNCHANGED previous
        PROVE  FreshInv'
    <3>1. written \in Nat /\ written' = written + 1 /\ written + 1 <= MaxContents
      BY <2>1, MediaAssumption DEF Grow, MediaType
    <3>2. Known \subseteq Known' /\ 1..written \subseteq 1..written' /\ written + 1 \in 1..written'
      BY <3>1 DEF Known
    <3>3. \A q \in Paths : disk'[q] = disk[q] \/ disk'[q] = written + 1
      BY <2>1 DEF Grow, Put, MediaType
    <3>4. settled' \subseteq settled \cup {written + 1} /\ whole' = whole
      BY <2>1 DEF Grow
    <3>5. QED
      BY <2>1, <3>2, <3>3, <3>4 DEF FreshInv, Known
  <2>2. ASSUME NEW p \in Paths, EndWrite(p), UNCHANGED previous PROVE FreshInv'
    <3>1. disk[p] \in 1..written
      BY <2>2, MediaAssumption DEF EndWrite, CopyInv, Supplied, FreshInv, Known, Contents, Torn, Absent
    <3>2. QED
      BY <2>2, <3>1 DEF EndWrite, FreshInv, Known
  <2>3. ASSUME NEW p \in Paths, NEW c \in Contents, MoveIn(p, c), UNCHANGED previous
        PROVE  FreshInv'
    <3>1. Known \subseteq Known' /\ 1..written \subseteq 1..written' /\ c \in 1..written'
      BY <2>3, MediaAssumption DEF MoveIn, MediaType, FreshInv, Known, Contents
    <3>2. \A q \in Paths : disk'[q] = disk[q] \/ disk'[q] = c
      BY <2>3 DEF MoveIn, Put, MediaType
    <3>3. settled' = settled \cup {c} /\ whole' = whole \cup {c}
      BY <2>3 DEF MoveIn
    <3>4. QED
      BY <2>3, <3>1, <3>2, <3>3 DEF FreshInv, Known
  <2>4. QED
    BY <1>2, <2>1, <2>2, <2>3, InboxPaths DEF Supplies, BeginWrite, WriteMore, Outside
<1>3. CASE Takes
  BY <1>3 DEF Takes, TakeAway, Put, Outside, FreshInv, Known, MediaType
<1>4. CASE Ages
  <2>1. PICK c \in Contents \cup {Torn} : Age(c)
    BY <1>4 DEF Ages
  <2>2. c \in 1..written \cup {Torn}
    BY <2>1 DEF Age, FreshInv, Known
  <2>3. QED
    BY <1>4, <2>1, <2>2 DEF Ages, Age, Outside, FreshInv, Known
<1>5. ASSUME NEW d \in Watched, List(d) PROVE FreshInv'
  BY <1>5 DEF List, FreshInv, Known
<1>6. CASE Crash
  BY <1>6 DEF Crash, WatcherStops, Forgotten, FreshInv, Known
<1>7. CASE RoutesFile
  <2>1. UNCHANGED <<settled, whole, written, previous>>
    BY <1>7 DEF RoutesFile, Rename, StartCopy, EndCopy, Unlink, RoutingFails, watchVars, memVars
  <2>2. \A q \in Paths : disk'[q] \in Known
    <3>1. CASE Rename
      BY <3>1, Held DEF Rename, FreshInv, Known, MediaType
    <3>2. CASE StartCopy
      BY <3>2, Held DEF StartCopy, Put, FreshInv, Known, MediaType
    <3>3. CASE EndCopy
      BY <3>3, Held DEF EndCopy, Put, FreshInv, Known, MediaType
    <3>4. CASE Unlink
      BY <3>4, Held DEF Unlink, Put, FreshInv, Known, MediaType
    <3>5. CASE RoutingFails
      BY <3>5 DEF RoutingFails, FreshInv, Known, MediaType
    <3>6. QED
      BY <1>7, <3>1, <3>2, <3>3, <3>4, <3>5 DEF RoutesFile
  <2>3. QED
    BY <2>1, <2>2 DEF FreshInv, Known
<1>8. QED
  BY <1>1, <1>2, <1>3, <1>4, <1>5, <1>6, <1>7, FileSteps

(* A move that does not reach its unlink gives back what crossed it: the   *)
(* content still lies where it came.                                       *)
LEMMA Kept ==
  ASSUME NoChaining, IInv, disk' = disk, owed' = owed, NotUnlinked
  PROVE  NothingLost'
<1> USE DEF IInv, DeliveryInv
<1>1. CASE at = "unlink"
  <2>1. Source \in Paths /\ crossed' = crossed \ {disk[Source]}
    BY <1>1, Held DEF NotUnlinked
  <2>2. QED
    BY <2>1 DEF NothingLost
<1>2. CASE at # "unlink"
  BY <1>2 DEF NotUnlinked, NothingLost
<1>3. QED
  BY <1>1, <1>2

(* Nothing that is owed is overwritten or removed by the service.          *)
LEMMA LostStep ==
  ASSUME NoChaining, IInv, Next
  PROVE  NothingLost'
<1> USE DEF IInv, DeliveryTypeOK, DeliveryInv
<1>1. CASE UNCHANGED <<fileVars, previous, crossed>>
  BY <1>1 DEF NothingLost, fileVars
<1>2. CASE Supplies \/ Takes
  <2>0. crossed \subseteq crossed'
    BY <1>2 DEF Supplies, Takes, Crossing
  <2>1. ASSUME NEW p \in Paths, NEW w \in {"touch", "keep"}, Grow(p, w) PROVE NothingLost'
    BY <2>0, <2>1 DEF Grow, Put, NothingLost, MediaType
  <2>2. ASSUME NEW p \in Paths, EndWrite(p) PROVE NothingLost'
    BY <2>0, <2>2 DEF EndWrite, NothingLost
  <2>3. ASSUME NEW p \in Paths, NEW c \in Contents, MoveIn(p, c) PROVE NothingLost'
    BY <2>0, <2>3 DEF MoveIn, Put, NothingLost, MediaType
  <2>4. ASSUME NEW p \in Paths, TakeAway(p) PROVE NothingLost'
    BY <2>0, <2>4 DEF TakeAway, Put, NothingLost, MediaType
  <2>5. QED
    BY <1>2, <2>1, <2>2, <2>3, <2>4, InboxPaths DEF Supplies, Takes, BeginWrite, WriteMore
<1>3. CASE Ages
  BY <1>3 DEF Ages, Age, NothingLost, Crossing
<1>4. ASSUME NEW d \in Watched, List(d), UNCHANGED crossed PROVE NothingLost'
  BY <1>4 DEF List, NothingLost
<1>5. CASE Crash
  <2>1. disk' = disk /\ owed' = owed /\ NotUnlinked
    BY <1>5 DEF Crash
  <2>2. QED
    BY <2>1, Kept
<1>6. CASE Rename /\ UNCHANGED crossed
  <2>1. disk[target] = Absent /\ Source \in Paths /\ target \in Paths
    BY <1>6, Held DEF Rename, TargetInv, Free
  <2>2. Absent \notin owed
    BY DEF MediaType, Contents, Absent
  <2>3. QED
    BY <1>6, <2>1, <2>2 DEF Rename, NothingLost, MediaType, Same
<1>7. CASE StartCopy /\ UNCHANGED crossed
  <2>1. disk[target] = Absent /\ target \in Paths
    BY <1>7, Held DEF StartCopy, TargetInv, Free
  <2>2. Absent \notin owed
    BY DEF MediaType, Contents, Absent
  <2>3. QED
    BY <1>7, <2>1, <2>2 DEF StartCopy, Put, NothingLost, MediaType
<1>8. CASE EndCopy /\ UNCHANGED crossed
  <2>1. disk[target] = Torn /\ Torn \notin owed /\ target \in Paths
    BY <1>8, Held, MediaAssumption DEF EndCopy, TargetInv, MediaType, Contents, Torn
  <2>2. QED
    BY <1>8, <2>1 DEF EndCopy, Put, NothingLost, MediaType
<1>9. CASE Unlink /\ UNCHANGED crossed
  <2>1. disk[Source] \in owed \ crossed => \E q \in Paths \ {Source} : disk[q] = disk[Source]
    BY <1>9 DEF Unlink, TargetInv, UnlinkSafe
  <2>2. disk' = [disk EXCEPT ![Source] = Absent] /\ owed' = owed /\ crossed' = crossed
    BY <1>9 DEF Unlink, Put
  <2>3. Source \in Paths
    BY <1>9, Held DEF Unlink
  <2>4. QED
    BY <2>1, <2>2, <2>3 DEF NothingLost, MediaType
<1>10. CASE RoutingFails /\ NotUnlinked
  <2>1. disk' = disk /\ owed' = owed
    BY <1>10 DEF RoutingFails
  <2>2. QED
    BY <1>10, <2>1, Kept
<1>11. QED
  BY <1>1, <1>2, <1>3, <1>4, <1>5, <1>6, <1>7, <1>8, <1>9, <1>10, FileSteps DEF RoutesFile, Same
(* A content in the making stays the supplier's own.                       *)
LEMMA CopyStep ==
  ASSUME NoChaining, IInv, Next
  PROVE  CopyInv'
<1> USE DEF IInv, DeliveryTypeOK, DeliveryInv
<1>1. CASE UNCHANGED <<fileVars, previous>>
  BY <1>1 DEF CopyInv, fileVars
<1>2. CASE Supplies
  <2>1. ASSUME NEW p \in Inbox, NEW w \in {"touch", "keep"}, Grow(p, w), UNCHANGED previous,
               writer[p] \in {"none", "touch", "keep", "listed"}
        PROVE  CopyInv'
    <3>1. p \in Paths /\ Dir(p) \in Watched
      BY <2>1, InboxPaths DEF Inbox, Dir
    <3>2. /\ written + 1 \in Contents /\ written + 1 # Torn /\ written + 1 # Absent
          /\ written + 1 \notin Known /\ written + 1 \notin settled /\ written + 1 \notin whole
      BY <2>1, MediaAssumption DEF Grow, MediaType, Contents, Torn, Absent, Known, FreshInv
    <3>3. \A q \in Paths : disk[q] # written + 1 /\ previous[q] # written + 1
      BY <3>2 DEF FreshInv
    <3>4. /\ disk' = [disk EXCEPT ![p] = written + 1]
          /\ writer' = [writer EXCEPT ![p] = w] /\ whole' = whole
      BY <2>1 DEF Grow, Put, SetWriter
    <3>5. settled' = settled \cup (IF w = "keep" THEN {written + 1} ELSE {})
      BY <2>1 DEF Grow
    <3> DEFINE new == written + 1
    <3> HIDE DEF new
    <3>6. QED
      BY <2>1, <3>1, <3>2, <3>3, <3>4, <3>5 DEF CopyInv, MediaType, Supplied, new
  <2>2. ASSUME NEW p \in Inbox, EndWrite(p), UNCHANGED previous PROVE CopyInv'
    <3>1. p \in Paths
      BY InboxPaths
    <3>2. disk' = disk /\ settled' = settled /\ whole' = whole \cup {disk[p]}
      BY <2>2 DEF EndWrite
    <3>3. writer' = [writer EXCEPT ![p] = "none"] /\ writer[p] \in Supplied
      BY <2>2 DEF EndWrite, SetWriter, Supplied
    <3>4. QED
      BY <2>2, <3>1, <3>2, <3>3 DEF CopyInv, MediaType, Supplied
  <2>3. ASSUME NEW p \in Inbox, NEW c \in Contents, MoveIn(p, c), UNCHANGED previous
        PROVE  CopyInv'
    <3>1. p \in Paths /\ Dir(p) \in Watched
      BY InboxPaths DEF Inbox, Dir
    <3>2. /\ disk' = [disk EXCEPT ![p] = c] /\ writer' = writer /\ writer[p] = "none"
          /\ whole' = whole \cup {c} /\ settled' = settled \cup {c}
      BY <2>3 DEF MoveIn, Put
    <3>3. \A q \in Paths : writer[q] \in Supplied => disk[q] # c
      <4>1. CASE c \in whole
        BY <4>1 DEF CopyInv
      <4>2. CASE c = written + 1
        <5>1. c \notin Known
          BY <4>2, MediaAssumption DEF Known, MediaType, Contents, Torn, Absent
        <5>2. QED
          BY <5>1 DEF FreshInv
      <4>3. QED
        BY <2>3, <4>1, <4>2 DEF MoveIn
    <3>4. QED
      BY <2>3, <3>1, <3>2, <3>3 DEF CopyInv, MediaType, Supplied
  <2>4. QED
    BY <1>2, <2>1, <2>2, <2>3 DEF Supplies, BeginWrite, WriteMore, Outside
<1>3. CASE Takes
  <2>1. PICK p \in Paths : TakeAway(p)
    BY <1>3 DEF Takes
  <2>2. /\ disk' = [disk EXCEPT ![p] = Absent] /\ writer[p] = "none"
        /\ UNCHANGED <<writer, settled, whole, previous>>
    BY <1>3, <2>1 DEF Takes, TakeAway, Put, Outside
  <2>3. \A q \in Paths : writer[q] \in Supplied => disk[q] # Absent
    BY DEF CopyInv, Contents, Absent
  <2>4. QED
    BY <2>2, <2>3 DEF CopyInv, MediaType, Supplied
<1>4. CASE Ages
  BY <1>4 DEF Ages, Age, Outside, CopyInv, MediaType
<1>5. ASSUME NEW d \in Watched, List(d) PROVE CopyInv'
  <2>1. /\ UNCHANGED <<disk, settled, whole>>
        /\ writer' = [p \in Paths |-> IF Dir(p) = d /\ writer[p] = "keep"
                                      THEN "listed" ELSE writer[p]]
        /\ previous' = [p \in Paths |-> IF Dir(p) = d THEN disk[p] ELSE previous[p]]
    BY <1>5 DEF List
  <2>2. QED
    BY <2>1 DEF CopyInv, MediaType, Supplied
<1>6. CASE Crash
  <2>1. /\ UNCHANGED <<disk, settled, whole>>
        /\ writer' = [p \in Paths |-> IF writer[p] = "copy" THEN "none" ELSE writer[p]]
        /\ previous' = [p \in Paths |-> Absent]
    BY <1>6 DEF Crash, WatcherStops, Forgotten
  <2>2. \A p \in Paths : writer[p] \in Supplied => disk[p] # Absent
    BY DEF CopyInv, Contents, Absent
  <2>3. QED
    BY <2>1, <2>2 DEF CopyInv, MediaType, Supplied
<1>7. CASE RoutesFile
  <2>1. UNCHANGED <<settled, whole, previous>>
    BY <1>7 DEF RoutesFile, Rename, StartCopy, EndCopy, Unlink, RoutingFails, watchVars, memVars
  <2>2. CASE Rename
    <3>1. /\ Source \in Paths /\ target \in Paths /\ target # Source
          /\ Dir(Source) \in Watched /\ Dir(target) \notin Watched
      BY <2>2, Held DEF Rename
    <3>2. /\ disk' = [disk EXCEPT ![target] = disk[Source], ![Source] = Absent]
          /\ writer' = writer /\ writer[Source] = "none" /\ disk[Source] # Absent
      BY <2>2 DEF Rename, SourceReady, Free
    <3>3. disk[Source] \in whole
      BY <3>1, <3>2 DEF CopyInv
    <3>4. \A q \in Paths : writer[q] \in Supplied => disk[q] # Absent
      BY DEF CopyInv, Contents, Absent
    <3>5. QED
      BY <2>1, <3>1, <3>2, <3>3, <3>4 DEF CopyInv, MediaType, Supplied
  <2>3. CASE StartCopy
    <3>1. target \in Paths /\ Dir(target) \notin Watched
      BY <2>3, Held DEF StartCopy
    <3>2. disk' = [disk EXCEPT ![target] = Torn] /\ writer' = [writer EXCEPT ![target] = "copy"]
      BY <2>3 DEF StartCopy, Put, SetWriter
    <3>3. \A q \in Paths : writer[q] \in Supplied => disk[q] # Torn
      BY MediaAssumption DEF CopyInv, Contents, Torn
    <3>4. QED
      BY <2>1, <3>1, <3>2, <3>3 DEF CopyInv, MediaType, Supplied
  <2>4. CASE EndCopy
    <3>1. /\ Source \in Paths /\ target \in Paths /\ target # Source
          /\ Dir(Source) \in Watched /\ Dir(target) \notin Watched
      BY <2>4, Held DEF EndCopy
    <3>2. /\ disk' = [disk EXCEPT ![target] = disk[Source]]
          /\ writer' = [writer EXCEPT ![target] = "none"] /\ writer[Source] = "none"
      BY <2>4 DEF EndCopy, Put, SetWriter, TargetInv
    <3>3. disk[Source] \in whole \cup {Absent}
      BY <3>1, <3>2 DEF CopyInv
    <3>4. \A q \in Paths : writer[q] \in Supplied => disk[q] # Absent
      BY DEF CopyInv, Contents, Absent
    <3>5. QED
      BY <2>1, <3>1, <3>2, <3>3, <3>4 DEF CopyInv, MediaType, Supplied
  <2>5. CASE Unlink
    <3>1. Source \in Paths /\ writer[Source] = "none"
      BY <2>5, Held DEF Unlink, SourceReady
    <3>2. disk' = [disk EXCEPT ![Source] = Absent] /\ writer' = writer
      BY <2>5 DEF Unlink, Put
    <3>3. \A q \in Paths : writer[q] \in Supplied => disk[q] # Absent
      BY DEF CopyInv, Contents, Absent
    <3>4. QED
      BY <2>1, <3>1, <3>2, <3>3 DEF CopyInv, MediaType, Supplied
  <2>6. CASE RoutingFails
    <3>1. target \in Paths /\ Dir(target) \notin Watched /\ disk' = disk
      BY <2>6, Held DEF RoutingFails
    <3>2. writer' = [writer EXCEPT ![target] = IF at = "copying" THEN "none" ELSE @]
      BY <2>6 DEF RoutingFails
    <3>3. QED
      BY <2>1, <3>1, <3>2 DEF CopyInv, MediaType, Supplied
  <2>7. QED
    BY <1>7, <2>2, <2>3, <2>4, <2>5, <2>6 DEF RoutesFile
<1>8. QED
  BY <1>1, <1>2, <1>3, <1>4, <1>5, <1>6, <1>7, FileSteps
(* What was finished by its supplier stays finished. *)
LEMMA WholeGrows == ASSUME MediaType, Next PROVE whole \subseteq whole'
<1>1. CASE UNCHANGED <<fileVars, previous>>
  BY <1>1 DEF fileVars
<1>2. CASE Supplies \/ Takes \/ Ages
  BY <1>2 DEF Supplies, Takes, Ages, BeginWrite, WriteMore, Grow, EndWrite, MoveIn, TakeAway, Age
<1>3. CASE \E d \in Watched : List(d)
  BY <1>3 DEF List
<1>4. CASE Crash
  BY <1>4 DEF Crash
<1>5. CASE RoutesFile
  BY <1>5 DEF RoutesFile, Rename, StartCopy, EndCopy, Unlink, RoutingFails
<1>6. QED
  BY <1>1, <1>2, <1>3, <1>4, <1>5, FileSteps

-----------------------------------------------------------------------------
(* What the watcher takes for stable is whole, and only that becomes a job.*)

JobColumns == <<input, content, origin>>

(* What waits to be considered, and what is a job, is whole. *)
LEMMA JobStep ==
  ASSUME NoChaining, IInv, Next
  PROVE  JobInv'
<1> USE DEF IInv, DeliveryTypeOK, DeliveryInv
<1>0. whole \subseteq whole'
  BY WholeGrows
<1>1. ASSUME todo' \subseteq todo, UNCHANGED <<previous, JobColumns>> PROVE JobInv'
  BY <1>0, <1>1 DEF JobInv, JobColumns
<1>2. CASE Serve
  BY <1>1, <1>2 DEF Serve, WatcherStarts, dbVars, memVars, JobColumns
<1>3. ASSUME todo' = {}, UNCHANGED JobColumns PROVE JobInv'
  BY <1>0, <1>3 DEF JobInv, JobColumns
<1>4. CASE Crash
  BY <1>3, <1>4 DEF Crash, WatcherStops, Forgotten, dbVars, JobColumns
<1>5. CASE WorkerStep \/ NoteRefused \/ Redrop \/ Supply
  BY <1>1, <1>5 DEF WorkerStep, Claim, Judge, Fail, Stop, NoteRefused, NoteFails, Redrop, Supply,
       watchVars, dbVars, memVars, JobColumns
<1>6. CASE RoutingStep
  BY <1>1, <1>6 DEF RoutingStep, SkipRouting, PickDestination, NoteRouting, SkipNotify, Rename,
       StartCopy, EndCopy, Unlink, RoutingFails, PostAccepted, PostUnanswered, PostRefused, Post,
       NoteHook, watchVars, dbVars, memVars, JobColumns
<1>7. ASSUME NEW d \in Watched, List(d) PROVE JobInv'
  <2>1. /\ UNCHANGED JobColumns /\ whole' = whole
        /\ todo' \subseteq {p \in Paths : Dir(p) = d /\ ~Free(p) /\ Stable(p)}
        /\ previous' = [p \in Paths |-> IF Dir(p) = d THEN disk[p] ELSE previous[p]]
        /\ \A p \in Paths : Dir(p) = d => writer[p] # "listed"
    BY <1>7 DEF List, dbVars, JobColumns
  <2>2. ASSUME NEW p \in Paths, Dir(p) = d, ~Free(p), Stable(p) PROVE disk[p] \in whole
    <3>1. writer[p] = "none"
      BY <2>1, <2>2 DEF CopyInv, Stable, MediaType, Writers
    <3>2. QED
      BY <2>2, <3>1 DEF CopyInv, Free
  <2>3. QED
    BY <2>1, <2>2 DEF JobInv, JobColumns
<1>8. CASE ListStep
  BY <1>1, <1>7, <1>8 DEF ListStep, ListFails, Unreachable, dbVars, JobColumns
<1>9. CASE ConsiderStep
  <2>1. ASSUME NEW p \in Paths, AlreadySeen(p) \/ PresetRejected(p) \/ Defer(p) PROVE JobInv'
    BY <1>1, <2>1 DEF AlreadySeen, PresetRejected, Defer, Pass, dbVars, JobColumns
  <2>2. ASSUME NEW p \in Paths, NEW j \in Jobs, EnqueueFile(p, j) PROVE JobInv'
    <3>1. /\ p \in todo /\ todo' \subseteq todo /\ previous' = previous
          /\ input' = [input EXCEPT ![j] = p] /\ content' = [content EXCEPT ![j] = previous[p]]
          /\ origin' = [origin EXCEPT ![j] = "watch"]
      BY <2>2 DEF EnqueueFile, Unseen, Considers, Pass, NewRow
    <3>2. QED
      BY <1>0, <2>2, <3>1 DEF JobInv, WatchType
  <2>3. QED
    BY <1>9, <2>1, <2>2 DEF ConsiderStep, PresetUnreadable, QueueIsFull
<1>10. CASE RecordStep \/ PruneStep \/ WatcherFails
  BY <1>1, <1>3, <1>10 DEF RecordStep, RecordSeen, PruneStep, Prune, WatcherFails, WatcherDies,
       dbVars, memVars, JobColumns
<1>11. ASSUME NEW j \in Jobs, Cancel(j) \/ \E p \in Inbox : Submit(j, p) PROVE JobInv'
  <2>1. CASE Cancel(j)
    BY <1>1, <2>1 DEF Cancel, watchVars, dbVars, memVars, JobColumns
  <2>2. ASSUME NEW p \in Inbox, Submit(j, p) PROVE JobInv'
    <3>1. /\ UNCHANGED <<todo, previous>>
          /\ input' = [input EXCEPT ![j] = p] /\ content' = [content EXCEPT ![j] = disk[p]]
          /\ origin' = [origin EXCEPT ![j] = "manual"]
      BY <2>2 DEF Submit, NewRow, memVars
    <3>2. QED
      BY <1>0, <3>1 DEF JobInv, WatchType
  <2>3. QED
    BY <1>11, <2>1, <2>2
<1>12. CASE Vanish
  BY <1>1, <1>12 DEF Vanish, VanishesWhileListed, Unreachable, watchVars, dbVars, memVars, JobColumns
<1>13. CASE ShareStep \/ PresetStep
  BY <1>1, <1>13 DEF ShareStep, ShareChanges, PresetStep, PresetChanges, dbVars, memVars, JobColumns
<1>14. QED
  BY <1>2, <1>4, <1>5, <1>6, <1>8, <1>9, <1>10, <1>11, <1>12, <1>13 DEF Next
-----------------------------------------------------------------------------
(* The rows: only the worker settles the job it runs, once.                *)

(* Every step but those of the process, the worker and its routing leaves  *)
(* their variables alone.                                                  *)
LEMMA Elsewhere ==
  ASSUME Next
  PROVE  \/ Serve \/ Crash \/ WorkerStep \/ RoutingStep \/ NoteRefused
         \/ UNCHANGED <<routeVars, resultVars>>
  BY DEF Next, ListStep, ConsiderStep, RecordStep, PruneStep, WatcherFails, Cancel, Submit,
         Supply, Redrop, Vanish, ShareStep, PresetStep

(* What the other steps do to the rows.                                    *)
NewJob(j) ==
  /\ Enqueue(j)
  /\ \A k \in Jobs \ {j} : input'[k] = input[k] /\ origin'[k] = origin[k]

(* The steps that rows and their origin can tell apart. *)
LEMMA OtherRows ==
  ASSUME WatchType, Next
  PROVE  \/ Serve \/ WorkerStep \/ RoutingStep
         \/ UNCHANGED <<rowVars, input, origin>>
         \/ \E j \in Jobs : RequestCancel(j) /\ UNCHANGED <<input, origin>>
         \/ \E j \in Jobs : NewJob(j)
<1>1. CASE Crash \/ NoteRefused
  BY <1>1 DEF Crash, NoteRefused, NoteFails, WatcherStops, dbVars, watchVars
<1>2. CASE ListStep \/ RecordStep \/ PruneStep \/ WatcherFails
  BY <1>2 DEF ListStep, List, ListFails, Unreachable, RecordStep, RecordSeen, PruneStep, Prune,
       WatcherFails, WatcherDies, dbVars
<1>3. CASE ConsiderStep
  <2>1. ASSUME NEW p \in Paths, AlreadySeen(p) \/ PresetRejected(p) \/ Defer(p)
        PROVE UNCHANGED <<rowVars, input, origin>>
    BY <2>1 DEF AlreadySeen, PresetRejected, Defer, dbVars
  <2>2. ASSUME NEW p \in Paths, NEW j \in Jobs, EnqueueFile(p, j)
        PROVE NewJob(j)
    BY <2>2 DEF EnqueueFile, NewRow, NewJob, WatchType
  <2>3. QED
    BY <1>3, <2>1, <2>2 DEF ConsiderStep, PresetUnreadable, QueueIsFull
<1>4. ASSUME NEW j \in Jobs, Cancel(j)
      PROVE  RequestCancel(j) /\ UNCHANGED <<input, origin>>
  BY <1>4 DEF Cancel, watchVars, dbVars
<1>5. ASSUME NEW j \in Jobs, NEW p \in Inbox, Submit(j, p)
      PROVE  NewJob(j)
  BY <1>5 DEF Submit, NewRow, NewJob, WatchType
<1>6. CASE Supply \/ Redrop \/ Vanish \/ ShareStep \/ PresetStep
  BY <1>6 DEF Supply, Redrop, Vanish, VanishesWhileListed, Unreachable, ShareStep, ShareChanges,
       PresetStep, PresetChanges, watchVars, dbVars
<1>7. QED
  BY <1>1, <1>2, <1>3, <1>4, <1>5, <1>6 DEF Next
(* A settled row keeps its outcome, and a row with a cancel request or a   *)
(* newcomer beside it stays what it is.                                    *)
LEMMA OutcomeStays ==
  ASSUME NoChaining, IInv, Next, NEW j \in Jobs, status[j] \in {"COMPLETED", "FAILED"}
  PROVE  status'[j] = status[j]
<1> USE DEF IInv, DeliveryTypeOK, DeliveryInv
<1>1. CASE Serve
  BY <1>1 DEF Serve, RecoverOrphans, Running
<1>2. CASE WorkerStep
  BY <1>2 DEF WorkerStep, Claim, ClaimNext, OldestPending, Pending, Judge, Fail, Stop,
       MarkCompleted, MarkFailed, MarkCancelled, Finish, TargetInv, StoreType
<1>3. CASE RoutingStep
  BY <1>3 DEF RoutingStep, SkipRouting, PickDestination, Rename, StartCopy, EndCopy, Unlink,
       RoutingFails, NoteRouting, SkipNotify, PostAccepted, PostUnanswered, PostRefused, Post,
       NoteHook, RecordProgress, rowVars
<1>4. CASE UNCHANGED <<rowVars, input, origin>>
  BY <1>4 DEF rowVars
<1>5. ASSUME NEW k \in Jobs, RequestCancel(k) PROVE status'[j] = status[j]
  BY <1>5 DEF RequestCancel, StoreType
<1>6. ASSUME NEW k \in Jobs, NewJob(k) PROVE status'[j] = status[j]
  BY <1>6 DEF NewJob, Enqueue, StoreType
<1>7. QED
  BY <1>1, <1>2, <1>3, <1>4, <1>5, <1>6, OtherRows

(* The files the worker has in hand are touched by nobody else.            *)
LEMMA HandsOff ==
  ASSUME NoChaining, IInv, Next, ~RoutesFile, ~Crash
  PROVE  /\ at = "place" => disk'[target] = disk[target]
         /\ at = "copying" =>
              /\ disk'[target] = disk[target] /\ disk'[Source] = disk[Source]
              /\ writer'[Source] = writer[Source]
<1> USE DEF IInv, DeliveryTypeOK, DeliveryInv
<1>1. CASE UNCHANGED <<fileVars, previous>>
  BY <1>1 DEF fileVars
<1>2. CASE Supplies
  <2>1. PICK p \in Inbox : /\ ~InUse(p)
                           /\ \A q \in Paths \ {p} : disk'[q] = disk[q] /\ writer'[q] = writer[q]
    BY <1>2, InboxPaths DEF Supplies, BeginWrite, WriteMore, Grow, EndWrite, MoveIn, Put, SetWriter, MediaType
  <2>2. p \in Paths /\ Dir(p) \in Watched
    BY InboxPaths DEF Inbox, Dir
  <2>3. QED
    BY <2>1, <2>2, Held DEF InUse
<1>3. CASE Takes
  <2>1. PICK p \in Paths : ~InUse(p) /\ TakeAway(p)
    BY <1>3 DEF Takes
  <2>2. /\ \A q \in Paths \ {p} : disk'[q] = disk[q]
        /\ disk[p] # Absent /\ writer' = writer
    BY <2>1 DEF TakeAway, Put, Free, MediaType
  <2>3. at = "place" => disk[target] = Absent
    BY DEF TargetInv, Free
  <2>4. QED
    BY <2>1, <2>2, <2>3, Held DEF InUse
<1>4. CASE Ages
  BY <1>4 DEF Ages, Age
<1>5. ASSUME NEW d \in Watched, List(d) PROVE disk' = disk /\ (at = "copying" => writer'[Source] = writer[Source])
  <2>1. disk' = disk /\ writer' = [p \in Paths |-> IF Dir(p) = d /\ writer[p] = "keep"
                                                  THEN "listed" ELSE writer[p]]
    BY <1>5 DEF List
  <2>2. at = "copying" => writer[Source] = "none"
    BY DEF TargetInv
  <2>3. QED
    BY <2>1, <2>2, Held
<1>6. QED
  BY <1>1, <1>2, <1>3, <1>4, <1>5, FileSteps
(* What suppliers do around a move's unlink keeps it safe: they give up     *)
(* what they replace, and what they put at the source crosses the move.    *)
LEMMA UnlinkSupplied ==
  ASSUME NoChaining, IInv, at = "unlink", Supplies, Source' = Source
  PROVE  UnlinkSafe'
<1> USE DEF IInv, DeliveryTypeOK, DeliveryInv
<1>1. /\ UnlinkSafe /\ Source \in Paths
      /\ crossed' = crossed \cup ({disk'[Source]} \ {disk[Source], Absent})
  BY Held DEF TargetInv, Supplies, Crossing
<1>2. PICK p \in Paths : \/ \E w \in {"touch", "keep"} : Grow(p, w)
                         \/ EndWrite(p) \/ \E c \in Contents : MoveIn(p, c)
  BY InboxPaths DEF Supplies, BeginWrite, WriteMore
<1> DEFINE x == disk[Source]
<1>3. Absent \notin owed /\ disk[p] \in Known /\ x \in Known
  BY <1>1, <1>2 DEF MediaType, Contents, Absent, FreshInv
<1>4. ASSUME NEW w \in {"touch", "keep"}, Grow(p, w) PROVE UnlinkSafe'
  <2>1. /\ disk' = [disk EXCEPT ![p] = written + 1] /\ owed' = owed \ {disk[p]}
        /\ writer' = [writer EXCEPT ![p] = w] /\ written + 1 \in Contents
    BY <1>4, MediaAssumption DEF Grow, Put, SetWriter, MediaType, Contents
  <2>2. written + 1 # x /\ written + 1 # Absent
    BY <1>3, <2>1, MediaAssumption DEF Known, Absent, Torn, Contents, MediaType
  <2>3. CASE p = Source
    BY <1>1, <2>1, <2>2, <2>3 DEF UnlinkSafe, MediaType
  <2>4. CASE p # Source
    <3>1. disk'[Source] = x /\ writer'[Source] = writer[Source] /\ crossed' = crossed
      BY <1>1, <2>1, <2>4 DEF MediaType
    <3>2. x \in owed' \ crossed => \E q \in Paths \ {Source} : disk[q] = x /\ q # p
      BY <1>1, <2>1 DEF UnlinkSafe
    <3>3. \A q \in Paths \ {p} : disk'[q] = disk[q]
      BY <2>1 DEF MediaType
    <3>4. QED
      BY <1>1, <3>1, <3>2, <3>3 DEF UnlinkSafe
  <2>5. QED
    BY <2>3, <2>4
<1>5. CASE EndWrite(p)
  <2>1. /\ disk' = disk /\ owed' = owed \cup {disk[p]} /\ writer[p] \in Supplied
        /\ writer' = [writer EXCEPT ![p] = "none"]
    BY <1>5 DEF EndWrite, SetWriter, Supplied
  <2>2. crossed' = crossed
    BY <1>1, <2>1
  <2>3. CASE p = Source
    BY <1>1, <2>1, <2>2, <2>3 DEF UnlinkSafe, MediaType, Supplied
  <2>4. CASE p # Source
    BY <1>1, <2>1, <2>2, <2>4 DEF UnlinkSafe, MediaType
  <2>5. QED
    BY <2>3, <2>4
<1>6. ASSUME NEW c \in Contents, MoveIn(p, c) PROVE UnlinkSafe'
  <2>1. /\ disk' = [disk EXCEPT ![p] = c] /\ owed' = (owed \ {disk[p]}) \cup {c}
        /\ writer' = writer /\ writer[p] = "none" /\ c # disk[p] /\ c # Absent
    BY <1>6 DEF MoveIn, Put, Contents, Absent
  <2>2. CASE p = Source
    BY <1>1, <2>1, <2>2 DEF UnlinkSafe, MediaType
  <2>3. CASE p # Source
    <3>1. disk'[Source] = x /\ writer'[Source] = writer[Source] /\ crossed' = crossed
      BY <1>1, <2>1, <2>3 DEF MediaType
    <3>2. /\ \A q \in Paths \ {p} : disk'[q] = disk[q]
          /\ disk'[p] = c
      BY <2>1 DEF MediaType
    <3>3. CASE x = c
      BY <1>1, <2>3, <3>1, <3>2, <3>3 DEF UnlinkSafe
    <3>4. CASE x # c
      <4>1. x \in owed' \ crossed => \E q \in Paths \ {Source} : disk[q] = x /\ q # p
        BY <1>1, <2>1, <3>4 DEF UnlinkSafe
      <4>2. QED
        BY <1>1, <3>1, <3>2, <4>1 DEF UnlinkSafe
    <3>5. QED
      BY <3>3, <3>4
  <2>4. QED
    BY <2>2, <2>3
<1>7. QED
  BY <1>2, <1>4, <1>5, <1>6

(* So does everything else that is not a step of the routing itself.       *)
LEMMA UnlinkStays ==
  ASSUME NoChaining, IInv, Next, at = "unlink", ~RoutesFile, ~Crash, Source' = Source
  PROVE  UnlinkSafe'
<1> USE DEF IInv, DeliveryTypeOK, DeliveryInv
<1>0. UnlinkSafe /\ Source \in Paths
  BY Held DEF TargetInv
<1>1. CASE UNCHANGED <<fileVars, previous, crossed>>
  BY <1>0, <1>1 DEF fileVars, UnlinkSafe
<1>2. CASE Supplies
  BY <1>2, UnlinkSupplied
<1>3. CASE Takes
  <2>1. PICK p \in Paths : /\ disk[p] # Absent /\ writer[p] = "none"
                           /\ disk' = [disk EXCEPT ![p] = Absent]
                           /\ owed' = owed \ {disk[p]}
                           /\ writer' = writer /\ crossed' = crossed
    BY <1>3 DEF Takes, TakeAway, Free, Put
  <2>2. Absent \notin owed
    BY DEF MediaType, Contents, Absent
  <2>3. CASE p = Source
    BY <1>0, <2>1, <2>2, <2>3 DEF UnlinkSafe, MediaType
  <2>4. CASE p # Source
    <3>1. disk'[Source] = disk[Source] /\ \A q \in Paths \ {p} : disk'[q] = disk[q]
      BY <1>0, <2>1, <2>4 DEF MediaType
    <3>2. disk[Source] \in owed' \ crossed =>
            \E q \in Paths \ {Source} : disk[q] = disk[Source] /\ q # p
      BY <1>0, <2>1 DEF UnlinkSafe
    <3>3. QED
      BY <1>0, <2>1, <3>1, <3>2 DEF UnlinkSafe
  <2>5. QED
    BY <2>3, <2>4
<1>4. CASE Ages
  <2>1. disk' = disk /\ writer' = writer /\ owed' = owed /\ Crossing
    BY <1>4 DEF Ages, Age
  <2>2. crossed' = crossed
    BY <2>1 DEF Crossing
  <2>3. QED
    BY <1>0, <2>1, <2>2 DEF UnlinkSafe
<1>5. ASSUME NEW d \in Watched, List(d), UNCHANGED crossed PROVE UnlinkSafe'
  <2>1. /\ disk' = disk /\ owed' = owed
        /\ writer' = [p \in Paths |-> IF Dir(p) = d /\ writer[p] = "keep"
                                      THEN "listed" ELSE writer[p]]
    BY <1>5 DEF List
  <2>2. writer'[Source] # "none" => writer[Source] # "none"
    BY <1>0, <2>1
  <2>3. QED
    BY <1>0, <1>5, <2>1, <2>2 DEF UnlinkSafe
<1>6. QED
  BY <1>1, <1>2, <1>3, <1>4, <1>5, FileSteps

(* The place that routing found stays its own. *)
LEMMA TargetStep ==
  ASSUME NoChaining, IInv, Next
  PROVE  TargetInv'
<1> USE DEF IInv, DeliveryTypeOK, DeliveryInv
<1>1. CASE Serve
  BY <1>1 DEF Serve, Idle, TargetInv, InRouting, InNotify
<1>2. CASE Crash
  BY <1>2 DEF Crash, TargetInv, InRouting, InNotify
<1>3. CASE WorkerStep
  <2>1. ASSUME NEW j \in Jobs, Claim(j) PROVE TargetInv'
    BY <2>1 DEF Claim, ClaimNext, TargetInv, InRouting, InNotify, StoreType
  <2>2. ASSUME NEW v \in Given, Judge(v) PROVE TargetInv'
    BY <2>2 DEF Judge, MarkCompleted, Finish, Proceed, TargetInv, InRouting, InNotify, StoreType
  <2>3. CASE Fail("pipeline_error")
    BY <2>3 DEF Fail, MarkFailed, Finish, Proceed, TargetInv, InRouting, InNotify, StoreType
  <2>4. CASE Stop
    BY <2>4 DEF Stop, Idle, TargetInv, InRouting, InNotify
  <2>5. QED
    BY <1>3, <2>1, <2>2, <2>3, <2>4 DEF WorkerStep
<1>4. CASE RoutingStep
  <2>1. status' = status /\ input' = input /\ origin' = origin
    BY <1>4 DEF RoutingStep, SkipRouting, PickDestination, Rename, StartCopy, EndCopy, Unlink,
         RoutingFails, NoteRouting, SkipNotify, PostAccepted, PostUnanswered, PostRefused, Post,
         NoteHook, RecordProgress, rowVars, watchVars, dbVars
  <2>2. ASSUME NEW q \in Paths, PickDestination(q) PROVE TargetInv'
    <3>1. /\ at' = "place" /\ target' = q /\ work' = work /\ verdict' = verdict /\ disk' = disk
          /\ at = "route" /\ IsRouted(work)
      BY <2>2 DEF PickDestination, fileVars, resultVars
    <3>2. Dir(q) = Action(work).dir /\ Free(q)
      BY <2>2 DEF PickDestination, UniqueDestination, Numbered, Dir
    <3>3. QED
      BY <2>1, <3>1, <3>2 DEF TargetInv, InRouting, InNotify, IsRouted, HasFolder, Action, Free
  <2>3. CASE StartCopy
    <3>1. /\ at' = "copying" /\ UNCHANGED <<target, work, verdict>>
          /\ disk' = [disk EXCEPT ![target] = Torn] /\ writer' = [writer EXCEPT ![target] = "copy"]
          /\ at = "place" /\ writer[Source] = "none"
      BY <2>3 DEF StartCopy, Proceed, Put, SetWriter, SourceReady, resultVars
    <3>2. target \in Paths /\ target # Source /\ Source \in Paths
      BY <3>1, Held
    <3>3. QED
      BY <2>1, <3>1, <3>2 DEF TargetInv, InRouting, InNotify, IsRouted, HasFolder, Action, Source, MediaType
  <2>4. CASE EndCopy
    <3>1. /\ at' \in {"unlink", "note"} /\ UNCHANGED <<target, work, verdict>>
          /\ disk' = [disk EXCEPT ![target] = disk[Source]]
          /\ writer' = [writer EXCEPT ![target] = "none"]
          /\ at = "copying"
      BY <2>4 DEF EndCopy, Proceed, Put, SetWriter
    <3>2. target \in Paths /\ target # Source /\ Source \in Paths
      BY <3>1, Held
    <3>3. UnlinkSafe'
      <4>1. Source' = Source /\ writer[Source] = "none"
        BY <2>1, <3>1 DEF Source, TargetInv
      <4>2. disk'[target] = disk[Source] /\ disk'[Source] = disk[Source] /\ writer'[Source] = "none"
        BY <3>1, <3>2, <4>1 DEF MediaType
      <4>3. QED
        BY <3>2, <4>1, <4>2 DEF UnlinkSafe
    <3>4. QED
      BY <2>1, <3>1, <3>2, <3>3 DEF TargetInv, InRouting, InNotify, IsRouted, HasFolder, Action, Source, MediaType
  <2>5. CASE Rename \/ Unlink \/ RoutingFails
    <3>1. at' = "note" /\ work' = work /\ at \in {"place", "copying", "unlink"}
      BY <2>5 DEF Rename, Unlink, RoutingFails, Proceed
    <3>2. QED
      BY <2>1, <3>1 DEF TargetInv, InRouting, InNotify
  <2>6. CASE SkipRouting \/ NoteRouting \/ PostAccepted \/ PostUnanswered \/ PostRefused
    <3>1. at' \in InNotify /\ work' = work /\ at \in InRouting \cup InNotify
      BY <2>6 DEF SkipRouting, NoteRouting, PostAccepted, PostUnanswered, PostRefused, Post,
           Posting, Proceed, InNotify, InRouting
    <3>2. QED
      BY <2>1, <3>1 DEF TargetInv, InRouting, InNotify
  <2>7. CASE SkipNotify \/ NoteHook
    BY <2>7 DEF SkipNotify, NoteHook, Idle, TargetInv, InRouting, InNotify
  <2>8. QED
    BY <1>4, <2>2, <2>3, <2>4, <2>5, <2>6, <2>7 DEF RoutingStep
<1>5. CASE NoteRefused
  BY <1>5 DEF NoteRefused, NoteFails, Idle, TargetInv, InRouting, InNotify
<1>6. ASSUME UNCHANGED <<routeVars, resultVars>>, ~Serve, ~Crash, ~WorkerStep, ~RoutingStep
      PROVE  TargetInv'
  <2>1. UNCHANGED <<at, work, target, verdict>>
    BY <1>6 DEF routeVars, resultVars
  <2>2. at \notin {"down", "idle"} =>
          status'[work] = status[work] /\ input'[work] = input[work] /\ origin'[work] = origin[work]
    <3>1. SUFFICES ASSUME at \notin {"down", "idle"}
                   PROVE  /\ status'[work] = status[work]
                          /\ input'[work] = input[work] /\ origin'[work] = origin[work]
      OBVIOUS
    <3>2. work \in Jobs /\ status[work] \in {"RUNNING", "COMPLETED", "FAILED"}
      BY <3>1 DEF TargetInv, RoutingType, Points
    <3>3. CASE UNCHANGED <<rowVars, input, origin>>
      BY <3>3 DEF rowVars
    <3>4. ASSUME NEW k \in Jobs, RequestCancel(k), UNCHANGED <<input, origin>>
          PROVE status'[work] = status[work] /\ input'[work] = input[work] /\ origin'[work] = origin[work]
      BY <3>2, <3>4 DEF RequestCancel, StoreType
    <3>5. ASSUME NEW k \in Jobs, NewJob(k)
          PROVE status'[work] = status[work] /\ input'[work] = input[work] /\ origin'[work] = origin[work]
      BY <3>2, <3>5 DEF NewJob, Enqueue, StoreType
    <3>6. QED
      BY <1>6, <3>3, <3>4, <3>5, OtherRows
  <2>3. /\ at = "place" => disk'[target] = disk[target]
        /\ at = "copying" =>
             /\ disk'[target] = disk[target] /\ disk'[Source] = disk[Source]
             /\ writer'[Source] = writer[Source]
    BY <1>6, HandsOff DEF RoutesFile, RoutingStep
  <2>4. at = "unlink" => UnlinkSafe'
    <3>1. at = "unlink" => Source' = Source
      BY <2>1, <2>2 DEF Source
    <3>2. QED
      BY <1>6, <3>1, UnlinkStays DEF RoutesFile, RoutingStep
  <2> HIDE DEF IInv, DeliveryTypeOK, DeliveryInv
  <2>5. TargetInv
    BY DEF IInv, DeliveryInv
  <2>6. QED
    BY <2>1, <2>2, <2>3, <2>4, <2>5 DEF TargetInv, InRouting, InNotify, IsRouted, HasFolder, Action, Source, Free
<1>7. QED
  BY <1>1, <1>2, <1>3, <1>4, <1>5, <1>6, Elsewhere

(* A note of a delivery stays true. *)
LEMMA ToldStep ==
  ASSUME NoChaining, IInv, Next
  PROVE  ToldInv'
<1> USE DEF IInv, DeliveryTypeOK, DeliveryInv
<1>1. \A j \in Jobs : status[j] \in {"COMPLETED", "FAILED"} => status'[j] = status[j]
  BY OutcomeStays
<1>2. ASSUME UNCHANGED <<told, hookNote>>, at' # "noteDelivered" \/ UNCHANGED <<at, work>>
      PROVE  ToldInv'
  BY <1>1, <1>2 DEF ToldInv
<1>3. CASE Serve \/ Crash \/ WorkerStep \/ NoteRefused
  BY <1>2, <1>3 DEF Serve, Crash, WorkerStep, Claim, Judge, Fail, Stop, Idle, Proceed, NoteRefused,
       NoteFails, resultVars
<1>4. CASE RoutingStep
  <2>1. CASE SkipRouting \/ (\E q \in Paths : PickDestination(q)) \/ NoteRouting \/ SkipNotify
             \/ Rename \/ StartCopy \/ EndCopy \/ Unlink \/ RoutingFails
    BY <1>2, <2>1 DEF SkipRouting, PickDestination, NoteRouting, SkipNotify, Rename, StartCopy,
         EndCopy, Unlink, RoutingFails, Idle, Proceed, resultVars
  <2>2. ASSUME NEW pc, Post(pc) PROVE /\ UNCHANGED <<hookNote, work, status>>
                                      /\ work \in Jobs /\ status[work] \in {"COMPLETED", "FAILED"}
                                      /\ at' = pc
    BY <2>2 DEF Post, Posting, Notifies, TargetInv, rowVars
  <2>3. CASE PostAccepted
    <3>1. told' = [told EXCEPT ![work] = status[work]]
      BY <2>3 DEF PostAccepted, Tell
    <3>2. QED
      BY <2>2, <2>3, <3>1 DEF PostAccepted, ToldInv, RoutingType
  <2>4. CASE PostUnanswered
    <3>1. told' = [told EXCEPT ![work] = status[work]] \/ told' = told
      BY <2>4 DEF PostUnanswered, Tell
    <3>2. at' # "noteDelivered" /\ UNCHANGED <<hookNote, work, status>>
          /\ work \in Jobs /\ status[work] \in {"COMPLETED", "FAILED"}
      BY <2>2, <2>4 DEF PostUnanswered
    <3>3. QED
      BY <3>1, <3>2 DEF ToldInv, RoutingType
  <2>5. CASE PostRefused
    BY <1>2, <2>2, <2>5 DEF PostRefused
  <2>6. CASE NoteHook
    <3>1. /\ told' = told /\ at' = "idle" /\ work \in Jobs
          /\ hookNote' = [hookNote EXCEPT ![work] =
                            IF at = "noteDelivered" THEN "delivered" ELSE "failed"]
      BY <2>6 DEF NoteHook, Idle, TargetInv
    <3>2. QED
      BY <1>1, <3>1 DEF ToldInv, RoutingType
  <2>7. QED
    BY <1>4, <2>1, <2>3, <2>4, <2>5, <2>6 DEF RoutingStep
<1>5. CASE UNCHANGED <<routeVars, resultVars>>
  BY <1>2, <1>5 DEF routeVars, resultVars
<1>6. QED
  BY <1>3, <1>4, <1>5, Elsewhere
-----------------------------------------------------------------------------
(* The types of the rows, of the watcher and of the worker                 *)

(* Every step keeps the types of the table. *)
LEMMA StoreStep ==
  ASSUME IInv, Next
  PROVE  StoreType'
<1> USE DEF IInv, DeliveryTypeOK, DeliveryInv
<1>1. CASE Serve
  BY <1>1, StoreTypes DEF Serve
<1>2. CASE WorkerStep
  <2>1. ASSUME NEW j \in Jobs, Claim(j) PROVE StoreType'
    BY <2>1, StoreTypes DEF Claim
  <2>2. CASE (\E v \in Given : Judge(v)) \/ Stop
    BY <2>2, StoreTypes DEF Judge, Stop, TargetInv
  <2>3. CASE Fail("pipeline_error")
    BY <2>3, StoreTypes DEF Fail, TargetInv, FailureReasons
  <2>4. QED
    BY <1>2, <2>1, <2>2, <2>3 DEF WorkerStep
<1>3. CASE RoutingStep
  <2>1. CASE NoteRouting \/ NoteHook
    BY <2>1, StoreTypes DEF NoteRouting, NoteHook, TargetInv
  <2>2. CASE UNCHANGED rowVars
    BY <2>2, QuietStore
  <2>3. QED
    BY <1>3, <2>1, <2>2 DEF RoutingStep, SkipRouting, PickDestination, Rename, StartCopy, EndCopy,
         Unlink, RoutingFails, SkipNotify, PostAccepted, PostUnanswered, PostRefused, Post
<1>4. CASE UNCHANGED <<rowVars, input, origin>>
  BY <1>4, QuietStore
<1>5. ASSUME NEW j \in Jobs, RequestCancel(j) \/ NewJob(j) PROVE StoreType'
  BY <1>5, StoreTypes DEF NewJob
<1>6. QED
  BY <1>1, <1>2, <1>3, <1>4, <1>5, OtherRows

(* Every step keeps the types of the routing. *)
LEMMA RoutingStepTypes ==
  ASSUME IInv, Next
  PROVE  RoutingType'
<1> USE DEF IInv, DeliveryTypeOK, DeliveryInv
<1>1. CASE Serve \/ Crash \/ NoteRefused
  BY <1>1, RoutingAssumption DEF Serve, Crash, NoteRefused, NoteFails, Idle, resultVars, RoutingType, Points
<1>2. CASE WorkerStep
  BY <1>2, DeliveryAssumption, RoutingAssumption DEF WorkerStep, Claim, Judge, Fail, Stop, Idle, Proceed, resultVars,
       RoutingType, Points, InRouting
<1>3. CASE RoutingStep
  <2>1. CASE SkipRouting \/ (\E q \in Paths : PickDestination(q)) \/ NoteRouting \/ SkipNotify
             \/ StartCopy \/ Unlink \/ RoutingFails
    BY <2>1, RoutingAssumption DEF SkipRouting, PickDestination, NoteRouting, SkipNotify, StartCopy, Unlink,
         RoutingFails, Idle, Proceed, resultVars, RoutingType, Points, InRouting, InNotify
  <2>2. CASE Rename \/ EndCopy
    <3>1. routed' = [routed EXCEPT ![work] = disk[Source]]
          /\ at' \in {"unlink", "note"} /\ UNCHANGED <<work, target, tries, verdict, told, hookNote>>
      BY <2>2 DEF Rename, EndCopy, Routed, Proceed
    <3>2. disk[Source] \in {Absent, Torn} \cup Contents
      <4>1. work \in Jobs /\ IsRouted(work)
        BY <2>2 DEF TargetInv, Rename, EndCopy
      <4>2. Source \in Paths
        BY <4>1 DEF JobInv, IsRouted, HasFolder, Source
      <4>3. QED
        BY <4>2 DEF MediaType
    <3>3. QED
      BY <3>1, <3>2 DEF RoutingType, Points, InRouting
  <2>3. ASSUME NEW pc \in {"notify", "noteDelivered", "noteFailed"}, Post(pc),
               tries < MaxTries, Tell \/ UNCHANGED told
        PROVE  RoutingType'
    <3>1. status[work] \in {"COMPLETED", "FAILED"} /\ work \in Jobs
      BY <2>3 DEF Post, Posting, Notifies, TargetInv
    <3>2. tries' \in 0..MaxTries
      BY <2>3, RoutingAssumption DEF Post, RoutingType
    <3>3. told' \in [Jobs -> {"none", "COMPLETED", "FAILED", "CANCELLED"}]
      BY <2>3, <3>1 DEF Tell, RoutingType
    <3>4. QED
      BY <2>3, <3>2, <3>3 DEF Post, RoutingType, Points, InNotify
  <2>4. CASE PostAccepted \/ PostUnanswered \/ PostRefused
    BY <2>3, <2>4 DEF PostAccepted, PostUnanswered, PostRefused, Post, Posting, TriesInv
  <2>5. CASE NoteHook
    <3>1. hookNote' \in [Jobs -> {"none", "delivered", "failed"}]
      BY <2>5 DEF NoteHook, RoutingType
    <3>2. QED
      BY <2>5, <3>1, RoutingAssumption DEF NoteHook, Idle, RoutingType, Points
  <2>6. QED
    BY <1>3, <2>1, <2>2, <2>4, <2>5 DEF RoutingStep
<1>4. CASE UNCHANGED <<routeVars, resultVars>>
  BY <1>4, QuietRouting
<1>5. QED
  BY <1>1, <1>2, <1>3, <1>4, Elsewhere
(* The tries of the webhook are bounded. *)
LEMMA TriesStep ==
  ASSUME IInv, Next
  PROVE  TriesInv'
<1> USE DEF IInv, DeliveryTypeOK, DeliveryInv
<1>0. 0 < MaxTries
  BY RoutingAssumption
<1>1. CASE Serve \/ Crash \/ NoteRefused
  BY <1>0, <1>1 DEF Serve, Crash, NoteRefused, NoteFails, Idle, TriesInv
<1>2. CASE WorkerStep
  BY <1>0, <1>2 DEF WorkerStep, Claim, Judge, Fail, Stop, Idle, Proceed, TriesInv
<1>3. CASE RoutingStep
  <2>1. CASE SkipRouting \/ (\E q \in Paths : PickDestination(q)) \/ NoteRouting \/ SkipNotify
             \/ Rename \/ StartCopy \/ EndCopy \/ Unlink \/ RoutingFails \/ NoteHook
    BY <1>0, <2>1 DEF SkipRouting, PickDestination, NoteRouting, SkipNotify, Rename, StartCopy,
         EndCopy, Unlink, RoutingFails, NoteHook, Idle, Proceed, TriesInv
  <2>2. CASE PostAccepted \/ PostUnanswered \/ PostRefused
    BY <2>2 DEF PostAccepted, PostUnanswered, PostRefused, Post, Posting, TriesInv
  <2>3. QED
    BY <1>3, <2>1, <2>2 DEF RoutingStep
<1>4. CASE UNCHANGED <<routeVars, resultVars>>
  BY <1>4 DEF routeVars, TriesInv
<1>5. QED
  BY <1>1, <1>2, <1>3, <1>4, Elsewhere

(* Every step keeps the types of the watcher. *)
LEMMA WatchStepTypes ==
  ASSUME IInv, Next
  PROVE  WatchType'
<1> USE DEF IInv, DeliveryTypeOK, DeliveryInv
<1>1. CASE UNCHANGED watchVars
  BY <1>1, QuietWatch
<1>2. CASE Serve
  BY <1>2 DEF Serve, WatcherStarts, WatchType, dbVars, memVars, envVars
<1>3. CASE Crash
  BY <1>3, WatchAssumption DEF Crash, WatcherStops, Forgotten, WatchType, dbVars, envVars, Absent
<1>4. CASE ListStep
  <2>1. ASSUME NEW d \in Watched, List(d) PROVE WatchType'
    <3>1. /\ error' \in [Watched -> {"none", "unreachable", "preset"}]
          /\ todo' \subseteq Paths
          /\ previous' \in [Paths -> {Absent, Torn} \cup Contents]
      BY <2>1 DEF List, Recovered, WatchType, MediaType
    <3>2. QED
      BY <2>1, <3>1 DEF List, WatchType, dbVars, envVars
  <2>2. ASSUME NEW d \in Watched, Unreachable(d) PROVE WatchType'
    BY <2>2 DEF Unreachable, WatchType, dbVars, envVars
  <2>3. QED
    BY <1>4, <2>1, <2>2 DEF ListStep, ListFails
<1>5. CASE ConsiderStep
  <2>1. ASSUME NEW p \in Paths, AlreadySeen(p) PROVE WatchType'
    BY <2>1 DEF AlreadySeen, Pass, WatchType, dbVars, envVars
  <2>2. ASSUME NEW p \in Paths, PresetRejected(p) PROVE WatchType'
    BY <2>2 DEF PresetRejected, Pass, WatchType, dbVars, envVars
  <2>3. ASSUME NEW p \in Paths, Defer(p), Unseen(p),
               error' \in [Watched -> {"none", "unreachable", "preset"}]
        PROVE  WatchType'
    <3>1. deferrals' \in [Paths -> 0..(MaxDefer - 1)]
      <4>1. deferrals[p] \in 0..(MaxDefer - 1) /\ MaxDefer \in Nat \ {0}
        BY WatchAssumption DEF WatchType
      <4>2. CASE deferrals[p] + 1 >= MaxDefer
        <5>1. 0 \in 0..(MaxDefer - 1) /\ deferrals' = [deferrals EXCEPT ![p] = 0]
          BY <2>3, <4>1, <4>2 DEF Defer
        <5>2. QED
          BY <5>1 DEF WatchType
      <4>3. CASE ~(deferrals[p] + 1 >= MaxDefer)
        <5>1. /\ deferrals[p] + 1 \in 0..(MaxDefer - 1)
              /\ deferrals' = [deferrals EXCEPT ![p] = deferrals[p] + 1]
          BY <2>3, <4>1, <4>3 DEF Defer
        <5>2. QED
          BY <5>1 DEF WatchType
      <4>4. QED
        BY <4>2, <4>3
    <3>2. parked' \subseteq Paths \X ({Torn} \cup Contents)
      <4>1. previous[p] \in {Torn} \cup Contents
        BY <2>3 DEF Unseen, Considers, JobInv, MediaType
      <4>2. parked' = parked \/ parked' = parked \cup {<<p, previous[p]>>}
        BY <2>3 DEF Defer
      <4>3. QED
        BY <4>1, <4>2 DEF WatchType
    <3>3. QED
      BY <2>3, <3>1, <3>2 DEF Defer, Pass, WatchType, dbVars, envVars
  <2>4. ASSUME NEW p \in Paths, Unseen(p), Dir(p) \in Watched, PresetLoads(Dir(p))
        PROVE  error' \in [Watched -> {"none", "unreachable", "preset"}]
    BY <2>4 DEF PresetLoads, WatchType
  <2>5. ASSUME NEW p \in Paths, Unseen(p) PROVE Dir(p) \in Watched
    BY <2>5 DEF Unseen, Considers, JobInv
  <2>6. ASSUME NEW p \in Paths, PresetUnreadable(p) \/ QueueIsFull(p) PROVE WatchType'
    BY <2>3, <2>4, <2>5, <2>6 DEF PresetUnreadable, QueueIsFull, WatchType
  <2>7. ASSUME NEW p \in Paths, NEW j \in Jobs, EnqueueFile(p, j) PROVE WatchType'
    <3>1. /\ error' \in [Watched -> {"none", "unreachable", "preset"}]
      BY <2>4, <2>5, <2>7 DEF EnqueueFile
    <3>2. /\ input' = [input EXCEPT ![j] = p] /\ content' = [content EXCEPT ![j] = previous[p]]
          /\ origin' = [origin EXCEPT ![j] = "watch"]
      BY <2>7 DEF EnqueueFile, NewRow
    <3>3. QED
      BY <2>7, <3>1, <3>2 DEF EnqueueFile, Pass, WatchType, envVars
  <2>8. QED
    BY <1>5, <2>1, <2>2, <2>6, <2>7 DEF ConsiderStep
<1>6. CASE RecordStep
  <2>1. seen' \in [Paths -> {Absent, Torn} \cup Contents]
    BY <1>6 DEF RecordStep, RecordSeen, WatchType
  <2>2. deferrals' \in [Paths -> 0..(MaxDefer - 1)]
    BY <1>6, WatchAssumption DEF RecordStep, RecordSeen, WatchType
  <2>3. QED
    BY <1>6, <2>1, <2>2 DEF RecordStep, RecordSeen, WatchType, envVars
<1>7. CASE PruneStep
  BY <1>7 DEF PruneStep, Prune, WatchType, memVars, envVars
<1>8. CASE WatcherFails
  BY <1>8 DEF WatcherFails, WatcherDies, WatchType, dbVars, envVars
<1>9. ASSUME NEW j \in Jobs, NEW p \in Inbox, Submit(j, p) PROVE WatchType'
  <2>1. p \in Paths /\ disk[p] \in {Absent, Torn} \cup Contents
    BY InboxPaths DEF MediaType
  <2>2. /\ input' = [input EXCEPT ![j] = p] /\ content' = [content EXCEPT ![j] = disk[p]]
        /\ origin' = [origin EXCEPT ![j] = "manual"]
    BY <1>9 DEF Submit, NewRow
  <2>3. QED
    BY <1>9, <2>1, <2>2 DEF Submit, WatchType, memVars, envVars
<1>10. CASE Vanish
  <2>1. ASSUME NEW d \in Watched, Unreachable(d) PROVE WatchType'
    BY <2>1 DEF Unreachable, WatchType, dbVars, envVars
  <2>2. QED
    BY <1>1, <1>10, <2>1 DEF Vanish, VanishesWhileListed
<1>11. CASE ShareStep
  BY <1>11 DEF ShareStep, ShareChanges, WatchType, dbVars, memVars
<1>12. CASE PresetStep
  BY <1>12 DEF PresetStep, PresetChanges, WatchType, dbVars, memVars
<1>13. CASE WorkerStep \/ RoutingStep \/ NoteRefused
  BY <1>1, <1>13 DEF WorkerStep, Claim, Judge, Fail, Stop, RoutingStep, SkipRouting,
       PickDestination, Rename, StartCopy, EndCopy, Unlink, RoutingFails, NoteRouting, SkipNotify,
       PostAccepted, PostUnanswered, PostRefused, Post, NoteHook, NoteRefused, NoteFails
<1>14. CASE \/ \E j \in Jobs : Cancel(j)
            \/ Supply \/ Redrop
  BY <1>1, <1>14 DEF Cancel, Supply, Redrop
<1>15. QED
  BY <1>2, <1>3, <1>4, <1>5, <1>6, <1>7, <1>8, <1>9, <1>10, <1>11, <1>12, <1>13, <1>14 DEF Next
-----------------------------------------------------------------------------
(* What the watcher knows of its jobs, and the records it lost.  None of   *)
(* this depends on where verdicts are routed.                              *)

LapseTypes ==
  /\ status \in [Jobs -> Status] /\ rowid \in [Jobs -> Nat] /\ lastRowid \in Nat
  /\ seen = [p \in Paths |-> seen[p]]
  /\ input \in [Jobs -> Paths \cup {NoPath}]
  /\ content = [j \in Jobs |-> content[j]]
  /\ origin \in [Jobs -> {"none", "watch", "manual"}]
  /\ lapses \in Nat

RowsStay == UNCHANGED <<rowid, lastRowid, origin, input, content>>
StillThere ==
  /\ status' \in [Jobs -> Status]
  /\ \A j \in Jobs : status[j] # "ABSENT" => status'[j] # "ABSENT"
(* The watcher goes on, or loses what it has in hand. *)
KeepsHand ==
  /\ UNCHANGED <<seen, recording, lapses>>
  /\ recording # NoPath => previous' = previous
DropsHand ==
  /\ UNCHANGED seen /\ recording' = NoPath
  /\ lapses' = IF recording = NoPath THEN lapses ELSE lapses + 1
Prunes == \E p \in Paths : Prune(p)
(* A row of the watcher, and one of somebody else. *)
WatchRow(j, p) ==
  /\ NewRow(j, p, previous[p], "watch")
  /\ recording = NoPath /\ seen[p] # previous[p]
  /\ recording' = p /\ UNCHANGED <<seen, previous, lapses>>
OtherRow(j) ==
  /\ \E p \in Paths : NewRow(j, p, disk[p], "manual")
  /\ UNCHANGED <<seen, recording, previous, lapses>>

(* The steps that rows and their records can tell apart. *)
LEMMA LapseSteps ==
  ASSUME LapseTypes, [Next]_vars
  PROVE  \/ RowsStay /\ StillThere /\ (KeepsHand \/ DropsHand \/ RecordSeen \/ Prunes)
         \/ \E j \in Jobs, p \in Paths : WatchRow(j, p)
         \/ \E j \in Jobs : OtherRow(j)
<1> USE DEF LapseTypes, RowsStay, StillThere, KeepsHand, DropsHand, Status, Terminal
<1> DEFINE Old == RowsStay /\ StillThere /\ (KeepsHand \/ DropsHand \/ RecordSeen \/ Prunes)
<1>1. ASSUME UNCHANGED <<rowVars, watchVars>> PROVE Old
  BY <1>1 DEF rowVars, watchVars, dbVars, memVars
<1>2. ASSUME UNCHANGED <<rowid, lastRowid, watchVars>>, StillThere PROVE Old
  BY <1>2 DEF watchVars, dbVars, memVars
<1>3. CASE Serve
  <2>1. StillThere
    BY <1>3 DEF Serve, RecoverOrphans, Running
  <2>2. QED
    BY <1>3, <2>1 DEF Serve, RecoverOrphans, WatcherStarts, dbVars, memVars
<1>4. CASE Crash
  BY <1>4 DEF Crash, WatcherStops, Forgotten, dbVars, rowVars
<1>5. CASE WorkerStep
  <2>1. StillThere /\ UNCHANGED <<rowid, lastRowid, watchVars>>
    BY <1>5 DEF WorkerStep, Claim, ClaimNext, Judge, Fail, Stop, MarkCompleted, MarkFailed,
         MarkCancelled, Finish
  <2>2. QED
    BY <2>1, <1>2
<1>6. CASE RoutingStep \/ NoteRefused
  <2>1. UNCHANGED <<status, rowid, lastRowid, watchVars>>
    BY <1>6 DEF RoutingStep, SkipRouting, PickDestination, Rename, StartCopy, EndCopy, Unlink,
         RoutingFails, NoteRouting, SkipNotify, PostAccepted, PostUnanswered, PostRefused, Post,
         NoteHook, NoteRefused, NoteFails, RecordProgress, rowVars
  <2>2. QED
    BY <2>1, <1>2
<1>7. CASE ListStep
  BY <1>7 DEF ListStep, List, ListFails, Unreachable, Between, rowVars, dbVars
<1>8. CASE ConsiderStep
  <2>1. ASSUME NEW p \in Paths, AlreadySeen(p) \/ PresetRejected(p) \/ Defer(p) PROVE Old
    BY <2>1 DEF AlreadySeen, PresetRejected, Defer, rowVars, dbVars
  <2>2. ASSUME NEW p \in Paths, NEW j \in Jobs, EnqueueFile(p, j) PROVE WatchRow(j, p)
    BY <2>2 DEF EnqueueFile, Unseen, Considers, WatchRow
  <2>3. QED
    BY <1>8, <2>1, <2>2 DEF ConsiderStep, PresetUnreadable, QueueIsFull
<1>9. CASE RecordStep
  BY <1>9 DEF RecordStep, RecordSeen, rowVars
<1>10. CASE PruneStep
  BY <1>10 DEF PruneStep, Prune, Prunes, rowVars
<1>11. CASE WatcherFails
  BY <1>11 DEF WatcherFails, WatcherDies, rowVars, dbVars
<1>12. ASSUME NEW j \in Jobs, Cancel(j) PROVE Old
  <2>1. StillThere /\ UNCHANGED <<rowid, lastRowid, watchVars>>
    BY <1>12 DEF Cancel, RequestCancel
  <2>2. QED
    BY <2>1, <1>2
<1>13. ASSUME NEW j \in Jobs, NEW p \in Inbox, Submit(j, p) PROVE OtherRow(j)
  BY <1>13, InboxPaths DEF Submit, OtherRow, memVars
<1>14. CASE Supply \/ Redrop \/ PresetStep \/ ShareStep
  BY <1>14 DEF Supply, Redrop, PresetStep, PresetChanges, ShareStep, ShareChanges, rowVars,
       watchVars, dbVars, memVars
<1>15. CASE Vanish
  BY <1>15 DEF Vanish, VanishesWhileListed, Unreachable, rowVars, watchVars, dbVars, memVars
<1>16. CASE UNCHANGED vars
  BY <1>1, <1>16 DEF vars
<1>17. QED
  BY <1>3, <1>4, <1>5, <1>6, <1>7, <1>8, <1>9, <1>10, <1>11, <1>12, <1>13, <1>14, <1>15, <1>16 DEF Next

(* The types that the count needs; no hypothesis on the folders. *)
LEMMA LapseTypesStep ==
  ASSUME LapseTypes, [Next]_vars
  PROVE  LapseTypes'
<1>1. CASE RowsStay /\ StillThere /\ (KeepsHand \/ DropsHand \/ RecordSeen \/ Prunes)
  BY <1>1 DEF LapseTypes, RowsStay, StillThere, KeepsHand, DropsHand, RecordSeen, Prunes, Prune
<1>2. ASSUME NEW j \in Jobs, NEW p \in Paths, NEW c, NEW who \in {"watch", "manual"},
             NewRow(j, p, c, who), UNCHANGED <<seen, lapses>>
      PROVE  LapseTypes'
  BY <1>2 DEF LapseTypes, NewRow, Enqueue, Status
<1>3. QED
  BY <1>1, <1>2, LapseSteps DEF WatchRow, OtherRow


(* At most one job of a path is the latest.                                *)
LEMMA OneLatest ==
  ASSUME RowsInv, LapseTypes, NEW j \in Jobs, NEW k \in Jobs, Latest(j), Latest(k), input[j] = input[k]
  PROVE  j = k
<1>1. origin[j] = "watch" /\ origin[k] = "watch" /\ rowid[j] <= rowid[k] /\ rowid[k] <= rowid[j]
  BY DEF Latest, WatchJobs
<1>2. rowid[j] = rowid[k]
  BY <1>1 DEF LapseTypes
<1>3. QED
  BY <1>1, <1>2 DEF RowsInv

(* A lost record may expose one job more.                                  *)
LEMMA OneMore ==
  ASSUME NEW A \in SUBSET Jobs, NEW B \in SUBSET Jobs, NEW x, A \subseteq B \cup {x}
  PROVE  /\ Cardinality(A) \in Nat /\ Cardinality(B) \in Nat
         /\ Cardinality(A) <= Cardinality(B) + 1
         /\ A \subseteq B => Cardinality(A) <= Cardinality(B)
         /\ x \notin A /\ x \in B => Cardinality(A) + 1 <= Cardinality(B)
<1>1. IsFiniteSet(A) /\ IsFiniteSet(B)
  BY QueueAssumption, FS_Subset
<1>2. Cardinality(A) \in Nat /\ Cardinality(B) \in Nat
  BY <1>1, FS_CardinalityType
<1>3. /\ IsFiniteSet(B \cup {x})
      /\ Cardinality(B \cup {x}) = IF x \in B THEN Cardinality(B) ELSE Cardinality(B) + 1
  BY <1>1, FS_AddElement
<1>4. Cardinality(A) <= Cardinality(B \cup {x})
  <2>1. A \in SUBSET (B \cup {x})
    OBVIOUS
  <2>2. QED
    BY <2>1, <1>3, FS_Subset
<1>5. A \subseteq B => Cardinality(A) <= Cardinality(B)
  BY <1>1, FS_Subset
<1>6. ASSUME x \notin A, x \in B PROVE Cardinality(A) + 1 <= Cardinality(B)
  <2>1. A \in SUBSET (B \ {x})
    BY <1>6
  <2>2. IsFiniteSet(B \ {x}) /\ Cardinality(B \ {x}) = Cardinality(B) - 1
    BY <1>1, <1>6, FS_RemoveElement
  <2>3. Cardinality(A) <= Cardinality(B \ {x})
    BY <2>1, <2>2, FS_Subset
  <2>4. QED
    BY <1>2, <2>2, <2>3
<1>7. QED
  BY <1>2, <1>3, <1>4, <1>5, <1>6

(* While the rows stay, only what is recorded of the latest jobs changes.  *)
LEMMA RowsStayed ==
  ASSUME RowsStay
  PROVE  /\ \A j \in Jobs : Latest(j)' = Latest(j)
         /\ Repeated' = Repeated
<1>1. \A p : WatchJobs(p)' = WatchJobs(p)
  BY DEF WatchJobs, RowsStay
<1>2. \A j \in Jobs : Repeats(j)' = Repeats(j)
  BY <1>1 DEF Repeats, RowsStay
<1>3. QED
  BY <1>1, <1>2 DEF Latest, Repeated, RowsStay

(* A step without a new row: a record that is lost is a lapse. *)
LEMMA OldRowsLapse ==
  ASSUME LapseTypes, LapseInv, RowsStay, StillThere,
         KeepsHand \/ DropsHand \/ RecordSeen \/ Prunes
  PROVE  LapseInv'
<1> USE DEF LapseInv
<1>r. RowsInv'
  BY DEF RowsInv, RowsStay, StillThere
<1>i. \A j \in Jobs : Latest(j) => input[j] \in Paths /\ input[j] # NoPath
  BY WatchAssumption DEF Latest, RowsInv
<1>l. \A j \in Jobs : (Latest(j)' <=> Latest(j)) /\ input'[j] = input[j] /\ content'[j] = content[j]
  BY RowsStayed DEF RowsStay
<1>u. Unrecorded \in SUBSET Jobs /\ Unrecorded' \in SUBSET Jobs /\ Repeated \in SUBSET Jobs
  BY DEF Unrecorded, Repeated
<1>n. Cardinality(Repeated') = Cardinality(Repeated) /\ Cardinality(Repeated) \in Nat
  BY <1>u, RowsStayed, OneMore
<1>1. CASE KeepsHand
  <2>1. \A j \in Jobs : Latest(j)' /\ input'[j] = recording' => content'[j] = previous'[recording']
    BY <1>1, <1>l, <1>i DEF KeepsHand
  <2>2. Unrecorded' = Unrecorded
    BY <1>1, <1>l DEF Unrecorded, KeepsHand
  <2>3. QED
    BY <1>1, <1>r, <1>n, <2>1, <2>2 DEF KeepsHand
<1>2. ASSUME recording' = NoPath PROVE \A j \in Jobs : Latest(j)' /\ input'[j] = recording' => content'[j] = previous'[recording']
  BY <1>2, <1>l, <1>i
<1>3. ASSUME NEW p, lapses' = lapses + 1,
             \A j \in Jobs : j \in Unrecorded' => j \in Unrecorded \/ (Latest(j) /\ input[j] = p)
      PROVE  Cardinality(Repeated') + Cardinality(Unrecorded') <= lapses'
  <2>1. PICK x : \A j \in Jobs : Latest(j) /\ input[j] = p => j = x
    <3>1. CASE \E j \in Jobs : Latest(j) /\ input[j] = p
      BY <3>1, OneLatest
    <3>2. CASE ~ \E j \in Jobs : Latest(j) /\ input[j] = p
      BY <3>2
    <3>3. QED
      BY <3>1, <3>2
  <2>2. Unrecorded' \subseteq Unrecorded \cup {x}
    BY <1>3, <1>u, <2>1
  <2>3. /\ Cardinality(Unrecorded') \in Nat /\ Cardinality(Unrecorded) \in Nat
        /\ Cardinality(Unrecorded') <= Cardinality(Unrecorded) + 1
    BY <1>u, <2>2, OneMore
  <2>4. QED
    BY <1>3, <1>n, <2>3 DEF LapseTypes
<1>4. ASSUME lapses' = lapses, Unrecorded' \subseteq Unrecorded
      PROVE  Cardinality(Repeated') + Cardinality(Unrecorded') <= lapses'
  <2>1. /\ Cardinality(Unrecorded') \in Nat /\ Cardinality(Unrecorded) \in Nat
        /\ Cardinality(Unrecorded') <= Cardinality(Unrecorded)
    BY <1>u, <1>4, OneMore
  <2>2. QED
    BY <1>4, <1>n, <2>1 DEF LapseTypes
<1>5. CASE DropsHand
  <2>1. \A j \in Jobs : j \in Unrecorded' => j \in Unrecorded \/ (Latest(j) /\ input[j] = recording)
    BY <1>5, <1>l DEF Unrecorded, DropsHand
  <2>2. CASE recording = NoPath
    <3>1. Unrecorded' \subseteq Unrecorded
      BY <1>u, <1>i, <2>1, <2>2
    <3>2. lapses' = lapses
      BY <1>5, <2>2 DEF DropsHand
    <3>3. QED
      BY <1>5, <1>r, <1>2, <1>4, <3>1, <3>2 DEF DropsHand
  <2>3. CASE recording # NoPath
    <3>1. lapses' = lapses + 1
      BY <1>5, <2>3 DEF DropsHand
    <3>2. QED
      BY <1>5, <1>r, <1>2, <1>3, <2>1, <3>1 DEF DropsHand
  <2>4. QED
    BY <2>2, <2>3
<1>6. CASE RecordSeen
  <2>1. /\ seen' = [seen EXCEPT ![recording] = previous[recording]]
        /\ recording' = NoPath /\ lapses' = lapses
    BY <1>6 DEF RecordSeen
  <2>2. Unrecorded' \subseteq Unrecorded
    <3>1. SUFFICES ASSUME NEW j \in Jobs, j \in Unrecorded' PROVE j \in Unrecorded
      BY <1>u
    <3>2. Latest(j) /\ seen'[input[j]] # content[j] /\ input[j] \in Paths
      BY <3>1, <1>l, <1>i DEF Unrecorded
    <3>3. input[j] # recording
      BY <2>1, <3>2 DEF LapseTypes
    <3>4. seen'[input[j]] = seen[input[j]]
      BY <2>1, <3>2, <3>3 DEF LapseTypes
    <3>5. QED
      BY <3>2, <3>3, <3>4 DEF Unrecorded
  <2>3. QED
    BY <1>r, <1>2, <1>4, <2>1, <2>2
<1>7. CASE Prunes
  <2>1. PICK p \in Paths : Prune(p)
    BY <1>7 DEF Prunes
  <2>2. /\ seen' = [seen EXCEPT ![p] = Absent] /\ lapses' = lapses + 1
        /\ recording = NoPath /\ recording' = recording
    BY <2>1 DEF Prune, Between, memVars
  <2>3. \A j \in Jobs : j \in Unrecorded' => j \in Unrecorded \/ (Latest(j) /\ input[j] = p)
    <3>1. SUFFICES ASSUME NEW j \in Jobs, j \in Unrecorded', input[j] # p PROVE j \in Unrecorded
      BY <1>l DEF Unrecorded
    <3>2. Latest(j) /\ seen'[input[j]] # content[j] /\ input[j] \in Paths /\ input[j] # NoPath
      BY <3>1, <1>l, <1>i DEF Unrecorded
    <3>3. seen'[input[j]] = seen[input[j]]
      BY <2>2, <3>1, <3>2 DEF LapseTypes
    <3>4. QED
      BY <2>2, <3>2, <3>3 DEF Unrecorded
  <2>4. QED
    BY <1>r, <1>2, <1>3, <2>2, <2>3
<1>8. QED
  BY <1>1, <1>5, <1>6, <1>7

(* A new row has the highest number, and nothing else changes.             *)
LEMMA RowComesLast ==
  ASSUME LapseTypes, RowsInv, NEW j \in Jobs, NEW p \in Paths, NEW c, NEW who \in {"watch", "manual"},
         NewRow(j, p, c, who)
  PROVE  /\ origin[j] = "none"
         /\ \A k \in Jobs : origin[k] # "none" =>
              rowid'[k] = rowid[k] /\ rowid[k] \in Nat /\ rowid[k] < rowid'[j]
         /\ \A k \in Jobs \ {j} :
              origin'[k] = origin[k] /\ input'[k] = input[k] /\ content'[k] = content[k]
         /\ rowid'[j] \in Nat /\ origin'[j] = who /\ input'[j] = p /\ content'[j] = c
         /\ RowsInv'
<1>1. /\ status[j] = "ABSENT" /\ status' = [status EXCEPT ![j] = "PENDING"]
      /\ lastRowid' = lastRowid + 1 /\ rowid' = [rowid EXCEPT ![j] = lastRowid + 1]
      /\ input' = [input EXCEPT ![j] = p] /\ content' = [content EXCEPT ![j] = c]
      /\ origin' = [origin EXCEPT ![j] = who]
  BY DEF NewRow, Enqueue
<1>2. origin[j] = "none"
  BY <1>1 DEF RowsInv
<1>3. \A k \in Jobs : origin[k] # "none" =>
        rowid'[k] = rowid[k] /\ rowid[k] \in Nat /\ rowid[k] < rowid'[j]
  BY <1>1, <1>2 DEF LapseTypes, RowsInv
<1>4. /\ \A k \in Jobs \ {j} :
           origin'[k] = origin[k] /\ input'[k] = input[k] /\ content'[k] = content[k]
      /\ rowid'[j] \in Nat /\ origin'[j] = who /\ input'[j] = p /\ content'[j] = c
  BY <1>1 DEF LapseTypes
<1>5. RowsInv'
  <2>1. \A k \in Jobs : origin'[k] # "none" => status'[k] # "ABSENT" /\ rowid'[k] \in 1..lastRowid'
    BY <1>1 DEF RowsInv, LapseTypes
  <2>2. \A k, m \in Jobs :
          origin'[k] # "none" /\ origin'[m] # "none" /\ rowid'[k] = rowid'[m] => k = m
    BY <1>2, <1>3, <1>4 DEF RowsInv
  <2>3. \A k \in Jobs : origin'[k] = "watch" => input'[k] \in Paths
    BY <1>4 DEF RowsInv
  <2>4. QED
    BY <2>1, <2>2, <2>3 DEF RowsInv
<1>6. QED
  BY <1>2, <1>3, <1>4, <1>5

(* A row that the watcher did not make repeats nothing. *)
LEMMA OtherRowLapse ==
  ASSUME LapseTypes, LapseInv, NEW j \in Jobs, OtherRow(j)
  PROVE  LapseInv'
<1> USE DEF LapseInv
<1>1. PICK p \in Paths : NewRow(j, p, disk[p], "manual")
  BY DEF OtherRow
<1>2. /\ origin[j] = "none" /\ origin'[j] = "manual" /\ RowsInv'
      /\ \A k \in Jobs : origin[k] # "none" => rowid'[k] = rowid[k]
      /\ \A k \in Jobs \ {j} :
           origin'[k] = origin[k] /\ input'[k] = input[k] /\ content'[k] = content[k]
  BY <1>1, RowComesLast
<1>3. UNCHANGED <<seen, recording, previous, lapses>>
  BY DEF OtherRow
<1>4. \A q : WatchJobs(q)' = WatchJobs(q)
  BY <1>2 DEF WatchJobs
<1>5. \A k \in Jobs : origin'[k] = "watch" <=> origin[k] = "watch"
  BY <1>2
<1>6. \A k \in Jobs : origin[k] = "watch" =>
        rowid'[k] = rowid[k] /\ input'[k] = input[k] /\ content'[k] = content[k]
  BY <1>2
<1>7. \A k \in Jobs : Latest(k)' <=> Latest(k)
  BY <1>4, <1>5, <1>6 DEF Latest, WatchJobs
<1>8. \A k \in Jobs : origin[k] = "watch" => (Repeats(k)' <=> Repeats(k))
  BY <1>4, <1>6 DEF Repeats, WatchJobs
<1>9. Repeated' = Repeated
  BY <1>5, <1>8 DEF Repeated
<1>10. \A k \in Jobs : Latest(k) => origin[k] = "watch"
  BY DEF Latest
<1>11. Unrecorded' = Unrecorded
  BY <1>3, <1>6, <1>7, <1>10 DEF Unrecorded
<1>12. \A k \in Jobs : Latest(k)' /\ input'[k] = recording' => content'[k] = previous'[recording']
  BY <1>3, <1>6, <1>7, <1>10
<1>13. QED
  BY <1>2, <1>3, <1>9, <1>11, <1>12

(* A row of the watcher that repeats a delivery spends a missing record. *)
LEMMA WatchRowLapse ==
  ASSUME LapseTypes, LapseInv, NEW j \in Jobs, NEW p \in Paths, WatchRow(j, p)
  PROVE  LapseInv'
<1> USE DEF LapseInv
<1>1. /\ NewRow(j, p, previous[p], "watch") /\ recording = NoPath /\ seen[p] # previous[p]
      /\ recording' = p /\ UNCHANGED <<seen, previous, lapses>>
  BY DEF WatchRow
<1>2. /\ origin[j] = "none" /\ origin'[j] = "watch" /\ RowsInv'
      /\ input'[j] = p /\ content'[j] = previous[p] /\ rowid'[j] \in Nat
      /\ \A k \in Jobs : origin[k] # "none" =>
           rowid'[k] = rowid[k] /\ rowid[k] \in Nat /\ rowid[k] < rowid'[j]
      /\ \A k \in Jobs \ {j} :
           origin'[k] = origin[k] /\ input'[k] = input[k] /\ content'[k] = content[k]
  BY <1>1, RowComesLast
<1>3. \A q : WatchJobs(q)' = IF q = p THEN WatchJobs(p) \cup {j} ELSE WatchJobs(q)
  BY <1>2 DEF WatchJobs
<1>s. \A q : WatchJobs(q) \subseteq WatchJobs(q)' /\ WatchJobs(q)' \subseteq WatchJobs(q) \cup {j}
  BY <1>3
<1>4. \A q : \A k \in WatchJobs(q) :
        /\ k \in Jobs /\ k # j /\ origin[k] = "watch" /\ input[k] = q
        /\ rowid'[k] = rowid[k] /\ rowid[k] \in Nat /\ rowid[k] < rowid'[j]
        /\ origin'[k] = "watch" /\ input'[k] = input[k] /\ content'[k] = content[k]
  BY <1>2 DEF WatchJobs
<1>5. \A k \in Jobs \ {j} : origin'[k] = "watch" => k \in WatchJobs(input[k])
  BY <1>2 DEF WatchJobs
<1>6. ASSUME NEW k \in Jobs \ {j}, Latest(k)' PROVE Latest(k) /\ input[k] # p
  <2>1. origin'[k] = "watch" /\ input'[k] = input[k] /\ k \in WatchJobs(input[k])
    BY <1>2, <1>5, <1>6 DEF Latest
  <2>2. \A i \in WatchJobs(input[k])' : rowid'[i] <= rowid'[k]
    BY <1>6, <2>1 DEF Latest
  <2>3. input[k] # p
    BY <1>2, <1>3, <1>4, <2>1, <2>2
  <2>4. \A i \in WatchJobs(input[k]) : rowid[i] <= rowid[k]
    BY <1>3, <1>4, <2>1, <2>2, <2>3
  <2>5. QED
    BY <1>4, <2>1, <2>3, <2>4 DEF Latest
<1>7. \A k \in Jobs : Latest(k)' /\ input'[k] = recording' => content'[k] = previous'[recording']
  BY <1>1, <1>2, <1>6
<1>8. /\ Unrecorded' \subseteq Unrecorded
      /\ \A k \in Unrecorded' : input[k] # p
  <2>1. SUFFICES ASSUME NEW k \in Jobs, k \in Unrecorded' PROVE k \in Unrecorded /\ input[k] # p
    BY DEF Unrecorded
  <2>2. Latest(k)' /\ input'[k] # p /\ seen[input'[k]] # content'[k]
    BY <1>1, <2>1 DEF Unrecorded
  <2>3. k # j /\ input'[k] = input[k] /\ content'[k] = content[k]
    BY <1>2, <2>2
  <2>4. Latest(k) /\ input[k] # NoPath
    BY <1>6, <2>2, <2>3, WatchAssumption DEF Latest, RowsInv
  <2>5. QED
    BY <1>1, <2>2, <2>3, <2>4 DEF Unrecorded
<1>9. ASSUME NEW k \in Jobs \ {j}, k \in Repeated' PROVE k \in Repeated
  <2>1. origin'[k] = "watch" /\ Repeats(k)'
    BY <1>9 DEF Repeated
  <2>2. k \in WatchJobs(input[k]) /\ input'[k] = input[k]
    BY <1>2, <1>5, <2>1
  <2>3. PICK m \in WatchJobs(input[k])' :
          /\ rowid'[m] < rowid'[k] /\ content'[m] = content'[k]
          /\ \A i \in WatchJobs(input[k])' : ~(rowid'[m] < rowid'[i] /\ rowid'[i] < rowid'[k])
    BY <2>1, <2>2 DEF Repeats
  <2>4. m # j
    BY <1>2, <1>4, <2>2, <2>3
  <2>5. m \in WatchJobs(input[k])
    BY <1>s, <2>2, <2>3, <2>4
  <2>6. \A i \in WatchJobs(input[k]) : i \in WatchJobs(input[k])'
    BY <1>s, <2>2
  <2>7. /\ rowid[m] < rowid[k] /\ content[m] = content[k]
        /\ \A i \in WatchJobs(input[k]) : ~(rowid[m] < rowid[i] /\ rowid[i] < rowid[k])
    BY <1>4, <2>2, <2>3, <2>5, <2>6
  <2>8. QED
    BY <1>4, <2>2, <2>5, <2>7 DEF Repeated, Repeats
<1>10. Repeated' \subseteq Repeated \cup {j}
  BY <1>9 DEF Repeated
<1>11. ASSUME j \in Repeated' PROVE \E k \in Unrecorded : k \notin Unrecorded'
  <2>1. PICK k \in WatchJobs(p)' :
          /\ rowid'[k] < rowid'[j] /\ content'[k] = content'[j]
          /\ \A i \in WatchJobs(p)' : ~(rowid'[k] < rowid'[i] /\ rowid'[i] < rowid'[j])
    BY <1>2, <1>11 DEF Repeated, Repeats
  <2>2. k \in WatchJobs(p)
    BY <1>2, <1>3, <2>1
  <2>3. \A i \in WatchJobs(p) : rowid[i] <= rowid[k]
    BY <1>3, <1>4, <2>1, <2>2
  <2>4. Latest(k)
    BY <1>4, <2>2, <2>3 DEF Latest
  <2>5. input[k] = p /\ content[k] = previous[p] /\ p # NoPath
    BY <1>2, <1>4, <2>1, <2>2, WatchAssumption
  <2>6. k \in Unrecorded
    BY <1>1, <1>4, <2>2, <2>4, <2>5 DEF Unrecorded
  <2>7. QED
    BY <1>8, <2>5, <2>6
<1>u. /\ Unrecorded \in SUBSET Jobs /\ Unrecorded' \in SUBSET Jobs
      /\ Repeated \in SUBSET Jobs /\ Repeated' \in SUBSET Jobs
  BY DEF Unrecorded, Repeated
<1>12. /\ Cardinality(Repeated') \in Nat /\ Cardinality(Repeated) \in Nat
       /\ Cardinality(Repeated') <= Cardinality(Repeated) + 1
       /\ j \notin Repeated' => Cardinality(Repeated') <= Cardinality(Repeated)
  <2>1. j \notin Repeated' => Repeated' \subseteq Repeated
    BY <1>10
  <2>2. QED
    BY <1>u, <1>10, <2>1, OneMore
<1>13. /\ Cardinality(Unrecorded') \in Nat /\ Cardinality(Unrecorded) \in Nat
       /\ Cardinality(Unrecorded') <= Cardinality(Unrecorded)
       /\ j \in Repeated' => Cardinality(Unrecorded') + 1 <= Cardinality(Unrecorded)
  <2>1. /\ Cardinality(Unrecorded') \in Nat /\ Cardinality(Unrecorded) \in Nat
        /\ Cardinality(Unrecorded') <= Cardinality(Unrecorded)
    BY <1>u, <1>8, OneMore
  <2>2. ASSUME j \in Repeated' PROVE Cardinality(Unrecorded') + 1 <= Cardinality(Unrecorded)
    <3>1. PICK k \in Unrecorded : k \notin Unrecorded'
      BY <1>11, <2>2
    <3>2. Unrecorded' \subseteq Unrecorded \cup {k}
      BY <1>8
    <3>3. QED
      BY <1>u, <3>1, <3>2, OneMore
  <2>3. QED
    BY <2>1, <2>2
<1>14. Cardinality(Repeated') + Cardinality(Unrecorded') <= lapses'
  BY <1>1, <1>12, <1>13 DEF LapseTypes
<1>15. QED
  BY <1>2, <1>7, <1>14

(* Every step keeps the count. *)
LEMMA LapseStep ==
  ASSUME LapseTypes, LapseInv, [Next]_vars
  PROVE  LapseInv'
BY LapseSteps, OldRowsLapse, WatchRowLapse, OtherRowLapse

(* At first there is no job and no lapse. *)
LEMMA LapseInitially ==
  ASSUME Init
  PROVE  LapseTypes /\ LapseInv
<1> USE DEF Init, StoreInit, WatchInit
<1>1. LapseTypes
  BY DEF LapseTypes, Status, Terminal
<1>2. Repeated = {} /\ Unrecorded = {}
  BY DEF Repeated, Unrecorded, Latest
<1>3. RowsInv /\ \A j \in Jobs : ~ Latest(j)
  BY DEF RowsInv, Latest
<1>4. Cardinality(Repeated) = 0 /\ Cardinality(Unrecorded) = 0
  BY <1>2, FS_EmptySet
<1>5. QED
  BY <1>1, <1>3, <1>4 DEF LapseInv

(* The count bounds the repeated deliveries. *)
LEMMA LapseMeansOnce ==
  ASSUME LapseTypes, LapseInv
  PROVE  OneJobPerDelivery
<1>1. Repeated \in SUBSET Jobs /\ Unrecorded \in SUBSET Jobs
  BY DEF Repeated, Unrecorded
<1>2. Cardinality(Repeated) \in Nat /\ Cardinality(Unrecorded) \in Nat
  BY <1>1, OneMore
<1>3. Cardinality(Repeated) <= lapses
  BY <1>2 DEF LapseInv, LapseTypes
<1>4. QED
  BY <1>3 DEF OneJobPerDelivery, Repeated

-----------------------------------------------------------------------------
(* The theorems                                                            *)

(* The initial states. *)
LEMMA Initially == Init => IInv
<1> SUFFICES ASSUME Init PROVE IInv
  OBVIOUS
<1> USE DEF Init, StoreInit, MediaInit, WatchInit, RoutingInit
<1>1. StoreType
  BY DEF StoreType, Status, Terminal
<1>2. MediaType
  BY MediaAssumption DEF MediaType, Writers
<1>3. WatchType
  BY WatchAssumption DEF WatchType
<1>4. RoutingType
  BY RoutingAssumption DEF RoutingType, Points, Verdicts
<1>5. mishaps \in 0..MaxMishaps /\ crossed \subseteq Contents \cup {Torn}
  BY DeliveryAssumption
<1>6. FreshInv /\ CopyInv /\ JobInv
  BY DEF FreshInv, Known, CopyInv, JobInv, Supplied
<1>7. TargetInv /\ ToldInv /\ TriesInv /\ NothingLost
  BY RoutingAssumption DEF TargetInv, InRouting, InNotify, ToldInv, TriesInv, NothingLost
<1>8. LapseInv
  BY LapseInitially
<1>9. QED
  BY <1>1, <1>2, <1>3, <1>4, <1>5, <1>6, <1>7, <1>8 DEF IInv, DeliveryTypeOK, DeliveryInv

(* Mishaps are counted. *)
LEMMA MishapsCounted == ASSUME IInv, Next PROVE mishaps' \in 0..MaxMishaps
<1>1. mishaps' = mishaps \/ (mishaps < MaxMishaps /\ mishaps' = mishaps + 1)
  BY DEF Next, Serve, Crash, WorkerStep, Claim, Judge, Fail, Stop, RoutingStep, NoteRefused,
       ListStep, ConsiderStep, RecordStep, PruneStep, WatcherFails, Cancel, Submit, Supply,
       Redrop, Vanish, ShareStep, PresetStep, Same, Mishap, Counted
<1>2. mishaps \in 0..MaxMishaps
  BY DEF IInv, DeliveryTypeOK
<1>3. QED
  BY <1>1, <1>2, DeliveryAssumption

(* What crosses a move is a content on disk. *)
LEMMA CrossedTypes ==
  ASSUME NoChaining, IInv, Next, MediaType'
  PROVE  crossed' \subseteq Contents \cup {Torn}
<1> USE DEF IInv, DeliveryTypeOK, DeliveryInv
<1>1. CASE UNCHANGED crossed
  BY <1>1
<1>2. CASE Crossing
  <2>1. at = "unlink" => disk'[Source] \in Contents \cup {Torn, Absent}
    BY Held DEF MediaType
  <2>2. QED
    BY <1>2, <2>1 DEF Crossing
<1>3. CASE NotUnlinked
  BY <1>3 DEF NotUnlinked
<1>4. QED
  BY <1>1, <1>2, <1>3
     DEF Next, Serve, Crash, WorkerStep, Claim, Judge, Fail, Stop, RoutingStep, NoteRefused,
       ListStep, ConsiderStep, RecordStep, PruneStep, WatcherFails, Cancel, Submit, Supply,
       Redrop, Vanish, ShareStep, PresetStep, Same, Mishap

(* All parts together are inductive. *)
LEMMA Inductive == ASSUME NoChaining, IInv, [Next]_vars PROVE IInv'
<1>0. LapseInv'
  <2>1. LapseTypes
    BY DEF IInv, DeliveryTypeOK, StoreType, WatchType, LapseTypes
  <2>2. QED
    BY <2>1, LapseStep DEF IInv, DeliveryInv
<1>1. CASE Next
  BY <1>0, <1>1, StoreStep, MediaStep, WatchStepTypes, RoutingStepTypes, MishapsCounted,
     CrossedTypes, FreshStep,
     CopyStep, JobStep, TargetStep, ToldStep, TriesStep, LostStep
  DEF IInv, DeliveryTypeOK, DeliveryInv
<1>2. CASE UNCHANGED vars
  <2>1. UNCHANGED <<rowVars, fileVars, watchVars, routeVars, resultVars, mishaps, crossed>>
    BY <1>2 DEF vars
  <2>2. StoreType' /\ MediaType' /\ WatchType' /\ RoutingType'
    BY <2>1, QuietStore, QuietMedia, QuietWatch, QuietRouting DEF IInv, DeliveryTypeOK
  <2>3. FreshInv' /\ CopyInv' /\ NothingLost'
    BY <2>1 DEF IInv, DeliveryInv, FreshInv, Known, CopyInv, NothingLost, fileVars, watchVars, memVars
  <2>4. JobInv'
    BY <2>1 DEF IInv, DeliveryInv, JobInv, fileVars, watchVars, memVars, dbVars
  <2>5. TargetInv'
    BY <2>1 DEF IInv, DeliveryInv, TargetInv, UnlinkSafe, fileVars, watchVars, dbVars, rowVars, routeVars,
         resultVars, IsRouted, HasFolder, Action, Source, Free
  <2>6. ToldInv' /\ TriesInv'
    BY <2>1 DEF IInv, DeliveryInv, ToldInv, TriesInv, rowVars, routeVars, resultVars
  <2>7. QED
    BY <1>0, <2>1, <2>2, <2>3, <2>4, <2>5, <2>6 DEF IInv, DeliveryTypeOK, DeliveryInv
<1>3. QED
  BY <1>1, <1>2

(* Whatever suppliers, operators, outages and crashes do, and in whatever  *)
(* order, the path stays within its types and its inductive invariant, so  *)
(* long as no folder routes into a watched one.                            *)
THEOREM DeliveryIsInductive == NoChaining => (Spec => [](DeliveryTypeOK /\ DeliveryInv))
<1> SUFFICES ASSUME NoChaining PROVE Spec => [](DeliveryTypeOK /\ DeliveryInv)
  OBVIOUS
<1>1. Init => IInv
  BY Initially
<1>2. IInv /\ [Next]_vars => IInv'
  BY Inductive
<1>3. IInv => DeliveryTypeOK /\ DeliveryInv
  BY DEF IInv
<1>4. QED
  BY <1>1, <1>2, <1>3, PTL DEF Spec

(* No job for a file that is still being copied in (watch.py:128-139).     *)
THEOREM HalfCopiesAreNoJobs == NoChaining => (Spec => []NeverWhileCopying)
<1> SUFFICES ASSUME NoChaining PROVE Spec => []NeverWhileCopying
  OBVIOUS
<1>1. DeliveryTypeOK /\ DeliveryInv => NeverWhileCopying
  BY DEF DeliveryInv, JobInv, NeverWhileCopying
<1>2. Spec => [](DeliveryTypeOK /\ DeliveryInv)
  BY DeliveryIsInductive
<1>3. QED
  BY <1>1, <1>2, PTL

(* Routing never costs a delivered file (routing.py:85-103).               *)
THEOREM RoutingLosesNothing == NoChaining => (Spec => []NothingLost)
<1> SUFFICES ASSUME NoChaining PROVE Spec => []NothingLost
  OBVIOUS
<1>1. DeliveryTypeOK /\ DeliveryInv => NothingLost
  BY DEF DeliveryInv
<1>2. Spec => [](DeliveryTypeOK /\ DeliveryInv)
  BY DeliveryIsInductive
<1>3. QED
  BY <1>1, <1>2, PTL

(* A note "delivered" on the job page is true, for good                    *)
(* (routing.py:140-169, 224-244).                                          *)
THEOREM DeliveredNotesAreTrue == NoChaining => (Spec => []DeliveredNoteTrue)
<1> SUFFICES ASSUME NoChaining PROVE Spec => []DeliveredNoteTrue
  OBVIOUS
<1>1. DeliveryTypeOK /\ DeliveryInv => DeliveredNoteTrue
  BY DEF DeliveryInv, ToldInv, DeliveredNoteTrue
<1>2. Spec => [](DeliveryTypeOK /\ DeliveryInv)
  BY DeliveryIsInductive
<1>3. QED
  BY <1>1, <1>2, PTL
(* However often the process ends, SQLite fails or an entry is pruned, the *)
(* watcher repeats a job at most once per record it lost, for any number   *)
(* of folders, files and jobs and however verdicts are routed              *)
(* (watch.py:255-288).                                                     *)
THEOREM EachDeliveryOnce == Spec => []OneJobPerDelivery
<1>1. Init => LapseTypes /\ LapseInv
  BY LapseInitially
<1>2. LapseTypes /\ LapseInv /\ [Next]_vars => LapseTypes' /\ LapseInv'
  BY LapseTypesStep, LapseStep
<1>3. LapseTypes /\ LapseInv => OneJobPerDelivery
  BY LapseMeansOnce
<1>4. QED
  BY <1>1, <1>2, <1>3, PTL DEF Spec
=============================================================================
