----------------------------- MODULE Submission -----------------------------
(***************************************************************************)
(* How work enters the queue: the ladder of server/validation.py and the   *)
(* two handlers of server/app.py that call it (form and API), the watcher's *)
(* own enqueue, and the jobs page, over the table of JobStore.  A handler   *)
(* is a thread of the pool: one step is one look at the file system or one *)
(* transaction, and anything may happen in between.                        *)
(* A path is the name of a file; several names (a link, a mapped drive)    *)
(* may lead to one file, whose resolved path is the file itself.           *)
(***************************************************************************)
EXTENDS JobStore

CONSTANTS
  Handlers,      \* threads that serve POST /submit and POST /api/v1/qc/jobs
  Names,         \* paths that people type or a watch folder lists
  Files,         \* files, as Path.resolve names them
  Target,        \* the file a name leads to
  InRoots,       \* the files that lie under a resolved media root
  Sizes,         \* sizes in bytes
  MaxFileSize,   \* config.jobs.max_file_size_gb
  Presets,       \* preset@version strings
  Listed,        \* those the catalog holds
  Forms,         \* the requests that are sent
  WatchNames,    \* paths that watch folders list
  Policy,        \* config.jobs.duplicate_inflight_policy
  MaxDeeds,      \* bound: page loads, cancels, file changes and restarts
  Absent         \* no file at that path, or no regular one

Requests == [name : Names, preset : Presets, named : BOOLEAN, override : BOOLEAN]

ASSUME SubmissionAssumption ==
  /\ Forms \subseteq Requests
  /\ Sizes \subseteq Nat /\ MaxFileSize \in Nat /\ MaxDeeds \in Nat
  /\ Target \in [Names -> Files]
  /\ InRoots \subseteq Files /\ Listed \subseteq Presets /\ WatchNames \subseteq Names
  /\ Policy \in {"warn_confirm", "reject", "allow"}
  /\ Absent \notin Sizes

VARIABLES
  disk,   \* the size of each file, or Absent
  req,    \* the request each handler serves
  sub,    \* the columns of a row that come from its submission
  page,   \* the jobs page: rows to render, those listed as pending, last place shown
  deeds

subVars == <<disk, req, sub, page, deeds>>
vars == <<rowVars, subVars>>

Nowhere == 0        \* a size or a rowid that was never read
Idle == [at |-> "idle"]
Submissions == [path : Names \cup Files, size : Nat, preset : Presets, override : BOOLEAN,
                origin : {"form", "watch"}, file : Files, checked : Nat]

(* duplicate_key: the resolved path, the size and the preset version.      *)
Key(s) == <<s.path, s.size, s.preset>>

InFlight == Pending \cup Running

(* _resolve_in_roots: the submission carries the resolved path, not the     *)
(* one that was typed.                                                     *)
Resolved(n) == Target[n]

(* queue_position: one-based among the PENDING rows.                       *)
QueuePosition(j) ==
  IF status[j] = "PENDING" THEN Cardinality({k \in Pending : rowid[k] <= rowid[j]}) ELSE Nowhere

Init ==
  /\ StoreInit
  /\ disk = [f \in Files |-> CHOOSE size \in Sizes : TRUE]
  /\ req = [h \in Handlers |-> Idle]
  /\ sub = [j \in Jobs |-> Absent]
  /\ page = [todo |-> {}, pending |-> {}, above |-> Nowhere]
  /\ deeds = 0

Step(h, r) == req' = [req EXCEPT ![h] = r] /\ UNCHANGED <<disk, page, deeds>>
Leave(h) == Step(h, Idle) /\ UNCHANGED <<rowVars, sub>>

(* A handler takes a request from the pool. *)
Receive(h, r) ==
  /\ req[h] = Idle
  /\ Step(h, [at |-> "resolve", form |-> r])
  /\ UNCHANGED <<rowVars, sub>>

(* E1 and E2: no regular file there, or one outside every media root.  The *)
(* other fields are still checked, for the list of errors of the answer.   *)
RefusePath(h) ==
  /\ req[h].at = "resolve"
  /\ LET f == Target[req[h].form.name] IN disk[f] = Absent \/ f \notin InRoots
  /\ Leave(h)

FindFile(h) ==
  /\ req[h].at = "resolve"
  /\ LET f == Target[req[h].form.name] IN disk[f] # Absent /\ f \in InRoots
  /\ Step(h, [req[h] EXCEPT !.at = "stat"])
  /\ UNCHANGED <<rowVars, sub>>

(* resolved.stat() raises when the file was taken away after is_file: 500. *)
StatFails(h) ==
  /\ req[h].at = "stat"
  /\ disk[Target[req[h].form.name]] = Absent
  /\ Leave(h)

Acceptable(r, size) == r.named /\ size <= MaxFileSize /\ r.preset \in Listed

(* E1 requested_by, E3 size, E4 preset: 422, or the form with its errors.  *)
RefuseForm(h) ==
  /\ req[h].at = "stat"
  /\ disk[Target[req[h].form.name]] # Absent
  /\ ~ Acceptable(req[h].form, disk[Target[req[h].form.name]])
  /\ Leave(h)

(* The policy allows duplicates, or the operator insists: no check at all,  *)
(* under the policy `reject` as well.                                      *)
NeedsCheck(r) == Policy # "allow" /\ ~ r.override

(* The JobSubmission is built from what stat returned. *)
TakeSize(h) ==
  /\ req[h].at = "stat"
  /\ LET r == req[h].form
         f == Target[r.name]
     IN /\ disk[f] # Absent
        /\ Acceptable(r, disk[f])
        /\ Step(h, [at |-> IF NeedsCheck(r) THEN "check" ELSE "enqueue",
                    job |-> [path |-> Resolved(r.name), size |-> disk[f], preset |-> r.preset,
                             override |-> r.override, origin |-> "form", file |-> f,
                             checked |-> Nowhere]])
  /\ UNCHANGED <<rowVars, sub>>

FaultyDuplicates(s) == {j \in Pending : Key(sub[j]) = Key(s)}
(* find_inflight_duplicate, of which the oldest is named in the answer.    *)
Duplicates(s) == {j \in InFlight : Key(sub[j]) = Key(s)}

(* E5: an error under `reject`, else the page that asks for confirmation.  *)
RefuseDuplicate(h) ==
  /\ req[h].at = "check"
  /\ Duplicates(req[h].job) # {}
  /\ Leave(h)

(* Of the check, `checked` remembers which rows there were: those numbered *)
(* up to it.                                                               *)
NoDuplicate(h) ==
  /\ req[h].at = "check"
  /\ Duplicates(req[h].job) = {}
  /\ Step(h, [req[h] EXCEPT !.at = "enqueue", !.job.checked = lastRowid])
  /\ UNCHANGED <<rowVars, sub>>

(* store.enqueue; the answer that follows only reads. *)
EnqueueForm(h, j) ==
  /\ req[h].at = "enqueue"
  /\ Enqueue(j)
  /\ sub' = [sub EXCEPT ![j] = req[h].job]
  /\ Step(h, Idle)

(* E6: 429 or the error page. *)
QueueIsFull(h) ==
  /\ req[h].at = "enqueue"
  /\ ~ QueueHasRoom
  /\ Leave(h)

(* A transaction raises (locked for 30 s, disk full): 500. *)
StoreRaises(h) == req[h].at \in {"check", "enqueue"} /\ Leave(h)

Handle(h) ==
  \/ \E r \in Forms : Receive(h, r)
  \/ RefusePath(h) \/ FindFile(h) \/ StatFails(h) \/ RefuseForm(h) \/ TakeSize(h)
  \/ RefuseDuplicate(h) \/ NoDuplicate(h)
  \/ \E j \in Jobs : EnqueueForm(h, j)
  \/ QueueIsFull(h) \/ StoreRaises(h)

(* The watcher enqueues what it lists, under the name it lists, without a  *)
(* check; a path it knows carries the override (watch.py:259-278).          *)
WatcherEnqueues(j, n, p) ==
  /\ disk[Target[n]] # Absent
  /\ Enqueue(j)
  /\ sub' = [sub EXCEPT ![j] =
       [path |-> n, size |-> disk[Target[n]], preset |-> p,
        override |-> \E k \in Jobs : status[k] # "ABSENT" /\ sub[k].origin = "watch" /\ sub[k].path = n,
        origin |-> "watch", file |-> Target[n], checked |-> Nowhere]]
  /\ UNCHANGED <<disk, req, page, deeds>>

(* What people, suppliers and the host do is bounded. *)
Deed == deeds < MaxDeeds /\ deeds' = deeds + 1

(* jobs_page and GET /qc/jobs: list_jobs takes the rows in one transaction; *)
(* then each row is rendered with its place in the queue, newest row first, *)
(* a transaction each.                                                     *)
ListJobs ==
  /\ Deed
  /\ page.todo = {}
  /\ page' = [todo |-> {j \in Jobs : status[j] # "ABSENT"}, pending |-> Pending, above |-> Nowhere]
  /\ UNCHANGED <<rowVars, disk, req, sub>>

FaultyNextRow(j) == j \in page.todo /\ \A k \in page.todo : rowid[j] <= rowid[k]
NextRow(j) == j \in page.todo /\ \A k \in page.todo : rowid[k] <= rowid[j]
RenderRow(j) ==
  /\ NextRow(j)
  /\ page' = [todo |-> page.todo \ {j}, pending |-> page.pending \ {j},
              above |-> IF QueuePosition(j) = Nowhere THEN page.above ELSE QueuePosition(j)]
  /\ UNCHANGED <<rowVars, disk, req, sub, deeds>>

(* The worker claims and settles (one outcome stands for all); operators   *)
(* cancel; suppliers write.                                                *)
WorkerClaims(j) == ClaimNext(j) /\ UNCHANGED subVars
WorkerSettles(j) == status[j] = "RUNNING" /\ MarkCompleted(j) /\ UNCHANGED subVars

Cancel(j) == Deed /\ RequestCancel(j) /\ UNCHANGED <<disk, req, sub, page>>

FileChanges(f, size) ==
  /\ Deed
  /\ disk' = [disk EXCEPT ![f] = size]
  /\ UNCHANGED <<rowVars, req, sub, page>>

(* The process ends and is started again: no handler survives, the rows do. *)
Restart ==
  /\ Deed
  /\ RecoverOrphans
  /\ req' = [h \in Handlers |-> Idle]
  /\ page' = [todo |-> {}, pending |-> {}, above |-> Nowhere]
  /\ UNCHANGED <<disk, sub>>

Next ==
  \/ \E h \in Handlers : Handle(h)
  \/ \E j \in Jobs, n \in WatchNames, p \in Listed : WatcherEnqueues(j, n, p)
  \/ ListJobs
  \/ \E j \in Jobs : RenderRow(j) \/ WorkerClaims(j) \/ WorkerSettles(j) \/ Cancel(j)
  \/ \E f \in InRoots, size \in Sizes \cup {Absent} : FileChanges(f, size)
  \/ Restart

Spec == Init /\ [][Next]_vars

-----------------------------------------------------------------------------
SubmissionType ==
  /\ StoreType /\ deeds \in Nat
  /\ disk \in [Files -> Sizes \cup {Absent}]
  /\ req \in [Handlers -> {Idle} \cup [at : {"resolve", "stat"}, form : Requests]
                        \cup [at : {"check", "enqueue"}, job : Submissions]]
  /\ sub \in [Jobs -> Submissions \cup {Absent}]
  /\ \A j \in Jobs : status[j] # "ABSENT" => sub[j] \in Submissions
  /\ page.todo \subseteq Jobs /\ page.pending \subseteq Jobs

(* Two rows for the same work: the same file at the same size, measured    *)
(* against the same preset.  A watch folder that lists a file under        *)
(* another name than its resolved path is not recognised.                  *)
SameWork(j, k) ==
  /\ sub[j].file = sub[k].file /\ sub[j].size = sub[k].size /\ sub[j].preset = sub[k].preset
  /\ sub[j].origin = "watch" => sub[j].path = sub[j].file

(* A submission that insisted on nothing runs beside an earlier row for    *)
(* the same work only if that row came in after the duplicate check        *)
(* (validation.py:128) had looked: the gap between two transactions is the *)
(* only way past the check, whatever name the file was given.              *)
DuplicatesOnlyByRace ==
  \A j, k \in InFlight :
    /\ rowid[j] < rowid[k] /\ SameWork(j, k)
    /\ sub[k].origin = "form" /\ ~ sub[k].override /\ Policy # "allow"
    => rowid[j] > sub[k].checked

(* A row with a place in the queue on the jobs page is listed as pending,  *)
(* and places fall from each row to the older ones below it, so that no two *)
(* rows claim one place, although each place is read in a transaction of   *)
(* its own while the queue moves (app.py:87-95, 478).                      *)
PlacesFall ==
  [][\A j \in Jobs : RenderRow(j) /\ QueuePosition(j) # Nowhere =>
       j \in page.pending /\ (page.above # Nowhere => QueuePosition(j) < page.above)]_vars

(* Rows are numbered in the order they came in. *)
RowInv == \A j \in Jobs : status[j] # "ABSENT" => rowid[j] \in 1..lastRowid

(* Requests past the ladder, and rows that came from one, name a file      *)
(* under a media root by its resolved path, within the limit and with a    *)
(* preset of the catalog (validation.py:90-113).                           *)
Admissible(s) ==
  /\ s.origin = "form"
  /\ s.file \in InRoots /\ s.path = s.file /\ s.size <= MaxFileSize /\ s.preset \in Listed
LadderInv ==
  /\ \A j \in Jobs : status[j] # "ABSENT" /\ sub[j].origin = "form" => Admissible(sub[j])
  /\ \A h \in Handlers :
       /\ req[h].at = "stat" => Target[req[h].form.name] \in InRoots
       /\ req[h].at \in {"check", "enqueue"} =>
            Admissible(req[h].job) /\ req[h].job.checked <= lastRowid

(* A submission past its check found no row for the same work among those  *)
(* numbered up to `checked` that are in flight; none of them comes back.   *)
PastCheckInv ==
  \A h \in Handlers :
    req[h].at = "enqueue" /\ NeedsCheck(req[h].job) =>
      \A j \in InFlight : rowid[j] <= req[h].job.checked => Key(sub[j]) # Key(req[h].job)

(* What every step of the service keeps true of requests and rows: the     *)
(* induction behind DuplicatesOnlyByRace (validation.py:90-146).           *)
SubmissionInv == SubmissionType /\ RowInv /\ LadderInv /\ PastCheckInv

(* Behind PlacesFall: no two rows have one number, a row still to be       *)
(* rendered is listed as pending if it is, and its place, which can only   *)
(* fall while it waits, lies below the last one shown.                     *)
PageInv ==
  /\ \A j, k \in Jobs :
       status[j] # "ABSENT" /\ status[k] # "ABSENT" /\ rowid[j] = rowid[k] => j = k
  /\ \A j \in page.todo :
       status[j] # "ABSENT" /\ (status[j] = "PENDING" => j \in page.pending)
  /\ page.above \in Nat
  /\ page.above # Nowhere => \A j \in page.todo : QueuePosition(j) < page.above
=============================================================================
