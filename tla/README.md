# A TLA+ verification of the Deepdub Automated Media-QC Engine

`deepdub-qc` measures media files against a client preset and writes a
canonical `report.json` with a verdict.  Around that pipeline stands a service
(`deepdub-qc serve`): a SQLite job queue, one worker thread, watch folders,
verdict routing, webhooks and a preset editor.  This directory holds the TLA+
modules of the parts whose behaviour depends on order, failure and state, the
TLC instances that check them, and the TLAPS proofs of what holds for every
instance.

## 1. The system

Paths are below `src/src/deepdub_qc/`.

| Component | State it keeps | Operations | Interacts with |
|---|---|---|---|
| Job store (`server/store.py`) | the `jobs` table (status, order, cancel flag, verdict, reason, progress), the `watch_seen` table | `enqueue`, `find_inflight_duplicate`, `claim_next`, `record_progress`, `mark_completed/failed/cancelled`, `recover_orphans`, `request_cancel`, `watch_seen_*` | every other part of the service; one transaction each |
| Worker (`server/worker.py`) | its thread, the job it holds, the per-job monitor thread with `timed_out` and `job_done` | `start`, `stop`, `_loop`, `_execute`, `_classify_pipeline_error`, `_render_pdf`, `_run_post_completion` | store, pipeline, tool registry, post-completion |
| Tool registry (`utils/subprocess.py`) | `_ACTIVE`: thread -> process | `run_tool`, `terminate_active_tool` | detectors (worker thread), monitor thread |
| Pipeline (`orchestration/pipeline.py`) | progress counter, measurements, failed parameters | `run_analysis`, `_run_detectors` | detectors, rule engine, evidence, reports; calls back into the worker |
| Watcher (`server/watch.py`) | per folder: previous snapshots, deferrals, parked set, error | `scan_once`, `_scan_folder`, `_consider`, `_load_preset`, `_defer` | file system, store, preset catalog |
| Post-completion (`server/routing.py`) | none; files and notes | `handle`: `_route`, `_notify`, `deliver_webhook` | file system, receiver, store (`record_progress`) |
| Submission (`server/validation.py`, `server/app.py`) | none | `validate_submission`, `submit_job`, `cancel` | store, catalog |
| Preset editor and governance (`server/editor.py`, `presets/governance.py`, `server/catalog.py`) | preset files, `approved.lock.json`, the in-memory catalog | `apply_edits`, `build_catalog`, `write_lock`, `verify_approved` | file system |
| Session tracker (`server/sessions.py`) | client -> last seen | `touch`, `_expire`, `active_count` | `session_cap` middleware |
| Service process (`cli.py`, `server/config.py`) | the loaded configuration | `serve`: load, check, open, build, start worker, bind folders, listen, stop | everything above |
| Rule engine (`rules/`) | none: pure | `evaluate`, `evaluate_operator`, `aggregate_status`, `build_summary` | pipeline |
| Detectors (`detectors/`) | raw outputs on disk | `run` per detector | run_tool, ffmpeg, ffprobe |
| Evidence (`evidence/thumbnails.py`) | images in the job's directory | `generate_thumbnails` | ffmpeg, findings |
| Batch (`orchestration/batch.py`) | `batch_summary.json`, one directory per file | `run_batch` | pipeline, exit codes |
| Comparison (`comparison/`) | none | `compare_reports`, `parse_vidchecker_report` | `report.json`, a Vidchecker report |
| Reports, parameter catalogue, scripts | none that outlives a call | offline | |

What is hard here:

* four kinds of threads (request handlers, worker, monitor, watcher) share one
  database; each store method is atomic, sequences of two are not;
* the monitor thread acts on whatever tool the worker thread runs at that
  moment, the worker learns of it only from a failing tool and the next
  progress callback, and detectors swallow the failing tool;
* the process may die between any two transactions; a restart fails what ran;
* the steps after the terminal write (routing, webhook) are not repeated;
* files change under the watcher, the worker and the routing step;
* what one tool prints is read for another question: logs without an end, a
  stream without a duration, an output directory with an earlier run's files;
* exit codes, summaries and thumbnails must tell of this run and not of the
  one before it.

## 2. Properties and hazards

`PROJECT.json` lists every hazard at its line with the properties that would
catch it.  In words:

* **Queue**: first come first served, bounded, one job at a time, nothing lost.
* **Outcome**: one outcome per job, never changed, with the columns agreeing.
* **Stop requests**: a request or a deadline that found a test for it ahead ends
  the job, unless a crash or an exception nobody foresaw does it first; a killed
  tool never ends in a verdict; nobody is stopped for another's sake.
* **Delivery**: a file is enqueued once per content, a stable one eventually.
* **Policy**: an approved preset does not change, a save loses no other save.
* **Verdict**: PASS and FAIL are true of the file, but for the kinds of rule that
  section 6 names; a failed detector is an ERROR of every rule over it.
* **Submission**: only the gap between check and enqueue admits a duplicate, and
  only what lies under a root, by its resolved path, is admitted.
* **Measuring**: what is measured is true of the file when the file declares its
  lengths; an image shows its finding; a summary tells of its own batch.
* **Service**: every start costs at most one job; folders and routes stay under
  the roots; the session cap holds and nobody is refused without it.

## 3. The modules

`Faulty...` operators are not part of a specification: each one is the mutated
form of the definition that follows it (a dropped guard, a missing reset, a
wrong order), kept beside it so that every property can be shown to notice a
plausible mistake in the code.  `PROJECT.json` pairs them with the properties.

### 3.1 Jobs and the worker

| Module | What it models |
|---|---|
| `JobStore` | the `jobs` table of `server/store.py`: one action per transaction (`Enqueue`, `ClaimNext`, `RecordProgress`, `Finish`, `RecoverOrphans`, `RequestCancel`) |
| `Worker` | `server/worker.py`, the stages of `orchestration/pipeline.py`, the tool registry of `utils/subprocess.py`, start and crash of the process |
| `WorkerInv` | the inductive invariant, by parts |
| `JobLifecycle` | the abstract promise: a bounded FIFO queue, one running job, one final outcome per job |
| `WorkerRefinement` | `Worker` with one server implements `JobLifecycle` |
| `WorkerProofs` | the theorems, the refinement among them |

A step is one transaction, one access to the registry of running tools, or one
stage of the pipeline.  The worker thread of server `s` is at `wpc[s]`:

```
idle -> begin -> announce -> announced -> work -> ... -> write -> join -> post -> idle
                    ^            |                          ^
                    +-- next stage --- a failing stage: classify
```

`announce`/`report` are the two places where the pipeline calls the progress
callback (`Callback`: record, then the two tests of `worker.py:161-164`), so a
stop request has a check ahead of it exactly as often as in the code.  A tool
is spawned and registered in two steps (`SpawnTool`, `RegisterTool`), since the
monitor can kill only what is registered.  The monitor of job `j` is `mon[j]`:
it sees the deadline (`MonitorDeadline`) or the flag (`MonitorCancel`), kills
the registered tool of the worker *thread* in a step of its own
(`MonitorKill`), and is joined with a timeout (`JoinMonitor`).  With the fault
`slow_monitor` the join gives up, and `MonitorKill` meets the tool of another
job.  `store` lets SQLite raise at any access, `pdf` lets the renderer raise
what `_render_pdf` does not catch.  Detectors turn a failing or killed tool
into failed parameters and go on (`StageDone`), which is why
`KilledNeverGraded` needs the next callback.  `lateCancel` and `lateDeadline`
record whether a stop still found a test ahead of it (`PastLastCheck`,
`PastLastTest`), which is what `StopRequestHonoured` promises for.

### 3.2 Unattended delivery

| Module | What it models |
|---|---|
| `MediaFiles` | the files suppliers, watcher and routing share; a content is what `FileSnapshot` compares |
| `WatchFolder` | `server/watch.py` and the `watch_seen` table |
| `Routing` | `server/routing.py` |
| `Delivery` | the composition with the worker, the process, suppliers, operators, share and presets |
| `DeliveryProps` | the properties and the inductive invariant |
| `DeliveryProofs` | the theorems |

`Delivery` extends `Routing`, which extends `WatchFolder`, which extends
`JobStore`: the modules share the variables of the table.  The run of a job is
reduced to what the path depends on: the input is read once (`Judge`) and the
job settles.  `List(d)` is one `os.scandir` pass, with the comparison against
the previous snapshots; the stable files then wait in `todo` and are considered
one by one (`AlreadySeen`, `PresetRejected`, `PresetUnreadable`, `QueueIsFull`,
`EnqueueFile`), and the `watch_seen` row is written in a step of its own
(`RecordSeen`).  Routing looks for a free name, places the file (a rename, or a
copy and an unlink), and writes its note in separate steps, with suppliers,
crashes and a vanishing file between them; the webhook is posted up to
`MaxTries` times and its answer may be lost.  Between the copy and the unlink
`shutil.move` holds nothing open: suppliers may deliver at the source again,
`crossed` records what, and the unlink deletes it; the unlink may also be
refused, which leaves the file in both places.

Assumptions: a file that is open for writing is not routed, and nobody
replaces a file while the service copies it (Windows shares lock it); people
and the next system take files out of the verdict folders and put none there; a copy
touches the mtime within `settle_seconds` or grows between two scans; a copy
the supplier abandoned counts as finished; the contents of a directory are
listed in one step.

### 3.3 The verdict

| Module | What it models |
|---|---|
| `RuleEngine` | `rules/engine.py` and what it needs of `rules/evaluators.py`, `models/rule.py`, `utils/language.py`: pure operators from rules and measurements to findings and a verdict |
| `Verdict` | `pipeline._run_detectors`, the evaluation and the summary over a file that detectors measure or fail to measure |
| `VerdictProofs` | the theorems |

The file is a set of facts; each detector measures its share of them or fails
as a whole.  `Truth` is what a healthy run would measure of what a rule is about,
`Meant` the streams of the file it is about and `Unmeasured` those of them that
have no value even then.  A rule carries the values its operator can compare (`types`) and
those it accepts (`accepts`), which stands for all sixteen operators.  The
parameters are representatives, one of each kind the detectors produce: a value
per stream that may be missing, one that may be null, an event that exists or
not, and the language tag.  The measurements are a set, so equal events of one
stream count once.  A preset is arbitrary: its rules are chosen as they are
evaluated.

### 3.4 The preset library

| Module | What it models |
|---|---|
| `PresetLibrary` | `server/editor.py`, the two handlers of `server/app.py` that save, `server/catalog.py`, `presets/governance.py` |
| `PresetLibraryProofs` | the theorems |

One preset and its minor versions.  A save is
`FindPreset, ReadBase, ApplyEdits, CheckName, WriteTemp, Validate, Publish,
Rebuild, Refresh`, one step per file operation or access to the shared catalog.
The page handler is a coroutine: after `await request.form()` it has the event
loop to itself (`MayRun`), so pages meet only before `ReadBase`.  The API
handler is a plain function in the thread pool and meets anybody at any step;
`Calls` are the API handlers and `Pages` the page handlers.  Whether a body
loads depends on the parameter catalogue of the release (`broken`), which
`Upgrade` changes.  `presets lock` is a process of its own, in two steps; people
do not change files while it runs.  They may rewrite, approve, demote and remove
any file otherwise, under its old name and version.

### 3.5 Submission

| Module | What it models |
|---|---|
| `Submission` | `server/validation.py`, the two handlers of `server/app.py` that submit, `find_inflight_duplicate`, `list_jobs`, `queue_position`, the jobs page |
| `MCSubmission` | one file with two names, one of them watched |
| `SubmissionProofs` | the theorems |

`Submission` extends `JobStore`.  A handler is a thread of the pool and goes
through `Receive, FindFile, TakeSize, NoDuplicate, EnqueueForm` or out by
`RefusePath`, `RefuseForm`, `RefuseDuplicate`, `QueueIsFull`; each is one look
at the disk or one transaction, so the file may change after its size was
taken and another row may come in after the check.  `sub[j].checked` remembers
how far the check could see.  The worker and the watcher act on the same table
with `WorkerClaims`, `WorkerSettles` and `WatcherEnqueues`, which stand for
`Worker` and `WatchFolder` here: the path of a watched file is the one that was
listed, that of a form the resolved one.  The jobs page is `ListJobs` and then
one `NextRow` per job, since each place is a query of its own.

### 3.6 What surrounds the queue

| Module | What it models |
|---|---|
| `Startup` | `serve` of `cli.py` from start to stop, `server/config.py`, over `JobStore` |
| `Sessions` | `server/sessions.py`, the middleware that calls it, browsers |
| `SignalDetectors` | `detectors/audio/*`, `detectors/video/incidents.py`, and the loop `pipeline._run_detectors` around them |
| `Metadata` | `detectors/metadata/ffprobe.py`, `utils/language.py`, `pipeline._load_media_summary` |
| `Evidence` | `evidence/thumbnails.py` |
| `Batch` | `orchestration/batch.py`, `analyze`, `batch`, `presets validate`, `exit_codes.py` |
| `Comparison` | `comparison/engine.py`, `comparison/vidchecker.py`, `compare` |
| `MCPeriphery` | each of them on its own from one initial state |
| `ServiceProofs` | the theorems on `Startup` and `Sessions` |
| `AnalysisProofs` | those on `Evidence`, `Batch`, `Comparison` and `Metadata` |
| `SignalProofs` | those on `SignalDetectors` |

These share no state, so an interleaving of two would be a shuffle: the
variable `part` picks one at the start and the others keep still.

`SignalDetectors` separates three things: the content of a file, tick by tick;
what ffmpeg's filters print about it (external, derived from the content by
their documented meaning: an event has a start and, unless the file ends
first, an end); and what the detectors make of that log (`Paired`, `AtHead`,
`AtTail`, `LowRuns`, `PeakFacts`, `DuplicatePairs`, `Spans`).  `SoundIsReal` and
`PictureIsReal` compare the last with the first.  A detector delivers all its
facts or fails as a whole (`ToolFails`); an answer that does not parse, and a
measurement that the model of `models/measurement.py` refuses, end the analysis
(`raised`).  Levels are three, a tick stands for the unit in which the minimum
lengths are given, and the numbers that filters print are the levels.

`Metadata` keeps apart what ffprobe declares (a value, nothing, or a text where
a number belongs) and what the streams really last (`truth`), which only the
properties see.  What ffprobe prints is whole, has no format block, is no mapping
or no JSON (`Printed`); it lies in the raw file before it is parsed, and the media
summary is made of that file afterwards, whatever the detector thought of it.
`Evidence`, `Batch` and `Metadata` run several times in one directory, as
`analyze` and `batch` may: what an earlier run left is there.  Reports and the
batch summary are written in place, so an exception or a kill may leave them cut
off (`"torn"`): `OpenSummary` empties the file, `WriteSummary` fills it.

`Startup` has one action per step of `serve`; the configuration is a record
with a field for each way it can be wrong, directories are paths with `Real`
(what they resolve to) and `Below` (what is lexically under them), and what
others do to shares, presets and tools (`Change`) falls between any two steps.
`Sessions` counts time in ticks; answers may be lost on the way (`LoseAnswer`),
so that a session may exist that no browser knows of.

## 4. The runs

`CHECK_DEADLOCK FALSE` stands in every configuration: a service with no job, no
file and no request left really stops, and all identifiers are used up at the
end of every behaviour.

| Run | Instance | Question |
|---|---|---|
| `worker` | 2 jobs, queue of 1, 2 detectors, 2 tools per stage, 1 crash, faults `pdf`, `store` | is one server safe under every interleaving? |
| `worker_two` | 2 servers, `slow_monitor` | may two processes, or a monitor that outlives its job, cross jobs? |
| `worker_live` | 2 jobs, queue of 2, fair | does it implement the abstract queue, and does everything settle? |
| `delivery` | 2 contents, 2 jobs, 1 collision, any 2 of ten mishaps, verdict PASS | is a delivery one job, and is nothing lost or falsely told? |
| `delivery_live` | 2 folders, 2 mishaps, fair | is a file that is left alone answered, and does an outage heal? |
| `submission` | 3 jobs, queue of 2, 2 handlers, 3 forms, 2 sizes, any 2 deeds | is the gap between check and enqueue the only way past the check? |
| `periphery` | 3 starts of 17 configurations; 3 browsers, cap of 2; 5-tick sounds and pictures; 3 runs per directory | is what surrounds the queue within its limits, and what is measured, shown and summed up true? |
| `verdict` | 3 streams, 48 files, 27 rules, presets of 2 rules | which verdicts are true of the file? |
| `presets` | 2 pages, 3 versions, 3 contents, any 2 deeds of people | is a save kept, offered and last, and the lock sound? |
| `pdf_escape`, `misrouted`, `preset_race` | small | the disagreements of section 6 |

Why the bounds are enough to see the interesting cases: two jobs let one wait,
run or be killed behind another; two detectors give a check between two tools
and a check before the fixed stages; two tools let a kill meet the second one;
one crash falls at every step, and the recovery of what it left is part of the
same behaviour; two mishaps combine any two of the ten kinds (a crash after a
broken preset, a lost note and a cancel, ...); two contents give a re-delivery,
one collision a second name; one verdict is enough there, since both kinds of
route are taken with it and a job without a verdict is an outcome of its own
(`delivery_live` has two); the queue of one in `worker` refuses the second job,
that of two in `worker_live` never does; two rules are enough for one to hide another, since
the verdict is a maximum; three versions let a save meet a gap left by hand.
In `submission` two handlers and three rows let one form insist while another
was checked and a third row is claimed, cancelled or settled in between; two
names for one file separate the spelling from the file.  In `periphery` five
ticks hold a silence at the head, one inside and one at the tail, with minimum
lengths of two, and every such sound is enumerated, with its duration declared
right, too short and not at all; three runs in one directory let a third one
meet what the second left of the first; three starts let a refusal fall between
two crashes; three browsers compete for two places.

Bounds, all in guards and constants: `MaxTools`, `MaxCrashes`, `MaxMishaps`,
`MaxDefer` (the code's `MAX_DEFER_ATTEMPTS`, smaller), `MaxTries` (the code's
retry list, shorter), `MaxCollisions`, `MaxNesting`, `MaxContents`, `MaxRules`,
`MaxVersion`, `MaxBodies`, `MaxHands`, `MaxDeeds`, `MaxStarts`, `MaxChanges`,
`MaxAnalyses`, `MaxGrabRuns`, `MaxCommands`, `Ttl` (in ticks).

Fairness (`Worker!FairSpec`, `DeliveryProps!LiveSpec`): threads are scheduled,
so a worker or monitor thread that can step does (weak fairness); every tool
ends, since `run_tool` gives each a timeout; the watcher's loop scans every
folder in every pass, so listing a folder that is listable again and again
happens although the folder comes and goes in between (strong fairness per
folder); the service manager starts a stopped process again.  Nothing is
assumed of suppliers, operators, receivers, shares or presets, and a mishap is
never fair.

## 5. What is proved

TLAPS proves these for every value of the constants that meets the named
assumptions; TLC checks the same formulas on the instances above.  Every
invariant and action property of the passing runs has a theorem, and so has
the refinement; the liveness properties have none.

* **Worker** (`IndInv` = `TypeOK` and the parts of `WorkerInv`).  `TypeOK` and
  `StoppedForItsOwnReason` hold for any number of servers and any faults: what a
  thread's position says of its job (`ThreadInv`) is inductive by itself.  So
  does `NoDoubleClaim`: a thread that holds a job is the one that claimed it
  (`OwnerInv`), and only a pending row, which nobody owns, can be claimed.
  `OneRunnerPerServer`, `OutcomeConsistent`, `OutcomeIsFinal` need one server:
  `OneServerInv` says who holds a running row.  `CancelledHasNoReport` needs
  that a written report lies behind every check (`ReportInv`);
  `StopRequestHonoured` that a stop in time still has a test ahead of it, or a
  classification that will find it (`CancelInv`); `KilledNeverGraded` that a monitor outlives its job by the join
  only (`MonitorInv`), so it, and `IndInv` as a whole, is proved without
  `slow_monitor`: with it the kill meets another job.
* **The queue** (`RefinementCorrect`).  With one server `Worker` implements
  `JobLifecycle`: the rows that wait, in the order of their row ids, are the
  abstract queue.  Each action is shown to be an abstract step or a stutter; the
  work is in the queue, where a new row has the highest id (`Enqueue` appends),
  the claimed one the lowest (`ClaimNext` takes the head) and a cancelled one
  any (`Withdraw` takes its place out).  The limit is a length there and the
  cardinality of a set here, and the lemmas relate the two.
* **Delivery** (`DeliveryInv`).  No job for a half-copied file, no file lost, no
  false note, under the hypothesis `NoChaining`: no folder routes into a watched
  one.  Without it the watcher may list what the service is still copying, and
  the argument that a listed file was finished by its supplier fails.  The
  parts say that a content in the making is nowhere else and not settled
  (`CopyInv`), that what waits in `todo` is whole (`JobInv`), that the place
  routing found stays its own (`TargetInv`), and that what lies at a source
  about to be unlinked is elsewhere too or came after the copy (`UnlinkSafe`).
  No file lost excepts the last kind (`crossed`), which the code may delete.  `EachDeliveryOnce` needs no
  such hypothesis: a second job for one delivery takes a `watch_seen` row that
  was not written or was lost, and each lapse of that kind pays for one
  (`LapseInv`: the repeated deliveries and the rows that are missing together
  are no more than the lapses).  It counts in finite sets, hence the finiteness
  of `Jobs` in `QueueAssumption`.
* **Verdict**.  The detectors' part is inductive by itself (`DetectorInv`: what
  was measured is true, and what is missing has failed); from it the lemma
  `SeesTheTruth` equates what a rule selects with what it is about, unless its
  parameter or the languages failed; when the languages failed, a rule by
  language selects nothing (`BlindSelectsNothing`).  `PassIsTrue` and
  `FailIsTrue` name the rules that pass or fail without an answer (section 6).  `FindingInv` carries each finding to the
  end.  The offender is a least element of a set of stream indexes, which
  exists by `LeastOfNaturals`.
* **Preset library** (`LibraryInv`), as long as no two saves overlap
  (`Spec /\ []OneSaveInv`).  Those of pages never do, since one at a time has the
  event loop (`PagesTakeTurns`); those of the API may, and what follows is then
  violated, `SavedStays` to begin with (`preset_race`).  Without an overlap the
  name of a save stays free and the temporary file its own (`DraftInv`); contents are new when they are written
  (`BodyInv`); what is saved is in the catalog or about to be (`OfferInv`); the
  lock about to be written is of the files there are (`LockInv`).  The
  properties of the run follow (`SavesAreKept` among them), and four that only
  the theorems state: names and versions agree (`TypeOK`), the editor writes no
  file in place (`NeverInPlace`), what does not load never appears
  (`OnlyLoadable`), and the lock keeps the entry of a file that stopped loading
  (`ClaimsKept`).  Types are proved without the condition.
* **Submission** (`SubmissionInv`), for any number of handlers, names, files,
  sizes and deeds.  Rows are numbered in the order they came (`RowInv`); what is
  past the ladder is admissible and has looked at no more rows than there are
  (`LadderInv`); and a handler past its check has no key in common with the rows
  its check could see and that are still in flight (`PastCheckInv`).  The last
  one is the heart: rows leave the set of those in flight and never return to
  it, and rows that came later have higher numbers, so a later duplicate can
  only be one that the check could not see (`OnlyByRace`).  `PlacesInOrder` is
  about the jobs page, whose places come from queries of their own: no waiting
  row gets a new one ahead of it, so its place only falls, and the row above was
  listed with more rows behind it (`PageInv`).
* **Service start**.  `LossPerStart` counts: an interrupted job was running, at
  most one job runs, and only a start can turn a running job into an interrupted
  one.  The cardinalities are handled by lemmas on adding and removing one job
  of a finite set.  `WithinRoots` carries what the two checks established along
  the phases of `serve`; the configuration is immutable after `Load`, so what
  others change on disk does not matter to it.
* **Sessions**.  The table agrees with what was admitted (`TableInv`), so its
  size, which the code bounds, bounds the sessions that are active; a refusal
  means that the table is full of them after the expiry.
* **Evidence, batch, comparison, metadata** (`AnalysisProofs`).  A file
  of the directory shows the time in its name, from this run or an earlier one,
  and a record cites the file as it is now (`EvidenceInv`); what a batch has done
  and what it has still to do are the files it chose, each once, and the reports
  it cites are whole and of this run (`BatchInv`); each stage of
  `compare` has answered all the alerts of its kind (`CompareInv`); a probe
  leaves exactly what the file's declaration gives, or nothing, and a raw file
  that this analysis wrote is of this file (`MetaInv`, `RawInv`).
* **Detectors** (`SignalProofs`).  `SignalInv` says that the measurements are all
  the facts of the detectors that are behind and did not fail.  What remains is
  that those facts are the events of the stream, for sounds and pictures of any
  length.  The log lists the events by their start.  Maximal stretches do not
  touch, so their order is that of their numbers (`StretchesApart`, `InOrderIsAll`),
  and pairing starts with ends gives each event back, the last one with the
  declared duration (`PairedIs`); the head is then the event that starts at 0,
  the tail the one that ends with the stream (`SilencesMatch`).  Windows of ticks
  cover the stream without overlap, so runs of low windows are runs of low ticks
  (`WindowsCover`, `LowRunsMatch`).  Ordinals of streams count those before them
  (`StreamsInOrder`); the pairs of channels are all there are (`PairsAreAll`).
  `SignalAssumption` asks that a stream holds something and that durations are
  whole ticks or not given; nothing is assumed of the minimum lengths.

None of these proofs is an induction over data: where one is needed, a least or
greatest element of a bounded set of numbers is taken instead, which exists
since < is well-founded on them (`LeastNumber`, `GreatestNumber`,
`LeastOfNaturals`).  The list of a set in order is given by its defining
property for that reason (`Arranged`).

Only model-checked: what needs fairness.  That the worker settles every job and
honours every request (`worker_live`), that the watcher answers a file that is
left alone and an outage heals (`delivery_live`).  `TypeOK`, `OneRunnerPerServer`,
`PostedOnlySettled` and `StageEventsOnlyWhileRunning` of the worker,
`DeliveryTypeOK` and `SubmissionInv` are proved and were model-checked before;
they are not properties of a run of their own, and `SignalInv` is proved only
(TLC found no violation, but takes too long to enumerate its facts at each state
of `periphery`).

## 6. Where code and documents disagree

Each has a run that shows it; `PROJECT.json` quotes the lines.

* `pdf_escape`: an exception of the PDF step that is no `PdfRenderError` ends
  the worker thread; the comment above says the thread never dies silently.
* `misrouted`: routing moves what lies at the path when the job ends; a
  re-delivery that arrived meanwhile gets no job of its own.
* `preset_race`: a save through the API and another save of the same base share
  the temporary file; one is answered 201 and holds the other's content.

Seen while modelling, without a run, by part:

* **Queue and service.**  A second `serve` on one database fails the job the
  first is running before it notices that the port is taken (`store.py:369`,
  docstring "from a previous process").  `docs/server-config-spec.md:10` says
  the server never starts on a bad configuration; a watch folder whose preset
  does not load is noticed after the worker was started (`cli.py:342`), which may
  have claimed a job by then: `OneLossPerStart` bounds the damage.  One browser
  may hold both places of the session cap (a lost answer, or two first requests
  in parallel).
* **Submission.**  The documents call the duplicate key a hash of the input
  (`docs/server-config-spec.md:36`, `docs/server-gui-spec.md:136`); the code's is
  path, size and preset (`store.py:81-89`), so a file replaced by one of the same
  size is a duplicate and a copy under another path is not.  The policy `reject`
  is bypassed by `duplicate_override` (`validation.py:127`), which the form keeps
  as a hidden field once it was asked for (`submit.html.j2:65`).  The watcher
  enqueues paths as listed, not resolved, and does not look at `max_file_size`.
  A file that vanishes before `resolved.stat()` answers 500 instead of a refusal.
  A job that left the queue between two queries is shown with "position None".
* **Stops.**  An exception that is no `DeepdubQCError` is recorded as
  `internal_error` without a look at the stop that was requested
  (`worker.py:183`).
* **Delivery.**  A move across volumes deletes what was delivered at the source
  between the end of its copy and `os.unlink` (`routing.py:100`), unseen and
  without a job; an unlink that is refused leaves the file in the watched folder
  and in the verdict folder, with a note of failure.  Two folders that copy into each other enqueue one delivery
  without end, each time under a new name, since `watch_seen` knows paths
  (`watch.py:255`), although `docs/DECISIONS.md:654` says that cycles limit
  themselves; the configuration rejects a folder that feeds itself only.  A
  queue that stays full for `MAX_DEFER_ATTEMPTS` scans gets a waiting file parked
  although `docs/watch-folders-spec.md:40` says it is deferred, never dropped.
* **Presets and rules.**  The editor's conflict guard does not see a newer
  version that fails to load (`editor.py:180`); a threshold that is no number
  answers 500 and loses the page (`editor.py:153`).  `not_exists` over a selector
  that found no stream passes (`engine.py:186`), with a healthy probe as well as
  when no language was measured; `docs/DATA_MODEL_REVIEW.md:21`
  says SKIPPED, never a silent pass.  `exists` by language fails the file when
  ffprobe failed, so the file is blamed for what nobody measured.  A save of the
  API rebuilds the catalog in the thread pool (`app.py:210`): built before another
  save published its file and put in place after that one's rebuild
  (`app.py:210`, `app.py:581`), it hides that save until the next rebuild, although
  `docs/DECISIONS.md:739` calls it "submittable immediately".
* **Pipeline.**  The input is hashed after it was measured (`pipeline.py:163`): a
  file that is replaced in between is reported under a hash of content that
  nobody measured.  A malformed tool output raises through `_run_detectors`,
  which says "never crashes" (`incidents.py:205`).  When ffprobe fails, the media
  summary is that of an earlier analysis into the same directory; when it prints
  a mapping without a format block, the probe has failed and the summary is made
  of it all the same; JSON that is no mapping raises out of `run_analysis`
  (`pipeline.py:264-273`).  An `OSError` of the evidence step breaks the job although
  `thumbnails.py:7` says that it never does.
* **Detectors.**  A stream without a value is passed over by an `all` rule that
  another stream keeps, where `clipping.py:8-9` says SKIPPED.  An image that an
  earlier run left passes for this run's when ffmpeg writes nothing
  (`thumbnails.py:97`), the file being perhaps another by now.  A declared duration that is shorter than
  the audio makes a tail silence an internal one or one with a negative start,
  which ends the job; one that is longer hides the tail.  `file.readable` is
  never reported as false (`ffprobe.py:252`).  `derive_bit_depth` takes the
  digits of `rgb24` and `nv12` for a depth, 24 and 12, though its docstring says
  per component.  Without a duration per stream the A/V delta is 0 whatever the
  file is (`ffprobe.py:431`).
* **Commands.**  An exception nobody catches exits with 1, which `src/README.md:103`
  gives to WARNING; within a batch it also stops the files after it
  (`batch.py:5`: "A failure on one file never stops the batch"), and leaves an earlier
  `batch_summary.json` in place or, in the middle of the write, one that is cut
  off (`batch.py:89`, `json_renderer.py:28`).  A PDF that cannot be rendered after a
  `report.json` with PASS makes the item an ERROR.  `compare` requires "identical file bytes" in its
  help (`cli.py:212`) and in `comparison/__init__.py:4`, and compares the sizes
  only (`comparison/engine.py:125-140`).  It falls back to
  another stream's loudness (`engine.py:154`), takes the span of the largest
  overlap first even if a better fitting one exists, and ends with 0 when
  nothing was comparable.

## 7. What is not modelled

The rendering of reports (layout; when `report.json` appears and how the PDF
step fails is in `Worker`), the parameter catalogue, the mock result and the
import and export scripts (data, developer tools run offline), logging, digests
and ids (no state; a digest is the content it stands for), pages that read one
row or file, the hash that the pipeline takes of its input, and the numbers
themselves: loudness range, luma levels, percentages and tolerances are
represented by a few levels.  ffmpeg, ffprobe, SQLite, the browser and the share
are external and modelled by what the code relies on.  Evaluators are one
predicate per rule (3.3).  `PROJECT.json` lists each component with its status
and reason.

## 8. What could follow

1. `Evaluators`: the sixteen operators over values and types, and that each one
   is an instance of `types`/`accepts` of `RuleEngine`, which closes the gap
   between `Verdict` and the code.
2. The content of the file in the pipeline: the hash after the measurement
   (`pipeline.py:163`) against a re-delivery while a job runs.
3. Partially measured streams: `SignalDetectors` composed with `Verdict`, so
   that the facts a rule sees are those the detectors make of a sound.
4. Proofs: what of the preset library still holds when saves overlap; what
   survives of `IndInv` with `slow_monitor`.
