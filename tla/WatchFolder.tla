---------------------------- MODULE WatchFolder ----------------------------
(***************************************************************************)
(* The watcher thread (server/watch.py) and its watch_seen table: polling  *)
(* scans that turn stable files into jobs, once per delivery.  One step is *)
(* one directory listing or one file considered up to its enqueue; the     *)
(* enqueue and the watch_seen record are two transactions, and so two      *)
(* steps.  Delivery composes it with the worker and the process.           *)
(***************************************************************************)
EXTENDS JobStore, MediaFiles

CONSTANTS
  Watched,     \* the directories of the configured watch folders
  MaxDefer,    \* MAX_DEFER_ATTEMPTS
  NoPath

ASSUME WatchAssumption ==
  /\ Watched \subseteq Dirs
  /\ MaxDefer \in Nat \ {0}
  /\ NoPath \notin Paths

VARIABLES
  \* the database
  seen,       \* watch_seen: the content last enqueued for each path
  input,      \* jobs.input_path
  content,    \* jobs.input_size_bytes: the content the submitter saw
  origin,     \* jobs.requested_by: "watch", "manual", "none" for no row
  \* the watcher, lost with the process
  watcher,    \* its thread: "down", "up" or "dead"
  todo,       \* stable files of the listing at hand, not yet considered
  recording,  \* the path just enqueued and not yet in watch_seen
  previous,   \* FolderState.previous: the last listing
  deferrals,  \* FolderState.deferrals
  parked,     \* FolderState.parked
  error,      \* FolderState.error of each folder
  \* the environment
  shareUp,    \* the folder can be listed
  preset,     \* the preset file: "ok", "invalid", "unreadable"
  \* history
  lapses      \* watch_seen entries that a crash or the pruning cost

dbVars == <<seen, input, content, origin>>
memVars == <<todo, recording, previous, deferrals, parked, error>>
envVars == <<shareUp, preset>>
watchVars == <<dbVars, watcher, memVars, envVars, lapses>>

WatchType ==
  /\ seen \in [Paths -> {Absent, Torn} \cup Contents]
  /\ input \in [Jobs -> Paths \cup {NoPath}]
  /\ content \in [Jobs -> {Absent, Torn} \cup Contents]
  /\ origin \in [Jobs -> {"none", "watch", "manual"}]
  /\ watcher \in {"down", "up", "dead"}
  /\ todo \subseteq Paths
  /\ recording \in Paths \cup {NoPath}
  /\ previous \in [Paths -> {Absent, Torn} \cup Contents]
  /\ deferrals \in [Paths -> 0..(MaxDefer - 1)]
  /\ parked \subseteq Paths \X ({Torn} \cup Contents)
  /\ error \in [Watched -> {"none", "unreachable", "preset"}]
  /\ shareUp \in [Watched -> BOOLEAN]
  /\ preset \in [Watched -> {"ok", "invalid", "unreadable"}]
  /\ lapses \in Nat

(* What a new Watcher object knows: nothing. *)
Forgotten ==
  /\ todo' = {} /\ recording' = NoPath
  /\ previous' = [p \in Paths |-> Absent]
  /\ deferrals' = [p \in Paths |-> 0]
  /\ parked' = {}
  /\ error' = [d \in Watched |-> "none"]

WatchInit ==
  /\ seen = [p \in Paths |-> Absent]
  /\ input = [j \in Jobs |-> NoPath]
  /\ content = [j \in Jobs |-> Absent]
  /\ origin = [j \in Jobs |-> "none"]
  /\ watcher = "down"
  /\ todo = {} /\ recording = NoPath
  /\ previous = [p \in Paths |-> Absent]
  /\ deferrals = [p \in Paths |-> 0]
  /\ parked = {}
  /\ error = [d \in Watched |-> "none"]
  /\ shareUp = [d \in Watched |-> TRUE]
  /\ preset = [d \in Watched |-> "ok"]
  /\ lapses = 0

-----------------------------------------------------------------------------
(* Listing a folder *)

Between == watcher = "up" /\ todo = {} /\ recording = NoPath

FaultyNoCompare(p) == disk[p] \in settled
FaultyNoSettle(p) == previous[p] = disk[p]
(* is_stable: unchanged since the previous listing and settled.  The mtime  *)
(* is part of the content, its age is settled.                             *)
Stable(p) == previous[p] = disk[p] /\ disk[p] \in settled

FaultyRecovered(d) == UNCHANGED error
(* A listing that succeeds ends the outage, and only the outage. *)
Recovered(d) == error' = [error EXCEPT ![d] = IF @ = "unreachable" THEN "none" ELSE @]

(* scan_folder, and with it the tests of _consider that read memory only:  *)
(* parked files and files not stable are passed over.  previous is read by *)
(* no other step, so the new listing replaces it here.  A copy that shows  *)
(* an old mtime is assumed to grow between two listings.                   *)
List(d) ==
  /\ Between
  /\ shareUp[d]
  /\ \A p \in Paths : Dir(p) = d => writer[p] # "listed"
  /\ todo' = {p \in Paths : /\ Dir(p) = d /\ ~Free(p)
                            /\ <<p, disk[p]>> \notin parked
                            /\ Stable(p)}
  /\ previous' = [p \in Paths |-> IF Dir(p) = d THEN disk[p] ELSE previous[p]]
  /\ writer' = [p \in Paths |-> IF Dir(p) = d /\ writer[p] = "keep"
                                THEN "listed" ELSE writer[p]]
  /\ Recovered(d)
  /\ UNCHANGED <<rowVars, disk, settled, whole, written, owed>>
  /\ UNCHANGED <<dbVars, watcher, recording, deferrals, parked, envVars, lapses>>

(* The listing raises OSError: the folder shows an error, and the previous *)
(* listing is kept.                                                        *)
Unreachable(d) ==
  /\ Between
  /\ error' = [error EXCEPT ![d] = "unreachable"]
  /\ UNCHANGED <<rowVars, dbVars, watcher, todo, recording, previous, deferrals,
                 parked, envVars, lapses>>

ListFails(d) == ~shareUp[d] /\ Unreachable(d) /\ UNCHANGED fileVars

(* A file taken away between is_file and stat costs the whole folder its   *)
(* scan.                                                                   *)
VanishesWhileListed(d, p) ==
  /\ shareUp[d] /\ Dir(p) = d
  /\ TakeAway(p)
  /\ Unreachable(d)

-----------------------------------------------------------------------------
(* Considering one stable file *)

Considers(p) == watcher = "up" /\ recording = NoPath /\ p \in todo
Unseen(p) == Considers(p) /\ seen[p] # previous[p]
Pass(p) == todo' = todo \ {p}
FaultyPresetLoads(d) == preset[d] = "ok" /\ error[d] = "none" /\ UNCHANGED error
(* A preset that loads again ends its own error. *)
PresetLoads(d) ==
  /\ preset[d] = "ok"
  /\ error' = [error EXCEPT ![d] = IF @ = "preset" THEN "none" ELSE @]

AlreadySeen(p) ==
  /\ Considers(p)
  /\ seen[p] = previous[p]
  /\ Pass(p)
  /\ UNCHANGED <<rowVars, fileVars, dbVars, watcher, recording, previous,
                 deferrals, parked, error, envVars, lapses>>

(* _load_preset catches PresetError: the folder is in error, the file is   *)
(* looked at again by the next scan.                                       *)
PresetRejected(p) ==
  /\ Unseen(p)
  /\ preset[Dir(p)] = "invalid"
  /\ error' = [error EXCEPT ![Dir(p)] = "preset"]
  /\ Pass(p)
  /\ UNCHANGED <<rowVars, fileVars, dbVars, watcher, recording, previous,
                 deferrals, parked, envVars, lapses>>

(* _defer: the attempts are counted by path, parking is by content. *)
Defer(p) ==
  /\ LET attempts == deferrals[p] + 1 IN
       IF attempts >= MaxDefer
         THEN /\ parked' = parked \cup {<<p, previous[p]>>}
              /\ deferrals' = [deferrals EXCEPT ![p] = 0]
         ELSE /\ deferrals' = [deferrals EXCEPT ![p] = attempts]
              /\ UNCHANGED parked
  /\ Pass(p)
  /\ UNCHANGED <<rowVars, fileVars, dbVars, watcher, recording, previous,
                 envVars, lapses>>

(* The preset file cannot be read (OSError): the file is deferred. *)
PresetUnreadable(p) ==
  /\ Unseen(p)
  /\ preset[Dir(p)] = "unreadable"
  /\ Defer(p)
  /\ UNCHANGED error

QueueIsFull(p) ==
  /\ Unseen(p)
  /\ PresetLoads(Dir(p))
  /\ ~QueueHasRoom
  /\ Defer(p)

(* The row a submission inserts. *)
NewRow(j, p, c, who) ==
  /\ Enqueue(j)
  /\ input' = [input EXCEPT ![j] = p]
  /\ content' = [content EXCEPT ![j] = c]
  /\ origin' = [origin EXCEPT ![j] = who]

EnqueueFile(p, j) ==
  /\ Unseen(p)
  /\ PresetLoads(Dir(p))
  /\ NewRow(j, p, previous[p], "watch")
  /\ recording' = p
  /\ Pass(p)
  /\ UNCHANGED <<fileVars, seen, watcher, previous, deferrals, parked, envVars, lapses>>

FaultyRecordSeen ==
  /\ recording # NoPath /\ watcher = "up"
  /\ recording' = NoPath
  /\ deferrals' = [deferrals EXCEPT ![recording] = 0]
  /\ UNCHANGED <<rowVars, fileVars, dbVars, watcher, todo, previous, parked,
                 error, envVars, lapses>>
(* watch_seen_record, then deferrals.pop *)
RecordSeen ==
  /\ recording # NoPath /\ watcher = "up"
  /\ seen' = [seen EXCEPT ![recording] = previous[recording]]
  /\ deferrals' = [deferrals EXCEPT ![recording] = 0]
  /\ recording' = NoPath
  /\ UNCHANGED <<rowVars, fileVars, input, content, origin, watcher, todo, previous,
                 parked, error, envVars, lapses>>

(* watch_seen_prune at the end of scan_once: an entry may have reached its *)
(* 90 days while the file still lies there.                                *)
Prune(p) ==
  /\ Between
  /\ seen[p] # Absent
  /\ seen' = [seen EXCEPT ![p] = Absent]
  /\ lapses' = lapses + 1
  /\ UNCHANGED <<rowVars, fileVars, input, content, origin, watcher, memVars, envVars>>

(* sqlite3.Error is no OSError: raised in watch_seen_get, enqueue,         *)
(* watch_seen_record or watch_seen_prune it leaves scan_once and _loop,    *)
(* and the thread ends.                                                    *)
WatcherDies ==
  /\ watcher = "up"
  /\ watcher' = "dead"
  /\ lapses' = IF recording = NoPath THEN lapses ELSE lapses + 1
  /\ todo' = {} /\ recording' = NoPath
  /\ UNCHANGED <<rowVars, fileVars, dbVars, previous, deferrals, parked, error, envVars>>

-----------------------------------------------------------------------------
(* The process and the environment *)

WatcherStarts == watcher' = "up" /\ UNCHANGED <<dbVars, memVars, envVars, lapses>>

WatcherStops ==
  /\ watcher' = "down"
  /\ Forgotten
  /\ lapses' = IF recording = NoPath THEN lapses ELSE lapses + 1
  /\ UNCHANGED <<dbVars, envVars>>

ShareChanges(d) ==
  /\ shareUp' = [shareUp EXCEPT ![d] = ~@]
  /\ UNCHANGED <<rowVars, fileVars, dbVars, watcher, memVars, preset, lapses>>

PresetChanges(d, state) ==
  /\ preset[d] # state
  /\ preset' = [preset EXCEPT ![d] = state]
  /\ UNCHANGED <<rowVars, fileVars, dbVars, watcher, memVars, shareUp, lapses>>
=============================================================================
