------------------------------ MODULE Startup ------------------------------
(***************************************************************************)
(* `deepdub-qc serve` from its command line to its end (cli.py), with the  *)
(* configuration it accepts (server/config.py), over the job table: load,  *)
(* check, open the store, build the application, start the worker, bind    *)
(* the watch folders, listen, stop.  Any number of starts, good and bad,   *)
(* while directories and presets come and go.                              *)
(* A directory is a path; several paths may lead to one directory (a link, *)
(* a mapped drive): Real names the path it resolves to.                    *)
(***************************************************************************)
EXTENDS JobStore, Sequences

CONSTANTS
  Paths,      \* paths of directories
  Real,       \* Path.resolve
  Below,      \* the paths that are lexically below each path, itself included
  Presets,    \* preset@version strings
  Configs,    \* the server.yaml files with their environment
  Unset,      \* a key that is not given
  MaxStarts,  \* bound: starts of the process
  MaxChanges  \* bound: what others do to shares, presets and tools

Routes == [move : Paths \cup {Unset}, copy : Paths \cup {Unset}]
Entries == [name : STRING, path : Paths, preset : Presets, recursive : BOOLEAN,
            routes : SUBSET Routes]
ConfigType == [text : {"mapping", "unreadable", "no_yaml", "no_mapping"},
               override : {"none", "section", "scalar"}, schema : BOOLEAN, fields : BOOLEAN,
               network : BOOLEAN, roots : SUBSET Paths, version : BOOLEAN, folders : Seq(Entries)]

ASSUME StartupAssumption ==
  /\ IsFiniteSet(Jobs)
  /\ Real \in [Paths -> Paths] /\ Below \in [Paths -> SUBSET Paths]
  /\ Configs \subseteq ConfigType
  /\ Unset \notin Paths /\ Unset \notin Configs /\ MaxStarts \in Nat /\ MaxChanges \in Nat

VARIABLES
  phase,    \* how far serve has come
  config,   \* the file it was given last
  up,       \* the directories that can be reached
  offered,  \* the presets that build_catalog can load
  tools,    \* "ok", "missing", or "other_version"
  worker,   \* the worker thread: "off", "idle", "claiming", "busy"
  starts,   \* how often the worker was started
  changes

startupVars == <<phase, config, up, offered, tools, worker, starts, changes>>
serveVars == <<rowVars, startupVars>>

StartupInit ==
  /\ StoreInit
  /\ phase = "down" /\ config = Unset
  /\ up = Paths /\ offered = Presets /\ tools = "ok"
  /\ worker = "off" /\ starts = 0 /\ changes = 0

(* ------------------------------------------------------ load_config ----- *)

(* DEEPDUB_QC_SECTION__KEY may not reach into what is no section. *)
OverridesApply(c) == c.override # "scalar"

ExactlyOneDestination(r) == (r.move = Unset) # (r.copy = Unset)
Destination(r) == IF r.move # Unset THEN r.move ELSE r.copy

(* _destinations_outside_scan_scope compares the paths as they are written. *)
OutsideScanScope(e) ==
  \A r \in e.routes :
    /\ Destination(r) # e.path
    /\ e.recursive => Destination(r) \notin Below[e.path]

NamesUnique(c) == \A i, j \in DOMAIN c.folders : c.folders[i].name = c.folders[j].name => i = j

EntryIsValid(e) == (\A r \in e.routes : ExactlyOneDestination(r)) /\ OutsideScanScope(e)

(* `fields` stands for the keys that no other operator is about: known,     *)
(* present, within their bounds.                                           *)
ConfigLoads(c) ==
  /\ c.text = "mapping" /\ OverridesApply(c) /\ c.schema /\ c.fields
  /\ \A i \in DOMAIN c.folders : EntryIsValid(c.folders[i])
  /\ NamesUnique(c) /\ ~ c.network

(* ------------------------------------------------- validate_runtime ----- *)

FaultyInsideMediaRoots(p, c) == \E r \in c.roots \cap up : p \in Below[r]
InsideMediaRoots(p, c) == \E r \in c.roots \cap up : Real[p] \in Below[Real[r]]

FolderIsUsable(e, c) ==
  /\ e.path \in up /\ InsideMediaRoots(e.path, c)
  /\ \A r \in e.routes : Destination(r) \in up /\ InsideMediaRoots(Destination(r), c)

RuntimeIsValid(c) ==
  /\ c.roots \cap up # {}
  /\ tools # "missing"
  /\ \A i \in DOMAIN c.folders : FolderIsUsable(c.folders[i], c)
  /\ c.version => tools # "other_version"

(* ------------------------------------------------------------- serve ---- *)

Enter(p) == phase' = p /\ UNCHANGED <<config, up, offered, tools, starts, changes>>

(* Someone starts the service, with one file or another. *)
Launch(c) ==
  /\ phase = "down" /\ starts < MaxStarts
  /\ phase' = "loading" /\ config' = c
  /\ UNCHANGED <<rowVars, up, offered, tools, worker, starts, changes>>

Load ==
  /\ phase = "loading"
  /\ Enter(IF ConfigLoads(config) THEN "checking" ELSE "down")
  /\ UNCHANGED <<rowVars, worker>>

Check ==
  /\ phase = "checking"
  /\ Enter(IF RuntimeIsValid(config) THEN "opening" ELSE "down")
  /\ UNCHANGED <<rowVars, worker>>

(* JobStore creates the tables that are missing, create_app reads the      *)
(* catalog; either may raise, which ends the process as a crash does.      *)
BuildApplication ==
  /\ phase = "opening"
  /\ Enter("built")
  /\ UNCHANGED <<rowVars, worker>>

FaultyStartWorker ==
  /\ phase = "built"
  /\ phase' = "binding" /\ worker' = "idle" /\ starts' = starts + 1
  /\ UNCHANGED <<rowVars, config, up, offered, tools, changes>>
StartWorker ==
  /\ phase = "built"
  /\ RecoverOrphans
  /\ phase' = "binding" /\ worker' = "idle" /\ starts' = starts + 1
  /\ UNCHANGED <<config, up, offered, tools, changes>>

(* Watcher._resolve_folders reads the catalog again, for every folder, also *)
(* one that is not enabled; the worker is at work by now.                   *)
Bound == \A i \in DOMAIN config.folders : config.folders[i].preset \in offered

BindFolders ==
  /\ phase = "binding"
  /\ Enter(IF Bound THEN "listening" ELSE "stopping")
  /\ UNCHANGED <<rowVars, worker>>

(* uvicorn.run: the port is taken, or the service runs until it is told to  *)
(* stop; in both cases watcher and worker are stopped on the way out.      *)
Listen == phase = "listening" /\ Enter("serving") /\ UNCHANGED <<rowVars, worker>>
StopServing == phase \in {"listening", "serving"} /\ Enter("stopping") /\ UNCHANGED <<rowVars, worker>>

(* After at most 10 seconds for each thread the process ends, and daemon   *)
(* threads with it, whatever they are doing; or it ends at any other time.  *)
End ==
  /\ phase # "down"
  /\ phase' = "down" /\ worker' = "off"
  /\ UNCHANGED <<rowVars, config, up, offered, tools, starts, changes>>

(* The loop looks at the stop flag and then claims: one claim may follow    *)
(* the flag.                                                               *)
WorkerPolls == worker = "idle" /\ phase # "stopping" /\ worker' = "claiming"
WorkerClaims(j) == worker = "claiming" /\ ClaimNext(j) /\ worker' = "busy"
WorkerFindsNone == worker = "claiming" /\ Pending = {} /\ worker' = "idle"
WorkerSettles(j) == worker = "busy" /\ status[j] = "RUNNING" /\ MarkCompleted(j) /\ worker' = "idle"

Work ==
  /\ \/ (WorkerPolls \/ WorkerFindsNone) /\ UNCHANGED rowVars
     \/ \E j \in Jobs : WorkerClaims(j) \/ WorkerSettles(j)
  /\ UNCHANGED <<phase, config, up, offered, tools, starts, changes>>

(* Submissions come while the service listens. *)
Submit(j) == phase = "serving" /\ Enqueue(j) /\ UNCHANGED startupVars

(* Shares come and go, presets are saved and broken, tools are replaced.    *)
Change ==
  /\ changes < MaxChanges /\ changes' = changes + 1
  /\ \/ \E p \in Paths : up' = (IF p \in up THEN up \ {p} ELSE up \cup {p}) /\ UNCHANGED <<offered, tools>>
     \/ \E p \in Presets : offered' = (IF p \in offered THEN offered \ {p} ELSE offered \cup {p})
                           /\ UNCHANGED <<up, tools>>
     \/ tools' \in {"ok", "missing", "other_version"} /\ UNCHANGED <<up, offered>>
  /\ UNCHANGED <<rowVars, phase, config, worker, starts>>

StartupNext ==
  \/ \E c \in Configs : Launch(c)
  \/ Load \/ Check \/ BuildApplication \/ StartWorker \/ BindFolders
  \/ Listen \/ StopServing \/ End
  \/ Work \/ Change
  \/ \E j \in Jobs : Submit(j)

StartupSpec == StartupInit /\ [][StartupNext]_serveVars

-----------------------------------------------------------------------------
Phases == {"down", "loading", "checking", "opening", "built", "binding", "listening",
           "serving", "stopping"}
StartupType ==
  /\ StoreType /\ starts \in Nat /\ changes \in Nat
  /\ phase \in Phases /\ config \in Configs \cup {Unset} /\ (phase # "down" => config # Unset)
  /\ worker \in {"off", "idle", "claiming", "busy"}
  /\ worker # "off" <=> phase \in {"binding", "listening", "serving", "stopping"}

Interrupted == {j \in Jobs : reason[j] = "interrupted_by_restart"}

RunnerInv ==
  /\ Cardinality(Running) <= 1
  /\ worker = "busy" <=> worker # "off" /\ Running # {}
  /\ \A j \in Interrupted : status[j] = "FAILED"

(* Every start of the worker costs at most one job, the one that was       *)
(* running when the process before it ended, however often the service is  *)
(* started, refused (a watch folder bound to a preset that does not load   *)
(* stops the service after the worker was started, cli.py:342) or killed.  *)
OneLossPerStart ==
  /\ StartupType /\ RunnerInv
  /\ Cardinality(Interrupted) + Cardinality(Running) <= starts
  /\ worker \in {"idle", "claiming"} => Cardinality(Interrupted) < starts

(* What the service watches and where it routes files lies under a media   *)
(* root that the configuration names, by the directory a path leads to and *)
(* not by its spelling, and no folder feeds itself unless through a path    *)
(* that leads elsewhere (config.py:165-178, 284-314).                       *)
Plain(p) == Real[p] = p
ServesWithinRoots ==
  phase \in {"opening", "built", "binding", "listening", "serving"} =>
    \A i \in DOMAIN config.folders :
      LET e == config.folders[i]
          used == {e.path} \cup {Destination(r) : r \in e.routes}
      IN /\ \A p \in used : \E r \in config.roots : Real[p] \in Below[Real[r]]
         /\ \A r \in e.routes :
              Plain(e.path) /\ Plain(Destination(r)) =>
                Real[Destination(r)] \notin (IF e.recursive THEN Below[Real[e.path]] ELSE {Real[e.path]})
=============================================================================
