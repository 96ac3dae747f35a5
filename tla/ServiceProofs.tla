---------------------------- MODULE ServiceProofs ----------------------------
(***************************************************************************)
(* The service process around the queue.  For every configuration, every   *)
(* table and any number of starts: a start of the worker costs at most one *)
(* job, and the service watches and routes within its media roots.  For    *)
(* any number of browsers, ids, ticks and restarts: the cap on sessions is *)
(* never exceeded, and nobody is refused below it.                         *)
(***************************************************************************)
EXTENDS Startup, Sessions, FiniteSetTheorems, TLAPS

USE StartupAssumption

Bookkeeping ==
  /\ Cardinality(Interrupted) + Cardinality(Running) <= starts
  /\ worker \in {"idle", "claiming"} => Cardinality(Interrupted) < starts

(* The sets that are counted are finite and have no row in common.         *)
LEMMA Counted ==
  ASSUME StartupType, RunnerInv
  PROVE  /\ IsFiniteSet(Interrupted) /\ IsFiniteSet(Running)
         /\ Cardinality(Interrupted) \in Nat /\ Cardinality(Running) \in Nat
         /\ Interrupted \cap Running = {}
<1>1. Interrupted \subseteq Jobs /\ Running \subseteq Jobs
  BY DEF Interrupted, Running
<1>2. IsFiniteSet(Interrupted) /\ IsFiniteSet(Running)
  BY <1>1, FS_Subset
<1>3. Interrupted \cap Running = {}
  BY DEF Interrupted, Running, RunnerInv
<1>4. QED
  BY <1>2, <1>3, FS_CardinalityType

(* The running row of a table with at most one is the only one.            *)
LEMMA TheRunningOne ==
  ASSUME StartupType, RunnerInv, NEW j \in Running
  PROVE  Running = {j}
<1>1. IsFiniteSet(Running)
  BY Counted
<1>2. Cardinality(Running \ {j}) = Cardinality(Running) - 1 /\ IsFiniteSet(Running \ {j})
  BY <1>1, FS_RemoveElement
<1>3. Cardinality(Running \ {j}) = 0
  BY <1>1, <1>2, FS_CardinalityType DEF RunnerInv
<1>4. Running \ {j} = {}
  BY <1>2, <1>3, FS_EmptySet
<1>5. QED
  BY <1>4

(* A step that leaves the table alone and either leaves the worker's       *)
(* standing alone or ends the process.                                     *)
LEMMA TableStays ==
  ASSUME OneLossPerStart, UNCHANGED rowVars, starts' = starts, StartupType',
         \/ worker' = worker
         \/ worker' = "off"
         \/ worker \in {"idle", "claiming"} /\ worker' \in {"idle", "claiming"}
  PROVE  OneLossPerStart'
<1> USE DEF OneLossPerStart
<1>1. status' = status /\ reason' = reason
  BY DEF rowVars
<1>2. Running' = Running /\ Interrupted' = Interrupted
  BY <1>1 DEF Running, Interrupted
<1>3. RunnerInv'
  BY <1>1, <1>2 DEF RunnerInv
<1>4. QED
  BY <1>2, <1>3

(* The start of the worker turns the running row into an interrupted one.  *)
LEMMA StartCosts ==
  ASSUME OneLossPerStart, StartWorker, StartupType'
  PROVE  OneLossPerStart'
<1> USE DEF OneLossPerStart
<1>1. Running' = {}
  BY DEF StartWorker, RecoverOrphans, Running, StartupType, StoreType
<1>2. Interrupted' = Interrupted \cup Running
  BY DEF StartWorker, RecoverOrphans, Running, Interrupted, StartupType, StoreType
<1>3. Cardinality(Interrupted') = Cardinality(Interrupted) + Cardinality(Running)
  <2>1. Cardinality(Interrupted') =
          Cardinality(Interrupted) + Cardinality(Running) - Cardinality(Interrupted \cap Running)
    BY <1>2, Counted, FS_Union
  <2>2. Cardinality(Interrupted \cap Running) = 0
    BY Counted, FS_EmptySet
  <2>3. QED
    BY <2>1, <2>2, Counted
<1>4. Cardinality(Running') = 0
  BY <1>1, FS_EmptySet
<1>5. worker' = "idle" /\ starts' = starts + 1 /\ starts \in Nat
  BY DEF StartWorker, StartupType
<1>6. \A j \in Interrupted' : status'[j] = "FAILED"
  BY <1>2 DEF StartWorker, RecoverOrphans, RunnerInv, Interrupted, Running, StartupType, StoreType
<1>7. RunnerInv'
  BY <1>1, <1>4, <1>5, <1>6 DEF RunnerInv
<1>8. QED
  BY <1>3, <1>4, <1>5, <1>7, Counted

(* A row that comes in is neither running nor interrupted.                 *)
LEMMA SubmitCosts ==
  ASSUME OneLossPerStart, NEW j \in Jobs, Submit(j), StartupType'
  PROVE  OneLossPerStart'
<1> USE DEF OneLossPerStart
<1>a. /\ status[j] = "ABSENT" /\ status' = [status EXCEPT ![j] = "PENDING"] /\ reason' = reason
      /\ worker' = worker /\ starts' = starts
  BY DEF Submit, Enqueue, startupVars
<1>1. Running' = Running
  BY <1>a DEF Running, StartupType, StoreType
<1>2. Interrupted' = Interrupted
  BY <1>a DEF Interrupted
<1>3. \A k \in Interrupted : k # j
  BY <1>a DEF RunnerInv
<1>4. RunnerInv'
  BY <1>a, <1>1, <1>2, <1>3 DEF RunnerInv, Interrupted, StartupType, StoreType
<1>5. QED
  BY <1>a, <1>1, <1>2, <1>4

(* A claim uses up the room that the start of the worker has left.         *)
LEMMA ClaimCosts ==
  ASSUME OneLossPerStart, NEW j \in Jobs, WorkerClaims(j), starts' = starts, StartupType'
  PROVE  OneLossPerStart'
<1> USE DEF OneLossPerStart
<1>a. /\ status[j] = "PENDING" /\ status' = [status EXCEPT ![j] = "RUNNING"] /\ reason' = reason
      /\ worker = "claiming" /\ worker' = "busy"
  BY DEF WorkerClaims, ClaimNext, OldestPending, Pending
<1>1. Running = {}
  BY <1>a DEF RunnerInv
<1>2. Running' = {j}
  BY <1>a, <1>1 DEF Running, StartupType, StoreType
<1>3. Interrupted' = Interrupted /\ \A k \in Interrupted : k # j
  BY <1>a DEF Interrupted, RunnerInv
<1>4. Cardinality(Running') = 1
  BY <1>2, FS_Singleton
<1>5. RunnerInv'
  BY <1>a, <1>2, <1>3, <1>4 DEF RunnerInv, Interrupted, StartupType, StoreType
<1>6. Cardinality(Interrupted) < starts /\ starts \in Nat /\ Cardinality(Interrupted) \in Nat
  BY <1>a, Counted DEF StartupType
<1>7. Cardinality(Interrupted') + Cardinality(Running') <= starts'
  BY <1>3, <1>4, <1>6
<1>8. QED
  BY <1>a, <1>5, <1>7

(* A job that settles gives the room back.                                 *)
LEMMA SettleCosts ==
  ASSUME OneLossPerStart, NEW j \in Jobs, WorkerSettles(j), starts' = starts, StartupType'
  PROVE  OneLossPerStart'
<1> USE DEF OneLossPerStart
<1>a. /\ status[j] = "RUNNING" /\ status' = [status EXCEPT ![j] = "COMPLETED"]
      /\ reason' = [reason EXCEPT ![j] = "none"] /\ worker = "busy" /\ worker' = "idle"
  BY DEF WorkerSettles, MarkCompleted, Finish
<1>1. Running = {j}
  <2>1. j \in Running
    BY <1>a DEF Running
  <2>2. QED
    BY <2>1, TheRunningOne
<1>2. Running' = {}
  BY <1>a, <1>1 DEF Running, StartupType, StoreType
<1>3. Interrupted' = Interrupted /\ \A k \in Interrupted : k # j
  BY <1>a DEF Interrupted, RunnerInv, StartupType, StoreType
<1>4. Cardinality(Running) = 1 /\ Cardinality(Running') = 0
  BY <1>1, <1>2, FS_Singleton, FS_EmptySet
<1>5. RunnerInv'
  BY <1>a, <1>2, <1>3, <1>4 DEF RunnerInv, Interrupted, StartupType, StoreType
<1>6. starts \in Nat /\ Cardinality(Interrupted) \in Nat
  BY Counted DEF StartupType
<1>7. Cardinality(Interrupted') < starts'
  BY <1>3, <1>4, <1>6
<1>8. QED
  BY <1>3, <1>4, <1>5, <1>6, <1>7

(* Types, and that the worker lives from the start of the worker to the     *)
(* end of the process, at every step.                                      *)
LEMMA TypeStep ==
  ASSUME StartupType, StartupNext
  PROVE  StartupType'
<1> USE DEF StartupType, StoreType, Phases
<1>1. ASSUME NEW c \in Configs, Launch(c) PROVE StartupType'
  BY <1>1 DEF Launch, rowVars
<1>2. CASE Load
  BY <1>2 DEF Load, Enter, rowVars
<1>3. CASE Check
  BY <1>3 DEF Check, Enter, rowVars
<1>4. CASE BuildApplication
  BY <1>4 DEF BuildApplication, Enter, rowVars
<1>5. CASE StartWorker
  BY <1>5 DEF StartWorker, RecoverOrphans, Status, Terminal, FailureReasons
<1>6. CASE BindFolders
  BY <1>6 DEF BindFolders, Enter, rowVars
<1>7. CASE Listen \/ StopServing
  BY <1>7 DEF Listen, StopServing, Enter, rowVars
<1>8. CASE End
  BY <1>8 DEF End, rowVars
<1>9. CASE Work
  <2>1. CASE (WorkerPolls \/ WorkerFindsNone) /\ UNCHANGED rowVars
    BY <1>9, <2>1 DEF Work, WorkerPolls, WorkerFindsNone, rowVars
  <2>2. ASSUME NEW j \in Jobs, WorkerClaims(j) PROVE StartupType'
    BY <1>9, <2>2 DEF Work, WorkerClaims, ClaimNext, Status
  <2>3. ASSUME NEW j \in Jobs, WorkerSettles(j) PROVE StartupType'
    BY <1>9, <2>3 DEF Work, WorkerSettles, MarkCompleted, Finish, Status, Terminal
  <2>4. QED
    BY <1>9, <2>1, <2>2, <2>3 DEF Work
<1>10. CASE Change
  BY <1>10 DEF Change, rowVars
<1>11. ASSUME NEW j \in Jobs, Submit(j) PROVE StartupType'
  BY <1>11 DEF Submit, Enqueue, startupVars, Status
<1>12. QED
  BY <1>1, <1>2, <1>3, <1>4, <1>5, <1>6, <1>7, <1>8, <1>9, <1>10, <1>11 DEF StartupNext

(* Every step of the service keeps the count.                              *)
LEMMA LossStep ==
  ASSUME OneLossPerStart, StartupNext
  PROVE  OneLossPerStart'
<1>a. StartupType'
  BY TypeStep DEF OneLossPerStart
<1> USE <1>a
<1>1. ASSUME NEW c \in Configs, Launch(c) PROVE OneLossPerStart'
  BY <1>1, TableStays DEF Launch
<1>2. CASE Load \/ Check \/ BuildApplication \/ BindFolders \/ Listen \/ StopServing
  BY <1>2, TableStays DEF Load, Check, BuildApplication, BindFolders, Listen, StopServing, Enter
<1>3. CASE StartWorker
  BY <1>3, StartCosts
<1>4. CASE End
  BY <1>4, TableStays DEF End
<1>5. CASE Work
  <2>1. CASE (WorkerPolls \/ WorkerFindsNone) /\ UNCHANGED rowVars
    BY <1>5, <2>1, TableStays DEF Work, WorkerPolls, WorkerFindsNone
  <2>2. ASSUME NEW j \in Jobs, WorkerClaims(j) PROVE OneLossPerStart'
    BY <1>5, <2>2, ClaimCosts DEF Work
  <2>3. ASSUME NEW j \in Jobs, WorkerSettles(j) PROVE OneLossPerStart'
    BY <1>5, <2>3, SettleCosts DEF Work
  <2>4. QED
    BY <1>5, <2>1, <2>2, <2>3 DEF Work
<1>6. CASE Change
  BY <1>6, TableStays DEF Change
<1>7. ASSUME NEW j \in Jobs, Submit(j) PROVE OneLossPerStart'
  BY <1>7, SubmitCosts
<1>8. QED
  BY <1>1, <1>2, <1>3, <1>4, <1>5, <1>6, <1>7 DEF StartupNext

(* However often the service is started, refused or killed, with whatever   *)
(* configurations, each start of the worker costs at most one job, the one  *)
(* that was running (cli.py:338-369, store.py:358-382).                    *)
THEOREM LossPerStart == StartupSpec => []OneLossPerStart
<1>1. StartupInit => OneLossPerStart
  <2> SUFFICES ASSUME StartupInit PROVE OneLossPerStart
    OBVIOUS
  <2>1. StartupType
    BY DEF StartupInit, StoreInit, StartupType, StoreType, Status, Phases
  <2>2. Running = {} /\ Interrupted = {}
    BY DEF StartupInit, StoreInit, Running, Interrupted
  <2>3. Cardinality(Running) = 0 /\ Cardinality(Interrupted) = 0
    BY <2>2, FS_EmptySet
  <2>4. worker = "off" /\ starts = 0
    BY DEF StartupInit
  <2>5. QED
    BY <2>1, <2>2, <2>3, <2>4 DEF OneLossPerStart, RunnerInv
<1>2. OneLossPerStart /\ [StartupNext]_serveVars => OneLossPerStart'
  <2> SUFFICES ASSUME OneLossPerStart, [StartupNext]_serveVars PROVE OneLossPerStart'
    OBVIOUS
  <2>1. CASE StartupNext
    BY <2>1, LossStep
  <2>2. CASE UNCHANGED serveVars
    <3>1. StartupType'
      BY <2>2 DEF OneLossPerStart, StartupType, StoreType, serveVars, rowVars, startupVars
    <3>2. QED
      BY <2>2, <3>1, TableStays DEF serveVars, startupVars
  <2>3. QED
    BY <2>1, <2>2
<1>3. QED
  BY <1>1, <1>2, PTL DEF StartupSpec

-----------------------------------------------------------------------------
(* Where a configuration lets the service look and write, links resolved.  *)
Within(c) ==
  \A i \in DOMAIN c.folders :
    \A p \in {c.folders[i].path} \cup {Destination(r) : r \in c.folders[i].routes} :
      \E r \in c.roots : Real[p] \in Below[Real[r]]

Loaded == {"checking", "opening", "built", "binding", "listening", "serving"}
Checked == Loaded \ {"checking"}

(* What load_config and validate_runtime have seen stays true of the file   *)
(* that was loaded, whatever becomes of the directories.                   *)
ConfigInv ==
  /\ phase \in Loaded => ConfigLoads(config)
  /\ phase \in Checked => Within(config)

(* The checks of serve establish that folders and routes lie below the roots. *)
LEMMA CheckedIsWithin ==
  ASSUME RuntimeIsValid(config)
  PROVE  Within(config)
BY DEF RuntimeIsValid, FolderIsUsable, InsideMediaRoots, Within

(* The configuration does not change once it was loaded. *)
LEMMA ConfigStep ==
  ASSUME ConfigInv, [StartupNext]_serveVars
  PROVE  ConfigInv'
<1> USE DEF ConfigInv, Loaded, Checked
<1>1. ASSUME NEW c \in Configs, Launch(c) PROVE ConfigInv'
  BY <1>1 DEF Launch
<1>2. CASE Load
  BY <1>2 DEF Load, Enter
<1>3. CASE Check
  BY <1>3, CheckedIsWithin DEF Check, Enter
<1>4. CASE BuildApplication \/ StartWorker \/ BindFolders \/ Listen \/ StopServing
  BY <1>4 DEF BuildApplication, StartWorker, BindFolders, Listen, StopServing, Enter
<1>5. CASE End
  BY <1>5 DEF End
<1>6. CASE Work \/ Change
  BY <1>6 DEF Work, Change
<1>7. ASSUME NEW j \in Jobs, Submit(j) PROVE ConfigInv'
  BY <1>7 DEF Submit, startupVars
<1>8. CASE UNCHANGED serveVars
  BY <1>8 DEF serveVars, startupVars
<1>9. QED
  BY <1>1, <1>2, <1>3, <1>4, <1>5, <1>6, <1>7, <1>8 DEF StartupNext

(* What is watched and where files are routed lies under a media root by    *)
(* the directory a path leads to, for every configuration and whatever      *)
(* links and shares there are; and no folder feeds itself along paths that  *)
(* are no links (config.py:165-178, 284-362).                              *)
THEOREM WithinRoots == StartupSpec => []ServesWithinRoots
<1>1. StartupInit => ConfigInv
  BY DEF StartupInit, ConfigInv, Loaded, Checked
<1>2. ConfigInv /\ [StartupNext]_serveVars => ConfigInv'
  BY ConfigStep
<1>3. ConfigInv => ServesWithinRoots
  <2> SUFFICES ASSUME ConfigInv, phase \in Checked, NEW i \in DOMAIN config.folders
               PROVE  LET e == config.folders[i]
                          used == {e.path} \cup {Destination(r) : r \in e.routes}
                      IN /\ \A p \in used : \E r \in config.roots : Real[p] \in Below[Real[r]]
                         /\ \A r \in e.routes :
                              Plain(e.path) /\ Plain(Destination(r)) =>
                                Real[Destination(r)] \notin
                                  (IF e.recursive THEN Below[Real[e.path]] ELSE {Real[e.path]})
    BY DEF ServesWithinRoots, Checked, Loaded
  <2>1. ConfigLoads(config) /\ Within(config)
    BY DEF ConfigInv, Checked
  <2>2. OutsideScanScope(config.folders[i])
    BY <2>1 DEF ConfigLoads, EntryIsValid
  <2>3. QED
    BY <2>1, <2>2 DEF Within, OutsideScanScope, Plain
<1>4. QED
  BY <1>1, <1>2, <1>3, PTL DEF StartupSpec
-----------------------------------------------------------------------------
(* The session table.  *)

USE SessionsAssumption

(* What touch counts is what was admitted within the idle limit.           *)
LEMMA LiveIsRecent ==
  ASSUME SessionsType, TableInv
  PROVE  Live = Recent
<1>1. Live \subseteq Recent
  BY DEF Live, Expired, Recent, SessionsType, TableInv, Ages
<1>2. Recent \subseteq Live
  BY DEF Live, Expired, Recent, SessionsType, TableInv, Ages
<1>3. QED
  BY <1>1, <1>2

(* The sessions and the active ones can be counted. *)
LEMMA Counts ==
  ASSUME SessionsType, TableInv
  PROVE  /\ IsFiniteSet(Recent) /\ IsFiniteSet(table) /\ Recent \subseteq table
         /\ Cardinality(Recent) \in Nat /\ Cardinality(table) \in Nat
         /\ Cardinality(Recent) <= Cardinality(table) /\ Cardinality(Recent) <= MaxSessions
<1>1. IsFiniteSet(table)
  BY FS_Subset DEF SessionsType
<1>2. Recent \subseteq table
  BY DEF TableInv
<1>3. IsFiniteSet(Recent) /\ Cardinality(Recent) <= Cardinality(table)
  BY <1>1, <1>2, FS_Subset
<1>4. Cardinality(Recent) \in Nat /\ Cardinality(table) \in Nat
  BY <1>1, <1>3, FS_CardinalityType
<1>5. QED
  BY <1>1, <1>2, <1>3, <1>4 DEF TableInv

(* A step that drops what has expired and admits nobody.                   *)
LEMMA TableShrinks ==
  ASSUME CapHolds, SessionsType', table' = Live \/ table' = table, UNCHANGED <<age, last>>
  PROVE  CapHolds'
<1> USE DEF CapHolds
<1>1. Recent' = Recent
  BY DEF Recent
<1>2. Recent \subseteq table' /\ table' \subseteq table
  BY LiveIsRecent, Counts
<1>3. Cardinality(table') <= MaxSessions
  <2>1. CASE table' = table
    BY <2>1 DEF TableInv
  <2>2. CASE table' = Live
    BY <2>2, LiveIsRecent, Counts
  <2>3. QED
    BY <2>1, <2>2
<1>4. TableInv'
  BY <1>1, <1>2, <1>3 DEF TableInv
<1>5. QED
  BY <1>1, <1>4

(* An admission: the session is one that counts already, or there is room.  *)
LEMMA AdmitKeepsCap ==
  ASSUME CapHolds, SessionsType', NEW b \in Browsers, NEW i \in Ids, Admit(b, i)
  PROVE  CapHolds'
<1> USE DEF CapHolds
<1>a. /\ Known(b) \/ HasRoom
      /\ table' = Recent \cup {i}
      /\ age' = [age EXCEPT ![i] = 0] /\ last' = [last EXCEPT ![i] = 0]
  BY LiveIsRecent DEF Admit
<1>1. Recent' = Recent \cup {i}
  BY <1>a DEF Recent, SessionsType, Ages
<1>2. Cardinality(Recent \cup {i}) <= MaxSessions
  <2>1. CASE Known(b)
    <3>1. cookie[b] \in Recent
      BY <2>1, LiveIsRecent DEF Known
    <3>2. i = cookie[b]
      BY <3>1 DEF Admit, IdFor, Recent
    <3>3. Recent \cup {i} = Recent
      BY <3>1, <3>2
    <3>4. QED
      BY <3>3, Counts
  <2>2. CASE HasRoom
    <3>1. Cardinality(Recent) < MaxSessions
      BY <2>2, LiveIsRecent DEF HasRoom
    <3>2. Cardinality(Recent \cup {i}) = IF i \in Recent THEN Cardinality(Recent) ELSE Cardinality(Recent) + 1
      BY Counts, FS_AddElement
    <3>3. QED
      BY <3>1, <3>2, Counts
  <2>3. QED
    BY <1>a, <2>1, <2>2
<1>3. \A k \in table' : age'[k] = last'[k]
  BY <1>a, Counts DEF TableInv, SessionsType
<1>4. QED
  BY <1>a, <1>1, <1>2, <1>3 DEF TableInv

(* Time passes: sessions that no longer count make room.                   *)
LEMMA TickKeepsCap ==
  ASSUME CapHolds, SessionsType', Tick
  PROVE  CapHolds'
<1> USE DEF CapHolds
<1>1. Recent' \subseteq Recent
  BY DEF Tick, Older, Recent, SessionsType, Ages
<1>2. Cardinality(Recent') <= MaxSessions
  <2>1. Cardinality(Recent') <= Cardinality(Recent) /\ Cardinality(Recent') \in Nat
    BY <1>1, Counts, FS_Subset, FS_CardinalityType
  <2>2. QED
    BY <2>1, Counts
<1>3. TableInv'
  BY <1>1, Counts DEF Tick, TableInv, SessionsType
<1>4. QED
  BY <1>2, <1>3

(* Every step keeps the types of the tracker. *)
LEMMA SessionsTypeStep ==
  ASSUME SessionsType, SessionsNext \/ RestartSessions
  PROVE  SessionsType'
<1> USE DEF SessionsType, Ages
<1>1. ASSUME NEW b \in Browsers, NEW i \in Ids, Admit(b, i) PROVE SessionsType'
  BY <1>1 DEF Admit, Live
<1>2. ASSUME NEW b \in Browsers, NEW i \in Ids, Answer(b, i) \/ LoseAnswer(b, i) PROVE SessionsType'
  BY <1>2 DEF Answer, LoseAnswer
<1>3. ASSUME NEW b \in Browsers, Refuse(b) \/ CloseBrowser(b) PROVE SessionsType'
  BY <1>3 DEF Refuse, CloseBrowser, Live
<1>4. CASE CountActive
  BY <1>4 DEF CountActive, Live
<1>5. CASE Tick
  BY <1>5 DEF Tick, Older
<1>6. CASE RestartSessions
  BY <1>6 DEF RestartSessions, ForgetSessions
<1>7. QED
  BY <1>1, <1>2, <1>3, <1>4, <1>5, <1>6 DEF SessionsNext, Browse

(* Every step keeps the cap and the agreement of the table. *)
LEMMA CapStep ==
  ASSUME CapHolds, [SessionsNext \/ RestartSessions]_sessionVars
  PROVE  CapHolds'
<1>a. SessionsType'
  <2>1. CASE SessionsNext \/ RestartSessions
    BY <2>1, SessionsTypeStep DEF CapHolds
  <2>2. CASE UNCHANGED sessionVars
    BY <2>2 DEF CapHolds, SessionsType, sessionVars
  <2>3. QED
    BY <2>1, <2>2
<1> USE <1>a
<1>1. ASSUME NEW b \in Browsers, NEW i \in Ids, Admit(b, i) PROVE CapHolds'
  BY <1>1, AdmitKeepsCap
<1>2. ASSUME NEW b \in Browsers, NEW i \in Ids, Answer(b, i) \/ LoseAnswer(b, i) PROVE CapHolds'
  BY <1>2, TableShrinks DEF Answer, LoseAnswer
<1>3. ASSUME NEW b \in Browsers, Refuse(b) \/ CloseBrowser(b) PROVE CapHolds'
  BY <1>3, TableShrinks DEF Refuse, CloseBrowser
<1>4. CASE CountActive
  BY <1>4, TableShrinks DEF CountActive
<1>5. CASE Tick
  BY <1>5, TickKeepsCap
<1>6. CASE RestartSessions
  <2>1. table' = {} /\ Recent' = {}
    BY <1>6 DEF RestartSessions, ForgetSessions, Recent
  <2>2. QED
    BY <2>1, FS_EmptySet DEF CapHolds, TableInv
<1>7. CASE UNCHANGED sessionVars
  BY <1>7, TableShrinks DEF sessionVars
<1>8. QED
  BY <1>1, <1>2, <1>3, <1>4, <1>5, <1>6, <1>7 DEF SessionsNext, Browse

(* However many browsers ask in parallel, lose answers, close and come back *)
(* after a restart, no more sessions are active than the cap allows         *)
(* (sessions.py:29-50).                                                    *)
THEOREM SessionCap == SessionsSpec => []CapHolds
<1>1. SessionsInit => CapHolds
  <2> SUFFICES ASSUME SessionsInit PROVE CapHolds
    OBVIOUS
  <2>1. table = {} /\ Recent = {}
    BY DEF SessionsInit, Recent
  <2>2. SessionsType
    BY DEF SessionsInit, SessionsType, Ages
  <2>3. QED
    BY <2>1, <2>2, FS_EmptySet DEF CapHolds, TableInv
<1>2. CapHolds /\ [SessionsNext \/ RestartSessions]_sessionVars => CapHolds'
  BY CapStep
<1>3. QED
  BY <1>1, <1>2, PTL DEF SessionsSpec

(* A browser is refused only while the cap is used up by others that were   *)
(* admitted within the idle limit (sessions.py:38-47).                     *)
THEOREM NoFalseRefusal == SessionsSpec => RefusedOnlyWhenFull
<1>1. ASSUME CapHolds, NEW b \in Browsers, Refuse(b)
      PROVE  Cardinality(Recent) = MaxSessions /\ cookie[b] \notin Recent
  <2>1. Live = Recent
    BY <1>1, LiveIsRecent DEF CapHolds
  <2>2. ~ (Cardinality(Recent) < MaxSessions) /\ cookie[b] \notin Recent
    BY <1>1, <2>1 DEF Refuse, Known, HasRoom
  <2>3. QED
    BY <1>1, <2>2, Counts DEF CapHolds
<1>2. CapHolds =>
        [\A b \in Browsers :
           Refuse(b) => Cardinality(Recent) = MaxSessions /\ cookie[b] \notin Recent]_sessionVars
  BY <1>1
<1>3. QED
  BY <1>2, SessionCap, PTL DEF RefusedOnlyWhenFull
=============================================================================
