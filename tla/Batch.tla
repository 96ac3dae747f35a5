------------------------------- MODULE Batch -------------------------------
(***************************************************************************)
(* The commands that end with an exit code (cli.py, exit_codes.py): analyze *)
(* and batch (orchestration/batch.py) over run_analysis, again and again    *)
(* with one output root, and presets validate.  Each file has its own       *)
(* directory below the root, where the report of its last analysis lies.    *)
(***************************************************************************)
EXTENDS Naturals, Sequences, FiniteSets

CONSTANTS
  MediaNames,   \* numbers: discover_media sorts by name
  None,         \* no report, no summary, no exit code
  MaxCommands   \* bound: commands that are run

ASSUME BatchAssumption == MediaNames \subseteq Nat /\ IsFiniteSet(MediaNames) /\ None \notin Nat

VARIABLES
  command,   \* "none", "analyze", "batch", "validate": the last one that was begun
  todo,      \* the files the batch has still to analyse
  chosen,    \* history: the files it discovered
  items,     \* what it has recorded
  reports,   \* report.json of each file: [run, status], or None; "torn": cut off
  batchFile, \* batch_summary.json: [run, status, items], or None; "torn" as well
  exitCode,  \* of the last command; None while it runs
  outcome,   \* history: what became of it
  run        \* which command this is

batchVars == <<command, todo, chosen, items, reports, batchFile, exitCode, outcome, run>>

Statuses == {"PASS", "WARNING", "FAIL", "ERROR"}
Rank == [s \in Statuses |->
          CASE s = "PASS" -> 0 [] s = "WARNING" -> 1 [] s = "FAIL" -> 2 [] s = "ERROR" -> 3]

(* exit_codes.py, and the 1 of Python for an exception that nobody catches. *)
ExitOf == [s \in Statuses |->
            CASE s = "PASS" -> 0 [] s = "WARNING" -> 1 [] s = "FAIL" -> 2 [] s = "ERROR" -> 3]
InvalidConfiguration == 4
InvalidInput == 5
Uncaught == 1
Killed == 137

BatchInit ==
  /\ command = "none" /\ todo = <<>> /\ chosen = {} /\ items = <<>>
  /\ reports = [f \in MediaNames |-> None] /\ batchFile = None
  /\ exitCode = 0 /\ outcome = "none" /\ run = 0

FaultyWorst(list) == list[Len(list)].status
(* batch_status *)
Worst(list) ==
  CHOOSE s \in Statuses : (\E k \in DOMAIN list : list[k].status = s)
                          /\ \A k \in DOMAIN list : Rank[list[k].status] <= Rank[s]

Sorted(S) == [k \in 1..Cardinality(S) |-> CHOOSE f \in S : Cardinality({g \in S : g < f}) = k - 1]

Idle == exitCode # None /\ run < MaxCommands
ExitWith(code, what) == exitCode' = code /\ outcome' = what

(* What run_analysis does for one file: it returns a result; the input is   *)
(* gone or the preset invalid; it raises a DeepdubQCError, also after the   *)
(* report is written (the PDF); or it raises anything else, at any time,    *)
(* an OSError in the middle of the report too.                             *)
Kinds == {"result", "no_input", "bad_preset", "qc_error", "exception"}
PutReport(f, s, n) == reports' = [reports EXCEPT ![f] = [run |-> n, status |-> s]]
RunAnalysis(f, kind, s, n) ==
  \/ PutReport(f, s, n) /\ kind \in {"result", "qc_error", "exception"}
  \/ PutReport(f, "torn", n) /\ kind = "exception"
  \/ kind # "result" /\ UNCHANGED reports

Analyze(f, kind, s) ==
  /\ Idle /\ run' = run + 1 /\ command' = "analyze"
  /\ RunAnalysis(f, kind, s, run + 1)
  /\ CASE kind = "result"     -> ExitWith(ExitOf[s], s)
       [] kind = "no_input"   -> ExitWith(InvalidInput, kind)
       [] kind = "bad_preset" -> ExitWith(InvalidConfiguration, kind)
       [] kind = "qc_error"   -> ExitWith(ExitOf["ERROR"], "ERROR")
       [] kind = "exception"  -> ExitWith(Uncaught, kind)
  /\ UNCHANGED <<todo, chosen, items, batchFile>>

(* A directory that is missing or has no media ends the batch at once.     *)
BeginBatch(S) ==
  /\ Idle /\ run' = run + 1 /\ command' = "batch"
  /\ todo' = Sorted(S) /\ chosen' = S /\ items' = <<>>
  /\ IF S = {} THEN ExitWith(InvalidInput, "no_input") ELSE ExitWith(None, "none")
  /\ UNCHANGED <<reports, batchFile>>

Busy == command = "batch" /\ exitCode = None

Item(f, kind, s) ==
  IF kind = "result" THEN [file |-> f, status |-> s, cites |-> TRUE]
  ELSE [file |-> f, status |-> "ERROR", cites |-> FALSE]

(* An item of the batch: a DeepdubQCError is recorded, a PresetError and    *)
(* every other exception leaves run_batch.                                 *)
AnalyzeItem(kind, s) ==
  /\ Busy /\ todo # <<>>
  /\ RunAnalysis(Head(todo), kind, s, run)
  /\ IF kind \in {"bad_preset", "exception"}
     THEN /\ IF kind = "bad_preset" THEN ExitWith(InvalidConfiguration, kind)
                                    ELSE ExitWith(Uncaught, kind)
          /\ UNCHANGED <<todo, items>>
     ELSE /\ items' = Append(items, Item(Head(todo), kind, s))
          /\ todo' = Tail(todo)
          /\ UNCHANGED <<exitCode, outcome>>
  /\ UNCHANGED <<command, chosen, batchFile, run>>

(* write_batch_summary: write_text empties the file and then writes it, and *)
(* either may raise OSError.                                               *)
TornSummary(n) == [run |-> n, status |-> "torn", items |-> <<>>]

OpenSummary ==
  /\ Busy /\ todo = <<>> /\ batchFile # TornSummary(run)
  /\ \/ batchFile' = TornSummary(run) /\ UNCHANGED <<exitCode, outcome>>
     \/ ExitWith(Uncaught, "exception") /\ UNCHANGED batchFile
  /\ UNCHANGED <<command, todo, chosen, items, reports, run>>

WriteSummary ==
  /\ Busy /\ todo = <<>> /\ batchFile = TornSummary(run)
  /\ \/ /\ batchFile' = [run |-> run, status |-> Worst(items), items |-> items]
        /\ ExitWith(ExitOf[Worst(items)], Worst(items))
     \/ ExitWith(Uncaught, "exception") /\ UNCHANGED batchFile
  /\ UNCHANGED <<command, todo, chosen, items, reports, run>>

(* The process is killed, in the middle of a report or of the summary too:  *)
(* there is no exit code of the program's.                                 *)
KillBatch ==
  /\ Busy
  /\ ExitWith(Killed, "killed")
  /\ \/ UNCHANGED reports
     \/ todo # <<>> /\ \E s \in Statuses \cup {"torn"} : PutReport(Head(todo), s, run)
  /\ UNCHANGED <<command, todo, chosen, items, batchFile, run>>

(* presets validate: all targets are tried, there must be one.             *)
ValidatePresets(targets, invalid) ==
  /\ Idle /\ run' = run + 1 /\ command' = "validate"
  /\ IF targets = 0 \/ invalid > 0 THEN ExitWith(InvalidConfiguration, "bad_preset")
                                   ELSE ExitWith(0, "PASS")
  /\ UNCHANGED <<todo, chosen, items, reports, batchFile>>

BatchNext ==
  \/ \E kind \in Kinds, s \in Statuses :
       AnalyzeItem(kind, s) \/ \E f \in MediaNames : Analyze(f, kind, s)
  \/ \E S \in SUBSET MediaNames : BeginBatch(S)
  \/ OpenSummary \/ WriteSummary \/ KillBatch
  \/ \E targets \in 0..1 : \E invalid \in 0..targets : ValidatePresets(targets, invalid)

BatchSpec == BatchInit /\ [][BatchNext]_batchVars

-----------------------------------------------------------------------------
Files(list) == {list[k].file : k \in DOMAIN list}

(* A summary that is whole tells of one batch (its verdict is the worst of  *)
(* its items), and a batch that ends with 0, 2 or 3 has left the summary of *)
(* itself, whole: one item for every file it found, and every report an     *)
(* item cites is on disk, whole and written by this batch, with the status  *)
(* of the item; an item that failed cites none, although one of an earlier  *)
(* run, or of this one whose PDF failed, may lie there (batch.py:128-141).  *)
(* A batch that was killed or raised may leave a summary that is cut off    *)
(* (batch.py:89 writes in place), or an earlier one over newer reports.     *)
SummaryMatchesReports ==
  /\ batchFile # None =>
       \/ batchFile.status = "torn"
       \/ \A k \in DOMAIN batchFile.items : Rank[batchFile.items[k].status] <= Rank[batchFile.status]
  /\ command = "batch" /\ exitCode \in {0, 2, 3} =>
       /\ batchFile.run = run /\ batchFile.status # "torn" /\ exitCode = Rank[batchFile.status]
       /\ Files(batchFile.items) = chosen /\ Len(batchFile.items) = Cardinality(chosen)
       /\ \A k \in DOMAIN batchFile.items :
            LET i == batchFile.items[k]
            IN IF i.cites THEN reports[i.file] = [run |-> run, status |-> i.status]
               ELSE i.status = "ERROR"
  /\ command \in {"analyze", "batch"} /\ exitCode = 0 => outcome = "PASS"
=============================================================================
