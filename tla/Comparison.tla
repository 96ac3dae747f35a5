----------------------------- MODULE Comparison -----------------------------
(***************************************************************************)
(* `deepdub-qc compare` (cli.py, comparison/engine.py, vidchecker.py): a    *)
(* report of this program against the XML report of Vidchecker on the same *)
(* bytes.  Times and levels are in units of which a tolerance is a number.  *)
(***************************************************************************)
EXTENDS Integers, Sequences, FiniteSets

CONSTANTS
  Pairs,             \* what may be compared: [report, task]
  LoudnessTolerance,
  SpanTolerance,
  Missing            \* what a report does not have

ASSUME ComparisonAssumption ==
  /\ Missing \notin Int /\ LoudnessTolerance \in Nat /\ SpanTolerance \in Nat
  /\ \A p \in Pairs :
       /\ p.report.loudness \in Seq([stream : Nat, value : Int])
       /\ p.report.spans \in Seq([stream : Nat, start : Int, end : Int])
       /\ \A k \in DOMAIN p.task.alerts :
            LET a == p.task.alerts[k]
            IN {a.value, a.prose, a.begin, a.end} \subseteq Int \cup {Missing}

VARIABLES
  pair,      \* the two reports, Missing before they are given
  compareAt, \* "idle", "read", "parse", "identity", "loudness", "levels", "clipping", "rows", "exit"
  rows,      \* the statuses of the comparable checks: [check, alert, status]
  code       \* the exit code, Missing while the command runs

compareVars == <<pair, compareAt, rows, code>>

CompareInit == pair = Missing /\ compareAt = "idle" /\ rows = {} /\ code = Missing

Report == pair.report
Task == pair.task
Alerts(type) == {k \in DOMAIN Task.alerts : Task.alerts[k].type = type}
Distance(a, b) == IF a < b THEN b - a ELSE a - b
Lesser(a, b) == IF a < b THEN a ELSE b
Greater(a, b) == IF a < b THEN b ELSE a

(* ------------------------------------------------ the two files --------- *)

(* report.json is measurements by stream, counted from 0, in the order they *)
(* were made: loudness [stream, value], spans [stream, start, end] (low RMS, *)
(* then tail, then internal silences), flat factors.  An alert counts       *)
(* streams from 1.  Vidchecker says of a test that it did not run, and gives *)
(* a loudness in a field of its own or only in its prose.                  *)
ParseAlert(a) ==
  [type |-> a.type, stream |-> a.stream, notRun |-> a.notRun, begin |-> a.begin, end |-> a.end,
   value |-> IF a.value # Missing THEN a.value ELSE IF a.notRun THEN Missing ELSE a.prose]

FaultyMeasured(all, stream) == {k \in DOMAIN all : stream = Missing \/ all[k].stream = stream}
(* _for_stream: the places of those that it keeps. *)
Measured(all, stream) == {k \in DOMAIN all : stream = Missing \/ all[k].stream = stream - 1}

Row(check, k, agrees) == [check |-> check, alert |-> k, status |-> IF agrees THEN "MATCH" ELSE "MISMATCH"]

(* ---------------------------------------------------- the checks -------- *)

(* _verify_identity: two sizes that are known and the same.                *)
Same(r, t) == r.size # Missing /\ t.size # Missing /\ r.size = t.size

(* The stream's own loudness, or that of whatever stream was measured first *)
(* when this one was not.                                                  *)
LoudnessOf(stream) ==
  IF Measured(Report.loudness, stream) # {} THEN Measured(Report.loudness, stream)
  ELSE DOMAIN Report.loudness

First(places) == CHOOSE k \in places : \A l \in places : k <= l

LoudnessRows ==
  {LET a == ParseAlert(Task.alerts[k])
       ours == LoudnessOf(a.stream)
   IN Row("loudness", k,
          ours # {} /\ Distance(Report.loudness[First(ours)].value, a.value) <= LoudnessTolerance)
   : k \in {l \in Alerts("loudness") :
             ~ Task.alerts[l].notRun /\ ParseAlert(Task.alerts[l]).value # Missing}}

Overlap(a, s) == Greater(0, Lesser(a.end, s.end) - Greater(a.begin, s.start))

(* max: the first of those that overlap the alert the most.                *)
Best(a, places) ==
  CHOOSE k \in places : \A l \in places :
    LET most == Overlap(a, Report.spans[k])
    IN Overlap(a, Report.spans[l]) < most \/ (Overlap(a, Report.spans[l]) = most /\ k <= l)

LevelAgrees(a) ==
  LET places == Measured(Report.spans, a.stream)
  IN /\ places # {}
     /\ LET best == Report.spans[Best(a, places)]
        IN /\ Overlap(a, best) > 0
           /\ Distance(best.end - best.start, a.end - a.begin) <= SpanTolerance

LevelRows ==
  {Row("level", k, LevelAgrees(Task.alerts[k]))
   : k \in {l \in Alerts("level") :
             ~ Task.alerts[l].notRun /\ Task.alerts[l].begin # Missing /\ Task.alerts[l].end # Missing}}

(* Whether there is any clipping at all, over all streams; no row when     *)
(* Vidchecker did not look or nothing was measured.                        *)
ClippingRows ==
  IF (\E k \in Alerts("clipping") : Task.alerts[k].notRun) \/ Report.flat = {} THEN {}
  ELSE {Row("clipping", 0, (Alerts("clipping") # {}) = (\E v \in Report.flat : v > 0))}

(* ------------------------------------------------------- the run -------- *)

Give ==
  /\ compareAt = "idle"
  /\ \E p \in Pairs : pair' = p
  /\ compareAt' = "read"
  /\ UNCHANGED <<rows, code>>

GoOn(to, new) == compareAt' = to /\ rows' = rows \cup new /\ UNCHANGED <<pair, code>>
Stop(c) == compareAt' = "exit" /\ code' = c /\ UNCHANGED <<pair, rows>>

(* A file that cannot be read or parsed is invalid input; XML with a number *)
(* that is none, or a report that is no mapping, raises what nobody catches. *)
ReadReport ==
  /\ compareAt = "read"
  /\ GoOn("parse", {}) \/ Stop(5)
ParseReport ==
  /\ compareAt = "parse"
  /\ GoOn("identity", {}) \/ Stop(5) \/ Stop(1)

VerifyIdentity ==
  /\ compareAt = "identity"
  /\ IF Same(Report, Task) THEN GoOn("loudness", {}) ELSE Stop(5)

CompareLoudness == compareAt = "loudness" /\ GoOn("levels", LoudnessRows)
CompareLevels == compareAt = "levels" /\ GoOn("clipping", LevelRows)
CompareClipping == compareAt = "clipping" /\ GoOn("rows", ClippingRows)

(* The Markdown file may not be writable: an OSError.                      *)
ExitCompare ==
  /\ compareAt = "rows"
  /\ Stop(IF \E r \in rows : r.status = "MISMATCH" THEN 2 ELSE 0) \/ Stop(1)

CompareNext ==
  \/ Give \/ ReadReport \/ ParseReport \/ VerifyIdentity
  \/ CompareLoudness \/ CompareLevels \/ CompareClipping \/ ExitCompare

CompareSpec == CompareInit /\ [][CompareNext]_compareVars

-----------------------------------------------------------------------------
Elements(s) == {s[k] : k \in DOMAIN s}
(* Ours that may answer an alert: of its stream, or any if it names none.  *)
OfAlert(all, a) == {m \in Elements(all) : a.stream = Missing \/ m.stream = a.stream - 1}

LoudnessAnswered(a) ==
  LET value == IF a.value = Missing THEN a.prose ELSE a.value
      own == OfAlert(Report.loudness, a)
  IN a.notRun \/ value = Missing
     \/ \E m \in (IF own = {} THEN Elements(Report.loudness) ELSE own) :
          m.value \in (value - LoudnessTolerance)..(value + LoudnessTolerance)

LevelAnswered(a) ==
  a.notRun \/ a.begin = Missing \/ a.end = Missing
  \/ \E s \in OfAlert(Report.spans, a) :
       /\ s.start < a.end /\ a.begin < s.end
       /\ (s.end - s.start) - (a.end - a.begin) \in (-SpanTolerance)..SpanTolerance

(* Codes 0 and 2 are only given to reports on files of the same size: that   *)
(* is all _verify_identity compares, neither names nor contents.  Code 0 is *)
(* only given when every loudness and every low-level span that Vidchecker  *)
(* ran and gave numbers for has its counterpart of the same stream within   *)
(* the tolerance (for a loudness: of any stream, if that one was not        *)
(* measured, engine.py:154), and both or neither see clipping where both    *)
(* looked.  It is given as well when there is nothing to compare.          *)
ExitZeroMeansAgreement ==
  /\ code \in {0, 2} => Report.size = Task.size /\ Report.size # Missing
  /\ code = 0 =>
       /\ \A k \in Alerts("loudness") : LoudnessAnswered(Task.alerts[k])
       /\ \A k \in Alerts("level") : LevelAnswered(Task.alerts[k])
       /\ (\A k \in Alerts("clipping") : ~ Task.alerts[k].notRun) /\ Report.flat # {} =>
            (Alerts("clipping") # {} <=> \E v \in Report.flat : v > 0)
=============================================================================
