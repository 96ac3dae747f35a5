------------------------------- MODULE Verdict -------------------------------
(***************************************************************************)
(* How one job reaches its verdict (orchestration/pipeline.py): the        *)
(* detectors run one after the other, each of them measures all it can or  *)
(* fails as a whole, then every rule of the preset is evaluated and the    *)
(* findings are summed up.  The preset is arbitrary, so its rules are      *)
(* chosen as they are evaluated.                                           *)
(*                                                                         *)
(* The file is its audio and video streams and what a healthy run would    *)
(* measure of them: facts other than languages, and the language tag of    *)
(* each tagged audio stream.  Each detector owns one or two representatives *)
(* of its parameters, one of each kind: a value per stream that may be      *)
(* missing (peak_level is not finite in silence, duplicate_channel_risk     *)
(* needs a channel count), a value per stream that may be null              *)
(* (channel_layout), and an event, which is measured when it happens.       *)
(* Evidence follows and alters no status.                                  *)
(***************************************************************************)
EXTENDS RuleEngine

CONSTANTS
  Files,       \* the files that may be analysed
  Rules,       \* the rules a preset may hold
  MaxRules     \* bound: rules of a preset

Detectors ==
  <<"audio.analysis", "audio.dualmono", "metadata.ffprobe", "video.incidents">>

Owned ==
  [d \in {"audio.analysis", "audio.dualmono", "metadata.ffprobe", "video.incidents"} |->
     CASE d = "audio.analysis"   -> {"audio.peak_level", "audio.low_rms_event"}
       [] d = "audio.dualmono"   -> {"audio.duplicate_channel_risk"}
       [] d = "metadata.ffprobe" -> {Language, "audio.channel_layout"}
       [] d = "video.incidents"  -> {"video.black_frame_event"}]

Parameters == UNION {Owned[d] : d \in DOMAIN Owned}

Facts ==
  [parameter : Parameters \ {Language}, stream : Streams \cup {NoStream}, value : Values]
FileType ==
  [audio : SUBSET Streams, video : SUBSET Streams, facts : SUBSET Facts,
   tag : UNION {[S -> Spellings] : S \in SUBSET Streams}]

(* The streams of file f that parameter p can be measured of. *)
Bearers(f, p) == IF p = "video.black_frame_event" THEN f.video ELSE f.audio

ASSUME FilesAssumption ==
  /\ Files \subseteq FileType
  /\ \A f \in Files : /\ DOMAIN f.tag \subseteq f.audio
                     /\ \A m \in f.facts : m.stream \in Bearers(f, m.parameter)
ASSUME RulesAssumption ==
  Rules \subseteq RuleType /\ \A r \in Rules : r.parameter \in Parameters
ASSUME MaxRulesAssumption == MaxRules \in Nat

VARIABLES
  file,          \* the file, it does not change
  ran,           \* how many detectors have run
  crashed,       \* those that failed (the log)
  measurements,
  failed,        \* failed_parameters
  findings,      \* in the order of the preset
  verdict        \* "none" until the summary is built

vars == <<file, ran, crashed, measurements, failed, findings, verdict>>

-----------------------------------------------------------------------------
LanguageFacts ==
  {[parameter |-> Language, stream |-> s, value |-> Canonical[file.tag[s]]]
     : s \in DOMAIN file.tag}
AllFacts == file.facts \cup LanguageFacts

(* What detector d measures when it works. *)
Measured(d) == {m \in AllFacts : m.parameter \in Owned[d]}

Init ==
  /\ file \in Files
  /\ ran = 0
  /\ crashed = {}
  /\ measurements = {}
  /\ failed = {}
  /\ findings = <<>>
  /\ verdict = "none"

DetectorMeasures ==
  /\ ran < Len(Detectors)
  /\ ran' = ran + 1
  /\ measurements' = measurements \cup Measured(Detectors[ran + 1])
  /\ UNCHANGED <<file, crashed, failed, findings, verdict>>

(* Mutant: a failure leaves no trace. *)
FaultyDetectorFails ==
  /\ ran < Len(Detectors)
  /\ ran' = ran + 1
  /\ crashed' = crashed \cup {Detectors[ran + 1]}
  /\ UNCHANGED <<file, measurements, failed, findings, verdict>>

(* DetectorRunError: its parameters have failed, unless another detector   *)
(* has measured them before; the next detector runs.                       *)
DetectorFails ==
  /\ ran < Len(Detectors)
  /\ ran' = ran + 1
  /\ crashed' = crashed \cup {Detectors[ran + 1]}
  /\ failed' = failed \cup
       (Owned[Detectors[ran + 1]] \ {m.parameter : m \in measurements})
  /\ UNCHANGED <<file, measurements, findings, verdict>>

Evaluate(r) ==
  /\ ran = Len(Detectors)
  /\ verdict = "none"
  /\ Len(findings) < MaxRules
  /\ findings' = Append(findings, Finding(r, measurements, failed))
  /\ UNCHANGED <<file, ran, crashed, measurements, failed, verdict>>

(* A preset has at least one rule. *)
BuildSummary ==
  /\ verdict = "none"
  /\ findings # <<>>
  /\ verdict' = AggregateStatus(findings)
  /\ UNCHANGED <<file, ran, crashed, measurements, failed, findings>>

Next ==
  \/ DetectorMeasures
  \/ DetectorFails
  \/ \E r \in Rules : Evaluate(r)
  \/ BuildSummary

Spec == Init /\ [][Next]_vars

-----------------------------------------------------------------------------
(* What a rule says of the file itself, whatever was measured              *)

(* The streams a rule is about, by the tags of the file. *)
Covered(r) ==
  CASE r.selector.by = "language" ->
         {s \in DOMAIN file.tag : Canonical[file.tag[s]] = Canonical[r.selector.language]}
    [] r.selector.by = "index" -> {r.selector.index}
    [] r.selector.by = "all"   -> Streams \cup {NoStream}

Truth(r) == {m \in AllFacts : m.parameter = r.parameter /\ m.stream \in Covered(r)}

(* The streams of the file a rule means, and those of them it can say      *)
(* nothing of: a healthy run measures nothing there (the peak of silence). *)
Meant(r) == Covered(r) \cap Bearers(file, r.parameter)
Unmeasured(r) == {s \in Meant(r) : \A m \in Truth(r) : m.stream # s}

Conforms(r) ==
  CASE r.quantifier = "all" -> \A m \in Truth(r) : m.value \in r.accepts
    [] r.quantifier = "any" -> \E m \in Truth(r) : m.value \in r.accepts
    [] r.quantifier = "exactly_one" ->
         \E m \in Truth(r) : \A n \in Truth(r) : n.value \in r.accepts <=> n = m

(* The file keeps the rule, and every stream the rule means shows it. *)
Holds(r) ==
  CASE r.operator = "exists"     -> Truth(r) # {}
    [] r.operator = "not_exists" -> Truth(r) = {} /\ Meant(r) # {}
    [] r.operator = "compare"    -> /\ Truth(r) # {}
                                    /\ Conforms(r)
                                    /\ r.quantifier = "all" => Unmeasured(r) = {}

(* The file shows that it breaks the rule. *)
Breaks(r) ==
  CASE r.operator = "exists"     -> Truth(r) = {}
    [] r.operator = "not_exists" -> Truth(r) # {}
    [] r.operator = "compare"    -> Truth(r) # {} /\ ~Conforms(r)

(* The languages were not measured, so the selector found no stream.       *)
Blind(r) == r.selector.by = "language" /\ Language \in failed

(* A rule that passes without an answer for every stream it means: what    *)
(* must not exist was looked for on no stream at all, or a stream without  *)
(* a value was left out of "all".                                          *)
SilentPass(r) ==
  \/ r.operator = "not_exists" /\ (Blind(r) \/ Meant(r) = {})
  \/ /\ r.operator = "compare" /\ r.quantifier = "all"
     /\ Truth(r) # {} /\ Conforms(r) /\ Unmeasured(r) # {}

Ruled == {findings[i].rule : i \in DOMAIN findings}
Gates(r) == r.enabled /\ r.blocking

-----------------------------------------------------------------------------
TypeOK ==
  /\ file \in Files
  /\ ran \in 0..Len(Detectors)
  /\ crashed \subseteq DOMAIN Owned
  /\ measurements \subseteq AllFacts
  /\ failed \subseteq Parameters
  /\ findings \in Seq([rule : Rules, status : Statuses, stream : Streams \cup {NoStream}])
  /\ Len(findings) <= MaxRules
  /\ verdict \in Verdicts \cup {"none"}

(* A file is never passed on a rule it breaks, and never on one that was   *)
(* not evaluated: whichever detectors failed, a PASS means that every      *)
(* enabled blocking rule holds of the file, on every stream it means.      *)
(* Three kinds of rule do pass without that, and no others (SilentPass):   *)
(* not_exists by a language nobody could measure; not_exists whose         *)
(* selector finds no stream of the file, the probe being healthy           *)
(* (rules/engine.py:184-192, where docs/DATA_MODEL_REVIEW.md:21 says       *)
(* "never silent passes"); and a comparison under "all" that conforms on   *)
(* the streams that have a value and says nothing of those that have none  *)
(* (clipping.py:8-9 leaves silence unmeasured, engine.py:202-217).         *)
PassIsTrue ==
  verdict = "PASS" => \A r \in Ruled : Gates(r) => Holds(r) \/ SilentPass(r)

(* A FAIL means that what is in the file breaks an enabled blocking rule:  *)
(* a missing measurement gives SKIPPED or ERROR (rules/engine.py:172-208). *)
(* The one exception is an "exists" rule by language when the languages    *)
(* were not measured: it fails whatever the file holds                     *)
(* (rules/engine.py:108-118, 184-192).                                     *)
FailIsTrue ==
  verdict = "FAIL" =>
    \E r \in Ruled : Gates(r) /\ (Breaks(r) \/ (r.operator = "exists" /\ Blind(r)))

(* A detector that failed is never overlooked: if an enabled blocking rule *)
(* is over one of its parameters the verdict is ERROR, whatever the other  *)
(* rules say (rules/engine.py:7-8, pipeline.py:239-253).                   *)
FailedIsError ==
  verdict # "none" /\ (\E r \in Ruled : Gates(r) /\ \E d \in crashed : r.parameter \in Owned[d])
    => verdict = "ERROR"

(* The stream a failing finding names is one that breaks the rule, so an   *)
(* operator who looks there finds the fault (rules/engine.py:268-278).     *)
(* With exactly_one no single stream need be at fault.                     *)
OffenderIsReal ==
  \A i \in DOMAIN findings :
    LET f == findings[i] IN
    f.status \in {"FAIL", "WARNING"} /\ f.rule.operator # "exists"
      /\ f.rule.quantifier # "exactly_one" =>
      \E m \in Truth(f.rule) :
        /\ m.stream = f.stream
        /\ f.rule.operator = "compare" => m.value \notin f.rule.accepts

(* No further rule makes a verdict better, so the order of a preset does   *)
(* not matter and nothing hides an error (rules/engine.py:314-323).        *)
VerdictNeverImproves ==
  [][Rank[AggregateStatus(findings)] <= Rank[AggregateStatus(findings')]]_vars
=============================================================================
