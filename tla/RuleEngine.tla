----------------------------- MODULE RuleEngine -----------------------------
(***************************************************************************)
(* The rule engine (rules/engine.py): one rule over the measurements of a  *)
(* job gives one finding, and the findings give the verdict.  All of it is *)
(* pure.  A measurement is a record of its parameter, its stream and its   *)
(* value; several events of one stream with one value count as one.        *)
(*                                                                         *)
(* The sixteen comparison operators differ in the values they can compare  *)
(* (types; any other value raises EvaluationError) and in those they       *)
(* accept, and a rule carries these two sets.  A rule without applies_to   *)
(* has the selector "all" and the quantifier "all".                        *)
(***************************************************************************)
EXTENDS Integers, Sequences

CONSTANTS
  Streams,     \* stream indexes, as ffprobe counts them
  Values,      \* measured values, Null among them
  Spellings,   \* language tags, as files and presets spell them
  Canonical    \* normalize_language

Language == "audio.language"
NoStream == -1   \* a measurement of the whole file sorts before the streams

ASSUME StreamsAssumption == Streams \subseteq Nat
ASSUME CanonicalAssumption ==
  /\ Canonical \in [Spellings -> Spellings]
  /\ \A t \in Spellings : Canonical[Canonical[t]] = Canonical[t]

Selectors ==
  [by : {"all"}] \cup [by : {"index"}, index : Streams]
    \cup [by : {"language"}, language : Spellings]

RuleType ==
  [parameter : STRING, enabled : BOOLEAN, blocking : BOOLEAN,
   severity : {"info", "warning", "error", "critical"},
   operator : {"exists", "not_exists", "compare"},
   types : SUBSET (Values \cup Spellings), accepts : SUBSET (Values \cup Spellings),
   selector : Selectors, quantifier : {"all", "any", "exactly_one"}]

Statuses == {"PASS", "WARNING", "FAIL", "ERROR", "SKIPPED", "NOT_APPLICABLE"}
Verdicts == {"PASS", "WARNING", "FAIL", "ERROR"}

-----------------------------------------------------------------------------
(* Which measurements a rule is about                                      *)

(* Mutant: the rule's own spelling is not normalised. *)
FaultyLanguageIndices(r, ms) ==
  {m.stream : m \in {n \in ms : n.parameter = Language /\ n.value = r.selector.language}}

(* The streams whose measured language is the one the rule names. *)
LanguageIndices(r, ms) ==
  {m.stream : m \in {n \in ms : /\ n.parameter = Language
                               /\ Canonical[n.value] = Canonical[r.selector.language]
                               /\ n.stream # NoStream}}

Selected(r, ms) ==
  CASE r.selector.by = "language" -> LanguageIndices(r, ms)
    [] r.selector.by = "index"    -> {r.selector.index}
    [] r.selector.by = "all"      -> Streams \cup {NoStream}

Candidates(r, ms) ==
  {m \in ms : m.parameter = r.parameter /\ m.stream \in Selected(r, ms)}

-----------------------------------------------------------------------------
(* What the rule says of them                                              *)

Conforming(r, found) == {m \in found : m.value \in r.accepts}

Quantified(r, found) ==
  CASE r.quantifier = "all"         -> Conforming(r, found) = found
    [] r.quantifier = "any"         -> Conforming(r, found) # {}
    [] r.quantifier = "exactly_one" -> \E m \in found : Conforming(r, found) = {m}

Comparable(r, found) == \A m \in found : m.value \in r.types

Passes(r, found) ==
  CASE r.operator = "exists"     -> found # {}
    [] r.operator = "not_exists" -> found = {}
    [] r.operator = "compare"    -> Quantified(r, found)

FailStatus(r) == IF r.severity \in {"info", "warning"} THEN "WARNING" ELSE "FAIL"

(* Mutant: a rule over a failed detector is evaluated on what there is. *)
FaultyStatusOf(r, ms, failed) ==
  LET found == Candidates(r, ms)
  IN IF ~r.enabled THEN "NOT_APPLICABLE"
     ELSE IF r.operator = "compare" /\ found = {} THEN "SKIPPED"
     ELSE IF r.operator = "compare" /\ ~Comparable(r, found) THEN "ERROR"
     ELSE IF Passes(r, found) THEN "PASS" ELSE FailStatus(r)

StatusOf(r, ms, failed) ==
  LET found == Candidates(r, ms)
      compares == r.operator = "compare"
  IN IF ~r.enabled THEN "NOT_APPLICABLE"
     ELSE IF r.parameter \in failed THEN "ERROR"
     ELSE IF compares /\ found = {} THEN "SKIPPED"
     ELSE IF compares /\ ~Comparable(r, found) THEN "ERROR"
     ELSE IF Passes(r, found) THEN "PASS" ELSE FailStatus(r)

First(found) == CHOOSE m \in found : \A n \in found : m.stream <= n.stream

(* Mutant: a failing finding shows the first measurement. *)
FaultyOffender(r, found) == First(found)

(* The measurement a failing finding shows: the first that does not        *)
(* conform, or the first of all when too many do.                          *)
Offender(r, found) ==
  LET odd == found \ Conforming(r, found)
  IN IF r.operator = "compare" /\ odd # {} THEN First(odd) ELSE First(found)

(* The stream a finding names: the offender's, or that of the only         *)
(* measurement when the comparison passes.                                 *)
StreamOf(r, ms, failed) ==
  LET found == Candidates(r, ms)
      status == StatusOf(r, ms, failed)
  IN IF found = {} \/ status \notin {"PASS", "WARNING", "FAIL"} THEN NoStream
     ELSE IF status # "PASS" THEN Offender(r, found).stream
     ELSE IF r.operator = "compare" /\ \E m \in found : found = {m}
          THEN First(found).stream
     ELSE NoStream

Finding(r, ms, failed) ==
  [rule |-> r, status |-> StatusOf(r, ms, failed), stream |-> StreamOf(r, ms, failed)]

-----------------------------------------------------------------------------
(* The verdict                                                             *)

Blocking(fs, statuses) ==
  \E i \in DOMAIN fs : fs[i].rule.blocking /\ fs[i].status \in statuses

(* Mutant: a failure hides an error. *)
FaultyAggregateStatus(fs) ==
  IF Blocking(fs, {"FAIL"}) THEN "FAIL"
  ELSE IF Blocking(fs, {"ERROR", "SKIPPED"}) THEN "ERROR"
  ELSE IF \E i \in DOMAIN fs : fs[i].status \in {"FAIL", "WARNING", "ERROR"} THEN "WARNING"
  ELSE "PASS"

AggregateStatus(fs) ==
  IF Blocking(fs, {"ERROR", "SKIPPED"}) THEN "ERROR"
  ELSE IF Blocking(fs, {"FAIL"}) THEN "FAIL"
  ELSE IF \E i \in DOMAIN fs : fs[i].status \in {"FAIL", "WARNING", "ERROR"} THEN "WARNING"
  ELSE "PASS"

Rank == [PASS |-> 0, WARNING |-> 1, FAIL |-> 2, ERROR |-> 3]
=============================================================================
