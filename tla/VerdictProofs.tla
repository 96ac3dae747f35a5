---------------------------- MODULE VerdictProofs ----------------------------
(***************************************************************************)
(* What a verdict says of the file, for every file, every preset and every *)
(* combination of failing detectors.                                       *)
(***************************************************************************)
EXTENDS Verdict, WellFoundedInduction, TLAPS

Ids == 1..Len(Detectors)

(* A detector that has run has measured all it can, or has failed and      *)
(* measured nothing, and one that has not has left no trace.               *)
DetectorInv ==
  \A i \in Ids :
    LET d == Detectors[i] IN
    /\ d \in crashed =>
         /\ i <= ran /\ Owned[d] \subseteq failed
         /\ \A m \in measurements : m.parameter \notin Owned[d]
    /\ i <= ran /\ d \notin crashed =>
         Measured(d) \subseteq measurements /\ Owned[d] \cap failed = {}
    /\ ran < i => \A m \in measurements : m.parameter \notin Owned[d]
    /\ ran < i => Owned[d] \cap failed = {}

(* A finding stays what the rule says of the measurements.                 *)
FindingInv ==
  /\ findings # <<>> => ran = Len(Detectors)
  /\ \A i \in DOMAIN findings :
       findings[i] = Finding(findings[i].rule, measurements, failed)
  /\ verdict # "none" => verdict = AggregateStatus(findings)

IInv == TypeOK /\ DetectorInv /\ FindingInv

-----------------------------------------------------------------------------
(* The detectors and their parameters *)

(* The detectors in the order they run. *)
LEMMA FourDetectors ==
  /\ Len(Detectors) = 4
  /\ Detectors[1] = "audio.analysis" /\ Detectors[2] = "audio.dualmono"
  /\ Detectors[3] = "metadata.ffprobe" /\ Detectors[4] = "video.incidents"
  BY DEF Detectors

(* What each of them measures. *)
LEMMA WhatTheyOwn ==
  /\ DOMAIN Owned = {Detectors[i] : i \in Ids}
  /\ Owned["audio.analysis"] = {"audio.peak_level", "audio.low_rms_event"}
  /\ Owned["audio.dualmono"] = {"audio.duplicate_channel_risk"}
  /\ Owned["metadata.ffprobe"] = {Language, "audio.channel_layout"}
  /\ Owned["video.incidents"] = {"video.black_frame_event"}
<1>1. Ids = {1, 2, 3, 4}
  BY FourDetectors DEF Ids
<1>2. DOMAIN Owned = {"audio.analysis", "audio.dualmono", "metadata.ffprobe", "video.incidents"}
  BY DEF Owned
<1>3. DOMAIN Owned = {Detectors[i] : i \in Ids}
  BY <1>1, <1>2, FourDetectors
<1> QED
  BY <1>3 DEF Owned

(* No two detectors own the same parameter, so the order in which they     *)
(* fail does not matter.                                                   *)
LEMMA OwnersDiffer ==
  \A i, j \in Ids : i # j => Owned[Detectors[i]] \cap Owned[Detectors[j]] = {}
<1>1. Ids = {1, 2, 3, 4}
  BY FourDetectors DEF Ids
<1> QED
  BY <1>1, FourDetectors, WhatTheyOwn DEF Language

(* No detector runs twice. *)
LEMMA DetectorsDiffer ==
  \A i, j \in Ids : i # j => Detectors[i] # Detectors[j]
<1>1. Ids = {1, 2, 3, 4}
  BY FourDetectors DEF Ids
<1> QED
  BY <1>1, FourDetectors

(* Every parameter is measured by one of them. *)
LEMMA EveryParameterIsOwned ==
  \A p \in Parameters : \E i \in Ids : p \in Owned[Detectors[i]]
  BY WhatTheyOwn DEF Parameters

(* The language is a parameter. *)
LEMMA LanguageIsOwned == Language \in Parameters
<1>1. "metadata.ffprobe" \in DOMAIN Owned /\ Language \in Owned["metadata.ffprobe"]
  BY WhatTheyOwn, FourDetectors DEF Ids
<1> QED
  BY <1>1 DEF Parameters

-----------------------------------------------------------------------------
(* Types *)

(* The parts of a rule. *)
LEMMA SelectorTypes ==
  ASSUME NEW r \in Rules
  PROVE  /\ r.selector.by \in {"all", "index", "language"}
         /\ r.selector.by = "index" => r.selector.index \in Streams
         /\ r.selector.by = "language" => r.selector.language \in Spellings
         /\ r.operator \in {"exists", "not_exists", "compare"}
         /\ r.quantifier \in {"all", "any", "exactly_one"}
         /\ r.enabled \in BOOLEAN /\ r.blocking \in BOOLEAN
         /\ r.parameter \in Parameters
<1>1. r \in RuleType /\ r.parameter \in Parameters
  BY RulesAssumption
<1>2. /\ r.selector \in Selectors
      /\ r.operator \in {"exists", "not_exists", "compare"}
      /\ r.quantifier \in {"all", "any", "exactly_one"}
      /\ r.enabled \in BOOLEAN /\ r.blocking \in BOOLEAN
  BY <1>1 DEF RuleType
<1>3. /\ r.selector.by \in {"all", "index", "language"}
      /\ r.selector.by = "index" => r.selector.index \in Streams
      /\ r.selector.by = "language" => r.selector.language \in Spellings
  BY <1>2 DEF Selectors
<1> QED
  BY <1>1, <1>2, <1>3

(* The parts of a file. *)
LEMMA FileTypes ==
  ASSUME file \in Files
  PROVE  /\ \A m \in file.facts : m.parameter # Language /\ m.stream \in Streams \cup {NoStream}
         /\ DOMAIN file.tag \subseteq Streams
         /\ \A s \in DOMAIN file.tag : file.tag[s] \in Spellings
<1>1. file.facts \subseteq Facts /\ file.tag \in UNION {[S -> Spellings] : S \in SUBSET Streams}
  BY FilesAssumption DEF FileType
<1>2. PICK S \in SUBSET Streams : file.tag \in [S -> Spellings]
  BY <1>1
<1> QED
  BY <1>1, <1>2 DEF Facts

(* The streams of its facts. *)
LEMMA FactTypes ==
  ASSUME file \in Files
  PROVE  \A m \in AllFacts : m.stream \in Streams \cup {NoStream}
  BY FileTypes DEF AllFacts, LanguageFacts

(* The status of a finding is one of the statuses. *)
LEMMA StatusTypes ==
  ASSUME NEW r, NEW ms, NEW fs
  PROVE  StatusOf(r, ms, fs) \in Statuses
  BY DEF StatusOf, Statuses, FailStatus

-----------------------------------------------------------------------------
(* The first of some measurements is one of them *)

Less == {p \in Nat \X Nat : p[1] < p[2]}

(* Numbers have no infinite descent. *)
LEMMA LessIsWellFounded == IsWellFoundedOn(Less, Nat)
  BY NatLessThanWellFounded DEF OpToRel, Less

(* A set of numbers that is not empty has a least element. *)
LEMMA LeastOfNaturals ==
  ASSUME NEW S, S \subseteq Nat, S # {}
  PROVE  \E k \in S : \A n \in S : k <= n
<1>1. PICK k \in S : \A n \in S : <<n, k>> \notin Less
  BY LessIsWellFounded, WFMin
<1>2. \A n \in S : ~(n < k)
  BY <1>1 DEF Less
<1> QED
  BY <1>2

(* The first of what was found is one of it. *)
LEMMA FirstIsOne ==
  ASSUME NEW found, found # {}, \A m \in found : m.stream \in Streams \cup {NoStream}
  PROVE  First(found) \in found
<1> DEFINE S == {m.stream + 1 : m \in found}
<1>0. \A s \in Streams \cup {NoStream} : s \in Int /\ s + 1 \in Nat
  <2>1. \A s \in Streams : s \in Int /\ s + 1 \in Nat
    BY StreamsAssumption
  <2>2. NoStream \in Int /\ NoStream + 1 \in Nat
    BY DEF NoStream
  <2> QED
    BY <2>1, <2>2
<1>1. \A m \in found : m.stream \in Int /\ m.stream + 1 \in Nat
  BY <1>0
<1>2. S \subseteq Nat /\ S # {}
  BY <1>1
<1>3. PICK k \in S : \A n \in S : k <= n
  <2> HIDE DEF S
  <2> QED BY <1>2, LeastOfNaturals
<1>4. PICK m \in found : k = m.stream + 1
  OBVIOUS
<1>5. ASSUME NEW n \in found PROVE m.stream <= n.stream
  <2>1. n.stream + 1 \in S
    OBVIOUS
  <2>2. m.stream + 1 <= n.stream + 1
    <3> HIDE DEF S
    <3> QED BY <1>3, <1>4, <2>1
  <2> QED
    BY <1>1, <2>2
<1> QED
  BY <1>5 DEF First

(* The offender is one of what was found, and one that is not accepted if there is any. *)
LEMMA OffenderIsOne ==
  ASSUME NEW r, NEW found, found # {}, \A m \in found : m.stream \in Streams \cup {NoStream}
  PROVE  /\ Offender(r, found) \in found
         /\ r.operator = "compare" /\ Conforming(r, found) # found
              => Offender(r, found).value \notin r.accepts
<1> DEFINE odd == found \ Conforming(r, found)
<1>1. CASE odd # {}
  <2>1. \A m \in odd : m.stream \in Streams \cup {NoStream}
    OBVIOUS
  <2>2. First(odd) \in odd
    <3> HIDE DEF odd
    <3> QED BY <1>1, <2>1, FirstIsOne
  <2>3. First(odd) \in found /\ First(odd).value \notin r.accepts
    BY <2>2 DEF Conforming
  <2>4. First(found) \in found
    BY FirstIsOne
  <2> QED
    BY <1>1, <2>3, <2>4 DEF Offender
<1>2. CASE odd = {}
  <2>1. First(found) \in found
    BY FirstIsOne
  <2>2. Conforming(r, found) = found
    BY <1>2 DEF Conforming
  <2> QED
    BY <1>2, <2>1, <2>2 DEF Offender
<1> QED
  BY <1>1, <1>2

-----------------------------------------------------------------------------
(* The rules about the same things, measured or not *)

(* When the languages were measured, they are those of the file. *)
LEMMA LanguagesSeen ==
  ASSUME IInv, ran = Len(Detectors), Language \notin failed
  PROVE  {m \in measurements : m.parameter = Language} = LanguageFacts
<1>1. PICK i \in Ids : Language \in Owned[Detectors[i]]
  BY LanguageIsOwned, EveryParameterIsOwned
<1>2. i <= ran /\ Detectors[i] \notin crashed
  BY <1>1, FourDetectors DEF IInv, DetectorInv, Ids
<1>3. Measured(Detectors[i]) \subseteq measurements
  BY <1>2 DEF IInv, DetectorInv
<1>4. LanguageFacts \subseteq measurements
  BY <1>1, <1>3 DEF Measured, AllFacts, LanguageFacts
<1>5. \A m \in measurements : m.parameter = Language => m \in LanguageFacts
  BY FileTypes DEF IInv, TypeOK, AllFacts
<1> QED
  BY <1>4, <1>5 DEF LanguageFacts

(* What was not measured is not selected, and nothing else is.             *)
LEMMA SelectsNothingElse ==
  ASSUME IInv, NEW r \in Rules
  PROVE  Selected(r, measurements) \subseteq Covered(r)
<1>1. CASE r.selector.by = "language"
  <2>1. ASSUME NEW s \in LanguageIndices(r, measurements)
        PROVE  s \in DOMAIN file.tag /\ Canonical[file.tag[s]] = Canonical[r.selector.language]
    <3>1. PICK n \in measurements : /\ n.parameter = Language /\ n.stream = s
                                    /\ Canonical[n.value] = Canonical[r.selector.language]
      BY DEF LanguageIndices
    <3>2. n \in LanguageFacts
      BY <3>1, FileTypes DEF IInv, TypeOK, AllFacts
    <3>3. PICK t \in DOMAIN file.tag :
            n = [parameter |-> Language, stream |-> t, value |-> Canonical[file.tag[t]]]
      BY <3>2 DEF LanguageFacts
    <3>4. Canonical[Canonical[file.tag[t]]] = Canonical[file.tag[t]]
      BY FileTypes, CanonicalAssumption DEF IInv, TypeOK
    <3> QED
      BY <3>1, <3>3, <3>4
  <2> QED
    BY <1>1, <2>1 DEF Selected, Covered
<1>2. CASE r.selector.by # "language"
  BY <1>2, SelectorTypes DEF Selected, Covered
<1> QED
  BY <1>1, <1>2

(* A rule that is not blind selects what it is about. *)
LEMMA SelectsWhatItMeans ==
  ASSUME IInv, ran = Len(Detectors), NEW r \in Rules, ~Blind(r)
  PROVE  Selected(r, measurements) = Covered(r)
<1>1. CASE r.selector.by = "language"
  <2>1. {m \in measurements : m.parameter = Language} = LanguageFacts
    BY <1>1, LanguagesSeen DEF Blind
  <2> DEFINE w == Canonical[r.selector.language]
  <2>2. LanguageIndices(r, measurements)
          = {m.stream : m \in {n \in LanguageFacts : Canonical[n.value] = w /\ n.stream # NoStream}}
    BY <2>1 DEF LanguageIndices
  <2>3. DOMAIN file.tag \subseteq Streams /\ \A s \in DOMAIN file.tag : file.tag[s] \in Spellings
    BY FileTypes DEF IInv, TypeOK
  <2>4. \A s \in DOMAIN file.tag :
          s # NoStream /\ Canonical[Canonical[file.tag[s]]] = Canonical[file.tag[s]]
    BY <2>3, StreamsAssumption, CanonicalAssumption DEF NoStream
  <2>5. LanguageIndices(r, measurements) = {s \in DOMAIN file.tag : Canonical[file.tag[s]] = w}
    <3>1. ASSUME NEW s \in DOMAIN file.tag, Canonical[file.tag[s]] = w
          PROVE  s \in LanguageIndices(r, measurements)
      <4> DEFINE m == [parameter |-> Language, stream |-> s, value |-> Canonical[file.tag[s]]]
      <4>1. m \in LanguageFacts /\ Canonical[m.value] = w /\ m.stream # NoStream /\ m.stream = s
        BY <2>4, <3>1 DEF LanguageFacts
      <4> QED
        BY <4>1, <2>2
    <3>2. LanguageIndices(r, measurements) \subseteq {s \in DOMAIN file.tag : Canonical[file.tag[s]] = w}
      BY <1>1, SelectsNothingElse DEF Selected, Covered
    <3> QED
      BY <3>1, <3>2
  <2> QED
    BY <1>1, <2>5 DEF Selected, Covered
<1>2. CASE r.selector.by # "language"
  BY <1>2, SelectorTypes DEF Selected, Covered
<1> QED
  BY <1>1, <1>2

(* When its parameter was measured, it finds what the file holds of it. *)
LEMMA SeesTheTruth ==
  ASSUME IInv, ran = Len(Detectors), NEW r \in Rules, r.parameter \notin failed, ~Blind(r)
  PROVE  Candidates(r, measurements) = Truth(r)
<1>1. PICK i \in Ids : r.parameter \in Owned[Detectors[i]]
  BY SelectorTypes, EveryParameterIsOwned
<1>2. i <= ran /\ Detectors[i] \notin crashed
  BY <1>1, FourDetectors DEF IInv, DetectorInv, Ids
<1>3. Measured(Detectors[i]) \subseteq measurements
  BY <1>2 DEF IInv, DetectorInv
<1>4. measurements \subseteq AllFacts
  BY DEF IInv, TypeOK
<1>5. \A m \in AllFacts : m.parameter = r.parameter => m \in measurements
  BY <1>1, <1>3 DEF Measured
<1>6. Selected(r, measurements) = Covered(r)
  BY SelectsWhatItMeans
<1> QED
  BY <1>4, <1>5, <1>6 DEF Candidates, Truth

(* A rule by language finds nothing when the languages were not measured:  *)
(* the detector that failed had measured none.                             *)
LEMMA BlindSelectsNothing ==
  ASSUME IInv, ran = Len(Detectors), NEW r \in Rules, Blind(r)
  PROVE  Candidates(r, measurements) = {}
<1>1. PICK i \in Ids : Language \in Owned[Detectors[i]]
  BY LanguageIsOwned, EveryParameterIsOwned
<1>2. i <= ran /\ Language \in failed /\ r.selector.by = "language"
  BY <1>1, FourDetectors DEF Ids, Blind
<1>3. Detectors[i] \in crashed
  BY <1>1, <1>2 DEF IInv, DetectorInv
<1>4. \A m \in measurements : m.parameter # Language
  BY <1>1, <1>3 DEF IInv, DetectorInv
<1>5. LanguageIndices(r, measurements) = {}
  BY <1>4 DEF LanguageIndices
<1> QED
  BY <1>2, <1>5 DEF Candidates, Selected

(* What a rule that finds nothing may say. *)
LEMMA NothingFound ==
  ASSUME NEW r \in Rules, NEW ms, NEW fs, Candidates(r, ms) = {}
  PROVE  /\ StatusOf(r, ms, fs) = "PASS" => r.operator = "not_exists"
         /\ StatusOf(r, ms, fs) = "FAIL" => r.operator = "exists"
<1>1. r.operator \in {"exists", "not_exists", "compare"}
  BY SelectorTypes
<1> QED
  BY <1>1 DEF StatusOf, Passes, FailStatus

(* A status is right when what is found is true. *)
LEMMA PassedMeansItHolds ==
  ASSUME NEW r \in Rules, NEW ms, NEW fs, Candidates(r, ms) = Truth(r)
  PROVE  /\ StatusOf(r, ms, fs) = "PASS" => Holds(r) \/ SilentPass(r)
         /\ StatusOf(r, ms, fs) \in {"FAIL", "WARNING"} => Breaks(r)
<1>1. /\ r.operator \in {"exists", "not_exists", "compare"}
      /\ r.quantifier \in {"all", "any", "exactly_one"}
  BY SelectorTypes
<1>2. Quantified(r, Truth(r)) <=> Conforms(r)
  <2>1. CASE r.quantifier = "all"
    BY <2>1 DEF Quantified, Conforming, Conforms
  <2>2. CASE r.quantifier = "any"
    BY <2>2 DEF Quantified, Conforming, Conforms
  <2>3. CASE r.quantifier = "exactly_one"
    BY <2>3 DEF Quantified, Conforming, Conforms
  <2> QED
    BY <1>1, <2>1, <2>2, <2>3
<1>3. StatusOf(r, ms, fs) = "PASS" =>
        Passes(r, Truth(r)) /\ (r.operator = "compare" => Truth(r) # {})
  BY DEF StatusOf, FailStatus
<1>4. StatusOf(r, ms, fs) \in {"FAIL", "WARNING"} =>
        ~Passes(r, Truth(r)) /\ (r.operator = "compare" => Truth(r) # {})
  BY DEF StatusOf, FailStatus
<1>5. CASE r.operator = "exists"
  BY <1>3, <1>4, <1>5 DEF Passes, Holds, Breaks
<1>6. CASE r.operator = "not_exists"
  BY <1>3, <1>4, <1>6 DEF Passes, Holds, Breaks, SilentPass
<1>7. CASE r.operator = "compare"
  BY <1>2, <1>3, <1>4, <1>7 DEF Passes, Holds, Breaks, SilentPass
<1> QED
  BY <1>1, <1>5, <1>6, <1>7

(* A rule that fails was enabled, and its parameter had not failed.        *)
LEMMA FailedRulesWereEvaluated ==
  ASSUME NEW r, NEW ms, NEW fs
  PROVE  /\ StatusOf(r, ms, fs) = "FAIL" => r.enabled /\ r.parameter \notin fs
         /\ r.enabled /\ r.parameter \in fs => StatusOf(r, ms, fs) = "ERROR"
         /\ StatusOf(r, ms, fs) = "NOT_APPLICABLE" => ~r.enabled
  BY DEF StatusOf, FailStatus
-----------------------------------------------------------------------------
(* The invariant *)

(* The initial states. *)
LEMMA InitInv == Init => IInv
<1> SUFFICES ASSUME Init PROVE IInv
  OBVIOUS
<1>1. TypeOK
  BY FourDetectors, MaxRulesAssumption DEF Init, TypeOK
<1>2. DetectorInv
  BY DEF Init, DetectorInv, Ids
<1>3. FindingInv
  BY DEF Init, FindingInv
<1> QED
  BY <1>1, <1>2, <1>3 DEF IInv

(* The types of a finding. *)
LEMMA FindingTypes ==
  ASSUME TypeOK, NEW r \in Rules
  PROVE  Finding(r, measurements, failed)
           \in [rule : Rules, status : Statuses, stream : Streams \cup {NoStream}]
<1> DEFINE found == Candidates(r, measurements)
<1>1. found \subseteq AllFacts
  BY DEF TypeOK, Candidates
<1>2. \A m \in found : m.stream \in Streams \cup {NoStream}
  BY <1>1, FactTypes DEF TypeOK
<1>3. found # {} =>
        /\ First(found).stream \in Streams \cup {NoStream}
        /\ Offender(r, found).stream \in Streams \cup {NoStream}
  BY <1>2, FirstIsOne, OffenderIsOne
<1>4. StreamOf(r, measurements, failed) \in Streams \cup {NoStream}
  BY <1>3 DEF StreamOf
<1> QED
  BY <1>4, StatusTypes DEF Finding

(* Every step keeps the invariant. *)
LEMMA StepInv == IInv /\ [Next]_vars => IInv'
<1> SUFFICES ASSUME IInv, [Next]_vars PROVE IInv'
  OBVIOUS
<1>0. CASE UNCHANGED vars
  BY <1>0 DEF vars, IInv, TypeOK, DetectorInv, FindingInv, AllFacts, LanguageFacts, Measured
<1>1. CASE DetectorMeasures
  <2> DEFINE d == Detectors[ran + 1]
  <2>1. /\ ran \in 0..3 /\ ran + 1 \in Ids
        /\ findings = <<>> /\ ran' = ran + 1
        /\ measurements' = measurements \cup Measured(d)
        /\ UNCHANGED <<file, crashed, failed, findings, verdict>>
    BY <1>1, FourDetectors DEF DetectorMeasures, IInv, TypeOK, FindingInv, Ids
  <2>2. AllFacts' = AllFacts /\ \A e : Measured(e)' = Measured(e)
    BY <2>1 DEF AllFacts, LanguageFacts, Measured
  <2>3. TypeOK'
    BY <2>1, <2>2, FourDetectors DEF IInv, TypeOK, Measured
  <2>4. DetectorInv'
    <3> SUFFICES ASSUME NEW i \in Ids
                 PROVE  LET e == Detectors[i] IN
                        /\ e \in crashed =>
                             /\ i <= ran' /\ Owned[e] \subseteq failed
                             /\ \A m \in measurements' : m.parameter \notin Owned[e]
                        /\ i <= ran' /\ e \notin crashed =>
                             Measured(e) \subseteq measurements' /\ Owned[e] \cap failed = {}
                        /\ ran' < i => \A m \in measurements' : m.parameter \notin Owned[e]
                        /\ ran' < i => Owned[e] \cap failed = {}
      BY <2>1, <2>2 DEF DetectorInv
    <3>1. DetectorInv /\ i \in Int /\ ran \in Int
      BY <2>1 DEF IInv, Ids
    <3>2. CASE i = ran + 1
      BY <3>1, <3>2, <2>1 DEF DetectorInv
    <3>3. CASE i # ran + 1
      <4>1. Owned[Detectors[i]] \cap Owned[d] = {}
        BY <3>3, <2>1, OwnersDiffer
      <4>2. \A m \in Measured(d) : m.parameter \notin Owned[Detectors[i]]
        BY <4>1 DEF Measured
      <4> QED
        BY <3>1, <3>3, <4>2, <2>1 DEF DetectorInv
    <3> QED
      BY <3>2, <3>3
  <2>5. FindingInv'
    BY <2>1 DEF IInv, FindingInv, AggregateStatus, Blocking
  <2> QED
    BY <2>3, <2>4, <2>5 DEF IInv
<1>2. CASE DetectorFails
  <2> DEFINE d == Detectors[ran + 1]
  <2>1. /\ ran \in 0..3 /\ ran + 1 \in Ids
        /\ findings = <<>> /\ ran' = ran + 1
        /\ crashed' = crashed \cup {d}
        /\ failed' = failed \cup (Owned[d] \ {m.parameter : m \in measurements})
        /\ UNCHANGED <<file, measurements, findings, verdict>>
    BY <1>2, FourDetectors DEF DetectorFails, IInv, TypeOK, FindingInv, Ids
  <2>2. AllFacts' = AllFacts /\ \A e : Measured(e)' = Measured(e)
    BY <2>1 DEF AllFacts, LanguageFacts, Measured
  <2>3. failed' = failed \cup Owned[d]
    <3>1. \A m \in measurements : m.parameter \notin Owned[d]
      BY <2>1 DEF IInv, DetectorInv
    <3> QED
      BY <3>1, <2>1
  <2>4. d \in DOMAIN Owned /\ Owned[d] \subseteq Parameters
    BY <2>1, WhatTheyOwn DEF Parameters
  <2>5. TypeOK'
    BY <2>1, <2>2, <2>3, <2>4, FourDetectors DEF IInv, TypeOK
  <2>6. DetectorInv'
    <3> SUFFICES ASSUME NEW i \in Ids
                 PROVE  LET e == Detectors[i] IN
                        /\ e \in crashed' =>
                             /\ i <= ran' /\ Owned[e] \subseteq failed'
                             /\ \A m \in measurements : m.parameter \notin Owned[e]
                        /\ i <= ran' /\ e \notin crashed' =>
                             Measured(e) \subseteq measurements /\ Owned[e] \cap failed' = {}
                        /\ ran' < i => \A m \in measurements : m.parameter \notin Owned[e]
                        /\ ran' < i => Owned[e] \cap failed' = {}
      BY <2>1, <2>2 DEF DetectorInv
    <3>1. DetectorInv /\ i \in Int /\ ran \in Int
      BY <2>1 DEF IInv, Ids
    <3>2. CASE i = ran + 1
      BY <3>1, <3>2, <2>1, <2>3 DEF DetectorInv
    <3>3. CASE i # ran + 1
      <4>1. Owned[Detectors[i]] \cap Owned[d] = {} /\ Detectors[i] # d
        BY <3>3, <2>1, OwnersDiffer, DetectorsDiffer
      <4> QED
        BY <3>1, <3>3, <4>1, <2>1, <2>3 DEF DetectorInv
    <3> QED
      BY <3>2, <3>3
  <2>7. FindingInv'
    BY <2>1 DEF IInv, FindingInv, AggregateStatus, Blocking
  <2> QED
    BY <2>5, <2>6, <2>7 DEF IInv
<1>3. ASSUME NEW r \in Rules, Evaluate(r) PROVE IInv'
  <2> DEFINE f == Finding(r, measurements, failed)
  <2>1. /\ ran = Len(Detectors) /\ verdict = "none" /\ Len(findings) < MaxRules
        /\ findings' = Append(findings, f)
        /\ UNCHANGED <<file, ran, crashed, measurements, failed, verdict>>
    BY <1>3 DEF Evaluate
  <2>2. f \in [rule : Rules, status : Statuses, stream : Streams \cup {NoStream}]
    BY FindingTypes DEF IInv
  <2>3. /\ findings' \in Seq([rule : Rules, status : Statuses, stream : Streams \cup {NoStream}])
        /\ Len(findings') = Len(findings) + 1
        /\ DOMAIN findings' = 1..Len(findings) + 1
        /\ \A i \in 1..Len(findings) : findings'[i] = findings[i]
        /\ findings'[Len(findings) + 1] = f
    <3> HIDE DEF f
    <3> QED
      BY <2>1, <2>2 DEF IInv, TypeOK
  <2>4. AllFacts' = AllFacts /\ \A e : Measured(e)' = Measured(e)
    BY <2>1 DEF AllFacts, LanguageFacts, Measured
  <2>5. TypeOK'
    BY <2>1, <2>3, <2>4, MaxRulesAssumption DEF IInv, TypeOK
  <2>6. DetectorInv'
    BY <2>1, <2>4 DEF IInv, DetectorInv
  <2>7. FindingInv'
    <3>1. f = Finding(f.rule, measurements, failed)
      BY DEF Finding
    <3>2. \A i \in DOMAIN findings' :
            findings'[i] = Finding(findings'[i].rule, measurements, failed)
      <4> HIDE DEF f
      <4> QED
        BY <2>3, <3>1 DEF IInv, TypeOK, FindingInv
    <3> QED
      BY <2>1, <3>2 DEF IInv, FindingInv
  <2> QED
    BY <2>5, <2>6, <2>7 DEF IInv
<1>4. CASE BuildSummary
  <2>1. /\ verdict' = AggregateStatus(findings)
        /\ UNCHANGED <<file, ran, crashed, measurements, failed, findings>>
    BY <1>4 DEF BuildSummary
  <2>2. AllFacts' = AllFacts /\ \A e : Measured(e)' = Measured(e)
    BY <2>1 DEF AllFacts, LanguageFacts, Measured
  <2>3. AggregateStatus(findings) \in Verdicts
    BY DEF AggregateStatus, Verdicts
  <2>4. TypeOK'
    BY <2>1, <2>2, <2>3 DEF IInv, TypeOK
  <2>5. DetectorInv'
    BY <2>1, <2>2 DEF IInv, DetectorInv
  <2>6. FindingInv'
    BY <2>1 DEF IInv, FindingInv, AggregateStatus, Blocking
  <2> QED
    BY <2>4, <2>5, <2>6 DEF IInv
<1> QED
  BY <1>0, <1>1, <1>2, <1>3, <1>4 DEF Next

(* The invariant holds always. *)
LEMMA Invariant == Spec => []IInv
  BY InitInv, StepInv, PTL DEF Spec
-----------------------------------------------------------------------------
(* The theorems *)

(* Types of the pipeline's state, for every file and preset.               *)
THEOREM TypeCorrect == Spec => []TypeOK
  BY Invariant, PTL DEF IInv

(* A finding comes after the detectors, with the status and stream of its rule. *)
LEMMA Evaluated ==
  ASSUME IInv, NEW i \in DOMAIN findings
  PROVE  /\ ran = Len(Detectors)
         /\ findings[i].rule \in Rules
         /\ findings[i].status = StatusOf(findings[i].rule, measurements, failed)
         /\ findings[i].stream = StreamOf(findings[i].rule, measurements, failed)
         /\ findings[i].status \in Statuses
<1>1. findings # <<>> /\ findings \in Seq([rule : Rules, status : Statuses, stream : Streams \cup {NoStream}])
  BY DEF IInv, TypeOK
<1> DEFINE T == [rule : Rules, status : Statuses, stream : Streams \cup {NoStream}]
<1>2. findings[i] \in T
  <2> HIDE DEF T
  <2>1. DOMAIN findings = 1..Len(findings) /\ findings \in Seq(T)
    BY <1>1 DEF T
  <2> QED
    BY <2>1
<1>3. findings[i] = Finding(findings[i].rule, measurements, failed)
  BY DEF IInv, FindingInv
<1> QED
  BY <1>1, <1>2, <1>3 DEF IInv, FindingInv, Finding

(* Whichever detectors failed, a PASS means that every enabled blocking    *)
(* rule holds of the file on every stream it means, or is one of the three *)
(* kinds that pass without an answer (SilentPass).                         *)
THEOREM PassCorrect == Spec => []PassIsTrue
<1>1. ASSUME IInv, verdict = "PASS", NEW r \in Ruled, Gates(r)
      PROVE  Holds(r) \/ SilentPass(r)
  <2>1. PICK i \in DOMAIN findings : r = findings[i].rule
    BY <1>1 DEF Ruled
  <2>2. AggregateStatus(findings) = "PASS"
    BY <1>1 DEF IInv, FindingInv
  <2>3. findings[i].status \notin {"ERROR", "SKIPPED", "FAIL", "WARNING"}
    BY <1>1, <2>1, <2>2 DEF AggregateStatus, Blocking, Gates
  <2>4. findings[i].status # "NOT_APPLICABLE"
    BY <1>1, <2>1, Evaluated, FailedRulesWereEvaluated DEF Gates
  <2>5. StatusOf(r, measurements, failed) = "PASS"
    BY <1>1, <2>1, <2>3, <2>4, Evaluated DEF Statuses
  <2>6. r \in Rules /\ ran = Len(Detectors)
    BY <1>1, <2>1, Evaluated
  <2>7. r.parameter \notin failed
    BY <1>1, <2>5, FailedRulesWereEvaluated DEF Gates
  <2>8. CASE Blind(r)
    BY <1>1, <2>5, <2>6, <2>8, BlindSelectsNothing, NothingFound DEF SilentPass
  <2>9. CASE ~Blind(r)
    <3>1. Candidates(r, measurements) = Truth(r)
      BY <1>1, <2>6, <2>7, <2>9, SeesTheTruth
    <3> QED
      BY <2>5, <2>6, <3>1, PassedMeansItHolds
  <2> QED
    BY <2>8, <2>9
<1>2. IInv => PassIsTrue
  BY <1>1 DEF PassIsTrue
<1> QED
  BY <1>2, Invariant, PTL

(* A FAIL means that the file breaks an enabled blocking rule, or that one *)
(* of them asks that something exists in a language, and no language could *)
(* be measured.                                                            *)
THEOREM FailCorrect == Spec => []FailIsTrue
<1>1. ASSUME IInv, verdict = "FAIL"
      PROVE  \E r \in Ruled : Gates(r) /\ (Breaks(r) \/ (r.operator = "exists" /\ Blind(r)))
  <2>1. AggregateStatus(findings) = "FAIL"
    BY <1>1 DEF IInv, FindingInv
  <2>2. PICK i \in DOMAIN findings : findings[i].rule.blocking /\ findings[i].status = "FAIL"
    BY <2>1 DEF AggregateStatus, Blocking
  <2> DEFINE r == findings[i].rule
  <2>3. r \in Rules /\ ran = Len(Detectors) /\ StatusOf(r, measurements, failed) = "FAIL"
    BY <1>1, <2>2, Evaluated
  <2>4. r.enabled /\ r.parameter \notin failed
    BY <2>3, FailedRulesWereEvaluated
  <2>5. CASE Blind(r)
    <3>1. Candidates(r, measurements) = {}
      BY <1>1, <2>3, <2>5, BlindSelectsNothing
    <3>2. r.operator = "exists"
      BY <2>3, <3>1, NothingFound
    <3> QED
      BY <2>2, <2>4, <2>5, <3>2 DEF Ruled, Gates
  <2>6. CASE ~Blind(r)
    <3>1. Breaks(r)
      BY <1>1, <2>3, <2>4, <2>6, SeesTheTruth, PassedMeansItHolds
    <3> QED
      BY <2>2, <2>4, <3>1 DEF Ruled, Gates
  <2> QED
    BY <2>5, <2>6
<1>2. IInv => FailIsTrue
  BY <1>1 DEF FailIsTrue
<1> QED
  BY <1>2, Invariant, PTL

(* An enabled blocking rule over a detector that failed makes the verdict  *)
(* ERROR, whatever the other rules say.                                    *)
THEOREM FailureCorrect == Spec => []FailedIsError
<1>1. ASSUME IInv, verdict # "none",
             NEW r \in Ruled, Gates(r), NEW d \in crashed, r.parameter \in Owned[d]
      PROVE  verdict = "ERROR"
  <2>1. PICK i \in DOMAIN findings : r = findings[i].rule
    BY <1>1 DEF Ruled
  <2>2. PICK k \in Ids : d = Detectors[k]
    BY <1>1, WhatTheyOwn DEF IInv, TypeOK
  <2>3. r.parameter \in failed
    BY <1>1, <2>2 DEF IInv, DetectorInv
  <2>4. findings[i].status = "ERROR"
    BY <1>1, <2>1, <2>3, Evaluated, FailedRulesWereEvaluated DEF Gates
  <2>5. AggregateStatus(findings) = "ERROR"
    BY <1>1, <2>1, <2>4 DEF AggregateStatus, Blocking, Gates
  <2> QED
    BY <1>1, <2>5 DEF IInv, FindingInv
<1>2. IInv => FailedIsError
  BY <1>1 DEF FailedIsError
<1> QED
  BY <1>2, Invariant, PTL

(* The stream a failing finding names is one that breaks the rule.         *)
THEOREM OffenderCorrect == Spec => []OffenderIsReal
<1>1. ASSUME IInv, NEW i \in DOMAIN findings,
             findings[i].status \in {"FAIL", "WARNING"},
             findings[i].rule.operator # "exists",
             findings[i].rule.quantifier # "exactly_one"
      PROVE  \E m \in Truth(findings[i].rule) :
               /\ m.stream = findings[i].stream
               /\ findings[i].rule.operator = "compare" => m.value \notin findings[i].rule.accepts
  <2> DEFINE r == findings[i].rule
             found == Candidates(r, measurements)
  <2>1. /\ r \in Rules /\ ran = Len(Detectors)
        /\ StatusOf(r, measurements, failed) \in {"FAIL", "WARNING"}
        /\ findings[i].stream = StreamOf(r, measurements, failed)
    BY <1>1, Evaluated
  <2>2. r.enabled /\ r.parameter \notin failed
    BY <2>1 DEF StatusOf
  <2>3. ~Passes(r, found) /\ (r.operator = "compare" => found # {})
    BY <2>1 DEF StatusOf, FailStatus
  <2>4. r.operator \in {"not_exists", "compare"} /\ r.quantifier \in {"all", "any"}
    BY <1>1, <2>1, SelectorTypes
  <2>5. found # {}
    BY <2>3, <2>4 DEF Passes
  <2>6. \A m \in found : m.stream \in Streams \cup {NoStream}
    BY <1>1, FactTypes DEF IInv, TypeOK, Candidates
  <2>7. r.operator = "compare" => Conforming(r, found) # found
    BY <2>3, <2>4, <2>5 DEF Passes, Quantified
  <2>8. /\ Offender(r, found) \in found
        /\ r.operator = "compare" => Offender(r, found).value \notin r.accepts
    BY <2>5, <2>6, <2>7, OffenderIsOne
  <2>9. findings[i].stream = Offender(r, found).stream
    BY <2>1, <2>5 DEF StreamOf
  <2>10. found \subseteq Truth(r)
    BY <1>1, <2>1, SelectsNothingElse DEF IInv, TypeOK, Candidates, Truth
  <2> QED
    BY <2>8, <2>9, <2>10
<1>2. IInv => OffenderIsReal
  BY <1>1 DEF OffenderIsReal
<1> QED
  BY <1>2, Invariant, PTL

(* No further rule makes a verdict better.                                 *)
THEOREM VerdictCorrect == Spec => VerdictNeverImproves
<1>1. ASSUME IInv, [Next]_vars
      PROVE  Rank[AggregateStatus(findings)] <= Rank[AggregateStatus(findings')]
  <2>1. CASE UNCHANGED findings
    BY <2>1 DEF AggregateStatus, Blocking, Rank
  <2>2. ASSUME NEW r \in Rules, Evaluate(r)
        PROVE  Rank[AggregateStatus(findings)] <= Rank[AggregateStatus(findings')]
    <3> DEFINE f == Finding(r, measurements, failed)
    <3>1. findings' = Append(findings, f)
      BY <2>2 DEF Evaluate
    <3>2. /\ DOMAIN findings \subseteq DOMAIN findings'
          /\ \A i \in DOMAIN findings : findings'[i] = findings[i]
      <4> HIDE DEF f
      <4>1. findings \in Seq([rule : Rules, status : Statuses, stream : Streams \cup {NoStream}])
        BY <1>1 DEF IInv, TypeOK
      <4>2. f \in [rule : Rules, status : Statuses, stream : Streams \cup {NoStream}]
        BY <1>1, <2>2, FindingTypes DEF IInv, f
      <4> QED
        BY <3>1, <4>1, <4>2
    <3>3. \A S : Blocking(findings, S) => Blocking(findings', S)
      BY <3>2 DEF Blocking
    <3>4. (\E i \in DOMAIN findings : findings[i].status \in {"FAIL", "WARNING", "ERROR"})
            => \E i \in DOMAIN findings' : findings'[i].status \in {"FAIL", "WARNING", "ERROR"}
      BY <3>2
    <3> QED
      BY <3>3, <3>4 DEF AggregateStatus, Rank
  <2> QED
    BY <1>1, <2>1, <2>2 DEF Next, vars, DetectorMeasures, DetectorFails, BuildSummary
<1> QED
  BY <1>1, Invariant, PTL DEF Spec, VerdictNeverImproves
=============================================================================
