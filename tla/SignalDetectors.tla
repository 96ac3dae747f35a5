--------------------------- MODULE SignalDetectors ---------------------------
(***************************************************************************)
(* The detectors that decode: detectors/audio (one pass for loudness,      *)
(* silence, clipping and windowed RMS; a second one for dual mono) and     *)
(* detectors/video/incidents.py.  A detector asks ffprobe for the streams, *)
(* runs ffmpeg once per stream and reads the events out of its log; it     *)
(* delivers all its measurements or, when a tool fails, none.              *)
(*                                                                         *)
(* A file is what there is to hear and to see, tick by tick.  What ffmpeg  *)
(* prints about it is external and derived from that content; what the     *)
(* detectors make of the log is this module.  Levels are 0 for below       *)
(* -90 dB, 1 for up to -60 dB and 2 for programme.                         *)
(***************************************************************************)
EXTENDS Integers, Sequences, FiniteSets

CONSTANTS
  Assets,        \* the files that may be analysed
  MinSilence,    \* MIN_SILENCE_SECONDS, in ticks
  Window,        \* RMS_WINDOW_SECONDS, in ticks
  MinBlack,      \* BLACK_MIN_DURATION, in ticks
  MinFreeze,     \* FREEZE_MIN_DURATION, in ticks
  MaxChannels,   \* MAX_ANALYZED_CHANNELS
  LastOverall,   \* which of the two astats instances ffmpeg tears down last: "whole", "window"
  Unknown        \* a duration, a channel count or a time that is not given

VARIABLES
  asset,     \* the file, Unknown before one is opened
  detector,  \* the detector that runs, "idle", or "done"
  stream,    \* how many streams it has analysed
  produced,  \* what it has measured so far
  measured,  \* the measurements of those that ran
  broken,    \* the detectors that failed: DetectorRunError
  raised     \* an exception that is none: the analysis ends

signalVars == <<asset, detector, stream, produced, measured, broken, raised>>

(* Every stream holds something; a duration is declared in whole ticks or   *)
(* not at all.                                                             *)
ASSUME SignalAssumption ==
  /\ Window \in Nat \ {0} /\ MaxChannels \in Nat
  /\ LastOverall \in {"whole", "window"}
  /\ Unknown \notin Int
  /\ \A a \in Assets :
       /\ a.duration \in Nat \cup {Unknown}
       /\ Len(a.streams) \in Nat /\ DOMAIN a.streams = 1..Len(a.streams)
       /\ \A i \in DOMAIN a.streams :
            LET x == a.streams[i]
            IN /\ x.duration \in Nat \cup {Unknown}
               /\ x.kind = "audio" => x.levels \in Seq(0..2) /\ x.levels # <<>> /\ x.channels \in Seq(STRING)
               /\ x.kind = "video" => x.frames \in Seq(Nat) /\ x.frames # <<>>

SignalInit ==
  /\ asset = Unknown /\ detector = "idle" /\ stream = 0
  /\ produced = {} /\ measured = {} /\ broken = {} /\ raised = FALSE

SmallerOf(a, b) == IF a < b THEN a ELSE b
LargerOf(a, b) == IF a > b THEN a ELSE b

(* The elements of S, each after all those that R puts before it. *)
Arranged(S, R) ==
  [k \in 1..Cardinality(S) |->
     CHOOSE x \in S : Cardinality({y \in S : <<y, x>> \in R}) = k - 1]

(* ------------------------------------------- what ffmpeg prints -------- *)

(* The maximal stretches of 1..n that are at least `least` long and in T.   *)
Stretches(n, least, T) ==
  {s \in [start : 0..n, end : 0..n] :
     /\ s.end - s.start >= least /\ s.end > s.start
     /\ (s.start + 1)..s.end \subseteq T
     /\ s.start \notin T
     /\ s.end + 1 \notin T}

InOrder(S) == Arranged(S, {p \in S \X S : p[1].start < p[2].start})

Silences(x) == Stretches(Len(x.levels), MinSilence, {t \in DOMAIN x.levels : x.levels[t] < 2})
Blacks(x) == Stretches(Len(x.frames), MinBlack, {t \in DOMAIN x.frames : x.frames[t] = 0})
(* A frame is frozen when it or its successor repeats the one before. *)
Freezes(x) ==
  Stretches(Len(x.frames), MinFreeze,
    {t \in 2..Len(x.frames) : x.frames[t] = x.frames[t - 1]})

(* An event that runs to the end of the stream has a start and no end.     *)
OpenLog(spans, n) ==
  [starts |-> [k \in DOMAIN spans |-> spans[k].start],
   ends   |-> [k \in 1..Cardinality({k \in DOMAIN spans : spans[k].end < n}) |-> spans[k].end]]

(* One line per window with its RMS level; the last window may be short.   *)
WindowLog(x) ==
  LET n == Len(x.levels)
      count == (n + Window - 1) \div Window
  IN [k \in 1..count |->
        [start |-> (k - 1) * Window,
         low   |-> \A t \in ((k - 1) * Window + 1)..SmallerOf(k * Window, n) : x.levels[t] = 0]]

PeakOf(x, from) == CHOOSE l \in 0..2 : (\E t \in from..Len(x.levels) : x.levels[t] = l)
                                /\ \A t \in from..Len(x.levels) : x.levels[t] <= l
(* The Overall blocks of astats: one over the stream, one that the windowed *)
(* instance has reset at its last window (ADR-026 warns of the second).    *)
OverallPeak(x) ==
  IF LastOverall = "whole" THEN PeakOf(x, 1)
  ELSE PeakOf(x, (Len(WindowLog(x)) - 1) * Window + 1)

(* ----------------------------------------------- common.py ------------- *)

(* list_audio_streams: the position of each audio stream in the file, with *)
(* the container's duration for a stream that declares none.               *)
StreamsOf(a, kind) == {i \in DOMAIN a.streams : a.streams[i].kind = kind}
AudioIndex(a) ==
  LET A == StreamsOf(a, "audio") IN Arranged(A, {p \in A \X A : p[1] < p[2]})
FaultyDurationOf(a, i) == a.streams[i].duration
DurationOf(a, i) ==
  IF a.streams[i].duration # Unknown THEN a.streams[i].duration ELSE a.duration

(* run_audio_filter maps the stream by its place among the audio streams.  *)
Mapped(a, kind, ordinal) ==
  CHOOSE i \in StreamsOf(a, kind) :
    Cardinality({j \in StreamsOf(a, kind) : j <= i}) = ordinal

Fact(p, i, v, from, to) == [parameter |-> p, stream |-> i, value |-> v, start |-> from, end |-> to]
Spans(p, i, spans) == {Fact(p, i, s.end - s.start, s.start, s.end) : s \in spans}

(* ------------------------------------ silence.py and incidents.py ------- *)

(* parse_silences and parse_freeze_events pair the k-th start with the     *)
(* k-th end; a start without an end runs to the end of the stream, if its   *)
(* duration is known, and is dropped if not.                               *)
Paired(log, duration) ==
  LET n == IF duration # Unknown THEN Len(log.starts) ELSE Len(log.ends)
  IN [k \in 1..n |->
        [start |-> LargerOf(log.starts[k], 0),
         end   |-> IF k <= Len(log.ends) THEN log.ends[k] ELSE duration]]

(* classify, with tenths of a second below the tick: the last span at the  *)
(* head, the last one at the tail, the rest.                               *)
AtHead(s) == s.start <= 0
AtTail(s, duration) == duration # Unknown /\ s.end >= duration
LastLength(spans, S) ==
  IF S = {} THEN 0
  ELSE LET k == CHOOSE k \in S : \A l \in S : l <= k IN spans[k].end - spans[k].start

HeadLength(spans) == LastLength(spans, {k \in DOMAIN spans : AtHead(spans[k])})
TailLength(spans, duration) == LastLength(spans, {k \in DOMAIN spans : AtTail(spans[k], duration)})
Internal(spans, duration) ==
  {spans[k] : k \in {l \in DOMAIN spans : ~ AtHead(spans[l]) /\ ~ AtTail(spans[l], duration)}}

SilenceFacts(i, spans, duration) ==
  LET head == HeadLength(spans)
      tail == TailLength(spans, duration)
      internal == Internal(spans, duration)
  IN {Fact("head_silence", i, head, IF head > 0 THEN 0 ELSE Unknown, IF head > 0 THEN head ELSE Unknown),
      Fact("tail_silence", i, tail, IF tail > 0 THEN duration - tail ELSE Unknown,
                                    IF tail > 0 THEN duration ELSE Unknown),
      Fact("internal_silences", i, Cardinality(internal), Unknown, Unknown)}
     \cup Spans("internal_silence", i, internal)

(* ---------------------------------------------- min_rms.py -------------- *)

(* close: a run of low windows ends where the next window starts, or a      *)
(* window's length after the last one started, but not past the duration.  *)
RunEnd(windows, k, duration) ==
  LET end == IF k < Len(windows) THEN windows[k + 1].start ELSE windows[k].start + Window
  IN IF duration # Unknown THEN SmallerOf(end, duration) ELSE end

(* merge_low_rms_events *)
LowRuns(windows, duration) ==
  {[start |-> windows[r.start + 1].start, end |-> RunEnd(windows, r.end, duration)]
     : r \in Stretches(Len(windows), 1, {k \in DOMAIN windows : windows[k].low})}

LowRmsFacts(i, windows, duration) ==
  LET runs == LowRuns(windows, duration)
  IN {Fact("low_rms_count", i, Cardinality(runs), Unknown, Unknown)} \cup Spans("low_rms", i, runs)

(* ------------------------------------- loudness.py and clipping.py ------ *)

(* A value that is not finite is left out: the peak of digital silence, the *)
(* loudness of what never passes the gate.                                 *)
PeakFacts(i, x) ==
  IF OverallPeak(x) = 0 THEN {} ELSE {Fact("peak_level", i, OverallPeak(x), Unknown, Unknown)}
LoudnessFacts(i, x) ==
  IF \A t \in DOMAIN x.levels : x.levels[t] < 2 THEN {}
  ELSE {Fact("integrated_loudness", i, 2, Unknown, Unknown)}

AnalysisFacts(a, ordinal) ==
  LET i == AudioIndex(a)[ordinal]
      x == a.streams[Mapped(a, "audio", ordinal)]
      duration == DurationOf(a, i)
  IN SilenceFacts(i, Paired(OpenLog(InOrder(Silences(x)), Len(x.levels)), duration), duration)
     \cup LowRmsFacts(i, WindowLog(x), duration)
     \cup PeakFacts(i, x) \cup LoudnessFacts(i, x)

(* --------------------------------------------- dual_mono.py ------------- *)

(* channel_pairs, in the order of itertools.combinations. *)
Before(p, q) == p[1] < q[1] \/ (p[1] = q[1] /\ p[2] < q[2])
PairsOf(count) == {p \in (1..count) \X (1..count) : p[1] < p[2]}
ChannelPairs(count) ==
  Arranged(PairsOf(count), {p \in PairsOf(count) \X PairsOf(count) : Before(p[1], p[2])})

(* pair_analysis_filter merges the channels and then a difference signal   *)
(* per pair into one stream; astats prints a block for each, in that order. *)
(* A signal is a name, silent ones are named "silence"; the difference of  *)
(* two channels is silent when they carry the same.                        *)
Analysed(x) == SmallerOf(Len(x.channels), MaxChannels)
ChannelBlocks(x) ==
  [k \in 1..Analysed(x) |-> x.channels[k]]
  \o [k \in DOMAIN ChannelPairs(Analysed(x)) |->
        LET p == ChannelPairs(Analysed(x))[k]
        IN IF x.channels[p[1]] = x.channels[p[2]] THEN "silence" ELSE "difference"]

FaultyDuplicatePairs(blocks, count) ==
  {k \in DOMAIN ChannelPairs(count) : blocks[count + k] = "silence"}
(* assess_duplicate_risk: no difference, and one of the two to be heard.    *)
DuplicatePairs(blocks, count) ==
  {k \in DOMAIN ChannelPairs(count) :
     /\ blocks[count + k] = "silence"
     /\ \E c \in {ChannelPairs(count)[k][1], ChannelPairs(count)[k][2]} : blocks[c] # "silence"}

Truth(p) == IF p THEN 1 ELSE 0

(* DualMonoDetector.run: no verdict without a channel count, none to make   *)
(* of a mono stream.                                                       *)
DualMonoFacts(a, ordinal) ==
  LET i == AudioIndex(a)[ordinal]
      x == a.streams[Mapped(a, "audio", ordinal)]
  IN IF ~ x.counted THEN {}
     ELSE {Fact("duplicate_channel_risk", i,
                Truth(Len(x.channels) >= 2 /\ DuplicatePairs(ChannelBlocks(x), Analysed(x)) # {}),
                Unknown, Unknown)}

(* --------------------------------------------- incidents.py ------------- *)

(* The first video stream only. *)
VideoFacts(a) ==
  LET i == Mapped(a, "video", 1)
      x == a.streams[i]
      freezes == Paired(OpenLog(InOrder(Freezes(x)), Len(x.frames)), DurationOf(a, i))
      Luma == {x.frames[t] : t \in DOMAIN x.frames}
  IN {Fact("black_count", i, Cardinality(Blacks(x)), Unknown, Unknown),
      Fact("freeze_count", i, Len(freezes), Unknown, Unknown)}
     \cup Spans("black", i, Blacks(x))
     \cup Spans("freeze", i, {freezes[k] : k \in DOMAIN freezes})
     \cup {Fact("luma_min", i, CHOOSE l \in Luma : \A m \in Luma : l <= m, Unknown, Unknown),
           Fact("luma_max", i, CHOOSE l \in Luma : \A m \in Luma : m <= l, Unknown, Unknown)}

(* -------------------------------------------------- the run ------------- *)

StreamCount(d, a) ==
  IF d = "video.incidents" THEN (IF StreamsOf(a, "video") # {} THEN 1 ELSE 0)
  ELSE Cardinality(StreamsOf(a, "audio"))

FactsOf(d, a, k) ==
  CASE d = "audio.analysis" -> AnalysisFacts(a, k)
    [] d = "audio.dualmono" -> DualMonoFacts(a, k)
    [] d = "video.incidents" -> VideoFacts(a)

(* Measurement refuses a time before zero. *)
Legal(f) == f.start # Unknown => f.start >= 0

After(d) ==
  IF d = "audio.analysis" THEN "audio.dualmono"
  ELSE IF d = "audio.dualmono" THEN "video.incidents" ELSE "done"

Open ==
  /\ detector = "idle"
  /\ \E a \in Assets : asset' = a
  /\ detector' = "audio.analysis"
  /\ UNCHANGED <<stream, produced, measured, broken, raised>>

Runs == detector \notin {"idle", "done"} /\ ~ raised

(* One stream is decoded and its log read. *)
AnalyseStream ==
  /\ Runs /\ stream < StreamCount(detector, asset)
  /\ LET new == FactsOf(detector, asset, stream + 1)
     IN IF \A f \in new : Legal(f)
        THEN produced' = produced \cup new /\ stream' = stream + 1 /\ UNCHANGED raised
        ELSE raised' = TRUE /\ UNCHANGED <<produced, stream>>
  /\ UNCHANGED <<asset, detector, measured, broken>>

Leave == detector' = After(detector) /\ stream' = 0 /\ produced' = {}

DetectorDone ==
  /\ Runs /\ stream = StreamCount(detector, asset)
  /\ measured' = measured \cup produced
  /\ Leave
  /\ UNCHANGED <<asset, broken, raised>>

(* ffprobe or ffmpeg fails, or a log lacks channel blocks: DetectorRunError *)
(* costs all that the detector has measured of other streams.              *)
ToolFails ==
  /\ Runs
  /\ broken' = broken \cup {detector}
  /\ Leave
  /\ UNCHANGED <<asset, measured, raised>>

(* _probe_video does not wrap json.loads. *)
ProbeUnreadable ==
  /\ Runs /\ detector = "video.incidents" /\ stream = 0
  /\ raised' = TRUE
  /\ UNCHANGED <<asset, detector, stream, produced, measured, broken>>

SignalNext ==
  Open \/ AnalyseStream \/ DetectorDone \/ ToolFails \/ ProbeUnreadable

SignalSpec == SignalInit /\ [][SignalNext]_signalVars

-----------------------------------------------------------------------------
(* What there is to measure in a stream that declares its true length.      *)
Value(p, i) == {f.value : f \in {g \in measured : g.parameter = p /\ g.stream = i}}
Timed(p, i) == {[start |-> f.start, end |-> f.end] : f \in {g \in measured : g.parameter = p /\ g.stream = i}}
Ticks(S) == UNION {(s.start + 1)..s.end : s \in S}

DeclaredLength(i) ==
  IF asset.streams[i].duration = Unknown THEN asset.duration ELSE asset.streams[i].duration
TrueLength(i, n) == DeclaredLength(i) = n

(* What the audio detectors report of each stream is what can be heard in   *)
(* it, when the duration it declares is its length: the silence before and *)
(* after the programme, every other silence with its place, the low        *)
(* windows as maximal spans, the peak, and whether a pair of the channels   *)
(* looked at carries one signal (silence.py:39-72, min_rms.py:80-111,      *)
(* clipping.py:26-42, dual_mono.py:119-135); and no analysis of such a     *)
(* stream raises.                                                          *)
SilenceIsReal(i, x) ==
  LET n == Len(x.levels)
      head == {s \in Silences(x) : s.start = 0}
      tail == {s \in Silences(x) : s.end = n}
  IN /\ Value("head_silence", i) = IF head = {} THEN {0} ELSE {s.end : s \in head}
     /\ Value("tail_silence", i) = IF tail = {} THEN {0} ELSE {n - s.start : s \in tail}
     /\ Timed("internal_silence", i) = Silences(x) \ (head \cup tail)

LevelsAreReal(i, x) ==
  LET n == Len(x.levels)
      low == {t \in 1..n : \A u \in 1..n : (u - 1) \div Window = (t - 1) \div Window => x.levels[u] = 0}
  IN /\ Ticks(Timed("low_rms", i)) = low
     /\ \A s \in Timed("low_rms", i) : s.start \notin low /\ s.end + 1 \notin low
     /\ LastOverall = "whole" =>
          \A l \in 1..2 : l \in Value("peak_level", i) <=>
            (\E t \in 1..n : x.levels[t] = l) /\ \A t \in 1..n : x.levels[t] <= l

DualMonoIsReal(i, x) ==
  Value("duplicate_channel_risk", i) =
    {Truth(\E c, d \in 1..SmallerOf(Len(x.channels), MaxChannels) :
             c # d /\ x.channels[c] = x.channels[d] /\ x.channels[c] # "silence")}

SoundIsReal ==
  detector = "done" =>
    \A i \in DOMAIN asset.streams :
      LET x == asset.streams[i]
      IN x.kind = "audio" /\ TrueLength(i, Len(x.levels)) =>
           /\ "audio.analysis" \notin broken => SilenceIsReal(i, x) /\ LevelsAreReal(i, x)
           /\ "audio.dualmono" \notin broken /\ x.counted => DualMonoIsReal(i, x)

(* The black and the frozen spans of the first video stream are all there  *)
(* is, one event each, when the stream declares its length; and only the    *)
(* unreadable answer of ffprobe (incidents.py:205) or a stream that is      *)
(* longer than it declares (analysis.py:137) ends the analysis.            *)
PictureIsReal ==
  /\ detector = "done" /\ "video.incidents" \notin broken =>
       \A i \in DOMAIN asset.streams :
         LET x == asset.streams[i]
         IN x.kind = "video" /\ (\A k \in 1..(i - 1) : asset.streams[k].kind # "video")
            /\ TrueLength(i, Len(x.frames)) =>
              /\ Timed("freeze", i) = Freezes(x) /\ Value("freeze_count", i) = {Cardinality(Freezes(x))}
              /\ Timed("black", i) = Blacks(x) /\ Value("black_count", i) = {Cardinality(Blacks(x))}
  /\ raised => \/ detector = "video.incidents"
               \/ \E i \in DOMAIN asset.streams :
                    asset.streams[i].kind = "audio" /\ DeclaredLength(i) # Unknown
                    /\ DeclaredLength(i) < Len(asset.streams[i].levels)
=============================================================================
