------------------------------ MODULE Metadata ------------------------------
(***************************************************************************)
(* detectors/metadata/ffprobe.py and what the pipeline takes from its raw   *)
(* file: one ffprobe run per analysis, its output kept as raw/ffprobe.json  *)
(* in the job's directory, then read; the media summary is read from that   *)
(* file again, whoever wrote it.  A directory is used by several analyses   *)
(* (analyze and batch take the directory they are given).                  *)
(*                                                                         *)
(* A medium is what ffprobe declares about a file: a number, a text, Junk  *)
(* (a text where a number is expected) or NoValue per key.  `truth` is what *)
(* the streams really last, which nothing in the program sees.             *)
(***************************************************************************)
EXTENDS Integers, Sequences, FiniteSets

CONSTANTS
  Media,        \* [extension, format, numbers, timecode, streams]
  Canonical,    \* language tags to language codes (utils/language.py)
  NoValue, Junk,
  MaxAnalyses   \* bound: analyses in the one directory

ASSUME MetadataAssumption ==
  /\ NoValue \notin Int /\ Junk \notin Int
  /\ \A f \in Media :
       /\ Len(f.streams) \in Nat
       /\ f.numbers.duration \in Int \cup {NoValue, Junk}
       /\ \A k \in 1..Len(f.streams) : f.streams[k].kind \in {"video", "audio"} =>
            f.streams[k].truth \in Int /\ f.streams[k].duration \in Int \cup {NoValue, Junk}

VARIABLES
  metaStep,     \* "idle", "file", "probe", "parse", "summary"; "raised": run_analysis has
                \* raised and there is no report
  medium,       \* the file that is analysed
  rawFile,      \* raw/ffprobe.json: what it holds, of which declaration, of which analysis
  facts,        \* the measurements <<parameter, stream, value>>
  probeFailed,  \* DetectorRunError: every parameter of the detector has failed
  mediaSummary, \* the report's media_summary
  analyses

metaVars == <<metaStep, medium, rawFile, facts, probeFailed, mediaSummary, analyses>>

NoSummary == <<>>
NoRawFile == [shape |-> "none", of |-> NoValue, by |-> 0]

MetaInit ==
  /\ metaStep = "idle" /\ medium = NoValue /\ rawFile = NoRawFile
  /\ facts = {} /\ probeFailed = FALSE /\ mediaSummary = NoSummary /\ analyses = 0

(* -------------------------------------------------- normalisation ------- *)

(* _as_int, _as_float *)
Number(v) == IF v = Junk THEN NoValue ELSE v

(* A measurement that is made only of what is declared. *)
Kept(p, i, v) == IF v = NoValue THEN {} ELSE {<<p, i, v>>}

(* A rational <<numerator, denominator>>, in thousandths, or nothing.      *)
FrameRate(r) ==
  IF r \in {NoValue, Junk} THEN NoValue
  ELSE IF r[2] = 0 \/ r[1] <= 0 THEN NoValue
  ELSE (2000 * r[1] + r[2]) \div (2 * r[2])

(* The extension, when the demuxer's group names it, else its first name.  *)
ContainerFormat(f) ==
  IF \E k \in DOMAIN f.format : f.format[k] = f.extension THEN f.extension ELSE f.format[1]

(* What ffprobe says first; else the one or two digits at the end of the    *)
(* pixel format's name, 8 to 32, of whatever they count the bits; else 8    *)
(* for the names that end in p and for gray.                               *)
BitDepth(x) ==
  IF Number(x.bits) \notin {NoValue, 0} THEN Number(x.bits)
  ELSE IF x.pixels = NoValue THEN NoValue
  ELSE IF x.pixels.digits \in 8..32 THEN x.pixels.digits
  ELSE IF x.pixels.plain THEN 8 ELSE NoValue

FieldOrder(x) ==
  IF x.order = "progressive" THEN "progressive"
  ELSE IF x.order \in {"tt", "tb"} THEN "tff"
  ELSE IF x.order \in {"bb", "bt"} THEN "bff" ELSE NoValue

Language(x) == IF x.language = NoValue THEN NoValue ELSE Canonical[x.language]

OfKind(f, kind) == SelectSeq([i \in 1..Len(f.streams) |-> i - 1], LAMBDA i : f.streams[i + 1].kind = kind)
Stream(f, i) == f.streams[i + 1]
Indexes(f, kind) == {i \in 0..(Len(f.streams) - 1) : Stream(f, i).kind = kind}

(* The container's timecode, else that of the first stream that has one.   *)
Timecode(f) ==
  LET all == <<f.timecode>> \o [k \in DOMAIN f.streams |-> f.streams[k].timecode]
      set == {k \in DOMAIN all : all[k] # NoValue}
  IN IF set = {} THEN NoValue ELSE all[CHOOSE k \in set : \A l \in set : k <= l]

(* build_media_summary *)
MediaSummary(f) ==
  LET video == OfKind(f, "video")
      audio == OfKind(f, "audio")
  IN [duration |-> Number(f.numbers.duration),
      video    |-> [k \in DOMAIN video |-> <<video[k], FrameRate(Stream(f, video[k]).rate)>>],
      audio    |-> [k \in DOMAIN audio |-> <<audio[k], Language(Stream(f, audio[k]))>>],
      subtitle |-> OfKind(f, "subtitle"),
      rate     |-> IF video = <<>> THEN NoValue ELSE FrameRate(Stream(f, video[1]).rate)]

(* ---------------------------------------------------- measurements ------ *)

ContainerFacts(f) ==
  (IF f.format = <<>> THEN {} ELSE {<<"container.format", NoValue, ContainerFormat(f)>>})
  \cup Kept("container.duration", NoValue, Number(f.numbers.duration))
  \cup Kept("container.overall_bitrate", NoValue, Number(f.numbers.overall_bitrate))
  \cup Kept("container.start_time", NoValue, Number(f.numbers.start_time))
  \cup {<<"container.timecode_present", NoValue, Timecode(f) # NoValue>>}
  \cup Kept("container.timecode_start", NoValue, Timecode(f))

(* What is declared of the picture; a text of "0:1" says that nothing is.   *)
PictureMetadata(x, i) ==
  Kept("video.bit_depth", i, BitDepth(x))
  \cup Kept("video.bitrate", i, Number(x.bitrate))
  \cup (IF Number(x.level) = NoValue \/ Number(x.level) <= 0 THEN {}
        ELSE {<<"video.level", i, Number(x.level)>>})
  \cup (IF x.aspect = "0:1" THEN {} ELSE Kept("video.display_aspect_ratio", i, x.aspect))
  \cup Kept("video.field_order", i, FieldOrder(x))
  \cup (IF FieldOrder(x) = NoValue THEN {}
        ELSE {<<"video.scan_type", i,
                IF FieldOrder(x) = "progressive" THEN "progressive" ELSE "interlaced">>})

(* Codec and size are measured as null when they are not declared: `codec`  *)
(* stands for the keys that are.                                           *)
PictureFacts(f, i) ==
  {<<"video.codec", i, Stream(f, i).codec>>}
  \cup Kept("video.frame_rate", i, FrameRate(Stream(f, i).rate))
  \cup PictureMetadata(Stream(f, i), i)

Length(f, i) ==
  IF Number(Stream(f, i).duration) # NoValue THEN Number(Stream(f, i).duration)
  ELSE Number(f.numbers.duration)
FirstOf(f, kind) == CHOOSE i \in Indexes(f, kind) : \A k \in Indexes(f, kind) : i <= k

FaultyPictureLength(f) == IF Indexes(f, "video") = {} THEN NoValue ELSE Number(f.numbers.duration)
(* Of the first video stream, when there is one.                           *)
PictureLength(f) == IF Indexes(f, "video") = {} THEN NoValue ELSE Length(f, FirstOf(f, "video"))

SoundFacts(f, i) ==
  {<<"audio.codec", i, Stream(f, i).codec>>}
  \cup Kept("audio.duration", i, Length(f, i))
  \cup (IF Length(f, i) = NoValue \/ PictureLength(f) = NoValue THEN {}
        ELSE {<<"audio.video_duration_delta", i, Length(f, i) - PictureLength(f)>>})
  \cup Kept("audio.language", i, Language(Stream(f, i)))

StreamFacts(f) ==
  {<<"video.stream_count", NoValue, Cardinality(Indexes(f, "video"))>>,
   <<"audio.stream_count", NoValue, Cardinality(Indexes(f, "audio"))>>,
   <<"subtitle.stream_count", NoValue, Cardinality(Indexes(f, "subtitle"))>>}
  \cup (UNION {PictureFacts(f, i) : i \in Indexes(f, "video")})
  \cup (UNION {SoundFacts(f, i) : i \in Indexes(f, "audio")})

FileFacts(f) == {<<"file.readable", NoValue, TRUE>>, <<"file.extension", NoValue, f.extension>>}
AllFacts(f) == FileFacts(f) \cup ContainerFacts(f) \cup StreamFacts(f)

(* -------------------------------------------------------- the run ------- *)

BeginAnalysis ==
  /\ metaStep \in {"idle", "raised"} /\ analyses < MaxAnalyses
  /\ \E f \in Media : medium' = f
  /\ metaStep' = "file" /\ analyses' = analyses + 1
  /\ facts' = {} /\ probeFailed' = FALSE /\ mediaSummary' = NoSummary
  /\ UNCHANGED rawFile

(* DetectorRunError: what was measured before it, file.readable too, is     *)
(* not returned.                                                           *)
Fail ==
  /\ metaStep' = "summary" /\ facts' = {} /\ probeFailed' = TRUE
  /\ UNCHANGED <<medium, mediaSummary, analyses>>

(* What nothing between the detector and run_analysis handles.             *)
Raise ==
  /\ metaStep' = "raised"
  /\ UNCHANGED <<medium, facts, probeFailed, mediaSummary, analyses>>

(* The file may have become unreadable since run_analysis looked for it;    *)
(* when it goes after that, its size raises.                               *)
ReadFile ==
  /\ metaStep = "file" /\ UNCHANGED rawFile
  /\ \/ /\ metaStep' = "probe"
        /\ facts' = FileFacts(medium)
        /\ UNCHANGED <<medium, probeFailed, mediaSummary, analyses>>
     \/ Fail
     \/ Raise

(* What ffprobe may have printed of f: no JSON, JSON that is no mapping, a  *)
(* mapping without a format block, with the streams or without, or all.    *)
Bare(f) == [f EXCEPT !.format = <<>>, !.numbers.duration = NoValue]
Empty(f) == [Bare(f) EXCEPT !.streams = <<>>]
Printed(f) ==
  {<<"no_json", f>>, <<"no_mapping", f>>, <<"no_format", Bare(f)>>, <<"no_format", Empty(f)>>, <<"whole", f>>}

(* The raw file is written with whatever ffprobe has printed, and parsed   *)
(* after that; when the tool fails, nothing is written.  write_text may     *)
(* fail with the earlier file in place or with a part of the new one.      *)
RunFfprobe ==
  /\ metaStep = "probe"
  /\ \/ /\ \E p \in Printed(medium) : rawFile' = [shape |-> p[1], of |-> p[2], by |-> analyses]
        /\ metaStep' = "parse"
        /\ UNCHANGED <<medium, facts, probeFailed, mediaSummary, analyses>>
     \/ Fail /\ UNCHANGED rawFile
     \/ Raise /\ rawFile' \in {rawFile, [shape |-> "no_json", of |-> medium, by |-> analyses]}

Parse ==
  /\ metaStep = "parse" /\ UNCHANGED rawFile
  /\ IF rawFile.shape = "whole"
     THEN /\ metaStep' = "summary"
          /\ facts' = facts \cup ContainerFacts(rawFile.of) \cup StreamFacts(rawFile.of)
          /\ UNCHANGED <<medium, probeFailed, mediaSummary, analyses>>
     ELSE Fail

(* _load_media_summary: from whatever lies in raw/, whoever wrote it and    *)
(* whatever the detector thought of it; what is no mapping has no get().   *)
LoadMediaSummary ==
  /\ metaStep = "summary" /\ UNCHANGED rawFile
  /\ \/ /\ rawFile.shape # "no_mapping" /\ metaStep' = "idle"
        /\ mediaSummary' = IF rawFile.shape \in {"none", "no_json"} THEN NoSummary
                           ELSE MediaSummary(rawFile.of)
        /\ UNCHANGED <<medium, facts, probeFailed, analyses>>
     \/ rawFile.shape = "no_mapping" /\ Raise

MetaNext ==
  BeginAnalysis \/ ReadFile \/ RunFfprobe \/ Parse \/ LoadMediaSummary

MetaSpec == MetaInit /\ [][MetaNext]_metaVars

-----------------------------------------------------------------------------
Reported(p, i) == {t[3] : t \in {u \in facts : u[1] = p /\ u[2] = i}}
Declares(f, i) == Number(Stream(f, i).duration) # NoValue
True(i) == Stream(medium, i).truth

(* The container lasts as long as its longest stream and declares that, or  *)
(* nothing; a stream declares what it lasts, or nothing.                   *)
WellDeclared(f) ==
  /\ Number(f.numbers.duration) = NoValue
       \/ \E i \in Indexes(f, "audio") \cup Indexes(f, "video") :
            /\ Number(f.numbers.duration) = Stream(f, i).truth
            /\ \A k \in Indexes(f, "audio") \cup Indexes(f, "video") : Stream(f, k).truth <= Stream(f, i).truth
  /\ \A i \in Indexes(f, "audio") \cup Indexes(f, "video") : Declares(f, i) => Stream(f, i).duration = Stream(f, i).truth

(* The difference of sound and picture that delivery rules are about       *)
(* (ffprobe.py:426-460) is exact when both streams declare a duration;     *)
(* where the container's stands in for one of them it errs towards the one  *)
(* that was stood in for and never the other way, and where it stands in    *)
(* for both it is 0 whatever the file is.                                  *)
DeltaIsHonest(i) ==
  \A d \in Reported("audio.video_duration_delta", i) :
    LET v == FirstOf(medium, "video")
        real == True(i) - True(v)
    IN /\ Declares(medium, v) /\ Declares(medium, i) => d = real
       /\ Declares(medium, v) => d >= real
       /\ Declares(medium, i) => d <= real
       /\ ~ Declares(medium, v) /\ ~ Declares(medium, i) => d = 0

(* At most one value for each thing, and no measurement of what a file     *)
(* that declares nothing of it lasts.                                      *)
OneValueEach == \A s, t \in facts : s[1] = t[1] /\ s[2] = t[2] => s[3] = t[3]

(* The report of an analysis tells of the file that was analysed.  Either   *)
(* ffprobe succeeded: every measurement of it is there, each once, the A/V  *)
(* deltas are honest and the media summary is of the same file.  Or it      *)
(* failed: there is no measurement at all, and the media summary is empty,  *)
(* or what is left of this file's declaration when ffprobe printed no       *)
(* format block (pipeline.py:264-273 reads the raw file whatever the        *)
(* detector thought of it), except where this analysis wrote no raw file:   *)
(* then it is that of an earlier analysis in the directory, which may have   *)
(* been of another file.                                                    *)
ProbeIsHonest ==
  metaStep = "idle" /\ analyses > 0 =>
    IF probeFailed
    THEN /\ facts = {}
         /\ rawFile.by = analyses =>
              mediaSummary \in {NoSummary, MediaSummary(Bare(medium)), MediaSummary(Empty(medium))}
    ELSE /\ facts = AllFacts(medium) /\ OneValueEach
         /\ mediaSummary = MediaSummary(medium)
         /\ WellDeclared(medium) => \A i \in Indexes(medium, "audio") : DeltaIsHonest(i)
=============================================================================
