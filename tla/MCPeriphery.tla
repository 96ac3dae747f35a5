---------------------------- MODULE MCPeriphery ----------------------------
(***************************************************************************)
(* The commands and services around the queue, on small instances.  They   *)
(* share no state with one another, so every interleaving of them is a      *)
(* shuffle, and each is explored on its own, from the same initial state.   *)
(***************************************************************************)
EXTENDS Startup, Sessions, SignalDetectors, Metadata, Evidence, Batch, Comparison, TLC

(* --- serve: a media root with a folder below it, another that is outside, *)
(* --- and a link below the root that leads out of it.                     *)
MCReal == [p \in Paths |-> IF p = "root/link" THEN "outside" ELSE p]
MCBelow == [p \in Paths |-> IF p = "root" THEN {"root", "root/in", "root/in/done", "root/link"}
                            ELSE IF p = "root/in" THEN {"root/in", "root/in/done"} ELSE {p}]

Folder(name, path, preset, recursive, routes) ==
  [name |-> name, path |-> path, preset |-> preset, recursive |-> recursive, routes |-> routes]
MoveTo(p) == [move |-> p, copy |-> Unset]
Good ==
  [text |-> "mapping", override |-> "section", schema |-> TRUE, fields |-> TRUE, network |-> FALSE,
   roots |-> {"root"}, version |-> TRUE, folders |-> <<Folder("a", "root/in", "p1", FALSE, {})>>]
WithFolders(f) == [Good EXCEPT !.folders = f]
MCConfigs ==
  {Good, [Good EXCEPT !.text = "unreadable"], [Good EXCEPT !.override = "scalar"],
   [Good EXCEPT !.schema = FALSE], [Good EXCEPT !.network = TRUE],
   [Good EXCEPT !.roots = {"root", "outside"}, !.version = FALSE]}
  \cup {WithFolders(f) : f \in
    {<<Folder("a", "root/in", "p1", r, {MoveTo(d)})>> :
        r \in BOOLEAN, d \in {"root/in", "root/in/done", "root/link", "outside"}}
    \cup {<<Folder("a", "root/link", "p1", FALSE, {})>>,
          <<Folder("a", "root/in", "p1", FALSE, {[move |-> Unset, copy |-> Unset]})>>,
          <<Folder("a", "root/in", "p1", FALSE, {}), Folder("a", "root/in/done", "p1", FALSE, {})>>}}

(* --- detectors: every sound of up to five ticks over three levels, with   *)
(* --- durations declared right, wrong and not at all; every picture of up  *)
(* --- to five frames of three kinds; every sound of up to three channels.  *)
(* --- Other streams come before them, so that places and ordinals differ.  *)
UpTo(n, S) == UNION {[1..k -> S] : k \in 1..n}
Heard(levels, d, channels, counted) ==
  [kind |-> "audio", levels |-> levels, duration |-> d, channels |-> channels, counted |-> counted]
Seen(frames, d) == [kind |-> "video", frames |-> frames, duration |-> d]

MCAssets ==
  {[streams |-> <<Seen(<<1>>, 1), Heard(l, d, <<"a">>, TRUE)>>, duration |-> c]
     : l \in UpTo(5, 0..2), d \in {Unknown, 2, 4, 5}, c \in {Unknown, 5}}
  \cup {[streams |-> <<Heard(<<2, 2>>, 2, c, k), Heard(<<2>>, 1, <<"a", "a">>, TRUE)>>, duration |-> 2]
     : c \in UpTo(3, {"silence", "a", "b"}), k \in BOOLEAN}
  \cup {[streams |-> <<Heard(<<2>>, 1, <<"a">>, TRUE), Seen(f, d), Seen(<<0, 0, 0>>, 3)>>, duration |-> c]
     : f \in UpTo(5, 0..2), d \in {Unknown, 3, 5}, c \in {Unknown, 5}}

(* --- metadata: durations declared, not declared and unreadable for sound  *)
(* --- and picture; and each other key in its cases.                       *)
Picture(truth, d) ==
  [kind |-> "video", truth |-> truth, duration |-> d, codec |-> "h264", rate |-> <<25, 1>>,
   bits |-> NoValue, pixels |-> [digits |-> 10, plain |-> FALSE], order |-> "tt", level |-> 41,
   aspect |-> "16:9", bitrate |-> 50, timecode |-> NoValue]
Sound(truth, d, language) ==
  [kind |-> "audio", truth |-> truth, duration |-> d, codec |-> "pcm", language |-> language,
   timecode |-> NoValue]
Subtitle == [kind |-> "subtitle", timecode |-> "10:00:00:00"]
Medium(d, timecode, streams) ==
  [extension |-> "mov", format |-> <<"mp4", "mov">>, timecode |-> timecode, streams |-> streams,
   numbers |-> [duration |-> d, overall_bitrate |-> Junk, start_time |-> 0]]
MCMedia ==
  {Medium(c, NoValue, <<Sound(a[1], a[2], "ger"), Picture(v[1], v[2]), Sound(1, Junk, NoValue)>>)
     : c \in {NoValue, 3}, a \in {1, 3} \X {NoValue, 1, 3}, v \in {2, 3} \X {NoValue, 2, 3}}
  \cup {Medium(2, t, <<Subtitle, x>>) : t \in {NoValue, "09:00:00:00"}, x \in
     {[Picture(2, 2) EXCEPT !.rate = r] : r \in {<<24000, 1001>>, <<0, 0>>, NoValue, Junk}}
     \cup {[Picture(2, 2) EXCEPT !.bits = b, !.pixels = p] : b \in {NoValue, 0, 10}, p \in
             {NoValue, [digits |-> 0, plain |-> TRUE], [digits |-> 24, plain |-> FALSE],
              [digits |-> 48, plain |-> FALSE]}}
     \cup {[Picture(2, 2) EXCEPT !.order = o] : o \in {NoValue, "progressive", "bt", "odd"}}
     \cup {[Picture(2, 2) EXCEPT !.level = l, !.aspect = s] : l \in {NoValue, -99, 0, Junk}, s \in {"0:1", NoValue}}}
  \cup {[Medium(2, NoValue, <<>>) EXCEPT !.extension = e, !.format = f]
     : e \in {"mov", "bin"}, f \in {<<>>, <<"mp4", "mov">>}}
MCCanonical == [t \in {"ger", "de"} |-> "de"]

(* --- evidence: two rules with events at the same and at different times.  *)
Failed(rule, start, st, video) == [rule |-> rule, status |-> st, video |-> video, start |-> start]
MCFindingLists ==
  {<<Failed("black", 0, "FAIL", TRUE), Failed("black", 40, "WARNING", TRUE), Failed("freeze", 0, "PASS", TRUE)>>,
   <<Failed("black", 40, "FAIL", TRUE), Failed("freeze", 0, "ERROR", TRUE), Failed("black", NoTime, "FAIL", TRUE)>>,
   <<Failed("freeze", 40, "FAIL", FALSE)>>}

(* --- compare: loudness of two streams, measured, missing and swapped;     *)
(* --- low-level spans that overlap, touch and miss.                       *)
Alert(type, track, value, prose, begin, end, notRun) ==
  [type |-> type, stream |-> track, value |-> value, prose |-> prose, begin |-> begin, end |-> end,
   notRun |-> notRun]
Loud(i, v) == [stream |-> i, value |-> v]
Span(i, from, to) == [stream |-> i, start |-> from, end |-> to]
MCPairs ==
  {[report |-> [size |-> r, loudness |-> l, spans |-> <<>>, flat |-> f],
    task |-> [size |-> t, alerts |-> <<Alert("clipping", Missing, Missing, Missing, Missing, Missing, n),
                                       Alert("loudness", s, v, p, Missing, Missing, n)>>]]
     : r \in {1, Missing}, t \in {1, 2, Missing},
       l \in {<<>>, <<Loud(0, 3)>>, <<Loud(0, 3), Loud(1, 5)>>, <<Loud(1, 5), Loud(0, 3)>>},
       f \in {{}, {0}, {0, 1}}, s \in {1, 2, Missing}, v \in {Missing, 3, 5}, p \in {Missing, 4}, n \in BOOLEAN}
  \cup
  {[report |-> [size |-> 1, loudness |-> <<>>, spans |-> <<Span(0, b1, e1), Span(i, b2, e2)>>, flat |-> {0}],
    task |-> [size |-> 1, alerts |-> <<Alert("level", s, Missing, Missing, b, e, FALSE)>>]]
     : b1 \in {0, 2}, e1 \in {3, 4, 6}, i \in {0, 1}, b2 \in {0, 1, 4}, e2 \in {5, 6},
       b \in {Missing, 0, 2, 3}, e \in {4, 5, 6}, s \in {1, 2, 3, Missing}}

VARIABLE part

Init ==
  /\ StartupInit /\ SessionsInit /\ SignalInit /\ MetaInit
  /\ EvidenceInit /\ BatchInit /\ CompareInit
  /\ part \in {"serve", "sessions", "detectors", "metadata", "evidence", "batch", "compare"}

Next ==
  \/ /\ part = "serve" /\ StartupNext
     /\ UNCHANGED <<part, sessionVars, signalVars, metaVars, evidenceVars, batchVars, compareVars>>
  \/ /\ part = "sessions" /\ (SessionsNext \/ RestartSessions)
     /\ UNCHANGED <<part, serveVars, signalVars, metaVars, evidenceVars, batchVars, compareVars>>
  \/ /\ part = "detectors" /\ SignalNext
     /\ UNCHANGED <<part, serveVars, sessionVars, metaVars, evidenceVars, batchVars, compareVars>>
  \/ /\ part = "metadata" /\ MetaNext
     /\ UNCHANGED <<part, serveVars, sessionVars, signalVars, evidenceVars, batchVars, compareVars>>
  \/ /\ part = "evidence" /\ EvidenceNext
     /\ UNCHANGED <<part, serveVars, sessionVars, signalVars, metaVars, batchVars, compareVars>>
  \/ /\ part = "batch" /\ BatchNext
     /\ UNCHANGED <<part, serveVars, sessionVars, signalVars, metaVars, evidenceVars, compareVars>>
  \/ /\ part = "compare" /\ CompareNext
     /\ UNCHANGED <<part, serveVars, sessionVars, signalVars, metaVars, evidenceVars, batchVars>>

vars == <<part, serveVars, sessionVars, signalVars, metaVars, evidenceVars, batchVars, compareVars>>
Spec == Init /\ [][Next]_vars
=============================================================================
