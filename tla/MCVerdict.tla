------------------------------ MODULE MCVerdict ------------------------------
(* A video stream 0 and the audio streams 1 and 2.  A peak level of 1 is    *)
(* within its limit and 3 is not; a channel layout is 1 or not declared.    *)
EXTENDS Verdict, TLC

CONSTANTS Null, de, ger, en

MCStreams == {0, 1, 2}
MCValues == {1, 3, Null}
MCSpellings == {de, ger, en}
MCCanonical == [t \in MCSpellings |-> IF t = ger THEN de ELSE t]

Fact(p, s, v) == [parameter |-> p, stream |-> s, value |-> v]
Of(p, f) == {Fact(p, s, f[s]) : s \in DOMAIN f}

Tags == {(1 :> ger @@ 2 :> en), (1 :> ger @@ 2 :> de), (2 :> en)}
Peaks == {(1 :> 1 @@ 2 :> 1), (1 :> 1 @@ 2 :> 3), (1 :> 3), (1 :> 1)}
Gaps == {<<>>, (2 :> 1)}
(* What is seen of the picture and of the layouts goes together. *)
LayoutAndBlack == {<<(1 :> 1 @@ 2 :> 1), (0 :> 1)>>, <<(1 :> 1 @@ 2 :> Null), <<>>>>}

(* Silent streams, streams without a tag or a layout, events on one stream  *)
(* or both.                                                                 *)
MCFiles ==
  {[audio |-> {1, 2}, video |-> {0},
    facts |-> Of("audio.peak_level", p) \cup Of("audio.low_rms_event", g)
              \cup Of("audio.channel_layout", lb[1]) \cup Of("video.black_frame_event", lb[2]),
    tag |-> t] : t \in Tags, p \in Peaks, g \in Gaps, lb \in LayoutAndBlack}

All == [by |-> "all"]
Second == [by |-> "index", index |-> 2]
In(t) == [by |-> "language", language |-> t]

Rule(p, op, types, accepts, sel, q) ==
  [parameter |-> p, enabled |-> TRUE, blocking |-> TRUE, severity |-> "error",
   operator |-> op, types |-> types, accepts |-> accepts, selector |-> sel, quantifier |-> q]

PeakRules == {Rule("audio.peak_level", "compare", {1, 3}, {1}, sel, q)
               : sel \in {All, Second, In(ger)}, q \in {"all", "any", "exactly_one"}}
EventRules == {Rule("audio.low_rms_event", op, {}, {}, sel, "all")
               : op \in {"exists", "not_exists"}, sel \in {All, Second, In(ger)}}
OtherRules ==
  {Rule("audio.channel_layout", "compare", {1}, {1}, All, "all"),
   Rule("audio.channel_layout", "compare", MCValues, {1}, All, "all"),
   Rule("audio.duplicate_channel_risk", "compare", MCValues, {1}, All, "all"),
   Rule("video.black_frame_event", "not_exists", {}, {}, All, "all"),
   Rule(Language, "compare", MCSpellings, {de}, All, "any")}
WeakerRules ==
  UNION {{[r EXCEPT !.blocking = FALSE], [r EXCEPT !.severity = "info"], [r EXCEPT !.enabled = FALSE]}
    : r \in {Rule("audio.peak_level", "compare", {1, 3}, {1}, All, "all"),
             Rule("video.black_frame_event", "not_exists", {}, {}, All, "all")}}

MCRules == PeakRules \cup EventRules \cup OtherRules \cup WeakerRules
=============================================================================
