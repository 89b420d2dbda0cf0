--------------------------- MODULE SegmentedAudio ---------------------------
(***************************************************************************)
(* Audio too long for the decoder: cut at silence (audio/segment.py), each *)
(* segment transcribed by itself, the texts joined.  Four routes end here: *)
(*   edge_offline  TRTEdgeLLMASRBackend._transcribe_segmented_offline      *)
(*   edge_stream   finalize of the accumulating TRT Edge-LLM stream        *)
(*   rk_offline    RKASRBackend.transcribe                                 *)
(*   rk_stream     finalize of the RK stream adapter                       *)
(* One request at a time is followed from its audio to its answer, while   *)
(* the RK backend may be unloaded under it.                                *)
(*                                                                         *)
(* Audio is counted in splitter frames; which of them are silent is the    *)
(* input (energy or webrtcvad: the same algorithm behind).                 *)
(***************************************************************************)
EXTENDS Degeneration

CONSTANTS
    MaxSeg, MinSeg,     \* max_seg, min_seg of the splitter
    MinFrag, MinTail,   \* min_frag, min_tail
    MinRun,             \* min_run: frames of silence that make a cut point
    MinKeep,            \* shorter segments are not transcribed (0.4 s)
    LongAudio,          \* long_audio_threshold_s of the RK backend
    Phrase,             \* what a segment's text may be
    LongPhrase,         \* those of _MIN_SEGMENT_KEY_LEN characters or more
    MaxTotal            \* bound: frames of a request

VARIABLES
    rkLoaded,       \* the RK backend's _inner is there
    route, total,   \* the request and its length
    stage,          \* where the request is
    silent,         \* frames below the threshold (until the audio is cut)
    cuts,           \* cuts: the positions, 0 and the end included
    at,             \* i of the merge loop, then the segment that is next
    texts,          \* the texts of the segments so far, in order
    lost,           \* history: segments that met an unloaded backend
    answer          \* what the caller got

segVars == <<rkLoaded, route, total, stage, silent, cuts, at, texts, lost, answer>>

Route == {"edge_offline", "edge_stream", "rk_offline", "rk_stream"}
OnRk  == route \in {"rk_offline", "rk_stream"}

Init ==
    /\ rkLoaded = TRUE /\ route = "edge_offline" /\ total = 0 /\ stage = "idle"
    /\ silent = {} /\ cuts = <<0>> /\ at = 0 /\ texts = <<>> /\ lost = {}
    /\ answer = [kind |-> "none", texts |-> <<>>]

(***************************************************************************)
(* The request.  A short one goes to the engine as it is.                  *)
(***************************************************************************)
Whole(r, n) ==
    CASE r = "edge_offline" -> n <= MaxSeg
      [] r = "edge_stream"  -> FALSE
      [] OTHER              -> n <= LongAudio

\* A stream that was never fed answers at once; one of an unloaded backend
\* is refused.
Request ==
    /\ stage = "idle"
    /\ \E r \in Route, n \in 1 .. MaxTotal :
          /\ r \in {"rk_offline", "rk_stream"} => rkLoaded
          /\ route' = r /\ total' = n
          /\ stage' = IF Whole(r, n) THEN "whole" ELSE "frames"
    /\ cuts' = <<0>> /\ at' = 0 /\ texts' = <<>> /\ lost' = {}
    /\ answer' = [kind |-> "none", texts |-> <<>>]
    /\ UNCHANGED <<rkLoaded, silent>>

Answer(kind, said) ==
    /\ answer' = [kind |-> kind, texts |-> said]
    /\ stage' = "idle" /\ texts' = <<>> /\ cuts' = <<0>> /\ at' = 0

\* A short request is transcribed in one piece, found silent (edge), or fails.
TranscribeWhole ==
    /\ stage = "whole"
    /\ \/ \E p \in Phrase : Answer("text", <<p>>)
       \/ Answer("text", <<>>)
       \/ Answer("error", <<>>)
    /\ UNCHANGED <<rkLoaded, route, total, silent, lost>>

(***************************************************************************)
(* The splitter.  Audio of one segment is not looked into; a splitter that *)
(* raises leaves the audio in one piece.                                   *)
(***************************************************************************)
Classify ==
    /\ stage = "frames"
    /\ IF total <= MaxSeg
       THEN silent' = {} /\ cuts' = <<0, total>> /\ at' = 1 /\ stage' = "bound"
       ELSE silent' \in SUBSET (0 .. total - 1) /\ stage' = "cut" /\ UNCHANGED <<cuts, at>>
    /\ UNCHANGED <<rkLoaded, route, total, texts, lost, answer>>

SplitterFails ==
    /\ stage = "frames" /\ total > MaxSeg
    /\ cuts' = <<0, total>> /\ at' = 1 /\ stage' = "bound"
    /\ UNCHANGED <<rkLoaded, route, total, silent, texts, lost, answer>>

\* The middle of each run of MinRun silent frames or more.
CutPoints ==
    {(run[1] + run[2]) \div 2 :
       run \in {x \in (0 .. total - 1) \X (1 .. total) :
                  /\ x[2] - x[1] >= MinRun
                  /\ x[1] .. x[2] - 1 \subseteq silent
                  /\ (x[1] = 0 \/ x[1] - 1 \notin silent) /\ x[2] \notin silent}}

\* Mutant of NextCut: no upper bound on the silence that is taken.
LastSilence(from) ==
    LET within == {c \in CutPoints : from + MinSeg <= c}
    IN IF within = {} THEN from + MaxSeg ELSE Max(within)

\* The last silence between the shortest and the longest segment, or a hard cut.
NextCut(from) ==
    LET within == {c \in CutPoints : from + MinSeg <= c /\ c <= from + MaxSeg}
    IN IF within = {} THEN from + MaxSeg ELSE Max(within)

Cut ==
    /\ stage = "cut"
    /\ IF total - Last(cuts) > MaxSeg
       THEN cuts' = Append(cuts, NextCut(Last(cuts))) /\ UNCHANGED <<silent, at, stage>>
       ELSE /\ cuts' = Append(cuts, total)
            /\ silent' = {} /\ at' = 2 /\ stage' = "merge"
    /\ UNCHANGED <<rkLoaded, route, total, texts, lost, answer>>

\* A fragment goes to the segment before it.
MergeFragment ==
    /\ stage = "merge"
    /\ IF at >= Len(cuts) THEN stage' = "tail" /\ UNCHANGED <<cuts, at>>
       ELSE /\ UNCHANGED stage
            /\ IF cuts[at + 1] - cuts[at] < MinFrag
               THEN cuts' = RemoveAt(cuts, at) /\ UNCHANGED at
               ELSE at' = at + 1 /\ UNCHANGED cuts
    /\ UNCHANGED <<rkLoaded, route, total, silent, texts, lost, answer>>

MergeTail ==
    /\ stage = "tail"
    /\ IF Len(cuts) >= 3 /\ cuts[Len(cuts)] - cuts[Len(cuts) - 1] < MinTail
       THEN cuts' = RemoveAt(cuts, Len(cuts) - 1) /\ UNCHANGED <<at, stage>>
       ELSE at' = 1 /\ stage' = "bound" /\ UNCHANGED cuts
    /\ UNCHANGED <<rkLoaded, route, total, silent, texts, lost, answer>>

\* The offline route has a hard limit: a slice is taken off what is still longer.
Bound ==
    /\ stage = "bound"
    /\ IF route = "edge_offline" /\ at < Len(cuts)
       THEN /\ cuts' = IF cuts[at + 1] - cuts[at] <= MaxSeg THEN cuts
                       ELSE InsertAt(cuts, at + 1, cuts[at] + MaxSeg)
            /\ at' = at + 1 /\ UNCHANGED stage
       ELSE at' = 1 /\ stage' = "transcribe" /\ UNCHANGED cuts
    /\ UNCHANGED <<rkLoaded, route, total, silent, texts, lost, answer>>

(***************************************************************************)
(* The loop over the segments.                                             *)
(***************************************************************************)
AtSegment == stage = "transcribe" /\ at < Len(cuts)
ToEngine  == AtSegment /\ cuts[at + 1] - cuts[at] >= MinKeep

\* What is left out of the text: a segment too short, one found silent (edge
\* offline), one the engine fails on or finds no word in.
Skip ==
    /\ AtSegment /\ ((ToEngine /\ OnRk) => rkLoaded)
    /\ at' = at + 1
    /\ UNCHANGED <<rkLoaded, route, total, stage, silent, cuts, texts, lost, answer>>

Transcribe ==
    /\ ToEngine /\ (OnRk => rkLoaded)
    /\ \E p \in Phrase : texts' = Append(texts, p)
    /\ at' = at + 1
    /\ UNCHANGED <<rkLoaded, route, total, stage, silent, cuts, lost, answer>>

\* _live_backend_inner raises _UnloadRaceError, which finalize passes on.
LiveInner == IF route = "rk_stream" THEN "raises" ELSE "skips"

\* transcribe of the offline route meets None, which is logged and skipped.
MeetsUnloaded ==
    /\ ToEngine /\ OnRk /\ ~rkLoaded
    /\ lost' = lost \cup {at}
    /\ IF LiveInner = "raises" THEN Answer("unloaded", <<>>)
       ELSE at' = at + 1 /\ UNCHANGED <<stage, cuts, texts, answer>>
    /\ UNCHANGED <<rkLoaded, route, total, silent>>

Join ==
    /\ stage = "transcribe" /\ at = Len(cuts)
    /\ Answer("text", IF route = "edge_offline" THEN CollapseSegments(texts, LongPhrase) ELSE texts)
    /\ UNCHANGED <<rkLoaded, route, total, silent, lost>>

(***************************************************************************)
(* The RK backend's life beside the request.                               *)
(***************************************************************************)
Load ==
    /\ ~rkLoaded /\ rkLoaded' = TRUE
    /\ UNCHANGED <<route, total, stage, silent, cuts, at, texts, lost, answer>>

Unload ==
    /\ rkLoaded /\ rkLoaded' = FALSE
    /\ UNCHANGED <<route, total, stage, silent, cuts, at, texts, lost, answer>>

Next ==
    \/ Request \/ TranscribeWhole
    \/ Classify \/ SplitterFails \/ Cut \/ MergeFragment \/ MergeTail \/ Bound
    \/ Skip \/ Transcribe \/ MeetsUnloaded \/ Join
    \/ Load \/ Unload

Spec == Init /\ [][Next]_segVars

(***************************************************************************)
(* Properties.                                                             *)
(***************************************************************************)
\* Wherever the silence is, the segments cover the audio once and in order,
\* and unless the splitter failed none is longer than the longest segment and
\* the shortest tail together; on the offline route of the TRT backend none is
\* longer than a segment, so that transcribe of a segment does not split again.
SegmentsFit ==
    stage = "transcribe" =>
        /\ Head(cuts) = 0 /\ Last(cuts) = total
        /\ \A i \in 1 .. Len(cuts) - 1 :
              /\ cuts[i] < cuts[i + 1]
              /\ route = "edge_offline" => cuts[i + 1] - cuts[i] <= MaxSeg
              /\ Len(cuts) > 2 => cuts[i + 1] - cuts[i] <= MaxSeg + MinTail

\* A stream of the RK backend whose segments met an unloaded backend has no
\* text for an answer: a part of the utterance is never given for the whole.
NoPartForTheWhole ==
    (route = "rk_stream" /\ lost # {}) => answer.kind # "text"

\* Both: how the audio is cut, and what the answer may leave out.
SegmentsAreSound == SegmentsFit /\ NoPartForTheWhole
=============================================================================
