-------------------------- MODULE ParaformerStream --------------------------
(***************************************************************************)
(* A streaming session of the Paraformer TensorRT backend                  *)
(* (backends/jetson/paraformer_trt.py).  Every chunk re-encodes all the    *)
(* audio of the utterance, at most the last Window frames of it, and feeds *)
(* the frames that are new and have enough right context to CIF, which     *)
(* fires a token per unit of weight; finalize feeds the rest and flushes   *)
(* the tail.  The encoder may give nothing or raise, and so may the        *)
(* decoder that turns what fired into token ids.                           *)
(*                                                                         *)
(* Audio is counted in encoder (LFR) frames, weight in thousandths of the  *)
(* CIF threshold scaled down to Threshold; which weights the encoder gives *)
(* is its choice.                                                          *)
(***************************************************************************)
EXTENDS Integers, Sequences, FiniteSetsExt

CONSTANTS
    Window,         \* frames the encoder takes at most (400)
    MinPiece,       \* frames an offline piece has at least (40)
    Lookahead,      \* RIGHT_LOOKAHEAD_LFR
    Chunk,          \* frames of CHUNK_SIZE_SEC of audio
    Threshold,      \* CIF_THRESHOLD; half of it is CIF_TAIL_THRESHOLD
    MaxWeight,      \* bound: weight of what one call feeds
    MaxFrames       \* bound: frames of an utterance

VARIABLES
    loaded,         \* the backend holds its engines
    bundle,         \* _ctx_bundle of the stream: none, live or freed
    audioBuf,       \* _audio_buf, in frames
    heard,          \* _all_audio, in frames
    prevTotal,      \* _prev_total_frames
    cifDone,        \* _cif_processed_lfr
    fed,            \* history: the frames of the utterance fed to CIF
    carry,          \* _carry_weight
    tokens,         \* _all_token_ids: how many
    cancelled,      \* _cancelled
    weight,         \* history: the weight fed to CIF
    missed,         \* history: tokens fired that the decoder gave no id for
    doubled,        \* history: frames of _all_audio that are in it twice, or will be
    offline,        \* the offline call under way
    answered        \* history: the utterance that was just answered for

paraformerVars == <<loaded, bundle, audioBuf, heard, prevTotal, cifDone, fed, carry,
                    tokens, cancelled, weight, missed, doubled, offline, answered>>

NoAnswer == [frames |-> 0, offline |-> FALSE, encoded |-> FALSE, doubled |-> 0, fed |-> <<>>,
             weight |-> 0, tokens |-> 0, missed |-> 0]

NoCall == [total |-> 0, at |-> 0, encoded |-> TRUE, fed |-> <<>>, weight |-> 0, tokens |-> 0,
           missed |-> 0, carry |-> 0]

Init ==
    /\ loaded = FALSE /\ bundle = "none" /\ cancelled = FALSE
    /\ audioBuf = 0 /\ heard = 0 /\ prevTotal = 0 /\ cifDone = 0
    /\ fed = <<>> /\ carry = 0 /\ tokens = 0 /\ weight = 0 /\ missed = 0 /\ doubled = 0
    /\ offline = NoCall /\ answered = NoAnswer

(***************************************************************************)
(* The backend and the stream's life.                                      *)
(***************************************************************************)
Preload ==
    /\ ~loaded /\ loaded' = TRUE
    /\ UNCHANGED <<bundle, audioBuf, heard, prevTotal, cifDone, fed, carry, tokens,
                   cancelled, weight, missed, doubled, offline, answered>>

\* The manager drains the streams first.
Unload ==
    /\ loaded /\ bundle # "live" /\ loaded' = FALSE
    /\ UNCHANGED <<bundle, audioBuf, heard, prevTotal, cifDone, fed, carry, tokens,
                   cancelled, weight, missed, doubled, offline, answered>>

\* An utterance begins with nothing heard, fed or carried over.
StartOver ==
    /\ audioBuf' = 0 /\ heard' = 0 /\ prevTotal' = 0 /\ cifDone' = 0
    /\ fed' = <<>> /\ carry' = 0 /\ tokens' = 0 /\ weight' = 0 /\ missed' = 0
    /\ doubled' = 0

CreateStream ==
    /\ loaded /\ bundle # "live" /\ offline = NoCall /\ bundle' = "live"
    /\ StartOver /\ cancelled' = FALSE /\ answered' = NoAnswer
    /\ UNCHANGED <<loaded, offline>>

\* What a closed stream still holds is of no use to anyone.
Close ==
    /\ bundle = "live" /\ bundle' = "freed"
    /\ StartOver /\ cancelled' = FALSE /\ answered' = NoAnswer
    /\ UNCHANGED <<loaded, offline>>

Cancel ==
    /\ bundle = "live" /\ ~cancelled
    /\ cancelled' = TRUE /\ audioBuf' = 0
    /\ UNCHANGED <<loaded, bundle, heard, prevTotal, cifDone, fed, carry, tokens,
                   weight, missed, doubled, offline, answered>>

(***************************************************************************)
(* accept_waveform cuts whole chunks off the buffer.                       *)
(***************************************************************************)
Accept ==
    /\ bundle = "live" /\ ~cancelled /\ audioBuf < Chunk
    /\ heard + audioBuf < MaxFrames
    /\ audioBuf' = audioBuf + 1 /\ answered' = NoAnswer
    /\ UNCHANGED <<loaded, bundle, heard, prevTotal, cifDone, fed, carry, tokens,
                   cancelled, weight, missed, doubled, offline>>

\* The frames an encoder call sees: local index i is frame Offset(n) + i.
Seen(n)   == Min({n, Window})
Offset(n) == n - Seen(n)

\* The frames of the utterance a call feeds: its local frames from .. to - 1.
Frames(n, from, to) == [i \in 1 .. to - from |-> Offset(n) + from + i]

\* The weight CIF may find in the frames fs.
WeightsOf(fs) == IF fs = <<>> THEN {0} ELSE 0 .. MaxWeight

\* CIF over the local frames from .. to - 1: as many tokens as the weight
\* fills; the decoder answers with an id for each, or fails for all.
Fire(n, from, to) ==
    \E w \in WeightsOf(Frames(n, from, to)), decoded \in BOOLEAN :
       LET fired == (carry + w) \div Threshold
       IN /\ fed' = fed \o Frames(n, from, to)
          /\ weight' = weight + w
          /\ carry' = (carry + w) % Threshold
          /\ tokens' = tokens + (IF decoded THEN fired ELSE 0)
          /\ missed' = missed + (IF decoded THEN 0 ELSE fired)

\* The encoder gives nothing, or raises.
NothingFed == UNCHANGED <<cifDone, fed, carry, tokens, weight, missed>>

\* Where CIF goes on is remembered as an index into what one call sees.
CifRange(n) == cifDone .. (Seen(n) - Lookahead - 1)

ProcessChunk ==
    /\ bundle = "live" /\ ~cancelled /\ audioBuf = Chunk
    /\ audioBuf' = 0 /\ heard' = heard + Chunk
    /\ prevTotal' = heard'
    /\ \/ /\ CifRange(heard') # {}
          /\ Fire(heard', cifDone, Seen(heard') - Lookahead)
          /\ cifDone' = Seen(heard') - Lookahead
       \/ NothingFed
    /\ UNCHANGED <<loaded, bundle, cancelled, doubled, offline, answered>>

(***************************************************************************)
(* finalize: the buffered rest, from the frame after the last one fed, then *)
(* the tail; then the utterance starts over.                               *)
(***************************************************************************)

\* Mutant of FinalStart: the frames held back for their right context are
\* taken for fed.
StartLate(n) == Max({0, cifDone + Lookahead - Offset(n)})

FinalStart(n) == Max({0, cifDone - Offset(n)})

Rest(n) == Frames(n, FinalStart(n), Seen(n))

\* The tail: what is left in CIF is a token of its own when it is half a
\* token or more.
TailToken(left) == IF 2 * left >= Threshold THEN 1 ELSE 0

Finalize ==
    /\ bundle = "live" /\ ~cancelled
    /\ \E encoded, decoded, flushed \in BOOLEAN :
          /\ encoded => heard + audioBuf > 0
          /\ LET last == IF encoded THEN Rest(heard + audioBuf) ELSE <<>>
             IN \E w \in WeightsOf(last) :
                   LET fired == (carry + w) \div Threshold
                       tail  == TailToken((carry + w) % Threshold)
                   IN answered' =
                        [frames  |-> (heard + audioBuf) - doubled,
                         offline |-> FALSE,
                         encoded |-> encoded,
                         doubled |-> doubled,
                         fed     |-> fed \o last,
                         weight  |-> weight + w,
                         tokens  |-> tokens + (IF decoded THEN fired ELSE 0)
                                     + (IF flushed THEN tail ELSE 0),
                         missed  |-> missed + (IF decoded THEN 0 ELSE fired)
                                     + (IF flushed THEN 0 ELSE tail)]
    /\ StartOver
    /\ UNCHANGED <<loaded, bundle, cancelled, offline>>

\* A finalize that raises does not start over, and whoever holds the stream may
\* go on with it.  Until the buffer is cleared, before the tail, the rest of the
\* audio is in _all_audio and still in the buffer too.
KeepsRest == audioBuf' = audioBuf /\ doubled' = doubled + audioBuf

FeedsRest ==
    /\ Fire(heard', FinalStart(heard'), Seen(heard'))
    /\ cifDone' = heard'

FinalizeRaises ==
    /\ bundle = "live" /\ ~cancelled
    /\ heard + 2 * audioBuf <= MaxFrames
    /\ heard' = heard + audioBuf /\ heard' > 0
    /\ \/ NothingFed /\ KeepsRest                         \* the encoder raises
       \/ FeedsRest /\ missed' > missed /\ KeepsRest       \* the decoder
       \/ /\ FeedsRest \/ NothingFed                       \* the decoder, over the tail
          /\ TailToken(carry') = 1
          /\ audioBuf' = 0 /\ doubled' = doubled
    /\ UNCHANGED <<loaded, bundle, prevTotal, cancelled, offline, answered>>

(***************************************************************************)
(* The offline calls, with contexts of their own: pieces of one size, the  *)
(* last one padded with frames of zeros that CIF integrates as well (they  *)
(* are 0 here), the carry taken along; a piece the encoder gives nothing   *)
(* for is left out.  They share nothing with a stream but the engines, so  *)
(* one or the other is followed.                                           *)
(***************************************************************************)
Transcribe ==
    /\ loaded /\ bundle # "live" /\ offline = NoCall
    /\ \E n \in 1 .. MaxFrames : offline' = [NoCall EXCEPT !.total = n]
    /\ answered' = NoAnswer
    /\ UNCHANGED <<loaded, bundle, audioBuf, heard, prevTotal, cifDone, fed, carry, tokens,
                   cancelled, weight, missed, doubled>>

PieceSize == Min({Window, Max({MinPiece, offline.total})})

PieceEnd == Min({offline.at + PieceSize, offline.total})

Piece == [i \in 1 .. PieceSize |->
             IF offline.at + i <= offline.total THEN offline.at + i ELSE 0]

TranscribePiece ==
    /\ offline.at < offline.total
    /\ \/ \E w \in 0 .. MaxWeight, decoded \in BOOLEAN :
             LET fired == (offline.carry + w) \div Threshold
             IN offline' = [offline EXCEPT
                              !.at     = PieceEnd,
                              !.fed    = @ \o Piece,
                              !.weight = @ + w,
                              !.carry  = (@ + w) % Threshold,
                              !.tokens = @ + (IF decoded THEN fired ELSE 0),
                              !.missed = @ + (IF decoded THEN 0 ELSE fired)]
       \/ offline' = [offline EXCEPT !.at = PieceEnd, !.encoded = FALSE]
    /\ UNCHANGED <<loaded, bundle, audioBuf, heard, prevTotal, cifDone, fed, carry, tokens,
                   cancelled, weight, missed, doubled, answered>>

TranscribeEnds ==
    /\ offline.total > 0 /\ offline.at = offline.total
    /\ \E flushed \in BOOLEAN :
          LET tail == TailToken(offline.carry)
          IN answered' = [frames  |-> offline.total,
                          offline |-> TRUE,
                          encoded |-> offline.encoded,
                          doubled |-> 0,
                          fed     |-> offline.fed,
                          weight  |-> offline.weight,
                          tokens  |-> offline.tokens + (IF flushed THEN tail ELSE 0),
                          missed  |-> offline.missed + (IF flushed THEN 0 ELSE tail)]
    /\ offline' = NoCall
    /\ UNCHANGED <<loaded, bundle, audioBuf, heard, prevTotal, cifDone, fed, carry, tokens,
                   cancelled, weight, missed, doubled>>

\* What the encoder or the decoder raises goes to the caller.
TranscribeRaises ==
    /\ offline # NoCall /\ offline' = NoCall
    /\ UNCHANGED <<loaded, bundle, audioBuf, heard, prevTotal, cifDone, fed, carry, tokens,
                   cancelled, weight, missed, doubled, answered>>

Next ==
    \/ Preload \/ Unload \/ CreateStream \/ Close \/ Cancel
    \/ Accept \/ ProcessChunk \/ Finalize \/ FinalizeRaises
    \/ Transcribe \/ TranscribePiece \/ TranscribeEnds \/ TranscribeRaises

Spec == Init /\ [][Next]_paraformerVars

(***************************************************************************)
(* Properties.                                                             *)
(***************************************************************************)
\* However the audio is cut into chunks, and whichever encoder calls fail on
\* the way, an utterance that fits the encoder's window has had each of its
\* frames integrated exactly once and in order by the time finalize answers, if
\* finalize's own call works and no finalize before it raised with audio left in
\* the buffer, which is then heard twice.
StreamFramesOnce ==
    (~answered.offline /\ answered.encoded /\ answered.doubled = 0
        /\ answered.frames <= Window) =>
            answered.fed = [i \in 1 .. answered.frames |-> i]

\* An offline call of any length, no piece of which was left out, has integrated
\* each frame once and in order, and behind the last one nothing but padding,
\* less than a piece of it.
CallFramesOnce ==
    (answered.offline /\ answered.encoded) =>
        /\ Len(answered.fed) \in answered.frames .. answered.frames + Window - 1
        /\ \A i \in DOMAIN answered.fed :
              answered.fed[i] = IF i <= answered.frames THEN i ELSE 0

\* What was put to the decoder for an answer, the tokens it gave and those it
\* failed to give, is the weight in units of the threshold, rounded half up: what
\* the carry takes from one call to the next is never lost, counted twice or
\* left over from an utterance before.  The tokens that miss from the answer are
\* those the decoder refused, no more.
WeightIsDecoded ==
    answered.tokens + answered.missed
        = (2 * answered.weight + Threshold) \div (2 * Threshold)

\* All three: each frame of an utterance, and each unit of its weight, is accounted for.
UtteranceIsAccounted == StreamFramesOnce /\ CallFramesOnce /\ WeightIsDecoded
=============================================================================
