----------------------------- MODULE MCBackends -----------------------------
(***************************************************************************)
(* The backends, and the small components beside them, do not share state: *)
(* a run chooses one of them and lets it take its steps while the others   *)
(* stay as they start.                                                     *)
(***************************************************************************)
EXTENDS TLC

CONSTANTS
    Caller, NoCaller,                                     \* the threads of every backend
    MaxGen,                                               \* EdgeAsrWorker
    MaxSid, MaxExits, MaxWire,                            \* EdgeAsrStream
    MaxOwner,                                             \* RkTts
    K, MaxSlot,                                           \* CtxPool
    Window, MinPiece, Lookahead, Chunk, Threshold, MaxWeight, MaxFrames,    \* ParaformerStream
    MaxMoss,                                              \* MossWorker
    MinSpaced, MinMulti, MinSingle, LongUnit, MinLong, MinTailRepeats, MinTailSingle,
    MinInterior, MinInteriorSingle, MaxInteriorUnit, MaxPeriodUnit, MaxTailScan, ShortRun,    \* Degeneration
    Symbol, MaxUnits,                                     \* TextGuard
    MaxSeg, MinSeg, MinFrag, MinTail, MinRun, MinKeep,    \* SegmentedAudio
    LongAudio, Phrase, LongPhrase, MaxTotal,
    Char, MinSentence, MaxSentence, MinClause, TargetClause, MaxClause,     \* TextPieces
    MaxReq, AtomLimit, MinMerge, MaxTokens, MaxDelta, MaxText,
    MaxSent,                                              \* Transport
    NFiles, Together                                      \* ArtifactInstall

VARIABLES
    proc, worker, wio, failed, ready, workerLock, restartLock, call, readers, closers,
    closing, eof, line, health, faults,
    sid, audio, partial, finalText, committed, closed, begun, armed, intent, confirm,
    exitSeen, inControl, consumer, control, wire, held, keptIds, exits,
    rkOwner, rkInner, lifecycleFailed, lifecycleLock, cachedReady, rkCall, status,
    kind, slots, ctxPool, memory, destroyed, request, builder, poolReady, careless,
    loaded, bundle, audioBuf, heard, prevTotal, cifDone, fed, carry, tokens, cancelled,
    weight, missed, doubled, offline, answered,
    mossProc, mossAlive, mossReader, pipe, mossControl, table, inbox, mossCall, attempt,
    mossGen, serving,
    spaced, units, shown,
    rkLoaded, route, total, stage, silent, cuts, at, texts, lost, answer,
    cutter, said, unread, buf, pieces, mode,
    link, inQ, frames, sent, read, reader, pump, transportClosed, closer,
    store, summed, disk, tmp, install

AsrWorker  == INSTANCE EdgeAsrWorker
AsrStream  == INSTANCE EdgeAsrStream WITH Control <- Caller
Rk         == INSTANCE RkTts WITH RkCaller <- Caller, NoRkCaller <- NoCaller
Pool       == INSTANCE CtxPool WITH Request <- Caller
Paraformer == INSTANCE ParaformerStream
Moss       == INSTANCE MossWorker WITH MossCaller <- Caller
Guard      == INSTANCE TextGuard
Segments   == INSTANCE SegmentedAudio
Pieces     == INSTANCE TextPieces
Link       == INSTANCE Transport
Artifacts  == INSTANCE ArtifactInstall WITH Installer <- Caller

VARIABLE focus      \* the backend of this run

Focus == {"asr worker", "asr stream", "rk tts", "pool", "paraformer",
          "moss", "guard", "segments", "pieces", "transport",
          "artifacts"}

Init ==
    /\ focus \in Focus
    /\ AsrWorker!Init /\ AsrStream!Init /\ Rk!Init /\ Pool!Init
    /\ Paraformer!Init /\ Moss!Init /\ Guard!Init /\ Segments!Init
    /\ Pieces!Init /\ Link!Init /\ Artifacts!Init
    /\ focus # "pool" => kind = "kokoro"
    /\ focus # "guard" => spaced
    /\ focus # "pieces" => cutter = "tokens"
    /\ focus # "transport" => link = "ws"
    /\ focus # "artifacts" => store = "hf" /\ (\A f \in DOMAIN disk : disk[f] = "absent")

\* The variables of each backend.
asrWorkerState  == <<proc, worker, wio, failed, ready, workerLock, restartLock, call, readers, closers,
                    closing, eof, line, health, faults>>
asrStreamState  == <<sid, audio, partial, finalText, committed, closed, begun, armed, intent, confirm,
                    exitSeen, inControl, consumer, control, wire, held, keptIds, exits>>
rkState         == <<rkOwner, rkInner, lifecycleFailed, lifecycleLock, cachedReady, rkCall, status>>
poolState       == <<kind, slots, ctxPool, memory, destroyed, request, builder, poolReady, careless>>
paraformerState == <<loaded, bundle, audioBuf, heard, prevTotal, cifDone, fed, carry, tokens, cancelled,
                    weight, missed, doubled, offline, answered>>
mossState       == <<mossProc, mossAlive, mossReader, pipe, mossControl, table, inbox, mossCall, attempt,
                    mossGen, serving>>
guardState      == <<spaced, units, shown>>
segmentState    == <<rkLoaded, route, total, stage, silent, cuts, at, texts, lost, answer>>
pieceState      == <<cutter, said, unread, buf, pieces, mode>>
linkState       == <<link, inQ, frames, sent, read, reader, pump, transportClosed, closer>>
artifactState   == <<store, summed, disk, tmp, install>>

\* The step of the chosen backend.
Next ==
    /\ UNCHANGED focus
    /\ IF focus = "asr worker" THEN AsrWorker!Next ELSE UNCHANGED asrWorkerState
    /\ IF focus = "asr stream" THEN AsrStream!Next ELSE UNCHANGED asrStreamState
    /\ IF focus = "rk tts" THEN Rk!Next ELSE UNCHANGED rkState
    /\ IF focus = "pool" THEN Pool!Next ELSE UNCHANGED poolState
    /\ IF focus = "paraformer" THEN Paraformer!Next ELSE UNCHANGED paraformerState
    /\ IF focus = "moss" THEN Moss!Next ELSE UNCHANGED mossState
    /\ IF focus = "guard" THEN Guard!Next ELSE UNCHANGED guardState
    /\ IF focus = "segments" THEN Segments!Next ELSE UNCHANGED segmentState
    /\ IF focus = "pieces" THEN Pieces!Next ELSE UNCHANGED pieceState
    /\ IF focus = "transport" THEN Link!Next ELSE UNCHANGED linkState
    /\ IF focus = "artifacts" THEN Artifacts!Next ELSE UNCHANGED artifactState

vars == <<focus, asrWorkerState, asrStreamState, rkState, poolState, paraformerState,
          mossState, guardState, segmentState, pieceState, linkState, artifactState>>

Spec == Init /\ [][Next]_vars

Symmetry == Permutations(Caller)

(***************************************************************************)
(* The properties of the backends, each stated in its module.              *)
(***************************************************************************)
\* A running ASR worker is the one the backend refers to, each of its pipes has
\* one owner, and what an older one does late changes nothing of a newer one
\* (EdgeAsrWorker).
AsrWorkerIsSafe == AsrWorker!AsrWorkerIsSafe

\* A cancel is about the current session, and a closed stream holds no slot but
\* one that its worker kept at the final answer (EdgeAsrStream).
StreamIsSettled == AsrStream!StreamIsSettled

\* No late answer changes the text of a cancelled session (EdgeAsrStream).
CancelFreezesText == AsrStream!CancelFreezesText

\* Nobody speaks through an owner that is not ready, and none is lost (RkTts).
RkOwnerSafe == Rk!RkOwnerSafe

\* Two synthesis calls never share a slot; a loaded pool is whole (CtxPool).
PoolIsSafe == Pool!PoolIsSafe

\* Each frame of an utterance is integrated once, but for what a finalize that
\* raised leaves in the buffer, and each unit of its weight is put to the decoder
\* once (ParaformerStream).
UtteranceIsAccounted == Paraformer!UtteranceIsAccounted

\* No MOSS process runs forgotten, no caller leaves its queue behind (MossWorker).
OneMossProcess == Moss!OneMossProcess

\* The guard drops nothing but copies (TextGuard).
OnlyCopiesGo == Guard!OnlyCopiesGo

\* The segments cover the audio within their bounds, and no part of an
\* utterance is given for the whole (SegmentedAudio).
SegmentsAreSound == Segments!SegmentsAreSound

\* The pieces for speech are the text, and within their limits, but for the
\* question marks, punctuation and spaces of a request (TextPieces).
PiecesAreText == Pieces!PiecesAreText

\* Each channel delivers in order, and its end reaches both iterators (Transport).
TransportDelivers == Link!TransportDelivers

\* An install reported done stays whole, whatever was killed before it (ArtifactInstall).
InstallIsWhole == Artifacts!InstallIsWhole
=============================================================================
