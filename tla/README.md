# A model of voxedge

`voxedge` (`src/voxedge`) is a Python library for voice conversations on edge
devices: speech comes in, a recogniser turns it into text, an LLM answers,
perhaps with tools, and a synthesiser speaks the answer, while the user may
talk over it at any moment.  This directory holds TLA+ modules for its engine,
its backends and the small components beside them, configurations with which
TLC checks them, and theorems that TLAPS proves.

The code that is hard to get right here is not the signal processing.  It is
half a dozen asyncio tasks per session, executor threads under them and native
worker processes under those, all of which can be cancelled, time out, fail or
be overtaken by a barge-in at every await.  That is what most modules are
about; a few more follow audio and text through the cutting and joining where
an off-by-one loses a word.

Contents: [inventory](#inventory), [modules](#modules),
[runs](#runs), [fairness](#fairness), [proofs](#proofs),
[findings](#findings), [what is left out](#not-modelled), [plan](#plan).

## Inventory

Paths are under `src/voxedge`.

### One session

`Session.run` (`engine/conversation.py`) starts four tasks on one event loop:

| task | code | what it does |
|---|---|---|
| audio | `engine/audio_dispatcher.py` | frames -> VAD -> open a turn, feed it, stamp its endpoint |
| events | `engine/client_events.py` | text, flush, eos, abort, tool results, response.create of the client |
| ASR loop | `engine/asr_loop.py` | polls partials, ends turns, hands finals on, enforces the turn deadline |
| synth loop | `engine/tts_sequencer.py` | takes sentences, synthesises them, answers flushes |

A final with text runs `_run_response`, which drives `run_turn`
(`engine/turn_driver.py`) as a task of its own: rounds of the LLM and of tools
through `engine/tool_registry.py`.  With `response.create` the event task
starts that reply instead, in a detached task.

They share `SessionState` (`engine/session_state.py`): the active turn and its
generation, the pending endpoint and the generation it was stamped for,
`llm_barged`, `tts_flush`, `asr_session_closed`, `client_closed`.  There are no
locks on it: between two awaits a task has it to itself, over an await it has
not.  `_bargein_tts` is called by the audio task at a speech start and by the
event task at an abort, possibly by both at once.

| component | state | operations | hard because | correct when |
|---|---|---|---|---|
| `ASRSessionManager` (`engine/asr_session_manager.py`) | IDLE / ACTIVE / FINALIZING / CANCELLING / ERROR_REBUILD, one stream, a generation, `_lock`, `_abort_epoch`, the executor mutex and its epoch | `on_speech_start`, `accept_audio`, `get_partial_for_generation`, `finalize_with_status`, `prepare_finalize_for_generation`, `cancel`, `mark_error` | a cancelled task releases `_lock` while its thread goes on in the worker; cancel times out and restarts the worker; three rebuilds and a restart may each fail | one operation per stream; a preempted final is discarded; at most one final per utterance, in order; no closed stream used, no open stream lost; no state without somebody to leave it |
| audio task, ASR loop, `SessionState` | preroll ring, active turn, endpoint and its generation, deadline anchor | open, feed, stamp, poll, resolve, finalize, time out | state is read, then awaited over, then acted on; both tasks queue for the manager's lock | an endpoint ends its own turn; each frame is heard once and in order; each turn is answered once; every turn and the loop end |
| voice output | sentence queue and buffer, `tts_flush`, the synth task and its stop event, the LLM task | enqueue, flush, drain, barge-in, reply, teardown | four tasks write the queue; barge-in waits for one of them with a bound; `wait_for` and cancellation differ between Python versions | nothing of a silenced turn is spoken; a flush is answered; a session ends, with nothing of it running |
| turn driver, tool registry | round, messages, pending remote calls | stream, dispatch, resolve, cancel | results and timeouts race, cancellation is swallowed into an error result | a barged turn asks the LLM no more; no call is left pending |
| backend coordinator (`engine/coordinator.py`) | one lock in serialized and exclusive mode | `acquire` | holders are cancelled | finalizes and the tasks that synthesise take turns; the lock is always given back |
| `WorkerIO` (`backends/jetson/worker_io.py`) | semaphore of slots, queues by request id, receipt queues, flags | `send_request`, `request`, `cancel`, `cancel_and_wait`, `close`, reader thread | threads and tasks; the reader looks up under the lock and puts without it; cancel lines overtake requests | slots conserved, no event lost, no receipt fabricated, everybody woken at close and at exit |
| TRT Edge-LLM ASR backend (`backends/jetson/trt_edge_llm_asr.py`) | the `Popen`/`WorkerIO` pair, its failure marker, two locks, helper threads; per stream: session id, cancel intent, receipt, committed text | start, restart, unload, preload, request; begin, chunk, rotate, finalize, close, cancel | rotation changes the session id under a cancel; a ready failure may leave a live process; an old worker's error arrives after a new one's start | no process or pipe without its owner; a failure marks only its own pair; a cancel hits the session it was meant for; a closed stream holds no slot |
| TRT Edge-LLM TTS backend (`trt_edge_llm_tts.py`) | the same pair, one lock | synthesize with one retry, preload, restart, unload | clears the pair after a failure without lock or identity check | one subprocess serves all requests (it does not, finding 6) |
| RK backends (`backends/rk`) | inner backend, lifecycle lock, failure flag (TTS only) | preload, unload, generate, streams | failed cleanup keeps ownership; ASR unload takes no lock | no use after unload; a failed cleanup blocks until it succeeds; no partial answer after an unload |
| Kokoro, Matcha (`kokoro_trt.py`, `matcha_trt.py`) | K slots of contexts and device memory, a queue of them | preload, synthesize, unload | concurrent calls, unload beside them, no lock | a slot has one user; a slot comes back, with its memory freed once |
| Paraformer stream (`paraformer_trt.py`) | audio, frames already fed, CIF carry | accept, finalize, cancel | every chunk re-encodes the utterance; only what is new may be fed | every frame fed once, every unit of weight in a token that is decoded or known to be refused |
| MOSS (`moss_tts_nano.py`) | one process, its reader, a table of queues | request with respawn and one retry | several callers find the same dead worker | one process; no answer to a request that is over |
| transport (`transport/base.py`) | two queues, a pump | receive, end, close | cancelled pump, close beside readers | what goes in comes out in order, and its end is heard |
| text (`text`, `engine/tts_buffer.py`, `_SentenceBuffer`, the splitters of two TTS backends) | none or one buffer | collapse, split, join | boundaries | nothing is lost but copies; what a piece holds of words and numbers fits |
| audio splitter (`audio/segment.py`) and its four callers | none | split, transcribe, join | an unload between two segments | segments tile the audio; no part passed for the whole |
| artifacts (`artifacts/download.py`, `backends/rk/artifacts.py`) | files on disk | check, fetch, verify, put in place | killed at any step | an install reported done is whole |
| Whisper, Sherpa, SenseVoice, SparkTTS, capability kernels | weights | numerical kernels, thin adapters | numerically | outside a model checker's reach |

The list of hazards, each at its source line with the properties that cover
it, is in `PROJECT.json`.

## Modules

```
engine
  UtteranceFinals          what the manager promises about finals
     ^ refinement
  ASRSessionManager        the manager, its tasks, its executor threads
     ^ seen by its caller as a FIFO lock and the effect of each call
  ASRTurns                 audio task, event task, ASR loop
     : a final with text
  VoiceOutput              replies, tools, sentence queue, synth loop, barge-in, teardown

worker transport
  WorkerIO                 one native worker: requests, receipts, reader, close

backends and the rest, composed by MCBackends
  EdgeAsrWorker            the worker process of the TRT Edge-LLM ASR backend
  EdgeAsrStream            one streaming session on it
  RkTts                    the lifecycle lock of the RK TTS backend
  CtxPool                  the slots of Kokoro and Matcha
  ParaformerStream         a streaming session of Paraformer
  MossWorker               the shared worker of MOSS
  Degeneration             the repetition guard, as functions
     ^ EXTENDS
     TextGuard             a decoder's texts through the guard
     SegmentedAudio        long audio: split, transcribe, join
  TextPieces               four ways to cut text into pieces for speech
  Transport                the two transports under a session
  ArtifactInstall          the two installers

  EdgeTtsWorker            the worker process of the TRT Edge-LLM TTS backend, by itself

MC...                      model values and bounds for TLC
...Proofs                  theorems about the module of that name; BackendsProofs
                           and DeliveryProofs: about the machine of MCBackends
```

### ASRSessionManager

Models `engine/asr_session_manager.py`.  A task is at a `pc` that names the
await it is suspended in: `lock` while it waits for `_lock`, `create`,
`finalize`, `cancel`, `restartC` and so on while it holds it.  One action is
the code from one await to the next, with everything it assigns: `Invoke` the
part of a call before the lock (`_abort_epoch += 1`), `Enter` what happens when
the lock is granted, `Continue` when the awaited operation returns, fails or
times out, `Abandon` when the task is cancelled.  `op[i]` are the callables in
the executor: `queued` for the mutex, `running` in the worker, with the stream
they work on, the mutex they captured and the epoch they compare;
`StartOp` / `FinishOp` are the threads.  A restart of the worker is an
operation on another pool, exactly as in the code, and ends every stream of
the old incarnation.  `Calls[t]` says which calls a task makes; the session
configuration gives each the calls it makes in the engine.

The docstring of the module says an ERROR_REBUILD ends in IDLE
(`asr_session_manager.py:28`); the code makes it ACTIVE with a new stream, and
so does the model.

`UtteranceFinals` is the promise in four actions: open, finalize, drop,
accept.  `Finals` instantiates it with `pending` mapped to the generation whose
finalize is in the worker with an unmoved epoch; `FinalsSpec` is checked as a
property and proved.

### ASRTurns

Models `engine/audio_dispatcher.py`, `engine/asr_loop.py`,
`engine/session_state.py` and the ASR part of `engine/client_events.py`.  The
manager appears as its callers see it: the FIFO of `_lock`, and for its head
the effect of the whole call, failures, rebuilds and the epoch of a preempted
finalize included.  Frames are numbers; the VAD is a choice that alternates
speech start and speech end; the ring holds `Ring` frames.  The ASR loop has
a `pc` for every await at which another task can get in: the cancel of the
deadline, the error event, the poll, the partial event, the endpoint event,
the slot, the manager's lock, the finalize, the reply.

### VoiceOutput

Models the rest of a session: `engine/tts_sequencer.py`,
`engine/turn_driver.py`, and of `engine/conversation.py` `_bargein_tts`,
`_on_asr_final`, `_handle_response_create`, `_run_response` and `run`.  A text
is the turn it belongs to, so a sentence is the set of turns whose text it
holds.  The coordinator's lock is `slots`; the synth of a sentence is a drain
task with its own `pc`, because it can be cancelled while it waits for the
slot and while it runs.  The executor thread under it, which only a `threading`
event stops, at its next chunk, is `orphan` once its task is gone: cancelled by a
barge-in or the teardown, or given up by the chunk watchdog or the deadline of the
sentence.  `mode` picks an engine configuration: tool registry
or plain stream, automatic reply or response.create, multi-utterance or not.

What the model made visible, beside the finding below: a cancellation that
reaches a receiver inside `_bargein_tts` is swallowed there
(`conversation.py:485`); a barge-in that comes between an accepted final and
the start of its reply is lost, because `_run_response` clears `llm_barged`
(`conversation.py:580`); the end of the input lets the synth loop end under a
reply that is still producing, so its last sentences are not spoken; and the
thread of a sentence that was given up has no slot, so that it runs beside an ASR
finalize or the next synth, although `tts_sequencer.py:447` says it runs alone.
`SlotsExclude` is about the tasks, and says nothing of `orphan`.

### WorkerIO

Models `backends/jetson/worker_io.py`.  A request is its client, a waiter a
call of `cancel_and_wait`; a step is the code between two points where another
thread can see it (a lock, a queue, the semaphore, a pipe).  The reader looks
up the queues in one step (`ReadEvent`) and puts the event in another
(`Dispatch`), which is what the races with `close()` need.  The worker process
is external: it reads lines, starts requests, emits events, may trip on a
cancel, and may exit.  `send_request` has no caller in the repository; it is
modelled as the public method it is.

### The worker processes: EdgeAsrWorker, EdgeTtsWorker, MossWorker

A process is its generation, in order of launch, and the `WorkerIO` or the
table made for it has its number.  A call is at the point of the code where it
next takes a lock or reads what another thread may have changed; a time limit
may pass at any moment.

`EdgeAsrWorker` has the pair `_worker`, `_wio`, the failure marker, `_ready`,
the two locks in the order they are taken, the threads that drain stdout and
close pipe ends, and the telemetry line on stderr that a retired process may
have left unread.
`WorkerIO`'s own promises are its environment: a request of a dead worker
fails.  `AsrWorkerIsSafe` has two halves.  Every running process is
the one `_worker` names, and each pipe has one reader and one closing thread.
And what an old process does late, the failure of a request on it or a
telemetry line on stderr, leaves the newer pair alone.

`EdgeTtsWorker` is the same backend without the care: a request that finds its
process gone clears the pair without the lock and without looking whether it is
still its own, one field after the other (`RequestExits`, `ClearIO`).
`concurrency_capability` lets several requests run and says that one subprocess
serves them (`trt_edge_llm_tts.py:640`); with two threads that synthesise
`SingleSubprocess` is violated.  `preload`, which takes no lock, runs only while
nobody speaks, so that the violation owes nothing to it.

`MossWorker` lets every caller find the worker dead or silent at any time,
stop it, start another and ask again once under the same id.

### EdgeAsrStream

One consumer thread (begin, chunk, rotate, finalize, close), control threads
(arm, request, confirm), and a worker that reads lines in the order they were
written but is told of a cancel on a way of its own.  The text of a session is
its id, which is all that the order and the number of commits depend on.  What the
worker does with a slot at a final answer is its choice, since the comments of
the code have it both ways: `keptIds` are the sessions whose slot it kept.
`StreamIsSettled` says that a closed stream holds a slot in this case only, and
`ClosedHoldsNoSlot`, that it holds none, is finding 5.  Not in
the model: `get_partial` without a request, `force_endpoint`, and the offline
rescue inside `finalize`.

### RkTts, CtxPool, ParaformerStream

`RkTts` has the lock that a streaming iterator keeps for its life, and a
teardown that may fail; status is read without the lock, in two steps.

`CtxPool` models what the code has instead of a lock: a `Queue`.  `kind`
chooses between Kokoro, whose unload empties and destroys, and Matcha; a slot's
memory is none, clean or dirty.  The queue of a Matcha build is not drained
when a build fails, which the model keeps.

`ParaformerStream` counts audio in encoder frames and weight in units of the
CIF threshold.  What an encoder call sees is the last `Window` frames, but
`cif_start` is an index into it: when the audio outgrows the window, frames are
skipped, and `StreamFramesOnce` speaks of utterances that fit.  The encoder may
give nothing or raise, and so may the decoder: of the tokens that CIF fired,
`tokens` are those of the answer and `missed` those the decoder refused, which no
answer has.  `WeightIsDecoded` is that the two together are the weight that was
fed, rounded; it says that CIF loses nothing between the calls, not that all of it
is said.  A `finalize` that raises has put the rest of the audio into `_all_audio`
and leaves it in `_audio_buf` too (`FinalizeRaises`); `doubled` counts what a
caller that goes on will have heard twice.  An offline call is the loop of the
code, with a step per piece (`offline` is its local state); its last piece is
padded to the size of the others, and CIF integrates the padding, which is frame
0 in `fed`: `CallFramesOnce` allows it behind the last frame and nowhere else.

### Text and audio: Degeneration, TextGuard, SegmentedAudio, TextPieces

The guard of `text/degenerate.py` is a set of functions on sequences of units.
Its thresholds and its caps on units and on scanned texts are constants, so that
the same comparisons happen at lengths that can be enumerated: texts of eleven
units lie on both sides of `MaxTailScan`.  The functions gave the same text as
`collapse_repetition` for every text of at most eleven units over two symbols,
and for some three thousand longer ones, with the Python constants set to the
bounds of `Backends.cfg`.  `SegmentedAudio` adds the splitter and the four routes
that use it, one of which (`rk_offline`) skips a segment that fails after an
unload.  Each turn of its loops is a step: a cut, a merge, a slice.

`TextPieces` has four cutters: `_SentenceBuffer`, `LowLatencyTTSBuffer`,
`_split_tts_text` of the TRT Edge-LLM TTS backend and `_split_stream_text` of
Kokoro.  A character is one of a few kinds.  The functions here gave the same
pieces as the Python functions for every text of at most five characters of
seven kinds, and for the buffers every way to feed it in deltas of one and two,
with the Python knobs set to the bounds of `Backends.cfg`.

A request of `_split_tts_text` is bounded in its words and numbers only: the CJK
characters, letters and full stops of one are at most `AtomLimit`.  A run of
question marks inside a token is taken before the loop looks at a limit
(`trt_edge_llm_tts.py:482`), and parts of nothing but punctuation join the request
before them (`:537`), so that the request as it stands has no bound, contrary to
the comment at `:412` (under "seen" in the [findings](#findings)).

### Transport, ArtifactInstall

`Transport` is the in-process transport and the WebSocket one, from the client
to the two iterators of the engine.  `ArtifactInstall` lets a process be killed
between any two steps and another one start on what it left.

### MCBackends

The backends share no state, so one run holds them all: `focus` picks the
one that takes its steps, and the others stay where they start.  `Spec` of
`MCBackends` is the disjunction of their specifications in one state space, and
`BackendsProofs` and `DeliveryProofs` have the theorems about it.

## Runs

All configurations are small, because the hazards need few actors: two tasks
and one worker operation overlap in every one of them.  A bound that caps a
counter is a constant whose name begins with `Max`.

| run | configuration | shows |
|---|---|---|
| `manager_session` | three session tasks, cancelled or timed out at any await (twice), three executor slots, two preemptions, three faults (one beside cancelled tasks) | `WorkerOpsSafe`, `StreamsKept`, `OneOpPerStream`, `CancelStaysInIncarnation`, `FinalsIncrease`, `HolderInv`, refinement `FinalsSpec` |
| `manager_live` | two tasks, a backend without `restart_worker` | `CallsReturn`, `CancelIsBounded` |
| `manager_pinned` | the turn deadline against a wedged worker | violation of `CancelUnpins` |
| `workerio` | `request` and `send_request` on one slot, of which one consumer leaves; or one request and two waiters for it; worker exits, close | `SlotsConserved`, `DoneIsComplete`, `EverybodyWoken`, `ReceiptIsReal`, `WaiterKeepsPlace`, `QuietAfterClose`, `CancelEventEnds`, `CloseEndsAll` |
| `workerio_late_token` | a task cancelled in the acquire | violation of `LateTokenReturned` |
| `voice_output` | five engine configurations; two finals with text, two rounds, two tools, one or two barge-ins, one or two client texts, by configuration | `QueueFresh`, `SlotsExclude`, `EndedIsQuiet`, `BargedAsksNoMore`, `SessionEnds`, `FlushAnswered` |
| `voice_stale` | one reply with tools, one barge-in | violation of `BargeSilences` |
| `asr_turns` | VAD with and without multi-utterance, lazy open; four frames, a ring of two, one client event, one fault | `HeardInOrder`, `LlmOncePerTurn`, `TurnEnds`, `AsrLoopEnds` |
| `asr_endpoint` | VAD, multi-utterance, serialized slots | violation of `EndpointOwnTurn` |
| `backends` | every module under `MCBackends`, one at a time | one or two properties of each, below |
| `asr_closed_slot` | one stream, two session ids, one canceller, one worker exit | violation of `ClosedHoldsNoSlot` |
| `tts_overlap` | two threads that synthesise, three processes | violation of `SingleSubprocess` |

`WorkerOpsSafe` is that the worker does one operation at a time and none on a
closed stream, as long as no task was cancelled at an await (the behaviours in
which one was are there for the other properties); `StreamsKept` that an ACTIVE
manager has its stream and no open stream is forgotten.  `CancelStaysInIncarnation` is the comment at
`asr_session_manager.py:580`, that an old cancel must not touch a stream after
the backend has recreated its worker, as far as the code keeps it.  A restart
whose caller waits for it has retired the older cancels; one whose caller was
cancelled in the meantime completes in its thread without publishing a mutex,
and a cancel submitted under the old one then meets the new worker.  The
property counts these (`worker - opLock`), and allows a cancel to be overtaken
by no others.  Of the `backends` run:

| property | says | bounds |
|---|---|---|
| `AsrWorkerIsSafe` | a running process is the current one, a pipe has one reader; an old worker's late failure or stderr line leaves the new one alone | two callers, two generations |
| `StreamIsSettled` | a cancel goes to the session that is current and is confirmed for that one, a closed stream holds no slot but one its worker kept with the final answer, rotated segments are committed once and in order | two controls, two session ids, one worker exit, one unread cancel line |
| `CancelFreezesText` | after a cancel is armed no text changes and the session does not rotate | the same |
| `RkOwnerSafe` | no call on an owner that is not ready, no owner lost, a broken one not reported ready | two callers, three owners |
| `PoolIsSafe` | a slot has one user; unless somebody unloads beside a call or preloads over slots, a loaded pool is whole and an unloaded one holds no memory | K = 1, two requests, three slots |
| `UtteranceIsAccounted` | each frame of an utterance that fits the window is fed once and in order, each of an offline call of any length, padding behind; the tokens given and those the decoder refused are the weight in units of the threshold, rounded | window 6, pieces of at least 3, utterances up to 8 frames |
| `OneMossProcess` | no forgotten process, no queue left of a finished call | two callers, three processes |
| `OnlyCopiesGo` | the guard drops copies of a repeated unit and nothing else | texts up to 11 units over two symbols |
| `SegmentsAreSound` | segments tile the audio within their limits; a stream of the RK backend whose segments met an unload answers no text | up to 12 frames |
| `PiecesAreText` | the pieces put together are the text; each is within its limit, a request in its words and numbers | texts up to 5 of seven kinds of character |
| `TransportDelivers` | what was sent is read once and in order; after the end nobody waits, but for a pump cancelled before its first turn | three frames |
| `InstallIsWhole` | what was reported installed stays right (without a sum: is no part of a file) | two installers, two files, one at a time |

This run has 1 000 507 distinct states at depth 37, with the threads
interchangeable (`SYMMETRY` over `Caller`; the only set of actors the modules
never order).

Why the bounds are enough to be interesting.  Two preemptions let an utterance
be preempted while its predecessor's cancel is still on its way.  Three faults
fail a create and a rebuild and the create after the restart
(`Retries = 1` stands for the three attempts of `_REBUILD_BACKOFF_S`, whose
number no property tells apart).  One slot of `WorkerIO` makes every request
contend, two waiters exceed the cap.  Two finals give a reply something to be confused with.  Four
frames open two turns with a VAD (start, end, start and one more), and fill a
ring of two before a turn opens.  The wait of `_bargein_tts` may end at any
time, so its two seconds are no bound; the same holds of every timeout in the
modules.  Of the backends: a second generation is what an old worker's late
event can hit; three RK owners leave one that failed, one that replaced it and
one more; three TTS processes are one that dies and the two that are left; three MOSS processes are one respawn of each caller; eleven units hold
the longest repetition the scaled thresholds tell apart, with text on both
sides; eight frames outgrow the window of six by a chunk, and are two offline pieces
of which the last is padded; and two
files are one that is finished and one that is not when the process dies.

In `WorkerIO` and `ASRTurns` the system may really stop (every client has
ended, the input is closed and the loop has returned), and so may a backend
when its bound is used up or its text is at its end; these runs do not check
deadlock.  Liveness says of the first two that the stop is a proper one.
`voice_output` and the manager's runs check it.

## Fairness

- `ASRSessionManager`: `LoopFairness` is the event loop (ready tasks run,
  timers fire, `asyncio.Lock` is FIFO, hence strong fairness for `Enter`) and
  the scheduling of threads.  `CallsReturn` also assumes that backend calls
  return; `CancelIsBounded` does not, and `CancelUnpins` is false because
  nothing makes them.
- `WorkerIO`: `ThreadFairness` schedules the threads; a token that comes free
  again and again is got.  `CancelEventEnds` also assumes that the worker reads
  its input and stops what it is told to stop.  `CloseEndsAll` assumes nothing
  of the worker.
- `VoiceOutput`: weak fairness of the ASR loop, the reply tasks, the synth
  loop, the end of a barge-in and `Session.run`.  Each of their waits has a
  bound in the code: the LLM its first-token and idle watchdogs, a tool its
  `timeout_s`, a barge-in two seconds, a sentence its chunk watchdog and its
  deadline of fifteen seconds.
- `ASRTurns`: weak fairness of the steps that finish a call under way, of the
  ASR loop and of the clock that passes a turn's deadline.  Manager calls
  return here, which is what `CallsReturn` says of the manager.

- `MCBackends` is checked for safety only.

In no module does the client owe anything: it need not send, answer a tool
call, end a turn or close its input.

## Proofs

`ASRSessionManagerProofs` proves, for any set of tasks and of executor slots
and whatever the bounds, calls, retries and faults are:

- `TypeCorrect`: `Spec => []TypeOK`.
- `HolderCorrect`: `Spec => []HolderInv`.  What the holder of `_lock` is doing
  determines state and stream; in particular the two tests after the worker
  operation of `finalize_with_status`, which the code calls "normally
  unreachable under the lock", can never fire.  `HolderInv` is inductive
  together with `TypeOK`; each of the steps of `Enter`, `Continue`, `Invoke`
  and `Abandon` has a lemma.
- `FinalsCorrect`: without `mark_error`, `Spec => []FinalsIncrease`.
  `FinalsIncrease` is not inductive: an append preserves it only if the new
  generation is greater than all before.  `FinalsInv` adds just that: while
  an utterance is undecided (active, being finalized or rebuilt, or being
  created) no accepted final has its generation.
- `FinalsRefinement`: under the same condition the manager implements
  `UtteranceFinals`.
- `OneOpCorrect`: `Spec => []OneOpPerStream`, also after the tasks that
  submitted the operations were cancelled and the lock was released.
- `CancelCorrect`: `Spec => []CancelStaysInIncarnation`.
- `KeptCorrect`: `Spec => []StreamsKept`.
- `WorkerOpsCorrect`: `Spec => []WorkerOpsSafe`, whose premise is that no task
  was cancelled at an await.

"Without `mark_error`" is an assumption of the two theorems on finals because it
is needed: `mark_error` makes the manager ACTIVE again for an utterance whose
final was already accepted, and no engine task calls it.  `WorkerOpsSafe` has
its premise for the same reason: TLC finds either of its parts violated with
one cancelled task, whose orphan runs on a stream that its successor closes, or
beside an operation of the next worker.  The other assumptions are those of the
module on its constants.

The last five theorems rest on one invariant, `ExecutorInv`, inductive together
with `TypeOK` and `HolderInv`.  None of the four properties is inductive, and
each layer is needed by those below it:

- `OwnInv`: a task awaits one operation, of the kind its place calls for, and
  an operation with an owner is the one its owner awaits; what has none is an
  orphan.
- `StreamInv`: the manager's stream is open and no task is closing it, what is
  in the executor is on a stream that exists, and a stream just created is
  known to nobody but the task that asked for it.
- `MutexInv`: operations on one stream have one mutex, and two that run have
  two.  This is `OneOpPerStream`; it needs `StreamInv` because a restart
  publishes a new mutex, and no stream may be used under both.
- `EpochInv`: an operation of the current epoch has the published mutex, and
  while a restart is under way everything left in the executor is of an older
  epoch.  So a cancel that is still queued then is dropped.
- `WorkerInv`: no open stream and no queued cancel is of a worker older than
  the published mutex.  This is where restarts that come through late enter:
  `worker - opLock` counts them.
- `QuietInv`, while no task was cancelled: every restart has published its
  mutex, and the operations nobody awaits are cancels that were given up, on
  streams that neither the manager nor a task holds.
- `KeptInv`, while nothing failed either: every open stream of the running
  worker is the manager's, a task's or a result's.

The steps are grouped by what they do to operations and streams (`WorkStep` for
the lock holder, `ThreadStep` for the executor, the cancelled tasks, the late
restarts), so that each layer has a lemma per group and not per action.

`WorkerIOProofs`, for any clients, waiters, concurrency and events:
`SlotsCorrect` (`SlotsConserved`), `WaitersCorrect` (`WaiterKeepsPlace`),
`WakingCorrect` (`EverybodyWoken`), `QuietCorrect` (`QuietAfterClose`),
`DoneCorrect` (`DoneIsComplete`) and `ReceiptsCorrect` (`ReceiptIsReal`).
None of the five invariants is inductive.  `IInv` adds to the first three that
whoever may come to wait is in its table while nobody has been woken
(`InTables`), that whoever was woken was so by `close` or the end of the reader,
after which no line is written (`NobodyWrites`), and that a receipt has one
waiter (`OneWaiterPerId`).  The last two are about what travels from the worker
to a client, and `Flow` follows an event along the pipe, the reader's hand and
the queue.  The worker knows a request by one line, and there is nothing of a
request it does not know (`UnknownYet`, `NothingOfUnknown`); what the reader
holds goes to the right queue (`RightQueue`); a terminal event is what became of
the request, and nothing follows it (`EndsAreReal`, `DoneIsLast`); and as long as
a request is registered, what it has heard and what is on its queue, in hand and
in the pipe add up to what was written (`NothingLost`), which for a request that
is given its `done` leaves nothing unheard (`ResultsAreReal`).  Assumed: what the
module assumes of its constants.

`ASRTurnsProofs`, for any configurations, any ring and any number of frames,
client events and faults: `HeardCorrect` (`HeardInOrder`), `RepliesCorrect`
(`LlmOncePerTurn`) and `RepliesRefinement`: the session implements
`UtteranceFinals`, with the manager's generation as its `generation`, the turn
whose finalize the loop is in and nobody has preempted as `pending`, and the
replies as `finals`.  So nothing the session does with finals needs more of the
manager than `FinalsRefinement` shows that it promises.  What makes `HeardInOrder` inductive is where a frame may be:
the frame in hand lies behind the ring, the ring behind everything heard, and
the ring is empty whenever a frame goes straight to a stream (`RingBehind`).
`LlmOncePerTurn` needs that a turn which is open, or whose final is on its way,
has been opened and not been replied to, nor has a later one
(`RepliesBehind`), and that the finalize of the loop runs under the manager's
lock (`LoopHolds`).  The same two carry the refinement: nobody opens a turn while a
finalize is pending, because that takes the lock; the other tasks can only drop
what is pending (`OthersRefine`), and what the loop accepts is the pending one
(`LoopRefines`).

`VoiceOutputProofs`, for any configurations and any number of turns, rounds,
texts, tools and barge-ins, with the lock of the coordinator or without it and
for both ways `wait_for` runs its awaitable:

- `BargedStaysAway` (`QueueFresh`).  Needed beside it: who may still speak
  speaks for a turn that is not silenced, and a turn held for
  `response.create` has not been replied to (`Unsilenced`).
- `SlotsCorrect` (`SlotsExclude`): finalizes and drain tasks take turns, and
  nobody who is over is in the queue of the lock.  A party is in it once, exactly
  while it asks or works, and who works is its head (`SlotsOwned`).  The thread of
  a sentence given up is no party.
- `EndCorrect` (`EndedIsQuiet`): the LLM turn belongs to the ASR loop or to the
  task of `response.create`, the drain task to the synth loop, and `run`
  returns after all of these (`Owned`).
- `BargedCorrect` (`BargedAsksNoMore`), an action property.

The invariants of the backends are proved about the machine of the `backends`
run: a step of one backend is a step of its module, a step of another leaves it
unchanged.  Two of the proofs are in modules about the backend by itself,
`EdgeAsrWorkerProofs` and `TextPiecesProofs`, from which `BackendsProofs` and
`DeliveryProofs` carry them over; the others are in `BackendsProofs` and, for the
parts that take speech or text in and have to give all of it, in
`DeliveryProofs`.
Their hypotheses on the constants are in the theorem, not in an `ASSUME`.

| theorem | proved in | the inductive invariant | assumed |
|---|---|---|---|
| `AsrWorkerSafe` | `EdgeAsrWorkerProofs` | types; a pipe end is marked while it is closed (`Marked`), the pair is current, who is between launch and handshake or in a retirement has the lock, who reads a pipe, who condemns a process has a fault of it to show, and the two halves about old processes | `NoCaller` is no caller |
| `StreamSettled`, `CancelFreezes` | `BackendsProofs` | types; `StreamIsSettled`; only the current session is armed, nothing is written of a session before its begin line, a session that has not begun has no slot, receipt or end, it has one begin line at most and that comes first, and what a receipt on its way says of the slot still holds | none |
| `RkSafe` | `BackendsProofs` | types; who holds the lock, that `_inner` is known, that a loader has its owner, and the property | `NoCaller` is no caller |
| `PoolSafe` | `BackendsProofs` | types; slots in the pool, in use or destroyed were made, a destroyed one is not in `slots`; `SlotsAreExclusive`; and while nothing careless was done the slots are in the pool or in use, or neither between draining and destroying (`PoolIsKept`) | `K` is a natural number |
| `MossSafe` | `BackendsProofs` | types; the property | none |
| `ArtifactsSafe` | `BackendsProofs` | types; one at a time, what is renamed is whole, the files an install has passed are right | one install at a time, a file or more |
| `TransportSafe` | `BackendsProofs` | types; `NobodyWaitsForever`; and per channel (`LinkOrder`): items are numbered as they are sent, frames are in that order, and what is sent and not read stands on the queue in its order, with what is still in frames behind it (`Stands`) | none |
| `UtteranceSafe` | `DeliveryProofs` | types; what was fed is the first `cifDone` frames while the utterance fits the window and none of it is doubled (`StreamFed`), of an offline call the frames of its pieces so far, padded behind the last (`CallFed`); the weight is the threshold times the tokens given and missed, and the carry (`WeightKept`); the property | lengths and weights are natural numbers, threshold and `MinPiece` are positive, `MinPiece <= Window` |
| `SegmentsSafe` | `DeliveryProofs` | the cuts go on from 0 (`Onward`); a cut is the last silence there is, so two segments in a row are longer than the longest (`Cutting`); of those already merged none that took a fragment in is followed by a tail that has to go there too (`Merged`), of those to come it is still as in `Cutting` (`Unmerged`); slices up to where the loop is (`Sliced`) | `min_frag <= min_tail`, `min_frag + min_tail <= max_seg + 2` in frames, lengths are natural numbers and none but `min_tail` is zero |
| `GuardSafe` | `DeliveryProofs` | what is shown is the text, or the text with one run of copies cut (`CopiesGo`) | every threshold of copies is three or more, the other bounds are natural numbers, `LongUnit` positive |
| `PiecesSafe` | `TextPiecesProofs`, `DeliveryProofs` | types; `NothingLost`; nothing is kept before anything was read, nor unread where nothing is (`Placed`); how much a buffer holds between the deltas, and more while it emits, and that the run a request is made of has fewer than `AtomLimit` characters but spaces and question marks (`Held`); every piece within its limit (`Sized`) | lengths are natural numbers, none of the limits but the shortest sentence and the shortest request is zero, `TargetClause <= MaxClause`, `MaxReq <= AtomLimit` |

`InOrder`, the first half of `TransportDelivers`, is not inductive for two
reasons.  An item read next continues a prefix only if the head of the queue is
the next item unread, which is why the queue and the frames behind it have to
hold all that is unread, in order (`FlowTakes`).  And after `close` over a
WebSocket the pump may still sort the frame it holds, so the order is kept longer
than the property asks for it (`LinkFlowing`).  In-process an iterator drops what
it takes after `close`.

The arithmetic of `UtteranceSafe` is in three lemmas: a chunk adds its weight to
the carry and fires the quotient (`Fires`), quotient and remainder are the only
ones (`DividesAs`), and the tail rounds what is left (`Rounds`).

The docstring of `_pick_cuts` gives `max_seg + min_tail` as the bound on a merged
segment (`src/voxedge/audio/segment.py:53`).  `SegmentsSafe` shows what that takes:
after a segment has taken a fragment in, what follows is longer than `max_seg`
less the fragment, which is no tail only while the two thresholds fit a segment
together.  The code's defaults do (1 and 2 seconds, segments of 4.5 and more).

`GuardSafe` needs no history: a text is looked at anew each time, and the
inductive invariant is the property for the text there is.  Its work is in the
functions.  All copies of a run are its first (`CopiesAgree`), by the least copy
that is not, and what is left behind the last copy is not one more of them
(`NoMoreCopies`), so a rest that the guard drops with the copies is a copy cut
short (`StartedCopy`, and `TailKept` for a run at the end).  Of the runs inside a
text the guard takes one that covers most, and there is a first of these
(`InteriorKept`).  Thresholds of two would not do: a thing said twice would go.

What `PiecesSafe` assumes the code sees to: `LowLatencyTTSBuffer` clamps its
knobs in this order (`tts_buffer.py:73`), `atom_limit` is `max(64, max_chars + ...)`
(`trt_edge_llm_tts.py:414`), the tokens of a segment are 16 at least
(`kokoro_trt.py:942`), and `max_buffer` is 200 by default (`conversation.py:129`).
The functions of `TextPieces` fold over texts of any length.  The provers have no
induction over sequences, so the proof makes do with a least counterexample among
the positions of a text (`Induction`): what a fold gives is the last value of a
function that takes one step per position, and `Only`, which keeps the characters
of some kinds, distributes over concatenation (`OnlyConcat`), is bounded by the
length and survives `FlattenSeq` (`FlattenConcat`).  `NothingLost` is then a sum:
`Of(pieces)`, what is kept and what is unread, and each action moves characters
from one summand to the one before it (`Moved`).  `AtomLimit` does not bound the
run a request is made of as it is: spaces at its ends do not count, and a question
mark inside a URL joins it before any limit is looked at.  `Held` counts everything
else, and one character after `MayGrow` looked last is the most there can be.

Only model-checked: liveness; fairness and `ENABLED` are beyond the provers.  All
the invariants and action properties without fairness that the passing runs check are
theorems.

## Findings

1. `CancelUnpins` (`manager_pinned`).  The comment at `asr_loop.py:92` has
   the turn deadline free a session from a wedged backend.  `cancel()` first
   needs `_lock`, which the task of the wedged operation holds, and the
   deadline's two seconds end there.
2. `LateTokenReturned` (`workerio_late_token`).  The callback that
   `send_request` attaches for a late token sees a future that is already
   cancelled; the slot of the thread that takes the token later is lost.
3. `BargeSilences` (`voice_stale`).  While `_bargein_tts` waits for the LLM
   turn the synth loop may take the next queued sentence of that turn, and
   the drain does not stop it.
4. `EndpointOwnTurn` (`asr_endpoint`).  Between the resolution of an endpoint
   and the finalize the loop awaits up to three times.  A speech start that
   gets the manager's lock in between opens the next turn, and
   `finalize_with_status`, which takes no generation, finalizes that one at its
   first frames; `state.asr_active` stays set while the manager is IDLE, so the
   rest of the utterance is dropped.
5. `ClosedHoldsNoSlot` (`asr_closed_slot`).  The comment at
   `trt_edge_llm_asr.py:2204` says that `close()` must send the worker an `end` to
   give the slot back, and `finalize` closes in its `finally` because successful
   recognitions leaked slots (`:2688`-`:2693`;
   `tests/test_asr_stream_close_contract.py:8` tells of it).  But the final
   answer sets `_closed` (`:2591`), so this close returns at `:2789` and sends none.
6. `SingleSubprocess` (`tts_overlap`).  `concurrency_capability` has a single
   subprocess serve several requests (`trt_edge_llm_tts.py:640`).  A request whose
   process is gone clears the pair without the lock (`:978`, `:1235`) while another
   launches a new process; that one is forgotten and runs on, and the next
   request launches one more beside it.

Three more interleavings of the same kind have no property, because it would
fail for a reason already shown, or because no text of the repository says
what should happen: the deadline's cancel may queue
behind a speech start and end the turn that was just opened
(`asr_loop.py:113`); a finalize still waiting for the lock takes its epoch
snapshot after an abort has moved the epoch, so the final of an aborted turn
is accepted and answered (`asr_session_manager.py:343`); and without
multi-utterance the ASR loop returns at a deadline while later frames go on
opening turns (`asr_loop.py:132`).

Seen while modelling the backends, and left to the modules' comments and to
this list, because no text of the repository states the contrary or because a
property's condition already names it:

- A telemetry line that a retired worker still had on stdout is recorded
  without a look at which worker is current (`worker_io.py:599`); the comment at
  `trt_edge_llm_asr.py:873-878` excludes that for stderr only, and so does
  `HealthIsCurrent`.
- The ready handshake of the TTS backend reads a line without a time limit, and
  its `preload` sets `_ready` without the lock.
- Paraformer utterances longer than the encoder's window lose frames
  (`ParaformerStream` above).  A `finalize` that raises leaves the rest of its
  audio in two buffers, so a caller that goes on has it heard twice
  (`paraformer_trt.py:548`, `:557`, `:573`); and the tokens of a decoder call that
  gives nothing are missing from an answer that is given as the whole
  (`:515`, `:579`, `:888`).
- The thread of a sentence that was given up runs on beside an ASR finalize or
  the next synth (`tts_sequencer.py:451`, against `:447`; `orphan` above).
- `RKASRBackend.transcribe` answers with the segments it has when it is
  unloaded between two of them (`rk/asr.py:710`).
- A MOSS request that is retried after its first chunks plays them again
  (`moss_tts_nano.py:387`), and a preload between its registration and its
  send empties the table under it.
- `LowLatencyTTSBuffer`: a first hard break with fewer than two characters
  before it hides the later ones until the length cut.
- `_split_tts_text`: a run of question marks inside a token, and punctuation that
  is merged, are not bounded by `atom_limit`, although the comment at
  `trt_edge_llm_tts.py:412` says that a single unbroken token must not turn into an
  unbounded request (`PiecesFit` counts words and numbers for this reason).  Its
  branch for abbreviations is dead, since "." is no hard break, and `max_overrun`
  never takes effect.
- A WebSocket pump cancelled before its first step puts no end on the queues, so
  the iterators wait on unless closing the socket suspends `close()`.
- Overlapping installs are unsafe: `hf` copies in place and `rk` shares one
  `.tmp` name (`Together = TRUE` shows it).

## Not modelled

- Whisper, Sherpa, SenseVoice, SparkTTS, the diarization and speaker kernels:
  numerical, with sequential control.
- `rate.py` is floating-point signal processing.  `zh_numbers.py` is a table of
  wordings, the resolver of the coordinator a table of configurations.
- Tool advertising, the prefix warm-up and the schemas are configuration.
- The exclusive mode of the coordinator; the way out of the transports, which
  changes no state of the library over a WebSocket.
- Backends: mel files, one-shot binaries, voices, environment variables, the
  parsing of manifests, the network.  A process that survives SIGKILL (MOSS).
- Brackets in `TextPieces`.
- Abstracted inside modelled components: texts and audio, logging, the
  contents of events, the template fast path and the history of the turn
  driver, the number of synth threads that outlive their tasks (`orphan` is
  whether there is one), a crash of the reader thread.

## Plan

Built: everything in the list of modules.  Left over, in this order:

1. The stdout route of the telemetry in `EdgeAsrWorker`.
2. The exclusive mode of the coordinator: unload of one backend before the
   other is loaded, under cancelled holders.
