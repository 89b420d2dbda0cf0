---------------------------- MODULE VoiceOutput ----------------------------
(***************************************************************************)
(* The speaking half of a Session (voxedge/engine): the replies that       *)
(* finals start (conversation.py, llm_turn.py, turn_driver.py), the        *)
(* sentence queue and the synth loop (tts_sequencer.py), barge-in by the   *)
(* audio and the event task, and the end of the session.                   *)
(*                                                                         *)
(* All tasks run on one event loop: a step is the code of one task from    *)
(* one await that suspends it to the next (q.put of an unbounded queue     *)
(* never suspends).  Text is abstracted to the replies it comes from: a    *)
(* sentence is the set of turns whose text it holds, 0 being text of the   *)
(* client.  Whether a turn is open in the ASR manager, and what it hears,  *)
(* is left to chance here; ASRSessionManager models it.                    *)
(***************************************************************************)
EXTENDS Naturals, Sequences

CONSTANTS
  Modes,       \* engine configurations: registry?, auto response?, multi?
  Serialized,  \* does the coordinator serialise its two slots?
  Wrapped,     \* does wait_for run its awaitable as a task (until Python 3.12)?
  MaxRounds,   \* max_tool_rounds
  MaxTurns(_), \* bound: finals with text, in a configuration
  MaxClient(_),\* bound: texts and flushes of the client, likewise
  MaxBarges(_),\* bound: barge-ins, likewise
  MaxTexts,    \* bound: texts a reply adds
  MaxTools     \* bound: tool calls of a round

ASSUME ModesType ==
  Modes \subseteq [registry : BOOLEAN, auto : BOOLEAN, multi : BOOLEAN]
ASSUME FlagsType == Serialized \in BOOLEAN /\ Wrapped \in BOOLEAN
ASSUME RoundsType == MaxRounds \in Nat \ {0}
ASSUME BoundsType ==
  /\ \A m \in Modes : MaxTurns(m) \in Nat /\ MaxClient(m) \in Nat /\ MaxBarges(m) \in Nat
  /\ MaxTexts \in Nat /\ MaxTools \in Nat

VARIABLES
  mode,         \* the configuration
  asr,          \* where the ASR loop is
  last,         \* does it return after the final it has in hand?
  turn,         \* the last turn that had a final with text
  pending,      \* _pending_response_text: a turn, 0 if None
  manual,       \* the task of response.create
  reply,        \* the turn that was last replied to
  llm,          \* where the LLM turn of _run_response is
  round,        \* rounds it has asked the LLM for
  texts,        \* texts it has added
  tools,        \* tool calls of this round not returned yet
  call,         \* the one that is being awaited
  noneCancelled,\* no call of this round was cancelled
  llmBarged,    \* state.llm_barged
  pc,           \* pc[x]: where the audio or the event task is
  barges,       \* barge-ins so far
  clientTexts,  \* texts and flushes of the client so far
  q, buf,       \* the sentence queue, the sentence buffer
  ttsFlush,     \* state.tts_flush
  tts,          \* where the synth loop is
  hand,         \* the sentence it has taken
  drain,        \* where the drain task of that sentence is
  orphan,       \* does a _run_synth thread run on without its drain task?
  slots,        \* the lock of the coordinator: its holder and who waits
  asrClosed,    \* state.asr_session_closed
  clientClosed, \* state.client_closed
  sess,         \* where Session.run is
  silenced      \* turns that a barge-in wound down and drained

asrVars  == <<asr, last, turn, pending>>
llmVars  == <<reply, llm, round, texts, tools, call, noneCancelled, llmBarged>>
recvVars == <<pc, barges, clientTexts>>
channel  == <<q, buf, ttsFlush>>
synth    == <<tts, hand, drain, orphan>>
ends     == <<asrClosed, clientClosed, sess>>
vars == <<mode, asrVars, manual, llmVars, recvVars, channel, synth, slots,
          ends, silenced>>

Receivers == {"audio", "events"}
Parties   == {"asr", "tts"}
Sentences == SUBSET (0 .. turn)

TypeOK ==
  /\ mode \in Modes
  /\ asr \in {"poll", "slot", "finalize", "emit", "reply", "end"}
  /\ last \in BOOLEAN
  /\ turn \in 0 .. MaxTurns(mode) /\ pending \in 0 .. turn
  /\ manual \in {"none", "created", "reply"}
  /\ reply \in 0 .. turn
  /\ llm \in {"none", "created", "stream", "dispatch", "plain", "done"}
  /\ round \in 0 .. MaxRounds /\ texts \in 0 .. MaxTexts
  /\ tools \in 0 .. MaxTools
  /\ call \in {"none", "local", "remote", "cancelled"}
  /\ (call = "none") <=> (llm # "dispatch")
  /\ noneCancelled \in BOOLEAN /\ llmBarged \in BOOLEAN
  /\ pc \in [Receivers -> {"recv", "barge", "end"}]
  /\ barges \in 0 .. MaxBarges(mode) /\ clientTexts \in 0 .. MaxClient(mode)
  /\ q \in Seq(Sentences \ {{}}) /\ buf \in Sentences
  /\ ttsFlush \in BOOLEAN
  /\ tts \in {"top", "get", "got", "synth", "end"}
  /\ hand \in Sentences
  /\ drain \in {"none", "slot", "run", "cancelled"}
  /\ orphan \in BOOLEAN
  /\ slots \in Seq(Parties)
  /\ asrClosed \in BOOLEAN /\ clientClosed \in BOOLEAN
  /\ sess \in {"run", "closing", "teardown", "end"}
  /\ silenced \subseteq 1 .. turn

Init ==
  /\ mode \in Modes
  /\ asr = "poll" /\ last = FALSE /\ turn = 0 /\ pending = 0
  /\ manual = "none"
  /\ reply = 0 /\ llm = "none" /\ round = 0 /\ texts = 0 /\ tools = 0
  /\ call = "none" /\ noneCancelled = TRUE /\ llmBarged = FALSE
  /\ pc = [x \in Receivers |-> "recv"] /\ barges = 0 /\ clientTexts = 0
  /\ q = <<>> /\ buf = {} /\ ttsFlush = FALSE
  /\ tts = "top" /\ hand = {} /\ drain = "none" /\ orphan = FALSE
  /\ slots = <<>>
  /\ asrClosed = FALSE /\ clientClosed = FALSE /\ sess = "run"
  /\ silenced = {}

-----------------------------------------------------------------------------
(***************************************************************************)
(* The sentence buffer, the queue and the coordinator.                     *)
(***************************************************************************)

\* enqueue_text: the text completes a sentence or stays in the buffer.
EnqueueText(t) ==
  /\ \/ /\ q' = Append(q, buf \cup {t})
        /\ buf' = {}
     \/ /\ buf' = buf \cup {t}
        /\ q' = q
  /\ ttsFlush' = ttsFlush

\* flush_and_signal over what the queue and the buffer hold.
Flush(queue, rest) ==
  /\ q' = IF rest = {} THEN queue ELSE Append(queue, rest)
  /\ buf' = {}
  /\ ttsFlush' = TRUE

\* Mutant of DrainAndReset: the half-accumulated buffer survives.
KeepBuffer ==
  /\ q' = <<>>
  /\ buf' = buf
  /\ ttsFlush' = FALSE

\* drain_and_reset
DrainAndReset ==
  /\ q' = <<>>
  /\ buf' = {}
  /\ ttsFlush' = FALSE

\* The lock of the coordinator is fair: waiters get it in their order.
Without(p) ==
  LET at == {i \in DOMAIN slots : slots[i] = p}
      i  == CHOOSE i \in at : TRUE
  IN  IF at = {} THEN slots
      ELSE SubSeq(slots, 1, i - 1) \o SubSeq(slots, i + 1, Len(slots))
Request(p) == IF Serialized THEN Append(slots, p) ELSE slots
Granted(p) == Serialized => Head(slots) = p

-----------------------------------------------------------------------------
(***************************************************************************)
(* The ASR loop and the replies its finals start.                          *)
(***************************************************************************)

\* An endpoint fires: the active turn is finalised under the slot "asr"; with
\* no active turn the loop goes straight to its closing final.
AsrEndpoint ==
  /\ asr = "poll" /\ ~clientClosed
  /\ \/ asr' = "slot" /\ slots' = Request("asr") /\ last' = FALSE
     \/ asr' = "emit" /\ last' = (asrClosed \/ ~mode.multi) /\ slots' = slots
  /\ UNCHANGED <<mode, turn, pending, manual, llmVars, recvVars, channel,
                 synth, ends, silenced>>

AsrFinalize ==
  /\ asr = "slot" /\ Granted("asr")
  /\ asr' = "finalize"
  /\ UNCHANGED <<mode, last, turn, pending, manual, llmVars, recvVars,
                 channel, synth, slots, ends, silenced>>

\* is_closing is read here, before the final is sent.
AsrFinalized ==
  /\ asr = "finalize"
  /\ asr' = "emit" /\ last' = (asrClosed \/ ~mode.multi)
  /\ slots' = Without("asr")
  /\ UNCHANGED <<mode, turn, pending, manual, llmVars, recvVars, channel,
                 synth, ends, silenced>>

\* The loop returns, or polls on.
AfterFinal == asr' = (IF last THEN "end" ELSE "poll") /\ last' = FALSE

\* _run_response for the turn t.
StartReply(t) ==
  /\ reply' = t
  /\ IF mode.registry THEN llm' = "created" /\ llmBarged' = FALSE
                      ELSE llm' = "plain" /\ llmBarged' = llmBarged
  /\ UNCHANGED <<round, texts, tools, call, noneCancelled>>

AsrFinalEmpty ==
  /\ asr = "emit"
  /\ AfterFinal
  /\ UNCHANGED <<mode, turn, pending, manual, llmVars, recvVars,
                 channel, synth, slots, ends, silenced>>

\* _on_asr_final: the text is held for response.create, or replied to.
AsrFinalText ==
  /\ asr = "emit" /\ turn < MaxTurns(mode)
  /\ turn' = turn + 1
  /\ IF mode.auto
     THEN /\ asr' = "reply" /\ last' = last
          /\ StartReply(turn + 1)
          /\ pending' = pending
     ELSE /\ AfterFinal
          /\ pending' = turn + 1
          /\ UNCHANGED llmVars
  /\ UNCHANGED <<mode, manual, recvVars, channel, synth, slots, ends,
                 silenced>>

AsrReplied ==
  /\ asr = "reply" /\ llm = "done"
  /\ AfterFinal /\ llm' = "none"
  /\ UNCHANGED <<mode, turn, pending, manual, reply, round, texts,
                 tools, call, noneCancelled, llmBarged, recvVars, channel,
                 synth, slots, ends, silenced>>

\* The loop returns: closed with no active turn, or on its turn deadline.
AsrEnd ==
  /\ asr = "poll"
  /\ clientClosed \/ asrClosed \/ ~mode.multi
  /\ asr' = "end"
  /\ UNCHANGED <<mode, last, turn, pending, manual, llmVars, recvVars,
                 channel, synth, slots, ends, silenced>>

\* response.create: one held turn becomes a task of its own.
ResponseCreate ==
  /\ pc["events"] = "recv" /\ ~clientClosed
  /\ ~mode.auto /\ manual = "none" /\ pending # 0
  /\ manual' = "created" /\ pending' = 0 /\ reply' = pending
  /\ UNCHANGED <<mode, asr, last, turn, llm, round, texts, tools, call,
                 noneCancelled, llmBarged, recvVars, channel, synth, slots,
                 ends, silenced>>

ManualStart ==
  /\ manual = "created"
  /\ manual' = "reply"
  /\ StartReply(reply)
  /\ UNCHANGED <<mode, asrVars, recvVars, channel, synth, slots, ends,
                 silenced>>

ManualEnd ==
  /\ manual = "reply" /\ llm = "done"
  /\ manual' = "none" /\ llm' = "none"
  /\ UNCHANGED <<mode, asrVars, reply, round, texts, tools, call,
                 noneCancelled, llmBarged, recvVars, channel, synth, slots,
                 ends, silenced>>

-----------------------------------------------------------------------------
(***************************************************************************)
(* The LLM turn: run_turn of turn_driver.py, and the plain stream of an    *)
(* engine without tools.                                                   *)
(***************************************************************************)

LlmActive == llm \in {"created", "stream", "dispatch"}

llmRest == <<mode, asrVars, manual, reply, llmBarged, recvVars, synth, slots,
             ends, silenced>>

\* The end of the turn, and of its locals.
TurnOver ==
  /\ llm' = "done" /\ call' = "none"
  /\ round' = 0 /\ texts' = 0 /\ tools' = 0 /\ noneCancelled' = TRUE

AskLlm ==
  /\ llm' = "stream" /\ round' = round + 1 /\ call' = "none"
  /\ tools' = 0 /\ noneCancelled' = TRUE
  /\ texts' = texts

LlmStart ==
  /\ llm = "created"
  /\ IF llmBarged THEN TurnOver ELSE AskLlm
  /\ UNCHANGED <<llmRest, channel>>

LlmText ==
  /\ llm = "stream" /\ ~llmBarged /\ texts < MaxTexts
  /\ texts' = texts + 1
  /\ EnqueueText(reply)
  /\ UNCHANGED <<llmRest, llm, round, tools, call, noneCancelled>>

\* The next event of the stream finds the turn barged.
LlmAborts ==
  /\ llm = "stream" /\ llmBarged
  /\ TurnOver
  /\ UNCHANGED <<llmRest, channel>>

\* The answer ends without tool calls.
LlmFinish ==
  /\ llm = "stream" /\ ~llmBarged
  /\ Flush(q, buf)
  /\ TurnOver
  /\ UNCHANGED llmRest

\* The stream or its watchdog fails: what was said is flushed, unasked.
LlmFails ==
  /\ llm = "stream"
  /\ Flush(q, buf)
  /\ TurnOver
  /\ UNCHANGED llmRest

\* The next tool call of a round goes out, perhaps after its preamble.
Dispatch ==
  /\ llm' = "dispatch"
  /\ call' \in {"local", "remote"}
  /\ \/ /\ texts < MaxTexts /\ texts' = texts + 1
        /\ EnqueueText(reply)
     \/ UNCHANGED <<texts, channel>>
  /\ round' = round

\* The stream ends in tool calls: the first one goes out, barged or not.
LlmTools ==
  /\ llm = "stream"
  /\ tools' \in 1 .. MaxTools
  /\ noneCancelled' = TRUE
  /\ Dispatch
  /\ UNCHANGED llmRest

\* A tool has returned (its result, its timeout, its error or the dictionary
\* of a cancelled call), and others of the round are left.
ToolNext ==
  /\ llm = "dispatch" /\ tools > 1
  /\ tools' = tools - 1
  /\ noneCancelled' = (noneCancelled /\ call # "cancelled")
  /\ Dispatch
  /\ UNCHANGED llmRest

\* Mutant of ToolsDone: no look at llm_barged before the next round.
AskBarged ==
  /\ llm = "dispatch" /\ tools = 1
  /\ IF round < MaxRounds THEN AskLlm /\ UNCHANGED channel
                          ELSE Flush(q, buf) /\ TurnOver
  /\ UNCHANGED llmRest

\* The last tool has returned: the turn is barged, or all of its tools speak a
\* template, or the LLM is asked again, or the rounds are used up.
ToolsDone ==
  /\ llm = "dispatch" /\ tools = 1
  /\ \/ llmBarged /\ TurnOver /\ UNCHANGED channel
     \/ /\ ~llmBarged /\ noneCancelled /\ call # "cancelled"
        /\ Flush(q, buf \cup {reply}) /\ TurnOver
     \/ ~llmBarged /\ round < MaxRounds /\ AskLlm /\ UNCHANGED channel
     \/ ~llmBarged /\ round = MaxRounds /\ Flush(q, buf) /\ TurnOver
  /\ UNCHANGED llmRest

PlainText ==
  /\ llm = "plain" /\ texts < MaxTexts
  /\ texts' = texts + 1
  /\ EnqueueText(reply)
  /\ UNCHANGED <<llmRest, llm, round, tools, call, noneCancelled>>

\* The plain stream ends, and is flushed, or fails, and is not.
PlainEnd ==
  /\ llm = "plain"
  /\ Flush(q, buf) \/ UNCHANGED channel
  /\ TurnOver
  /\ UNCHANGED llmRest

-----------------------------------------------------------------------------
(***************************************************************************)
(* Barge-in: _bargein_tts, called by the audio task on SPEECH_START and by *)
(* the event task on CLIENT_ABORT.                                         *)
(***************************************************************************)

\* A drained turn is silenced unless its LLM turn may still speak.
Silence ==
  silenced' = IF LlmActive \/ llm = "plain" \/ manual = "created" \/ reply = 0
              THEN silenced ELSE silenced \cup {reply}

\* interrupt_synth, llm_barged, cancel_pending_remote; with no LLM turn to
\* wait for the queue is drained in the same step.
BargeBegin(x) ==
  /\ pc[x] = "recv" /\ ~clientClosed
  /\ x = "audio" => ~asrClosed
  /\ barges < MaxBarges(mode) /\ barges' = barges + 1
  /\ pending' = IF x = "events" THEN 0 ELSE pending
  /\ drain' = IF drain \in {"slot", "run"} THEN "cancelled" ELSE drain
  /\ orphan' = (orphan \/ drain = "run")
  /\ llmBarged' = TRUE
  /\ call' = IF call = "remote" THEN "cancelled" ELSE call
  /\ IF LlmActive
     THEN pc' = [pc EXCEPT ![x] = "barge"] /\ UNCHANGED <<channel, silenced>>
     ELSE pc' = pc /\ DrainAndReset /\ Silence
  /\ UNCHANGED <<mode, asr, last, turn, manual, reply, llm, round, texts,
                 tools, noneCancelled, clientTexts, tts, hand, slots, ends>>

\* The LLM turn has wound down, or two seconds are over.
BargeEnd(x) ==
  /\ pc[x] = "barge"
  /\ pc' = [pc EXCEPT ![x] = "recv"]
  /\ DrainAndReset /\ Silence
  /\ UNCHANGED <<mode, asrVars, manual, llmVars, barges, clientTexts, synth,
                 slots, ends>>

\* CLIENT_TEXT and CLIENT_TTS_FLUSH
ClientSpeaks ==
  /\ pc["events"] = "recv" /\ ~clientClosed /\ clientTexts < MaxClient(mode)
  /\ clientTexts' = clientTexts + 1
  /\ EnqueueText(0) \/ Flush(q, buf)
  /\ UNCHANGED <<mode, asrVars, manual, llmVars, pc, barges, synth, slots,
                 ends, silenced>>

\* Single utterance: the end of speech, or the client's EOS, closes it.
UtteranceEnds ==
  /\ \E x \in Receivers : pc[x] = "recv"
  /\ ~mode.multi /\ ~asrClosed /\ ~clientClosed
  /\ asrClosed' = TRUE
  /\ UNCHANGED <<mode, asrVars, manual, llmVars, recvVars, channel, synth,
                 slots, clientClosed, sess, silenced>>

\* A receiver's stream is over, or its next frame finds the client closed.
EndInput(x) ==
  /\ pc[x] = "recv"
  /\ pc' = [pc EXCEPT ![x] = "end"]
  /\ UNCHANGED <<mode, asrVars, manual, llmVars, barges, clientTexts, channel,
                 synth, slots, ends, silenced>>

\* A receiver fails on a frame.
HandlerFails(x) ==
  /\ pc[x] = "recv"
  /\ pc' = [pc EXCEPT ![x] = "end"]
  /\ clientClosed' = TRUE
  /\ UNCHANGED <<mode, asrVars, manual, llmVars, barges, clientTexts, channel,
                 synth, slots, asrClosed, sess, silenced>>

\* A send of any task fails.
SendFails ==
  /\ ~clientClosed
  /\ clientClosed' = TRUE
  /\ UNCHANGED <<mode, asrVars, manual, llmVars, recvVars, channel, synth,
                 slots, asrClosed, sess, silenced>>

-----------------------------------------------------------------------------
(***************************************************************************)
(* The synth loop.                                                         *)
(***************************************************************************)

ttsRest == <<mode, asrVars, manual, llmVars, recvVars, ends, silenced>>

\* Mutant of TtsTop: tts_done is sent without clearing the flag.
KeepFlag ==
  LET drained == ttsFlush /\ q = <<>>
      rearm   == mode.multi /\ ~asrClosed
  IN /\ tts = "top"
     /\ \/ (clientClosed \/ (drained /\ ~rearm)) /\ tts' = "end"
        \/ ~clientClosed /\ ~(drained /\ ~rearm) /\ tts' = "get"
     /\ UNCHANGED <<ttsRest, channel, hand, drain, orphan, slots>>

\* The top of the loop: the session's last tts_done, the tts_done of a reply,
\* or the wait for a sentence.
TtsTop ==
  LET drained == ttsFlush /\ q = <<>>
      rearm   == mode.multi /\ ~asrClosed
  IN /\ tts = "top"
     /\ \/ /\ clientClosed \/ (drained /\ ~rearm)
           /\ tts' = "end" /\ ttsFlush' = ttsFlush
        \/ /\ ~clientClosed /\ drained /\ rearm
           /\ ttsFlush' = FALSE /\ tts' = tts
        \/ /\ ~clientClosed /\ ~drained
           /\ tts' = "get" /\ ttsFlush' = ttsFlush
     /\ UNCHANGED <<ttsRest, q, buf, hand, drain, orphan, slots>>

\* wait_for gives up after 0.2 s with the queue empty.
TtsIdle ==
  /\ tts = "get" /\ q = <<>>
  /\ tts' = "top"
  /\ UNCHANGED <<ttsRest, channel, hand, drain, orphan, slots>>

\* The drain task of the sentence is started and asks for the slot.
StartDrain == tts' = "synth" /\ drain' = "slot" /\ slots' = Request("tts")

\* A sentence is there.  Where wait_for runs queue.get as a task of its own,
\* that task has it some turns of the event loop before the synth loop has.
TtsTake ==
  /\ tts = "get" /\ q # <<>>
  /\ hand' = Head(q) /\ q' = Tail(q)
  /\ IF Wrapped THEN tts' = "got" /\ UNCHANGED <<drain, slots>>
                ELSE StartDrain
  /\ UNCHANGED <<ttsRest, buf, ttsFlush, orphan>>

TtsStart ==
  /\ tts = "got"
  /\ StartDrain
  /\ UNCHANGED <<ttsRest, channel, hand, orphan>>

DrainRuns ==
  /\ drain = "slot" /\ Granted("tts")
  /\ drain' = "run"
  /\ UNCHANGED <<ttsRest, channel, tts, hand, orphan, slots>>

\* Mutant of SentenceEnds: an interrupted drain task keeps the slot.
KeepSlot ==
  /\ tts = "synth"
  /\ tts' = "top" /\ hand' = {} /\ drain' = "none"
  /\ slots' = IF drain = "cancelled" THEN slots ELSE Without("tts")
  /\ UNCHANGED <<ttsRest, channel, orphan>>

\* The drain task ends and gives its slot back: the synth is over, its chunk
\* watchdog or the deadline of the sentence fires, or it was interrupted.  Only
\* in the first case has the thread of the synth ended too.
SentenceEnds ==
  /\ tts = "synth"
  /\ tts' = "top" /\ hand' = {} /\ drain' = "none" /\ slots' = Without("tts")
  /\ \/ UNCHANGED orphan
     \/ drain = "run" /\ orphan' = TRUE
  /\ UNCHANGED <<ttsRest, channel>>

\* The thread sees its stop event at its next chunk, or generate_streaming
\* ends.
OrphanEnds ==
  /\ orphan /\ orphan' = FALSE
  /\ UNCHANGED <<ttsRest, channel, tts, hand, drain, slots>>

-----------------------------------------------------------------------------
(***************************************************************************)
(* The end of the session: Session.run.                                    *)
(***************************************************************************)

\* cancel_pending_remote
CancelRemote == call' = IF call = "remote" THEN "cancelled" ELSE call

\* Mutant of InputEnds: the input is closed without a flush.
CloseWithoutFlush ==
  /\ sess = "run" /\ \A x \in Receivers : pc[x] = "end"
  /\ sess' = "closing" /\ asrClosed' = TRUE
  /\ CancelRemote
  /\ UNCHANGED <<mode, asrVars, manual, reply, llm, round, texts, tools,
                 noneCancelled, llmBarged, recvVars, channel, synth, slots,
                 clientClosed, silenced>>

\* _watch_input_end
InputEnds ==
  /\ sess = "run" /\ \A x \in Receivers : pc[x] = "end"
  /\ sess' = "closing"
  /\ asrClosed' = TRUE /\ ttsFlush' = TRUE
  /\ CancelRemote
  /\ UNCHANGED <<mode, asrVars, manual, reply, llm, round, texts, tools,
                 noneCancelled, llmBarged, recvVars, q, buf, synth, slots,
                 clientClosed, silenced>>

\* task.cancel() on the task of a reply reaches its LLM turn: a remote call
\* turns the cancellation into a result, everything else ends.
CancelReply ==
  /\ IF llm = "dispatch" /\ call # "local"
     THEN /\ CancelRemote
          /\ UNCHANGED <<llm, round, texts, tools, noneCancelled>>
     ELSE TurnOver
  /\ UNCHANGED <<reply, llmBarged>>

\* The finally clause of run, up to the wait for the cancelled tasks.  A task
\* waiting in _bargein_tts swallows its cancellation.
BeginTeardown ==
  /\ sess' = "teardown" /\ clientClosed' = TRUE /\ asrClosed' = asrClosed
  /\ pc' = [x \in Receivers |-> IF pc[x] = "recv" THEN "end" ELSE pc[x]]
  /\ manual' = IF manual = "created" THEN "none" ELSE manual
  /\ UNCHANGED <<mode, last, turn, pending, barges, clientTexts, channel,
                 silenced>>

\* Both work tasks have returned.
Teardown ==
  /\ sess \in {"run", "closing"} /\ asr = "end" /\ tts = "end"
  /\ BeginTeardown
  /\ IF manual = "reply" THEN CancelReply ELSE UNCHANGED llmVars
  /\ UNCHANGED <<asr, synth, slots>>

\* run is cancelled, or a work task raises: the work tasks are cancelled too.
\* A loop that waits for a reply or a synth loses the cancellation to it.
TeardownEarly ==
  /\ sess \in {"run", "closing"} /\ ~(asr = "end" /\ tts = "end")
  /\ BeginTeardown
  /\ IF (manual = "reply" \/ asr = "reply") /\ llm # "done"
     THEN CancelReply ELSE UNCHANGED llmVars
  /\ asr' = IF asr = "reply" THEN asr ELSE "end"
  /\ IF tts = "synth"
     THEN /\ drain' = "cancelled" /\ orphan' = (orphan \/ drain = "run")
          /\ UNCHANGED <<tts, hand>>
     ELSE tts' = "end" /\ hand' = {} /\ UNCHANGED <<drain, orphan>>
  /\ slots' = Without("asr")

\* Mutant of Finish: the manual response is not awaited.
FinishEarly ==
  /\ sess = "teardown"
  /\ asr = "end" /\ tts = "end"
  /\ \A x \in Receivers : pc[x] = "end"
  /\ sess' = "end"
  /\ UNCHANGED <<mode, asrVars, manual, llmVars, recvVars, channel, synth,
                 slots, asrClosed, clientClosed, silenced>>

\* Every task has ended; the transport is closed.
Finish ==
  /\ sess = "teardown"
  /\ asr = "end" /\ tts = "end" /\ manual = "none"
  /\ \A x \in Receivers : pc[x] = "end"
  /\ sess' = "end"
  /\ UNCHANGED <<mode, asrVars, manual, llmVars, recvVars, channel, synth,
                 slots, asrClosed, clientClosed, silenced>>

Ended == sess = "end" /\ UNCHANGED vars

-----------------------------------------------------------------------------
AsrLoop ==
  \/ AsrEndpoint \/ AsrFinalize \/ AsrFinalized \/ AsrFinalEmpty
  \/ AsrFinalText \/ AsrReplied \/ AsrEnd

ReplyTasks ==
  \/ ManualStart \/ ManualEnd
  \/ LlmStart \/ LlmText \/ LlmAborts \/ LlmFinish \/ LlmFails
  \/ LlmTools \/ ToolNext \/ ToolsDone \/ PlainText \/ PlainEnd

TtsLoop ==
  \/ TtsTop \/ TtsIdle \/ TtsTake \/ TtsStart \/ SentenceEnds

BargeEnds == \E x \in Receivers : BargeEnd(x)

Client ==
  \/ ResponseCreate \/ ClientSpeaks \/ UtteranceEnds \/ SendFails
  \/ \E x \in Receivers : BargeBegin(x) \/ EndInput(x) \/ HandlerFails(x)

SessionRun == InputEnds \/ Teardown \/ Finish

Next ==
  \/ AsrLoop \/ ReplyTasks \/ TtsLoop \/ DrainRuns \/ OrphanEnds
  \/ Client \/ BargeEnds
  \/ SessionRun \/ TeardownEarly \/ Ended

Spec == Init /\ [][Next]_vars

\* Every task of the session is scheduled, and every wait of one is bounded:
\* the LLM by its watchdogs, a tool by its timeout, a barge-in by two seconds,
\* a sentence by its deadline.  The client, and failures, owe nothing.
FairSpec ==
  /\ Spec
  /\ WF_vars(AsrLoop) /\ WF_vars(ReplyTasks) /\ WF_vars(TtsLoop)
  /\ WF_vars(BargeEnds) /\ WF_vars(SessionRun)

-----------------------------------------------------------------------------
\* What a barge-in wound down and drained never comes back: no sentence of a
\* silenced turn is in the queue or the buffer, whatever the tools and the
\* flushes of that turn still did (_bargein_tts waits before it drains).
QueueFresh ==
  /\ buf \cap silenced = {}
  /\ \A i \in DOMAIN q : q[i] \cap silenced = {}

\* In serialized mode finalizes and drain tasks take turns: no finalize runs
\* while a drain task has the slot, nobody holds or awaits it twice, and a task
\* that is over, deadline and barge-in included, neither holds nor awaits it.
\* It is about the tasks.  The thread of a synth that was given up (orphan) has
\* no slot and may run beside a finalize and beside the next synth, although
\* drain says that the synth thread runs alone.
SlotsExclude ==
  Serialized =>
    /\ ~(asr = "finalize" /\ drain = "run")
    /\ \A i, j \in DOMAIN slots : slots[i] = slots[j] => i = j
    /\ (\E i \in DOMAIN slots : slots[i] = "asr") <=> asr \in {"slot", "finalize"}
    /\ (\E i \in DOMAIN slots : slots[i] = "tts") <=> drain # "none"

\* A barged turn may finish its tools but never asks the LLM for a round more
\* (should_abort before every round and after the tools).
BargedAsksNoMore ==
  [][llmBarged /\ llmBarged' => round' <= round]_vars

\* run returns only when no task of the session is left: no LLM turn, no plain
\* stream, no tool call, no drain task, no waiting barge-in, no slot.  Threads
\* are not waited for (orphan).
EndedIsQuiet ==
  sess = "end" =>
    /\ ~LlmActive /\ llm # "plain" /\ call = "none"
    /\ drain = "none" /\ manual = "none"
    /\ (\A x \in Receivers : pc[x] # "barge") /\ slots = <<>>

\* A session whose client has gone ends, whatever its loops were doing
\* (the slot-leak fix of _watch_input_end).
SessionEnds == (\A x \in Receivers : pc[x] = "end") ~> (sess = "end")

\* A signalled flush is answered: by tts_done, by a barge-in that takes it
\* back, or by the end of the synth loop.
FlushAnswered == ttsFlush ~> (~ttsFlush \/ tts = "end")

\* _bargein_tts: "a barge-in leaves nothing stale to play".
BargeSilences ==
  tts = "synth" /\ drain # "cancelled" => hand \cap silenced = {}
=============================================================================
