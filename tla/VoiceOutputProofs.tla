------------------------- MODULE VoiceOutputProofs -------------------------
(***************************************************************************)
(* Proofs about the speaking half of a Session: what a barge-in drained    *)
(* stays away, the two slots exclude each other, a barged turn asks the    *)
(* LLM for nothing more and run() returns on a quiet session, for any      *)
(* configurations and any number of turns, rounds, texts, tools, client    *)
(* messages and barge-ins.                                                 *)
(***************************************************************************)
EXTENDS VoiceOutput, TLAPS

\* A sentence of text, and a queue of them.
Queues == Seq(Sentences \ {{}})

\* The conjuncts of TypeOK by what they are about.
ConversationType ==
  /\ asr \in {"poll", "slot", "finalize", "emit", "reply", "end"} /\ last \in BOOLEAN
  /\ turn \in 0 .. MaxTurns(mode) /\ pending \in 0 .. turn
  /\ manual \in {"none", "created", "reply"} /\ reply \in 0 .. turn
TurnType ==
  /\ llm \in {"none", "created", "stream", "dispatch", "plain", "done"}
  /\ round \in 0 .. MaxRounds /\ texts \in 0 .. MaxTexts /\ tools \in 0 .. MaxTools
  /\ call \in {"none", "local", "remote", "cancelled"}
  /\ (call = "none") <=> (llm # "dispatch")
  /\ noneCancelled \in BOOLEAN /\ llmBarged \in BOOLEAN
ReceiverType ==
  /\ pc \in [Receivers -> {"recv", "barge", "end"}]
  /\ barges \in 0 .. MaxBarges(mode) /\ clientTexts \in 0 .. MaxClient(mode)
ChannelType == q \in Queues /\ buf \in Sentences /\ ttsFlush \in BOOLEAN
SynthType ==
  /\ tts \in {"top", "get", "got", "synth", "end"} /\ hand \in Sentences
  /\ drain \in {"none", "slot", "run", "cancelled"} /\ orphan \in BOOLEAN /\ slots \in Seq(Parties)
EndType ==
  /\ asrClosed \in BOOLEAN /\ clientClosed \in BOOLEAN
  /\ sess \in {"run", "closing", "teardown", "end"} /\ silenced \subseteq 1 .. turn

\* An LLM turn that has not begun, or is over, has asked for no round.
Unasked == llm \notin {"stream", "dispatch"} => round = 0

\* An LLM turn belongs to the loop or to the task that waits for it, a drain task
\* to the synth loop; and the end of a session comes after that of its tasks.
Owned ==
  /\ llm # "none" => asr = "reply" \/ manual = "reply"
  /\ asr = "reply" => mode.auto
  /\ manual # "none" => ~mode.auto
  /\ drain # "none" <=> tts = "synth"
  /\ sess = "end" => /\ asr = "end" /\ tts = "end" /\ manual = "none"
                     /\ \A x \in Receivers : pc[x] = "end"

\* TypeOK is its parts.
LEMMA TypeParts ==
  /\ TypeOK <=> /\ mode \in Modes /\ ConversationType /\ TurnType /\ ReceiverType
                /\ ChannelType /\ SynthType /\ EndType
  /\ TypeOK' <=> /\ mode' \in Modes /\ ConversationType' /\ TurnType' /\ ReceiverType'
                 /\ ChannelType' /\ SynthType' /\ EndType'
  BY DEF TypeOK, ConversationType, TurnType, ReceiverType, ChannelType, SynthType, EndType, Queues

\* The bounds are numbers.
LEMMA Bounds ==
  ASSUME mode \in Modes
  PROVE  /\ MaxTurns(mode) \in Nat /\ MaxClient(mode) \in Nat /\ MaxBarges(mode) \in Nat
         /\ MaxTexts \in Nat /\ MaxTools \in Nat /\ MaxRounds \in Nat /\ 0 < MaxRounds
         /\ mode.registry \in BOOLEAN /\ mode.auto \in BOOLEAN /\ mode.multi \in BOOLEAN
  BY ModesType, BoundsType, RoundsType

\* A part keeps its type when its variables stay.
LEMMA Kept ==
  ASSUME TypeOK, mode' = mode
  PROVE  /\ UNCHANGED <<asr, last, turn, pending, manual, reply>> => ConversationType'
         /\ UNCHANGED <<llm, round, texts, tools, call, noneCancelled, llmBarged>> => TurnType'
         /\ UNCHANGED recvVars => ReceiverType'
         /\ UNCHANGED <<turn, channel>> => ChannelType'
         /\ UNCHANGED <<turn, synth, slots>> => SynthType'
         /\ UNCHANGED <<turn, ends, silenced>> => EndType'
  <1> USE TypeParts
  <1>1. turn' = turn => Sentences' = Sentences /\ Queues' = Queues
    BY DEF Sentences, Queues
  <1>2. UNCHANGED <<asr, last, turn, pending, manual, reply>> => ConversationType'
    BY DEF ConversationType
  <1>3. UNCHANGED <<llm, round, texts, tools, call, noneCancelled, llmBarged>> => TurnType'
    BY DEF TurnType
  <1>4. UNCHANGED recvVars => ReceiverType'
    BY DEF ReceiverType, recvVars
  <1>5. UNCHANGED <<turn, channel>> => ChannelType'
    BY <1>1 DEF ChannelType, channel
  <1>6. UNCHANGED <<turn, synth, slots>> => SynthType'
    BY <1>1 DEF SynthType, synth
  <1>7. UNCHANGED <<turn, ends, silenced>> => EndType'
    BY DEF EndType, ends
  <1> QED
    BY <1>2, <1>3, <1>4, <1>5, <1>6, <1>7

\* What is done with the sentences keeps their types.
LEMMA ChannelSteps ==
  ASSUME TypeOK, turn' = turn
  PROVE  /\ \A t \in 0 .. turn : EnqueueText(t) => ChannelType'
         /\ \A rest \in Sentences : Flush(q, rest) => ChannelType'
         /\ DrainAndReset => ChannelType'
  <1>0. Sentences' = Sentences /\ Queues' = Queues
    BY DEF Sentences, Queues
  <1>1. q \in Queues /\ buf \in Sentences /\ ttsFlush \in BOOLEAN
    BY TypeParts DEF ChannelType
  <1>2. \A s \in Sentences : s # {} => Append(q, s) \in Queues
    BY <1>1 DEF Queues
  <1>3. {} \in Sentences /\ <<>> \in Queues
    BY DEF Sentences, Queues
  <1>4. ASSUME NEW t \in 0 .. turn, EnqueueText(t) PROVE ChannelType'
    <2>1. buf \cup {t} \in Sentences /\ buf \cup {t} # {}
      BY <1>1 DEF Sentences
    <2> QED
      BY <1>0, <1>1, <1>2, <1>3, <1>4, <2>1 DEF EnqueueText, ChannelType
  <1>5. ASSUME NEW rest \in Sentences, Flush(q, rest) PROVE ChannelType'
    BY <1>0, <1>1, <1>2, <1>3, <1>5 DEF Flush, ChannelType
  <1>6. ASSUME DrainAndReset PROVE ChannelType'
    BY <1>0, <1>3, <1>6 DEF DrainAndReset, ChannelType
  <1> QED
    BY <1>4, <1>5, <1>6

\* So do the requests and the leaving of the slots.
LEMMA SlotSteps ==
  ASSUME slots \in Seq(Parties), NEW p \in Parties
  PROVE  Request(p) \in Seq(Parties) /\ Without(p) \in Seq(Parties)
  <1>1. Append(slots, p) \in Seq(Parties)
    OBVIOUS
  <1>2. \A i \in DOMAIN slots :
           SubSeq(slots, 1, i - 1) \o SubSeq(slots, i + 1, Len(slots)) \in Seq(Parties)
    <2> SUFFICES ASSUME NEW i \in DOMAIN slots
                 PROVE SubSeq(slots, 1, i - 1) \o SubSeq(slots, i + 1, Len(slots)) \in Seq(Parties)
      OBVIOUS
    <2>1. SubSeq(slots, 1, i - 1) \in Seq(Parties) /\ SubSeq(slots, i + 1, Len(slots)) \in Seq(Parties)
      OBVIOUS
    <2> QED
      BY <2>1
  <1> QED
    BY <1>1, <1>2 DEF Request, Without

\* The steps of the LLM turn.
TurnStep ==
  \/ LlmStart \/ LlmText \/ LlmAborts \/ LlmFinish \/ LlmFails
  \/ LlmTools \/ ToolNext \/ ToolsDone \/ PlainText \/ PlainEnd

\* They leave the rest alone.
LEMMA TurnFrame == ASSUME TurnStep PROVE UNCHANGED llmRest
  BY DEF TurnStep, LlmStart, LlmText, LlmAborts, LlmFinish, LlmFails, LlmTools, ToolNext, ToolsDone,
         PlainText, PlainEnd

\* They keep the types.
LEMMA TurnStepType == ASSUME TypeOK, Unasked, TurnStep PROVE TypeOK'
  <1>0. UNCHANGED llmRest
    BY TurnFrame
  <1>1. /\ mode \in Modes /\ turn' = turn /\ mode' = mode
        /\ ConversationType' /\ ReceiverType' /\ SynthType' /\ EndType'
    BY <1>0, Kept, TypeParts DEF llmRest, asrVars
  <1>2. reply \in 0 .. turn /\ buf \in Sentences /\ buf \cup {reply} \in Sentences
    BY TypeParts DEF ConversationType, ChannelType, Sentences
  <1>3. UNCHANGED channel \/ EnqueueText(reply) \/ Flush(q, buf) \/ Flush(q, buf \cup {reply})
    BY DEF TurnStep, LlmStart, LlmText, LlmAborts, LlmFinish, LlmFails, LlmTools, ToolNext,
           ToolsDone,
           PlainText, PlainEnd, Dispatch
  <1>4. ChannelType'
    BY <1>1, <1>2, <1>3, Kept, ChannelSteps DEF channel
  <1>5. TurnType'
    <2>0. TurnType /\ llmBarged' = llmBarged /\ MaxTexts \in Nat /\ MaxTools \in Nat /\ MaxRounds \in Nat
          /\ 0 < MaxRounds
      BY <1>0, <1>1, TypeParts, Bounds DEF llmRest
    <2>1. TurnOver => TurnType'
      BY <2>0 DEF TurnOver, TurnType
    <2>2. AskLlm /\ round < MaxRounds => TurnType'
      BY <2>0 DEF AskLlm, TurnType
    <2>3. Dispatch /\ tools' \in 0 .. MaxTools /\ noneCancelled' \in BOOLEAN => TurnType'
      BY <2>0 DEF Dispatch, TurnType
    <2>4. CASE LlmText \/ PlainText
      BY <2>0, <2>4 DEF LlmText, PlainText, TurnType
    <2>5. CASE LlmStart
      <3>1. TurnOver \/ AskLlm
        BY <2>5 DEF LlmStart
      <3>2. round < MaxRounds
        BY <2>0, <2>5 DEF LlmStart, Unasked
      <3> QED
        BY <2>0, <2>1, <2>2, <3>1, <3>2
    <2>6. CASE LlmTools
      <3>1. tools' \in 0 .. MaxTools /\ noneCancelled' \in BOOLEAN
        BY <2>0, <2>6 DEF LlmTools
      <3> QED
        BY <2>3, <2>6, <3>1 DEF LlmTools
    <2>7. CASE ToolNext
      <3>1. tools' \in 0 .. MaxTools
        BY <2>0, <2>7 DEF ToolNext, TurnType
      <3>2. noneCancelled' \in BOOLEAN
        BY <2>0, <2>7 DEF ToolNext, TurnType
      <3> QED
        BY <2>3, <2>7, <3>1, <3>2 DEF ToolNext
    <2>8. CASE LlmAborts \/ LlmFinish \/ LlmFails \/ PlainEnd
      BY <2>1, <2>8 DEF LlmAborts, LlmFinish, LlmFails, PlainEnd
    <2>9. CASE ToolsDone
      BY <2>1, <2>2, <2>9 DEF ToolsDone
    <2> QED
      BY <2>4, <2>5, <2>6, <2>7, <2>8, <2>9 DEF TurnStep
  <1> QED
    BY <1>1, <1>4, <1>5, TypeParts

\* The synth loop and its drain task keep the types.
LEMMA SynthStepType == ASSUME TypeOK, TtsLoop \/ DrainRuns \/ OrphanEnds PROVE TypeOK'
  <1> USE DEF ttsRest
  <1>0. UNCHANGED ttsRest
    BY DEF TtsLoop, DrainRuns, OrphanEnds, TtsTop, TtsIdle, TtsTake, TtsStart, SentenceEnds
  <1>1. /\ mode \in Modes /\ turn' = turn /\ mode' = mode
        /\ ConversationType' /\ TurnType' /\ ReceiverType' /\ EndType'
    BY <1>0, Kept, TypeParts DEF asrVars, llmVars
  <1>2. ChannelType /\ SynthType /\ Sentences' = Sentences /\ Queues' = Queues /\ {} \in Sentences
    BY <1>1, TypeParts DEF Sentences, Queues
  <1>3. /\ Request("tts") \in Seq(Parties) /\ Without("tts") \in Seq(Parties)
    BY <1>2, SlotSteps DEF SynthType, Parties
  <1>4. CASE TtsTop
    <2>1. ttsFlush' \in BOOLEAN /\ tts' \in {"top", "end", "get"}
          /\ UNCHANGED <<q, buf, hand, drain, orphan, slots>>
      BY <1>2, <1>4 DEF TtsTop, ChannelType
    <2> QED
      BY <1>1, <1>2, <2>1, TypeParts DEF ChannelType, SynthType
  <1>5. CASE TtsIdle \/ DrainRuns \/ OrphanEnds
    BY <1>1, <1>2, <1>5, TypeParts DEF TtsIdle, DrainRuns, OrphanEnds, ChannelType, SynthType, channel
  <1>6. CASE TtsTake
    <2>1. Head(q) \in Sentences /\ Tail(q) \in Queues
      BY <1>2, <1>6 DEF TtsTake, ChannelType, Queues
    <2>2. tts' \in {"got", "synth"} /\ drain' \in {drain, "slot"} /\ slots' \in Seq(Parties)
      BY <1>2, <1>3, <1>6 DEF TtsTake, StartDrain, SynthType
    <2> QED
      BY <1>1, <1>2, <1>6, <2>1, <2>2, TypeParts DEF TtsTake, ChannelType, SynthType
  <1>7. CASE TtsStart \/ SentenceEnds
    BY <1>1, <1>2, <1>3, <1>7, TypeParts
       DEF TtsStart, StartDrain, SentenceEnds, ChannelType, SynthType, channel
  <1> QED
    BY <1>4, <1>5, <1>6, <1>7 DEF TtsLoop

\* The start of a reply keeps the types of the LLM turn.
LEMMA StartReplyType ==
  ASSUME TypeOK, mode' = mode, NEW t \in 0 .. turn + 1, StartReply(t), llm # "dispatch"
  PROVE  TurnType' /\ reply' = t
  <1>1. llmBarged' \in BOOLEAN
    BY TypeParts DEF StartReply, TurnType
  <1> QED
    BY <1>1, TypeParts DEF StartReply, TurnType

\* The ASR loop keeps the types.
LEMMA AsrStepType ==
  ASSUME TypeOK, Owned, AsrLoop
  PROVE  TypeOK'
  <1>0. /\ UNCHANGED <<mode, manual, recvVars, channel, synth, ends, silenced>>
        /\ mode \in Modes /\ ConversationType /\ TurnType
    BY TypeParts DEF AsrLoop, AsrEndpoint, AsrFinalize, AsrFinalized, AsrFinalEmpty, AsrFinalText,
           AsrReplied, AsrEnd
  <1>1. slots' \in Seq(Parties)
    <2>1. slots' \in {slots, Request("asr"), Without("asr")}
      BY DEF AsrLoop, AsrEndpoint, AsrFinalize, AsrFinalized, AsrFinalEmpty, AsrFinalText,
             AsrReplied, AsrEnd
    <2>2. slots \in Seq(Parties) /\ "asr" \in Parties
      BY TypeParts DEF SynthType, Parties
    <2> QED
      BY <2>1, <2>2, SlotSteps
  <1>2. last' \in BOOLEAN
    BY <1>0, Bounds, TypeParts
       DEF AsrLoop, AsrEndpoint, AsrFinalize, AsrFinalized, AsrFinalEmpty, AsrFinalText,
             AsrReplied, AsrEnd, AfterFinal, ConversationType, EndType
  <1>3. CASE ~AsrFinalText
    <2>1. /\ asr' \in {"slot", "emit", "finalize", "end", "poll"}
          /\ UNCHANGED <<turn, pending, reply>>
      BY <1>3 DEF AsrLoop, AsrEndpoint, AsrFinalize, AsrFinalized, AsrFinalEmpty,
             AsrReplied, AsrEnd, AfterFinal, llmVars
    <2>2. TurnType'
      BY <1>0, <1>3 DEF AsrLoop, AsrEndpoint, AsrFinalize, AsrFinalized, AsrFinalEmpty,
             AsrReplied, AsrEnd, llmVars, TurnType
    <2>3. ConversationType'
      BY <1>0, <1>2, <2>1 DEF ConversationType
    <2>4. SynthType'
      <3>1. Sentences' = Sentences
        BY <2>1 DEF Sentences
      <3> QED
        BY <1>0, <1>1, <3>1, TypeParts DEF SynthType, synth
    <2> QED
      BY <1>0, <2>1, <2>2, <2>3, <2>4, Kept, TypeParts
  <1>4. CASE AsrFinalText
    <2>1. turn \in Nat /\ turn' = turn + 1 /\ turn' \in 0 .. MaxTurns(mode) /\ turn' \in Nat
      BY <1>0, <1>4, Bounds DEF AsrFinalText, ConversationType
    <2>2. Sentences \subseteq Sentences'
      BY <2>1 DEF Sentences
    <2>3. Queues \subseteq Queues'
      <3>1. Sentences \ {{}} \subseteq Sentences' \ {{}}
        BY <2>2
      <3>2. ASSUME NEW S, NEW T, S \subseteq T, NEW s \in Seq(S) PROVE s \in Seq(T)
        <4>1. Len(s) \in Nat /\ s \in [1 .. Len(s) -> S]
          BY <3>2
        <4>2. s \in [1 .. Len(s) -> T]
          BY <3>2, <4>1
        <4> QED
          BY <4>1, <4>2
      <3> QED
        BY <3>1, <3>2 DEF Queues
    <2>4. ChannelType' /\ SynthType' /\ ReceiverType'
      BY <1>0, <1>1, <2>2, <2>3, TypeParts, Kept DEF ChannelType, SynthType, channel, synth
    <2>5. EndType'
      BY <1>0, <2>1, TypeParts DEF EndType, ends
    <2>6. CASE mode.auto
      <3>1. asr' = "reply" /\ StartReply(turn + 1) /\ pending' = pending
        BY <1>4, <2>6 DEF AsrFinalText
      <3>2. llm # "dispatch"
        BY <1>4, <2>6 DEF AsrFinalText, Owned
      <3>3. TurnType' /\ reply' = turn + 1
        BY <1>0, <2>1, <3>1, <3>2, StartReplyType
      <3>4. ConversationType'
        BY <1>0, <1>2, <2>1, <3>1, <3>3 DEF ConversationType
      <3> QED
        BY <1>0, <2>4, <2>5, <3>3, <3>4, TypeParts
    <2>7. CASE ~mode.auto
      <3>1. asr' \in {"end", "poll"} /\ pending' = turn + 1 /\ UNCHANGED llmVars
        BY <1>4, <2>7 DEF AsrFinalText, AfterFinal
      <3>2. TurnType' /\ ConversationType'
        BY <1>0, <1>2, <2>1, <3>1 DEF llmVars, TurnType, ConversationType
      <3> QED
        BY <1>0, <2>4, <2>5, <3>2, TypeParts
    <2> QED
      BY <2>6, <2>7
  <1> QED
    BY <1>3, <1>4

\* The steps of the task of response.create keep the types.
LEMMA ManualStepType ==
  ASSUME TypeOK, Owned, ManualStart \/ ManualEnd PROVE TypeOK'
  <1>0. UNCHANGED <<mode, asrVars, recvVars, channel, synth, slots, ends, silenced>>
    BY DEF ManualStart, ManualEnd
  <1>1. ReceiverType' /\ ChannelType' /\ SynthType' /\ EndType' /\ mode \in Modes
    BY <1>0, Kept, TypeParts DEF asrVars
  <1>2. CASE ManualStart
    <2>1. llm # "dispatch" /\ reply \in 0 .. turn + 1
      BY <1>2, TypeParts DEF ManualStart, Owned, ConversationType
    <2>2. TurnType' /\ reply' = reply
      BY <1>0, <1>2, <2>1, StartReplyType DEF ManualStart
    <2> QED
      BY <1>0, <1>1, <1>2, <2>2, TypeParts DEF ManualStart, asrVars, ConversationType
  <1>3. CASE ManualEnd
    BY <1>0, <1>1, <1>3, TypeParts DEF ManualEnd, asrVars, ConversationType, TurnType
  <1> QED
    BY <1>2, <1>3

\* A silenced turn is a turn.
LEMMA SilenceType ==
  ASSUME TypeOK, UNCHANGED <<turn, ends>>, Silence \/ UNCHANGED silenced PROVE EndType'
  <1>1. reply # 0 => reply \in 1 .. turn
    BY TypeParts DEF ConversationType
  <1>2. silenced' \subseteq 1 .. turn
    BY <1>1, TypeParts DEF Silence, EndType
  <1> QED
    BY <1>2, TypeParts DEF EndType, ends

\* The client, and what fails, keep the types.
LEMMA ClientStepType ==
  ASSUME TypeOK, Client \/ BargeEnds PROVE TypeOK'
  <1>0. mode \in Modes
    BY TypeParts
  <1>1. CASE ResponseCreate
    <2>1. /\ UNCHANGED <<mode, asr, last, turn, llm, round, texts, tools, call, noneCancelled,
                         llmBarged, recvVars, channel, synth, slots, ends, silenced>>
          /\ manual' = "created" /\ pending' = 0 /\ reply' = pending
      BY <1>1 DEF ResponseCreate
    <2>2. TurnType' /\ ReceiverType' /\ ChannelType' /\ SynthType' /\ EndType'
      BY <2>1, Kept
    <2>3. ConversationType'
      BY <2>1, TypeParts DEF ConversationType
    <2> QED
      BY <1>0, <2>1, <2>2, <2>3, TypeParts
  <1>2. CASE ClientSpeaks
    <2>1. /\ UNCHANGED <<mode, asrVars, manual, llmVars, pc, barges, synth, slots, ends, silenced>>
          /\ clientTexts' = clientTexts + 1 /\ clientTexts < MaxClient(mode)
          /\ EnqueueText(0) \/ Flush(q, buf)
      BY <1>2 DEF ClientSpeaks
    <2>2. ConversationType' /\ TurnType' /\ SynthType' /\ EndType'
      BY <2>1, Kept DEF asrVars, llmVars
    <2>3. 0 \in 0 .. turn /\ buf \in Sentences
      BY <1>0, Bounds, TypeParts DEF ConversationType, ChannelType
    <2>4. ChannelType'
      BY <2>1, <2>3, ChannelSteps DEF asrVars
    <2>5. ReceiverType'
      BY <1>0, <2>1, Bounds, TypeParts DEF ReceiverType
    <2> QED
      BY <1>0, <2>1, <2>2, <2>4, <2>5, TypeParts
  <1>3. CASE UtteranceEnds \/ SendFails
    <2>1. /\ UNCHANGED <<mode, asrVars, manual, llmVars, recvVars, channel, synth, slots, sess, silenced>>
          /\ asrClosed' \in {asrClosed, TRUE} /\ clientClosed' \in {clientClosed, TRUE}
      BY <1>3 DEF UtteranceEnds, SendFails
    <2>2. ConversationType' /\ TurnType' /\ ReceiverType' /\ ChannelType' /\ SynthType'
      BY <2>1, Kept DEF asrVars, llmVars
    <2>3. EndType'
      BY <2>1, TypeParts DEF EndType, asrVars
    <2> QED
      BY <1>0, <2>1, <2>2, <2>3, TypeParts
  <1>4. ASSUME NEW x \in Receivers, EndInput(x) \/ HandlerFails(x) PROVE TypeOK'
    <2>1. /\ UNCHANGED <<mode, asrVars, manual, llmVars, barges, clientTexts, channel, synth, slots,
                         asrClosed, sess, silenced>>
          /\ pc' = [pc EXCEPT ![x] = "end"] /\ clientClosed' \in {clientClosed, TRUE}
      BY <1>4 DEF EndInput, HandlerFails, ends
    <2>2. ConversationType' /\ TurnType' /\ ChannelType' /\ SynthType'
      BY <2>1, Kept DEF asrVars, llmVars
    <2>3. EndType' /\ ReceiverType'
      BY <2>1, TypeParts DEF EndType, ReceiverType, asrVars
    <2> QED
      BY <1>0, <2>1, <2>2, <2>3, TypeParts
  <1>5. ASSUME NEW x \in Receivers, BargeBegin(x) PROVE TypeOK'
    <2>1. /\ UNCHANGED <<mode, asr, last, turn, manual, reply, llm, round, texts, tools,
                         noneCancelled, clientTexts, tts, hand, slots, ends>>
          /\ pending' \in {0, pending} /\ drain' \in {drain, "cancelled"}
          /\ orphan' = (orphan \/ drain = "run") /\ llmBarged' = TRUE
          /\ call' = IF call = "remote" THEN "cancelled" ELSE call
          /\ barges' = barges + 1 /\ barges < MaxBarges(mode)
          /\ pc' \in {pc, [pc EXCEPT ![x] = "barge"]}
          /\ UNCHANGED channel \/ DrainAndReset
          /\ Silence \/ UNCHANGED silenced
      BY <1>5 DEF BargeBegin
    <2>2. EndType' /\ ChannelType'
      BY <2>1, SilenceType, ChannelSteps, Kept
    <2>3. ConversationType' /\ TurnType'
      BY <2>1, TypeParts DEF ConversationType, TurnType
    <2>4. ReceiverType'
      BY <1>0, <2>1, Bounds, TypeParts DEF ReceiverType
    <2>5. SynthType'
      BY <2>1, TypeParts DEF SynthType, Sentences
    <2> QED
      BY <1>0, <2>1, <2>2, <2>3, <2>4, <2>5, TypeParts
  <1>6. ASSUME NEW x \in Receivers, BargeEnd(x) PROVE TypeOK'
    <2>1. /\ UNCHANGED <<mode, asrVars, manual, llmVars, barges, clientTexts, synth, slots, ends>>
          /\ pc' = [pc EXCEPT ![x] = "recv"] /\ DrainAndReset /\ Silence
      BY <1>6 DEF BargeEnd
    <2>2. EndType' /\ ChannelType' /\ ConversationType' /\ TurnType' /\ SynthType'
      BY <2>1, SilenceType, ChannelSteps, Kept DEF asrVars, llmVars
    <2>3. ReceiverType'
      BY <2>1, TypeParts DEF ReceiverType
    <2> QED
      BY <1>0, <2>1, <2>2, <2>3, TypeParts
  <1> QED
    BY <1>1, <1>2, <1>3, <1>4, <1>5, <1>6 DEF Client, BargeEnds

\* The end of the session keeps the types.
LEMMA SessionStepType ==
  ASSUME TypeOK, SessionRun \/ TeardownEarly PROVE TypeOK'
  <1>0. mode \in Modes /\ TurnType
    BY TypeParts
  <1>1. CASE InputEnds
    <2>1. /\ UNCHANGED <<mode, asrVars, manual, reply, llm, round, texts, tools, noneCancelled,
                         llmBarged, recvVars, q, buf, synth, slots, clientClosed, silenced>>
          /\ sess' = "closing" /\ asrClosed' = TRUE /\ ttsFlush' = TRUE
          /\ call' = IF call = "remote" THEN "cancelled" ELSE call
      BY <1>1 DEF InputEnds, CancelRemote
    <2>2. ConversationType' /\ ReceiverType' /\ SynthType'
      BY <2>1, Kept DEF asrVars
    <2>3. TurnType'
      BY <1>0, <2>1 DEF TurnType
    <2>4. EndType' /\ ChannelType'
      BY <2>1, TypeParts DEF EndType, ChannelType, Sentences, Queues, asrVars
    <2> QED
      BY <1>0, <2>1, <2>2, <2>3, <2>4, TypeParts
  <1>2. CASE Finish
    <2>1. /\ UNCHANGED <<mode, asrVars, manual, llmVars, recvVars, channel, synth, slots, asrClosed,
                         clientClosed, silenced>>
          /\ sess' = "end"
      BY <1>2 DEF Finish
    <2>2. ConversationType' /\ TurnType' /\ ReceiverType' /\ ChannelType' /\ SynthType'
      BY <2>1, Kept DEF asrVars, llmVars
    <2>3. EndType'
      BY <2>1, TypeParts DEF EndType, asrVars
    <2> QED
      BY <1>0, <2>1, <2>2, <2>3, TypeParts
  <1>3. CASE Teardown \/ TeardownEarly
    <2>1. BeginTeardown /\ (CancelReply \/ UNCHANGED llmVars)
      BY <1>3 DEF Teardown, TeardownEarly
    <2>2. /\ UNCHANGED <<mode, last, turn, pending, barges, clientTexts, channel, silenced>>
          /\ sess' = "teardown" /\ clientClosed' = TRUE /\ asrClosed' = asrClosed
          /\ manual' \in {manual, "none"}
          /\ pc' = [x \in Receivers |-> IF pc[x] = "recv" THEN "end" ELSE pc[x]]
      BY <2>1 DEF BeginTeardown
    <2>3. UNCHANGED <<reply, llmBarged>> /\ TurnType'
      <3>1. CASE UNCHANGED llmVars
        BY <1>0, <3>1 DEF llmVars, TurnType
      <3>2. CASE CancelReply /\ llm = "dispatch" /\ call # "local"
        BY <1>0, <3>2 DEF CancelReply, CancelRemote, TurnType
      <3>3. CASE CancelReply /\ ~(llm = "dispatch" /\ call # "local")
        <4>1. TurnOver /\ UNCHANGED <<reply, llmBarged>>
          BY <3>3 DEF CancelReply
        <4>2. MaxTexts \in Nat /\ MaxTools \in Nat /\ MaxRounds \in Nat
          BY <1>0, Bounds
        <4> QED
          BY <1>0, <4>1, <4>2 DEF TurnOver, TurnType
      <3> QED
        BY <2>1, <3>1, <3>2, <3>3
    <2>4. asr' \in {asr, "end"} /\ tts' \in {tts, "end"} /\ hand' \in {hand, {}}
          /\ drain' \in {drain, "cancelled"} /\ orphan' \in {orphan, orphan \/ drain = "run"}
          /\ slots' \in {slots, Without("asr")}
      BY <1>3 DEF Teardown, TeardownEarly, synth
    <2>5. ConversationType'
      BY <2>2, <2>3, <2>4, TypeParts DEF ConversationType
    <2>6. ReceiverType'
      BY <2>2, TypeParts DEF ReceiverType
    <2>7. ChannelType'
      BY <2>2, Kept
    <2>8. EndType'
      BY <2>2, TypeParts DEF EndType
    <2>9. SynthType'
      <3>1. slots' \in Seq(Parties)
        BY <2>4, TypeParts, SlotSteps DEF SynthType, Parties
      <3> QED
        BY <2>2, <2>4, <3>1, TypeParts DEF SynthType, Sentences
    <2> QED
      BY <1>0, <2>2, <2>3, <2>5, <2>6, <2>7, <2>8, <2>9, TypeParts
  <1> QED
    BY <1>1, <1>2, <1>3 DEF SessionRun

\* Every step keeps the types.
LEMMA TypeStep == ASSUME TypeOK, Unasked, Owned, [Next]_vars PROVE TypeOK'
  <1>1. CASE UNCHANGED vars
    <2>1. UNCHANGED <<mode, asrVars, manual, llmVars, recvVars, channel, synth, slots, ends, silenced>>
      BY <1>1 DEF vars
    <2> QED
      BY <2>1, Kept, TypeParts DEF asrVars, llmVars
  <1>2. CASE ReplyTasks
    BY <1>2, TurnStepType, ManualStepType DEF ReplyTasks, TurnStep
  <1> QED
    BY <1>1, <1>2, SynthStepType, AsrStepType, ClientStepType, SessionStepType DEF Next, Ended

-----------------------------------------------------------------------------
(***************************************************************************)
(* What a turn, a task and a slot belong to.                               *)
(***************************************************************************)

\* A turn's rounds are its own.
LEMMA UnaskedStep == ASSUME Unasked, Owned, [Next]_vars PROVE Unasked'
  <1> USE DEF Unasked
  <1>1. CASE UNCHANGED <<llm, round>>
    BY <1>1
  <1>2. CASE AsrLoop \/ ManualStart \/ ManualEnd
    BY <1>2 DEF AsrLoop, AsrEndpoint, AsrFinalize, AsrFinalized, AsrFinalEmpty, AsrFinalText,
                AsrReplied, AsrEnd, ManualStart, ManualEnd, StartReply, Owned, llmVars
  <1>3. CASE TurnStep
    <2>1. TurnOver \/ llm' \in {"stream", "dispatch"} \/ UNCHANGED <<llm, round>>
      BY <1>3 DEF TurnStep, LlmStart, LlmText, LlmAborts, LlmFinish, LlmFails, LlmTools, ToolNext,
                  ToolsDone, PlainText, PlainEnd, AskLlm, Dispatch
    <2> QED
      BY <2>1 DEF TurnOver
  <1>4. CASE TtsLoop \/ DrainRuns \/ OrphanEnds
    BY <1>4
       DEF TtsLoop, TtsTop, TtsIdle, TtsTake, TtsStart, SentenceEnds, DrainRuns, OrphanEnds, ttsRest, llmVars
  <1>5. CASE Client \/ BargeEnds
    BY <1>5
       DEF Client, BargeEnds, ResponseCreate, ClientSpeaks, UtteranceEnds, SendFails, BargeBegin,
                EndInput, HandlerFails, BargeEnd, llmVars
  <1>6. CASE SessionRun \/ TeardownEarly
    BY <1>6
       DEF SessionRun, InputEnds, Teardown, Finish, TeardownEarly, CancelReply, TurnOver, llmVars
  <1> QED
    BY <1>1, <1>2, <1>3, <1>4, <1>5, <1>6 DEF Next, ReplyTasks, TurnStep, Ended, vars, llmVars

\* What the end of a session says of the receivers stays so.
AllEnded == \A x \in Receivers : pc[x] = "end"

\* Turns and drain tasks keep their owners.
LEMMA OwnedStep == ASSUME TypeOK, Owned, [Next]_vars PROVE Owned'
  <1> USE DEF asrVars, llmVars, recvVars, synth, ends
  <1>1. CASE UNCHANGED vars
    BY <1>1 DEF Owned, vars
  <1>2. CASE AsrLoop
    <2>1. /\ UNCHANGED <<mode, manual, recvVars, synth, ends>> /\ asr # "end"
          /\ llm' # "none" => asr' = "reply" \/ (llm # "none" /\ asr # "reply")
          /\ asr' = "reply" => mode.auto
      BY <1>2 DEF AsrLoop, AsrEndpoint, AsrFinalize, AsrFinalized, AsrFinalEmpty, AsrFinalText,
                  AsrReplied, AsrEnd, AfterFinal, StartReply
    <2> QED
      BY <2>1 DEF Owned
  <1>3. CASE ManualStart \/ ManualEnd
    BY <1>3 DEF ManualStart, ManualEnd, StartReply, Owned
  <1>4. CASE TurnStep
    <2>1. UNCHANGED llmRest /\ llm # "none"
      BY <1>4, TurnFrame DEF TurnStep, LlmStart, LlmText, LlmAborts, LlmFinish, LlmFails, LlmTools,
                             ToolNext, ToolsDone, PlainText, PlainEnd
    <2> QED
      BY <2>1 DEF Owned, llmRest
  <1>5. CASE TtsLoop \/ DrainRuns \/ OrphanEnds
    <2>1. UNCHANGED ttsRest /\ (tts # "end" \/ tts' = tts)
      BY <1>5 DEF TtsLoop, TtsTop, TtsIdle, TtsTake, TtsStart, SentenceEnds, DrainRuns, OrphanEnds
    <2>2. drain # "none" <=> tts = "synth"
      BY DEF Owned
    <2>3. drain' # "none" <=> tts' = "synth"
      BY <1>5, <2>2
         DEF TtsLoop, TtsTop, TtsIdle, TtsTake, TtsStart, StartDrain, SentenceEnds, DrainRuns, OrphanEnds
    <2> QED
      BY <2>1, <2>3 DEF Owned, ttsRest
  <1>6. CASE Client \/ BargeEnds
    <2>1. CASE ResponseCreate \/ ClientSpeaks \/ UtteranceEnds \/ SendFails
      BY <2>1 DEF ResponseCreate, ClientSpeaks, UtteranceEnds, SendFails, Owned, Receivers
    <2>2. CASE \E x \in Receivers : BargeBegin(x) \/ EndInput(x) \/ HandlerFails(x) \/ BargeEnd(x)
      <3>1. PICK x \in Receivers : BargeBegin(x) \/ EndInput(x) \/ HandlerFails(x) \/ BargeEnd(x)
        BY <2>2
      <3>2. /\ UNCHANGED <<mode, asr, manual, llm, tts, sess>> /\ pc[x] # "end"
            /\ drain' = drain \/ (drain # "none" /\ drain' = "cancelled")
        BY <3>1 DEF BargeBegin, EndInput, HandlerFails, BargeEnd
      <3> QED
        BY <3>2 DEF Owned
    <2> QED
      BY <1>6, <2>1, <2>2 DEF Client, BargeEnds
  <1>7. CASE InputEnds \/ Finish
    BY <1>7 DEF InputEnds, Finish, Owned
  <1>8. CASE Teardown \/ TeardownEarly
    <2>1. sess' = "teardown" /\ mode' = mode /\ manual' \in {manual, "none"} /\ (manual = "reply" => manual' = manual)
      BY <1>8 DEF Teardown, TeardownEarly, BeginTeardown
    <2>2. (asr = "reply" => asr' = "reply") /\ (asr' = "reply" => asr = "reply")
      BY <1>8 DEF Teardown, TeardownEarly
    <2>3. llm' # "none" => llm # "none" \/ asr = "reply" \/ manual = "reply"
      BY <1>8 DEF Teardown, TeardownEarly
    <2>4. drain' # "none" <=> tts' = "synth"
      BY <1>8 DEF Teardown, TeardownEarly, Owned
    <2> QED
      BY <2>1, <2>2, <2>3, <2>4 DEF Owned
  <1> QED
    BY <1>1, <1>2, <1>3, <1>4, <1>5, <1>6, <1>7, <1>8
       DEF Next, ReplyTasks, TurnStep, SessionRun, Ended

\* Who may still speak, and for whom: a turn that is not silenced.  A held turn
\* has not been replied to.
Unsilenced ==
  /\ LlmActive \/ llm = "plain" \/ manual = "created" => reply \notin silenced
  /\ pending # 0 => pending \notin silenced /\ pending # reply

\* A barge-in that drains, silences nobody who may speak.
LEMMA SilenceFresh ==
  ASSUME TypeOK, Unsilenced, Silence, UNCHANGED <<reply, llm, manual>>, pending' \in {0, pending}
  PROVE  Unsilenced'
  <1> USE DEF Unsilenced, LlmActive
  <1>1. CASE LlmActive \/ llm = "plain" \/ manual = "created" \/ reply = 0
    BY <1>1 DEF Silence
  <1>2. CASE ~(LlmActive \/ llm = "plain" \/ manual = "created" \/ reply = 0)
    BY <1>2 DEF Silence
  <1> QED
    BY <1>1, <1>2

\* Speakers stay unsilenced.
LEMMA UnsilencedStep == ASSUME TypeOK, Owned, Unsilenced, [Next]_vars PROVE Unsilenced'
  <1> USE DEF asrVars, llmVars
  <1>1. CASE UNCHANGED <<pending, manual, reply, llm, silenced>>
    BY <1>1 DEF Unsilenced, LlmActive
  <1>2. CASE AsrLoop /\ ~AsrFinalText
    BY <1>2 DEF AsrLoop, AsrEndpoint, AsrFinalize, AsrFinalized, AsrFinalEmpty,
                AsrReplied, AsrEnd, Unsilenced, LlmActive
  <1>3. CASE AsrFinalText
    <2>1. turn \in Nat /\ silenced \subseteq 1 .. turn /\ reply \in 0 .. turn /\ pending \in 0 .. turn
      BY TypeParts, Bounds DEF ConversationType, EndType
    <2>2. turn + 1 \notin silenced /\ turn + 1 # reply /\ turn + 1 # pending
      BY <2>1
    <2>3. CASE mode.auto
      BY <1>3, <2>2, <2>3 DEF AsrFinalText, StartReply, Unsilenced, LlmActive
    <2>4. CASE ~mode.auto
      BY <1>3, <2>2, <2>4 DEF AsrFinalText, Unsilenced, LlmActive
    <2> QED
      BY <2>3, <2>4
  <1>4. CASE ManualStart \/ ManualEnd
    BY <1>4 DEF ManualStart, ManualEnd, StartReply, Unsilenced, LlmActive
  <1>5. CASE TurnStep
    <2>1. UNCHANGED <<pending, manual, reply, silenced>> /\ (LlmActive \/ llm = "plain")
      BY <1>5, TurnFrame DEF TurnStep, LlmStart, LlmText, LlmAborts, LlmFinish, LlmFails, LlmTools,
                             ToolNext, ToolsDone, PlainText, PlainEnd, llmRest, LlmActive
    <2> QED
      BY <2>1 DEF Unsilenced
  <1>6. CASE TtsLoop \/ DrainRuns \/ OrphanEnds
    <2>1. UNCHANGED ttsRest
      BY <1>6 DEF TtsLoop, TtsTop, TtsIdle, TtsTake, TtsStart, SentenceEnds, DrainRuns, OrphanEnds
    <2> QED
      BY <1>1, <2>1 DEF ttsRest
  <1>7. CASE Client \/ BargeEnds
    <2>1. CASE ResponseCreate
      BY <2>1 DEF ResponseCreate, Unsilenced, LlmActive
    <2>2. CASE ClientSpeaks \/ UtteranceEnds \/ SendFails
      BY <1>1, <2>2 DEF ClientSpeaks, UtteranceEnds, SendFails
    <2>3. ASSUME NEW x \in Receivers, EndInput(x) \/ HandlerFails(x) PROVE Unsilenced'
      BY <1>1, <2>3 DEF EndInput, HandlerFails
    <2>4. ASSUME NEW x \in Receivers, BargeBegin(x) \/ BargeEnd(x) PROVE Unsilenced'
      <3>1. UNCHANGED <<reply, llm, manual>> /\ pending' \in {0, pending} /\ (Silence \/ UNCHANGED silenced)
        BY <2>4 DEF BargeBegin, BargeEnd
      <3> QED
        BY <3>1, SilenceFresh DEF Unsilenced, LlmActive
    <2> QED
      BY <1>7, <2>1, <2>2, <2>3, <2>4 DEF Client, BargeEnds
  <1>8. CASE SessionRun \/ TeardownEarly
    <2>1. /\ UNCHANGED <<pending, reply, silenced>>
          /\ manual' = "created" => manual = "created"
          /\ llm' = llm \/ llm' = "done"
      BY <1>8
         DEF SessionRun, InputEnds, Teardown, Finish, TeardownEarly, BeginTeardown, CancelReply,
                  TurnOver
    <2> QED
      BY <2>1 DEF Unsilenced, LlmActive
  <1> QED
    BY <1>1, <1>2, <1>3, <1>4, <1>5, <1>6, <1>7, <1>8 DEF Next, ReplyTasks, TurnStep, Ended, vars

-----------------------------------------------------------------------------
(***************************************************************************)
(* The queue and the slots.                                                *)
(***************************************************************************)

\* Nothing of a silenced turn is queued by what may speak.
LEMMA QueueFreshStep ==
  ASSUME TypeOK, Unsilenced, QueueFresh, [Next]_vars PROVE QueueFresh'
  <1> DEFINE Clear(s) == s \cap silenced = {}
  <1>0. q \in Queues /\ buf \in Sentences /\ silenced \subseteq 1 .. turn
    BY TypeParts DEF ChannelType, EndType
  <1>1. CASE UNCHANGED <<channel, silenced>>
    BY <1>1 DEF channel, QueueFresh
  <1>2. CASE DrainAndReset
    <2>1. q' = <<>> /\ buf' = {} /\ DOMAIN <<>> = {}
      BY <1>2 DEF DrainAndReset
    <2> QED
      BY <2>1 DEF QueueFresh
  <1>3. ASSUME NEW t \in 0 .. turn, t \notin silenced, UNCHANGED silenced,
               EnqueueText(t) \/ Flush(q, buf) \/ Flush(q, buf \cup {t})
        PROVE  QueueFresh'
    <2>1. PICK s \in {buf, buf \cup {t}} :
             /\ q' \in {q, Append(q, s)}
             /\ buf' \in {buf \cup {t}, {}}
      BY <1>3 DEF EnqueueText, Flush
    <2>2. s \cap silenced = {} /\ (buf \cup {t}) \cap silenced = {}
      BY <1>3, <2>1 DEF QueueFresh
    <2>3. \A i \in DOMAIN Append(q, s) : Append(q, s)[i] = s \/ (i \in DOMAIN q /\ Append(q, s)[i] = q[i])
      <3>1. Len(q) \in Nat /\ DOMAIN q = 1 .. Len(q)
        BY <1>0 DEF Queues
      <3> QED
        BY <1>0, <3>1 DEF Queues
    <2>4. \A i \in DOMAIN q' : q'[i] \cap silenced = {}
      BY <2>1, <2>2, <2>3 DEF QueueFresh
    <2>5. buf' \cap silenced = {}
      BY <2>1, <2>2
    <2> QED
      BY <1>3, <2>4, <2>5 DEF QueueFresh
  <1>4. CASE AsrLoop \/ ManualStart \/ ManualEnd \/ SessionRun \/ TeardownEarly
    <2>1. UNCHANGED <<q, buf, silenced>>
      BY <1>4 DEF AsrLoop, AsrEndpoint, AsrFinalize, AsrFinalized, AsrFinalEmpty, AsrFinalText,
                  AsrReplied, AsrEnd, ManualStart, ManualEnd, SessionRun, InputEnds, Teardown,
                  Finish,
                  TeardownEarly, BeginTeardown, channel
    <2> QED
      BY <2>1 DEF QueueFresh
  <1>5. CASE TurnStep
    <2>1. /\ UNCHANGED silenced /\ reply \notin silenced /\ reply \in 0 .. turn
      BY <1>5, TurnFrame, TypeParts
         DEF TurnStep, LlmStart, LlmText, LlmAborts, LlmFinish, LlmFails, LlmTools, ToolNext,
             ToolsDone,
             PlainText, PlainEnd, llmRest, LlmActive, Unsilenced, ConversationType
    <2>2. UNCHANGED channel \/ EnqueueText(reply) \/ Flush(q, buf) \/ Flush(q, buf \cup {reply})
      BY <1>5 DEF TurnStep, LlmStart, LlmText, LlmAborts, LlmFinish, LlmFails, LlmTools, ToolNext,
                  ToolsDone, PlainText, PlainEnd, Dispatch
    <2> QED
      BY <1>1, <1>3, <2>1, <2>2
  <1>6. CASE TtsLoop \/ DrainRuns \/ OrphanEnds
    <2>1. UNCHANGED <<buf, silenced>> /\ (q' = q \/ (q # <<>> /\ q' = Tail(q)))
      BY <1>6
         DEF TtsLoop, TtsTop, TtsIdle, TtsTake, TtsStart, SentenceEnds, DrainRuns, OrphanEnds, ttsRest,
             channel
    <2>2. q # <<>> => \A i \in DOMAIN Tail(q) : i + 1 \in DOMAIN q /\ Tail(q)[i] = q[i + 1]
      BY <1>0 DEF Queues
    <2> QED
      BY <2>1, <2>2 DEF QueueFresh
  <1>7. CASE Client \/ BargeEnds
    <2>1. CASE ClientSpeaks
      <3>1. 0 \notin silenced /\ 0 \in 0 .. turn /\ UNCHANGED silenced
        BY <1>0, <2>1, TypeParts, Bounds DEF ClientSpeaks, ConversationType
      <3> QED
        BY <1>3, <2>1, <3>1 DEF ClientSpeaks
    <2>2. CASE ~ClientSpeaks
      <3>1. UNCHANGED <<channel, silenced>> \/ DrainAndReset
        BY <1>7, <2>2 DEF Client, BargeEnds, ResponseCreate, UtteranceEnds, SendFails, BargeBegin,
                          EndInput, HandlerFails, BargeEnd
      <3> QED
        BY <1>1, <1>2, <3>1
    <2> QED
      BY <2>1, <2>2
  <1> QED
    BY <1>1, <1>4, <1>5, <1>6, <1>7 DEF Next, ReplyTasks, TurnStep, Ended, vars, channel

\* A party is in the queue of the lock exactly when it asks or works, once; the
\* one that works is its head.
SlotsOwned ==
  /\ ~Serialized => slots = <<>>
  /\ Serialized =>
        /\ asr = "finalize" => slots # <<>> /\ Head(slots) = "asr"
        /\ drain = "run" => slots # <<>> /\ Head(slots) = "tts"
  /\ SlotsExclude

\* What asking for the lock does to the queue.
LEMMA RequestQueue ==
  ASSUME slots \in Seq(Parties), Serialized, NEW p \in Parties,
         \A i \in DOMAIN slots : slots[i] # p,
         \A i, j \in DOMAIN slots : slots[i] = slots[j] => i = j
  PROVE  /\ \A r \in Parties : (\E i \in DOMAIN Request(p) : Request(p)[i] = r)
                                  <=> (r = p \/ \E i \in DOMAIN slots : slots[i] = r)
         /\ \A i, j \in DOMAIN Request(p) : Request(p)[i] = Request(p)[j] => i = j
         /\ slots # <<>> => Request(p) # <<>> /\ Head(Request(p)) = Head(slots)
  <1> DEFINE t == Append(slots, p)
  <1>1. /\ Request(p) = t /\ t \in Seq(Parties) /\ Len(slots) \in Nat /\ Len(t) = Len(slots) + 1
        /\ DOMAIN slots = 1 .. Len(slots) /\ DOMAIN t = 1 .. Len(slots) + 1 /\ t[Len(slots) + 1] = p
        /\ \A i \in DOMAIN slots : t[i] = slots[i]
    BY DEF Request
  <1>2. slots # <<>> => t # <<>> /\ Head(t) = Head(slots)
    <2> SUFFICES ASSUME slots # <<>> PROVE t # <<>> /\ Head(t) = Head(slots)
      OBVIOUS
    <2>1. Len(slots) # 0 /\ Head(slots) = slots[1] /\ t # <<>> /\ Head(t) = t[1]
      BY <1>1
    <2> QED
      BY <1>1, <2>1
  <1> HIDE DEF t
  <1>3. ASSUME NEW r \in Parties
        PROVE  (\E i \in DOMAIN t : t[i] = r) <=> (r = p \/ \E i \in DOMAIN slots : slots[i] = r)
    <2>1. \A i \in DOMAIN t : i \in DOMAIN slots \/ i = Len(slots) + 1
      BY <1>1
    <2>2. DOMAIN slots \subseteq DOMAIN t /\ Len(slots) + 1 \in DOMAIN t
      BY <1>1
    <2> QED
      BY <1>1, <2>1, <2>2
  <1>4. \A i, j \in DOMAIN t : t[i] = t[j] => i = j
    BY <1>1
  <1> QED
    BY <1>1, <1>2, <1>3, <1>4

\* Two queues, one behind the other.
LEMMA Joined ==
  ASSUME NEW a \in Seq(Parties), NEW b \in Seq(Parties)
  PROVE  /\ a \o b \in Seq(Parties) /\ Len(a \o b) = Len(a) + Len(b) /\ Len(a) \in Nat /\ Len(b) \in Nat
         /\ DOMAIN (a \o b) = 1 .. Len(a) + Len(b)
         /\ \A i \in DOMAIN (a \o b) :
                (a \o b)[i] = IF i <= Len(a) THEN a[i] ELSE b[i - Len(a)]
  OBVIOUS

\* What leaving it does.
LEMMA WithoutQueue ==
  ASSUME slots \in Seq(Parties), NEW p \in Parties,
         \A i, j \in DOMAIN slots : slots[i] = slots[j] => i = j
  PROVE  /\ \A i \in DOMAIN Without(p) : Without(p)[i] # p
         /\ \A r \in Parties \ {p} : (\E i \in DOMAIN Without(p) : Without(p)[i] = r)
                                        <=> (\E i \in DOMAIN slots : slots[i] = r)
         /\ \A i, j \in DOMAIN Without(p) : Without(p)[i] = Without(p)[j] => i = j
         /\ slots # <<>> /\ Head(slots) # p => Without(p) # <<>> /\ Head(Without(p)) = Head(slots)
         /\ slots = <<>> => Without(p) = <<>>
  <1>0. Len(slots) \in Nat /\ DOMAIN slots = 1 .. Len(slots)
    OBVIOUS
  <1>1. CASE \A i \in DOMAIN slots : slots[i] # p
    <2>1. Without(p) = slots
      BY <1>1 DEF Without
    <2> QED
      BY <1>1, <2>1
  <1>2. CASE \E i \in DOMAIN slots : slots[i] = p
    <2>1. PICK k \in DOMAIN slots :
             Without(p) = SubSeq(slots, 1, k - 1) \o SubSeq(slots, k + 1, Len(slots)) /\ slots[k] = p
      BY <1>2 DEF Without
    <2> DEFINE t == Without(p)
    <2>2. /\ DOMAIN t = 1 .. Len(slots) - 1 /\ Len(t) = Len(slots) - 1 /\ t \in Seq(Parties)
          /\ \A i \in DOMAIN t : t[i] = IF i < k THEN slots[i] ELSE slots[i + 1]
      <3> DEFINE a == SubSeq(slots, 1, k - 1)
                 b == SubSeq(slots, k + 1, Len(slots))
      <3>1. k \in 1 .. Len(slots) /\ k \in Nat
        BY <1>0
      <3>2. /\ a \in Seq(Parties) /\ Len(a) = k - 1
            /\ \A i \in 1 .. k - 1 : a[i] = slots[i]
        BY <1>0, <3>1
      <3>3. /\ b \in Seq(Parties) /\ Len(b) = Len(slots) - k
            /\ \A i \in 1 .. Len(slots) - k : b[i] = slots[k + i]
        BY <1>0, <3>1
      <3> HIDE DEF a, b
      <3>4. t = a \o b
        BY <2>1 DEF a, b
      <3> HIDE DEF t
      <3>5. /\ t \in Seq(Parties) /\ Len(t) = Len(a) + Len(b) /\ DOMAIN t = 1 .. Len(a) + Len(b)
            /\ \A i \in DOMAIN t : t[i] = IF i <= Len(a) THEN a[i] ELSE b[i - Len(a)]
        BY <3>2, <3>3, <3>4, Joined
      <3>6. ASSUME NEW i \in DOMAIN t PROVE t[i] = IF i < k THEN slots[i] ELSE slots[i + 1]
        <4>0. i \in Nat /\ 1 <= i /\ i <= Len(slots) - 1 /\ (i <= Len(a) <=> i < k)
          BY <1>0, <3>1, <3>2, <3>3, <3>5
        <4>1. CASE i < k
          BY <3>1, <3>2, <3>5, <4>0, <4>1
        <4>2. CASE ~(i < k)
          <5>1. i - Len(a) \in 1 .. Len(slots) - k /\ k + (i - Len(a)) = i + 1
            BY <1>0, <3>1, <3>2, <4>0, <4>2
          <5>2. t[i] = b[i - Len(a)] /\ b[i - Len(a)] = slots[k + (i - Len(a))]
            BY <3>3, <3>5, <4>0, <4>2, <5>1
          <5> QED
            BY <4>2, <5>1, <5>2
        <4> QED
          BY <4>1, <4>2
      <3> QED
        BY <1>0, <3>1, <3>2, <3>3, <3>5, <3>6
    <2> HIDE DEF t
    <2>3. k \in Nat /\ k # 0 /\ k <= Len(slots)
      BY <1>0
    <2>4. \A i \in DOMAIN t : \E j \in DOMAIN slots \ {k} : t[i] = slots[j]
      BY <1>0, <2>2, <2>3
    <2>5. \A j \in DOMAIN slots \ {k} : \E i \in DOMAIN t : t[i] = slots[j]
      <3> SUFFICES ASSUME NEW j \in DOMAIN slots \ {k} PROVE \E i \in DOMAIN t : t[i] = slots[j]
        OBVIOUS
      <3>1. CASE j < k
        <4>1. j \in DOMAIN t /\ t[j] = slots[j]
          BY <1>0, <2>2, <2>3, <3>1
        <4> QED
          BY <4>1
      <3>2. CASE k < j
        <4>1. j - 1 \in DOMAIN t /\ ~(j - 1 < k) /\ (j - 1) + 1 = j
          BY <1>0, <2>2, <2>3, <3>2
        <4>2. t[j - 1] = slots[j]
          BY <2>2, <4>1
        <4> QED
          BY <4>1, <4>2
      <3> QED
        BY <1>0, <2>3, <3>1, <3>2
    <2>6. \A i, j \in DOMAIN t : t[i] = t[j] => i = j
      BY <1>0, <2>2, <2>3
    <2>7. \A i \in DOMAIN t : t[i] # p
      BY <2>1, <2>4
    <2>8. slots # <<>> /\ Head(slots) # p => t # <<>> /\ Head(t) = Head(slots)
      <3> SUFFICES ASSUME slots # <<>>, Head(slots) # p PROVE t # <<>> /\ Head(t) = Head(slots)
        OBVIOUS
      <3>1. Head(slots) = slots[1] /\ k # 1
        BY <2>1
      <3>2. 1 < k /\ 1 \in DOMAIN t /\ Len(t) # 0
        BY <1>0, <2>2, <2>3, <3>1
      <3>3. t # <<>> /\ Head(t) = t[1] /\ t[1] = slots[1]
        BY <2>2, <3>2
      <3> QED
        BY <3>1, <3>3
    <2>9. slots # <<>>
      BY <1>2
    <2> QED
      <3>1. \A r \in Parties \ {p} : (\E i \in DOMAIN t : t[i] = r) <=> (\E i \in DOMAIN slots : slots[i] = r)
        <4> SUFFICES ASSUME NEW r \in Parties \ {p}
                     PROVE (\E i \in DOMAIN t : t[i] = r) <=> (\E i \in DOMAIN slots : slots[i] = r)
          OBVIOUS
        <4>1. ASSUME NEW i \in DOMAIN t, t[i] = r PROVE \E j \in DOMAIN slots : slots[j] = r
          <5>1. PICK j \in DOMAIN slots \ {k} : t[i] = slots[j]
            BY <2>4
          <5> QED
            BY <4>1, <5>1
        <4>2. ASSUME NEW j \in DOMAIN slots, slots[j] = r PROVE \E i \in DOMAIN t : t[i] = r
          <5>1. j \in DOMAIN slots \ {k}
            BY <2>1, <4>2
          <5>2. PICK i \in DOMAIN t : t[i] = slots[j]
            BY <2>5, <5>1
          <5> QED
            BY <4>2, <5>2
        <4> QED
          BY <4>1, <4>2
      <3> QED
        BY <2>6, <2>7, <2>8, <2>9, <3>1 DEF t
  <1> QED
    BY <1>1, <1>2

\* A queue of the lock is empty, or has a head that is one of its places.
LEMMA HeadOf ==
  ASSUME NEW s \in Seq(Parties)
  PROVE  /\ s # <<>> => 1 \in DOMAIN s /\ Head(s) = s[1]
         /\ \A i \in DOMAIN s : s # <<>>
  OBVIOUS

\* The five things a step may do with the lock of a party.
Untouched ==
  /\ slots' = slots
  /\ asr' \in {"slot", "finalize"} <=> asr \in {"slot", "finalize"}
  /\ drain' # "none" <=> drain # "none"
  /\ asr' = "finalize" => asr = "finalize" \/ (asr = "slot" /\ Granted("asr"))
  /\ drain' = "run" => drain = "run" \/ (drain = "slot" /\ Granted("tts"))
AsrAsks == slots' = Request("asr") /\ asr = "poll" /\ asr' = "slot" /\ drain' = drain
AsrLeaves ==
  /\ slots' = Without("asr") /\ asr' \notin {"slot", "finalize"}
  /\ drain' \in {drain, "cancelled"} /\ (drain' # "none" <=> drain # "none")
TtsAsks == slots' = Request("tts") /\ drain = "none" /\ drain' = "slot" /\ asr' = asr
TtsLeaves == slots' = Without("tts") /\ drain' = "none" /\ asr' = asr

\* Every step does one of them.
LEMMA LockSteps ==
  ASSUME TypeOK, Owned, [Next]_vars
  PROVE  Untouched \/ AsrAsks \/ AsrLeaves \/ TtsAsks \/ TtsLeaves
  <1> USE DEF asrVars, synth
  <1>1. CASE UNCHANGED <<asr, drain, slots>>
    BY <1>1 DEF Untouched
  <1>2. CASE AsrLoop
    <2>1. UNCHANGED drain
      BY <1>2 DEF AsrLoop, AsrEndpoint, AsrFinalize, AsrFinalized, AsrFinalEmpty, AsrFinalText,
                  AsrReplied, AsrEnd
    <2>2. CASE AsrEndpoint
      BY <2>1, <2>2 DEF AsrEndpoint, Untouched, AsrAsks
    <2>3. CASE AsrFinalized
      BY <2>1, <2>3 DEF AsrFinalized, AsrLeaves
    <2>4. CASE ~AsrEndpoint /\ ~AsrFinalized
      BY <1>2, <2>1, <2>4
         DEF AsrLoop, AsrFinalize, AsrFinalEmpty, AsrFinalText, AsrReplied, AsrEnd, AfterFinal,
             Untouched
    <2> QED
      BY <2>2, <2>3, <2>4
  <1>3. CASE ReplyTasks
    <2>1. UNCHANGED <<asr, drain, slots>>
      BY <1>3, TurnFrame DEF ReplyTasks, TurnStep, ManualStart, ManualEnd, llmRest
    <2> QED
      BY <1>1, <2>1
  <1>4. CASE TtsLoop \/ DrainRuns \/ OrphanEnds
    <2>1. UNCHANGED asr
      BY <1>4 DEF TtsLoop, TtsTop, TtsIdle, TtsTake, TtsStart, SentenceEnds, DrainRuns, OrphanEnds, ttsRest
    <2>2. drain # "none" <=> tts = "synth"
      BY DEF Owned
    <2> QED
      BY <1>4, <2>1, <2>2
         DEF TtsLoop, TtsTop, TtsIdle, TtsTake, TtsStart, StartDrain, SentenceEnds, DrainRuns, OrphanEnds,
             Untouched,
             TtsAsks, TtsLeaves
  <1>5. CASE Client \/ BargeEnds
    <2>1. UNCHANGED <<asr, slots>> /\ (drain' = drain \/ (drain # "none" /\ drain' = "cancelled"))
      BY <1>5
         DEF Client, BargeEnds, ResponseCreate, ClientSpeaks, UtteranceEnds, SendFails,
             BargeBegin,
                  EndInput, HandlerFails, BargeEnd
    <2> QED
      BY <2>1 DEF Untouched
  <1>6. CASE SessionRun
    BY <1>1, <1>6 DEF SessionRun, InputEnds, Teardown, Finish
  <1>7. CASE TeardownEarly
    <2>1. drain # "none" <=> tts = "synth"
      BY DEF Owned
    <2> QED
      BY <1>7, <2>1 DEF TeardownEarly, AsrLeaves
  <1> QED
    BY <1>1, <1>2, <1>3, <1>4, <1>5, <1>6, <1>7 DEF Next, Ended, vars

\* A party is in the queue of the lock as long as it asks or works.
LEMMA SlotsOwnedStep == ASSUME TypeOK, Owned, SlotsOwned, [Next]_vars PROVE SlotsOwned'
  <1>0. slots \in Seq(Parties) /\ Parties = {"asr", "tts"}
    BY TypeParts DEF SynthType, Parties
  <1>1. CASE ~Serialized
    <2>1. slots = <<>> /\ \A p \in Parties : Request(p) = slots /\ Without(p) = slots
      <3>1. slots = <<>> /\ DOMAIN <<>> = {}
        BY <1>1 DEF SlotsOwned
      <3> QED
        BY <1>1, <3>1 DEF Request, Without
    <2>2. slots' = slots
      BY <1>0, <2>1, LockSteps DEF Untouched, AsrAsks, AsrLeaves, TtsAsks, TtsLeaves
    <2> QED
      BY <1>1, <2>1, <2>2 DEF SlotsOwned, SlotsExclude
  <1>2. CASE Serialized
    <2>1. /\ asr = "finalize" => slots # <<>> /\ Head(slots) = "asr"
          /\ drain = "run" => slots # <<>> /\ Head(slots) = "tts"
          /\ ~(asr = "finalize" /\ drain = "run")
          /\ \A i, j \in DOMAIN slots : slots[i] = slots[j] => i = j
          /\ (\E i \in DOMAIN slots : slots[i] = "asr") <=> asr \in {"slot", "finalize"}
          /\ (\E i \in DOMAIN slots : slots[i] = "tts") <=> drain # "none"
      BY <1>2 DEF SlotsOwned, SlotsExclude
    <2>2. CASE Untouched
      <3>1. /\ asr' = "finalize" => slots # <<>> /\ Head(slots) = "asr"
            /\ drain' = "run" => slots # <<>> /\ Head(slots) = "tts"
        <4>1. asr \in {"slot", "finalize"} \/ drain # "none" => slots # <<>>
          BY <1>0, <2>1, HeadOf
        <4> QED
          BY <1>2, <2>1, <2>2, <4>1 DEF Untouched, Granted
      <3>2. ~(asr' = "finalize" /\ drain' = "run")
        BY <3>1
      <3> QED
        BY <1>2, <2>1, <2>2, <3>1, <3>2 DEF Untouched, SlotsOwned, SlotsExclude
    <2>3. CASE AsrAsks
      <3>1. \A i \in DOMAIN slots : slots[i] # "asr"
        BY <2>1, <2>3 DEF AsrAsks
      <3>2. /\ \A r \in Parties : (\E i \in DOMAIN slots' : slots'[i] = r)
                                     <=> (r = "asr" \/ \E i \in DOMAIN slots : slots[i] = r)
            /\ \A i, j \in DOMAIN slots' : slots'[i] = slots'[j] => i = j
            /\ slots # <<>> => slots' # <<>> /\ Head(slots') = Head(slots)
        BY <1>0, <1>2, <2>1, <2>3, <3>1, RequestQueue DEF AsrAsks
      <3> QED
        BY <1>0, <1>2, <2>1, <2>3, <3>2 DEF AsrAsks, SlotsOwned, SlotsExclude
    <2>4. CASE TtsAsks
      <3>1. \A i \in DOMAIN slots : slots[i] # "tts"
        BY <2>1, <2>4 DEF TtsAsks
      <3>2. /\ \A r \in Parties : (\E i \in DOMAIN slots' : slots'[i] = r)
                                     <=> (r = "tts" \/ \E i \in DOMAIN slots : slots[i] = r)
            /\ \A i, j \in DOMAIN slots' : slots'[i] = slots'[j] => i = j
            /\ slots # <<>> => slots' # <<>> /\ Head(slots') = Head(slots)
        BY <1>0, <1>2, <2>1, <2>4, <3>1, RequestQueue DEF TtsAsks
      <3> QED
        BY <1>0, <1>2, <2>1, <2>4, <3>2 DEF TtsAsks, SlotsOwned, SlotsExclude
    <2>5. CASE AsrLeaves
      <3>1. /\ \A i \in DOMAIN slots' : slots'[i] # "asr"
            /\ \A r \in Parties \ {"asr"} : (\E i \in DOMAIN slots' : slots'[i] = r)
                                               <=> (\E i \in DOMAIN slots : slots[i] = r)
            /\ \A i, j \in DOMAIN slots' : slots'[i] = slots'[j] => i = j
            /\ slots # <<>> /\ Head(slots) # "asr" => slots' # <<>> /\ Head(slots') = Head(slots)
        BY <1>0, <2>1, <2>5, WithoutQueue DEF AsrLeaves
      <3>2. drain' = "run" => drain = "run"
        BY <2>5 DEF AsrLeaves
      <3> QED
        BY <1>0, <1>2, <2>1, <2>5, <3>1, <3>2 DEF AsrLeaves, SlotsOwned, SlotsExclude
    <2>6. CASE TtsLeaves
      <3>1. /\ \A i \in DOMAIN slots' : slots'[i] # "tts"
            /\ \A r \in Parties \ {"tts"} : (\E i \in DOMAIN slots' : slots'[i] = r)
                                               <=> (\E i \in DOMAIN slots : slots[i] = r)
            /\ \A i, j \in DOMAIN slots' : slots'[i] = slots'[j] => i = j
            /\ slots # <<>> /\ Head(slots) # "tts" => slots' # <<>> /\ Head(slots') = Head(slots)
        BY <1>0, <2>1, <2>6, WithoutQueue DEF TtsLeaves
      <3> QED
        BY <1>0, <1>2, <2>1, <2>6, <3>1 DEF TtsLeaves, SlotsOwned, SlotsExclude
    <2> QED
      BY <2>2, <2>3, <2>4, <2>5, <2>6, LockSteps
  <1> QED
    BY <1>1, <1>2

-----------------------------------------------------------------------------
(***************************************************************************)
(* The inductive invariant, and what follows from it.                      *)
(***************************************************************************)
IInv == TypeOK /\ Unasked /\ Owned /\ Unsilenced /\ QueueFresh /\ SlotsOwned

\* A session starts in it.
LEMMA InitIInv == Init => IInv
  <1> SUFFICES ASSUME Init PROVE IInv
    OBVIOUS
  <1>0. /\ mode \in Modes /\ DOMAIN <<>> = {}
        /\ <<>> \in Seq(Sentences \ {{}}) /\ <<>> \in Seq(Parties) /\ {} \in Sentences
    BY DEF Init, Sentences
  <1>1. TypeOK
    <2>1. ConversationType /\ TurnType
      <3>1. /\ MaxTurns(mode) \in Nat /\ MaxTexts \in Nat /\ MaxTools \in Nat /\ MaxRounds \in Nat
            /\ turn = 0 /\ pending = 0 /\ reply = 0 /\ round = 0 /\ texts = 0 /\ tools = 0
        BY <1>0, Bounds DEF Init
      <3>2. turn \in 0 .. MaxTurns(mode) /\ pending \in 0 .. turn /\ reply \in 0 .. turn
        BY <3>1
      <3>3. round \in 0 .. MaxRounds /\ texts \in 0 .. MaxTexts /\ tools \in 0 .. MaxTools
        BY <3>1
      <3> QED
        BY <3>2, <3>3 DEF Init, ConversationType, TurnType
    <2>2. ReceiverType
      BY <1>0, Bounds DEF Init, ReceiverType
    <2>3. ChannelType /\ SynthType /\ EndType
      BY <1>0 DEF Init, ChannelType, SynthType, EndType, Queues
    <2> QED
      BY <1>0, <2>1, <2>2, <2>3, TypeParts
  <1>2. Unasked /\ Owned /\ Unsilenced
    BY DEF Init, Unasked, Owned, Unsilenced, LlmActive
  <1>3. QueueFresh /\ SlotsOwned
    BY <1>0 DEF Init, QueueFresh, SlotsOwned, SlotsExclude
  <1> QED
    BY <1>1, <1>2, <1>3 DEF IInv

\* Every step keeps it.
LEMMA NextIInv == IInv /\ [Next]_vars => IInv'
  BY TypeStep, UnaskedStep, OwnedStep, UnsilencedStep, QueueFreshStep, SlotsOwnedStep DEF IInv

\* An ended session has nothing left.
LEMMA QuietEnd == IInv => EndedIsQuiet
  <1> SUFFICES ASSUME IInv, sess = "end" PROVE EndedIsQuiet
    BY DEF EndedIsQuiet
  <1>1. /\ asr = "end" /\ tts = "end" /\ manual = "none" /\ llm = "none" /\ drain = "none"
        /\ \A x \in Receivers : pc[x] # "barge"
    BY DEF IInv, Owned
  <1>2. call = "none"
    BY <1>1 DEF IInv, TypeOK
  <1>3. slots = <<>>
    <2>1. slots \in Seq(Parties)
      BY DEF IInv, TypeOK
    <2>2. Serialized => \A i \in DOMAIN slots : slots[i] \notin Parties
      BY <1>1 DEF IInv, SlotsOwned, SlotsExclude, Parties
    <2>3. slots # <<>> => 1 \in DOMAIN slots /\ slots[1] \in Parties
      BY <2>1
    <2> QED
      BY <2>2, <2>3 DEF IInv, SlotsOwned
  <1> QED
    BY <1>1, <1>2, <1>3 DEF EndedIsQuiet, LlmActive

\* A barged turn asks for no round.
LEMMA NoRound ==
  ASSUME TypeOK, [Next]_vars, llmBarged, llmBarged' PROVE round' <= round
  <1>0. round \in Nat /\ 0 <= round /\ round <= round
    BY TypeParts, Bounds DEF TurnType
  <1>1. CASE TurnStep
    <2>1. TurnOver \/ round' = round
      BY <1>1 DEF TurnStep, LlmStart, LlmText, LlmAborts, LlmFinish, LlmFails, LlmTools, ToolNext,
                  ToolsDone, PlainText, PlainEnd, Dispatch
    <2> QED
      BY <1>0, <2>1 DEF TurnOver
  <1>2. CASE ~TurnStep
    <2>1. round' = round \/ TurnOver
      <3> USE DEF llmVars
      <3>1. CASE AsrLoop \/ ManualStart \/ ManualEnd
        BY <3>1 DEF AsrLoop, AsrEndpoint, AsrFinalize, AsrFinalized, AsrFinalEmpty, AsrFinalText,
                    AsrReplied, AsrEnd, ManualStart, ManualEnd, StartReply
      <3>2. CASE TtsLoop \/ DrainRuns \/ OrphanEnds
        BY <3>2 DEF TtsLoop, TtsTop, TtsIdle, TtsTake, TtsStart, SentenceEnds, DrainRuns, OrphanEnds, ttsRest
      <3>3. CASE Client \/ BargeEnds
        BY <3>3 DEF Client, BargeEnds, ResponseCreate, ClientSpeaks, UtteranceEnds, SendFails,
                    BargeBegin, EndInput, HandlerFails, BargeEnd
      <3>4. CASE SessionRun \/ TeardownEarly
        BY <3>4 DEF SessionRun, InputEnds, Teardown, Finish, TeardownEarly, CancelReply
      <3>5. CASE UNCHANGED vars
        BY <3>5 DEF vars
      <3> QED
        BY <1>2, <3>1, <3>2, <3>3, <3>4, <3>5 DEF Next, ReplyTasks, TurnStep, Ended
    <2> QED
      BY <1>0, <2>1 DEF TurnOver
  <1> QED
    BY <1>1, <1>2

\* The invariant holds of every session.
LEMMA Invariant == Spec => []IInv
  BY InitIInv, NextIInv, PTL DEF Spec

\* Every state of a session is well typed.
THEOREM VoiceTypeCorrect == Spec => []TypeOK
  <1>1. IInv => TypeOK
    BY DEF IInv
  <1> QED
    BY <1>1, Invariant, PTL

\* What a barge-in wound down and drained never comes back into the queue or the
\* buffer (_bargein_tts), however many turns, tools and barge-ins there are.
THEOREM BargedStaysAway == Spec => []QueueFresh
  <1>1. IInv => QueueFresh
    BY DEF IInv
  <1> QED
    BY <1>1, Invariant, PTL

\* Finalizes and drain tasks of a serialised coordinator take turns, and a task
\* that is over neither holds nor awaits the slot.
THEOREM SlotsCorrect == Spec => []SlotsExclude
  <1>1. IInv => SlotsExclude
    BY DEF IInv, SlotsOwned
  <1> QED
    BY <1>1, Invariant, PTL

\* Session.run returns with no task, no tool call, no synth and no slot left.
THEOREM EndCorrect == Spec => []EndedIsQuiet
  BY QuietEnd, Invariant, PTL

\* A barged turn asks the LLM for no further round (should_abort).
THEOREM BargedCorrect == Spec => BargedAsksNoMore
  <1>1. TypeOK /\ [Next]_vars => [llmBarged /\ llmBarged' => round' <= round]_vars
    BY NoRound
  <1> QED
    BY <1>1, VoiceTypeCorrect, PTL DEF Spec, BargedAsksNoMore

=============================================================================
