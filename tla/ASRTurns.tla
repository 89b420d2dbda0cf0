------------------------------ MODULE ASRTurns ------------------------------
(***************************************************************************)
(* The listening half of a Session (voxedge/engine): the audio task that   *)
(* segments the input and opens turns (audio_dispatcher.py), the event     *)
(* task (client_events.py), the ASR loop that ends turns (asr_loop.py) and *)
(* the state they share (session_state.py).                                *)
(*                                                                         *)
(* All tasks run on one event loop: a step is the code of one task from    *)
(* one await that suspends it to the next.  The ASRSessionManager is here  *)
(* what its caller sees: a FIFO lock and, for the holder, the effect of    *)
(* the whole call.  Frames are numbered as they arrive.  What a barge-in   *)
(* stops, and what a final starts, is in VoiceOutput; here they take time. *)
(***************************************************************************)
EXTENDS Naturals, Sequences

CONSTANTS
  Modes,      \* engine configurations: a VAD? multi_utterance? serialized?
  Ring,       \* frames the preroll ring holds (vad_preroll_ms)
  MaxFrames,  \* bound: frames of the client
  MaxClient,  \* bound: client_eos and abort events
  MaxFaults   \* bound: backend calls that fail

ASSUME ModesType ==
  Modes \subseteq [vad : BOOLEAN, multi : BOOLEAN, serialized : BOOLEAN]
ASSUME RingType == Ring \in Nat
ASSUME BoundsType == MaxFrames \in Nat /\ MaxClient \in Nat /\ MaxFaults \in Nat

VARIABLES
  mode,        \* the configuration
  mstate, mgen,\* the manager's state and generation
  lock,        \* its lock: the task that holds it and those that wait
  preempted,   \* has the abort epoch moved since the finalize took its snapshot?
  faults,      \* failed backend calls so far
  active, activeGen, expired,  \* the turn of state.asr_active, past its deadline?
  endpoint, endpointGen,       \* state.endpoint_pending and its generation
  closed,      \* state.asr_session_closed
  audio, frame, verdict, speaking, ring,  \* the audio task, its frame and ring
  events, clients,                        \* the event task
  loop,        \* where the ASR loop is
  polled,      \* the turn whose stream reported an endpoint to it, or 0
  decided,     \* the turn whose endpoint it has resolved
  finalGen,    \* finalize_gen
  last,        \* does it return after the final it has in hand?
  streamed,    \* last_streamed_final: the turn of its text, 0 if empty
  heard,       \* the frames that streams have accepted, in their order
  replied      \* the turns whose text was handed to _on_asr_final

manager  == <<mstate, mgen, lock, preempted, faults>>
turnVars == <<active, activeGen, expired>>
stamp    == <<endpoint, endpointGen>>
audioVars == <<audio, frame, verdict, speaking, ring>>
eventVars == <<events, clients>>
carried == <<polled, decided, finalGen, last, streamed>>
loopVars == <<loop, carried>>
vars == <<mode, manager, turnVars, stamp, closed, audioVars, eventVars,
          loopVars, heard, replied>>

Tasks == {"audio", "events", "loop"}
Frames == 1 .. MaxFrames
Turns == 0 .. MaxFrames

TypeOK ==
  /\ mode \in Modes
  /\ mstate \in {"idle", "active", "finalizing", "cancelling"}
  /\ mgen \in Turns
  /\ lock \in Seq(Tasks) /\ preempted \in BOOLEAN /\ faults \in 0 .. MaxFaults
  /\ active \in BOOLEAN /\ activeGen \in 0 .. mgen /\ expired \in BOOLEAN
  /\ endpoint \in {"none", "vad", "client_eos"} /\ endpointGen \in 0 .. mgen
  /\ endpoint = "none" => endpointGen = 0
  /\ closed \in BOOLEAN
  /\ audio \in {"recv", "barge", "open", "preroll", "feed", "end"}
  /\ frame \in 0 .. MaxFrames /\ verdict \in {"none", "start", "end"}
  /\ speaking \in BOOLEAN /\ ring \in Seq(Frames)
  /\ events \in {"recv", "barge", "cancel", "end"} /\ clients \in 0 .. MaxClient
  /\ loop \in {"top", "timeout", "error", "partial", "shown", "sending",
               "slot", "finalize", "final", "reply", "end"}
  /\ polled \in Turns /\ decided \in Turns /\ finalGen \in Turns
  /\ last \in BOOLEAN /\ streamed \in Turns
  /\ heard \in Seq(Frames) /\ replied \in Seq(Turns)

Init ==
  /\ mode \in Modes
  /\ mstate = "idle" /\ mgen = 0 /\ lock = <<>> /\ preempted = FALSE
  /\ faults = 0
  /\ active = FALSE /\ activeGen = 0 /\ expired = FALSE
  /\ endpoint = "none" /\ endpointGen = 0 /\ closed = FALSE
  /\ audio = "recv" /\ frame = 0 /\ verdict = "none" /\ speaking = FALSE
  /\ ring = <<>>
  /\ events = "recv" /\ clients = 0
  /\ loop = "top" /\ polled = 0 /\ decided = 0 /\ finalGen = 0 /\ last = FALSE
  /\ streamed = 0
  /\ heard = <<>> /\ replied = <<>>

-----------------------------------------------------------------------------
(***************************************************************************)
(* The manager and the shared state.                                       *)
(***************************************************************************)

Holds(t) == lock # <<>> /\ Head(lock) = t
Enter(t) == lock' = Append(lock, t)
Leave == lock' = Tail(lock)

Fault == faults < MaxFaults /\ faults' = faults + 1

\* accept_audio: nothing outside ACTIVE; an error ends in a rebuilt stream
\* or in none.
Accept(frames) ==
  \/ /\ mstate = "active"
     /\ heard' = heard \o frames
     /\ UNCHANGED <<mstate, faults>>
  \/ /\ mstate = "active" /\ Fault
     /\ mstate' \in {"active", "idle"}
     /\ UNCHANGED heard
  \/ /\ mstate # "active"
     /\ UNCHANGED <<mstate, faults, heard>>

StampEndpoint(reason) ==
  /\ endpoint' = reason
  /\ endpointGen' = activeGen

ClearEndpoint ==
  /\ endpoint' = "none"
  /\ endpointGen' = 0

DeactivateAsr ==
  /\ active' = FALSE /\ expired' = FALSE
  /\ UNCHANGED activeGen

\* The wall clock passes the deadline of the turn.
TurnExpires ==
  /\ active /\ ~expired
  /\ expired' = TRUE
  /\ UNCHANGED <<mode, manager, active, activeGen, stamp, closed, audioVars,
                 eventVars, loopVars, heard, replied>>

-----------------------------------------------------------------------------
(***************************************************************************)
(* The audio task.                                                         *)
(***************************************************************************)

\* The rolling ring: at least the newest frame stays.
Push(frames, f) ==
  LET all == Append(frames, f)
  IN  IF ~mode.vad \/ Ring = 0 THEN frames
      ELSE IF Len(all) > Ring THEN Tail(all) ELSE all

\* The endpoint is latched after the frame was accepted.
EndFrame ==
  /\ audio' = "recv"
  /\ IF verdict' = "end"
     THEN /\ StampEndpoint("vad")
          /\ closed' = (closed \/ ~mode.multi)
     ELSE UNCHANGED <<stamp, closed>>

\* if state.asr_active: accept, else the ring.
Feed(f) ==
  IF active
  THEN /\ audio' = "feed" /\ Enter("audio")
       /\ UNCHANGED <<ring, stamp, closed>>
  ELSE /\ ring' = Push(ring, f)
       /\ EndFrame
       /\ UNCHANGED lock

NextFrame ==
  /\ audio = "recv" /\ frame < MaxFrames
  /\ frame' = frame + 1

SkipFrame ==
  /\ NextFrame /\ closed
  /\ UNCHANGED <<mode, manager, turnVars, stamp, closed, audio, verdict,
                 speaking, ring, eventVars, loopVars, heard, replied>>

SpeechStart ==
  /\ NextFrame /\ ~closed
  /\ mode.vad /\ ~speaking
  /\ speaking' = TRUE /\ verdict' = "start"
  /\ audio' = "barge"
  /\ UNCHANGED <<mode, manager, turnVars, stamp, closed, ring, eventVars,
                 loopVars, heard, replied>>

\* open_turn up to the manager's lock; the epoch moves before it.
OpenTurn ==
  /\ audio' = "open" /\ Enter("audio")
  /\ preempted' = TRUE

AfterBarge ==
  /\ audio = "barge"
  /\ OpenTurn
  /\ UNCHANGED <<mode, mstate, mgen, faults, turnVars, stamp, closed, frame,
                 verdict, speaking, ring, eventVars, loopVars, heard, replied>>

LazyOpen ==
  /\ NextFrame /\ ~closed
  /\ ~mode.vad /\ ~active
  /\ OpenTurn
  /\ UNCHANGED <<mode, mstate, mgen, faults, turnVars, stamp, closed,
                 verdict, speaking, ring, eventVars, loopVars, heard, replied>>

PlainFrame ==
  /\ NextFrame /\ ~closed
  /\ mode.vad \/ active
  /\ verdict' \in (IF speaking THEN {"none", "end"} ELSE {"none"})
  /\ speaking' = (speaking /\ verdict' = "none")
  /\ Feed(frame')
  /\ UNCHANGED <<mode, mstate, mgen, preempted, faults, turnVars, eventVars,
                 loopVars, heard, replied>>

Opened ==
  /\ mstate' = "active"
  /\ active' = TRUE /\ activeGen' = mgen' /\ expired' = FALSE
  /\ lock' = Append(Tail(lock), "audio")
  /\ audio' = IF ring = <<>> THEN "feed" ELSE "preroll"
  /\ UNCHANGED faults

\* ASRSessionUnavailable: the frame that opened the turn is dropped.
NotOpened ==
  /\ Fault
  /\ mstate' = "idle"
  /\ active' = FALSE /\ UNCHANGED <<activeGen, expired>>
  /\ Leave
  /\ audio' = "recv"

OpenReturns ==
  /\ audio = "open" /\ Holds("audio")
  /\ mgen' = mgen + 1
  /\ Opened \/ NotOpened
  /\ ClearEndpoint
  /\ UNCHANGED <<mode, preempted, closed, frame, verdict, speaking, ring,
                 eventVars, loopVars, heard, replied>>

\* Mutant of Replayed: the ring is not cleared.
ReplayKeepsRing ==
  /\ audio = "preroll" /\ Holds("audio")
  /\ Accept(ring)
  /\ IF active
     THEN /\ audio' = "feed" /\ lock' = Append(Tail(lock), "audio")
          /\ ring' = ring
     ELSE /\ audio' = "recv" /\ Leave
          /\ ring' = Push(ring, frame)
  /\ UNCHANGED <<mode, mgen, preempted, turnVars, stamp, closed, frame,
                 verdict, speaking, eventVars, loopVars, replied>>

\* The ring was fed to the new stream, before the frame that opened it.
Replayed ==
  /\ audio = "preroll" /\ Holds("audio")
  /\ Accept(ring)
  /\ IF active
     THEN /\ audio' = "feed" /\ lock' = Append(Tail(lock), "audio")
          /\ ring' = <<>>
     ELSE /\ audio' = "recv" /\ Leave
          /\ ring' = Push(<<>>, frame)
  /\ UNCHANGED <<mode, mgen, preempted, turnVars, stamp, closed, frame,
                 verdict, speaking, eventVars, loopVars, replied>>

Fed ==
  /\ audio = "feed" /\ Holds("audio")
  /\ Accept(<<frame>>)
  /\ Leave
  /\ verdict' = verdict
  /\ EndFrame
  /\ UNCHANGED <<mode, mgen, preempted, turnVars, frame, speaking, ring,
                 eventVars, loopVars, replied>>

-----------------------------------------------------------------------------
(***************************************************************************)
(* The event task, and the end of the input.                               *)
(***************************************************************************)

ClientEvent ==
  /\ events = "recv" /\ clients < MaxClient
  /\ clients' = clients + 1

ClientEos ==
  /\ ClientEvent
  /\ StampEndpoint("client_eos")
  /\ closed' = (closed \/ ~mode.multi)
  /\ UNCHANGED <<mode, manager, turnVars, audioVars, events, loopVars, heard,
                 replied>>

ClientAbort ==
  /\ ClientEvent
  /\ events' = "barge"
  /\ UNCHANGED <<mode, manager, turnVars, stamp, closed, audioVars, loopVars,
                 heard, replied>>

AbortBarged ==
  /\ events = "barge"
  /\ IF active
     THEN events' = "cancel" /\ Enter("events") /\ preempted' = TRUE
     ELSE events' = "recv" /\ UNCHANGED <<lock, preempted>>
  /\ UNCHANGED <<mode, mstate, mgen, faults, turnVars, stamp, closed, audioVars,
                 clients, loopVars, heard, replied>>

AbortCancelled ==
  /\ events = "cancel" /\ Holds("events")
  /\ mstate' = "idle" /\ Leave
  /\ DeactivateAsr
  /\ events' = "recv"
  /\ UNCHANGED <<mode, mgen, preempted, faults, stamp, closed, audioVars,
                 clients, loopVars, heard, replied>>

\* Both receivers have drained their stream: close_input.
InputEnds ==
  /\ audio = "recv" /\ events = "recv"
  /\ audio' = "end" /\ events' = "end"
  /\ closed' = TRUE
  /\ UNCHANGED <<mode, manager, turnVars, stamp, frame, verdict, speaking,
                 ring, clients, loopVars, heard, replied>>

-----------------------------------------------------------------------------
(***************************************************************************)
(* The ASR loop.                                                           *)
(***************************************************************************)

Deadline ==
  /\ loop = "top" /\ active /\ expired
  /\ loop' = "timeout" /\ Enter("loop") /\ preempted' = TRUE
  /\ UNCHANGED <<mode, mstate, mgen, faults, turnVars, stamp, closed,
                 audioVars, eventVars, carried, heard, replied>>

\* wait_for(cancel, 2.0) returns, or gives the cancel up: its task leaves
\* the queue, or stops in the restart with the manager CANCELLING.
DeadlineCancel ==
  \/ /\ Holds("loop")
     /\ mstate' = "idle" /\ Leave
  \/ /\ Holds("loop") /\ mstate # "idle"
     /\ mstate' = "cancelling" /\ Leave
  \/ /\ \E i \in 2 .. Len(lock) :
          /\ lock[i] = "loop"
          /\ lock' = SubSeq(lock, 1, i - 1) \o SubSeq(lock, i + 1, Len(lock))
     /\ UNCHANGED mstate

\* Mutant of DeadlineOver: the turn stays when the cancel was given up.
KeepTurn ==
  IF mstate' = "idle" THEN DeactivateAsr /\ ClearEndpoint
  ELSE UNCHANGED <<turnVars, stamp>>

DeadlineOver == DeactivateAsr /\ ClearEndpoint

DeadlineReturns ==
  /\ loop = "timeout"
  /\ DeadlineCancel
  /\ DeadlineOver
  /\ loop' = "error"
  /\ UNCHANGED <<mode, mgen, preempted, faults, closed, audioVars, eventVars,
                 carried, heard, replied>>

ErrorSent ==
  /\ loop = "error"
  /\ loop' = IF mode.multi /\ ~closed THEN "top" ELSE "end"
  /\ UNCHANGED <<mode, manager, turnVars, stamp, closed, audioVars, eventVars,
                 carried, heard, replied>>

\* Mutant of EmitFinal: the close-out's repeated text drives the LLM too.
EmitDriven(g) ==
  LET emit == IF mode.multi /\ closed /\ g = 0 THEN streamed ELSE g
      over == closed \/ ~mode.multi
  IN  /\ loop' = IF emit # 0 THEN "reply" ELSE IF over THEN "end" ELSE "top"
      /\ replied' = IF emit = 0 THEN replied ELSE Append(replied, emit)
      /\ last' = over
      /\ streamed' = IF over THEN streamed ELSE g

\* asr_final, then _on_asr_final when turn g yielded text (0: no text).
EmitFinal(g) ==
  LET over == closed \/ ~mode.multi
  IN  /\ loop' = IF g # 0 THEN "reply" ELSE IF over THEN "end" ELSE "top"
      /\ replied' = IF g = 0 THEN replied ELSE Append(replied, g)
      /\ last' = over
      /\ streamed' = IF over THEN streamed ELSE g

\* After the endpoint event: finalize an active turn, in its slot.
Commit(queue) ==
  IF ~active
  THEN EmitFinal(0) /\ lock' = queue /\ UNCHANGED finalGen
  ELSE /\ finalGen' = activeGen
       /\ IF mode.serialized
          THEN loop' = "slot" /\ lock' = queue
          ELSE loop' = "finalize" /\ lock' = Append(queue, "loop")
       /\ UNCHANGED <<replied, last, streamed>>

\* Mutant of NoEndpoint: the end of the input is not looked at.
NeverExits == loop' = "top"

NoEndpoint == loop' = IF closed /\ ~active THEN "end" ELSE "top"

\* A stamped endpoint goes first, unless its turn was preempted; the one
\* that turn p's stream reported (0: none) fires on whatever turn is active.
Resolve(p, queue) ==
  LET reason == IF endpointGen = activeGen THEN endpoint ELSE "none"
      fired  == reason # "none" \/ (p # 0 /\ active)
  IN  /\ IF fired \/ endpointGen # activeGen THEN ClearEndpoint
         ELSE UNCHANGED stamp
      /\ decided' = IF reason # "none" THEN activeGen
                    ELSE IF fired THEN p ELSE decided
      /\ polled' = 0
      /\ IF reason = "client_eos" THEN Commit(queue)
         ELSE /\ IF fired THEN loop' = "sending" ELSE NoEndpoint
              /\ lock' = queue
              /\ UNCHANGED <<finalGen, last, streamed, replied>>

LoopIdle ==
  /\ loop = "top" /\ ~active
  /\ Resolve(0, lock)
  /\ UNCHANGED <<mode, mstate, mgen, preempted, faults, turnVars, closed,
                 audioVars, eventVars, heard>>

Poll ==
  /\ loop = "top" /\ active /\ ~expired
  /\ loop' = "partial" /\ Enter("loop")
  /\ UNCHANGED <<mode, mstate, mgen, preempted, faults, turnVars, stamp,
                 closed, audioVars, eventVars, carried, heard, replied>>

\* What the stream of an ACTIVE manager may report.
Reported == IF mstate = "active" THEN {0, mgen} ELSE {0}

Polled ==
  /\ loop = "partial" /\ Holds("loop")
  /\ \E p \in Reported : Resolve(p, Tail(lock))
  /\ UNCHANGED <<mode, mstate, mgen, preempted, faults, turnVars, closed,
                 audioVars, eventVars, heard>>

\* A new partial of the active turn is sent first.
PolledText ==
  /\ loop = "partial" /\ Holds("loop")
  /\ mstate = "active" /\ mgen = activeGen
  /\ polled' \in Reported
  /\ loop' = "shown" /\ Leave
  /\ UNCHANGED <<mode, mstate, mgen, preempted, faults, turnVars, stamp,
                 closed, audioVars, eventVars, decided, finalGen, last,
                 streamed, heard, replied>>

PartialSent ==
  /\ loop = "shown"
  /\ Resolve(polled, lock)
  /\ UNCHANGED <<mode, mstate, mgen, preempted, faults, turnVars, closed,
                 audioVars, eventVars, heard>>

EndpointSent ==
  /\ loop = "sending"
  /\ Commit(lock)
  /\ UNCHANGED <<mode, mstate, mgen, preempted, faults, turnVars, stamp,
                 closed, audioVars, eventVars, polled, decided, heard>>

SlotAcquired ==
  /\ loop = "slot"
  /\ loop' = "finalize" /\ Enter("loop")
  /\ UNCHANGED <<mode, mstate, mgen, preempted, faults, turnVars, stamp,
                 closed, audioVars, eventVars, carried, heard, replied>>

\* finalize_with_status takes its snapshot when it has the lock.
Finalize ==
  /\ loop = "finalize" /\ Holds("loop") /\ mstate = "active"
  /\ mstate' = "finalizing" /\ preempted' = FALSE
  /\ loop' = "final"
  /\ UNCHANGED <<mode, mgen, lock, faults, turnVars, stamp, closed, audioVars,
                 eventVars, carried, heard, replied>>

FinalizeReturns(g) ==
  /\ Leave
  /\ IF activeGen = finalGen THEN DeactivateAsr ELSE UNCHANGED turnVars
  /\ EmitFinal(g)
  /\ UNCHANGED <<mode, mgen, preempted, stamp, closed, audioVars, eventVars,
                 polled, decided, finalGen, heard>>

NothingToFinalize ==
  /\ loop = "finalize" /\ Holds("loop") /\ mstate # "active"
  /\ FinalizeReturns(0)
  /\ UNCHANGED <<mstate, faults>>

FinalAccepted ==
  /\ loop = "final" /\ ~preempted
  /\ mstate' = "idle"
  /\ \E g \in {0, mgen} : FinalizeReturns(g)
  /\ UNCHANGED faults

FinalDiscarded ==
  /\ loop = "final" /\ preempted
  /\ FinalizeReturns(0)
  /\ UNCHANGED <<mstate, faults>>

FinalFails ==
  /\ loop = "final" /\ Fault
  /\ mstate' \in {"active", "idle"}
  /\ FinalizeReturns(0)

ReplyReturns ==
  /\ loop = "reply"
  /\ loop' = IF last THEN "end" ELSE "top"
  /\ UNCHANGED <<mode, manager, turnVars, stamp, closed, audioVars, eventVars,
                 carried, heard, replied>>

-----------------------------------------------------------------------------
AudioInFlight == AfterBarge \/ OpenReturns \/ Replayed \/ Fed
AudioTask == SkipFrame \/ SpeechStart \/ LazyOpen \/ PlainFrame \/ AudioInFlight
EventsInFlight == AbortBarged \/ AbortCancelled
EventTask == ClientEos \/ ClientAbort \/ EventsInFlight
AsrLoop ==
  \/ Deadline \/ DeadlineReturns \/ ErrorSent
  \/ LoopIdle \/ Poll \/ Polled \/ PolledText \/ PartialSent
  \/ EndpointSent \/ SlotAcquired \/ Finalize \/ NothingToFinalize
  \/ FinalAccepted \/ FinalDiscarded \/ FinalFails \/ ReplyReturns

Next == AudioTask \/ EventTask \/ AsrLoop \/ InputEnds \/ TurnExpires

Spec == Init /\ [][Next]_vars

(* Calls that were made return, and the clock runs.  The client owes       *)
(* nothing: neither frames nor the end of its input.                       *)
FairSpec ==
  /\ Spec
  /\ WF_vars(AudioInFlight) /\ WF_vars(EventsInFlight)
  /\ WF_vars(AsrLoop) /\ WF_vars(TurnExpires)

-----------------------------------------------------------------------------
Increasing(s) == \A i \in 1 .. Len(s) - 1 : s[i] < s[i + 1]

(* No frame is recognised twice or out of order, whatever the ring replays *)
(* and whichever turns fail to open (audio_dispatcher.py: the onset is fed *)
(* exactly once, before the chunk that triggered it).                      *)
HeardInOrder == Increasing(heard)

(* A turn drives the LLM at most once, and never after a later turn did:   *)
(* the close-out's repeated final included (asr_loop.py: a close-out       *)
(* duplicate must not re-trigger another turn).                            *)
LlmOncePerTurn == Increasing(replied)

(* A finalize ends the turn whose endpoint was resolved: the endpoint of a *)
(* turn that a later one has preempted is dropped (asr_loop.py, gen-race   *)
(* gate).                                                                  *)
EndpointOwnTurn == [][Finalize => mgen = decided]_vars

(* A turn of a multi-utterance session that is past its deadline ends,     *)
(* even when no endpoint ever comes and the manager's cancel does not      *)
(* return (asr_loop.py, per-turn deadline).                                *)
TurnEnds ==
  (mode.multi /\ active /\ expired) ~> (~(active /\ expired) \/ loop = "end")

(* Once the input is closed the ASR loop returns, whatever turn is open    *)
(* and whether or not an endpoint comes: the session cannot hang on it.    *)
AsrLoopEnds == closed ~> loop = "end"
=============================================================================
