--------------------------- MODULE EdgeAsrStream ---------------------------
(***************************************************************************)
(* A streaming session of the TRT Edge-LLM ASR backend                     *)
(* (_TRTEdgeLLMStreamingASRStream): one consumer thread sends begin, chunk *)
(* and end and rotates to a new session id when the audio grows long;      *)
(* control threads arm a cancel and ask the native worker for its receipt. *)
(*                                                                         *)
(* Session ids are 1 .. MaxSid in the order of their begin, 0 is none.     *)
(* The text of a session is its id, or 0 when it is empty.  Each step of a *)
(* thread is one use of _state_lock, one line written or one event read.   *)
(***************************************************************************)
EXTENDS Naturals, Sequences

CONSTANTS
    Control,    \* threads that cancel
    MaxSid,     \* bound: session ids of the stream
    MaxExits,   \* bound: times the worker dies and is replaced
    MaxWire     \* bound: cancel lines the worker has not read yet

VARIABLES
    sid,        \* _session_id
    audio,      \* is anything in _audio_accum
    partial,    \* _partial_text
    finalText,  \* _final_text
    committed,  \* _committed_text
    closed,     \* _closed
    begun,      \* ids whose begin line is written (_begin_written)
    armed,      \* ids with a cancel marker (_cancel_requested)
    intent,     \* the id of _cancel_intent
    confirm,    \* the id of _cancel_confirm
    exitSeen,   \* _cancel_exit
    inControl,  \* _control_inflight
    consumer,   \* the consumer thread
    control,    \* the control threads
    wire,       \* lines written and not yet read by the worker
    held,       \* ids that hold a slot of the worker
    keptIds,    \* history: ids whose slot the worker kept with its final answer
    exits       \* times the worker died

asrStreamVars == <<sid, audio, partial, finalText, committed, closed, begun, armed,
                   intent, confirm, exitSeen, inControl, consumer, control,
                   wire, held, keptIds, exits>>
textVars   == <<partial, finalText, committed>>
cancelVars == <<armed, intent, confirm, exitSeen, inControl, control>>
nativeVars == <<wire, held, keptIds, exits>>

Sid  == 1 .. MaxSid
Free == [op |-> "none", pc |-> "idle", line |-> "none", s |-> 0, resp |-> "none"]
Out  == [pc |-> "idle", s |-> 0]

\* The consumer is about to write a line for the current session.
Sending(op, line, s) ==
    [op |-> op, pc |-> "send", line |-> line, s |-> s, resp |-> "none"]

Init ==
    /\ sid = 1 /\ audio = FALSE /\ partial = 0 /\ finalText = 0 /\ committed = <<>>
    /\ closed = FALSE /\ begun = {} /\ armed = {} /\ intent = 0 /\ confirm = 0
    /\ exitSeen = FALSE /\ inControl = FALSE
    /\ consumer = Sending("begin", "begin", 1)
    /\ control = [c \in Control |-> Out]
    /\ wire = <<>> /\ held = {} /\ keptIds = {} /\ exits = 0

(***************************************************************************)
(* The consumer.                                                           *)
(***************************************************************************)
Ready == consumer.pc = "idle"

\* Past the cap the segment is rotated, otherwise chunks go out hop by hop.
AcceptWaveform ==
    /\ Ready /\ ~closed /\ sid \notin armed
    /\ audio' = TRUE
    /\ \/ consumer' = Sending("accept", "chunk", sid)
       \/ sid < MaxSid /\ consumer' = Sending("rotate", "last", sid)
       \/ consumer' = consumer
    /\ UNCHANGED <<sid, textVars, closed, begun, cancelVars, nativeVars>>

Finalize ==
    /\ Ready /\ ~closed /\ sid \notin armed
    /\ consumer' = Sending("finalize", IF audio THEN "last" ELSE "end", sid)
    /\ UNCHANGED <<sid, audio, textVars, closed, begun, cancelVars, nativeVars>>

\* close, called by the server or as the last step of finalize: a confirmed
\* session is only marked, an unconfirmed one left alone, else an end is sent.
Close ==
    /\ Ready \/ consumer.pc = "close"
    /\ IF closed \/ (intent = sid /\ confirm # sid /\ ~exitSeen)
       THEN consumer' = Free /\ UNCHANGED closed
       ELSE IF confirm = sid
            THEN consumer' = Free /\ closed' = TRUE
            ELSE consumer' = Sending("close", "end", sid) /\ UNCHANGED closed
    /\ UNCHANGED <<sid, audio, textVars, begun, cancelVars, nativeVars>>

\* begin sets its barrier once the line is written.
Send ==
    /\ consumer.pc = "send"
    /\ consumer' = [consumer EXCEPT !.pc = "wait"]
    /\ wire' = Append(wire, [line |-> consumer.line, s |-> consumer.s])
    /\ begun' = IF consumer.line = "begin" THEN begun \cup {consumer.s} ELSE begun
    /\ UNCHANGED <<sid, audio, textVars, closed, cancelVars, held, keptIds, exits>>

\* Where the thread goes once its answer is dealt with, or has raised.
Done(op) == IF op = "finalize" THEN [Free EXCEPT !.pc = "close"] ELSE Free
Got(r)   == consumer.pc = "got" /\ consumer.resp = r

\* Mutant of Raise: a stream whose request failed counts as closed.
RaiseCloses ==
    /\ Got("error")
    /\ consumer' = Done(consumer.op) /\ closed' = TRUE
    /\ UNCHANGED <<sid, audio, textVars, begun, cancelVars, nativeVars>>

Raise ==
    /\ Got("error")
    /\ consumer' = Done(consumer.op)
    /\ UNCHANGED <<sid, audio, textVars, closed, begun, cancelVars, nativeVars>>

\* The session was cancelled: recorded when the cancel is armed, an error
\* otherwise; nothing of the stream changes.
RecordReceipt(s) ==
    IF s \notin armed THEN UNCHANGED <<intent, confirm>>
    ELSE /\ intent' = IF intent = 0 THEN s ELSE intent
         /\ confirm' = s

Cancelled ==
    /\ Got("cancelled")
    /\ RecordReceipt(consumer.s)
    /\ consumer' = Done(consumer.op)
    /\ UNCHANGED <<sid, audio, textVars, closed, begun, armed, exitSeen,
                   inControl, control, nativeVars>>

BeginAcked ==
    /\ Got("ack")
    /\ consumer' = Free
    /\ UNCHANGED <<sid, audio, textVars, closed, begun, cancelVars, nativeVars>>

\* Mutant of Writable: an answer of the current session is always written.
SameSession(s) == sid = s

\* Guard and mutation of an answer are one step: nothing is written for a
\* session that is no longer current or whose cancel is armed.
Writable(s) == sid = s /\ s \notin armed

ChunkAnswered ==
    /\ Got("partial") \/ Got("rotation") \/ Got("final")
    /\ consumer.op \in {"accept", "rotate", "finalize"}
    /\ IF ~Writable(consumer.s) THEN UNCHANGED <<partial, finalText, closed>>
       ELSE /\ partial' \in (IF consumer.resp = "partial" THEN {0, sid} ELSE {partial})
            /\ finalText' \in (IF consumer.resp = "final" THEN {0, sid} ELSE {finalText})
            /\ closed' = (closed \/ consumer.resp = "final")
    /\ \/ consumer.op = "accept" /\ consumer' = Free
       \/ consumer.op = "accept" /\ consumer' = Sending("accept", "chunk", sid)
       \/ consumer.op = "rotate" /\ consumer' = [consumer EXCEPT !.pc = "rotate"]
       \/ consumer.op = "finalize" /\ consumer' = Done("finalize")
    /\ UNCHANGED <<sid, audio, committed, begun, cancelVars, nativeVars>>

\* _rotate_segment commits the final text, or the last partial when the
\* worker rotated by itself, and begins a new id; not once a cancel is armed.
Rotate ==
    /\ consumer.pc = "rotate"
    /\ LET s   == consumer.s
           seg == IF consumer.resp = "final" THEN finalText ELSE partial
       IN  IF ~Writable(s)
           THEN consumer' = Free /\ UNCHANGED <<sid, audio, textVars, closed>>
           ELSE /\ committed' = IF seg = 0 THEN committed ELSE Append(committed, seg)
                /\ audio' = FALSE /\ partial' = 0 /\ finalText' = 0 /\ closed' = FALSE
                /\ sid' = s + 1
                /\ consumer' = Sending("begin", "begin", s + 1)
    /\ UNCHANGED <<begun, cancelVars, nativeVars>>

Ended ==
    /\ Got("ended")
    /\ closed' = (closed \/ sid = consumer.s)
    /\ consumer' = Done(consumer.op)
    /\ UNCHANGED <<sid, audio, textVars, begun, cancelVars, nativeVars>>

(***************************************************************************)
(* The control threads.                                                    *)
(***************************************************************************)
ArmCancel ==
    /\ armed' = armed \cup {sid}
    /\ intent' = IF intent = 0 THEN sid ELSE intent
    /\ UNCHANGED <<sid, audio, textVars, closed, begun, confirm, exitSeen,
                   inControl, consumer, control, nativeVars>>

\* A confirmed id returns the receipt it has, a second control is refused.
RequestCancel(c) ==
    /\ control[c].pc = "idle"
    /\ IF intent = 0 THEN armed' = armed \cup {sid} /\ intent' = sid
       ELSE UNCHANGED <<armed, intent>>
    /\ IF confirm = intent' \/ inControl THEN UNCHANGED <<inControl, control>>
       ELSE /\ inControl' = TRUE
            /\ control' = [control EXCEPT ![c] = [pc |-> "barrier", s |-> intent']]
    /\ UNCHANGED <<sid, audio, textVars, closed, begun, confirm, exitSeen,
                   consumer, nativeVars>>

WriteCancel(c) ==
    /\ control[c].pc = "barrier" /\ control[c].s \in begun
    /\ Len(SelectSeq(wire, LAMBDA l : l.line = "cancel")) < MaxWire
    /\ wire' = Append(wire, [line |-> "cancel", s |-> control[c].s])
    /\ control' = [control EXCEPT ![c].pc = "receipt"]
    /\ UNCHANGED <<sid, audio, textVars, closed, begun, armed, intent, confirm,
                   exitSeen, inControl, consumer, held, keptIds, exits>>

ControlReturns(c) ==
    /\ control' = [control EXCEPT ![c] = Out]
    /\ inControl' = FALSE
    /\ UNCHANGED <<sid, audio, textVars, closed, begun, armed, consumer, nativeVars>>

\* The deadline passes at the barrier or while the receipt is awaited: the
\* intent stays armed.
ControlTimesOut(c) ==
    /\ control[c].pc \in {"barrier", "receipt"}
    /\ ControlReturns(c) /\ UNCHANGED <<intent, confirm, exitSeen>>

ControlExit(c) ==
    /\ control[c].pc = "exit"
    /\ exitSeen' = TRUE
    /\ ControlReturns(c) /\ UNCHANGED <<intent, confirm>>

ReceiptArrives(c) ==
    /\ control[c].pc = "receipted"
    /\ RecordReceipt(control[c].s)
    /\ ControlReturns(c) /\ UNCHANGED exitSeen

(***************************************************************************)
(* The native worker (external): one slot, lines in the order written.     *)
(***************************************************************************)
Answers(l) ==
    IF l.line = "begin" THEN {IF held = {} THEN "ack" ELSE "error"}
    ELSE IF l.s \notin held THEN {"error"}
    ELSE CASE l.line = "chunk" -> {"partial", "rotation", "error"}
           [] l.line = "last"  -> {"final", "rotation", "error"}
           [] l.line = "end"   -> {"ended"}

\* Whether a final gives the slot back is the worker's business: either way.
HoldAfter(l, answer) ==
    CASE answer = "ack"   -> {held \cup {l.s}}
      [] answer = "ended" -> {held \ {l.s}}
      [] answer = "final" -> {held, held \ {l.s}}
      [] OTHER            -> {held}

\* An event reaches the request that waits on its id, or nobody.
Deliver(s, r) ==
    consumer' = IF consumer.pc = "wait" /\ consumer.s = s
                THEN [consumer EXCEPT !.pc = "got", !.resp = r] ELSE consumer

WorkerAnswers ==
    /\ wire # <<>> /\ Head(wire).line # "cancel"
    /\ \E r \in Answers(Head(wire)) :
          /\ held' \in HoldAfter(Head(wire), r)
          /\ keptIds' = IF r = "final"
                        THEN keptIds \cup (held' \cap {Head(wire).s}) ELSE keptIds
          /\ Deliver(Head(wire).s, r)
    /\ wire' = Tail(wire)
    /\ UNCHANGED <<sid, audio, textVars, closed, begun, cancelVars, exits>>

\* A cancel of a session that has no slot is not answered.
WorkerCancels ==
    /\ wire # <<>> /\ Head(wire).line = "cancel"
    /\ LET s == Head(wire).s IN
          IF s \notin held THEN UNCHANGED <<held, consumer, control>>
          ELSE /\ held' = held \ {s}
               /\ Deliver(s, "cancelled")
               /\ control' = [c \in Control |->
                     IF control[c] = [pc |-> "receipt", s |-> s]
                     THEN [control[c] EXCEPT !.pc = "receipted"] ELSE control[c]]
    /\ wire' = Tail(wire)
    /\ UNCHANGED <<sid, audio, textVars, closed, begun, armed, intent, confirm,
                   exitSeen, inControl, keptIds, exits>>

\* The worker dies; the next request finds a fresh one that knows no session.
WorkerDies ==
    /\ exits < MaxExits /\ exits' = exits + 1
    /\ held' = {} /\ wire' = <<>>
    /\ consumer' = IF consumer.pc = "wait"
                   THEN [consumer EXCEPT !.pc = "got", !.resp = "error"] ELSE consumer
    /\ control' = [c \in Control |-> IF control[c].pc = "receipt"
                   THEN [control[c] EXCEPT !.pc = "exit"] ELSE control[c]]
    /\ UNCHANGED <<sid, audio, textVars, closed, begun, armed, intent, confirm,
                   exitSeen, inControl, keptIds>>

Next ==
    \/ AcceptWaveform \/ Finalize \/ Close \/ Send \/ Raise \/ Cancelled
    \/ BeginAcked \/ ChunkAnswered \/ Rotate \/ Ended \/ ArmCancel
    \/ \E c \in Control :
          \/ RequestCancel(c) \/ WriteCancel(c) \/ ControlTimesOut(c)
          \/ ControlExit(c) \/ ReceiptArrives(c)
    \/ WorkerAnswers \/ WorkerCancels \/ WorkerDies

Spec == Init /\ [][Next]_asrStreamVars

(***************************************************************************)
(* Properties.                                                             *)
(***************************************************************************)
\* A cancel is about the session that is current, from the moment it is armed
\* on (no rotation slips in between), a receipt is one for a session that no
\* longer holds its slot, and one control at most is on its way to the worker.
CancelIsCurrent ==
    /\ intent # 0 => intent = sid /\ sid \in armed
    /\ confirm # 0 => confirm = intent /\ confirm \notin held
    /\ \A c \in Control : control[c].pc # "idle" => inControl /\ control[c].s = intent
    /\ \A c, d \in Control : control[c].pc # "idle" /\ control[d].pc # "idle" => c = d

\* An answer that arrives after the cancel was armed changes no text, and the
\* stream stays on its session.
CancelFreezesText ==
    [][(sid \in armed) => (sid' = sid /\ UNCHANGED textVars)]_asrStreamVars

\* A stream that counts as closed has given its slot back, unless the worker
\* kept it when it gave the final answer; rotated segments are committed once
\* each and in order.
ClosedIsSettled ==
    /\ closed => sid \notin held \/ sid \in keptIds
    /\ \A i, j \in DOMAIN committed : i < j => committed[i] < committed[j]
    /\ \A i \in DOMAIN committed : committed[i] < sid

\* What close is for ("must send the worker an end to give the slot back", the
\* comment on OWNS_RESOURCES): once the consumer is through with a closed
\* stream that nobody cancels, the worker has no slot of it.  It does not hold:
\* the final answer has set _closed before finalize calls close, which then
\* returns without an end.
ClosedHoldsNoSlot == closed /\ consumer = Free /\ sid \notin armed => sid \notin held

\* Both: what a cancel and a close leave behind is settled.
StreamIsSettled == CancelIsCurrent /\ ClosedIsSettled
=============================================================================
