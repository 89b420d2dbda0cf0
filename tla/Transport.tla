----------------------------- MODULE Transport ------------------------------
(***************************************************************************)
(* The two transports under a session (transport/base.py): the in-process  *)
(* one, whose client puts chunks and events on the queues itself, and the  *)
(* one over a WebSocket, whose pump sorts the frames of one receive loop.  *)
(* The engine reads audio and events with one iterator each, and closes.   *)
(*                                                                         *)
(* Everything runs on one event loop: an action is what runs between two   *)
(* awaits.                                                                 *)
(***************************************************************************)
EXTENDS Naturals, SequencesExt

CONSTANTS MaxSent       \* bound: chunks and events the client sends

VARIABLES
    link,           \* which transport
    inQ,            \* per channel, the queue; CLOSE is the sentinel
    frames,           \* frames the client sent and the pump has not received
    sent,           \* history: what went in, per channel
    read,           \* history: what the iterators yielded, per channel
    reader,         \* per channel, the iterator
    pump,           \* the pump task
    transportClosed,    \* _closed
    closer          \* the engine's close()

transportVars == <<link, inQ, frames, sent, read, reader, pump, transportClosed, closer>>

Channel == {"audio", "event"}
CLOSE   == 0        \* what is sent is numbered from 1
OverWs  == link = "ws"

Init ==
    /\ link \in {"inprocess", "ws"}
    /\ inQ = [c \in Channel |-> <<>>] /\ frames = <<>>
    /\ sent = [c \in Channel |-> <<>>] /\ read = [c \in Channel |-> <<>>]
    /\ reader = [c \in Channel |-> "none"]
    /\ pump = "none" /\ transportClosed = FALSE /\ closer = "open"

NSent == Len(sent["audio"]) + Len(sent["event"])

\* Mutant of Closed: the reader of audio alone is told.
AudioClosed(queues) == [queues EXCEPT !["audio"] = Append(@, CLOSE)]

\* Both iterators are told that nothing more comes.
Closed(queues) == [c \in Channel |-> Append(queues[c], CLOSE)]

(***************************************************************************)
(* The client.                                                             *)
(***************************************************************************)
\* feed_audio and feed_event; a frame over the WebSocket.
Send(c) ==
    /\ NSent < MaxSent
    /\ sent' = [sent EXCEPT ![c] = Append(@, NSent + 1)]
    /\ IF OverWs
       THEN frames' = Append(frames, [kind |-> c, item |-> NSent + 1]) /\ UNCHANGED inQ
       ELSE inQ' = [inQ EXCEPT ![c] = Append(@, NSent + 1)] /\ UNCHANGED frames
    /\ UNCHANGED <<link, read, reader, pump, transportClosed, closer>>

\* A frame that is neither, or whose text is not JSON.
SendOther ==
    /\ OverWs /\ frames = <<>>
    /\ frames' = <<[kind |-> "other", item |-> CLOSE]>>
    /\ UNCHANGED <<link, inQ, sent, read, reader, pump, transportClosed, closer>>

EndInput ==
    /\ ~OverWs /\ CLOSE \notin ToSet(inQ["audio"]) \cup ToSet(inQ["event"])
    /\ inQ' = Closed(inQ)
    /\ UNCHANGED <<link, frames, sent, read, reader, pump, transportClosed, closer>>

(***************************************************************************)
(* The engine's iterators.                                                 *)
(***************************************************************************)
\* _ensure_pump, at the first __anext__ of either iterator.
StartReading(c) ==
    /\ reader[c] = "none"
    /\ reader' = [reader EXCEPT ![c] = "waiting"]
    /\ pump' = IF OverWs /\ pump = "none" THEN "created" ELSE pump
    /\ UNCHANGED <<link, inQ, frames, sent, read, transportClosed, closer>>

\* The in-process iterator also ends on whatever it takes after close().
TakeItem(c) ==
    /\ reader[c] = "waiting" /\ inQ[c] # <<>>
    /\ inQ' = [inQ EXCEPT ![c] = Tail(@)]
    /\ IF Head(inQ[c]) = CLOSE \/ (~OverWs /\ transportClosed)
       THEN reader' = [reader EXCEPT ![c] = "ended"] /\ UNCHANGED read
       ELSE read' = [read EXCEPT ![c] = Append(@, Head(inQ[c]))] /\ UNCHANGED reader
    /\ UNCHANGED <<link, frames, sent, pump, transportClosed, closer>>

(***************************************************************************)
(* The pump.                                                               *)
(***************************************************************************)
\* The finally arm.
PumpEnds ==
    /\ pump' = "over" /\ transportClosed' = TRUE
    /\ inQ' = Closed(inQ)

PumpStarts ==
    /\ pump = "created"
    /\ IF transportClosed THEN PumpEnds
       ELSE pump' = "receiving" /\ UNCHANGED <<inQ, transportClosed>>
    /\ UNCHANGED <<link, frames, sent, read, reader, closer>>

\* A frame goes to its queue; then the loop looks at _closed.
Receive ==
    /\ pump = "receiving" /\ frames # <<>>
    /\ LET frame == Head(frames)
           with  == IF frame.kind = "other" THEN inQ
                    ELSE [inQ EXCEPT ![frame.kind] = Append(@, frame.item)]
       IN IF transportClosed
          THEN inQ' = Closed(with) /\ pump' = "over"
          ELSE inQ' = with /\ UNCHANGED pump
    /\ frames' = Tail(frames)
    /\ UNCHANGED <<link, sent, read, reader, transportClosed, closer>>

\* The client has gone (a frame that says so, or WebSocketDisconnect), it has
\* been silent for the idle time, or receive() raises.
ReceiveEnds ==
    /\ pump = "receiving"
    /\ PumpEnds
    /\ UNCHANGED <<link, frames, sent, read, reader, closer>>

(***************************************************************************)
(* close()                                                                 *)
(***************************************************************************)
CloseInProcess ==
    /\ ~OverWs /\ closer = "open"
    /\ transportClosed' = TRUE /\ inQ' = Closed(inQ) /\ closer' = "done"
    /\ UNCHANGED <<link, frames, sent, read, reader, pump>>

\* The flag goes up before the socket is closed, which takes its time.
CloseWs ==
    /\ OverWs /\ closer = "open"
    /\ transportClosed' = TRUE /\ closer' = "closing"
    /\ UNCHANGED <<link, inQ, frames, sent, read, reader, pump>>

\* Then the pump is cancelled: inside receive() its finally arm runs, while a
\* task that has not had its first turn just goes.
CloseEnds ==
    /\ closer = "closing" /\ closer' = "done"
    /\ CASE pump = "receiving" -> PumpEnds
         [] pump = "created"   -> pump' = "unborn" /\ UNCHANGED <<inQ, transportClosed>>
         [] OTHER              -> UNCHANGED <<pump, inQ, transportClosed>>
    /\ UNCHANGED <<link, frames, sent, read, reader>>

Next ==
    \/ \E c \in Channel : Send(c) \/ StartReading(c) \/ TakeItem(c)
    \/ SendOther \/ EndInput
    \/ PumpStarts \/ Receive \/ ReceiveEnds
    \/ CloseInProcess \/ CloseWs \/ CloseEnds

Spec == Init /\ [][Next]_transportVars

(***************************************************************************)
(* Properties.                                                             *)
(***************************************************************************)
OnItsWay(c, x) == \E j \in DOMAIN frames : frames[j] = [kind |-> c, item |-> x]

\* What an iterator has yielded is the beginning of what the client sent on that
\* channel, in its order and once; as long as nobody closed, the rest of it is in
\* the queue, in the same order, or in a frame on its way.
InOrder ==
    \A c \in Channel :
        /\ IsPrefix(read[c], sent[c])
        /\ ~transportClosed =>
              /\ \A p \in Len(read[c]) + 1 .. Len(sent[c]) :
                    sent[c][p] \in ToSet(inQ[c]) \/ OnItsWay(c, sent[c][p])
              /\ \A i, j \in DOMAIN inQ[c] :
                    (i < j /\ inQ[c][i] # CLOSE /\ inQ[c][j] # CLOSE) => inQ[c][i] < inQ[c][j]

\* However the connection ends (the client leaves or goes silent, an error,
\* close() before, during or without a pump), no iterator is left to wait: its
\* sentinel is in its queue.  The one exception is the pump cancelled before its
\* first turn, which puts no sentinel anywhere.
NobodyWaitsForever ==
    (pump = "over" \/ (~OverWs /\ closer = "done")) =>
        \A c \in Channel : reader[c] = "ended" \/ CLOSE \in ToSet(inQ[c])

\* Both: the transport delivers, and its end is heard.
TransportDelivers == InOrder /\ NobodyWaitsForever
=============================================================================
