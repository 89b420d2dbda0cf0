--------------------------- MODULE EdgeTtsWorker ---------------------------
(***************************************************************************)
(* The life of the resident worker process of the TRT Edge-LLM TTS backend *)
(* (backends/jetson/trt_edge_llm_tts.py).  Unlike its ASR sibling it       *)
(* clears the pair after a failed request without the lock and without a   *)
(* look at which process is current, and reads _worker_io after it has     *)
(* released the lock (_synthesize_worker).                                 *)
(*                                                                         *)
(* A process is its generation 1 .. MaxTts, 0 is None; the WorkerIO of a   *)
(* generation has its number, and one made over None, which fails every    *)
(* request, counts as none.                                                *)
(***************************************************************************)
EXTENDS Naturals

CONSTANTS
    Speaker,        \* threads that synthesize
    NoSpeaker,      \* the holder of the free lock
    MaxTts          \* bound: processes ever launched

VARIABLES
    ttsProc,        \* what each process is doing
    ttsWorker,      \* _worker
    ttsIO,          \* _worker_io
    ttsReady,       \* _ready
    ttsLock,        \* _worker_lock: its holder
    speaker,        \* the threads that synthesize
    loader          \* the thread that preloads and unloads

edgeTtsVars == <<ttsProc, ttsWorker, ttsIO, ttsReady, ttsLock, speaker, loader>>

TtsGen == 1 .. MaxTts
Live   == {g \in TtsGen : ttsProc[g] \in {"starting", "alive"}}
Silent == [op |-> "none", pc |-> "idle", io |-> 0]

Init ==
    /\ ttsProc = [g \in TtsGen |-> "unborn"]
    /\ ttsWorker = 0 /\ ttsIO = 0 /\ ttsReady = FALSE /\ ttsLock = NoSpeaker
    /\ speaker = [c \in Speaker |-> Silent] /\ loader = "idle"

At(c, pc)   == speaker[c].pc = pc
Goto(c, pc) == speaker' = [speaker EXCEPT ![c].pc = pc]
Return(c)   == speaker' = [speaker EXCEPT ![c] = Silent]

\* Popen, under the lock or not.
LaunchAfter(procs) ==
    \E g \in TtsGen :
       /\ procs[g] = "unborn" /\ \A h \in TtsGen : h < g => procs[h] # "unborn"
       /\ ttsProc' = [procs EXCEPT ![g] = "starting"]
       /\ ttsWorker' = g

\* terminate, wait, and kill when that fails.
Killed(g) == IF g = 0 THEN ttsProc ELSE [ttsProc EXCEPT ![g] = "dead"]

(***************************************************************************)
(* Requests: synth aggregates one answer, stream yields chunks, retry is   *)
(* the second attempt of a stream that came back empty.                    *)
(***************************************************************************)
Serving(c) == (At(c, "idle") \/ At(c, "retry")) /\ loader = "idle"
Attempts(c) == IF At(c, "retry") THEN {"retry"}
               ELSE {"stream"} \cup (IF ttsReady THEN {"synth"} ELSE {})

\* With the lock: stream captures its WorkerIO, synth does not yet.  A live
\* worker that never got ready leaves no WorkerIO, or that of an older one
\* whose pipe is broken: the request raises and the pair stays.
Capture(c, op, io) ==
    speaker' = [speaker EXCEPT ![c] =
        IF io = 0 \/ ttsProc'[io] = "dead" THEN Silent
        ELSE IF op = "synth" THEN [op |-> op, pc |-> "unlocked", io |-> 0]
        ELSE [op |-> op, pc |-> "sent", io |-> io]]

UseWorker(c) ==
    /\ Serving(c) /\ ttsLock = NoSpeaker /\ ttsWorker \in Live
    /\ ttsProc' = ttsProc
    /\ \E op \in Attempts(c) : Capture(c, op, ttsIO)
    /\ UNCHANGED <<ttsWorker, ttsIO, ttsReady, ttsLock, loader>>

Launch(c) ==
    /\ Serving(c) /\ ttsLock = NoSpeaker /\ ttsWorker \notin Live
    /\ LaunchAfter(ttsProc)
    /\ ttsLock' = c
    /\ \E op \in Attempts(c) :
          speaker' = [speaker EXCEPT ![c] = [op |-> op, pc |-> "handshake", io |-> ttsWorker']]
    /\ UNCHANGED <<ttsIO, ttsReady, loader>>

\* The ready line is read from the process just launched; the WorkerIO is made
\* over what _worker is by then, which a request that failed may have cleared.
Handshake(c) ==
    /\ At(c, "handshake") /\ ttsProc[speaker[c].io] = "starting"
    /\ ttsProc' = [ttsProc EXCEPT ![speaker[c].io] = "alive"]
    /\ ttsIO' = ttsWorker /\ ttsLock' = NoSpeaker
    /\ IF speaker[c].op = "restart" THEN Goto(c, "retry")
       ELSE Capture(c, speaker[c].op, ttsWorker)
    /\ UNCHANGED <<ttsWorker, ttsReady, loader>>

\* A failed handshake cleans nothing up: the process stays as it is.
HandshakeFails(c) ==
    /\ At(c, "handshake")
    /\ Return(c) /\ ttsLock' = NoSpeaker
    /\ UNCHANGED <<ttsProc, ttsWorker, ttsIO, ttsReady, loader>>

\* synth reads _worker_io after the lock is released.
ReadIO(c) ==
    /\ At(c, "unlocked")
    /\ ttsProc' = ttsProc
    /\ Capture(c, "read", ttsIO)
    /\ UNCHANGED <<ttsWorker, ttsIO, ttsReady, ttsLock, loader>>

\* The last event, an error event, a cancel, the consumer leaving the
\* generator, or a broken pipe: the pair stays.
RequestEnds(c) ==
    /\ At(c, "sent") /\ Return(c)
    /\ UNCHANGED <<ttsProc, ttsWorker, ttsIO, ttsReady, ttsLock, loader>>

\* WorkerExitError: the reader of this WorkerIO has seen the end of stdout.
\* Both fields are cleared, one after the other, without the lock.
RequestExits(c) ==
    /\ At(c, "sent") /\ ttsProc[speaker[c].io] = "dead"
    /\ ttsWorker' = 0
    /\ Goto(c, "clearing")
    /\ UNCHANGED <<ttsProc, ttsIO, ttsReady, ttsLock, loader>>

ClearIO(c) ==
    /\ At(c, "clearing") /\ Return(c)
    /\ ttsIO' = 0
    /\ UNCHANGED <<ttsProc, ttsWorker, ttsReady, ttsLock, loader>>

\* A stateful stream that is done without a chunk restarts the worker, once.
StreamEmpty(c) ==
    /\ At(c, "sent") /\ speaker[c].op = "stream"
    /\ Goto(c, "restart")
    /\ UNCHANGED <<ttsProc, ttsWorker, ttsIO, ttsReady, ttsLock, loader>>

RestartLocked(c) ==
    /\ At(c, "restart") /\ ttsLock = NoSpeaker
    /\ LaunchAfter(Killed(ttsWorker))
    /\ ttsIO' = 0 /\ ttsLock' = c
    /\ speaker' = [speaker EXCEPT ![c] = [op |-> "restart", pc |-> "handshake", io |-> ttsWorker']]
    /\ UNCHANGED <<ttsReady, loader>>

(***************************************************************************)
(* preload, which launches without the lock while nobody speaks, and       *)
(* unload, which may come beside requests.                                 *)
(***************************************************************************)
Preload ==
    /\ loader = "idle"
    /\ \A c \in Speaker : At(c, "idle")
    /\ IF ttsWorker \in Live
       THEN ttsReady' = TRUE /\ UNCHANGED <<ttsProc, ttsWorker, loader>>
       ELSE LaunchAfter(ttsProc) /\ loader' = "handshake" /\ UNCHANGED ttsReady
    /\ UNCHANGED <<ttsIO, ttsLock, speaker>>

PreloadReady ==
    /\ loader = "handshake" /\ ttsWorker \in Live
    /\ ttsProc' = [ttsProc EXCEPT ![ttsWorker] = "alive"]
    /\ ttsIO' = ttsWorker /\ ttsReady' = TRUE /\ loader' = "idle"
    /\ UNCHANGED <<ttsWorker, ttsLock, speaker>>

PreloadFails ==
    /\ loader = "handshake" /\ loader' = "idle"
    /\ UNCHANGED <<ttsProc, ttsWorker, ttsIO, ttsReady, ttsLock, speaker>>

Unload ==
    /\ loader = "idle" /\ ttsLock = NoSpeaker /\ (ttsReady \/ ttsWorker # 0)
    /\ ttsProc' = Killed(ttsWorker)
    /\ ttsWorker' = 0 /\ ttsIO' = 0 /\ ttsReady' = FALSE
    /\ UNCHANGED <<ttsLock, speaker, loader>>

Dies(g) ==
    /\ g \in Live
    /\ ttsProc' = [ttsProc EXCEPT ![g] = "dead"]
    /\ UNCHANGED <<ttsWorker, ttsIO, ttsReady, ttsLock, speaker, loader>>

Next ==
    \/ \E c \in Speaker :
          \/ UseWorker(c) \/ Launch(c) \/ Handshake(c) \/ HandshakeFails(c)
          \/ ReadIO(c) \/ RequestEnds(c) \/ RequestExits(c) \/ ClearIO(c)
          \/ StreamEmpty(c) \/ RestartLocked(c)
    \/ Preload \/ PreloadReady \/ PreloadFails \/ Unload
    \/ \E g \in TtsGen : Dies(g)

Spec == Init /\ [][Next]_edgeTtsVars

(***************************************************************************)
(* Properties.                                                             *)
(***************************************************************************)
\* What concurrency_capability declares, "WorkerIO multiplexes N in-flight
\* requests with a single subprocess": there is one live worker process.  It
\* does not hold: a request whose process is gone clears the pair of a newer
\* process, which runs on while the next request launches another.
SingleSubprocess == \A g, h \in Live : g = h
=============================================================================
