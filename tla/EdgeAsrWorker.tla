--------------------------- MODULE EdgeAsrWorker ---------------------------
(***************************************************************************)
(* The life of the resident worker process of the TRT Edge-LLM ASR backend *)
(* (backends/jetson/trt_edge_llm_asr.py): launch and ready handshake,      *)
(* requests and their failures, the no-KILL restart, unload and preload,   *)
(* the helper threads that drain and close pipes, the telemetry lines.    *)
(*                                                                         *)
(* A process is its generation 1 .. MaxGen; generation 0 is None.  The     *)
(* WorkerIO of generation g is named g too.  A time limit of the code may   *)
(* pass at any moment: a wait ends with its event or before it.            *)
(***************************************************************************)
EXTENDS Naturals, FiniteSets

CONSTANTS
    Caller,     \* the threads that call into the backend
    NoCaller,   \* the holder of a free lock
    MaxGen      \* bound: processes ever launched

VARIABLES
    proc,           \* what each process is doing
    worker,         \* _worker: a generation, or 0
    wio,            \* _wio: a generation, or 0
    failed,         \* _worker_failed
    ready,          \* _ready
    workerLock,     \* _worker_lock: its holder
    restartLock,    \* _restart_lock: its holder
    call,           \* per caller: operation, where it stands, the captured pair
    readers,        \* per generation: the threads that read its stdout
    closers,        \* per pipe end: how many threads are closing it
    closing,        \* _wio_close_pending, _stdin_close_pending
    eof,            \* generations whose stdin is closed
    line,           \* the process whose telemetry line on stderr is not read yet
    health,         \* _latest_ifb_health: the process it is about
    faults          \* history: generations a request or a teardown failed on

asrWorkerVars == <<proc, worker, wio, failed, ready, workerLock, restartLock,
                   call, readers, closers, closing, eof, line, health, faults>>
pairVars == <<worker, wio, failed>>
pipeVars == <<readers, closers, closing, eof, line>>

Gen     == 1 .. MaxGen
End     == {"wio", "stdin"} \X Gen
Doing(op, pc) == [op |-> op, pc |-> pc, w |-> 0, io |-> 0]
Idle    == Doing("none", "idle")
Running == {g \in Gen : proc[g] \in {"starting", "alive"}}

Init ==
    /\ proc = [g \in Gen |-> "unborn"]
    /\ worker = 0 /\ wio = 0 /\ failed = FALSE /\ ready = FALSE
    /\ workerLock = NoCaller /\ restartLock = NoCaller
    /\ call = [c \in Caller |-> Idle]
    /\ readers = [g \in Gen |-> {}]
    /\ closers = [e \in End |-> 0] /\ closing = [e \in End |-> "none"]
    /\ eof = {} /\ line = 0 /\ health = 0
    /\ faults = {}

At(c, pc)  == call[c].pc = pc
Goto(c, pc) == call' = [call EXCEPT ![c].pc = pc]
Return(c)  == call' = [call EXCEPT ![c] = Idle]

(***************************************************************************)
(* Helper threads.  One drainer per stdout and one close thread per pipe   *)
(* end: a marker is there while the thread is.  They end with the process  *)
(* whose pipe they hold, and do nothing on the pipe of one that is gone.   *)
(***************************************************************************)
StartDrain(g) ==
    readers' = [readers EXCEPT ![g] = @ \cup {"drain"}]

StartClose(e) ==
    IF closing[e] = "none" /\ e[2] \notin eof
    THEN /\ closing' = [closing EXCEPT ![e] = "running"]
         /\ closers' = [closers EXCEPT ![e] = @ + 1]
    ELSE UNCHANGED <<closing, closers>>

\* The thread of a WorkerIO close leaves its entry for a caller to collect;
\* the thread of a stdin close removes its own, and may have failed.
CloseEnds(e) ==
    /\ closers[e] > 0
    /\ closers' = [closers EXCEPT ![e] = @ - 1]
    /\ closing' = [closing EXCEPT ![e] = IF e[1] = "wio" THEN "ended" ELSE "none"]
    /\ e[1] = "wio" => eof' = eof
    /\ e[1] = "stdin" => eof' \in {eof, eof \cup {e[2]}}
    /\ UNCHANGED <<pairVars, proc, ready, workerLock, restartLock, call,
                   readers, line, health, faults>>

\* A caller that finds a WorkerIO close completed removes its entry.
CollectClose(e) ==
    closing' = [closing EXCEPT ![e] = IF @ = "ended" THEN "none" ELSE @]

\* What a teardown starts before it waits: the drainer when nobody reads
\* stdout, the close of stdin unless it is closed; nothing once the deadline
\* has passed.
Shutdown(g, hasReader) ==
    \/ /\ proc[g] # "dead"
       /\ IF hasReader THEN UNCHANGED readers ELSE StartDrain(g)
       /\ StartClose(<<"stdin", g>>)
    \/ UNCHANGED <<readers, closing, closers>>

(***************************************************************************)
(* Requests, native cancels and preload: each needs the current pair.      *)
(***************************************************************************)
\* preload goes on without the lock; the others capture the pair, or are
\* rejected when it is unusable.
Captured(c, op, w, io, bad) ==
    call' = [call EXCEPT ![c] =
        IF op = "preload" THEN Doing(op, "loaded")
        ELSE IF w = 0 \/ io = 0 \/ bad THEN Idle
        ELSE [op |-> "none", pc |-> "sent", w |-> w, io |-> io]]

UseWorker(c) ==
    /\ At(c, "idle") /\ workerLock = NoCaller
    /\ \E op \in {"request", "cancel", "preload"} :
          /\ op # "cancel" => worker \in Running
          /\ Captured(c, op, worker, wio, failed)
    /\ UNCHANGED <<pairVars, pipeVars, proc, ready, workerLock, restartLock,
                   health, faults>>

Launch(c) ==
    /\ At(c, "idle") /\ workerLock = NoCaller /\ worker \notin Running
    /\ \E g \in Gen :
          /\ proc[g] = "unborn" /\ \A h \in Gen : h < g => proc[h] # "unborn"
          /\ proc' = [proc EXCEPT ![g] = "starting"]
          /\ worker' = g
    /\ workerLock' = c
    /\ \E op \in {"request", "preload"} :
          call' = [call EXCEPT ![c] = Doing(op, "handshake")]
    /\ UNCHANGED <<wio, failed, pipeVars, ready, restartLock, health, faults>>

Handshake(c) ==
    /\ At(c, "handshake") /\ proc[worker] = "starting"
    /\ proc' = [proc EXCEPT ![worker] = "alive"]
    /\ health' = 0 /\ failed' = FALSE /\ wio' = worker
    /\ readers' = [readers EXCEPT ![worker] = @ \cup {"wio"}]
    /\ Captured(c, call[c].op, worker, worker, FALSE)
    /\ workerLock' = NoCaller
    /\ UNCHANGED <<worker, closers, closing, eof, line, ready, restartLock, faults>>

\* EOF, a line that is not the ready event, or refused provenance.
HandshakeFails(c) ==
    /\ At(c, "handshake")
    /\ Shutdown(worker, FALSE)
    /\ Goto(c, "retire")
    /\ faults' = faults \cup {worker}
    /\ UNCHANGED <<pairVars, proc, ready, workerLock, restartLock, eof, line, health>>

RetireFailed(c) ==
    /\ At(c, "retire")
    /\ ready' = FALSE /\ wio' = 0
    /\ IF proc[worker] = "dead" THEN worker' = 0 /\ failed' = FALSE
       ELSE worker' = worker /\ failed' = TRUE
    /\ workerLock' = NoCaller /\ Return(c)
    /\ UNCHANGED <<pipeVars, proc, restartLock, health, faults>>

\* preload sets _ready after it has released the lock.
SetReady(c) ==
    /\ At(c, "loaded")
    /\ ready' = TRUE /\ Return(c)
    /\ UNCHANGED <<pairVars, pipeVars, proc, workerLock, restartLock, health, faults>>

\* An answer, an error of the protocol, or the timeout of a cancel receipt.
Answered(c) ==
    /\ At(c, "sent") /\ Return(c)
    /\ UNCHANGED <<pairVars, pipeVars, proc, ready, workerLock, restartLock,
                   health, faults>>

\* The WorkerIO was closed, the pipe broke, or no answer came: not a proof
\* that the process has exited.
RequestFails(c) ==
    /\ At(c, "sent") /\ Goto(c, "clear")
    /\ faults' = faults \cup {call[c].w}
    /\ UNCHANGED <<pairVars, pipeVars, proc, ready, workerLock, restartLock, health>>

\* Mutant of ClearIfCurrent: a broken pipe taken for the end of the process.
ClearUnseen(c) ==
    /\ At(c, "clear") /\ workerLock = NoCaller
    /\ IF worker # call[c].w \/ wio # call[c].io THEN UNCHANGED <<pairVars, ready>>
       ELSE worker' = 0 /\ wio' = 0 /\ failed' = FALSE /\ UNCHANGED ready
    /\ Return(c)
    /\ UNCHANGED <<pipeVars, proc, workerLock, restartLock, health, faults>>

ClearIfCurrent(c) ==
    /\ At(c, "clear") /\ workerLock = NoCaller
    /\ IF worker # call[c].w \/ wio # call[c].io THEN UNCHANGED <<pairVars, ready>>
       ELSE IF worker \in Running
            THEN failed' = TRUE /\ ready' = FALSE /\ UNCHANGED <<worker, wio>>
            ELSE worker' = 0 /\ wio' = 0 /\ failed' = FALSE /\ UNCHANGED ready
    /\ Return(c)
    /\ UNCHANGED <<pipeVars, proc, workerLock, restartLock, health, faults>>

(***************************************************************************)
(* restart_worker, and unload around it.                                   *)
(***************************************************************************)
\* unload ends with _ready = False however the restart ended.
RestartReturns(c) ==
    /\ Return(c)
    /\ ready' = IF call[c].op = "unload" THEN FALSE ELSE ready

BeginRestart(c) ==
    /\ At(c, "idle")
    /\ \E op \in {"restart", "unload"} :
          /\ op = "unload" => (ready \/ worker # 0)
          /\ call' = [call EXCEPT ![c] = Doing(op, "wantRestart")]
    /\ UNCHANGED <<pairVars, pipeVars, proc, ready, workerLock, restartLock,
                   health, faults>>

TakeRestartLock(c) ==
    /\ At(c, "wantRestart") /\ restartLock = NoCaller
    /\ restartLock' = c /\ Goto(c, "wantWorker")
    /\ UNCHANGED <<pairVars, pipeVars, proc, ready, workerLock, health, faults>>

\* The shared deadline passes in the queue of either lock.
GiveUpLock(c) ==
    /\ \/ At(c, "wantRestart") /\ restartLock # NoCaller /\ UNCHANGED restartLock
       \/ At(c, "wantWorker") /\ workerLock # NoCaller /\ restartLock' = NoCaller
    /\ RestartReturns(c)
    /\ UNCHANGED <<pairVars, pipeVars, proc, workerLock, health, faults>>

NothingToRestart(c) ==
    /\ At(c, "wantWorker") /\ workerLock = NoCaller /\ worker = 0
    /\ restartLock' = NoCaller /\ RestartReturns(c)
    /\ UNCHANGED <<pairVars, pipeVars, proc, workerLock, health, faults>>

CloseWio(c) ==
    /\ At(c, "wantWorker") /\ workerLock = NoCaller /\ worker # 0
    /\ workerLock' = c /\ Goto(c, "closeWait")
    /\ IF wio = 0 THEN UNCHANGED <<closing, closers>> ELSE StartClose(<<"wio", wio>>)
    /\ UNCHANGED <<pairVars, proc, ready, restartLock, readers, eof, line, health, faults>>

\* The wait for the close is over, with the close or without it.
RetireWorker(c) ==
    /\ At(c, "closeWait")
    /\ Goto(c, "exitWait")
    /\ \/ /\ wio # 0 /\ closing[<<"wio", wio>>] = "ended"
          /\ CollectClose(<<"wio", wio>>) /\ UNCHANGED <<readers, closers>>
       \/ /\ wio # 0 => closing[<<"wio", wio>>] # "ended"
          /\ IF proc[worker] = "dead" THEN UNCHANGED <<readers, closing, closers>>
             ELSE Shutdown(worker, wio # 0)
    /\ UNCHANGED <<pairVars, proc, ready, workerLock, restartLock, eof, line,
                   health, faults>>

ConfirmExit(c) ==
    /\ At(c, "exitWait") /\ proc[worker] = "dead"
    /\ worker' = 0 /\ wio' = 0 /\ failed' = FALSE
    /\ workerLock' = NoCaller /\ Goto(c, "resetHealth")
    /\ UNCHANGED <<pipeVars, proc, ready, restartLock, health, faults>>

KeepSurvivor(c) ==
    /\ At(c, "exitWait") /\ worker \in Running
    /\ failed' = TRUE /\ ready' = FALSE /\ Return(c)
    /\ faults' = faults \cup {worker}
    /\ workerLock' = NoCaller /\ restartLock' = NoCaller
    /\ UNCHANGED <<worker, wio, pipeVars, proc, health>>

ResetHealth(c) ==
    /\ At(c, "resetHealth")
    /\ health' = 0 /\ restartLock' = NoCaller /\ RestartReturns(c)
    /\ UNCHANGED <<pairVars, pipeVars, proc, workerLock, faults>>

(***************************************************************************)
(* The process, and the readers of its telemetry.                          *)
(***************************************************************************)
Exit(g) ==
    /\ g \in Running
    /\ proc' = [proc EXCEPT ![g] = "dead"]
    /\ readers' = [readers EXCEPT ![g] = {}]
    /\ closers' = [e \in End |-> IF e[2] = g THEN 0 ELSE closers[e]]
    /\ closing' = [e \in End |-> IF e[2] = g THEN "none" ELSE closing[e]]
    /\ eof' = eof \ {g}
    /\ UNCHANGED <<pairVars, ready, workerLock, restartLock, call, line, health, faults>>

EmitTelemetry(g) ==
    /\ proc[g] = "alive" /\ line = 0
    /\ line' = g
    /\ UNCHANGED <<pairVars, proc, ready, workerLock, restartLock, call, readers,
                   closers, closing, eof, health, faults>>

\* Mutant of ReadStderr: every line is recorded.
ReadStderrAny ==
    /\ line # 0 /\ workerLock = NoCaller
    /\ line' = 0 /\ health' = line
    /\ UNCHANGED <<pairVars, proc, ready, workerLock, restartLock, call, readers,
                   closers, closing, eof, faults>>

\* The look at the current process and the record are one step under the
\* lock, for which the drainer of stderr waits while a restart holds it.
ReadStderr ==
    /\ line # 0 /\ workerLock = NoCaller
    /\ line' = 0
    /\ health' = IF worker = line THEN line ELSE health
    /\ UNCHANGED <<pairVars, proc, ready, workerLock, restartLock, call, readers,
                   closers, closing, eof, faults>>

Next ==
    \/ \E c \in Caller :
          \/ UseWorker(c) \/ Launch(c)
          \/ Handshake(c) \/ HandshakeFails(c) \/ RetireFailed(c) \/ SetReady(c)
          \/ Answered(c) \/ RequestFails(c) \/ ClearIfCurrent(c)
          \/ BeginRestart(c) \/ TakeRestartLock(c) \/ GiveUpLock(c)
          \/ NothingToRestart(c) \/ CloseWio(c) \/ RetireWorker(c)
          \/ ConfirmExit(c) \/ KeepSurvivor(c) \/ ResetHealth(c)
    \/ \E g \in Gen : Exit(g) \/ EmitTelemetry(g)
    \/ ReadStderr
    \/ \E e \in End : CloseEnds(e)

Spec == Init /\ [][Next]_asrWorkerVars

(***************************************************************************)
(* Properties.                                                             *)
(***************************************************************************)
\* However restarts, failed handshakes and late failures of old requests
\* interleave, a running process is the one the backend refers to: none is
\* orphaned, and no second one is started beside a survivor.
NoOrphan == \A g \in Running : worker = g

\* The failure marker condemns a process only for what happened on that very
\* process, and _worker and _wio differ only under the lock.
FailureIsOwn ==
    /\ failed => \/ worker \in faults
                 \/ \E c \in Caller : At(c, "handshake") \/ At(c, "retire")
    /\ wio # 0 /\ wio # worker => workerLock # NoCaller

\* Each stdout has one reader and each pipe end one close thread, through
\* repeated failed restarts of a survivor.
OneOwnerPerPipe ==
    /\ \A g \in Gen : Cardinality(readers[g]) <= 1
    /\ \A e \in End : closers[e] <= 1

\* Both: every running process and every pipe has its one owner.
WorkerIsOwned == NoOrphan /\ OneOwnerPerPipe

\* A health report on display is one of the installed process, however late
\* the line of an older one is read.
HealthIsCurrent ==
    worker # 0 /\ wio = worker => health \in {0, worker}

\* What an older process does late changes nothing of a newer one.
OldLeavesNewAlone == FailureIsOwn /\ HealthIsCurrent

\* Both: no worker is lost or shared, and none is taken for another.
AsrWorkerIsSafe == WorkerIsOwned /\ OldLeavesNewAlone
=============================================================================
