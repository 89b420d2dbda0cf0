----------------------------- MODULE MossWorker -----------------------------
(***************************************************************************)
(* The MOSS-TTS-Nano backend (backends/jetson/moss_tts_nano.py): requests  *)
(* of several callers share one worker process.  A reader thread per       *)
(* process routes its events by request id to the callers' queues; a       *)
(* caller whose worker died or fell silent stops it, starts another and    *)
(* asks once more, under the same id.                                      *)
(*                                                                         *)
(* Audio is one kind of event; text, metadata and the downmix are left     *)
(* out.  A process that survives SIGKILL is not modelled.                  *)
(***************************************************************************)
EXTENDS Naturals, Sequences

CONSTANTS MossCaller,       \* each makes one request
          MaxMoss           \* bound: processes, one more than respawns need

VARIABLES
    mossProc,       \* _proc: the current process, 0 for none
    mossAlive,      \* the processes that run
    mossReader,     \* the processes whose stdout reader is at work
    pipe,           \* what a process has written and the reader not read
    mossControl,    \* _control_queue
    table,          \* _request_queues: the callers registered in it
    inbox,          \* the queue of a caller's current attempt
    mossCall,       \* where a caller is
    attempt,        \* attempt
    mossGen,        \* processes started so far
    serving         \* external: the requests a process works on

mossVars == <<mossProc, mossAlive, mossReader, pipe, mossControl, table, inbox, mossCall,
              attempt, mossGen, serving>>

\* A backend that has been preloaded.
Init ==
    /\ mossProc = 1 /\ mossAlive = {1} /\ mossReader = {1} /\ mossGen = 1
    /\ mossControl = <<>> /\ table = {}
    /\ pipe = [g \in 1 .. MaxMoss |-> <<>>] /\ serving = [g \in 1 .. MaxMoss |-> {}]
    /\ inbox = [c \in MossCaller |-> <<>>]
    /\ mossCall = [c \in MossCaller |-> "idle"] /\ attempt = [c \in MossCaller |-> 0]

Running(g) == g # 0 /\ g \in mossAlive

Goes(c, where) == mossCall' = [mossCall EXCEPT ![c] = where]

Writes(g, line) ==
    /\ \A h \in DOMAIN pipe : pipe[h] = <<>>
    /\ pipe' = [pipe EXCEPT ![g] = <<line>>]

\* An event to every registered queue.
Broadcast(event) ==
    inbox' = [c \in MossCaller |-> IF c \in table THEN Append(inbox[c], event) ELSE inbox[c]]

(***************************************************************************)
(* The process, under _proc_lock: each of the two is one critical section. *)
(***************************************************************************)

\* Mutant of StopProcess: the process is left to end by itself.
StopForgets ==
    /\ mossProc' = 0
    /\ Broadcast("error") /\ table' = {}
    /\ UNCHANGED <<mossAlive, serving, mossReader, pipe, mossControl, mossGen>>

\* shutdown: the callers are told and forgotten, then the process is stopped.
StopProcess ==
    /\ mossProc' = 0 /\ mossAlive' = mossAlive \ {mossProc}
    /\ Broadcast("error") /\ table' = {}
    /\ serving' = [g \in 1 .. MaxMoss |-> IF g = mossProc THEN {} ELSE serving[g]]
    /\ UNCHANGED <<mossReader, pipe, mossControl, mossGen>>

Shutdown(c) ==
    /\ mossCall[c] = "shutdown" /\ Goes(c, "preload")
    /\ StopProcess /\ UNCHANGED attempt

\* unload, which the manager calls when no request is under way.
Unload ==
    /\ \A c \in MossCaller : mossCall[c] \in {"idle", "over"}
    /\ mossProc # 0
    /\ StopProcess /\ UNCHANGED <<mossCall, attempt>>

\* preload: nothing to do while a process runs; else fresh queues and a process.
Preload(c) ==
    /\ mossCall[c] = "preload"
    /\ IF Running(mossProc)
       THEN /\ Goes(c, "register")
            /\ UNCHANGED <<mossProc, mossAlive, mossReader, mossControl, table, mossGen, serving>>
       ELSE /\ mossGen < MaxMoss /\ mossGen' = mossGen + 1
            /\ mossProc' = mossGen' /\ mossAlive' = mossAlive \cup {mossGen'}
            /\ mossReader' = mossReader \cup {mossGen'}
            /\ serving' = [serving EXCEPT ![mossGen'] = {"start"}]
            /\ mossControl' = <<>> /\ table' = {}
            /\ Goes(c, "starting")
    /\ UNCHANGED <<pipe, inbox, attempt>>

(***************************************************************************)
(* preload waits for the control queue of the moment, whoever filled it.   *)
(***************************************************************************)
\* The exit of any process ends the wait with an error, as does its own death.
Started(c) ==
    /\ mossCall[c] = "starting"
    /\ \/ /\ mossControl # <<>> /\ mossControl' = Tail(mossControl)
          /\ IF Head(mossControl) = "ready" THEN Goes(c, "register") ELSE Goes(c, "over")
       \/ /\ mossControl = <<>> /\ mossProc # 0 /\ ~Running(mossProc)
          /\ Goes(c, "over") /\ UNCHANGED mossControl
    /\ UNCHANGED <<mossProc, mossAlive, mossReader, pipe, table, inbox, attempt, serving, mossGen>>

\* _CONTROL_TIMEOUT_S: shutdown, then TimeoutError.
StartTimesOut(c) ==
    /\ mossCall[c] = "starting" /\ mossControl = <<>>
    /\ Goes(c, "over") /\ StopProcess /\ UNCHANGED attempt

(***************************************************************************)
(* _generate_streaming_impl                                                *)
(***************************************************************************)
Begin(c) ==
    /\ mossCall[c] = "idle" /\ Goes(c, "register")
    /\ UNCHANGED <<mossProc, mossAlive, mossReader, pipe, mossControl, table, inbox, attempt,
                   serving, mossGen>>

\* Each attempt has a queue of its own, under the id of the request.
Register(c) ==
    /\ mossCall[c] = "register" /\ Goes(c, "send")
    /\ attempt' = [attempt EXCEPT ![c] = @ + 1]
    /\ table' = table \cup {c} /\ inbox' = [inbox EXCEPT ![c] = <<>>]
    /\ UNCHANGED <<mossProc, mossAlive, mossReader, pipe, mossControl, serving, mossGen>>

\* What a dead worker or a timeout leads to: once more, if this was the first time.
Forget(c) == table' = table \ {c} /\ inbox' = [inbox EXCEPT ![c] = <<>>]

Retry(c) ==
    /\ Forget(c)
    /\ Goes(c, IF attempt[c] < 2 THEN "shutdown" ELSE "over")

Over(c) == Forget(c) /\ Goes(c, "over")

Send(c) ==
    /\ mossCall[c] = "send"
    /\ IF Running(mossProc)
       THEN /\ serving' = [serving EXCEPT ![mossProc] = @ \cup {c}]
            /\ Goes(c, "wait") /\ UNCHANGED <<table, inbox>>
       ELSE Retry(c) /\ UNCHANGED serving
    /\ UNCHANGED <<mossProc, mossAlive, mossReader, pipe, mossControl, attempt, mossGen>>

\* The cancellation of a request: the worker may have to be told again, and
\* one that is gone makes it a retry.
SendCancel(c) ==
    /\ mossCall[c] = "wait"
    /\ IF Running(mossProc)
       THEN /\ c \in serving[mossProc] /\ Writes(mossProc, [event |-> "cancelled", to |-> c])
            /\ serving' = [serving EXCEPT ![mossProc] = @ \ {c}]
            /\ UNCHANGED <<mossCall, table, inbox>>
       ELSE Retry(c) /\ UNCHANGED <<serving, pipe>>
    /\ UNCHANGED <<mossProc, mossAlive, mossReader, mossControl, attempt, mossGen>>

\* A chunk is yielded and the caller may close the generator at it.
TakeEvent(c) ==
    /\ mossCall[c] = "wait" /\ inbox[c] # <<>>
    /\ CASE Head(inbox[c]) = "chunk" -> \/ /\ inbox' = [inbox EXCEPT ![c] = Tail(@)]
                                           /\ UNCHANGED <<mossCall, table>>
                                        \/ Over(c)
         [] Head(inbox[c]) = "exit"  -> Retry(c)
         [] OTHER                    -> Over(c)
    /\ UNCHANGED <<mossProc, mossAlive, mossReader, pipe, mossControl, attempt, serving, mossGen>>

\* _REQUEST_TIMEOUT_S without an event.
RequestTimesOut(c) ==
    /\ mossCall[c] = "wait" /\ inbox[c] = <<>> /\ Retry(c)
    /\ UNCHANGED <<mossProc, mossAlive, mossReader, pipe, mossControl, attempt, serving, mossGen>>

(***************************************************************************)
(* The reader of a process: an event goes to the queue its id is           *)
(* registered under, whichever process wrote it; the end of the stream     *)
(* goes to everyone.                                                       *)
(***************************************************************************)
ReadLine(g) ==
    /\ g \in mossReader /\ pipe[g] # <<>>
    /\ pipe' = [pipe EXCEPT ![g] = Tail(@)]
    /\ LET line == Head(pipe[g])
       IN IF line.event = "ready"
          THEN mossControl' = Append(mossControl, "ready") /\ UNCHANGED inbox
          ELSE /\ inbox' = IF line.to \in table
                           THEN [inbox EXCEPT ![line.to] = Append(@, line.event)] ELSE inbox
               /\ UNCHANGED mossControl
    /\ UNCHANGED <<mossProc, mossAlive, mossReader, table, mossCall, attempt, serving, mossGen>>

ReadEof(g) ==
    /\ g \in mossReader /\ pipe[g] = <<>> /\ g \notin mossAlive
    /\ mossReader' = mossReader \ {g}
    /\ mossControl' = Append(mossControl, "exit") /\ Broadcast("exit")
    /\ UNCHANGED <<mossProc, mossAlive, pipe, table, mossCall, attempt, serving, mossGen>>

(***************************************************************************)
(* External: the worker.                                                   *)
(***************************************************************************)
WorkerReady(g) ==
    /\ g \in mossAlive /\ "start" \in serving[g] /\ Writes(g, [event |-> "ready"])
    /\ serving' = [serving EXCEPT ![g] = @ \ {"start"}]
    /\ UNCHANGED <<mossProc, mossAlive, mossReader, mossControl, table, inbox, mossCall, attempt, mossGen>>

WorkerAnswers(g) ==
    /\ g \in mossAlive
    /\ \E c \in serving[g] \cap MossCaller :
       /\ inbox[c] = <<>>
       /\ \/ Writes(g, [event |-> "chunk", to |-> c]) /\ UNCHANGED serving
          \/ \E e \in {"done", "error"} :
                /\ Writes(g, [event |-> e, to |-> c])
                /\ serving' = [serving EXCEPT ![g] = @ \ {c}]
    /\ UNCHANGED <<mossProc, mossAlive, mossReader, mossControl, table, inbox, mossCall, attempt, mossGen>>

WorkerDies(g) ==
    /\ g \in mossAlive /\ mossAlive' = mossAlive \ {g}
    /\ serving' = [serving EXCEPT ![g] = {}]
    /\ UNCHANGED <<mossProc, mossReader, pipe, mossControl, table, inbox, mossCall, attempt, mossGen>>

Next ==
    \/ \E c \in MossCaller :
          \/ Begin(c) \/ Register(c) \/ Send(c) \/ SendCancel(c) \/ TakeEvent(c)
          \/ RequestTimesOut(c) \/ Shutdown(c) \/ Preload(c) \/ Started(c) \/ StartTimesOut(c)
    \/ Unload
    \/ \E g \in 1 .. MaxMoss :
          ReadLine(g) \/ ReadEof(g) \/ WorkerReady(g) \/ WorkerAnswers(g) \/ WorkerDies(g)

Spec == Init /\ [][Next]_mossVars

(***************************************************************************)
(* Properties.                                                             *)
(***************************************************************************)
\* However the callers' respawns overlap, no process runs that the backend
\* has forgotten, and a caller that is over has left no queue behind to which
\* a later answer could go.
OneMossProcess ==
    /\ mossAlive \subseteq {mossProc}
    /\ \A c \in table : mossCall[c] \in {"send", "wait"}
=============================================================================
