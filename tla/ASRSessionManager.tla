-------------------------- MODULE ASRSessionManager --------------------------
(***************************************************************************)
(* One connection's ASRSessionManager                                      *)
(* (voxedge/engine/asr_session_manager.py): the asyncio tasks that call    *)
(* it, the executor threads its worker operations run on, and the backend  *)
(* worker those operations and restart_worker() act on.                    *)
(*                                                                         *)
(* Every action of a task is the code between two awaits, so it is one     *)
(* step of the event loop; the steps of executor threads interleave with   *)
(* them.  The asyncio.Lock hands over in FIFO order, here in any order:    *)
(* what is shown holds for the FIFO lock as well.                          *)
(***************************************************************************)
EXTENDS Naturals, FiniteSets, Sequences

CONSTANTS
  Task,        \* asyncio tasks that call the manager
  Calls,       \* Calls[t]: the operations task t calls
  Slot,        \* operations that can be in the executor at once
  None,        \* no task, no slot
  Retries,     \* len(_REBUILD_BACKOFF_S)
  Abandonable, \* calls whose task may be cancelled at an await
  HasRestart,  \* does the backend have restart_worker?
  MaxPreempt,  \* bound: calls of on_speech_start and cancel
  MaxFaults,   \* bound: operations and restarts that fail, mark_errors
  MaxAbandon,  \* bound: tasks cancelled (or timed out) at an await
  MaxFaultsAbandoned  \* bound: faults where a task was cancelled too

Call == {"start", "accept", "finalize", "prepare", "partial", "cancel",
         "mark_error"}

ASSUME NoneFresh == None \notin Task /\ None \notin Slot
ASSUME CallsType ==
  Calls \in [Task -> SUBSET Call] /\ Abandonable \subseteq Call
ASSUME BoundsType ==
  /\ Retries \in Nat \ {0}
  /\ HasRestart \in BOOLEAN
  /\ MaxPreempt \in Nat /\ MaxFaults \in Nat /\ MaxAbandon \in Nat
  /\ MaxFaultsAbandoned \in Nat

NoStream == 0   \* streams are numbered from 1 in the order they are created

VARIABLES
  mstate,      \* _state
  stream,      \* _stream
  generation,  \* _generation
  abortEpoch,  \* _abort_epoch
  opEpoch,     \* _worker_op_epoch
  opLock,      \* _worker_op_lock: the number of the published mutex
  lock,        \* the task that holds _lock
  pc,          \* pc[t]: the await task t is at
  call,        \* call[t]: the operation it is executing
  awaits,      \* awaits[t]: the executor operation it awaits
  local,       \* local[t]: the stream _inner_cancel took and may close
  abort0,      \* abort0[t]: finalize's snapshot of _abort_epoch
  gen0,        \* gen0[t]: finalize's snapshot of _generation
  tries,       \* tries[t]: failed attempts of _do_rebuild_locked
  op,          \* op[i]: the operation in slot i of the executor
  nstreams,    \* streams created so far
  closed,      \* streams whose close() has been called
  worker,      \* incarnation of the native worker
  born,        \* born[s]: the incarnation that created stream s
  lateRestarts,\* restarts whose caller was cancelled while they run
  finals,      \* generations of the finals returned with accepted = True
  faults, abandons  \* bounded counters

manager == <<mstate, stream, generation, abortEpoch, opEpoch, opLock>>
tasks   == <<lock, pc, call, awaits, local, abort0, gen0, tries>>
native  == <<nstreams, closed, worker, born, lateRestarts>>
vars    == <<manager, tasks, op, native, finals, faults, abandons>>

States == {"idle", "active", "finalizing", "cancelling", "error_rebuild"}

Rebuilding == {"backoff", "rebuild", "restartR", "lastcreate"}
PCs == {"idle", "lock", "create", "feed", "finalize", "prepare", "partial",
        "cancel", "restartC"} \cup Rebuilding

Kinds   == {"create", "feed", "finalize", "prepare", "partial", "cancel"}
Results == {"ok", "error", "protocol", "retired"}
Failed  == {"error", "protocol"}

NoOp == [kind |-> "create", arg |-> NoStream, mutex |-> 0, epoch |-> 0,
         retire |-> FALSE, st |-> "free", inc |-> 0, owner |-> None]

Op == [kind : Kinds, arg : Nat, mutex : Nat, epoch : Nat, retire : BOOLEAN,
       st : {"free", "queued", "running"} \cup Results,
       inc : Nat, owner : Task \cup {None}]

TypeOK ==
  /\ mstate \in States
  /\ stream \in Nat /\ generation \in Nat /\ abortEpoch \in Nat
  /\ opEpoch \in Nat /\ opLock \in Nat
  /\ lock \in Task \cup {None}
  /\ pc \in [Task -> PCs]
  /\ call \in [Task -> Call]
  /\ awaits \in [Task -> Slot \cup {None}]
  /\ local \in [Task -> Nat]
  /\ abort0 \in [Task -> Nat] /\ gen0 \in [Task -> Nat]
  /\ tries \in [Task -> Nat]
  /\ op \in [Slot -> Op]
  /\ nstreams \in Nat
  /\ closed \in SUBSET Nat
  /\ worker \in Nat
  /\ born \in Seq(Nat) /\ Len(born) = nstreams
  /\ lateRestarts \in Nat
  /\ finals \in Seq(Nat)
  /\ faults \in Nat /\ abandons \in Nat

Init ==
  /\ mstate = "idle" /\ stream = NoStream /\ generation = 0
  /\ abortEpoch = 0 /\ opEpoch = 0 /\ opLock = 0
  /\ lock = None
  /\ pc = [t \in Task |-> "idle"]
  /\ call = [t \in Task |-> "partial"]
  /\ awaits = [t \in Task |-> None]
  /\ local = [t \in Task |-> NoStream]
  /\ abort0 = [t \in Task |-> 0] /\ gen0 = [t \in Task |-> 0]
  /\ tries = [t \in Task |-> 0]
  /\ op = [i \in Slot |-> NoOp]
  /\ nstreams = 0 /\ closed = {} /\ worker = 0 /\ born = <<>>
  /\ lateRestarts = 0
  /\ finals = <<>> /\ faults = 0 /\ abandons = 0

-----------------------------------------------------------------------------
(* Pieces of the task actions *)

(* _run_sync: the operation captures the mutex m and the epoch e at the    *)
(* moment it is submitted, and queues for the executor.                    *)
Submitted(t, k, s, m, e) ==
  [kind |-> k, arg |-> s, mutex |-> m, epoch |-> e, retire |-> k = "cancel",
   st |-> "queued", inc |-> 0, owner |-> t]

(* The operation of a slot once nobody awaits it: gone when it has its     *)
(* result, else left to the executor.                                      *)
Left(o) == IF o.st \in Results THEN NoOp ELSE [o EXCEPT !.owner = None]

(* t submits an operation and is suspended at `at` until it has a result.  *)
Submit(t, at, k, s, m, e) ==
  \E i \in Slot :
    /\ op[i].st = "free" \/ (i = awaits[t] /\ op[i].st \in Results)
    /\ op' = [j \in Slot |-> IF j = i THEN Submitted(t, k, s, m, e)
                             ELSE IF j = awaits[t] THEN Left(op[j])
                             ELSE op[j]]
    /\ awaits' = [awaits EXCEPT ![t] = i]
    /\ pc' = [pc EXCEPT ![t] = at]

(* t awaits no operation any more and is at `at`.                          *)
StopAwaiting(t, at) ==
  /\ op' = [j \in Slot |-> IF j = awaits[t] THEN Left(op[j]) ELSE op[j]]
  /\ awaits' = [awaits EXCEPT ![t] = None]
  /\ pc' = [pc EXCEPT ![t] = at]

(* The end of `async with self._lock`: t returns to its caller. *)
Return(t) ==
  /\ lock' = None
  /\ StopAwaiting(t, "idle")

(* t has the lock and its operation k starts now. *)
Acquire(t, k) ==
  /\ pc[t] = "lock" /\ call[t] = k
  /\ lock = None

Resume(t, at, results) ==
  /\ pc[t] = at
  /\ awaits[t] # None
  /\ op[awaits[t]].st \in results

Outcome(t) == op[awaits[t]]

(* _safe_close_stream(self._stream) *)
LeaveStreamOpen == UNCHANGED closed
CloseStream == closed' = closed \cup ({stream} \ {NoStream})

(* on_speech_start after any preempted utterance is out of the way *)
ReopenUtterance(t, m, e) ==
  /\ UNCHANGED generation
  /\ Submit(t, "create", "create", NoStream, m, e)
OpenUtterance(t, m, e) ==
  /\ generation' = generation + 1
  /\ Submit(t, "create", "create", NoStream, m, e)

(* What follows _inner_cancel: cancel() returns, on_speech_start goes on.  *)
CancelEnds == mstate' = "idle"

AfterCancel(t, m, e) ==
  /\ CancelEnds
  /\ \/ /\ call[t] = "cancel"
        /\ Return(t)
        /\ UNCHANGED generation
     \/ /\ call[t] = "start"
        /\ OpenUtterance(t, m, e)
        /\ UNCHANGED lock

(* _inner_cancel with a stream to cancel, up to its wait_for *)
CancelStream(t) ==
  /\ mstate' = "cancelling"
  /\ stream' = NoStream
  /\ local' = [local EXCEPT ![t] = stream]
  /\ Submit(t, "cancel", "cancel", stream, opLock, opEpoch)
  /\ UNCHANGED generation

(* _handle_error_locked up to the first sleep of _do_rebuild_locked.  The  *)
(* early return on _recovery_in_progress is never taken: the flag is set   *)
(* only while the lock holder is in Rebuilding, and it does not call       *)
(* _handle_error_locked there.                                             *)
KeepStream(t) ==
  /\ CloseStream
  /\ UNCHANGED stream
  /\ mstate' = "error_rebuild"
  /\ tries' = [tries EXCEPT ![t] = 0]
  /\ StopAwaiting(t, "backoff")
HandleError(t) ==
  /\ CloseStream
  /\ stream' = NoStream
  /\ mstate' = "error_rebuild"
  /\ tries' = [tries EXCEPT ![t] = 0]
  /\ StopAwaiting(t, "backoff")
-----------------------------------------------------------------------------
(* Calls *)

(* The bounds leave room for one more fault.                               *)
MayFail == faults < IF abandons = 0 THEN MaxFaults ELSE MaxFaultsAbandoned

(* A task calls an operation.  cancel and on_speech_start move the abort   *)
(* epoch before they contend for the lock.  A second mark_error while one  *)
(* recovers only waits for it (_recovery_future): it changes nothing here. *)
Invoke(t, k) ==
  /\ pc[t] = "idle"
  /\ k \in Calls[t]
  /\ k \in {"start", "cancel"} => abortEpoch < MaxPreempt
  /\ k = "mark_error" =>
       /\ MayFail
       /\ \A u \in Task : call[u] = "mark_error" => pc[u] = "idle"
  /\ faults' = IF k = "mark_error" THEN faults + 1 ELSE faults
  /\ pc' = [pc EXCEPT ![t] = "lock"]
  /\ call' = [call EXCEPT ![t] = k]
  /\ abortEpoch' = IF k \in {"start", "cancel"} THEN abortEpoch + 1
                   ELSE abortEpoch
  /\ UNCHANGED <<mstate, stream, generation, opEpoch, opLock, lock, awaits,
                 local, abort0, gen0, tries, op, native, finals, abandons>>

EnterStart(t) ==
  /\ Acquire(t, "start")
  /\ lock' = t
  /\ \/ /\ mstate \in {"active", "finalizing"} /\ stream # NoStream
        /\ CancelStream(t)
     \/ /\ ~(mstate \in {"active", "finalizing"} /\ stream # NoStream)
        /\ mstate' = IF mstate \in {"active", "finalizing"} THEN "idle"
                     ELSE mstate
        /\ OpenUtterance(t, opLock, opEpoch)
        /\ UNCHANGED <<stream, local>>
  /\ UNCHANGED <<abortEpoch, opEpoch, opLock, call, abort0, gen0, tries,
                 native, finals, faults, abandons>>

EnterCancel(t) ==
  /\ Acquire(t, "cancel")
  /\ \/ /\ mstate # "idle" /\ stream # NoStream
        /\ CancelStream(t)
        /\ lock' = t
     \/ /\ mstate = "idle" \/ stream = NoStream
        /\ mstate' = "idle"
        /\ Return(t)
        /\ UNCHANGED <<stream, generation, local>>
  /\ UNCHANGED <<abortEpoch, opEpoch, opLock, call, abort0, gen0, tries,
                 native, finals, faults, abandons>>

(* accept_audio creates a missing stream first (`lazily`); "create" of a   *)
(* task whose call is accept is that await.                                *)
EnterAccept(t) ==
  /\ Acquire(t, "accept")
  /\ \/ mstate # "active" /\ Return(t)
     \/ /\ mstate = "active"
        /\ lock' = t
        /\ IF stream = NoStream
           THEN Submit(t, "create", "create", NoStream, opLock, opEpoch)
           ELSE Submit(t, "feed", "feed", stream, opLock, opEpoch)
  /\ UNCHANGED <<manager, call, local, abort0, gen0, tries, native, finals,
                 faults, abandons>>

(* prepare_finalize_for_generation may be asked for another generation, or *)
(* of a stream without the hook: it then returns at once.                  *)
EnterPrepare(t) ==
  /\ Acquire(t, "prepare")
  /\ \/ Return(t)
     \/ /\ mstate = "active" /\ stream # NoStream
        /\ lock' = t
        /\ Submit(t, "prepare", "prepare", stream, opLock, opEpoch)
  /\ UNCHANGED <<manager, call, local, abort0, gen0, tries, native, finals,
                 faults, abandons>>

EnterPartial(t) ==
  /\ Acquire(t, "partial")
  /\ \/ (mstate # "active" \/ stream = NoStream) /\ Return(t)
     \/ /\ mstate = "active" /\ stream # NoStream
        /\ lock' = t
        /\ Submit(t, "partial", "partial", stream, opLock, opEpoch)
  /\ UNCHANGED <<manager, call, local, abort0, gen0, tries, native, finals,
                 faults, abandons>>

EnterFinalize(t) ==
  /\ Acquire(t, "finalize")
  /\ \/ /\ mstate # "active" \/ stream = NoStream
        /\ mstate' = IF mstate = "active" THEN "idle" ELSE mstate
        /\ Return(t)
        /\ UNCHANGED <<abort0, gen0>>
     \/ /\ mstate = "active" /\ stream # NoStream
        /\ mstate' = "finalizing"
        /\ lock' = t
        /\ abort0' = [abort0 EXCEPT ![t] = abortEpoch]
        /\ gen0' = [gen0 EXCEPT ![t] = generation]
        /\ Submit(t, "finalize", "finalize", stream, opLock, opEpoch)
  /\ UNCHANGED <<stream, generation, abortEpoch, opEpoch, opLock, call, local,
                 tries, native, finals, faults, abandons>>

EnterMarkError(t) ==
  /\ Acquire(t, "mark_error")
  /\ lock' = t
  /\ HandleError(t)
  /\ UNCHANGED <<generation, abortEpoch, opEpoch, opLock, call, local, abort0,
                 gen0, nstreams, worker, born, lateRestarts, finals, faults,
                 abandons>>
-----------------------------------------------------------------------------
(* Continuations of the lock holder *)

(* create_stream returned: on_speech_start is done, accept_audio feeds the *)
(* stream it has just created.                                             *)
Created(t) ==
  /\ Resume(t, "create", {"ok"})
  /\ stream' = Outcome(t).arg
  /\ \/ /\ call[t] = "start"
        /\ mstate' = "active"
        /\ Return(t)
     \/ /\ call[t] = "accept"
        /\ Submit(t, "feed", "feed", Outcome(t).arg, opLock, opEpoch)
        /\ UNCHANGED <<mstate, lock>>
  /\ UNCHANGED <<generation, abortEpoch, opEpoch, opLock, call, local, abort0,
                 gen0, tries, native, finals, faults, abandons>>

(* accept_waveform, prepare_finalize or get_partial returned; an exception *)
(* of get_partial is swallowed.                                            *)
Used(t) ==
  /\ \/ Resume(t, "feed", {"ok"})
     \/ Resume(t, "prepare", {"ok"})
     \/ Resume(t, "partial", {"ok"} \cup Failed)
  /\ Return(t)
  /\ UNCHANGED <<manager, call, local, abort0, gen0, tries, native, finals,
                 faults, abandons>>

(* finalize returned.  A preemption that came meanwhile discards the       *)
(* result, and leaves state and stream to the preempting task.             *)
NeverDiscarded(t) == FALSE
Discarded(t) ==
  \/ abortEpoch # abort0[t]
  \/ mstate # "finalizing"
  \/ generation # gen0[t]

Finalized(t) ==
  /\ Resume(t, "finalize", {"ok"})
  /\ \/ /\ ~Discarded(t)
        /\ CloseStream
        /\ stream' = NoStream
        /\ mstate' = "idle"
        /\ finals' = Append(finals, gen0[t])
     \/ /\ Discarded(t)
        /\ UNCHANGED <<closed, stream, mstate, finals>>
  /\ Return(t)
  /\ UNCHANGED <<generation, abortEpoch, opEpoch, opLock, call, local, abort0,
                 gen0, tries, nstreams, worker, born, lateRestarts, faults,
                 abandons>>

(* Any of create, accept_waveform, prepare_finalize, finalize raised.      *)
OpFailed(t) ==
  /\ \E at \in {"create", "feed", "prepare", "finalize"} :
       Resume(t, at, Failed)
  /\ HandleError(t)
  /\ UNCHANGED <<generation, abortEpoch, opEpoch, opLock, lock, call, local,
                 abort0, gen0, nstreams, worker, born, lateRestarts, finals,
                 faults, abandons>>

(* The cancel call came back within _CANCEL_ACK_TIMEOUT_S, or raised an    *)
(* exception that is no worker protocol error: the stream may be closed,   *)
(* unless the call was retired without running.                            *)
CancelAcked(t) ==
  /\ Resume(t, "cancel", {"ok", "error", "retired"})
  /\ closed' = IF Outcome(t).st = "retired" THEN closed
               ELSE closed \cup {local[t]}
  /\ AfterCancel(t, opLock, opEpoch)
  /\ local' = [local EXCEPT ![t] = NoStream]
  /\ UNCHANGED <<stream, abortEpoch, opEpoch, opLock, call, abort0, gen0,
                 tries, nstreams, worker, born, lateRestarts, finals, faults,
                 abandons>>

(* The cancel call raised a worker protocol error: _maybe_restart_worker   *)
(* moves the epoch, which retires every cancel captured before, and then   *)
(* restarts.                                                               *)
CancelRaised(t) ==
  /\ Resume(t, "cancel", {"protocol"})
  /\ \/ /\ HasRestart
        /\ opEpoch' = opEpoch + 1
        /\ StopAwaiting(t, "restartC")
        /\ UNCHANGED <<mstate, generation, lock, closed, local>>
     \/ /\ ~HasRestart
        /\ closed' = closed \cup {local[t]}
        /\ local' = [local EXCEPT ![t] = NoStream]
        /\ AfterCancel(t, opLock, opEpoch)
        /\ UNCHANGED opEpoch
  /\ UNCHANGED <<stream, abortEpoch, opLock, call, abort0, gen0, tries,
                 nstreams, worker, born, lateRestarts, finals, faults,
                 abandons>>

(* _CANCEL_ACK_TIMEOUT_S passed: the call may still be inside the stream,  *)
(* so it is left alone and never closed by this task.                      *)
NeverToClose(t) == local' = [local EXCEPT ![t] = NoStream]

WaitForAck(t) == FALSE
CancelTimedOut(t) ==
  /\ pc[t] = "cancel"
  /\ Outcome(t).st \in {"queued", "running"}
  /\ NeverToClose(t)
  /\ \/ /\ HasRestart
        /\ opEpoch' = opEpoch + 1
        /\ StopAwaiting(t, "restartC")
        /\ UNCHANGED <<mstate, generation, lock>>
     \/ /\ ~HasRestart
        /\ AfterCancel(t, opLock, opEpoch)
        /\ UNCHANGED opEpoch
  /\ UNCHANGED <<stream, abortEpoch, opLock, call, abort0, gen0, tries,
                 native, finals, faults, abandons>>

(* restart_worker, in a thread of the default executor, returned: only now *)
(* a new mutex is published.  A failed restart keeps the old one.          *)
AlwaysNewMutex(ok) ==
  /\ opLock' = opLock + 1
  /\ worker' = IF ok THEN worker + 1 ELSE worker
  /\ faults' = IF ok THEN faults ELSE faults + 1
  /\ ok \/ MayFail
RestartReturned(ok) ==
  /\ opLock' = IF ok THEN opLock + 1 ELSE opLock
  /\ worker' = IF ok THEN worker + 1 ELSE worker
  /\ faults' = IF ok THEN faults ELSE faults + 1
  /\ ok \/ MayFail

CancelRestarted(t, ok) ==
  /\ pc[t] = "restartC"
  /\ RestartReturned(ok)
  /\ closed' = closed \cup ({local[t]} \ {NoStream})
  /\ local' = [local EXCEPT ![t] = NoStream]
  /\ AfterCancel(t, opLock', opEpoch)
  /\ UNCHANGED <<stream, abortEpoch, opEpoch, call, abort0, gen0, tries,
                 nstreams, born, lateRestarts, finals, abandons>>

(* _do_rebuild_locked: a backoff ends and create_stream is tried again.    *)
SleepAgain(t) == pc[t] = "backoff" /\ UNCHANGED vars
BackoffEnds(t) ==
  /\ pc[t] = "backoff"
  /\ Submit(t, "rebuild", "create", NoStream, opLock, opEpoch)
  /\ UNCHANGED <<manager, lock, call, local, abort0, gen0, tries, native,
                 finals, faults, abandons>>

(* The rebuild has a stream: ACTIVE again, whatever call failed.           *)
Rebuilt(t) ==
  /\ \E at \in {"rebuild", "lastcreate"} : Resume(t, at, {"ok"})
  /\ stream' = Outcome(t).arg
  /\ mstate' = "active"
  /\ Return(t)
  /\ UNCHANGED <<generation, abortEpoch, opEpoch, opLock, call, local, abort0,
                 gen0, tries, native, finals, faults, abandons>>

RebuildFailed(t) ==
  /\ Resume(t, "rebuild", Failed)
  /\ tries' = [tries EXCEPT ![t] = @ + 1]
  /\ \/ /\ tries[t] + 1 < Retries
        /\ StopAwaiting(t, "backoff")
        /\ UNCHANGED opEpoch
     \/ /\ tries[t] + 1 = Retries /\ HasRestart
        /\ opEpoch' = opEpoch + 1
        /\ StopAwaiting(t, "restartR")
     \/ /\ tries[t] + 1 = Retries /\ ~HasRestart
        /\ Submit(t, "lastcreate", "create", NoStream, opLock, opEpoch)
        /\ UNCHANGED opEpoch
  /\ UNCHANGED <<mstate, stream, generation, abortEpoch, opLock, lock, call,
                 local, abort0, gen0, native, finals, faults, abandons>>

RebuildRestarted(t, ok) ==
  /\ pc[t] = "restartR"
  /\ RestartReturned(ok)
  /\ Submit(t, "lastcreate", "create", NoStream, opLock', opEpoch)
  /\ UNCHANGED <<mstate, stream, generation, abortEpoch, opEpoch, lock, call,
                 local, abort0, gen0, tries, nstreams, closed, born,
                 lateRestarts, finals, abandons>>

(* The create after the restart failed too: IDLE.  on_speech_start raises  *)
(* ASRSessionUnavailable.                                                  *)
GiveUp == mstate' = "idle"

RebuildExhausted(t) ==
  /\ Resume(t, "lastcreate", Failed)
  /\ GiveUp
  /\ Return(t)
  /\ UNCHANGED <<stream, generation, abortEpoch, opEpoch, opLock, call, local,
                 abort0, gen0, tries, native, finals, faults, abandons>>

(* CancelledError at the await of t: its task is cancelled, or a wait_for  *)
(* around its call expires.  The lock is released; an operation in the     *)
(* executor and a restart go on without t.                                 *)
Abandon(t) ==
  /\ pc[t] # "idle" /\ call[t] \in Abandonable
  /\ abandons < MaxAbandon /\ faults <= MaxFaultsAbandoned
  /\ abandons' = abandons + 1
  /\ lock' = IF lock = t THEN None ELSE lock
  /\ lateRestarts' = IF pc[t] \in {"restartC", "restartR"}
                     THEN lateRestarts + 1 ELSE lateRestarts
  /\ StopAwaiting(t, "idle")
  /\ local' = [local EXCEPT ![t] = NoStream]
  /\ UNCHANGED <<manager, call, abort0, gen0, tries, nstreams, closed, worker,
                 born, finals, faults>>
-----------------------------------------------------------------------------
(* Executor threads *)

NoMutex(m) == TRUE
MutexFree(m) == \A j \in Slot : op[j].st = "running" => op[j].mutex # m

(* The thread of slot i gets its mutex: it runs the operation, or finds it *)
(* retired.                                                                *)
NeverRetired(i) == FALSE
Retired(i) == op[i].retire /\ op[i].epoch # opEpoch

StartOp(i) ==
  /\ op[i].st = "queued"
  /\ MutexFree(op[i].mutex)
  /\ op' = [op EXCEPT ![i] =
              IF ~Retired(i) THEN [@ EXCEPT !.st = "running", !.inc = worker]
              ELSE IF @.owner = None THEN NoOp
              ELSE [@ EXCEPT !.st = "retired"]]
  /\ UNCHANGED <<manager, tasks, native, finals, faults, abandons>>

(* An operation whose future was cancelled before a thread took it.        *)
DropOp(i) ==
  /\ op[i].st = "queued" /\ op[i].owner = None
  /\ op' = [op EXCEPT ![i] = NoOp]
  /\ UNCHANGED <<manager, tasks, native, finals, faults, abandons>>

(* The backend call of slot i ends; a create that succeeds has opened a    *)
(* stream, which is lost with its result when nobody awaits it.            *)
FinishOp(i, res) ==
  /\ op[i].st = "running"
  /\ res \in Failed => MayFail
  /\ LET creates == op[i].kind = "create" /\ res = "ok" IN
     /\ nstreams' = IF creates THEN nstreams + 1 ELSE nstreams
     /\ born' = IF creates THEN Append(born, op[i].inc) ELSE born
     /\ op' = [op EXCEPT ![i] =
                 IF op[i].owner = None THEN NoOp
                 ELSE [op[i] EXCEPT !.st = res,
                         !.arg = IF creates THEN nstreams + 1 ELSE op[i].arg]]
  /\ faults' = IF res \in Failed THEN faults + 1 ELSE faults
  /\ UNCHANGED <<manager, tasks, closed, worker, lateRestarts, finals,
                 abandons>>

(* A restart whose caller is gone ends: its mutex is never published.      *)
LateRestart(ok) ==
  /\ lateRestarts > 0
  /\ lateRestarts' = lateRestarts - 1
  /\ worker' = IF ok THEN worker + 1 ELSE worker
  /\ UNCHANGED <<manager, tasks, op, nstreams, closed, born, finals, faults,
                 abandons>>
-----------------------------------------------------------------------------
Enter(t) ==
  \/ EnterStart(t) \/ EnterCancel(t) \/ EnterAccept(t) \/ EnterPrepare(t)
  \/ EnterPartial(t) \/ EnterFinalize(t) \/ EnterMarkError(t)

Continue(t) ==
  \/ Created(t) \/ Used(t) \/ Finalized(t) \/ OpFailed(t)
  \/ CancelAcked(t) \/ CancelRaised(t) \/ CancelTimedOut(t)
  \/ \E ok \in BOOLEAN : CancelRestarted(t, ok) \/ RebuildRestarted(t, ok)
  \/ BackoffEnds(t) \/ Rebuilt(t) \/ RebuildFailed(t) \/ RebuildExhausted(t)

TaskNext(t) ==
  \/ \E k \in Call : Invoke(t, k)
  \/ Enter(t)
  \/ Continue(t)
  \/ Abandon(t)

ThreadNext(i) ==
  \/ StartOp(i)
  \/ DropOp(i)
  \/ \E res \in {"ok"} \cup Failed : FinishOp(i, res)

Next ==
  \/ \E t \in Task : TaskNext(t)
  \/ \E i \in Slot : ThreadNext(i)
  \/ \E ok \in BOOLEAN : LateRestart(ok)

Spec == Init /\ [][Next]_vars
-----------------------------------------------------------------------------
(* Properties *)

(* Two executor threads are never inside one native stream at once, even   *)
(* after the task that submitted one of the operations was cancelled and   *)
(* released _lock (the comment on _worker_op_lock in __init__).            *)
OneOpPerStream ==
  \A i, j \in Slot :
    /\ i # j /\ op[i].st = "running" /\ op[j].st = "running"
    /\ op[i].arg # NoStream
    => op[i].arg # op[j].arg

(* F1: the worker runs one operation at a time, of whatever kind.          *)
OneOpPerWorker ==
  \A i, j \in Slot :
    i # j /\ op[i].st = "running" /\ op[j].st = "running"
    => op[i].inc # op[j].inc

(* No thread runs an operation on a stream whose close() has been called:  *)
(* close() waits for a cancel call to come back and is left out when it    *)
(* does not (P3 in _inner_cancel).                                         *)
NoOpOnClosedStream ==
  \A i \in Slot : op[i].st = "running" => op[i].arg \notin closed

(* What a worker sees of the session's operations, while no task was       *)
(* cancelled: one at a time, on open streams.                              *)
WorkerOpsSafe == abandons = 0 => OneOpPerWorker /\ NoOpOnClosedStream

(* A cancel call never reaches a worker newer than the one it was          *)
(* submitted for: _maybe_restart_worker retires it first.  Only restarts   *)
(* that come through after their caller was cancelled get past that, and   *)
(* worker - opLock counts them: their mutex was never published.           *)
CancelStaysInIncarnation ==
  \A i \in Slot :
    op[i].st = "running" /\ op[i].kind = "cancel"
      => op[i].inc - born[op[i].arg] <= worker - opLock

(* The finals returned as accepted carry strictly increasing generations:  *)
(* one per utterance at most, and never an older one after a newer.        *)
FinalsIncrease ==
  \A i, j \in 1 .. Len(finals) : i < j => finals[i] < finals[j]

(* An ACTIVE manager whose lock is free has a stream, it is open, and the  *)
(* running worker created it, unless a restart was left running by a       *)
(* cancelled task.                                                         *)
ActiveHasStream ==
  mstate = "active" /\ lock = None
    => /\ stream # NoStream /\ stream \notin closed
       /\ abandons = 0 => born[stream] = worker

(* Whenever the lock is free, the only open stream of the running worker   *)
(* is the manager's: no worker slot is lost on the way through preemption, *)
(* cancel timeout and restart, unless a task was cancelled or an           *)
(* operation or restart failed.                                            *)
NoStreamLost ==
  lock = None /\ abandons = 0 /\ faults = 0 /\ HasRestart =>
    \A s \in 1 .. nstreams : s = stream \/ s \in closed \/ born[s] # worker

(* Streams are neither lost nor missing, through preemption, failures and  *)
(* rebuilds: see the two conjuncts.                                        *)
StreamsKept == NoStreamLost /\ ActiveHasStream

(* The state and the stream agree with what the lock holder is doing: in   *)
(* particular the two "defensive invariants" finalize tests after its      *)
(* worker operation always hold there ("normally unreachable").            *)
HolderInv ==
  /\ \A t \in Task :
       /\ pc[t] \notin {"idle", "lock"} <=> lock = t
       /\ pc[t] # "idle" => call[t] \in Calls[t]
       /\ abort0[t] <= abortEpoch
       /\ pc[t] = "finalize" => mstate = "finalizing" /\ gen0[t] = generation
       /\ pc[t] \in {"feed", "prepare", "partial"} => mstate = "active"
       /\ pc[t] \in {"cancel", "restartC"} => mstate = "cancelling"
       /\ pc[t] \in Rebuilding => mstate = "error_rebuild"
       /\ pc[t] = "create" /\ call[t] = "accept" => mstate = "active"
  /\ mstate \in {"idle", "cancelling", "error_rebuild"} => stream = NoStream

(* No final has been accepted for an utterance that may still have one     *)
(* (unless mark_error has made the manager ACTIVE again after its final).  *)
Undecided ==
  \/ mstate \in {"active", "finalizing", "error_rebuild"}
  \/ \E t \in Task : pc[t] = "create"

FinalsInv ==
  /\ \A i \in 1 .. Len(finals) : finals[i] <= generation
  /\ Undecided => /\ generation > 0
                  /\ \A i \in 1 .. Len(finals) : finals[i] < generation
  /\ FinalsIncrease

(* What the finals promise (UtteranceFinals): a finalize is pending while  *)
(* its task is in the worker operation and nothing has preempted it.       *)
Pending == IF \E t \in Task : pc[t] = "finalize" /\ abort0[t] = abortEpoch
           THEN generation ELSE 0

Finals == INSTANCE UtteranceFinals WITH pending <- Pending

FinalsSpec == Finals!Spec

-----------------------------------------------------------------------------
(* Fairness.  The event loop runs every ready task and every timer; the    *)
(* asyncio.Lock is FIFO, so a waiter that the lock becomes free for again  *)
(* and again gets it; a thread waiting for a mutex is scheduled.           *)
LoopFairness ==
  /\ \A t \in Task : WF_vars(Continue(t)) /\ SF_vars(Enter(t))
  /\ \A i \in Slot : SF_vars(StartOp(i))

(* Backend calls return: every one of them has its own deadline.           *)
WorkerFairness ==
  \A i \in Slot : WF_vars(\E res \in {"ok"} \cup Failed : FinishOp(i, res))

LoopSpec == Spec /\ LoopFairness

(* Every call of the manager returns when backend calls do, through every  *)
(* preemption, cancel timeout and rebuild.                                 *)
CallsReturn ==
  WorkerFairness => \A t \in Task : pc[t] # "idle" ~> pc[t] = "idle"

(* Once _inner_cancel has taken the stream it ends, even when no backend   *)
(* call ever returns: the wait for the ack is bounded and a restart ends.  *)
CancelIsBounded ==
  \A t \in Task : pc[t] \in {"cancel", "restartC"}
                    ~> pc[t] \notin {"cancel", "restartC"}

(* asr_loop cancels a turn past its deadline within a budget: wait_for     *)
(* gives the call up wherever it is.                                       *)
BudgetSpec ==
  /\ LoopSpec
  /\ \A t \in Task : WF_vars(call[t] = "cancel" /\ Abandon(t))

(* ... "so a wedged backend can't pin the session forever": such a cancel  *)
(* is followed by a free lock, also when a backend call never returns.     *)
CancelUnpins ==
  (\E t \in Task : pc[t] = "lock" /\ call[t] = "cancel") ~> lock = None
=============================================================================
