------------------------ MODULE EdgeAsrWorkerProofs ------------------------
(***************************************************************************)
(* Proof that every running ASR worker process and each of its pipes has   *)
(* its one owner, and that what an older process does late changes nothing *)
(* of a newer one, for any number of threads and of processes.             *)
(***************************************************************************)
EXTENDS EdgeAsrWorker, FiniteSetTheorems, TLAPS

\* The constants: the holder of a free lock is no thread.
Constants == MaxGen \in Nat /\ NoCaller \notin Caller

State == {"unborn", "starting", "alive", "dead"}
Op    == {"none", "request", "cancel", "preload", "restart", "unload"}
Pc    == {"idle", "loaded", "sent", "clear", "handshake", "retire", "wantRestart",
          "wantWorker", "closeWait", "exitWait", "resetHealth"}
Known == 0 .. MaxGen
Call  == [op : Op, pc : Pc, w : Known, io : Known]

\* What the variables are.
TypeOK ==
    /\ proc \in [Gen -> State]
    /\ worker \in Known /\ wio \in Known
    /\ call \in [Caller -> Call]
    /\ readers \in [Gen -> SUBSET {"drain", "wio"}]
    /\ closers \in [End -> Nat] /\ closing \in [End -> {"none", "running", "ended"}]

\* The marker of a pipe end is there while a thread closes it.
Marked == \A e \in End : closers[e] = IF closing[e] = "running" THEN 1 ELSE 0

\* The processes the pair names have been launched, and a running one is the
\* current one.
Current ==
    /\ worker # 0 => proc[worker] # "unborn"
    /\ wio # 0 => proc[wio] # "unborn"
    /\ NoOrphan

\* Between launch and handshake, and between the close of the WorkerIO and the
\* end of the wait, a thread has the lock and a process; the WorkerIO is that of
\* an older one in the first case, and not in the second.
Locked ==
    \A c \in Caller :
        /\ call[c].pc \in {"handshake", "retire", "closeWait", "exitWait"}
              => workerLock = c /\ worker # 0
        /\ call[c].pc \in {"handshake", "retire"} => wio # worker
        /\ call[c].pc \in {"closeWait", "exitWait"} => wio \in {0, worker}

\* A pipe is read only while its process runs, by the WorkerIO it has or by
\* the drainer it has instead of one.
Read ==
    /\ \A g \in Gen : /\ readers[g] # {} => proc[g] \in {"starting", "alive"}
                      /\ "wio" \in readers[g] => wio = g
                      /\ "drain" \in readers[g] => wio # g
    /\ \A c \in Caller : At(c, "handshake") => readers[worker] = {}

\* Whoever is about to condemn a process does so for a fault of it.
Blamed ==
    \A c \in Caller : /\ At(c, "retire") => worker \in faults
                      /\ At(c, "clear") => call[c].w \in faults

\* The inductive invariant.
IInv ==
    /\ TypeOK /\ Marked /\ Current /\ Locked /\ Read /\ Blamed
    /\ FailureIsOwn /\ HealthIsCurrent

USE DEF Gen, State, Op, Pc, Known, Call, At

\* A request captures the pair or is rejected; preload does neither.
LEMMA Capturing ==
  ASSUME Constants, TypeOK, NEW c \in Caller, NEW op \in Op, NEW w \in Known, NEW io \in Known,
         NEW bad, Captured(c, op, w, io, bad)
  PROVE  /\ call' \in [Caller -> Call]
         /\ call'[c].pc \in {"idle", "loaded", "sent"}
         /\ \A d \in Caller : d # c => call'[d] = call[d]
  <1>1. CASE op = "preload"
    <2>1. call' = [call EXCEPT ![c] = Doing(op, "loaded")]
      BY <1>1 DEF Captured
    <2> QED
      BY <2>1 DEF Constants, Doing, TypeOK
  <1>2. CASE op # "preload" /\ (w = 0 \/ io = 0 \/ bad)
    BY <1>2 DEF Captured, Constants, Idle, Doing, TypeOK
  <1>3. CASE op # "preload" /\ ~(w = 0 \/ io = 0 \/ bad)
    BY <1>3 DEF Captured, Constants, Doing, TypeOK
  <1> QED
    BY <1>1, <1>2, <1>3

\* A thread goes on to another place.
LEMMA Going ==
  ASSUME TypeOK, NEW c \in Caller, NEW pc \in Pc, Goto(c, pc)
  PROVE  /\ call' \in [Caller -> Call]
         /\ call'[c].pc = pc /\ call'[c].w = call[c].w
         /\ \A d \in Caller : d # c => call'[d] = call[d]
  <1>1. [call[c] EXCEPT !.pc = pc] \in Call
    BY DEF TypeOK
  <1>2. call' = [call EXCEPT ![c] = [call[c] EXCEPT !.pc = pc]]
    BY DEF Goto, TypeOK
  <1> QED
    BY <1>1, <1>2 DEF TypeOK

\* One more thread that reads.
LEMMA Draining ==
  ASSUME TypeOK, NEW g \in Gen
  PROVE  [readers EXCEPT ![g] = @ \cup {"drain"}] \in [Gen -> SUBSET {"drain", "wio"}]
  <1>1. readers[g] \cup {"drain"} \in SUBSET {"drain", "wio"}
    BY DEF TypeOK
  <1> QED
    BY <1>1, Zenon DEF TypeOK

\* Starting a close thread, or finding one there, keeps the marks.
LEMMA Closing ==
  ASSUME TypeOK, Marked, NEW e \in End, StartClose(e)
  PROVE  /\ closers' \in [End -> Nat] /\ closing' \in [End -> {"none", "running", "ended"}]
         /\ Marked'
  <1>1. CASE closing[e] = "none" /\ e[2] \notin eof
    <2>1. /\ closing' = [closing EXCEPT ![e] = "running"]
          /\ closers' = [closers EXCEPT ![e] = @ + 1] /\ closers[e] = 0
      BY <1>1 DEF StartClose, Marked
    <2> QED
      BY <2>1 DEF TypeOK, Marked
  <1>2. CASE ~(closing[e] = "none" /\ e[2] \notin eof)
    BY <1>2 DEF TypeOK, Marked, StartClose
  <1> QED
    BY <1>1, <1>2

\* The ends of the pipes of a process.
LEMMA Ends == \A g \in Gen : <<"wio", g>> \in End /\ <<"stdin", g>> \in End
  BY DEF End

\* Blame falls on the process whose handshake failed; a dead one is forgotten.
LEMMA RetireFailedIInv == ASSUME Constants, IInv, NEW c \in Caller, RetireFailed(c)
  PROVE  IInv'
  <1> USE DEF Constants, IInv, pairVars, pipeVars, RetireFailed, Return, Idle, Doing
  <1>1. TypeOK' /\ Marked'
    BY DEF TypeOK, Marked
  <1>2. Current' /\ Locked' /\ Read' /\ Blamed' /\ FailureIsOwn' /\ HealthIsCurrent'
    BY DEF TypeOK, Current, NoOrphan, Running, Locked, Read, Blamed, FailureIsOwn,
           HealthIsCurrent
  <1> QED
    BY <1>1, <1>2

\* _ready is no part of the pair.
LEMMA SetReadyIInv == ASSUME Constants, IInv, NEW c \in Caller, SetReady(c)
  PROVE  IInv'
  <1> USE DEF Constants, IInv, pairVars, pipeVars, SetReady, Return, Idle, Doing
  <1>1. TypeOK' /\ Marked'
    BY DEF TypeOK, Marked
  <1>2. Current' /\ Locked' /\ Read' /\ Blamed' /\ FailureIsOwn' /\ HealthIsCurrent'
    BY DEF TypeOK, Current, NoOrphan, Running, Locked, Read, Blamed, FailureIsOwn,
           HealthIsCurrent
  <1> QED
    BY <1>1, <1>2

\* An answered request leaves everything as it was.
LEMMA AnsweredIInv == ASSUME Constants, IInv, NEW c \in Caller, Answered(c)
  PROVE  IInv'
  <1> USE DEF Constants, IInv, pairVars, pipeVars, Answered, Return, Idle, Doing
  <1>1. TypeOK' /\ Marked'
    BY DEF TypeOK, Marked
  <1>2. Current' /\ Locked' /\ Read' /\ Blamed' /\ FailureIsOwn' /\ HealthIsCurrent'
    BY DEF TypeOK, Current, NoOrphan, Running, Locked, Read, Blamed, FailureIsOwn,
           HealthIsCurrent
  <1> QED
    BY <1>1, <1>2

\* The process that a request failed on is at fault.
LEMMA RequestFailsIInv == ASSUME Constants, IInv, NEW c \in Caller, RequestFails(c)
  PROVE  IInv'
  <1> USE DEF Constants, IInv
  <1>0. /\ call' \in [Caller -> Call]
        /\ call'[c].pc = "clear" /\ call'[c].w = call[c].w
        /\ \A d \in Caller : d # c => call'[d] = call[d]
    BY Going DEF RequestFails
  <1>1. /\ UNCHANGED <<proc, worker, wio, failed, readers, closers, closing, workerLock, health>>
        /\ faults' = faults \cup {call[c].w} /\ call[c].pc = "sent"
    BY DEF RequestFails, pairVars, pipeVars
  <1>2. \A d \in Caller : call[d].pc \in {"handshake", "retire"} => d # c /\ call'[d] = call[d]
    BY <1>0, <1>1
  <1>3. TypeOK' /\ Marked'
    BY <1>0, <1>1 DEF TypeOK, Marked
  <1>4. Current' /\ HealthIsCurrent' /\ FailureIsOwn'
    BY <1>1, <1>2 DEF Current, NoOrphan, Running, HealthIsCurrent, FailureIsOwn
  <1>5. Locked' /\ Read' /\ Blamed'
    BY <1>0, <1>1 DEF Locked, Read, Blamed
  <1> QED
    BY <1>3, <1>4, <1>5

\* A request condemns the pair it used, or forgets it when the process is dead.
LEMMA ClearIfCurrentIInv == ASSUME Constants, IInv, NEW c \in Caller, ClearIfCurrent(c)
  PROVE  IInv'
  <1> USE DEF Constants, IInv, pairVars, pipeVars, ClearIfCurrent, Return, Idle, Doing
  <1>1. TypeOK' /\ Marked'
    BY DEF TypeOK, Marked
  <1>2. Current' /\ Locked' /\ Read' /\ Blamed' /\ FailureIsOwn' /\ HealthIsCurrent'
    BY DEF TypeOK, Current, NoOrphan, Running, Locked, Read, Blamed, FailureIsOwn,
           HealthIsCurrent
  <1> QED
    BY <1>1, <1>2

\* The lock of restarts orders only them.
LEMMA TakeRestartLockIInv == ASSUME Constants, IInv, NEW c \in Caller, TakeRestartLock(c)
  PROVE  IInv'
  <1> USE DEF Constants, IInv
  <1>0. /\ call' \in [Caller -> Call]
        /\ call'[c].pc = "wantWorker" /\ call'[c].w = call[c].w
        /\ \A d \in Caller : d # c => call'[d] = call[d]
    BY Going DEF TakeRestartLock
  <1>1. /\ UNCHANGED <<proc, worker, wio, failed, readers, closers, closing, workerLock,
                      health, faults>>
        /\ call[c].pc = "wantRestart"
    BY DEF TakeRestartLock, pairVars, pipeVars
  <1>2. \A d \in Caller : call[d].pc \in {"handshake", "retire"} => d # c /\ call'[d] = call[d]
    BY <1>0, <1>1
  <1>3. TypeOK' /\ Marked'
    BY <1>0, <1>1 DEF TypeOK, Marked
  <1>4. Current' /\ HealthIsCurrent' /\ FailureIsOwn'
    BY <1>1, <1>2 DEF Current, NoOrphan, Running, HealthIsCurrent, FailureIsOwn
  <1>5. Locked' /\ Read' /\ Blamed'
    BY <1>0, <1>1 DEF Locked, Read, Blamed
  <1> QED
    BY <1>3, <1>4, <1>5

\* A restart that gives up its place in a queue has done nothing.
LEMMA GiveUpLockIInv == ASSUME Constants, IInv, NEW c \in Caller, GiveUpLock(c)
  PROVE  IInv'
  <1> USE DEF Constants, IInv, pairVars, pipeVars, GiveUpLock, RestartReturns, Return, Idle, Doing
  <1>1. TypeOK' /\ Marked'
    BY DEF TypeOK, Marked
  <1>2. Current' /\ Locked' /\ Read' /\ Blamed' /\ FailureIsOwn' /\ HealthIsCurrent'
    BY DEF TypeOK, Current, NoOrphan, Running, Locked, Read, Blamed, FailureIsOwn,
           HealthIsCurrent
  <1> QED
    BY <1>1, <1>2

\* There is no process.
LEMMA NothingToRestartIInv == ASSUME Constants, IInv, NEW c \in Caller, NothingToRestart(c)
  PROVE  IInv'
  <1> USE DEF Constants, IInv, pairVars, pipeVars, NothingToRestart, RestartReturns, Return,
              Idle, Doing
  <1>1. TypeOK' /\ Marked'
    BY DEF TypeOK, Marked
  <1>2. Current' /\ Locked' /\ Read' /\ Blamed' /\ FailureIsOwn' /\ HealthIsCurrent'
    BY DEF TypeOK, Current, NoOrphan, Running, Locked, Read, Blamed, FailureIsOwn,
           HealthIsCurrent
  <1> QED
    BY <1>1, <1>2

\* Forgetting a process that is dead.
LEMMA ConfirmExitIInv == ASSUME Constants, IInv, NEW c \in Caller, ConfirmExit(c)
  PROVE  IInv'
  <1> USE DEF Constants, IInv
  <1>0. /\ call' \in [Caller -> Call]
        /\ call'[c].pc = "resetHealth" /\ call'[c].w = call[c].w
        /\ \A d \in Caller : d # c => call'[d] = call[d]
    BY Going DEF ConfirmExit
  <1>1. /\ UNCHANGED <<proc, readers, closers, closing, health, faults>>
        /\ worker' = 0 /\ wio' = 0 /\ failed' = FALSE /\ workerLock' = NoCaller
        /\ call[c].pc = "exitWait" /\ proc[worker] = "dead"
    BY DEF ConfirmExit, pairVars, pipeVars
  <1>2. Running = {} /\ wio \in {0, worker} /\ workerLock = c
    BY <1>1 DEF Current, NoOrphan, Running, Locked
  <1>3. \A d \in Caller : call'[d].pc \notin {"handshake", "retire", "closeWait", "exitWait"}
    BY <1>0, <1>2 DEF Locked
  <1>4. TypeOK' /\ Marked'
    BY <1>0, <1>1 DEF TypeOK, Marked
  <1>5. Current' /\ HealthIsCurrent' /\ FailureIsOwn'
    BY <1>1, <1>2 DEF Current, NoOrphan, Running, HealthIsCurrent, FailureIsOwn
  <1>6. Locked' /\ Blamed'
    BY <1>0, <1>1, <1>3 DEF Locked, Blamed
  <1>7. Read'
    BY <1>1, <1>2, <1>3 DEF Read, Running
  <1> QED
    BY <1>4, <1>5, <1>6, <1>7

\* The survivor is at fault, and stays.
LEMMA KeepSurvivorIInv == ASSUME Constants, IInv, NEW c \in Caller, KeepSurvivor(c)
  PROVE  IInv'
  <1> USE DEF Constants, IInv, pairVars, pipeVars, KeepSurvivor, Return, Idle, Doing
  <1>1. TypeOK' /\ Marked'
    BY DEF TypeOK, Marked
  <1>2. Current' /\ Locked' /\ Read' /\ Blamed' /\ FailureIsOwn' /\ HealthIsCurrent'
    BY DEF TypeOK, Current, NoOrphan, Running, Locked, Read, Blamed, FailureIsOwn,
           HealthIsCurrent
  <1> QED
    BY <1>1, <1>2

\* No health is current.
LEMMA ResetHealthIInv == ASSUME Constants, IInv, NEW c \in Caller, ResetHealth(c)
  PROVE  IInv'
  <1> USE DEF Constants, IInv, pairVars, pipeVars, ResetHealth, RestartReturns, Return, Idle, Doing
  <1>1. TypeOK' /\ Marked'
    BY DEF TypeOK, Marked
  <1>2. Current' /\ Locked' /\ Read' /\ Blamed' /\ FailureIsOwn' /\ HealthIsCurrent'
    BY DEF TypeOK, Current, NoOrphan, Running, Locked, Read, Blamed, FailureIsOwn,
           HealthIsCurrent
  <1> QED
    BY <1>1, <1>2

\* A request captures the pair, which stays.
LEMMA UseWorkerIInv == ASSUME Constants, IInv, NEW c \in Caller, UseWorker(c)
  PROVE  IInv'
  <1> USE DEF Constants, IInv
  <1>0. /\ call' \in [Caller -> Call]
        /\ call'[c].pc \in {"idle", "loaded", "sent"}
        /\ \A d \in Caller : d # c => call'[d] = call[d]
    <2>1. PICK op \in Op : Captured(c, op, worker, wio, failed)
      BY DEF UseWorker
    <2> QED
      BY <2>1, Capturing DEF TypeOK
  <1>3. UNCHANGED <<proc, worker, wio, failed, readers, closers, closing, workerLock,
                      health, faults>>
    BY DEF UseWorker, pairVars, pipeVars
  <1>1. TypeOK' /\ Marked'
    BY <1>0, <1>3 DEF TypeOK, Marked
  <1>2. Current' /\ Locked' /\ Read' /\ Blamed' /\ FailureIsOwn' /\ HealthIsCurrent'
    <2>1. /\ \A d \in Caller : call'[d].pc \in {"handshake", "retire", "clear",
                                                 "closeWait", "exitWait"}
                                    => d # c /\ call'[d] = call[d]
          /\ \A d \in Caller : call[d].pc \in {"handshake", "retire"} => call'[d] = call[d]
      BY <1>0 DEF UseWorker
    <2> QED
      BY <1>3, <2>1 DEF Current, NoOrphan, Running, Locked, Read, Blamed, FailureIsOwn,
                           HealthIsCurrent
  <1> QED
    BY <1>1, <1>2

\* A launch comes when nothing runs; from then on the thread has the lock.
LEMMA LaunchIInv == ASSUME Constants, IInv, NEW c \in Caller, Launch(c)
  PROVE  IInv'
  <1> USE DEF Constants, IInv, pairVars, pipeVars, Launch
  <1>0. /\ call' \in [Caller -> Call]
        /\ call'[c].pc = "handshake"
        /\ \A d \in Caller : d # c => call'[d] = call[d]
    <2>1. PICK op \in Op : call' = [call EXCEPT ![c] = Doing(op, "handshake")]
      OBVIOUS
    <2> QED
      BY <2>1 DEF Doing, TypeOK
  <1>1. TypeOK' /\ Marked'
    BY <1>0 DEF TypeOK, Marked
  <1>2. Current' /\ Locked' /\ Read' /\ Blamed' /\ FailureIsOwn' /\ HealthIsCurrent'
    BY <1>0 DEF TypeOK, Current, NoOrphan, Running, Locked, Read, Blamed, FailureIsOwn,
                HealthIsCurrent
  <1> QED
    BY <1>1, <1>2

\* The process, which nobody reads yet, gets its WorkerIO.
LEMMA HandshakeIInv == ASSUME Constants, IInv, NEW c \in Caller, Handshake(c)
  PROVE  IInv'
  <1> USE DEF Constants, IInv, pairVars, pipeVars, Handshake
  <1>0. /\ call' \in [Caller -> Call]
        /\ call'[c].pc \in {"idle", "loaded", "sent"}
        /\ \A d \in Caller : d # c => call'[d] = call[d]
    BY Capturing DEF TypeOK
  <1>1. TypeOK' /\ Marked'
    BY <1>0 DEF TypeOK, Marked
  <1>2. Current' /\ Locked' /\ Read' /\ Blamed' /\ FailureIsOwn' /\ HealthIsCurrent'
    <2>1. workerLock = c /\ worker \in Gen /\ wio # worker /\ readers[worker] = {}
      BY DEF TypeOK, Locked, Read
    <2>2. /\ \A d \in Caller : call'[d].pc \notin {"handshake", "retire", "closeWait", "exitWait"}
          /\ \A d \in Caller : call'[d].pc = "clear" => d # c /\ call'[d] = call[d]
      BY <1>0, <2>1 DEF Locked
    <2>3. /\ worker' = worker /\ wio' = worker /\ failed' = FALSE /\ health' = 0 /\ faults' = faults
          /\ proc' = [proc EXCEPT ![worker] = "alive"]
          /\ readers' = [readers EXCEPT ![worker] = {"wio"}]
      BY <2>1 DEF TypeOK
    <2>4. Current'
      BY <2>1, <2>3 DEF TypeOK, Current, NoOrphan, Running
    <2>5. Read'
      BY <2>1, <2>2, <2>3 DEF TypeOK, Read, Current, NoOrphan, Running
    <2> QED
      BY <2>2, <2>3, <2>4, <2>5 DEF Locked, Blamed, FailureIsOwn, HealthIsCurrent
  <1> QED
    BY <1>1, <1>2

\* The teardown of a process without a WorkerIO reads it by a drainer.
LEMMA HandshakeFailsIInv == ASSUME Constants, IInv, NEW c \in Caller, HandshakeFails(c)
  PROVE  IInv'
  <1> USE DEF Constants, IInv, pairVars, pipeVars, HandshakeFails
  <1>0. worker \in Gen
    BY DEF TypeOK, Locked
  <1>3. /\ closers' \in [End -> Nat] /\ closing' \in [End -> {"none", "running", "ended"}]
        /\ Marked'
    BY <1>0, Closing, Ends DEF Shutdown, TypeOK, Marked
  <1>4. \/ readers' = readers
        \/ (proc[worker] # "dead" /\ readers' = [readers EXCEPT ![worker] = @ \cup {"drain"}])
    BY DEF Shutdown, StartDrain
  <1>5. /\ call' \in [Caller -> Call] /\ call'[c].pc = "retire" /\ call'[c].w = call[c].w
        /\ \A d \in Caller : d # c => call'[d] = call[d]
        /\ faults' = faults \cup {worker}
        /\ UNCHANGED <<proc, worker, wio, failed, workerLock, health>>
    BY Going
  <1>1. TypeOK' /\ Marked'
    <2>1. readers' \in [Gen -> SUBSET {"drain", "wio"}]
      BY <1>0, <1>4, Draining DEF TypeOK
    <2> QED
      BY <1>3, <1>5, <2>1 DEF TypeOK
  <1>2. Current' /\ Locked' /\ Read' /\ Blamed' /\ FailureIsOwn' /\ HealthIsCurrent'
    <2>1. workerLock = c /\ wio # worker
      BY DEF Locked
    <2>2. Read'
      <3>1. \A d \in Caller : call'[d].pc # "handshake"
        BY <1>5, <2>1 DEF TypeOK, Locked
      <3>2. CASE readers' = readers
        BY <1>5, <3>1, <3>2 DEF Read
      <3>3. CASE proc[worker] # "dead" /\ readers' = [readers EXCEPT ![worker] = @ \cup {"drain"}]
        <4>1. proc[worker] \in {"starting", "alive"}
          BY <1>0, <3>3 DEF TypeOK, Current
        <4> QED
          BY <1>0, <1>5, <2>1, <3>1, <3>3, <4>1 DEF TypeOK, Read
      <3> QED
        BY <1>4, <3>2, <3>3
    <2> QED
      BY <1>5, <2>1, <2>2 DEF TypeOK, Current, NoOrphan, Running, Locked, Blamed, FailureIsOwn,
                               HealthIsCurrent
  <1> QED
    BY <1>1, <1>2

\* Nothing happens yet.
LEMMA BeginRestartIInv == ASSUME Constants, IInv, NEW c \in Caller, BeginRestart(c)
  PROVE  IInv'
  <1> USE DEF Constants, IInv, pairVars, pipeVars, BeginRestart
  <1>0. /\ call' \in [Caller -> Call]
        /\ call'[c].pc = "wantRestart"
        /\ \A d \in Caller : d # c => call'[d] = call[d]
    <2>1. PICK op \in Op : call' = [call EXCEPT ![c] = Doing(op, "wantRestart")]
      OBVIOUS
    <2> QED
      BY <2>1 DEF Doing, TypeOK
  <1>1. TypeOK' /\ Marked'
    BY <1>0 DEF TypeOK, Marked
  <1>2. Current' /\ Locked' /\ Read' /\ Blamed' /\ FailureIsOwn' /\ HealthIsCurrent'
    BY <1>0 DEF TypeOK, Current, NoOrphan, Running, Locked, Read, Blamed, FailureIsOwn,
                HealthIsCurrent
  <1> QED
    BY <1>1, <1>2

\* One close thread per pipe end; the thread has the lock from here on.
LEMMA CloseWioIInv == ASSUME Constants, IInv, NEW c \in Caller, CloseWio(c)
  PROVE  IInv'
  <1> USE DEF Constants, IInv, pairVars, pipeVars, CloseWio
  <1>0. /\ call' \in [Caller -> Call]
        /\ call'[c].pc = "closeWait" /\ call'[c].w = call[c].w
        /\ \A d \in Caller : d # c => call'[d] = call[d]
    BY Going
  <1>1. TypeOK' /\ Marked'
    <2>1. /\ closers' \in [End -> Nat] /\ closing' \in [End -> {"none", "running", "ended"}]
          /\ Marked'
      <3>1. CASE wio = 0
        BY <3>1 DEF TypeOK, Marked
      <3>2. CASE wio # 0
        <4>0. wio \in Gen
          BY <3>2 DEF TypeOK
        <4>1. <<"wio", wio>> \in End /\ StartClose(<<"wio", wio>>)
          BY <3>2, <4>0, Ends
        <4> QED
          BY <4>1, Closing
      <3> QED
        BY <3>1, <3>2
    <2> QED
      BY <1>0, <2>1 DEF TypeOK
  <1>2. /\ UNCHANGED <<proc, worker, wio, failed, readers, health, faults>>
        /\ call[c].pc = "wantWorker" /\ workerLock' = c /\ wio \in {0, worker} /\ worker # 0
    BY DEF FailureIsOwn
  <1>3. \A d \in Caller : call'[d].pc # "handshake" /\ call[d].pc \notin {"handshake", "retire"}
    BY <1>0 DEF Locked
  <1>4. Current' /\ HealthIsCurrent' /\ FailureIsOwn'
    BY <1>2, <1>3 DEF Current, NoOrphan, Running, HealthIsCurrent, FailureIsOwn
  <1>5. Locked' /\ Blamed'
    BY <1>0, <1>2 DEF Locked, Blamed
  <1>6. Read'
    BY <1>2, <1>3 DEF Read
  <1> QED
    BY <1>1, <1>4, <1>5, <1>6

\* The teardown starts a drainer only when there is no WorkerIO.
LEMMA RetireWorkerIInv == ASSUME Constants, IInv, NEW c \in Caller, RetireWorker(c)
  PROVE  IInv'
  <1> USE DEF Constants, IInv, pairVars, pipeVars, RetireWorker
  <1>0. worker \in Gen
    BY DEF TypeOK, Locked
  <1>3. /\ closers' \in [End -> Nat] /\ closing' \in [End -> {"none", "running", "ended"}]
        /\ Marked'
    <2>1. CASE /\ wio # 0 /\ closing[<<"wio", wio>>] = "ended"
               /\ CollectClose(<<"wio", wio>>) /\ UNCHANGED <<readers, closers>>
      BY <2>1, Ends DEF TypeOK, Marked, CollectClose
    <2>2. CASE Shutdown(worker, wio # 0) \/ UNCHANGED <<readers, closing, closers>>
      BY <1>0, <2>2, Closing, Ends DEF Shutdown, TypeOK, Marked
    <2> QED
      BY <2>1, <2>2
  <1>4. \/ readers' = readers
        \/ /\ wio = 0 /\ proc[worker] # "dead"
           /\ readers' = [readers EXCEPT ![worker] = @ \cup {"drain"}]
    BY DEF Shutdown, StartDrain
  <1>5. /\ call' \in [Caller -> Call] /\ call'[c].pc = "exitWait" /\ call'[c].w = call[c].w
        /\ \A d \in Caller : d # c => call'[d] = call[d]
        /\ UNCHANGED <<proc, worker, wio, failed, workerLock, health, faults>>
        /\ call[c].pc = "closeWait" /\ workerLock = c
    BY Going DEF Locked
  <1>1. TypeOK' /\ Marked'
    <2>1. readers' \in [Gen -> SUBSET {"drain", "wio"}]
      BY <1>0, <1>4, Draining DEF TypeOK
    <2> QED
      BY <1>3, <1>5, <2>1 DEF TypeOK
  <1>2. Current' /\ Locked' /\ Read' /\ Blamed' /\ FailureIsOwn' /\ HealthIsCurrent'
    <2>1. Read'
      <3>1. \A d \in Caller : call'[d].pc # "handshake"
        BY <1>5 DEF Locked
      <3>2. CASE readers' = readers
        BY <1>5, <3>1, <3>2 DEF Read
      <3>3. CASE /\ wio = 0 /\ proc[worker] # "dead"
                 /\ readers' = [readers EXCEPT ![worker] = @ \cup {"drain"}]
        <4>1. proc[worker] \in {"starting", "alive"}
          BY <1>0, <3>3 DEF TypeOK, Current
        <4> QED
          BY <1>0, <1>5, <3>1, <3>3, <4>1 DEF TypeOK, Read
      <3> QED
        BY <1>4, <3>2, <3>3
    <2>2. Current' /\ HealthIsCurrent'
      BY <1>5 DEF Current, NoOrphan, Running, HealthIsCurrent
    <2>3. Locked' /\ Blamed'
      BY <1>5 DEF Locked, Blamed
    <2>4. FailureIsOwn'
      <3>1. \A d \in Caller : call[d].pc \in {"handshake", "retire"} => call'[d] = call[d]
        BY <1>5
      <3> QED
        BY <1>5, <3>1 DEF FailureIsOwn
    <2> QED
      BY <2>1, <2>2, <2>3, <2>4
  <1> QED
    BY <1>1, <1>2

\* The pipes go with the process.
LEMMA ExitIInv == ASSUME Constants, IInv, NEW g \in Gen, Exit(g)
  PROVE  IInv'
  <1> USE DEF Constants, IInv, pairVars, pipeVars, Exit
  <1>1. TypeOK' /\ Marked'
    BY DEF TypeOK, Marked, Running
  <1>2. Current' /\ Locked' /\ Read' /\ Blamed' /\ FailureIsOwn' /\ HealthIsCurrent'
    BY DEF TypeOK, Current, NoOrphan, Running, Locked, Read, Blamed, FailureIsOwn,
           HealthIsCurrent
  <1> QED
    BY <1>1, <1>2

\* A line that nobody has read.
LEMMA EmitTelemetryIInv == ASSUME Constants, IInv, NEW g \in Gen, EmitTelemetry(g)
  PROVE  IInv'
  <1> USE DEF Constants, IInv, pairVars, pipeVars, EmitTelemetry
  <1>1. TypeOK' /\ Marked'
    BY DEF TypeOK, Marked
  <1>2. Current' /\ Locked' /\ Read' /\ Blamed' /\ FailureIsOwn' /\ HealthIsCurrent'
    BY DEF TypeOK, Current, NoOrphan, Running, Locked, Read, Blamed, FailureIsOwn,
           HealthIsCurrent
  <1> QED
    BY <1>1, <1>2

\* A line is recorded when it is of the current process.
LEMMA ReadStderrIInv == ASSUME Constants, IInv, ReadStderr
  PROVE  IInv'
  <1> USE DEF Constants, IInv, pairVars, pipeVars, ReadStderr
  <1>1. TypeOK' /\ Marked'
    BY DEF TypeOK, Marked
  <1>2. Current' /\ Locked' /\ Read' /\ Blamed' /\ FailureIsOwn' /\ HealthIsCurrent'
    BY DEF TypeOK, Current, NoOrphan, Running, Locked, Read, Blamed, FailureIsOwn,
           HealthIsCurrent
  <1> QED
    BY <1>1, <1>2

\* A close thread takes its mark with it.
LEMMA CloseEndsIInv == ASSUME Constants, IInv, NEW e \in End, CloseEnds(e)
  PROVE  IInv'
  <1> USE DEF Constants, IInv, pairVars, pipeVars, CloseEnds
  <1>1. TypeOK' /\ Marked'
    BY DEF TypeOK, Marked
  <1>2. Current' /\ Locked' /\ Read' /\ Blamed' /\ FailureIsOwn' /\ HealthIsCurrent'
    BY DEF TypeOK, Current, NoOrphan, Running, Locked, Read, Blamed, FailureIsOwn,
           HealthIsCurrent
  <1> QED
    BY <1>1, <1>2

\* A pipe with one mark has one reader.
LEMMA IInvSafe == ASSUME Constants, IInv PROVE AsrWorkerIsSafe
  <1>1. \A g \in Gen : Cardinality(readers[g]) <= 1
    <2> TAKE g \in Gen
    <2>1. readers[g] \in SUBSET {"drain", "wio"} /\ ~({"drain", "wio"} \subseteq readers[g])
      BY DEF IInv, TypeOK, Read
    <2>2. readers[g] = {} \/ readers[g] = {"drain"} \/ readers[g] = {"wio"}
      BY <2>1
    <2>3. Cardinality({"drain"}) = 1 /\ Cardinality({"wio"}) = 1
      BY FS_Singleton
    <2>4. Cardinality({}) = 0
      BY FS_EmptySet
    <2>5. Cardinality(readers[g]) \in {0, 1}
      BY <2>2, <2>3, <2>4
    <2> QED
      BY <2>5
  <1>2. \A e \in End : closers[e] <= 1
    BY DEF IInv, TypeOK, Marked
  <1> QED
    BY <1>1, <1>2 DEF IInv, Current, AsrWorkerIsSafe, WorkerIsOwned,
                    OldLeavesNewAlone, OneOwnerPerPipe

\* It holds at the start.
LEMMA InitIInv == ASSUME Constants, Init PROVE IInv
  BY DEF Constants, Init, IInv, TypeOK, Marked, Current, NoOrphan, Running, Locked, Read, Blamed,
         FailureIsOwn, HealthIsCurrent, Idle, Doing

\* However restarts, failed handshakes, unloads and late failures of old requests
\* interleave, no worker process is lost or shared and none is taken for another.
THEOREM AsrWorkerCorrect == Constants => (Spec => []AsrWorkerIsSafe)
  <1> SUFFICES ASSUME Constants PROVE Spec => []AsrWorkerIsSafe
    OBVIOUS
  <1>1. Init => IInv
    BY InitIInv
  <1>2. IInv /\ [Next]_asrWorkerVars => IInv'
    <2> SUFFICES ASSUME IInv, [Next]_asrWorkerVars
  PROVE  IInv'
      OBVIOUS
    <2>1. CASE UNCHANGED asrWorkerVars
      BY <2>1 DEF asrWorkerVars, IInv, TypeOK, Marked, Current, NoOrphan, Running, Locked, Read,
                  Blamed, FailureIsOwn, HealthIsCurrent
    <2>2. CASE Next
      BY <2>2, UseWorkerIInv, LaunchIInv, HandshakeIInv, HandshakeFailsIInv, RetireFailedIInv,
         SetReadyIInv, AnsweredIInv, RequestFailsIInv, ClearIfCurrentIInv, BeginRestartIInv,
         TakeRestartLockIInv, GiveUpLockIInv, NothingToRestartIInv, CloseWioIInv,
         RetireWorkerIInv, ConfirmExitIInv, KeepSurvivorIInv, ResetHealthIInv, ExitIInv,
         EmitTelemetryIInv, ReadStderrIInv, CloseEndsIInv DEF Next
    <2> QED
      BY <2>1, <2>2
  <1>3. IInv => AsrWorkerIsSafe
    BY IInvSafe
  <1> QED
    BY <1>1, <1>2, <1>3, PTL DEF Spec
=============================================================================
