------------------------------ MODULE WorkerIO ------------------------------
(***************************************************************************)
(* One WorkerIO (voxedge/backends/jetson/worker_io.py): the threads and    *)
(* tasks that send requests to one native worker over its stdin, the       *)
(* reader thread that hands its stdout events to them, the waiters of      *)
(* cancel_and_wait, and close().  The worker process itself is external:   *)
(* it is modelled from how this code and its callers use it.               *)
(*                                                                         *)
(* Request ids are unique, as request() demands, so a request is its       *)
(* client; a waiter w cancels the request Target[w].  A step of a thread   *)
(* is the code up to the next point where another thread can see it: a     *)
(* lock, a queue, the semaphore, a pipe.                                   *)
(***************************************************************************)
EXTENDS Naturals, FiniteSets, Sequences

CONSTANTS
  Sync,        \* requests made with request()
  Async,       \* requests made with send_request()
  Cancellable, \* the sync requests with a cancel_event
  Waiter,      \* calls of cancel_and_wait
  Target,      \* Target[w]: the request w cancels
  None,        \* no request, no waiter
  Concurrency, \* slots of the semaphore, and the cap on waiters
  Leaving,     \* may consumers drop their iterator or be cancelled?
  Mortal,      \* may the worker exit?
  Closing,     \* may close() be called?
  MaxEvents    \* bound: events of a request before its terminal one

Request == Sync \cup Async

ASSUME KindsDisjoint ==
  /\ Sync \cap Async = {} /\ Request \cap Waiter = {}
  /\ None \notin Request \cup Waiter
  /\ Cancellable \subseteq Sync
ASSUME TargetType == Target \in [Waiter -> Request]
ASSUME FiniteClients == IsFiniteSet(Request) /\ IsFiniteSet(Waiter)
ASSUME ConcurrencyType == Concurrency \in Nat \ {0}

VARIABLES
  pc,         \* pc[c]: where the client (a request or a waiter) is
  result,     \* result[c]: how it ended
  seen,       \* seen[r]: non-terminal events request r has yielded
  cancelEv,   \* requests whose cancel_event is set
  cancelSent, \* requests whose cancel_sent is True
  sem,        \* tokens of _sem
  lateAcquire,\* executor threads in _sem.acquire whose task was cancelled
  lost,       \* tokens such threads have taken
  inflight,   \* keys of _inflight
  queue,      \* queue[r]: the Queue of request r
  receipts,   \* waiters whose queue is in _cancel_receipts
  receipt,    \* receipt[w]: that queue, of maxsize 1
  waiters,    \* _cancel_waiter_count
  closed,     \* _closed
  woken,      \* close() has woken everybody
  reader,     \* is the reader thread in its loop?
  hand,       \* the event it has looked up the queues for
  stdin, stdout, \* the pipes
  alive,      \* the worker runs
  job,        \* job[r]: what the worker does with request r
  sent        \* sent[r]: non-terminal events it has written for r

clients == <<pc, result, seen, cancelEv, cancelSent>>
tables  == <<inflight, receipts, waiters>>
queues  == <<queue, receipt>>
life    == <<closed, woken>>
reading == <<reader, hand>>
slots   == <<sem, lateAcquire, lost>>
worker  == <<stdout, alive, job, sent>>
vars    == <<clients, tables, queues, life, reading, slots, stdin, worker>>

RequestPCs == {"start", "acquired", "checked", "registered", "wait", "cancel"}
WaiterPCs  == {"start", "admitted", "wait", "leave"}
Results == {"none", "done", "cancelled", "exit", "timeout", "aborted",
            "refused"}
Jobs == {"unknown", "accepted", "running", "tripped", "done", "cancelled"}

Exit == [id |-> None, kind |-> "_worker_exit"]
Event(r, k) == [id |-> r, kind |-> k]
Idle == [event |-> Exit, q |-> None, rq |-> None]

(* Events: event is any intermediate event, notTripped a cancel_ack with   *)
(* tripped = False.                                                        *)
EventKinds == {"event", "notTripped", "done", "cancelled"}
Events == [id : Request, kind : EventKinds]
Lines  == [id : Request, kind : {"request", "cancel"}]

TypeOK ==
  /\ pc \in [Request \cup Waiter -> RequestPCs \cup WaiterPCs \cup {"end"}]
  /\ result \in [Request \cup Waiter -> Results]
  /\ seen \in [Request -> Nat]
  /\ cancelEv \subseteq Cancellable /\ cancelSent \subseteq Cancellable
  /\ sem \in Nat /\ lateAcquire \in Nat /\ lost \in Nat
  /\ inflight \subseteq Request /\ receipts \subseteq Waiter
  /\ queue \in [Request -> Seq(Events \cup {Exit})]
  /\ receipt \in [Waiter -> Seq(Events \cup {Exit})]
  /\ waiters \in Nat
  /\ closed \in BOOLEAN /\ woken \in BOOLEAN /\ reader \in BOOLEAN
  /\ hand \in [event : Events \cup {Exit}, q : Request \cup {None},
               rq : Waiter \cup {None}]
  /\ stdin \in Seq(Lines) /\ stdout \in Seq(Events)
  /\ alive \in BOOLEAN
  /\ job \in [Request -> Jobs]
  /\ sent \in [Request -> Nat]

Init ==
  /\ pc = [c \in Request \cup Waiter |-> "start"]
  /\ result = [c \in Request \cup Waiter |-> "none"]
  /\ seen = [r \in Request |-> 0]
  /\ cancelEv = {} /\ cancelSent = {}
  /\ sem = Concurrency /\ lateAcquire = 0 /\ lost = 0
  /\ inflight = {} /\ receipts = {} /\ waiters = 0
  /\ queue = [r \in Request |-> <<>>]
  /\ receipt = [w \in Waiter |-> <<>>]
  /\ closed = FALSE /\ woken = FALSE
  /\ reader = TRUE /\ hand = Idle
  /\ stdin = <<>> /\ stdout = <<>>
  /\ alive = TRUE
  /\ job = [r \in Request |-> "unknown"]
  /\ sent = [r \in Request |-> 0]
-----------------------------------------------------------------------------
(* Requests *)

Goto(c, at) ==
  /\ pc' = [pc EXCEPT ![c] = at]
  /\ UNCHANGED result

(* The finally arm: the entry of _inflight goes, the slot is given back.   *)
(* send_request then cancels what has not finished.                        *)
KeepSlot(r, res) ==
  /\ inflight' = inflight \ {r}
  /\ UNCHANGED sem
  /\ result' = [result EXCEPT ![r] = res]
  /\ pc' = [pc EXCEPT ![r] =
              IF r \in Async /\ res \notin {"done", "cancelled"} THEN "cancel"
              ELSE "end"]
Finish(r, res) ==
  /\ inflight' = inflight \ {r}
  /\ sem' = sem + 1
  /\ result' = [result EXCEPT ![r] = res]
  /\ pc' = [pc EXCEPT ![r] =
              IF r \in Async /\ res \notin {"done", "cancelled"} THEN "cancel"
              ELSE "end"]

(* Before its queue is registered send_request has no finally arm. *)
Refuse(r, res) ==
  /\ sem' = sem + 1
  /\ result' = [result EXCEPT ![r] = res]
  /\ pc' = [pc EXCEPT ![r] = "end"]

(* _sem.acquire() *)
AcquireSlot(r) ==
  /\ pc[r] = "start"
  /\ sem > 0
  /\ sem' = sem - 1
  /\ Goto(r, "acquired")
  /\ UNCHANGED <<seen, cancelEv, cancelSent, tables, queues, life, reading,
                 lateAcquire, lost, stdin, worker>>

(* With a cancel_event the acquire is a poll: a request cancelled while it *)
(* waits gives up.                                                         *)
GiveUpSlot(r) ==
  /\ pc[r] = "start" /\ r \in cancelEv
  /\ sem = 0
  /\ result' = [result EXCEPT ![r] = "aborted"]
  /\ pc' = [pc EXCEPT ![r] = "end"]
  /\ UNCHANGED <<seen, cancelEv, cancelSent, tables, queues, life, reading,
                 slots, stdin, worker>>

(* With the slot: closed, or cancelled meanwhile? *)
CheckSlot(r) ==
  /\ pc[r] = "acquired"
  /\ \/ closed /\ Refuse(r, "exit")
     \/ ~closed /\ r \in cancelEv /\ Refuse(r, "aborted")
     \/ ~closed /\ r \notin cancelEv /\ Goto(r, "checked") /\ UNCHANGED sem
  /\ UNCHANGED <<seen, cancelEv, cancelSent, tables, queues, life, reading,
                 lateAcquire, lost, stdin, worker>>

(* The queue is registered before the payload is written. *)
Register(r) ==
  /\ pc[r] = "checked"
  /\ inflight' = inflight \cup {r}
  /\ Goto(r, "registered")
  /\ UNCHANGED <<seen, cancelEv, cancelSent, receipts, waiters, queues, life,
                 reading, slots, stdin, worker>>

(* A write to the pipe of a dead worker raises. *)
MayWriteUnchecked == alive
MayWrite == ~closed /\ alive

(* The line is written under _stdin_lock, after another look at _closed.   *)
WriteRequest(r) ==
  /\ pc[r] = "registered"
  /\ \/ /\ MayWrite
        /\ stdin' = Append(stdin, [id |-> r, kind |-> "request"])
        /\ Goto(r, "wait")
        /\ UNCHANGED <<sem, inflight>>
     \/ /\ ~MayWrite
        /\ Finish(r, "exit")
        /\ UNCHANGED stdin
  /\ UNCHANGED <<seen, cancelEv, cancelSent, receipts, waiters, queues, life,
                 reading, lateAcquire, lost, worker>>

(* WorkerIO.cancel: best effort *)
CancelLine(r) ==
  stdin' = IF MayWrite THEN Append(stdin, [id |-> r, kind |-> "cancel"])
           ELSE stdin

(* The loop of request() finds its cancel_event set. *)
SendCancel(r) ==
  /\ pc[r] = "wait" /\ r \in cancelEv \ cancelSent
  /\ CancelLine(r)
  /\ cancelSent' = cancelSent \cup {r}
  /\ UNCHANGED <<pc, result, seen, cancelEv, tables, queues, life, reading,
                 slots, worker>>

(* A cancel_ack that tripped nothing makes the loop cancel again. *)
CancelOnce(r) == cancelSent
Resend(r) == IF r \in cancelEv THEN cancelSent \ {r} ELSE cancelSent

(* q.get: the next event is yielded, and ends the request if terminal. *)
Receive(r) ==
  /\ pc[r] = "wait" /\ queue[r] # <<>>
  /\ LET kind == Head(queue[r]).kind IN
     \/ /\ kind = "_worker_exit"
        /\ Finish(r, "exit")
        /\ UNCHANGED <<seen, cancelSent>>
     \/ /\ kind \in {"done", "cancelled"}
        /\ Finish(r, kind)
        /\ UNCHANGED <<seen, cancelSent>>
     \/ /\ kind = "event"
        /\ seen' = [seen EXCEPT ![r] = @ + 1]
        /\ UNCHANGED <<pc, result, cancelSent, inflight, sem>>
     \/ /\ kind = "notTripped"
        /\ cancelSent' = Resend(r)
        /\ UNCHANGED <<pc, result, seen, inflight, sem>>
  /\ queue' = [queue EXCEPT ![r] = Tail(@)]
  /\ UNCHANGED <<cancelEv, receipts, waiters, receipt, life, reading,
                 lateAcquire, lost, stdin, worker>>

(* 60 s without an event. *)
TimeOut(r) ==
  /\ pc[r] = "wait" /\ queue[r] = <<>>
  /\ Finish(r, "timeout")
  /\ UNCHANGED <<seen, cancelEv, cancelSent, receipts, waiters, queues, life,
                 reading, lateAcquire, lost, stdin, worker>>

(* The consumer closes the generator at a yield, or the task iterating     *)
(* send_request is cancelled at q.get.                                     *)
Drop(r) ==
  /\ Leaving
  /\ pc[r] = "wait" /\ (r \in Async \/ seen[r] > 0)
  /\ Finish(r, "aborted")
  /\ UNCHANGED <<seen, cancelEv, cancelSent, receipts, waiters, queues, life,
                 reading, lateAcquire, lost, stdin, worker>>

(* The cancel that ends an unfinished send_request. *)
CancelDropped(r) ==
  /\ pc[r] = "cancel"
  /\ CancelLine(r)
  /\ Goto(r, "end")
  /\ UNCHANGED <<seen, cancelEv, cancelSent, tables, queues, life, reading,
                 slots, worker>>

(* The task is cancelled while an executor thread is in _sem.acquire for   *)
(* it.  That cancels the asyncio future too, so the done-callback finds a  *)
(* cancelled future and releases nothing.                                  *)
DropAcquire(r) ==
  /\ Leaving
  /\ r \in Async /\ pc[r] = "start"
  /\ lateAcquire' = lateAcquire + 1
  /\ result' = [result EXCEPT ![r] = "aborted"]
  /\ pc' = [pc EXCEPT ![r] = "end"]
  /\ UNCHANGED <<seen, cancelEv, cancelSent, tables, queues, life, reading,
                 sem, lost, stdin, worker>>

LateAcquire ==
  /\ lateAcquire > 0 /\ sem > 0
  /\ lateAcquire' = lateAcquire - 1
  /\ sem' = sem - 1
  /\ lost' = lost + 1
  /\ UNCHANGED <<clients, tables, queues, life, reading, stdin, worker>>

(* The caller's side sets the cancel_event. *)
SetCancel(r) ==
  /\ r \in Cancellable \ cancelEv
  /\ pc[r] # "end"
  /\ cancelEv' = cancelEv \cup {r}
  /\ UNCHANGED <<pc, result, seen, cancelSent, tables, queues, life, reading,
                 slots, stdin, worker>>
-----------------------------------------------------------------------------
(* cancel_and_wait *)

(* One waiter an id, Concurrency waiters in all. *)
NoCap(w) == \A v \in receipts : Target[v] # Target[w]
Admissible(w) ==
  /\ \A v \in receipts : Target[v] # Target[w]
  /\ waiters < Concurrency

Admit(w) ==
  /\ pc[w] = "start"
  /\ \/ /\ closed \/ ~Admissible(w)
        /\ result' = [result EXCEPT ![w] = IF closed THEN "exit" ELSE "refused"]
        /\ pc' = [pc EXCEPT ![w] = "end"]
        /\ UNCHANGED <<receipts, waiters>>
     \/ /\ ~closed /\ Admissible(w)
        /\ receipts' = receipts \cup {w}
        /\ waiters' = waiters + 1
        /\ Goto(w, "admitted")
  /\ UNCHANGED <<seen, cancelEv, cancelSent, inflight, queues, life, reading,
                 slots, stdin, worker>>

(* The cancel line is written under the deadline: the stdin lock may come  *)
(* too late (nothing is written), the write may take too long.             *)
WriteCancel(w) ==
  /\ pc[w] = "admitted"
  /\ \/ /\ ~MayWrite
        /\ result' = [result EXCEPT ![w] = "exit"]
        /\ pc' = [pc EXCEPT ![w] = "leave"]
        /\ UNCHANGED stdin
     \/ /\ result' = [result EXCEPT ![w] = "timeout"]
        /\ pc' = [pc EXCEPT ![w] = "leave"]
        /\ UNCHANGED stdin \/ (MayWrite /\ CancelLine(Target[w]))
     \/ /\ MayWrite
        /\ CancelLine(Target[w])
        /\ Goto(w, "wait")
  /\ UNCHANGED <<seen, cancelEv, cancelSent, tables, queues, life, reading,
                 slots, worker>>

(* receipt_q.get: only the terminal event satisfies the wait. *)
AnyReceipt(w) == "cancelled"
Outcome(w) ==
  IF Head(receipt[w]).kind = "cancelled" THEN "cancelled" ELSE "exit"

GetReceipt(w) ==
  /\ pc[w] = "wait" /\ receipt[w] # <<>>
  /\ result' = [result EXCEPT ![w] = Outcome(w)]
  /\ receipt' = [receipt EXCEPT ![w] = Tail(@)]
  /\ pc' = [pc EXCEPT ![w] = "leave"]
  /\ UNCHANGED <<seen, cancelEv, cancelSent, tables, queue, life, reading,
                 slots, stdin, worker>>

(* The deadline; a receipt after it does not count. *)
ReceiptTimeOut(w) ==
  /\ pc[w] = "wait"
  /\ result' = [result EXCEPT ![w] = "timeout"]
  /\ pc' = [pc EXCEPT ![w] = "leave"]
  /\ UNCHANGED <<seen, cancelEv, cancelSent, tables, queues, life, reading,
                 slots, stdin, worker>>

(* The finally arm pops the entry of the id, whose ever it is. *)
Leave(w) ==
  /\ pc[w] = "leave"
  /\ receipts' = {v \in receipts : Target[v] # Target[w]}
  /\ waiters' = waiters - 1
  /\ Goto(w, "end")
  /\ UNCHANGED <<seen, cancelEv, cancelSent, inflight, queues, life, reading,
                 slots, stdin, worker>>
-----------------------------------------------------------------------------
(* close() *)

CloseFlag ==
  /\ Closing /\ ~closed
  /\ closed' = TRUE
  /\ UNCHANGED <<clients, tables, queues, woken, reading, slots, stdin, worker>>

(* _offer_receipt: the first entry of a receipt queue is kept. *)
Offered(rq, e) == IF rq = <<>> THEN <<e>> ELSE rq

(* The queue of a request keeps everything, in order. *)
Put(q, e) == Append(q, e)

(* Everybody registered gets _worker_exit, the tables are cleared. *)
WakeRequests ==
  /\ queue' = [r \in Request |->
                 IF r \in inflight THEN Put(queue[r], Exit) ELSE queue[r]]
  /\ inflight' = {} /\ receipts' = {}
  /\ UNCHANGED <<receipt, waiters>>
WakeAll ==
  /\ queue' = [r \in Request |->
                 IF r \in inflight THEN Put(queue[r], Exit) ELSE queue[r]]
  /\ receipt' = [w \in Waiter |->
                   IF w \in receipts THEN Offered(receipt[w], Exit)
                   ELSE receipt[w]]
  /\ inflight' = {} /\ receipts' = {}
  /\ UNCHANGED waiters

CloseWake ==
  /\ closed /\ ~woken
  /\ woken' = TRUE
  /\ WakeAll
  /\ UNCHANGED <<clients, closed, reading, slots, stdin, worker>>
-----------------------------------------------------------------------------
(* The reader thread *)

(* The queues of an event are looked up under _inflight_lock ... *)
ReadEvent ==
  /\ reader /\ hand = Idle /\ stdout # <<>>
  /\ LET e == Head(stdout) IN
     \E rq \in Waiter \cup {None} :
       /\ IF e.kind = "cancelled" /\ \E w \in receipts : Target[w] = e.id
          THEN rq \in receipts /\ Target[rq] = e.id
          ELSE rq = None
       /\ hand' = [event |-> e, rq |-> rq,
                   q |-> IF e.id \in inflight THEN e.id ELSE None]
  /\ stdout' = Tail(stdout)
  /\ UNCHANGED <<clients, tables, queues, life, reader, slots, stdin, alive,
                 job, sent>>

(* Mutant of Dispatch: a queue of bounded size drops what finds it full. *)
DispatchFull ==
  /\ hand # Idle
  /\ queue' = [r \in Request |->
                 IF r = hand.q /\ queue[r] = <<>> THEN <<hand.event>>
                                                  ELSE queue[r]]
  /\ receipt' = [w \in Waiter |->
                   IF w = hand.rq THEN Offered(receipt[w], hand.event)
                   ELSE receipt[w]]
  /\ hand' = Idle
  /\ UNCHANGED <<clients, tables, life, reader, slots, stdin, worker>>

(* ... and it is put on them without it. *)
Dispatch ==
  /\ hand # Idle
  /\ queue' = [r \in Request |->
                 IF r = hand.q THEN Put(queue[r], hand.event) ELSE queue[r]]
  /\ receipt' = [w \in Waiter |->
                   IF w = hand.rq THEN Offered(receipt[w], hand.event)
                   ELSE receipt[w]]
  /\ hand' = Idle
  /\ UNCHANGED <<clients, tables, life, reader, slots, stdin, worker>>

(* stdout is at its end. *)
ReadEOF ==
  /\ reader /\ hand = Idle /\ stdout = <<>> /\ ~alive
  /\ reader' = FALSE
  /\ WakeAll
  /\ UNCHANGED <<clients, life, hand, slots, stdin, worker>>
-----------------------------------------------------------------------------
(* The worker *)

Emit(r, k) == stdout' = Append(stdout, Event(r, k))

(* A request is accepted, and registered with its own thread later; a      *)
(* cancel in between trips nothing, one for a request it does not know is  *)
(* dropped.                                                                *)
WorkerRead ==
  /\ alive /\ stdin # <<>>
  /\ stdin' = Tail(stdin)
  /\ LET line == Head(stdin) IN
     \/ /\ line.kind = "request"
        /\ job' = [job EXCEPT ![line.id] = "accepted"]
        /\ UNCHANGED stdout
     \/ /\ line.kind = "cancel" /\ job[line.id] = "accepted"
        /\ Emit(line.id, "notTripped")
        /\ UNCHANGED job
     \/ /\ line.kind = "cancel" /\ job[line.id] = "running"
        /\ job' = [job EXCEPT ![line.id] = "tripped"]
        /\ UNCHANGED stdout
     \/ /\ line.kind = "cancel"
        /\ job[line.id] \in {"unknown", "tripped", "done", "cancelled"}
        /\ UNCHANGED <<job, stdout>>
  /\ UNCHANGED <<clients, tables, queues, life, reading, slots, alive, sent>>

WorkerStart(r) ==
  /\ alive /\ job[r] = "accepted"
  /\ job' = [job EXCEPT ![r] = "running"]
  /\ UNCHANGED <<clients, tables, queues, life, reading, slots, stdin, stdout,
                 alive, sent>>

WorkerEmit(r) ==
  /\ alive /\ job[r] = "running" /\ sent[r] < MaxEvents
  /\ Emit(r, "event")
  /\ sent' = [sent EXCEPT ![r] = @ + 1]
  /\ UNCHANGED <<clients, tables, queues, life, reading, slots, stdin, alive,
                 job>>

WorkerDone(r) ==
  /\ alive /\ job[r] \in {"running", "tripped"}
  /\ Emit(r, "done")
  /\ job' = [job EXCEPT ![r] = "done"]
  /\ UNCHANGED <<clients, tables, queues, life, reading, slots, stdin, alive,
                 sent>>

WorkerCancelled(r) ==
  /\ alive /\ job[r] = "tripped"
  /\ Emit(r, "cancelled")
  /\ job' = [job EXCEPT ![r] = "cancelled"]
  /\ UNCHANGED <<clients, tables, queues, life, reading, slots, stdin, alive,
                 sent>>

WorkerExits ==
  /\ Mortal /\ alive
  /\ alive' = FALSE
  /\ UNCHANGED <<clients, tables, queues, life, reading, slots, stdin, stdout,
                 job, sent>>
-----------------------------------------------------------------------------
RequestStep(r) ==
  \/ AcquireSlot(r) \/ GiveUpSlot(r) \/ CheckSlot(r) \/ Register(r)
  \/ WriteRequest(r) \/ SendCancel(r) \/ Receive(r) \/ CancelDropped(r)

RequestNext(r) ==
  \/ RequestStep(r)
  \/ TimeOut(r) \/ Drop(r) \/ DropAcquire(r) \/ SetCancel(r)

WaiterStep(w) == Admit(w) \/ WriteCancel(w) \/ GetReceipt(w) \/ Leave(w)

WaiterNext(w) == WaiterStep(w) \/ ReceiptTimeOut(w)

ReaderStep == ReadEvent \/ Dispatch \/ ReadEOF

WorkerNext ==
  \/ WorkerRead \/ WorkerExits
  \/ \E r \in Request : \/ WorkerStart(r) \/ WorkerEmit(r)
                        \/ WorkerDone(r) \/ WorkerCancelled(r)

Next ==
  \/ \E r \in Request : RequestNext(r)
  \/ \E w \in Waiter : WaiterNext(w)
  \/ LateAcquire
  \/ CloseFlag \/ CloseWake
  \/ ReaderStep
  \/ WorkerNext

Spec == Init /\ [][Next]_vars
-----------------------------------------------------------------------------
(* Properties *)

(* A token is with the semaphore, with a request that will give it back,   *)
(* or lost to a thread whose task was cancelled: never two of these.       *)
Holding == {r \in Request :
              pc[r] \in {"acquired", "checked", "registered", "wait"}}

SlotsConserved == sem + Cardinality(Holding) + lost = Concurrency

(* The comment of send_request: the token of a task cancelled in the       *)
(* acquire goes back to the pool, so the slots are complete once nothing   *)
(* is under way.                                                           *)
LateTokenReturned ==
  lateAcquire = 0 /\ Holding = {} => sem = Concurrency

(* Nothing is written to the worker after close() has set its flag, by a   *)
(* request, a waiter or a cancel that was already on its way.              *)
QuietAfterClose == [][closed => Len(stdin') <= Len(stdin)]_stdin

(* Nobody waits on a queue that will stay empty. *)
NobodySleeps ==
  /\ \A r \in Request : pc[r] = "wait" => \E i \in DOMAIN queue[r] : queue[r][i] = Exit
  /\ \A w \in Waiter : pc[w] = "wait" => receipt[w] # <<>>

(* After close(), and when the worker is gone and the reader has ended,    *)
(* nobody sleeps, however the registrations interleaved with either.       *)
EverybodyWoken == woken \/ ~reader => NobodySleeps

(* A request that ends with done has yielded every event the worker wrote  *)
(* for it: no event comes before the queue it belongs on.                  *)
DoneIsComplete == \A r \in Request : result[r] = "done" => seen[r] = sent[r]

(* cancel_and_wait returns a receipt only when the worker did cancel the   *)
(* request: it is never fabricated, not even when close() or the end of    *)
(* the worker races the terminal event.                                    *)
ReceiptIsReal ==
  \A w \in Waiter :
    result[w] = "cancelled" => job[Target[w]] = "cancelled"

(* While the worker is up a waiter keeps its place in the table until it   *)
(* has a receipt or leaves by itself, and the cap counts it.               *)
WaiterKeepsPlace ==
  /\ waiters = Cardinality({w \in Waiter :
                              pc[w] \in {"admitted", "wait", "leave"}})
  /\ waiters <= Concurrency
  /\ reader /\ ~woken =>
       receipts = {w \in Waiter : pc[w] \in {"admitted", "wait", "leave"}}

-----------------------------------------------------------------------------
(* Fairness.  Threads are scheduled; a thread waiting for a token of the   *)
(* semaphore that comes free again and again gets one.                     *)
ThreadFairness ==
  /\ \A r \in Request : WF_vars(RequestStep(r)) /\ SF_vars(AcquireSlot(r))
                        /\ WF_vars(SendCancel(r))
  /\ \A w \in Waiter : WF_vars(WaiterStep(w))
  /\ WF_vars(ReaderStep)
  /\ WF_vars(CloseWake)

(* The worker reads its input, starts what it accepts and stops what it is *)
(* told to; it need not finish a request by itself.                        *)
WorkerFairness ==
  /\ WF_vars(WorkerRead)
  /\ \A r \in Request : WF_vars(WorkerStart(r)) /\ WF_vars(WorkerCancelled(r))

ThreadSpec == Spec /\ ThreadFairness

(* A request whose cancel_event is set ends, although a cancel line may    *)
(* reach the worker before it has registered the request, and although no  *)
(* request need finish by itself.                                          *)
CancelEventEnds ==
  WorkerFairness => \A r \in Cancellable : r \in cancelEv ~> pc[r] = "end"

(* After close() every request and waiter ends, whatever the worker does.  *)
CloseEndsAll ==
  closed ~> \A c \in Request \cup Waiter : pc[c] = "end"
=============================================================================
