--------------------------- MODULE WorkerIOProofs ---------------------------
(***************************************************************************)
(* Theorems about WorkerIO, for every set of requests and waiters and every *)
(* number of slots: slots are conserved, waiters counted, nothing is       *)
(* written after close(), close() and the end of the worker wake           *)
(* everybody, no event of a request is lost before its done, and no        *)
(* receipt of a cancel is made up.                                         *)
(***************************************************************************)
EXTENDS WorkerIO, FiniteSetTheorems, FunctionTheorems, TLAPS

\* The waiters the cap counts.
Counted == {w \in Waiter : pc[w] \in {"admitted", "wait", "leave"}}

HasExit(q) == \E i \in DOMAIN q : q[i] = Exit

\* While nobody has been woken, whoever may come to wait is in its table.
InTables ==
  reader /\ ~woken =>
    \A r \in Request : pc[r] \in {"registered", "wait"} => r \in inflight

\* Once everybody has been woken nobody writes a line any more, and so nobody
\* begins to wait.
NobodyWrites == (woken => closed) /\ (~reader => ~alive)

\* A receipt is somebody's alone.
OneWaiterPerId == \A v, w \in receipts : Target[v] = Target[w] => v = w

\* The inductive invariant.
IInv ==
  /\ TypeOK /\ SlotsConserved /\ WaiterKeepsPlace
  /\ InTables /\ NobodyWrites /\ OneWaiterPerId /\ EverybodyWoken

\* A waiter that leaves has been counted.
LEMMA LeaverCounted ==
  ASSUME TypeOK, WaiterKeepsPlace, NEW w \in Waiter, pc[w] = "leave"
  PROVE  waiters > 0
  <1>1. IsFiniteSet(Counted) /\ w \in Counted
    BY FiniteClients, FS_Subset DEF Counted
  <1>2. Cardinality(Counted) \in Nat /\ Cardinality(Counted) # 0
    BY <1>1, FS_CardinalityType, FS_EmptySet
  <1> QED
    BY <1>2 DEF WaiterKeepsPlace, Counted, TypeOK

\* A cancel line has the type of a line.
LEMMA CancelLineType ==
  ASSUME TypeOK, NEW r \in Request, CancelLine(r)
  PROVE  stdin' \in Seq(Lines)
  <1>1. [id |-> r, kind |-> "cancel"] \in Lines
    BY DEF Lines
  <1>2. stdin \in Seq(Lines) /\ Append(stdin, [id |-> r, kind |-> "cancel"]) \in Seq(Lines)
    BY <1>1 DEF TypeOK
  <1> QED
    BY <1>2 DEF CancelLine

\* What is put on a queue keeps its type.
LEMMA PutType ==
  ASSUME NEW e \in Events \cup {Exit}, NEW q \in Seq(Events \cup {Exit})
  PROVE  Put(q, e) \in Seq(Events \cup {Exit}) /\ Offered(q, e) \in Seq(Events \cup {Exit})
  <1>1. Put(q, e) \in Seq(Events \cup {Exit})
    BY DEF Put
  <1>2. <<e>> \in Seq(Events \cup {Exit})
    OBVIOUS
  <1>3. Offered(q, e) = <<e>> \/ Offered(q, e) = q
    BY DEF Offered
  <1> QED
    BY <1>1, <1>2, <1>3

\* An event written to stdout, too.
LEMMA EmitType ==
  ASSUME TypeOK, NEW r \in Request, NEW k \in EventKinds, Emit(r, k)
  PROVE  stdout' \in Seq(Events)
  <1>1. Event(r, k) \in Events /\ stdout \in Seq(Events)
    BY DEF Event, Events, TypeOK
  <1>2. Append(stdout, Event(r, k)) \in Seq(Events)
    BY <1>1
  <1> QED
    BY <1>2 DEF Emit

\* Waking everybody keeps the type of the queues.
LEMMA WakeAllType ==
  ASSUME TypeOK, WakeAll
  PROVE  /\ queue' \in [Request -> Seq(Events \cup {Exit})]
         /\ receipt' \in [Waiter -> Seq(Events \cup {Exit})]
         /\ inflight' = {} /\ receipts' = {} /\ waiters' = waiters
  <1>1. \A r \in Request : Put(queue[r], Exit) \in Seq(Events \cup {Exit})
    BY PutType DEF TypeOK
  <1>2. \A w \in Waiter : Offered(receipt[w], Exit) \in Seq(Events \cup {Exit})
    BY PutType DEF TypeOK
  <1> QED
    BY <1>1, <1>2 DEF WakeAll, TypeOK

\* The finally arm keeps the types.
LEMMA FinishType ==
  ASSUME TypeOK, NEW r \in Request, NEW res \in Results, Finish(r, res)
  PROVE  /\ sem' \in Nat /\ inflight' \subseteq Request
         /\ result' \in [Request \cup Waiter -> Results]
         /\ pc' \in [Request \cup Waiter -> RequestPCs \cup WaiterPCs \cup {"end"}]
  <1>1. sem' \in Nat /\ inflight' \subseteq Request
    BY DEF Finish, TypeOK
  <1>2. result' \in [Request \cup Waiter -> Results]
    BY DEF Finish, TypeOK
  <1>3. pc' \in [Request \cup Waiter -> RequestPCs \cup WaiterPCs \cup {"end"}]
    BY DEF Finish, TypeOK, RequestPCs
  <1> QED
    BY <1>1, <1>2, <1>3

\* The steps of a request keep the types.
LEMMA RequestType ==
  ASSUME TypeOK, NEW r \in Request, RequestNext(r)
  PROVE  TypeOK'
  <1> USE DEF TypeOK, RequestPCs, WaiterPCs, Results, clients, tables, queues, life, reading, slots,
              worker
  <1>1. CASE AcquireSlot(r)
    BY <1>1 DEF AcquireSlot, Goto
  <1>2. CASE GiveUpSlot(r)
    BY <1>2 DEF GiveUpSlot
  <1>3. CASE CheckSlot(r)
    <2>1. ASSUME NEW res \in {"exit", "aborted"}, Refuse(r, res) PROVE TypeOK'
      <3>1. sem' \in Nat /\ result' \in [Request \cup Waiter -> Results]
        BY <2>1 DEF Refuse
      <3>2. pc' \in [Request \cup Waiter -> RequestPCs \cup WaiterPCs \cup {"end"}]
        BY <2>1 DEF Refuse
      <3> QED
        BY <1>3, <3>1, <3>2 DEF CheckSlot
    <2>2. CASE Goto(r, "checked") /\ UNCHANGED sem
      BY <1>3, <2>2 DEF CheckSlot, Goto
    <2> QED
      BY <1>3, <2>1, <2>2 DEF CheckSlot
  <1>4. CASE Register(r)
    BY <1>4 DEF Register, Goto
  <1>5. CASE WriteRequest(r)
    <2>1. CASE MayWrite
      <3>1. [id |-> r, kind |-> "request"] \in Lines
        BY DEF Lines
      <3>2. stdin' \in Seq(Lines) /\ Goto(r, "wait") /\ UNCHANGED <<sem, inflight>>
        <4>1. /\ stdin' = Append(stdin, [id |-> r, kind |-> "request"])
              /\ Goto(r, "wait") /\ UNCHANGED <<sem, inflight>>
          BY <1>5, <2>1 DEF WriteRequest
        <4>2. Append(stdin, [id |-> r, kind |-> "request"]) \in Seq(Lines)
          BY <3>1
        <4> QED
          BY <4>1, <4>2
      <3> QED
        BY <1>5, <3>2 DEF WriteRequest, Goto
    <2>2. CASE ~MayWrite
      <3>1. Finish(r, "exit") /\ UNCHANGED stdin
        BY <1>5, <2>2 DEF WriteRequest
      <3> QED
        BY <1>5, <3>1, FinishType DEF WriteRequest
    <2> QED
      BY <2>1, <2>2
  <1>6. CASE SendCancel(r)
    <2>1. stdin' \in Seq(Lines)
      BY <1>6, CancelLineType DEF SendCancel
    <2> QED
      BY <1>6, <2>1 DEF SendCancel
  <1>7. CASE Receive(r)
    <2>1. queue' \in [Request -> Seq(Events \cup {Exit})]
      BY <1>7 DEF Receive
    <2>2. /\ UNCHANGED <<cancelEv, receipts, waiters, receipt, life, reading, lateAcquire, lost,
                        stdin, worker>>
          /\ \/ Finish(r, "exit") /\ UNCHANGED <<seen, cancelSent>>
             \/ \E kind \in {"done", "cancelled"} : Finish(r, kind) /\ UNCHANGED <<seen, cancelSent>>
             \/ /\ seen' = [seen EXCEPT ![r] = @ + 1]
                /\ UNCHANGED <<pc, result, cancelSent, inflight, sem>>
             \/ cancelSent' = Resend(r) /\ UNCHANGED <<pc, result, seen, inflight, sem>>
      BY <1>7 DEF Receive
    <2>3. CASE \E kind \in {"exit", "done", "cancelled"} : Finish(r, kind) /\ UNCHANGED <<seen, cancelSent>>
      <3>1. /\ sem' \in Nat /\ inflight' \subseteq Request
            /\ result' \in [Request \cup Waiter -> Results]
            /\ pc' \in [Request \cup Waiter -> RequestPCs \cup WaiterPCs \cup {"end"}]
        BY <2>3, FinishType
      <3> QED
        BY <2>1, <2>2, <2>3, <3>1
    <2>4. CASE /\ seen' = [seen EXCEPT ![r] = @ + 1]
               /\ UNCHANGED <<pc, result, cancelSent, inflight, sem>>
      <3>1. seen' \in [Request -> Nat]
        BY <2>4
      <3> QED
        BY <2>1, <2>2, <2>4, <3>1
    <2>5. CASE cancelSent' = Resend(r) /\ UNCHANGED <<pc, result, seen, inflight, sem>>
      BY <2>1, <2>2, <2>5 DEF Resend
    <2> QED
      BY <2>2, <2>3, <2>4, <2>5
  <1>8. CASE CancelDropped(r)
    <2>1. stdin' \in Seq(Lines)
      BY <1>8, CancelLineType DEF CancelDropped
    <2> QED
      BY <1>8, <2>1 DEF CancelDropped, Goto
  <1>9. CASE TimeOut(r)
    BY <1>9, FinishType DEF TimeOut
  <1>10. CASE Drop(r)
    BY <1>10, FinishType DEF Drop
  <1>11. CASE DropAcquire(r)
    BY <1>11 DEF DropAcquire
  <1>12. CASE SetCancel(r)
    BY <1>12 DEF SetCancel
  <1> QED
    BY <1>1, <1>2, <1>3, <1>4, <1>5, <1>6, <1>7, <1>8, <1>9, <1>10, <1>11, <1>12
       DEF RequestNext, RequestStep

\* So do those of a waiter.
LEMMA WaiterType ==
  ASSUME TypeOK, WaiterKeepsPlace, NEW w \in Waiter, WaiterNext(w)
  PROVE  TypeOK'
  <1>0. Target[w] \in Request
    BY TargetType
  <1> USE DEF TypeOK, RequestPCs, WaiterPCs, Results, clients, tables, queues, life, reading, slots,
              worker
  <1>1. CASE Admit(w)
    <2>1. CASE Goto(w, "admitted") /\ receipts' = receipts \cup {w} /\ waiters' = waiters + 1
      BY <1>1, <2>1 DEF Admit, Goto
    <2>2. CASE UNCHANGED <<receipts, waiters>>
      <3>1. PICK res \in {"exit", "refused"} :
               /\ result' = [result EXCEPT ![w] = res] /\ pc' = [pc EXCEPT ![w] = "end"]
        BY <1>1, <2>2 DEF Admit
      <3> QED
        BY <1>1, <2>2, <3>1 DEF Admit
    <2> QED
      BY <1>1, <2>1, <2>2 DEF Admit
  <1>2. CASE WriteCancel(w)
    <2>1. stdin' \in Seq(Lines)
      BY <1>0, <1>2, CancelLineType DEF WriteCancel
    <2> QED
      <3>1. /\ result' \in [Request \cup Waiter -> Results]
            /\ pc' \in [Request \cup Waiter -> RequestPCs \cup WaiterPCs \cup {"end"}]
        <4>1. PICK at \in {"leave", "wait"}, res \in Results :
                 pc' = [pc EXCEPT ![w] = at] /\ (result' = result \/ result' = [result EXCEPT ![w] = res])
          BY <1>2 DEF WriteCancel, Goto
        <4> QED
          BY <4>1
      <3>2. UNCHANGED <<seen, cancelEv, cancelSent, tables, queues, life, reading, slots, worker>>
        BY <1>2 DEF WriteCancel
      <3> QED
        BY <2>1, <3>1, <3>2
  <1>3. CASE GetReceipt(w)
    <2>1. receipt' \in [Waiter -> Seq(Events \cup {Exit})]
      BY <1>3 DEF GetReceipt
    <2> QED
      BY <1>3, <2>1 DEF GetReceipt, Outcome
  <1>4. CASE Leave(w)
    <2>1. waiters' \in Nat
      BY <1>4, LeaverCounted DEF Leave
    <2> QED
      BY <1>4, <2>1 DEF Leave, Goto
  <1>5. CASE ReceiptTimeOut(w)
    BY <1>5 DEF ReceiptTimeOut
  <1> QED
    BY <1>1, <1>2, <1>3, <1>4, <1>5 DEF WaiterNext, WaiterStep

\* And the rest.
LEMMA OtherType ==
  ASSUME TypeOK, LateAcquire \/ CloseFlag \/ CloseWake \/ ReaderStep \/ WorkerNext \/ UNCHANGED vars
  PROVE  TypeOK'
  <1> USE DEF TypeOK, clients, tables, queues, life, reading, slots, worker
  <1>1. CASE LateAcquire
    BY <1>1 DEF LateAcquire
  <1>2. CASE CloseFlag
    BY <1>2 DEF CloseFlag
  <1>3. CASE CloseWake
    BY <1>3, WakeAllType DEF CloseWake
  <1>4. CASE ReadEvent
    <2>1. Head(stdout) \in Events /\ stdout' \in Seq(Events)
      BY <1>4 DEF ReadEvent
    <2>2. PICK rq \in Waiter \cup {None} :
             hand' = [event |-> Head(stdout), rq |-> rq,
                      q |-> IF Head(stdout).id \in inflight THEN Head(stdout).id ELSE None]
      BY <1>4 DEF ReadEvent
    <2> QED
      BY <1>4, <2>1, <2>2 DEF ReadEvent
  <1>5. CASE Dispatch
    <2>1. /\ queue' \in [Request -> Seq(Events \cup {Exit})]
          /\ receipt' \in [Waiter -> Seq(Events \cup {Exit})]
      <3>1. \A r \in Request : Put(queue[r], hand.event) \in Seq(Events \cup {Exit})
        BY PutType
      <3>2. \A w \in Waiter : Offered(receipt[w], hand.event) \in Seq(Events \cup {Exit})
        BY PutType
      <3> QED
        BY <1>5, <3>1, <3>2 DEF Dispatch
    <2>2. Idle \in [event : Events \cup {Exit}, q : Request \cup {None}, rq : Waiter \cup {None}]
      BY DEF Idle
    <2> QED
      BY <1>5, <2>1, <2>2 DEF Dispatch
  <1>6. CASE ReadEOF
    BY <1>6, WakeAllType DEF ReadEOF
  <1>7. CASE WorkerRead
    <2>1. Head(stdin) \in Lines /\ stdin' \in Seq(Lines)
      BY <1>7 DEF WorkerRead
    <2>2. Head(stdin).id \in Request
      BY <2>1 DEF Lines
    <2>3. stdout' \in Seq(Events)
      <3>1. CASE Emit(Head(stdin).id, "notTripped")
        BY <2>2, <3>1, EmitType DEF EventKinds
      <3>2. CASE stdout' = stdout
        BY <3>2
      <3> QED
        BY <1>7, <3>1, <3>2 DEF WorkerRead
    <2>4. job' \in [Request -> Jobs]
      BY <1>7, <2>2 DEF WorkerRead, Jobs
    <2> QED
      BY <1>7, <2>1, <2>3, <2>4 DEF WorkerRead
  <1>8. CASE WorkerExits
    BY <1>8 DEF WorkerExits
  <1>9. ASSUME NEW r \in Request, WorkerStart(r) \/ WorkerEmit(r) \/ WorkerDone(r) \/ WorkerCancelled(r)
        PROVE  TypeOK'
    <2>1. CASE WorkerStart(r)
      BY <2>1 DEF WorkerStart, Jobs
    <2>2. CASE WorkerEmit(r)
      <3>1. stdout' \in Seq(Events)
        BY <2>2, EmitType DEF WorkerEmit, EventKinds
      <3>2. sent' \in [Request -> Nat]
        BY <2>2 DEF WorkerEmit
      <3>3. UNCHANGED <<clients, tables, queues, life, reading, slots, stdin, alive, job>>
        BY <2>2 DEF WorkerEmit
      <3> QED
        BY <3>1, <3>2, <3>3
    <2>3. CASE WorkerDone(r)
      <3>1. stdout' \in Seq(Events)
        BY <2>3, EmitType DEF WorkerDone, EventKinds
      <3>2. job' \in [Request -> Jobs]
        BY <2>3 DEF WorkerDone, Jobs
      <3>3. UNCHANGED <<clients, tables, queues, life, reading, slots, stdin, alive, sent>>
        BY <2>3 DEF WorkerDone
      <3> QED
        BY <3>1, <3>2, <3>3
    <2>4. CASE WorkerCancelled(r)
      <3>1. stdout' \in Seq(Events)
        BY <2>4, EmitType DEF WorkerCancelled, EventKinds
      <3>2. job' \in [Request -> Jobs]
        BY <2>4 DEF WorkerCancelled, Jobs
      <3>3. UNCHANGED <<clients, tables, queues, life, reading, slots, stdin, alive, sent>>
        BY <2>4 DEF WorkerCancelled
      <3> QED
        BY <3>1, <3>2, <3>3
    <2> QED
      BY <1>9, <2>1, <2>2, <2>3, <2>4
  <1>10. CASE UNCHANGED vars
    BY <1>10 DEF vars
  <1> QED
    BY <1>1, <1>2, <1>3, <1>4, <1>5, <1>6, <1>7, <1>8, <1>9, <1>10 DEF ReaderStep, WorkerNext

\* Every step keeps the types.
LEMMA TypeStep == ASSUME TypeOK, WaiterKeepsPlace, [Next]_vars PROVE TypeOK'
  BY RequestType, WaiterType, OtherType DEF Next

-----------------------------------------------------------------------------
(* Slots *)

\* There are finitely many requests with a slot; one more, one fewer.
LEMMA HoldingCount ==
  /\ IsFiniteSet(Holding) /\ Cardinality(Holding) \in Nat
  /\ \A r \in Request : r \notin Holding /\ Holding' = Holding \cup {r}
                         => Cardinality(Holding') = Cardinality(Holding) + 1
  /\ \A r \in Request : r \in Holding /\ Holding' = Holding \ {r}
                         => Cardinality(Holding') = Cardinality(Holding) - 1
  <1>1. IsFiniteSet(Holding)
    BY FiniteClients, FS_Subset DEF Holding
  <1> QED
    BY <1>1, FS_CardinalityType, FS_AddElement, FS_RemoveElement

\* A step that leaves the slots and their holders alone conserves them.
LEMMA SameSlots ==
  ASSUME SlotsConserved, UNCHANGED <<sem, lost>>, Holding' = Holding
  PROVE  SlotsConserved'
  BY DEF SlotsConserved

\* A request that gives its slot back conserves them, too.
LEMMA SlotGivenBack ==
  ASSUME TypeOK, SlotsConserved, NEW r \in Request, r \in Holding,
         sem' = sem + 1, lost' = lost,
         pc'[r] \in {"end", "cancel"}, \A q \in Request \ {r} : pc'[q] = pc[q]
  PROVE  SlotsConserved'
  <1>1. Holding' = Holding \ {r}
    BY DEF Holding
  <1>2. Cardinality(Holding') = Cardinality(Holding) - 1 /\ Cardinality(Holding) \in Nat
    BY <1>1, HoldingCount
  <1>3. sem \in Nat /\ lost \in Nat /\ Concurrency \in Nat
    BY ConcurrencyType DEF TypeOK
  <1> QED
    BY <1>2, <1>3 DEF SlotsConserved

\* Finish and Refuse give it back.
LEMMA FinishSlots ==
  ASSUME TypeOK, SlotsConserved, NEW r \in Request, r \in Holding, NEW res,
         Finish(r, res) \/ Refuse(r, res), lost' = lost
  PROVE  SlotsConserved'
  <1>1. /\ sem' = sem + 1
        /\ pc'[r] \in {"end", "cancel"} /\ \A q \in Request \ {r} : pc'[q] = pc[q]
    BY DEF Finish, Refuse, TypeOK
  <1> QED
    BY <1>1, SlotGivenBack

\* The steps of a request conserve the slots.
LEMMA RequestSlots ==
  ASSUME TypeOK, SlotsConserved, NEW r \in Request, RequestNext(r)
  PROVE  SlotsConserved'
  <1>1. CASE AcquireSlot(r)
    <2>1. r \notin Holding /\ Holding' = Holding \cup {r}
      BY <1>1 DEF AcquireSlot, Goto, Holding, TypeOK
    <2>2. Cardinality(Holding') = Cardinality(Holding) + 1 /\ Cardinality(Holding) \in Nat
      BY <2>1, HoldingCount
    <2>3. /\ sem \in Nat /\ lost \in Nat /\ Concurrency \in Nat
          /\ sem > 0 /\ sem' = sem - 1 /\ lost' = lost
      BY <1>1, ConcurrencyType DEF AcquireSlot, TypeOK
    <2> QED
      BY <2>2, <2>3 DEF SlotsConserved
  <1>2. CASE GiveUpSlot(r) \/ Register(r) \/ CancelDropped(r) \/ DropAcquire(r)
    <2>1. UNCHANGED <<sem, lost>>
      BY <1>2 DEF GiveUpSlot, Register, CancelDropped, DropAcquire, slots
    <2>2. Holding' = Holding
      BY <1>2 DEF GiveUpSlot, Register, CancelDropped, DropAcquire, Goto, Holding, TypeOK
    <2> QED
      BY <2>1, <2>2, SameSlots
  <1>3. CASE SendCancel(r) \/ SetCancel(r)
    <2>1. UNCHANGED <<sem, lost, pc>>
      BY <1>3 DEF SendCancel, SetCancel, slots
    <2> QED
      BY <2>1, SameSlots DEF Holding
  <1>4. CASE CheckSlot(r)
    <2>1. r \in Holding /\ lost' = lost
      BY <1>4 DEF CheckSlot, Holding
    <2>2. CASE Refuse(r, "exit") \/ Refuse(r, "aborted")
      BY <2>1, <2>2, FinishSlots
    <2>3. CASE Goto(r, "checked") /\ UNCHANGED sem
      <3>1. Holding' = Holding
        BY <2>1, <2>3 DEF Goto, Holding, TypeOK
      <3> QED
        BY <2>1, <2>3, <3>1, SameSlots
    <2> QED
      BY <1>4, <2>2, <2>3 DEF CheckSlot
  <1>5. CASE WriteRequest(r)
    <2>1. r \in Holding /\ lost' = lost
      BY <1>5 DEF WriteRequest, Holding
    <2>2. CASE Finish(r, "exit")
      BY <2>1, <2>2, FinishSlots
    <2>3. CASE Goto(r, "wait") /\ UNCHANGED sem
      <3>1. Holding' = Holding
        BY <2>1, <2>3 DEF Goto, Holding, TypeOK
      <3> QED
        BY <2>1, <2>3, <3>1, SameSlots
    <2> QED
      BY <1>5, <2>2, <2>3 DEF WriteRequest
  <1>6. CASE Receive(r)
    <2>1. r \in Holding /\ lost' = lost
      BY <1>6 DEF Receive, Holding
    <2>2. CASE \E kind \in {"exit", "done", "cancelled"} : Finish(r, kind)
      BY <2>1, <2>2, FinishSlots
    <2>3. CASE UNCHANGED <<pc, sem>>
      BY <2>1, <2>3, SameSlots DEF Holding
    <2> QED
      BY <1>6, <2>2, <2>3 DEF Receive
  <1>7. CASE TimeOut(r) \/ Drop(r)
    <2>1. r \in Holding /\ lost' = lost /\ (Finish(r, "timeout") \/ Finish(r, "aborted"))
      BY <1>7 DEF TimeOut, Drop, Holding
    <2> QED
      BY <2>1, FinishSlots
  <1> QED
    BY <1>1, <1>2, <1>3, <1>4, <1>5, <1>6, <1>7 DEF RequestNext, RequestStep

\* So do all others; LateAcquire moves a token to the lost ones.
LEMMA SlotsStep ==
  ASSUME TypeOK, SlotsConserved, [Next]_vars
  PROVE  SlotsConserved'
  <1>1. ASSUME NEW w \in Waiter, WaiterNext(w) PROVE SlotsConserved'
    <2>1. UNCHANGED <<sem, lost>> /\ \A r \in Request : pc'[r] = pc[r]
      BY <1>1, KindsDisjoint
         DEF WaiterNext, WaiterStep, Admit, WriteCancel, GetReceipt, Leave, ReceiptTimeOut, Goto,
             slots, TypeOK
    <2> QED
      BY <2>1, SameSlots DEF Holding
  <1>2. CASE LateAcquire
    <2>1. /\ sem \in Nat /\ lost \in Nat /\ sem' = sem - 1 /\ lost' = lost + 1
          /\ Cardinality(Holding) \in Nat /\ Holding' = Holding
      BY <1>2, HoldingCount DEF LateAcquire, clients, Holding, TypeOK
    <2> QED
      BY <2>1 DEF SlotsConserved
  <1>3. CASE CloseFlag \/ CloseWake \/ ReaderStep \/ WorkerNext \/ UNCHANGED vars
    <2>1. UNCHANGED <<sem, lost, pc>>
      BY <1>3
         DEF CloseFlag, CloseWake, ReaderStep, ReadEvent, Dispatch, ReadEOF, WorkerNext, WorkerRead,
             WorkerExits, WorkerStart, WorkerEmit, WorkerDone, WorkerCancelled, vars, slots, clients
    <2> QED
      BY <2>1, SameSlots DEF Holding
  <1> QED
    BY <1>1, <1>2, <1>3, RequestSlots DEF Next
-----------------------------------------------------------------------------
(* Waiters *)

Places == WaiterKeepsPlace /\ OneWaiterPerId

\* There are finitely many waiters the cap counts; one more, one fewer.
LEMMA CountedCount ==
  /\ IsFiniteSet(Counted) /\ Cardinality(Counted) \in Nat
  /\ \A w \in Waiter : w \notin Counted /\ Counted' = Counted \cup {w}
                         => Cardinality(Counted') = Cardinality(Counted) + 1
  /\ \A w \in Waiter : w \in Counted /\ Counted' = Counted \ {w}
                         => Cardinality(Counted') = Cardinality(Counted) - 1
  <1>1. IsFiniteSet(Counted)
    BY FiniteClients, FS_Subset DEF Counted
  <1> QED
    BY <1>1, FS_CardinalityType, FS_AddElement, FS_RemoveElement

\* A step that changes neither the tables nor who is counted.
LEMMA SamePlaces ==
  ASSUME Places, UNCHANGED <<receipts, waiters, reader, woken>>, Counted' = Counted
  PROVE  Places'
  BY DEF Places, WaiterKeepsPlace, OneWaiterPerId, Counted

\* Once everybody has been woken the tables are empty and only the count is left.
LEMMA WokenPlaces ==
  ASSUME Places, WakeAll, UNCHANGED pc, woken' \/ ~reader'
  PROVE  Places'
  BY DEF Places, WaiterKeepsPlace, OneWaiterPerId, WakeAll

\* The steps of a waiter keep the places.
LEMMA WaiterPlaces ==
  ASSUME TypeOK, Places, NEW w \in Waiter, WaiterNext(w)
  PROVE  Places'
  <1>1. CASE Admit(w)
    <2>1. /\ UNCHANGED <<reader, woken>>
          /\ \A v \in Waiter \ {w} : pc'[v] = pc[v]
      BY <1>1 DEF Admit, Goto, reading, life, TypeOK
    <2>2. CASE /\ Goto(w, "admitted") /\ Admissible(w)
               /\ receipts' = receipts \cup {w} /\ waiters' = waiters + 1
      <3>1. w \notin Counted /\ Counted' = Counted \cup {w}
        BY <1>1, <2>2 DEF Admit, Goto, Counted, TypeOK
      <3>2. Cardinality(Counted') = Cardinality(Counted) + 1
        BY <3>1, CountedCount
      <3>3. waiters' = Cardinality(Counted') /\ waiters' <= Concurrency
        BY <2>2, <3>2, ConcurrencyType DEF Places, WaiterKeepsPlace, Counted, Admissible, TypeOK
      <3>4. reader' /\ ~woken' => receipts' = Counted'
        BY <2>1, <2>2, <3>1 DEF Places, WaiterKeepsPlace, Counted
      <3>5. OneWaiterPerId'
        BY <2>2 DEF Places, OneWaiterPerId, Admissible
      <3> QED
        BY <3>3, <3>4, <3>5 DEF Places, WaiterKeepsPlace, Counted
    <2>3. CASE /\ pc' = [pc EXCEPT ![w] = "end"] /\ UNCHANGED <<receipts, waiters>>
      <3>1. Counted' = Counted
        BY <1>1, <2>3 DEF Admit, Counted, TypeOK
      <3> QED
        BY <2>1, <2>3, <3>1, SamePlaces
    <2> QED
      BY <1>1, <2>2, <2>3 DEF Admit
  <1>2. CASE WriteCancel(w) \/ GetReceipt(w) \/ ReceiptTimeOut(w)
    <2>1. UNCHANGED <<receipts, waiters, reader, woken>>
      BY <1>2 DEF WriteCancel, GetReceipt, ReceiptTimeOut, tables, reading, life
    <2>2. Counted' = Counted
      BY <1>2 DEF WriteCancel, GetReceipt, ReceiptTimeOut, Goto, Counted, TypeOK
    <2> QED
      BY <2>1, <2>2, SamePlaces
  <1>3. CASE Leave(w)
    <2>1. w \in Counted /\ Counted' = Counted \ {w}
      BY <1>3 DEF Leave, Goto, Counted, TypeOK
    <2>2. Cardinality(Counted') = Cardinality(Counted) - 1 /\ Cardinality(Counted) \in Nat
      BY <2>1, CountedCount
    <2>3. waiters' = Cardinality(Counted') /\ waiters' <= Concurrency
      BY <1>3, <2>2, ConcurrencyType DEF Leave, Places, WaiterKeepsPlace, Counted
    <2>4. reader' /\ ~woken' => receipts' = Counted'
      <3>1. ASSUME reader, ~woken PROVE receipts' = receipts \ {w}
        <4>1. w \in receipts
          BY <2>1, <3>1 DEF Places, WaiterKeepsPlace, Counted
        <4> QED
          BY <1>3, <4>1 DEF Leave, Places, OneWaiterPerId
      <3> QED
        BY <1>3, <2>1, <3>1 DEF Leave, Places, WaiterKeepsPlace, Counted, reading, life
    <2>5. OneWaiterPerId'
      BY <1>3 DEF Leave, Places, OneWaiterPerId
    <2> QED
      BY <2>3, <2>4, <2>5 DEF Places, WaiterKeepsPlace, Counted
  <1> QED
    BY <1>1, <1>2, <1>3 DEF WaiterNext, WaiterStep

\* So do all others.
LEMMA PlacesStep ==
  ASSUME TypeOK, Places, [Next]_vars
  PROVE  Places'
  <1>1. ASSUME NEW r \in Request, RequestNext(r) PROVE Places'
    <2>1. /\ UNCHANGED <<receipts, waiters, reader, woken>>
          /\ \A w \in Waiter : pc'[w] = pc[w]
      BY <1>1, KindsDisjoint
         DEF RequestNext, RequestStep, AcquireSlot, GiveUpSlot, CheckSlot, Register, WriteRequest,
             SendCancel, Receive, CancelDropped, TimeOut, Drop, DropAcquire, SetCancel, Finish,
             Refuse, Goto, tables, reading, life, TypeOK
    <2> QED
      BY <2>1, SamePlaces DEF Counted
  <1>2. CASE CloseWake \/ ReadEOF
    BY <1>2, WokenPlaces DEF CloseWake, ReadEOF, clients
  <1>3. CASE LateAcquire \/ CloseFlag \/ ReadEvent \/ Dispatch \/ WorkerNext \/ UNCHANGED vars
    <2>1. UNCHANGED <<receipts, waiters, reader, woken, pc>>
      BY <1>3 DEF LateAcquire, CloseFlag, ReadEvent, Dispatch, WorkerNext, WorkerRead, WorkerExits,
                  WorkerStart, WorkerEmit, WorkerDone, WorkerCancelled, vars, clients, tables, life,
                  reading
    <2> QED
      BY <2>1, SamePlaces DEF Counted
  <1> QED
    BY <1>1, <1>2, <1>3, WaiterPlaces DEF Next, ReaderStep

-----------------------------------------------------------------------------
(* Waking *)

Waking == InTables /\ NobodyWrites /\ EverybodyWoken

\* An exit on a queue stays there until it is its head.
LEMMA ExitStays ==
  ASSUME NEW q \in Seq(Events \cup {Exit}), NEW e \in Events \cup {Exit}
  PROVE  /\ HasExit(Append(q, Exit))
         /\ HasExit(q) => HasExit(Append(q, e))
         /\ q # <<>> /\ HasExit(q) /\ Head(q) # Exit => HasExit(Tail(q))
  <1>1. HasExit(Append(q, Exit))
    <2>1. Len(q) + 1 \in DOMAIN Append(q, Exit) /\ Append(q, Exit)[Len(q) + 1] = Exit
      OBVIOUS
    <2> QED
      BY <2>1 DEF HasExit
  <1>2. ASSUME NEW i \in DOMAIN q, q[i] = Exit PROVE HasExit(Append(q, e))
    <2>1. i \in DOMAIN Append(q, e) /\ Append(q, e)[i] = Exit
      BY <1>2
    <2> QED
      BY <2>1 DEF HasExit
  <1>3. ASSUME q # <<>>, Head(q) # Exit, NEW i \in DOMAIN q, q[i] = Exit PROVE HasExit(Tail(q))
    <2>1. i # 1 /\ i - 1 \in DOMAIN Tail(q) /\ Tail(q)[i - 1] = Exit
      BY <1>3
    <2> QED
      BY <2>1 DEF HasExit
  <1> QED
    BY <1>1, <1>2, <1>3 DEF HasExit

\* Who sleeps, with the name for an exit on a queue.
LEMMA Sleepers ==
  /\ NobodySleeps <=> /\ \A r \in Request : pc[r] = "wait" => HasExit(queue[r])
                      /\ \A w \in Waiter : pc[w] = "wait" => receipt[w] # <<>>
  /\ NobodySleeps' <=> /\ \A r \in Request : pc'[r] = "wait" => HasExit(queue'[r])
                       /\ \A w \in Waiter : pc'[w] = "wait" => receipt'[w] # <<>>
  BY DEF NobodySleeps, HasExit

\* Waking everybody leaves nobody asleep, and keeps it so.
LEMMA WakeAllWakes ==
  ASSUME TypeOK, Places, Waking, WakeAll, UNCHANGED pc
  PROVE  NobodySleeps'
  <1>1. \A q \in Seq(Events \cup {Exit}) : HasExit(Append(q, Exit)) /\ Offered(q, Exit) # <<>>
    BY ExitStays DEF Offered
  <1>2. CASE reader /\ ~woken
    <2>1. ASSUME NEW r \in Request, pc'[r] = "wait" PROVE HasExit(queue'[r])
      BY <1>1, <1>2, <2>1 DEF WakeAll, Put, Waking, InTables, TypeOK
    <2>2. ASSUME NEW w \in Waiter, pc'[w] = "wait" PROVE receipt'[w] # <<>>
      BY <1>1, <1>2, <2>2 DEF WakeAll, Places, WaiterKeepsPlace, TypeOK
    <2> QED
      BY <2>1, <2>2, Sleepers
  <1>3. CASE ~reader \/ woken
    <2>1. NobodySleeps
      BY <1>3 DEF Waking, EverybodyWoken
    <2>2. ASSUME NEW r \in Request, pc'[r] = "wait" PROVE HasExit(queue'[r])
      BY <1>1, <2>1, <2>2, Sleepers DEF WakeAll, Put, TypeOK
    <2>3. ASSUME NEW w \in Waiter, pc'[w] = "wait" PROVE receipt'[w] # <<>>
      BY <1>1, <2>1, <2>3, Sleepers DEF WakeAll, TypeOK
    <2> QED
      BY <2>2, <2>3, Sleepers
  <1> QED
    BY <1>2, <1>3 DEF TypeOK

\* A step that lets nobody begin to wait and takes no exit from a queue.
LEMMA StillAwake ==
  ASSUME TypeOK, Waking, UNCHANGED <<reader, woken>>, closed => closed', alive' => alive,
         \A r \in Request : pc'[r] \in {"registered", "wait"} =>
             \/ pc[r] \in {"registered", "wait"} /\ (r \in inflight => r \in inflight')
             \/ r \in inflight',
         woken \/ ~reader =>
           /\ \A r \in Request : pc'[r] = "wait" =>
                 pc[r] = "wait" /\ (HasExit(queue[r]) => HasExit(queue'[r]))
           /\ \A w \in Waiter : pc'[w] = "wait" =>
                 pc[w] = "wait" /\ (receipt[w] # <<>> => receipt'[w] # <<>>)
  PROVE  Waking'
  <1>1. InTables' /\ NobodyWrites'
    BY DEF Waking, InTables, NobodyWrites
  <1>2. EverybodyWoken'
    BY Sleepers DEF Waking, EverybodyWoken
  <1> QED
    BY <1>1, <1>2 DEF Waking

\* The steps of a request keep everybody who should be awake awake.
LEMMA RequestWaking ==
  ASSUME TypeOK, Waking, NEW r \in Request, RequestNext(r)
  PROVE  Waking'
  <1>1. /\ UNCHANGED <<reader, woken, closed, alive, receipt>>
        /\ \A w \in Waiter : pc'[w] = pc[w]
        /\ \A q \in Request \ {r} : pc'[q] = pc[q] /\ queue'[q] = queue[q]
        /\ \A q \in Request \ {r} : q \in inflight => q \in inflight'
    <2> USE DEF RequestNext, RequestStep, AcquireSlot, GiveUpSlot, CheckSlot, Register,
                WriteRequest, SendCancel, Receive, CancelDropped, TimeOut, Drop, DropAcquire,
                SetCancel, Finish, Refuse, Goto, tables, queues, reading, life, worker, TypeOK
    <2>1. UNCHANGED <<reader, woken, closed, alive, receipt>>
      OBVIOUS
    <2>2. \A w \in Waiter : pc'[w] = pc[w]
      BY KindsDisjoint
    <2>3. \A q \in Request \ {r} : pc'[q] = pc[q] /\ queue'[q] = queue[q]
      OBVIOUS
    <2>4. \A q \in Request \ {r} : q \in inflight => q \in inflight'
      OBVIOUS
    <2> QED
      BY <2>1, <2>2, <2>3, <2>4
  <1>2. CASE pc'[r] \notin {"registered", "wait"}
    BY <1>1, <1>2, StillAwake
  <1>3. CASE Register(r)
    <2>1. r \in inflight' /\ pc'[r] = "registered"
      BY <1>3 DEF Register, Goto, TypeOK
    <2> QED
      BY <1>1, <2>1, StillAwake
  <1>4. CASE WriteRequest(r)
    <2>1. CASE MayWrite
      <3>1. reader /\ ~woken
        BY <2>1 DEF MayWrite, Waking, NobodyWrites
      <3>2. pc[r] = "registered" /\ inflight' = inflight
        BY <1>4, <2>1 DEF WriteRequest
      <3> QED
        BY <1>1, <3>1, <3>2, StillAwake
    <2>2. CASE ~MayWrite
      <3>1. pc'[r] \in {"end", "cancel"}
        BY <1>4, <2>2 DEF WriteRequest, Finish, TypeOK
      <3> QED
        BY <1>2, <3>1
    <2> QED
      BY <2>1, <2>2
  <1>5. CASE Receive(r) /\ pc'[r] = "wait"
    <2>1. /\ pc[r] = "wait" /\ queue[r] # <<>> /\ queue'[r] = Tail(queue[r])
          /\ inflight' = inflight /\ Head(queue[r]) # Exit
      BY <1>5 DEF Receive, Finish, Exit, TypeOK
    <2>2. HasExit(queue[r]) => HasExit(queue'[r])
      BY <2>1, ExitStays DEF TypeOK
    <2> QED
      BY <1>1, <2>1, <2>2, StillAwake
  <1>6. CASE SendCancel(r) \/ SetCancel(r)
    <2>1. UNCHANGED <<pc, queue, inflight>>
      BY <1>6 DEF SendCancel, SetCancel, queues, tables
    <2> QED
      BY <1>1, <2>1, StillAwake
  <1>7. CASE \/ AcquireSlot(r) \/ GiveUpSlot(r) \/ CheckSlot(r) \/ CancelDropped(r)
             \/ TimeOut(r) \/ Drop(r) \/ DropAcquire(r)
    <2>1. pc'[r] \notin {"registered", "wait"}
      BY <1>7 DEF AcquireSlot, GiveUpSlot, CheckSlot, CancelDropped, TimeOut, Drop, DropAcquire,
                  Finish, Refuse, Goto, TypeOK
    <2> QED
      BY <1>2, <2>1
  <1>8. CASE Receive(r) /\ pc'[r] # "wait"
    <2>1. pc'[r] \notin {"registered", "wait"}
      BY <1>8 DEF Receive, Finish, TypeOK
    <2> QED
      BY <1>2, <2>1
  <1> QED
    BY <1>3, <1>4, <1>5, <1>6, <1>7, <1>8 DEF RequestNext, RequestStep

\* So do those of a waiter.
LEMMA WaiterWaking ==
  ASSUME TypeOK, Waking, NEW w \in Waiter, WaiterNext(w)
  PROVE  Waking'
  <1>1. /\ UNCHANGED <<reader, woken, closed, alive, inflight, queue>>
        /\ \A r \in Request : pc'[r] = pc[r]
        /\ \A v \in Waiter \ {w} : pc'[v] = pc[v] /\ receipt'[v] = receipt[v]
    BY KindsDisjoint
       DEF WaiterNext, WaiterStep, Admit, WriteCancel, GetReceipt, ReceiptTimeOut, Leave, Goto,
           tables, queues, reading, life, worker, TypeOK
  <1>2. pc'[w] = "wait" => reader /\ ~woken
    BY DEF WaiterNext, WaiterStep, Admit, WriteCancel, GetReceipt, ReceiptTimeOut, Leave, Goto,
           MayWrite, Waking, NobodyWrites, TypeOK
  <1> QED
    BY <1>1, <1>2, StillAwake

\* And the rest; close() and the end of stdout wake everybody.
LEMMA WakingStep ==
  ASSUME TypeOK, Places, Waking, [Next]_vars
  PROVE  Waking'
  <1>1. CASE CloseWake \/ ReadEOF
    <2>1. NobodySleeps'
      BY <1>1, WakeAllWakes DEF CloseWake, ReadEOF, clients
    <2>2. NobodyWrites' /\ (woken' \/ ~reader')
      BY <1>1 DEF CloseWake, ReadEOF, Waking, NobodyWrites, reading, life, worker
    <2> QED
      BY <2>1, <2>2 DEF Waking, InTables, EverybodyWoken
  <1>2. CASE Dispatch
    <2>1. /\ UNCHANGED <<reader, woken, closed, alive, inflight, pc>>
      BY <1>2 DEF Dispatch, clients, tables, life, worker
    <2>2. \A r \in Request : HasExit(queue[r]) => HasExit(queue'[r])
      BY <1>2, ExitStays DEF Dispatch, Put, TypeOK
    <2>3. \A w \in Waiter : receipt[w] # <<>> => receipt'[w] # <<>>
      BY <1>2 DEF Dispatch, Offered, TypeOK
    <2> QED
      BY <2>1, <2>2, <2>3, StillAwake
  <1>3. CASE LateAcquire \/ CloseFlag \/ ReadEvent \/ WorkerNext \/ UNCHANGED vars
    <2>1. /\ UNCHANGED <<reader, woken, inflight, pc, queue, receipt>>
          /\ (closed => closed') /\ (alive' => alive)
      BY <1>3 DEF LateAcquire, CloseFlag, ReadEvent, WorkerNext, WorkerRead, WorkerExits,
                  WorkerStart, WorkerEmit, WorkerDone, WorkerCancelled,
                  vars, clients, tables, queues, life, reading, worker
    <2> QED
      BY <2>1, StillAwake
  <1> QED
    BY <1>1, <1>2, <1>3, RequestWaking, WaiterWaking DEF Next, ReaderStep

-----------------------------------------------------------------------------
(* The theorems *)

\* The invariant holds at the start.
LEMMA InitIInv == Init => IInv
  <1> SUFFICES ASSUME Init PROVE IInv
    OBVIOUS
  <1>1. TypeOK
    <2>1. /\ pc \in [Request \cup Waiter -> RequestPCs \cup WaiterPCs \cup {"end"}]
          /\ result \in [Request \cup Waiter -> Results]
          /\ seen \in [Request -> Nat] /\ sent \in [Request -> Nat]
          /\ job \in [Request -> Jobs]
      BY DEF Init, RequestPCs, Results, Jobs
    <2>2. <<>> \in Seq(Events \cup {Exit}) /\ <<>> \in Seq(Lines) /\ <<>> \in Seq(Events)
      OBVIOUS
    <2>3. /\ queue \in [Request -> Seq(Events \cup {Exit})]
          /\ receipt \in [Waiter -> Seq(Events \cup {Exit})]
          /\ stdin \in Seq(Lines) /\ stdout \in Seq(Events)
      BY <2>2 DEF Init
    <2>4. hand \in [event : Events \cup {Exit}, q : Request \cup {None}, rq : Waiter \cup {None}]
      BY DEF Init, Idle
    <2>5. closed \in BOOLEAN /\ woken \in BOOLEAN /\ reader \in BOOLEAN /\ alive \in BOOLEAN
      BY Zenon DEF Init
    <2>6. /\ cancelEv \subseteq Cancellable /\ cancelSent \subseteq Cancellable
          /\ inflight \subseteq Request /\ receipts \subseteq Waiter
          /\ sem \in Nat /\ lateAcquire \in Nat /\ lost \in Nat /\ waiters \in Nat
      BY ConcurrencyType DEF Init
    <2> QED
      BY <2>1, <2>3, <2>4, <2>5, <2>6 DEF TypeOK
  <1>2. Holding = {} /\ Counted = {}
    BY KindsDisjoint DEF Init, Holding, Counted
  <1>3. SlotsConserved
    BY <1>2, FS_EmptySet, ConcurrencyType DEF Init, SlotsConserved
  <1>4. WaiterKeepsPlace /\ OneWaiterPerId
    <2>1. waiters = 0 /\ waiters = Cardinality(Counted) /\ receipts = Counted
      BY <1>2, FS_EmptySet DEF Init
    <2> QED
      BY <1>2, <2>1, ConcurrencyType DEF WaiterKeepsPlace, OneWaiterPerId, Counted
  <1>5. InTables /\ NobodyWrites /\ EverybodyWoken
    BY DEF Init, InTables, NobodyWrites, EverybodyWoken
  <1> QED
    BY <1>1, <1>3, <1>4, <1>5 DEF IInv

\* Every step keeps it.
LEMMA NextIInv == IInv /\ [Next]_vars => IInv'
  BY TypeStep, SlotsStep, PlacesStep, WakingStep DEF IInv, Places, Waking

\* It holds always.
LEMMA IInvAlways == Spec => []IInv
  BY InitIInv, NextIInv, PTL DEF Spec

\* No slot of the semaphore is ever lost or made, but to a thread whose task was
\* cancelled in the acquire, for any number of requests and slots.
THEOREM SlotsCorrect == Spec => []SlotsConserved
  <1>1. IInv => SlotsConserved
    BY DEF IInv
  <1> QED
    BY <1>1, IInvAlways, PTL

\* The cap counts exactly the waiters that are in cancel_and_wait, and each keeps
\* its entry while the worker is up, although the finally arm pops by id.
THEOREM WaitersCorrect == Spec => []WaiterKeepsPlace
  <1>1. IInv => WaiterKeepsPlace
    BY DEF IInv
  <1> QED
    BY <1>1, IInvAlways, PTL

\* close() and the end of the worker leave nobody asleep, however registrations,
\* lookups and deliveries interleave with them.
THEOREM WakingCorrect == Spec => []EverybodyWoken
  <1>1. IInv => EverybodyWoken
    BY DEF IInv
  <1> QED
    BY <1>1, IInvAlways, PTL

\* No line reaches the worker once close() has set its flag.
THEOREM QuietCorrect == Spec => QuietAfterClose
  <1>1. TypeOK /\ [Next]_vars => [closed => Len(stdin') <= Len(stdin)]_stdin
    <2> SUFFICES ASSUME TypeOK, [Next]_vars, closed PROVE Len(stdin') <= Len(stdin)
      OBVIOUS
    <2>1. stdin \in Seq(Lines) /\ ~MayWrite
      BY DEF TypeOK, MayWrite
    <2>2. CASE stdin' = stdin
      BY <2>1, <2>2
    <2>3. CASE WorkerRead
      BY <2>1, <2>3 DEF WorkerRead
    <2>4. stdin' = stdin \/ WorkerRead
      BY <2>1
         DEF Next, RequestNext, RequestStep, AcquireSlot, GiveUpSlot, CheckSlot, Register,
             WriteRequest, SendCancel, Receive, CancelDropped, TimeOut, Drop, DropAcquire,
             SetCancel, CancelLine, WaiterNext, WaiterStep, Admit, WriteCancel, GetReceipt,
             ReceiptTimeOut, Leave, LateAcquire, CloseFlag, CloseWake, ReaderStep, ReadEvent,
             Dispatch, ReadEOF, WorkerNext, WorkerExits, WorkerStart, WorkerEmit, WorkerDone,
             WorkerCancelled, vars
    <2> QED
      BY <2>2, <2>3, <2>4
  <1>2. IInv => TypeOK
    BY DEF IInv
  <1> QED
    BY <1>1, <1>2, IInvAlways, PTL DEF Spec, QuietAfterClose
-----------------------------------------------------------------------------
(* The flow of events: from the worker through the pipe, the hand of the    *)
(* reader and the queue of a request to its client.                        *)

\* How often an event is in a queue or a pipe.
Count(s, e) == Cardinality({i \in DOMAIN s : s[i] = e})

\* The line that asks the worker for a request.
Ask(r) == [id |-> r, kind |-> "request"]

\* Where a client is before its line is written.
Early == {"start", "acquired", "checked", "registered"}

\* The worker comes to know a request by its one line, written once its queue is
\* registered.
KnownByLine(r) ==
  /\ pc[r] \in Early => job[r] = "unknown" /\ \A i \in DOMAIN stdin : stdin[i] # Ask(r)
  /\ pc[r] \in Early \ {"registered"} => r \notin inflight /\ queue[r] = <<>>
  /\ \A i \in DOMAIN stdin : stdin[i] = Ask(r) => job[r] = "unknown"
  /\ \A i, j \in DOMAIN stdin : stdin[i] = Ask(r) /\ stdin[j] = Ask(r) => i = j
UnknownYet == \A r \in Request : KnownByLine(r)

\* Of a request the worker does not know there is no event anywhere.
NothingOfUnknown ==
  \A r \in Request : job[r] = "unknown" =>
    /\ seen[r] = 0 /\ sent[r] = 0
    /\ \A i \in DOMAIN stdout : stdout[i].id # r
    /\ hand.event.id # r
    /\ \A i \in DOMAIN queue[r] : queue[r][i] = Exit

Ended == {"done", "cancelled"}

\* What the reader holds and what is on a queue is about the request it is for.
RightQueue ==
  /\ hand.q \in {None, hand.event.id}
  /\ hand.rq # None => hand.event.kind = "cancelled" /\ Target[hand.rq] = hand.event.id
  /\ \A r \in Request : \A i \in DOMAIN queue[r] : queue[r][i] = Exit \/ queue[r][i].id = r

\* A terminal event, wherever it is, is what became of the request.
EndsAreReal ==
  /\ \A i \in DOMAIN stdout : stdout[i].kind \in Ended => job[stdout[i].id] = stdout[i].kind
  /\ hand.event.kind \in Ended => job[hand.event.id] = hand.event.kind
  /\ \A r \in Request : \A i \in DOMAIN queue[r] :
        queue[r][i].kind \in Ended => job[r] = queue[r][i].kind
  /\ \A w \in Waiter : \A i \in DOMAIN receipt[w] :
        receipt[w][i].kind = "cancelled" => job[Target[w]] = "cancelled"

\* No event follows the terminal one, in the pipe, in hand or on the queue.
DoneIsLast ==
  \A r \in Request :
    /\ \A i, j \in DOMAIN stdout :
          stdout[i] = Event(r, "done") /\ stdout[j] = Event(r, "event") => j < i
    /\ hand.event = Event(r, "done") => \A j \in DOMAIN stdout : stdout[j] # Event(r, "event")
    /\ \A i \in DOMAIN queue[r] : queue[r][i].kind = "done" =>
          /\ hand.event # Event(r, "event")
          /\ \A j \in DOMAIN stdout : stdout[j] # Event(r, "event")
          /\ \A j \in DOMAIN queue[r] : queue[r][j] = Event(r, "event") => j < i

\* The events of a request between the worker and its client.
InHand(r) == IF hand.event = Event(r, "event") THEN 1 ELSE 0
Unheard(r) == Count(queue[r], Event(r, "event"))

\* What the worker wrote is heard, on the queue, in hand or in the pipe, as long as
\* the request is registered; and a terminal event that can still be reached has all
\* of them before it.
HeardOf(r) ==
  /\ r \in inflight =>
       /\ ~HasExit(queue[r])
       /\ hand.event.id = r => hand.q = r
       /\ seen[r] + Unheard(r) + InHand(r) + Count(stdout, Event(r, "event")) = sent[r]
  /\ pc[r] = "wait" =>
       \A i \in DOMAIN queue[r] :
          /\ queue[r][i].kind = "done"
          /\ \A j \in 1 .. i : queue[r][j] # Exit
          => seen[r] + Unheard(r) = sent[r]
NothingLost == \A r \in Request : HeardOf(r)

\* The results the clients were given.
ResultsAreReal ==
  /\ \A r \in Request : result[r] = "done" => pc[r] = "end" /\ job[r] = "done" /\ seen[r] = sent[r]
  /\ ReceiptIsReal

\* The invariant of the flow of events, on top of IInv.
Flow == UnknownYet /\ NothingOfUnknown /\ RightQueue /\ EndsAreReal /\ DoneIsLast /\ NothingLost /\ ResultsAreReal

\* The positions of a sequence and its last element.
LEMMA AppendIndex ==
  ASSUME NEW S, NEW s \in Seq(S), NEW x \in S
  PROVE  /\ DOMAIN Append(s, x) = DOMAIN s \cup {Len(s) + 1}
         /\ Len(s) + 1 \notin DOMAIN s /\ Append(s, x)[Len(s) + 1] = x
         /\ \A i \in DOMAIN s : Append(s, x)[i] = s[i] /\ i < Len(s) + 1
  OBVIOUS

\* Those of the rest, one lower.
LEMMA TailIndex ==
  ASSUME NEW S, NEW s \in Seq(S), s # <<>>
  PROVE  /\ 1 \in DOMAIN s /\ Head(s) = s[1]
         /\ \A i \in DOMAIN Tail(s) : i + 1 \in DOMAIN s /\ Tail(s)[i] = s[i + 1]
         /\ \A i \in DOMAIN s : i # 1 => i - 1 \in DOMAIN Tail(s) /\ Tail(s)[i - 1] = s[i]
  OBVIOUS

\* A count is a number, and 0 of what is not there.
LEMMA CountIsNat ==
  ASSUME NEW S, NEW s \in Seq(S), NEW e
  PROVE  /\ IsFiniteSet({i \in DOMAIN s : s[i] = e}) /\ Count(s, e) \in Nat
         /\ (\A i \in DOMAIN s : s[i] # e) => Count(s, e) = 0
  <1>1. IsFiniteSet(DOMAIN s)
    BY FS_Interval
  <1>2. IsFiniteSet({i \in DOMAIN s : s[i] = e})
    BY <1>1, FS_Subset
  <1>3. ASSUME \A i \in DOMAIN s : s[i] # e PROVE {i \in DOMAIN s : s[i] = e} = {}
    BY <1>3
  <1> QED
    BY <1>2, <1>3, FS_CardinalityType, FS_EmptySet DEF Count

\* Counting what is appended ...
LEMMA CountAppend ==
  ASSUME NEW S, NEW s \in Seq(S), NEW x \in S, NEW e
  PROVE  Count(Append(s, x), e) = Count(s, e) + (IF x = e THEN 1 ELSE 0)
  <1> DEFINE Old == {i \in DOMAIN s : s[i] = e}
             New == {i \in DOMAIN Append(s, x) : Append(s, x)[i] = e}
  <1>0. Count(s, e) = Cardinality(Old) /\ Count(Append(s, x), e) = Cardinality(New)
    BY DEF Count
  <1>1. IsFiniteSet(Old) /\ Cardinality(Old) \in Nat
    BY <1>0, CountIsNat
  <1>4. Len(s) + 1 \notin Old
    BY AppendIndex
  <1>2. x = e => New = Old \cup {Len(s) + 1}
    BY AppendIndex
  <1>3. x # e => New = Old
    BY AppendIndex
  <1>5. Cardinality(Old \cup {Len(s) + 1}) = Cardinality(Old) + 1
    BY <1>1, <1>4, FS_AddElement
  <1> HIDE DEF Old, New
  <1>6. CASE x = e
    BY <1>0, <1>2, <1>5, <1>6
  <1>7. CASE x # e
    BY <1>0, <1>1, <1>3, <1>7
  <1> QED
    BY <1>6, <1>7

\* ... and what is taken.
LEMMA CountTail ==
  ASSUME NEW S, NEW s \in Seq(S), s # <<>>, NEW e
  PROVE  Count(s, e) = Count(Tail(s), e) + (IF Head(s) = e THEN 1 ELSE 0)
  <1> DEFINE Old == {i \in DOMAIN s : s[i] = e}
             New == {i \in DOMAIN Tail(s) : Tail(s)[i] = e}
             F == [i \in New |-> i + 1]
  <1>0. Count(s, e) = Cardinality(Old) /\ Count(Tail(s), e) = Cardinality(New)
    BY DEF Count
  <1>1. IsFiniteSet(Old) /\ Cardinality(Old) \in Nat
    BY <1>0, CountIsNat
  <1>2. IsFiniteSet(New) /\ Cardinality(New) \in Nat
    <2>1. Tail(s) \in Seq(S)
      OBVIOUS
    <2> QED
      BY <1>0, <2>1, CountIsNat
  <1>3. F \in Bijection(New, Old \ {1})
    <2>1. F \in [New -> Old \ {1}]
      BY TailIndex
    <2>2. \A t \in Old \ {1} : \E i \in New : F[i] = t
      <3> SUFFICES ASSUME NEW t \in Old \ {1} PROVE t - 1 \in New /\ F[t - 1] = t
        OBVIOUS
      <3>1. t - 1 \in New
        BY TailIndex
      <3> QED
        BY <3>1
    <2>3. \A a, b \in New : F[a] = F[b] => a = b
      OBVIOUS
    <2> QED
      BY <2>1, <2>2, <2>3, Fun_IsBij DEF Injection, IsInjective
  <1>4. Cardinality(Old \ {1}) = Cardinality(New)
    BY <1>2, <1>3, FS_Bijection DEF ExistsBijection
  <1>5. 1 \in Old <=> Head(s) = e
    BY TailIndex
  <1>6. Cardinality(Old \ {1}) = IF 1 \in Old THEN Cardinality(Old) - 1 ELSE Cardinality(Old)
    BY <1>1, FS_RemoveElement
  <1> HIDE DEF Old, New, F
  <1> QED
    BY <1>0, <1>1, <1>2, <1>4, <1>5, <1>6

\* A step of the clients or of close() that leaves the events alone: a request may
\* move on, end or cancel, but not begin to wait.
LEMMA QuietFlow ==
  ASSUME TypeOK, Flow, UNCHANGED <<stdout, hand, queue, receipt, job, sent, seen>>,
         stdin' = stdin \/ \E r \in Request : CancelLine(r),
         \A r \in Request :
           /\ pc'[r] \in Early => pc[r] \in Early
           /\ pc'[r] \in Early \ {"registered"} => pc[r] \in Early \ {"registered"}
           /\ r \in inflight' => \/ r \in inflight
                                 \/ pc[r] = "checked" /\ pc'[r] = "registered"
           /\ pc'[r] = "wait" => pc[r] = "wait"
           /\ pc[r] = "end" => pc'[r] = "end"
           /\ result'[r] = "done" => result[r] = "done",
         \A w \in Waiter : result'[w] = "cancelled" => result[w] = "cancelled"
  PROVE  Flow'
  <1> USE DEF Flow
  <1>1. ASSUME NEW r \in Request
        PROVE  /\ \A i \in DOMAIN stdin' : stdin'[i] = Ask(r) => i \in DOMAIN stdin /\ stdin[i] = Ask(r)
    <2>1. CASE stdin' = stdin
      BY <2>1
    <2>2. ASSUME NEW q \in Request, stdin' = Append(stdin, [id |-> q, kind |-> "cancel"])
          PROVE  \A i \in DOMAIN stdin' : stdin'[i] = Ask(r) => i \in DOMAIN stdin /\ stdin[i] = Ask(r)
      <3>1. [id |-> q, kind |-> "cancel"] \in Lines /\ [id |-> q, kind |-> "cancel"] # Ask(r)
        BY DEF Lines, Ask
      <3> QED
        BY <2>2, <3>1, AppendIndex DEF TypeOK
    <2> QED
      BY <2>1, <2>2 DEF CancelLine
  <1>2. UnknownYet'
    <2> SUFFICES ASSUME NEW r \in Request
                 PROVE  KnownByLine(r)'
      BY DEF UnknownYet, KnownByLine, Ask
    <2> QED
      BY <1>1 DEF UnknownYet, KnownByLine, Ask
  <1>3. NothingOfUnknown' /\ RightQueue' /\ EndsAreReal' /\ DoneIsLast'
    BY DEF NothingOfUnknown, RightQueue, EndsAreReal, DoneIsLast, Event
  <1>4. NothingLost'
    <2> SUFFICES ASSUME NEW r \in Request
                 PROVE  HeardOf(r)'
      BY DEF NothingLost, HeardOf
    <2>1. Unheard(r)' = Unheard(r) /\ InHand(r)' = InHand(r)
      BY DEF Unheard, InHand
    <2>2. CASE r \in inflight \/ r \notin inflight'
      BY <2>1, <2>2 DEF NothingLost, HeardOf
    <2>3. CASE r \notin inflight /\ pc[r] = "checked" /\ pc'[r] = "registered"
      <3>1. queue[r] = <<>> /\ job[r] = "unknown"
        BY <2>3 DEF UnknownYet, KnownByLine, Early
      <3>0. Event(r, "event").id = r
        BY DEF Event
      <3>2. /\ seen[r] = 0 /\ sent[r] = 0 /\ \A i \in DOMAIN stdout : stdout[i] # Event(r, "event")
            /\ hand.event.id # r /\ hand.event # Event(r, "event")
        BY <3>0, <3>1 DEF NothingOfUnknown
      <3>3. Count(stdout, Event(r, "event")) = 0 /\ InHand(r) = 0
        <4>1. stdout \in Seq(Events)
          BY DEF TypeOK
        <4>2. Count(stdout, Event(r, "event")) = 0
          BY <3>2, <4>1, CountIsNat
        <4>3. InHand(r) = 0
          BY <3>2 DEF InHand
        <4> QED
          BY <4>2, <4>3
      <3>4. Count(queue[r], Event(r, "event")) = 0 /\ ~HasExit(queue[r])
        <4>1. queue[r] \in Seq(Events) /\ \A i \in DOMAIN queue[r] : FALSE
          BY <3>1
        <4>2. Count(queue[r], Event(r, "event")) = 0
          BY <4>1, CountIsNat
        <4>3. ~HasExit(queue[r])
          BY <4>1 DEF HasExit
        <4> QED
          BY <4>2, <4>3
      <3> QED
        BY <2>1, <2>3, <3>1, <3>2, <3>3, <3>4 DEF HeardOf, Unheard
    <2> QED
      BY <2>2, <2>3
  <1>5. ResultsAreReal'
    BY DEF ResultsAreReal, ReceiptIsReal
  <1> QED
    BY <1>2, <1>3, <1>4, <1>5

\* Which steps these are.
LEMMA QuietSteps ==
  ASSUME TypeOK, Flow,
         \/ \E r \in Request :
              \/ AcquireSlot(r) \/ GiveUpSlot(r) \/ CheckSlot(r) \/ Register(r) \/ (WriteRequest(r) /\ ~MayWrite)
              \/ SendCancel(r) \/ CancelDropped(r) \/ TimeOut(r) \/ Drop(r) \/ DropAcquire(r) \/ SetCancel(r)
         \/ \E w \in Waiter : Admit(w) \/ WriteCancel(w) \/ ReceiptTimeOut(w) \/ Leave(w)
         \/ LateAcquire \/ CloseFlag \/ WorkerExits \/ UNCHANGED vars
  PROVE  Flow'
  <1> USE DEF clients, tables, queues, life, reading, slots, worker
  <1>1. ASSUME NEW r \in Request,
               \/ AcquireSlot(r) \/ GiveUpSlot(r) \/ CheckSlot(r) \/ Register(r) \/ (WriteRequest(r) /\ ~MayWrite)
               \/ SendCancel(r) \/ CancelDropped(r) \/ TimeOut(r) \/ Drop(r) \/ DropAcquire(r) \/ SetCancel(r)
        PROVE  Flow'
    <2>1. /\ UNCHANGED <<stdout, hand, queue, receipt, job, sent, seen>>
          /\ stdin' = stdin \/ CancelLine(r)
          /\ \A q \in Request \ {r} : pc'[q] = pc[q] /\ result'[q] = result[q] /\ (q \in inflight' => q \in inflight)
          /\ \A w \in Waiter : result'[w] = result[w]
      <3> USE <1>1 DEF AcquireSlot, GiveUpSlot, CheckSlot, Register, WriteRequest, SendCancel,
                       CancelDropped, TimeOut, Drop, DropAcquire, SetCancel, Finish, Refuse, Goto
      <3>1. UNCHANGED <<stdout, hand, queue, receipt, job, sent, seen>> /\ (stdin' = stdin \/ CancelLine(r))
        OBVIOUS
      <3>2. \A q \in Request \ {r} : pc'[q] = pc[q] /\ result'[q] = result[q] /\ (q \in inflight' => q \in inflight)
        BY DEF TypeOK
      <3>3. \A w \in Waiter : result'[w] = result[w]
        BY KindsDisjoint DEF TypeOK
      <3> QED
        BY <3>1, <3>2, <3>3
    <2>2. /\ pc'[r] \in Early => pc[r] \in Early
          /\ pc'[r] \in Early \ {"registered"} => pc[r] \in Early \ {"registered"}
          /\ r \in inflight' => \/ r \in inflight
                                \/ pc[r] = "checked" /\ pc'[r] = "registered"
          /\ pc'[r] = "wait" => pc[r] = "wait"
          /\ pc[r] = "end" => pc'[r] = "end"
          /\ result'[r] = "done" => result[r] = "done"
      BY <1>1
         DEF AcquireSlot, GiveUpSlot, CheckSlot, Register, WriteRequest, SendCancel,
             CancelDropped,
                  TimeOut, Drop, DropAcquire, SetCancel, Finish, Refuse, Goto, Early, TypeOK
    <2> QED
      BY <2>1, <2>2, QuietFlow
  <1>2. ASSUME NEW w \in Waiter, Admit(w) \/ WriteCancel(w) \/ ReceiptTimeOut(w) \/ Leave(w)
        PROVE  Flow'
    <2>1. /\ UNCHANGED <<stdout, hand, queue, receipt, job, sent, seen, inflight>>
          /\ stdin' = stdin \/ CancelLine(Target[w])
      BY <1>2 DEF Admit, WriteCancel, ReceiptTimeOut, Leave
    <2>2. \A r \in Request : pc'[r] = pc[r] /\ result'[r] = result[r]
      BY <1>2, KindsDisjoint DEF Admit, WriteCancel, ReceiptTimeOut, Leave, Goto, TypeOK
    <2>3. \A v \in Waiter : result'[v] = "cancelled" => result[v] = "cancelled"
      BY <1>2 DEF Admit, WriteCancel, ReceiptTimeOut, Leave, Goto, TypeOK
    <2> QED
      BY <2>1, <2>2, <2>3, QuietFlow, TargetType
  <1>3. CASE LateAcquire \/ CloseFlag \/ WorkerExits \/ UNCHANGED vars
    <2>1. UNCHANGED <<stdin, stdout, hand, queue, receipt, job, sent, seen, inflight, pc, result>>
      BY <1>3 DEF LateAcquire, CloseFlag, WorkerExits, vars
    <2> QED
      BY <2>1, QuietFlow
  <1> QED
    BY <1>1, <1>2, <1>3

\* A new line makes the request one the worker will come to know.
LEMMA WriteFlow ==
  ASSUME TypeOK, Flow, NEW r \in Request, WriteRequest(r), MayWrite
  PROVE  Flow'
  <1> USE DEF Flow
  <1>1. /\ stdin' = Append(stdin, Ask(r)) /\ pc[r] = "registered" /\ pc' = [pc EXCEPT ![r] = "wait"]
        /\ UNCHANGED <<stdout, hand, queue, receipt, job, sent, seen, inflight, result>>
    BY DEF WriteRequest, Goto, Ask, queues, reading, worker
  <1>2. job[r] = "unknown" /\ \A i \in DOMAIN stdin : stdin[i] # Ask(r)
    BY <1>1 DEF UnknownYet, KnownByLine, Early
  <1>3. \A q \in Request : Ask(q) \in Lines /\ (Ask(q) = Ask(r) => q = r)
    BY DEF Ask, Lines
  <1>4. /\ DOMAIN stdin' = DOMAIN stdin \cup {Len(stdin) + 1}
        /\ Len(stdin) + 1 \notin DOMAIN stdin /\ stdin'[Len(stdin) + 1] = Ask(r)
        /\ \A i \in DOMAIN stdin : stdin'[i] = stdin[i]
    BY <1>1, <1>3, AppendIndex DEF TypeOK
  <1>5. \A q \in Request \ {r} : pc'[q] = pc[q]
    BY <1>1 DEF TypeOK
  <1>6. pc'[r] = "wait"
    BY <1>1 DEF TypeOK
  <1>7. UnknownYet'
    <2>1. ASSUME NEW q \in Request \ {r}
          PROVE  KnownByLine(q)'
      <3>1. \A i \in DOMAIN stdin' : stdin'[i] = Ask(q) => i \in DOMAIN stdin /\ stdin[i] = Ask(q)
        BY <1>3, <1>4
      <3> QED
        BY <1>1, <1>5, <3>1 DEF UnknownYet, KnownByLine, Ask
    <2>2. KnownByLine(r)'
      BY <1>1, <1>2, <1>4, <1>6 DEF KnownByLine, Early, Ask
    <2> QED
      BY <2>1, <2>2 DEF UnknownYet, KnownByLine, Ask
  <1>8. NothingOfUnknown' /\ RightQueue' /\ EndsAreReal' /\ DoneIsLast'
    BY <1>1 DEF NothingOfUnknown, RightQueue, EndsAreReal, DoneIsLast, Event
  <1>9. NothingLost'
    <2>1. \A i \in DOMAIN queue[r] : queue[r][i].kind # "done"
      BY <1>2 DEF NothingOfUnknown, Exit
    <2> QED
      BY <1>1, <1>5, <2>1 DEF NothingLost, HeardOf, Unheard, InHand, HasExit
  <1>10. ResultsAreReal'
    BY <1>1, <1>5 DEF ResultsAreReal, ReceiptIsReal
  <1> QED
    BY <1>7, <1>8, <1>9, <1>10

\* A receipt that is taken was real.
LEMMA ReceiptFlow ==
  ASSUME TypeOK, Flow, NEW w \in Waiter, GetReceipt(w)
  PROVE  Flow'
  <1> USE DEF Flow
  <1>1. /\ receipt[w] # <<>> /\ receipt' = [receipt EXCEPT ![w] = Tail(@)]
        /\ result' = [result EXCEPT ![w] = Outcome(w)] /\ pc' = [pc EXCEPT ![w] = "leave"]
        /\ UNCHANGED <<stdin, stdout, hand, queue, job, sent, seen, inflight>>
    BY DEF GetReceipt, tables, reading, worker
  <1>2. \A r \in Request : pc'[r] = pc[r] /\ result'[r] = result[r]
    BY <1>1, KindsDisjoint DEF TypeOK
  <1>3. UnknownYet' /\ NothingOfUnknown' /\ RightQueue' /\ DoneIsLast'
    BY <1>1, <1>2 DEF UnknownYet, KnownByLine, Ask, NothingOfUnknown, RightQueue, DoneIsLast, Event
  <1>4. NothingLost'
    BY <1>1, <1>2 DEF NothingLost, HeardOf, Unheard, InHand, HasExit
  <1>5. EndsAreReal'
    <2>1. ASSUME NEW v \in Waiter, NEW i \in DOMAIN receipt'[v], receipt'[v][i].kind = "cancelled"
          PROVE  job[Target[v]] = "cancelled"
      <3>1. CASE v = w
        <4>0. receipt[w] \in Seq(Events \cup {Exit})
          BY DEF TypeOK
        <4>1. receipt'[v] = Tail(receipt[w])
          BY <1>1, <3>1 DEF TypeOK
        <4>3. \A k \in DOMAIN Tail(receipt[w]) :
                 k + 1 \in DOMAIN receipt[w] /\ Tail(receipt[w])[k] = receipt[w][k + 1]
          BY <1>1, <4>0, TailIndex
        <4>2. i + 1 \in DOMAIN receipt[w] /\ receipt[w][i + 1] = receipt'[v][i]
          BY <4>1, <4>3
        <4> QED
          BY <2>1, <3>1, <4>2 DEF EndsAreReal
      <3>2. CASE v # w
        BY <1>1, <2>1, <3>2 DEF EndsAreReal, TypeOK
      <3> QED
        BY <3>1, <3>2
    <2> QED
      BY <1>1, <2>1 DEF EndsAreReal
  <1>6. ResultsAreReal'
    <2>1. ASSUME result'[w] = "cancelled" PROVE job[Target[w]] = "cancelled"
      <3>1. Head(receipt[w]).kind = "cancelled"
        BY <1>1, <2>1 DEF Outcome, TypeOK
      <3>2. 1 \in DOMAIN receipt[w] /\ Head(receipt[w]) = receipt[w][1]
        BY <1>1, TailIndex DEF TypeOK
      <3> QED
        BY <3>1, <3>2 DEF EndsAreReal
    <2>2. \A v \in Waiter \ {w} : result'[v] = result[v]
      BY <1>1 DEF TypeOK
    <2> QED
      BY <1>1, <1>2, <2>1, <2>2 DEF ResultsAreReal, ReceiptIsReal
  <1> QED
    BY <1>3, <1>4, <1>5, <1>6

\* Waking everybody puts an exit after what a request has still to hear.
LEMMA WakeFlow ==
  ASSUME TypeOK, Flow, WakeAll,
         UNCHANGED <<pc, result, seen, hand, stdin, stdout, job, sent>>
  PROVE  Flow'
  <1> USE DEF Flow
  <1>0. inflight' = {} /\ receipt' \in [Waiter -> Seq(Events \cup {Exit})]
    BY WakeAllType
  <1>1. ASSUME NEW r \in Request
        PROVE  /\ \/ queue'[r] = queue[r]
                  \/ queue'[r] = Append(queue[r], Exit) /\ r \in inflight
               /\ queue[r] \in Seq(Events \cup {Exit})
    <2>1. queue[r] \in Seq(Events \cup {Exit})
      BY DEF TypeOK
    <2>2. queue'[r] = IF r \in inflight THEN Append(queue[r], Exit) ELSE queue[r]
      BY DEF WakeAll, Put
    <2> QED
      BY <2>1, <2>2
  <1>2. ASSUME NEW r \in Request
        PROVE  /\ \A i \in DOMAIN queue[r] : i \in DOMAIN queue'[r] /\ queue'[r][i] = queue[r][i]
               /\ \A i \in DOMAIN queue'[r] : queue'[r][i] # Exit => i \in DOMAIN queue[r]
               /\ Count(queue'[r], Event(r, "event")) = Count(queue[r], Event(r, "event"))
    <2>1. CASE queue'[r] = queue[r]
      BY <2>1
    <2>2. CASE queue'[r] = Append(queue[r], Exit)
      <3>1. Exit # Event(r, "event")
        BY DEF Exit, Event
      <3>2. Count(queue'[r], Event(r, "event")) = Count(queue[r], Event(r, "event")) + 0
        BY <1>1, <2>2, <3>1, CountAppend
      <3>3. Count(queue[r], Event(r, "event")) \in Nat
        BY <1>1, CountIsNat
      <3> QED
        BY <1>1, <2>2, <3>2, <3>3, AppendIndex
    <2> QED
      BY <1>1, <2>1, <2>2
  <1>3. \A r \in Request : \A i \in DOMAIN queue'[r] :
           \/ queue'[r][i] = Exit
           \/ i \in DOMAIN queue[r] /\ queue'[r][i] = queue[r][i]
    BY <1>2
  <1>4. Exit.kind \notin Ended /\ \A r \in Request : Exit # Event(r, "event")
    BY DEF Exit, Ended, Event
  <1>5. UnknownYet'
    BY <1>0, <1>1 DEF UnknownYet, KnownByLine, Ask
  <1>6. NothingOfUnknown' /\ RightQueue'
    BY <1>3 DEF NothingOfUnknown, RightQueue
  <1>7. EndsAreReal'
    <2>1. ASSUME NEW w \in Waiter, NEW i \in DOMAIN receipt'[w], receipt'[w][i].kind = "cancelled"
          PROVE  job[Target[w]] = "cancelled"
      <3>1. CASE receipt'[w] = receipt[w]
        BY <2>1, <3>1 DEF EndsAreReal
      <3>2. CASE receipt'[w] = <<Exit>>
        BY <2>1, <3>2 DEF Exit
      <3> QED
        BY <3>1, <3>2 DEF WakeAll, Offered, TypeOK
    <2>2. \A r \in Request : \A i \in DOMAIN queue'[r] :
             queue'[r][i].kind \in Ended => job[r] = queue'[r][i].kind
      BY <1>3, <1>4 DEF EndsAreReal
    <2> QED
      BY <2>1, <2>2 DEF EndsAreReal
  <1>8. DoneIsLast'
    <2>1. ASSUME NEW r \in Request, NEW i \in DOMAIN queue'[r], queue'[r][i].kind = "done"
          PROVE  /\ i \in DOMAIN queue[r] /\ queue[r][i].kind = "done"
                 /\ \A j \in DOMAIN queue'[r] : queue'[r][j] = Event(r, "event") =>
                      j \in DOMAIN queue[r] /\ queue[r][j] = Event(r, "event")
      BY <1>3, <1>4, <2>1 DEF Ended
    <2> QED
      BY <2>1 DEF DoneIsLast, Event
  <1>9. NothingLost'
    <2> SUFFICES ASSUME NEW r \in Request, pc[r] = "wait", NEW i \in DOMAIN queue'[r],
                        queue'[r][i].kind = "done", \A j \in 1 .. i : queue'[r][j] # Exit
                 PROVE  seen[r] + Count(queue'[r], Event(r, "event")) = sent[r]
      BY <1>0 DEF NothingLost, HeardOf, Unheard
    <2>1. i \in DOMAIN queue[r] /\ queue[r][i].kind = "done" /\ 1 .. i \subseteq DOMAIN queue[r]
      BY <1>1, <1>3, <1>4 DEF Ended
    <2>2. \A j \in 1 .. i : queue[r][j] # Exit
      BY <1>2, <2>1
    <2> QED
      BY <1>2, <2>1, <2>2 DEF NothingLost, HeardOf, Unheard
  <1>10. ResultsAreReal'
    BY DEF ResultsAreReal, ReceiptIsReal
  <1> QED
    BY <1>5, <1>6, <1>7, <1>8, <1>9, <1>10

\* What a request hears of its queue it hears once.
LEMMA ReceiveFlow ==
  ASSUME TypeOK, Flow, NEW r \in Request, Receive(r)
  PROVE  Flow'
  <1> USE DEF Flow
  <1> DEFINE ev == Event(r, "event")
  <1>1. /\ pc[r] = "wait" /\ queue[r] # <<>> /\ queue' = [queue EXCEPT ![r] = Tail(@)]
        /\ UNCHANGED <<receipt, stdin, stdout, hand, job, sent>>
    BY DEF Receive, reading, worker
  <1>2. /\ \A q \in Request \ {r} : /\ pc'[q] = pc[q] /\ result'[q] = result[q] /\ seen'[q] = seen[q]
                                    /\ queue'[q] = queue[q] /\ (q \in inflight' <=> q \in inflight)
        /\ \A w \in Waiter : result'[w] = result[w]
    <2>1. \A q \in Request \ {r} : /\ pc'[q] = pc[q] /\ result'[q] = result[q] /\ seen'[q] = seen[q]
                                   /\ queue'[q] = queue[q] /\ (q \in inflight' <=> q \in inflight)
      BY DEF Receive, Finish, TypeOK
    <2>2. \A w \in Waiter : result'[w] = result[w]
      BY KindsDisjoint DEF Receive, Finish, TypeOK
    <2> QED
      BY <2>1, <2>2
  <1>3. /\ queue[r] \in Seq(Events \cup {Exit}) /\ queue'[r] = Tail(queue[r])
        /\ 1 \in DOMAIN queue[r] /\ Head(queue[r]) = queue[r][1]
    <2>1. queue[r] \in Seq(Events \cup {Exit})
      BY DEF TypeOK
    <2>2. queue'[r] = Tail(queue[r])
      BY <1>1 DEF TypeOK
    <2> QED
      BY <1>1, <2>1, <2>2, TailIndex
  <1>4. /\ \A i \in DOMAIN queue'[r] : i + 1 \in DOMAIN queue[r] /\ queue'[r][i] = queue[r][i + 1]
        /\ \A i \in DOMAIN queue[r] : i # 1 => i - 1 \in DOMAIN queue'[r] /\ queue'[r][i - 1] = queue[r][i]
    <2>1. LET s == queue[r]
          IN  /\ \A i \in DOMAIN Tail(s) : i + 1 \in DOMAIN s /\ Tail(s)[i] = s[i + 1]
              /\ \A i \in DOMAIN s : i # 1 => i - 1 \in DOMAIN Tail(s) /\ Tail(s)[i - 1] = s[i]
      BY <1>1, <1>3, TailIndex
    <2> QED
      BY <1>3, <2>1
  <1>5. /\ Count(queue[r], ev) = Count(queue'[r], ev) + (IF Head(queue[r]) = ev THEN 1 ELSE 0)
        /\ Count(queue'[r], ev) \in Nat
    <2>1. queue'[r] \in Seq(Events \cup {Exit})
      BY <1>1, <1>3
    <2> QED
      BY <1>1, <1>3, <2>1, CountTail, CountIsNat
  <1>6. Head(queue[r]) = Exit \/ Head(queue[r]).id = r
    BY <1>3 DEF RightQueue
  <1>7. /\ pc'[r] \in {"wait", "end", "cancel"} /\ (r \in inflight' => r \in inflight /\ pc'[r] = "wait")
        /\ pc'[r] = "wait" => /\ result'[r] = result[r] /\ Head(queue[r]) # Exit
                              /\ seen'[r] = IF Head(queue[r]) = ev THEN seen[r] + 1 ELSE seen[r]
        /\ result'[r] = "done" /\ pc'[r] # "wait" => /\ Head(queue[r]).kind = "done" /\ seen'[r] = seen[r]
                                                     /\ pc'[r] = "end"
    <2>1. CASE Head(queue[r]).kind \in {"_worker_exit", "done", "cancelled"}
      <3>1. PICK res \in {"exit", "done", "cancelled"} :
               Finish(r, res) /\ seen' = seen /\ (res = "done" => Head(queue[r]).kind = "done")
        BY <2>1 DEF Receive
      <3> QED
        BY <2>1, <3>1 DEF Finish, TypeOK
    <2>2. CASE Head(queue[r]).kind \in {"event", "notTripped"}
      <3>1. UNCHANGED <<pc, result, inflight>> /\ Head(queue[r]) # Exit
        BY <2>2 DEF Receive, Exit
      <3>2. Head(queue[r]) = ev <=> Head(queue[r]).kind = "event"
        <4>1. Head(queue[r]) \in Events
          BY <1>3, <3>1
        <4> QED
          BY <1>6, <3>1, <4>1 DEF Event, Events
      <3>3. seen'[r] = IF Head(queue[r]) = ev THEN seen[r] + 1 ELSE seen[r]
        BY <2>2, <3>2 DEF Receive, TypeOK
      <3> QED
        BY <1>1, <3>1, <3>3
    <2>3. Head(queue[r]).kind \in {"_worker_exit", "done", "cancelled", "event", "notTripped"}
      BY DEF Receive
    <2> QED
      BY <2>1, <2>2, <2>3
  <1> HIDE DEF ev
  <1>8. UnknownYet'
    BY <1>1, <1>2, <1>7 DEF UnknownYet, KnownByLine, Early, Ask
  <1>9. NothingOfUnknown'
    <2>1. ASSUME job[r] = "unknown" PROVE seen'[r] = 0
      <3>1. seen[r] = 0 /\ Head(queue[r]) = Exit
        BY <1>3, <2>1 DEF NothingOfUnknown
      <3>2. Head(queue[r]).kind = "_worker_exit"
        BY <3>1 DEF Exit
      <3> QED
        BY <3>1, <3>2 DEF Receive
    <2>2. job[r] = "unknown" => \A i \in DOMAIN queue'[r] : queue'[r][i] = Exit
      BY <1>4 DEF NothingOfUnknown
    <2> QED
      BY <1>1, <1>2, <2>1, <2>2 DEF NothingOfUnknown
  <1>10. RightQueue' /\ EndsAreReal'
    <2>1. \A i \in DOMAIN queue'[r] : /\ queue'[r][i] = Exit \/ queue'[r][i].id = r
                                      /\ queue'[r][i].kind \in Ended => job[r] = queue'[r][i].kind
      BY <1>4 DEF RightQueue, EndsAreReal
    <2> QED
      BY <1>1, <1>2, <2>1 DEF RightQueue, EndsAreReal
  <1>11. DoneIsLast'
    <2>1. ASSUME NEW i \in DOMAIN queue'[r], queue'[r][i].kind = "done"
          PROVE  /\ hand.event # Event(r, "event")
                 /\ \A j \in DOMAIN stdout : stdout[j] # Event(r, "event")
                 /\ \A j \in DOMAIN queue'[r] : queue'[r][j] = Event(r, "event") => j < i
      <3>1. i + 1 \in DOMAIN queue[r] /\ queue[r][i + 1].kind = "done"
        BY <1>4, <2>1
      <3>2. /\ hand.event # Event(r, "event")
            /\ \A j \in DOMAIN stdout : stdout[j] # Event(r, "event")
            /\ \A j \in DOMAIN queue[r] : queue[r][j] = Event(r, "event") => j < i + 1
        BY <3>1 DEF DoneIsLast
      <3>3. ASSUME NEW j \in DOMAIN queue'[r], queue'[r][j] = Event(r, "event") PROVE j < i
        <4>1. j + 1 < i + 1
          BY <1>4, <3>2, <3>3
        <4>2. i \in Nat /\ j \in Nat
          BY <1>1, <1>3
        <4> QED
          BY <4>1, <4>2
      <3> QED
        BY <3>2, <3>3
    <2>2. \A q \in Request : (q = r \/ queue'[q] = queue[q]) /\ hand' = hand /\ stdout' = stdout
      BY <1>1, <1>2
    <2> QED
      BY <2>1, <2>2 DEF DoneIsLast, Event
  <1>12. NothingLost'
    <2>0. seen[r] \in Nat /\ sent[r] \in Nat /\ InHand(r) \in Nat /\ Count(stdout, ev) \in Nat
      <3>1. InHand(r) \in Nat
        BY DEF InHand
      <3>2. stdout \in Seq(Events) /\ seen[r] \in Nat /\ sent[r] \in Nat
        BY DEF TypeOK
      <3> QED
        BY <3>1, <3>2, CountIsNat
    <2>1. ASSUME NEW q \in Request \ {r}
          PROVE  /\ queue'[q] = queue[q] /\ pc'[q] = pc[q] /\ (q \in inflight' <=> q \in inflight)
                 /\ seen'[q] = seen[q] /\ Unheard(q)' = Unheard(q) /\ InHand(q)' = InHand(q)
                 /\ Count(stdout, Event(q, "event"))' = Count(stdout, Event(q, "event"))
      BY <1>1, <1>2 DEF Unheard, InHand
    <2>2. pc'[r] = "wait" => seen'[r] + Count(queue'[r], ev) = seen[r] + Count(queue[r], ev)
      BY <1>5, <1>7, <2>0
    <2>3. ASSUME r \in inflight'
          PROVE  /\ ~HasExit(queue'[r]) /\ (hand.event.id = r => hand.q = r)
                 /\ seen'[r] + Count(queue'[r], ev) + InHand(r) + Count(stdout, ev) = sent[r]
      <3>1. ~HasExit(queue[r]) /\ (hand.event.id = r => hand.q = r)
        BY <1>7, <2>3 DEF NothingLost, HeardOf
      <3>2. seen[r] + Count(queue[r], ev) + InHand(r) + Count(stdout, ev) = sent[r]
        BY <1>7, <2>3 DEF NothingLost, HeardOf, Unheard, ev
      <3>3. ~HasExit(queue'[r])
        BY <1>4, <3>1 DEF HasExit
      <3> QED
        BY <1>7, <2>2, <2>3, <3>1, <3>2, <3>3
    <2>4. ASSUME pc'[r] = "wait", NEW i \in DOMAIN queue'[r], queue'[r][i].kind = "done",
                 \A j \in 1 .. i : queue'[r][j] # Exit
          PROVE  seen'[r] + Count(queue'[r], ev) = sent[r]
      <3>1. i + 1 \in DOMAIN queue[r] /\ queue[r][i + 1].kind = "done"
        BY <1>4, <2>4
      <3>2. ASSUME NEW j \in 1 .. i + 1 PROVE queue[r][j] # Exit
        <4>1. CASE j = 1
          BY <1>3, <1>7, <2>4, <4>1
        <4>2. CASE j # 1
          <5>1. j \in DOMAIN queue[r] /\ j - 1 \in 1 .. i
            BY <1>3, <3>1, <4>2
          <5> QED
            BY <1>4, <2>4, <4>2, <5>1
        <4> QED
          BY <4>1, <4>2
      <3>3. seen[r] + Unheard(r) = sent[r]
        BY <1>1, <3>1, <3>2 DEF NothingLost, HeardOf
      <3> QED
        BY <2>2, <2>4, <3>3 DEF Unheard, ev
    <2>5. /\ InHand(r)' = InHand(r) /\ Unheard(r)' = Count(queue'[r], ev)
          /\ Count(stdout, Event(r, "event"))' = Count(stdout, ev)
      BY <1>1 DEF InHand, Unheard, ev
    <2>6. ASSUME NEW q \in Request
          PROVE  HeardOf(q)'
      <3>1. CASE q = r
        BY <1>1, <2>3, <2>4, <2>5, <3>1 DEF HeardOf
      <3>2. CASE q # r
        BY <1>1, <2>1, <3>2 DEF NothingLost, HeardOf
      <3> QED
        BY <3>1, <3>2
    <2> QED
      BY <2>6 DEF NothingLost, HeardOf
  <1>13. ResultsAreReal'
    <2>1. ASSUME result'[r] = "done" PROVE pc'[r] = "end" /\ job[r] = "done" /\ seen'[r] = sent[r]
      <3>1. pc'[r] # "wait"
        BY <1>1, <1>7, <2>1 DEF ResultsAreReal
      <3>2. Head(queue[r]).kind = "done" /\ seen'[r] = seen[r] /\ pc'[r] = "end"
        BY <1>7, <2>1, <3>1
      <3>3. job[r] = "done"
        BY <1>3, <3>2 DEF EndsAreReal, Ended
      <3>4. \A j \in DOMAIN queue[r] : queue[r][j] # ev
        <4>1. \A j \in DOMAIN queue[r] : queue[r][j] = ev => j < 1
          BY <1>3, <3>2 DEF DoneIsLast, ev
        <4> QED
          BY <1>3, <4>1
      <3>5. Unheard(r) = 0
        BY <1>3, <3>4, CountIsNat DEF Unheard, ev
      <3>6. seen[r] + Unheard(r) = sent[r]
        <4>1. \A j \in 1 .. 1 : queue[r][j] # Exit
          BY <1>3, <3>2 DEF Exit
        <4> QED
          BY <1>1, <1>3, <3>2, <4>1 DEF NothingLost, HeardOf
      <3> QED
        BY <3>2, <3>3, <3>5, <3>6 DEF TypeOK
    <2> QED
      BY <1>1, <1>2, <2>1 DEF ResultsAreReal, ReceiptIsReal
  <1> QED
    BY <1>8, <1>9, <1>10, <1>11, <1>12, <1>13

\* An event the reader takes up moves from the pipe to its hand.
LEMMA ReadFlow ==
  ASSUME TypeOK, Flow, ReadEvent
  PROVE  Flow'
  <1> USE DEF Flow
  <1>1. /\ hand = Idle /\ stdout # <<>> /\ stdout \in Seq(Events) /\ stdout' = Tail(stdout)
        /\ UNCHANGED <<pc, result, seen, inflight, queue, receipt, stdin, job, sent>>
    BY DEF ReadEvent, clients, tables, queues, worker, TypeOK
  <1>2. /\ 1 \in DOMAIN stdout /\ Head(stdout) = stdout[1] /\ Head(stdout) \in Events
        /\ \A i \in DOMAIN stdout' : i + 1 \in DOMAIN stdout /\ stdout'[i] = stdout[i + 1]
    <2>1. /\ 1 \in DOMAIN stdout /\ Head(stdout) = stdout[1]
          /\ \A i \in DOMAIN Tail(stdout) : i + 1 \in DOMAIN stdout /\ Tail(stdout)[i] = stdout[i + 1]
      BY <1>1, TailIndex
    <2> QED
      BY <1>1, <2>1
  <1>3. /\ hand'.event = Head(stdout)
        /\ hand'.q = IF Head(stdout).id \in inflight THEN Head(stdout).id ELSE None
        /\ hand'.rq # None => Head(stdout).kind = "cancelled" /\ Target[hand'.rq] = Head(stdout).id
    <2>1. PICK rq \in Waiter \cup {None} :
             /\ IF Head(stdout).kind = "cancelled" /\ \E w \in receipts : Target[w] = Head(stdout).id
                THEN rq \in receipts /\ Target[rq] = Head(stdout).id
                ELSE rq = None
             /\ hand' = [event |-> Head(stdout), rq |-> rq,
                         q |-> IF Head(stdout).id \in inflight THEN Head(stdout).id ELSE None]
      BY DEF ReadEvent
    <2> QED
      BY <2>1
  <1>4. hand.event = Exit /\ Exit.kind \notin Ended /\ \A r \in Request : Exit # Event(r, "event")
    BY <1>1 DEF Idle, Exit, Ended, Event
  <1>5. UnknownYet'
    BY <1>1 DEF UnknownYet, KnownByLine, Ask
  <1>6. NothingOfUnknown'
    BY <1>1, <1>2, <1>3 DEF NothingOfUnknown
  <1>7. RightQueue'
    BY <1>1, <1>3 DEF RightQueue
  <1>8. EndsAreReal'
    BY <1>1, <1>2, <1>3 DEF EndsAreReal
  <1>9. DoneIsLast'
    <2>1. ASSUME NEW r \in Request, NEW i \in DOMAIN stdout', NEW j \in DOMAIN stdout',
                 stdout'[i] = Event(r, "done"), stdout'[j] = Event(r, "event")
          PROVE  j < i
      <3>1. j + 1 < i + 1
        BY <1>2, <2>1 DEF DoneIsLast
      <3> QED
        BY <1>1, <3>1
    <2>2. ASSUME NEW r \in Request, Head(stdout) = Event(r, "done"), NEW j \in DOMAIN stdout'
          PROVE  stdout'[j] # Event(r, "event")
      <3>1. j + 1 \in DOMAIN stdout /\ stdout'[j] = stdout[j + 1] /\ ~ (j + 1 < 1)
        BY <1>1, <1>2
      <3> QED
        BY <1>2, <2>2, <3>1 DEF DoneIsLast
    <2>3. ASSUME NEW r \in Request, NEW i \in DOMAIN queue[r], queue[r][i].kind = "done"
          PROVE  /\ Head(stdout) # Event(r, "event")
                 /\ \A j \in DOMAIN stdout' : stdout'[j] # Event(r, "event")
                 /\ \A j \in DOMAIN queue[r] : queue[r][j] = Event(r, "event") => j < i
      BY <1>2, <2>3 DEF DoneIsLast
    <2> QED
      BY <1>1, <1>3, <2>1, <2>2, <2>3 DEF DoneIsLast, Event
  <1>10. NothingLost'
    <2>1. ASSUME NEW r \in Request
          PROVE  InHand(r)' + Count(stdout', Event(r, "event")) = InHand(r) + Count(stdout, Event(r, "event"))
      <3>1. InHand(r) = 0 /\ InHand(r)' = IF Head(stdout) = Event(r, "event") THEN 1 ELSE 0
        BY <1>3, <1>4 DEF InHand, Event
      <3>2. /\ Count(stdout, Event(r, "event"))
                 = Count(stdout', Event(r, "event")) + (IF Head(stdout) = Event(r, "event") THEN 1 ELSE 0)
            /\ Count(stdout', Event(r, "event")) \in Nat
        <4>1. Tail(stdout) \in Seq(Events)
          BY <1>1
        <4> QED
          BY <1>1, <4>1, CountTail, CountIsNat
      <3> QED
        BY <3>1, <3>2
    <2>2. ASSUME NEW r \in Request
          PROVE  /\ seen[r] \in Nat /\ Unheard(r) \in Nat
                 /\ InHand(r) \in Nat /\ Count(stdout, Event(r, "event")) \in Nat
                 /\ InHand(r)' \in Nat /\ Count(stdout', Event(r, "event")) \in Nat
      <3>1. InHand(r) \in Nat /\ InHand(r)' \in Nat
        BY DEF InHand
      <3>2. seen[r] \in Nat /\ queue[r] \in Seq(Events \cup {Exit}) /\ stdout' \in Seq(Events)
        BY <1>1 DEF TypeOK
      <3> QED
        BY <1>1, <3>1, <3>2, CountIsNat DEF Unheard
    <2>3. ASSUME NEW r \in Request, r \in inflight
          PROVE  /\ ~HasExit(queue[r]) /\ (hand'.event.id = r => hand'.q = r)
                 /\ seen[r] + Unheard(r) + InHand(r)' + Count(stdout', Event(r, "event")) = sent[r]
      <3>1. /\ ~HasExit(queue[r])
            /\ seen[r] + Unheard(r) + InHand(r) + Count(stdout, Event(r, "event")) = sent[r]
        BY <2>3 DEF NothingLost, HeardOf
      <3>2. seen[r] + Unheard(r) + InHand(r)' + Count(stdout', Event(r, "event")) = sent[r]
        BY <2>1, <2>2, <3>1
      <3> QED
        BY <1>3, <2>3, <3>1, <3>2
    <2>4. \A r \in Request : /\ Unheard(r)' = Unheard(r)
                             /\ Count(stdout, Event(r, "event"))' = Count(stdout', Event(r, "event"))
      BY <1>1 DEF Unheard, Event
    <2> QED
      BY <1>1, <2>3, <2>4 DEF NothingLost, HeardOf
  <1>11. ResultsAreReal'
    BY <1>1 DEF ResultsAreReal, ReceiptIsReal
  <1> QED
    BY <1>5, <1>6, <1>7, <1>8, <1>9, <1>10, <1>11

\* It is put on the queue of its request, or of nobody who will read on.
LEMMA DispatchFlow ==
  ASSUME TypeOK, Flow, Waking, Dispatch
  PROVE  Flow'
  <1> USE DEF Flow
  <1> DEFINE e == hand.event
  <1>1. /\ hand # Idle /\ hand' = Idle
        /\ UNCHANGED <<pc, result, seen, inflight, stdin, stdout, job, sent>>
    BY DEF Dispatch, clients, tables, worker
  <1>2. /\ hand'.event = Exit /\ hand'.q = None /\ hand'.rq = None /\ Exit.id = None
        /\ Exit.kind \notin Ended /\ None \notin Request
        /\ \A r \in Request, k \in EventKinds : Exit # Event(r, k)
    BY <1>1, KindsDisjoint DEF Idle, Exit, Ended, Event
  <1>3. e \in Events \cup {Exit} /\ stdout \in Seq(Events)
    BY DEF TypeOK
  <1>4. ASSUME NEW r \in Request
        PROVE  /\ queue[r] \in Seq(Events \cup {Exit})
               /\ \/ queue'[r] = queue[r] /\ hand.q # r
                  \/ queue'[r] = Append(queue[r], e) /\ hand.q = r /\ e.id = r
    <2>1. queue[r] \in Seq(Events \cup {Exit})
      BY DEF TypeOK
    <2>2. queue'[r] = IF r = hand.q THEN Append(queue[r], e) ELSE queue[r]
      BY DEF Dispatch, Put
    <2>3. hand.q = r => e.id = r
      BY <1>2 DEF RightQueue
    <2> QED
      BY <2>1, <2>2, <2>3
  <1>5. ASSUME NEW r \in Request
        PROVE  /\ \A i \in DOMAIN queue[r] :
                    i \in DOMAIN queue'[r] /\ queue'[r][i] = queue[r][i] /\ i < Len(queue[r]) + 1
               /\ \A i \in DOMAIN queue'[r] :
                    \/ i \in DOMAIN queue[r] /\ queue'[r][i] = queue[r][i]
                    \/ i = Len(queue[r]) + 1 /\ hand.q = r /\ e.id = r /\ queue'[r][i] = e
    <2>1. CASE queue'[r] = queue[r]
      BY <1>4, <2>1
    <2>2. CASE queue'[r] = Append(queue[r], e) /\ hand.q = r /\ e.id = r
      BY <1>3, <1>4, <2>2, AppendIndex
    <2> QED
      BY <1>4, <2>1, <2>2
  <1> HIDE DEF e
  <1>6. UnknownYet'
    <2>1. ASSUME NEW r \in Request, pc[r] \in Early PROVE queue'[r] = queue[r]
      <3>1. e.id # r
        BY <2>1 DEF UnknownYet, KnownByLine, NothingOfUnknown, e
      <3> QED
        BY <1>4, <3>1
    <2>2. \A r \in Request : pc[r] \in Early \ {"registered"} => queue'[r] = <<>>
      BY <2>1 DEF UnknownYet, KnownByLine
    <2> QED
      BY <1>1, <2>2 DEF UnknownYet, KnownByLine, Ask
  <1>7. NothingOfUnknown' /\ RightQueue'
    BY <1>1, <1>2, <1>5 DEF NothingOfUnknown, RightQueue, e
  <1>8. EndsAreReal'
    <2>1. ASSUME NEW r \in Request, NEW i \in DOMAIN queue'[r], queue'[r][i].kind \in Ended
          PROVE  job[r] = queue'[r][i].kind
      BY <1>5, <2>1 DEF EndsAreReal, e
    <2>2. ASSUME NEW w \in Waiter, NEW i \in DOMAIN receipt'[w], receipt'[w][i].kind = "cancelled"
          PROVE  job[Target[w]] = "cancelled"
      <3>1. receipt'[w] = IF w = hand.rq THEN Offered(receipt[w], e) ELSE receipt[w]
        BY DEF Dispatch, e
      <3>2. CASE receipt'[w] = receipt[w]
        BY <2>2, <3>2 DEF EndsAreReal
      <3>3. CASE receipt'[w] = <<e>> /\ w = hand.rq
        <4>1. hand.rq # None
          BY <3>3, KindsDisjoint
        <4>2. e.kind = "cancelled" /\ Target[w] = e.id
          BY <3>3, <4>1 DEF RightQueue, e
        <4> QED
          BY <4>2 DEF EndsAreReal, Ended, e
      <3> QED
        BY <3>1, <3>2, <3>3 DEF Offered
    <2> QED
      BY <1>1, <1>2, <2>1, <2>2 DEF EndsAreReal
  <1>9. DoneIsLast'
    <2>1. ASSUME NEW r \in Request, NEW i \in DOMAIN queue'[r], queue'[r][i].kind = "done"
          PROVE  /\ \A j \in DOMAIN stdout : stdout[j] # Event(r, "event")
                 /\ \A j \in DOMAIN queue'[r] : queue'[r][j] = Event(r, "event") => j < i
      <3>1. CASE i \in DOMAIN queue[r] /\ queue'[r][i] = queue[r][i]
        <4>1. /\ e # Event(r, "event")
              /\ \A j \in DOMAIN stdout : stdout[j] # Event(r, "event")
              /\ \A j \in DOMAIN queue[r] : queue[r][j] = Event(r, "event") => j < i
          BY <2>1, <3>1 DEF DoneIsLast, e
        <4> QED
          BY <1>5, <4>1
      <3>2. CASE i = Len(queue[r]) + 1 /\ e.id = r /\ queue'[r][i] = e
        <4>1. e = Event(r, "done") /\ e # Event(r, "event")
          <5>1. e \in Events
            BY <1>2, <1>3, <3>2
          <5> QED
            BY <2>1, <3>2, <5>1 DEF Event, Events
        <4>2. \A j \in DOMAIN stdout : stdout[j] # Event(r, "event")
          BY <4>1 DEF DoneIsLast, e
        <4>3. \A j \in DOMAIN queue'[r] : queue'[r][j] = Event(r, "event") => j < i
          BY <1>5, <3>2, <4>1
        <4> QED
          BY <4>2, <4>3
      <3> QED
        BY <1>5, <3>1, <3>2
    <2> QED
      BY <1>1, <1>2, <2>1 DEF DoneIsLast, Event, EventKinds
  <1>10. NothingLost'
    <2>1. ASSUME NEW r \in Request
          PROVE  /\ InHand(r)' = 0 /\ seen[r] \in Nat /\ Unheard(r) \in Nat
                 /\ Count(stdout, Event(r, "event")) \in Nat
      <3>1. InHand(r)' = 0
        BY <1>2 DEF InHand, Event, EventKinds
      <3>2. seen[r] \in Nat
        BY DEF TypeOK
      <3> QED
        BY <1>3, <1>4, <3>1, <3>2, CountIsNat DEF Unheard
    <2>2. ASSUME NEW r \in Request
          PROVE  Count(queue'[r], Event(r, "event")) = IF hand.q = r THEN Unheard(r) + InHand(r) ELSE Unheard(r)
      <3>1. CASE queue'[r] = queue[r] /\ hand.q # r
        BY <3>1 DEF Unheard
      <3>2. CASE queue'[r] = Append(queue[r], e) /\ hand.q = r
        BY <1>3, <1>4, <3>2, CountAppend DEF Unheard, InHand, e
      <3> QED
        BY <1>4, <3>1, <3>2
    <2>3. ASSUME NEW r \in Request, r \in inflight
          PROVE  /\ ~HasExit(queue'[r])
                 /\ seen[r] + Count(queue'[r], Event(r, "event")) + Count(stdout, Event(r, "event")) = sent[r]
      <3>1. /\ ~HasExit(queue[r]) /\ (e.id = r => hand.q = r)
            /\ seen[r] + Unheard(r) + InHand(r) + Count(stdout, Event(r, "event")) = sent[r]
        BY <2>3 DEF NothingLost, HeardOf, e
      <3>2. hand.q # r => InHand(r) = 0
        BY <3>1 DEF InHand, Event, e
      <3>3. ~HasExit(queue'[r])
        BY <1>2, <1>5, <3>1 DEF HasExit
      <3>4. InHand(r) \in Nat
        BY DEF InHand
      <3> QED
        BY <2>1, <2>2, <3>1, <3>2, <3>3, <3>4
    <2>4. ASSUME NEW r \in Request, pc[r] = "wait", NEW i \in DOMAIN queue'[r],
                 queue'[r][i].kind = "done", \A j \in 1 .. i : queue'[r][j] # Exit
          PROVE  seen[r] + Count(queue'[r], Event(r, "event")) = sent[r]
      <3>1. CASE i \in DOMAIN queue[r] /\ queue'[r][i] = queue[r][i]
        <4>1. 1 .. i \subseteq DOMAIN queue[r]
          BY <1>4, <3>1
        <4>2. \A j \in 1 .. i : queue[r][j] # Exit
          BY <1>5, <2>4, <4>1
        <4>3. seen[r] + Unheard(r) = sent[r]
          BY <2>4, <3>1, <4>2 DEF NothingLost, HeardOf
        <4>4. InHand(r) = 0
          BY <2>4, <3>1 DEF DoneIsLast, InHand
        <4> QED
          BY <2>1, <2>2, <4>3, <4>4
      <3>2. CASE i = Len(queue[r]) + 1 /\ hand.q = r /\ e.id = r /\ queue'[r][i] = e
        <4>1. r \in inflight
          <5>1. ~HasExit(queue[r])
            <6>1. DOMAIN queue[r] \subseteq 1 .. i
              BY <1>4, <3>2
            <6> QED
              BY <1>5, <2>4, <6>1 DEF HasExit
          <5>2. ~NobodySleeps
            BY <2>4, <5>1, Sleepers
          <5> QED
            BY <2>4, <5>2 DEF Waking, EverybodyWoken, InTables
        <4>2. \A j \in DOMAIN stdout : stdout[j] # Event(r, "event")
          BY <1>9, <2>4, <1>1, <1>2, <1>5, <3>2 DEF DoneIsLast, Event
        <4>3. Count(stdout, Event(r, "event")) = 0
          BY <1>3, <4>2, CountIsNat
        <4> QED
          BY <2>1, <2>2, <2>3, <4>1, <4>3, CountIsNat DEF InHand
      <3> QED
        BY <1>5, <3>1, <3>2
    <2>5. \A r \in Request : /\ Unheard(r)' = Count(queue'[r], Event(r, "event"))
                             /\ Count(stdout, Event(r, "event"))' = Count(stdout, Event(r, "event"))
      BY <1>1 DEF Unheard, Event
    <2>6. ASSUME NEW r \in Request, r \in inflight
          PROVE  seen[r] + Unheard(r)' + InHand(r)' + Count(stdout, Event(r, "event"))' = sent[r]
      <3>1. Unheard(r)' \in Nat
        <4>1. InHand(r) \in Nat
          BY DEF InHand
        <4> QED
          BY <2>1, <2>2, <2>5, <4>1
      <3> QED
        BY <2>1, <2>3, <2>5, <2>6, <3>1
    <2> QED
      BY <1>1, <1>2, <2>3, <2>4, <2>5, <2>6 DEF NothingLost, HeardOf
  <1>11. ResultsAreReal'
    BY <1>1 DEF ResultsAreReal, ReceiptIsReal
  <1> QED
    BY <1>6, <1>7, <1>8, <1>9, <1>10, <1>11

\* The worker may take a line from its stdin; a request it comes to know was written.
LEMMA LinesTaken ==
  ASSUME TypeOK, UnknownYet, UNCHANGED <<pc, inflight, queue>>,
         stdin' = stdin \/ (stdin # <<>> /\ stdin' = Tail(stdin)),
         \A r \in Request : job[r] = "unknown" =>
           \/ job'[r] = "unknown"
           \/ stdin # <<>> /\ stdin' = Tail(stdin) /\ Head(stdin) = Ask(r)
  PROVE  UnknownYet'
  <1>1. stdin \in Seq(Lines)
    BY DEF TypeOK
  <1>2. PICK d \in {0, 1} : /\ \A i \in DOMAIN stdin' : /\ i + d \in DOMAIN stdin /\ stdin'[i] = stdin[i + d]
                                                        /\ i \in Nat /\ i > 0
                            /\ d = 0 => stdin' = stdin
                            /\ d = 1 => stdin # <<>> /\ stdin' = Tail(stdin)
    <2>1. CASE stdin' = stdin
      <3>1. \A i \in DOMAIN stdin' : /\ i + 0 \in DOMAIN stdin /\ stdin'[i] = stdin[i + 0]
                                     /\ i \in Nat /\ i > 0
        BY <1>1, <2>1
      <3> QED
        BY <2>1, <3>1
    <2>2. CASE stdin # <<>> /\ stdin' = Tail(stdin)
      <3>1. \A i \in DOMAIN Tail(stdin) : i \in Nat /\ i > 0
        BY <1>1, <2>2
      <3>2. \A i \in DOMAIN Tail(stdin) : i + 1 \in DOMAIN stdin /\ Tail(stdin)[i] = stdin[i + 1]
        BY <1>1, <2>2, TailIndex
      <3> QED
        BY <2>2, <3>1, <3>2
    <2> QED
      BY <2>1, <2>2
  <1>3. ASSUME NEW r \in Request
        PROVE  KnownByLine(r)'
    <2>1. /\ pc[r] \in Early => job[r] = "unknown" /\ \A i \in DOMAIN stdin : stdin[i] # Ask(r)
          /\ pc[r] \in Early \ {"registered"} => r \notin inflight /\ queue[r] = <<>>
          /\ \A i \in DOMAIN stdin : stdin[i] = Ask(r) => job[r] = "unknown"
          /\ \A i, j \in DOMAIN stdin : stdin[i] = Ask(r) /\ stdin[j] = Ask(r) => i = j
      BY DEF UnknownYet, KnownByLine
    <2>2. Ask(r)' = Ask(r)
      BY DEF Ask
    <2>3. pc[r] \in Early => job'[r] = "unknown" /\ \A i \in DOMAIN stdin' : stdin'[i] # Ask(r)
      <3>1. stdin # <<>> => 1 \in DOMAIN stdin /\ Head(stdin) = stdin[1]
        BY <1>1, TailIndex
      <3> QED
        BY <1>2, <2>1, <3>1
    <2>4. ASSUME NEW i \in DOMAIN stdin', stdin'[i] = Ask(r) PROVE job'[r] = "unknown"
      <3>1. i + d \in DOMAIN stdin /\ stdin[i + d] = Ask(r) /\ job[r] = "unknown"
        BY <1>2, <2>1, <2>4
      <3>2. ~ (stdin # <<>> /\ stdin' = Tail(stdin) /\ Head(stdin) = Ask(r) /\ d = 1)
        <4>1. stdin # <<>> => 1 \in DOMAIN stdin /\ Head(stdin) = stdin[1]
          BY <1>1, TailIndex
        <4>2. d = 1 => i + d # 1
          BY <1>2
        <4> QED
          BY <2>1, <3>1, <4>1, <4>2
      <3>3. stdin # <<>> /\ stdin' = Tail(stdin) => d = 1
        <4>1. stdin # <<>> => Len(Tail(stdin)) = Len(stdin) - 1 /\ Len(stdin) \in Nat
          BY <1>1
        <4>2. ~ (stdin # <<>> /\ Tail(stdin) = stdin)
          BY <4>1
        <4> QED
          BY <1>2, <4>2
      <3> QED
        BY <3>1, <3>2, <3>3
    <2>5. \A i, j \in DOMAIN stdin' : stdin'[i] = Ask(r) /\ stdin'[j] = Ask(r) => i = j
      <3> SUFFICES ASSUME NEW i \in DOMAIN stdin', NEW j \in DOMAIN stdin',
                          stdin'[i] = Ask(r), stdin'[j] = Ask(r)
                   PROVE  i = j
        OBVIOUS
      <3>1. i + d = j + d /\ i \in Nat /\ j \in Nat
        BY <1>2, <2>1
      <3> QED
        BY <3>1
    <2> QED
      BY <2>1, <2>2, <2>3, <2>4, <2>5 DEF KnownByLine
  <1> QED
    BY <1>3 DEF UnknownYet, KnownByLine

\* What the worker does with a request it has not ended: it may write one event,
\* and an end is the last one.
LEMMA WorkFlow ==
  ASSUME TypeOK, Flow, UnknownYet', NEW r \in Request, NEW x \in Jobs \ {"unknown"},
         job[r] \notin Ended, job' = [job EXCEPT ![r] = x],
         UNCHANGED <<pc, result, seen, inflight, queue, receipt, hand>>,
         \/ stdout' = stdout /\ sent' = sent /\ x \notin Ended
         \/ \E k \in EventKinds : /\ Emit(r, k) /\ job[r] # "unknown"
                                  /\ sent' = IF k = "event" THEN [sent EXCEPT ![r] = @ + 1] ELSE sent
                                  /\ k \in Ended \/ x \in Ended => x = k
  PROVE  Flow'
  <1> USE DEF Flow
  <1>1. PICK k \in EventKinds :
          \/ stdout' = stdout /\ sent' = sent /\ x \notin Ended
          \/ /\ stdout' = Append(stdout, Event(r, k)) /\ job[r] # "unknown"
             /\ sent' = IF k = "event" THEN [sent EXCEPT ![r] = @ + 1] ELSE sent
             /\ k \in Ended \/ x \in Ended => x = k
    BY DEF Emit, EventKinds
  <1>2. stdout \in Seq(Events) /\ Event(r, k) \in Events /\ Event(r, k).id = r /\ Event(r, k).kind = k
    BY DEF TypeOK, Event, Events
  <1>3. /\ \A q \in Request \ {r} : job'[q] = job[q] /\ sent'[q] = sent[q]
        /\ job'[r] = x
    BY <1>1 DEF TypeOK
  <1>4. /\ \A i \in DOMAIN stdout : i \in DOMAIN stdout' /\ stdout'[i] = stdout[i] /\ i < Len(stdout) + 1
        /\ \A i \in DOMAIN stdout' :
             \/ i \in DOMAIN stdout /\ stdout'[i] = stdout[i]
             \/ /\ i = Len(stdout) + 1 /\ stdout'[i] = Event(r, k) /\ job[r] # "unknown"
                /\ k \in Ended => x = k
    <2>1. CASE stdout' = stdout
      BY <1>2, <2>1
    <2>2. CASE stdout' = Append(stdout, Event(r, k)) /\ job[r] # "unknown" /\ (k \in Ended => x = k)
      BY <1>2, <2>2, AppendIndex
    <2> QED
      BY <1>1, <2>1, <2>2
  <1>5. /\ \A i \in DOMAIN stdout : stdout[i].id = r => stdout[i].kind \notin Ended
        /\ hand.event.id = r => hand.event.kind \notin Ended
        /\ \A i \in DOMAIN queue[r] : queue[r][i].kind \notin Ended
        /\ result[r] # "done"
        /\ \A w \in Waiter : Target[w] = r => /\ result[w] # "cancelled"
                                              /\ \A i \in DOMAIN receipt[w] : receipt[w][i].kind # "cancelled"
    <2>1. /\ \A i \in DOMAIN stdout : stdout[i].id = r => stdout[i].kind \notin Ended
          /\ hand.event.id = r => hand.event.kind \notin Ended
          /\ \A i \in DOMAIN queue[r] : queue[r][i].kind \notin Ended
      BY DEF EndsAreReal
    <2>2. /\ result[r] # "done"
          /\ \A w \in Waiter : Target[w] = r => /\ result[w] # "cancelled"
                                                /\ \A i \in DOMAIN receipt[w] : receipt[w][i].kind # "cancelled"
      BY DEF EndsAreReal, ResultsAreReal, ReceiptIsReal, Ended
    <2> QED
      BY <2>1, <2>2
  <1>6. NothingOfUnknown'
    <2> SUFFICES ASSUME NEW q \in Request, job'[q] = "unknown"
                 PROVE  /\ seen[q] = 0 /\ sent'[q] = 0
                        /\ \A i \in DOMAIN stdout' : stdout'[i].id # q
                        /\ hand.event.id # q
                        /\ \A i \in DOMAIN queue[q] : queue[q][i] = Exit
      BY DEF NothingOfUnknown
    <2>1. q # r /\ job[q] = "unknown"
      BY <1>3
    <2>2. \A i \in DOMAIN stdout' : stdout'[i].id # q
      BY <1>2, <1>4, <2>1 DEF NothingOfUnknown
    <2> QED
      BY <1>3, <2>1, <2>2 DEF NothingOfUnknown
  <1>7. RightQueue'
    BY DEF RightQueue
  <1>8. EndsAreReal'
    <2>1. ASSUME NEW i \in DOMAIN stdout', stdout'[i].kind \in Ended PROVE job'[stdout'[i].id] = stdout'[i].kind
      <3>1. CASE i \in DOMAIN stdout /\ stdout'[i] = stdout[i]
        <4>0. stdout[i] \in Events
          BY <1>2, <3>1
        <4>1. stdout[i].id \in Request /\ stdout[i].id # r
          BY <1>5, <2>1, <3>1, <4>0 DEF Events
        <4> QED
          BY <1>3, <2>1, <3>1, <4>1 DEF EndsAreReal
      <3>2. CASE stdout'[i] = Event(r, k) /\ (k \in Ended => x = k)
        BY <1>2, <1>3, <2>1, <3>2
      <3> QED
        BY <1>4, <3>1, <3>2
    <2>2. hand.event.kind \in Ended => job'[hand.event.id] = hand.event.kind
      <3>1. hand.event.kind \in Ended => hand.event.id \in Request
        BY DEF TypeOK, Events, Exit, Ended
      <3> QED
        BY <1>3, <1>5, <3>1 DEF EndsAreReal
    <2>3. \A q \in Request : \A i \in DOMAIN queue[q] :
             queue[q][i].kind \in Ended => job'[q] = queue[q][i].kind
      BY <1>3, <1>5 DEF EndsAreReal
    <2>4. \A w \in Waiter : \A i \in DOMAIN receipt[w] :
             receipt[w][i].kind = "cancelled" => job'[Target[w]] = "cancelled"
      BY <1>3, <1>5, TargetType DEF EndsAreReal
    <2> QED
      BY <2>1, <2>2, <2>3, <2>4 DEF EndsAreReal
  <1>9. DoneIsLast'
    <2>1. ASSUME NEW q \in Request
          PROVE  /\ Event(q, "done") = Event(q, "done")' /\ Event(q, "event")' = Event(q, "event")
                 /\ Event(q, "event").id = q /\ Event(q, "event").kind = "event"
                 /\ Event(q, "done").id = q /\ Event(q, "done").kind = "done"
      BY DEF Event
    <2>2. ASSUME NEW q \in Request, NEW i \in DOMAIN stdout', NEW j \in DOMAIN stdout',
                 stdout'[i] = Event(q, "done"), stdout'[j] = Event(q, "event")
          PROVE  j < i
      <3>1. CASE j \in DOMAIN stdout /\ stdout'[j] = stdout[j]
        <4>1. CASE i \in DOMAIN stdout /\ stdout'[i] = stdout[i]
          BY <2>2, <3>1, <4>1 DEF DoneIsLast
        <4>2. CASE i = Len(stdout) + 1
          BY <1>4, <3>1, <4>2
        <4> QED
          BY <1>4, <4>1, <4>2
      <3>2. CASE j = Len(stdout) + 1 /\ stdout'[j] = Event(r, k)
        <4>1. q = r /\ k = "event"
          BY <1>2, <2>1, <2>2, <3>2
        <4>2. i \in DOMAIN stdout /\ stdout[i] = Event(r, "done")
          BY <1>2, <1>4, <2>1, <2>2, <4>1
        <4> QED
          BY <1>5, <2>1, <4>2 DEF Ended
      <3> QED
        BY <1>4, <3>1, <3>2
    <2>3. ASSUME NEW q \in Request, NEW j \in DOMAIN stdout', stdout'[j] = Event(q, "event"),
                 \/ hand.event = Event(q, "done")
                 \/ \E i \in DOMAIN queue[q] : queue[q][i].kind = "done"
          PROVE  FALSE
      <3>1. q # r
        BY <1>5, <2>1, <2>3 DEF Ended
      <3>2. j \in DOMAIN stdout /\ stdout[j] = Event(q, "event")
        BY <1>2, <1>4, <2>1, <2>3, <3>1
      <3> QED
        BY <2>3, <3>2 DEF DoneIsLast
    <2> QED
      BY <2>1, <2>2, <2>3 DEF DoneIsLast
  <1>10. NothingLost'
    <2>1. ASSUME NEW q \in Request
          PROVE  /\ Unheard(q)' = Unheard(q) /\ InHand(q)' = InHand(q)
                 /\ Count(stdout, Event(q, "event"))' = Count(stdout', Event(q, "event"))
                 /\ seen[q] \in Nat /\ sent[q] \in Nat /\ Unheard(q) \in Nat /\ InHand(q) \in Nat
                 /\ Count(stdout, Event(q, "event")) \in Nat
      <3>1. /\ Unheard(q)' = Unheard(q) /\ InHand(q)' = InHand(q)
            /\ Count(stdout, Event(q, "event"))' = Count(stdout', Event(q, "event"))
        BY DEF Unheard, InHand, Event
      <3>2. InHand(q) \in Nat
        BY DEF InHand
      <3>3. seen[q] \in Nat /\ sent[q] \in Nat /\ queue[q] \in Seq(Events \cup {Exit})
        BY DEF TypeOK
      <3> QED
        BY <1>2, <3>1, <3>2, <3>3, CountIsNat DEF Unheard
    <2>2. ASSUME NEW q \in Request
          PROVE  sent'[q] - sent[q] = Count(stdout', Event(q, "event")) - Count(stdout, Event(q, "event"))
      <3>1. CASE stdout' = stdout /\ sent' = sent
        BY <2>1, <3>1
      <3>2. CASE /\ stdout' = Append(stdout, Event(r, k))
                 /\ sent' = IF k = "event" THEN [sent EXCEPT ![r] = @ + 1] ELSE sent
        <4>1. Count(stdout', Event(q, "event"))
                = Count(stdout, Event(q, "event")) + (IF Event(r, k) = Event(q, "event") THEN 1 ELSE 0)
          BY <1>2, <3>2, CountAppend
        <4>2. Event(r, k) = Event(q, "event") <=> q = r /\ k = "event"
          BY DEF Event
        <4>3. sent'[q] = IF q = r /\ k = "event" THEN sent[q] + 1 ELSE sent[q]
          BY <3>2 DEF TypeOK
        <4> QED
          BY <2>1, <4>1, <4>2, <4>3
      <3> QED
        BY <1>1, <3>1, <3>2
    <2>3. ASSUME NEW q \in Request, q \in inflight
          PROVE  seen[q] + Unheard(q) + InHand(q) + Count(stdout', Event(q, "event")) = sent'[q]
      <3>1. seen[q] + Unheard(q) + InHand(q) + Count(stdout, Event(q, "event")) = sent[q]
        BY <2>3 DEF NothingLost, HeardOf
      <3>2. sent'[q] \in Nat /\ Count(stdout', Event(q, "event")) \in Nat
        <4>1. stdout' \in Seq(Events)
          BY <1>1, <1>2
        <4>2. sent'[q] = sent[q] \/ sent'[q] = sent[q] + 1
          BY <1>1 DEF TypeOK
        <4>3. sent'[q] \in Nat
          BY <2>1, <4>2
        <4> QED
          BY <4>1, <4>3, CountIsNat
      <3>3. /\ seen[q] \in Nat /\ sent[q] \in Nat /\ Unheard(q) \in Nat /\ InHand(q) \in Nat
            /\ Count(stdout, Event(q, "event")) \in Nat
        BY <2>1
      <3>4. sent'[q] - sent[q] = Count(stdout', Event(q, "event")) - Count(stdout, Event(q, "event"))
        BY <2>2
      <3> QED
        BY <3>1, <3>2, <3>3, <3>4
    <2>4. ASSUME NEW q \in Request, pc[q] = "wait", NEW i \in DOMAIN queue[q], queue[q][i].kind = "done",
                 \A j \in 1 .. i : queue[q][j] # Exit
          PROVE  seen[q] + Unheard(q) = sent'[q]
      <3>1. q # r
        BY <1>5, <2>4 DEF Ended
      <3> QED
        BY <1>3, <2>4, <3>1 DEF NothingLost, HeardOf
    <2> QED
      BY <2>1, <2>3, <2>4 DEF NothingLost, HeardOf
  <1>11. ResultsAreReal'
    BY <1>3, <1>5, TargetType DEF ResultsAreReal, ReceiptIsReal
  <1> QED
    BY <1>6, <1>7, <1>8, <1>9, <1>10, <1>11

\* The steps of the worker.
LEMMA WorkerFlow ==
  ASSUME TypeOK, Flow, WorkerNext
  PROVE  Flow'
  <1>0. UnknownYet
    BY DEF Flow
  <1>1. CASE WorkerRead
    <2> DEFINE r == Head(stdin).id
    <2>1. /\ stdin # <<>> /\ stdin' = Tail(stdin) /\ stdin \in Seq(Lines) /\ Head(stdin) \in Lines /\ r \in Request
          /\ UNCHANGED <<pc, result, seen, inflight, queue, receipt, hand, sent>>
      <3>0. stdin \in Seq(Lines)
        BY DEF TypeOK
      <3>4. stdin # <<>> /\ stdin' = Tail(stdin)
        BY <1>1, Zenon DEF WorkerRead
      <3>1. stdin # <<>> /\ stdin' = Tail(stdin) /\ stdin \in Seq(Lines)
        BY <3>0, <3>4
      <3>5. Head(stdin) \in Lines
        BY <3>1
      <3>2. Head(stdin) \in Lines /\ r \in Request
        BY <3>5 DEF Lines
      <3>3. UNCHANGED <<pc, result, seen, inflight, queue, receipt, hand, sent>>
        BY <1>1 DEF WorkerRead, clients, tables, queues, reading
      <3> QED
        BY <3>1, <3>2, <3>3
    <2>2. CASE Head(stdin).kind = "request"
      <3>1. Head(stdin) = Ask(r) /\ job' = [job EXCEPT ![r] = "accepted"] /\ stdout' = stdout
        BY <1>1, <2>1, <2>2 DEF WorkerRead, Lines, Ask
      <3>2. job[r] = "unknown"
        <4>1. 1 \in DOMAIN stdin /\ Head(stdin) = stdin[1]
          BY <2>1, TailIndex
        <4> QED
          BY <1>0, <2>1, <3>1, <4>1 DEF UnknownYet, KnownByLine
      <3>3. UnknownYet'
        BY <1>0, <2>1, <3>1, LinesTaken DEF TypeOK
      <3> QED
        BY <2>1, <3>1, <3>2, <3>3, WorkFlow DEF Ended, Jobs
    <2>3. CASE Head(stdin).kind = "cancel" /\ job[r] = "accepted"
      <3>1. Emit(r, "notTripped") /\ job' = job
        BY <1>1, <2>3 DEF WorkerRead
      <3>2. UnknownYet'
        BY <1>0, <2>1, <3>1, LinesTaken
      <3>3. job' = [job EXCEPT ![r] = "accepted"]
        BY <2>3, <3>1 DEF TypeOK
      <3> QED
        BY <2>1, <2>3, <3>1, <3>2, <3>3, WorkFlow DEF Ended, Jobs, EventKinds
    <2>4. CASE Head(stdin).kind = "cancel" /\ job[r] = "running"
      <3>1. job' = [job EXCEPT ![r] = "tripped"] /\ stdout' = stdout
        BY <1>1, <2>4 DEF WorkerRead
      <3>2. UnknownYet'
        <4>1. \A q \in Request : job[q] = "unknown" => job'[q] = "unknown"
          BY <2>4, <3>1 DEF TypeOK
        <4> QED
          BY <1>0, <2>1, <4>1, LinesTaken
      <3> QED
        BY <2>1, <2>4, <3>1, <3>2, WorkFlow DEF Ended, Jobs
    <2>5. CASE UNCHANGED <<job, stdout>>
      <3>1. UnknownYet'
        BY <1>0, <2>1, <2>5, LinesTaken
      <3>2. NothingOfUnknown' /\ RightQueue' /\ EndsAreReal' /\ DoneIsLast'
        BY <2>1, <2>5 DEF Flow, NothingOfUnknown, RightQueue, EndsAreReal, DoneIsLast, Event
      <3>3. NothingLost' /\ ResultsAreReal'
        BY <2>1, <2>5 DEF Flow, NothingLost, HeardOf, Unheard, InHand, HasExit, ResultsAreReal,
                          ReceiptIsReal
      <3> QED
        BY <3>1, <3>2, <3>3 DEF Flow
    <2> QED
      BY <1>1, <2>2, <2>3, <2>4, <2>5 DEF WorkerRead
  <1>2. CASE WorkerExits
    BY <1>2, QuietSteps
  <1>3. ASSUME NEW r \in Request, WorkerStart(r) \/ WorkerEmit(r) \/ WorkerDone(r) \/ WorkerCancelled(r)
        PROVE  Flow'
    <2>1. UNCHANGED <<pc, result, seen, inflight, queue, receipt, hand, stdin>>
      BY <1>3
         DEF WorkerStart, WorkerEmit, WorkerDone, WorkerCancelled, clients, tables, queues,
             reading
    <2>2. /\ job[r] \in Jobs \ (Ended \cup {"unknown"})
          /\ \/ job' = [job EXCEPT ![r] = "running"] /\ stdout' = stdout /\ sent' = sent
             \/ job' = [job EXCEPT ![r] = job[r]] /\ Emit(r, "event") /\ sent' = [sent EXCEPT ![r] = @ + 1]
             \/ job' = [job EXCEPT ![r] = "done"] /\ Emit(r, "done") /\ sent' = sent
             \/ job' = [job EXCEPT ![r] = "cancelled"] /\ Emit(r, "cancelled") /\ sent' = sent
      BY <1>3 DEF WorkerStart, WorkerEmit, WorkerDone, WorkerCancelled, TypeOK, Ended, Jobs
    <2>3. UnknownYet'
      <3>1. \A q \in Request : job[q] = "unknown" => job'[q] = "unknown"
        BY <2>2 DEF TypeOK
      <3> QED
        BY <1>0, <2>1, <3>1, LinesTaken
    <2> QED
      BY <2>1, <2>2, <2>3, WorkFlow DEF Ended, Jobs, EventKinds
  <1> QED
    BY <1>1, <1>2, <1>3 DEF WorkerNext

\* Nothing flows at the start.
LEMMA InitFlow == Init => Flow
  BY KindsDisjoint
     DEF Init, Idle, Exit, Flow, UnknownYet, KnownByLine, Early, Ask, NothingOfUnknown, RightQueue,
         EndsAreReal,
     Ended, DoneIsLast, Event, NothingLost, HeardOf, ResultsAreReal, ReceiptIsReal

\* Every step keeps it.
LEMMA FlowStep ==
  ASSUME TypeOK, Waking, Flow, [Next]_vars
  PROVE  Flow'
  <1>1. CASE CloseWake \/ ReadEOF
    BY <1>1, WakeFlow DEF CloseWake, ReadEOF, clients, reading, worker
  <1>2. ASSUME NEW r \in Request, RequestNext(r) PROVE Flow'
    <2>1. CASE Receive(r)
      BY <2>1, ReceiveFlow
    <2>2. CASE WriteRequest(r) /\ MayWrite
      BY <2>2, WriteFlow
    <2>3. CASE ~Receive(r) /\ ~(WriteRequest(r) /\ MayWrite)
      <3>1. \/ AcquireSlot(r) \/ GiveUpSlot(r) \/ CheckSlot(r) \/ Register(r) \/ (WriteRequest(r) /\ ~MayWrite)
            \/ SendCancel(r) \/ CancelDropped(r) \/ TimeOut(r) \/ Drop(r) \/ DropAcquire(r) \/ SetCancel(r)
        BY <1>2, <2>3 DEF RequestNext, RequestStep
      <3> QED
        BY <3>1, QuietSteps
    <2> QED
      BY <2>1, <2>2, <2>3
  <1>3. ASSUME NEW w \in Waiter, WaiterNext(w) PROVE Flow'
    <2>1. CASE GetReceipt(w)
      BY <2>1, ReceiptFlow
    <2>2. CASE ~GetReceipt(w)
      BY <1>3, <2>2, QuietSteps DEF WaiterNext, WaiterStep
    <2> QED
      BY <2>1, <2>2
  <1>4. CASE LateAcquire \/ CloseFlag \/ UNCHANGED vars
    BY <1>4, QuietSteps
  <1>5. CASE ReadEvent \/ Dispatch \/ WorkerNext
    BY <1>5, ReadFlow, DispatchFlow, WorkerFlow
  <1> QED
    BY <1>1, <1>2, <1>3, <1>4, <1>5 DEF Next, ReaderStep

\* It holds always.
LEMMA FlowAlways == Spec => []Flow
  <1>1. IInv => TypeOK /\ Waking
    BY DEF IInv, Waking
  <1> QED
    BY <1>1, InitFlow, FlowStep, IInvAlways, PTL DEF Spec

\* A request that ends with done has yielded every event the worker wrote for it,
\* for any number of requests, events and slots, and whatever close(), the end of the
\* worker and the other clients do meanwhile.
THEOREM DoneCorrect == Spec => []DoneIsComplete
  <1>1. Flow => DoneIsComplete
    BY DEF Flow, ResultsAreReal, DoneIsComplete
  <1> QED
    BY <1>1, FlowAlways, PTL

\* A receipt of cancel_and_wait is never fabricated: the worker did cancel the
\* request, for any number of waiters and of requests.
THEOREM ReceiptsCorrect == Spec => []ReceiptIsReal
  <1>1. Flow => ReceiptIsReal
    BY DEF Flow, ResultsAreReal
  <1> QED
    BY <1>1, FlowAlways, PTL
=============================================================================
